-------------------------- MODULE NvmeQueue_proofs --------------------------
(***************************************************************************)
(* Theorems about NvmeQueue for queues of any size, any number of chunks   *)
(* and of calls: commands stay intact while the controller may use them    *)
(* (CommandsIntact), success means that they are done (SuccessMeansDone),  *)
(* and the driver waits only for what is owed (WaitsForOwed).  They assume *)
(* that both queues have the size the driver takes for granted, as they    *)
(* do with every controller whose MQES allows it; NvmeQueueSmall.cfg shows *)
(* why that is needed.                                                     *)
(***************************************************************************)
EXTENDS NvmeQueue, FiniteSetTheorems, TLAPS

-----------------------------------------------------------------------------
(* The inductive invariant.                                                 *)

\* MQES is no limit.
SameSize == CqSize = SqSize /\ CqDevice = SqSize

\* k entries after entry p of a queue.
After(p, k) == IF p + k >= SqSize THEN p + k - SqSize ELSE p + k

\* The phase that nvme_sync_cmd takes for old, k entries after the next one.
OldPhase(k) == IF cq_h + k >= SqSize THEN 1 - pt ELSE pt

\* The indices of the two queues, counted from what the driver has consumed: the
\* controller has completed v commands more, fetched f more and been told of t
\* more, and u more have been submitted; the driver knows that r have been
\* fetched, and has consumed g entries that it did not give back yet.
Indices(u, v, f, t, r, g) ==
    /\ v <= f /\ f <= t /\ t <= u /\ u <= SqSize
    /\ r <= f /\ u - r <= SqSize - 1 /\ g + v <= SqSize - 1
    /\ sq_t = After(cq_h, u) /\ tail = After(cq_h, t)
    /\ head = After(cq_h, f) /\ sqhd = After(cq_h, r)
    /\ cqtail = After(cq_h, v) /\ cq_h = After(cqhead, g)

\* The entries of the completion queue that the driver has not consumed are the
\* new ones by their phase.  Entry k reports h[k] commands as fetched.
Entries(v, f, r, h) ==
    /\ phase = 1 - OldPhase(v)
    /\ \A k \in 0 .. SqSize - 1 :
           cq[After(cq_h, k)].phase = IF k < v THEN 1 - OldPhase(k) ELSE OldPhase(k)
    /\ \A k \in 0 .. SqSize - 1 : k < v =>
           /\ cq[After(cq_h, k)].sqhd = After(cq_h, h[k])
           /\ k < h[k] /\ r <= h[k] /\ h[k] <= f
           /\ \A l \in 0 .. SqSize - 1 : k <= l /\ l < v => h[k] <= h[l]

\* What is open is what has been submitted and not completed.
Amounts(u, v, f) ==
    /\ Len(queued) = u - f
    /\ \A i \in 1 .. Len(queued) : queued[i] = sq[After(head, i - 1)]
    /\ IsFiniteSet(inflight) /\ Cardinality(inflight) = f - v

\* The ids of open commands are older than the next one, and in order.
Ids ==
    /\ \A c \in inflight : c.cid < cid
    /\ \A i \in 1 .. Len(queued) : queued[i].cid < cid
    /\ \A c \in inflight, i \in 1 .. Len(queued) : c.cid < queued[i].cid
    /\ \A i, j \in 1 .. Len(queued) : i < j => queued[i].cid < queued[j].cid
    /\ \A a, b \in inflight : a.cid = b.cid => a = b

\* Where nvme_rw is, and what it still has to wait for.
Control(u, t) ==
    /\ u <= cid
    /\ pc = "sync" => ncmds = u /\ t = u /\ (then = "chunk" => ~ needs_sync)
    /\ pc = "submit" => u = 0 /\ left > 0
    /\ pc = "sync" /\ then = "submit" => left > 0
    /\ pc = "chunk" /\ needs_sync => u > 0
    /\ pc = "chunk" /\ left = 0 /\ ~ needs_sync => u = 0
    /\ pc = "idle" /\ result = "ok" => u = 0
    /\ pc # "idle" => call > 0

Counted(u, v, f, t, r, g, h) ==
    /\ Indices(u, v, f, t, r, g) /\ Entries(v, f, r, h) /\ Amounts(u, v, f) /\ Control(u, t)

IInv ==
    /\ SameSize /\ NvmeTypeOK /\ Ids
    /\ \E u, v, f, t, r, g \in 0 .. SqSize, h \in [0 .. SqSize - 1 -> 0 .. SqSize] :
           Counted(u, v, f, t, r, g, h)

-----------------------------------------------------------------------------
(* Positions in a queue.                                                    *)

\* The sizes.
LEMMA Size == SqSize \in Nat /\ SqSize > 1 /\ MaxChunks \in Nat /\ MaxCalls \in Nat
BY NvmeAssumption

\* Counting on from where one is.
LEMMA AfterSum ==
    ASSUME NEW p \in 0 .. SqSize - 1, NEW k \in 0 .. SqSize, NEW l \in 0 .. SqSize,
           k + l <= SqSize
    PROVE  /\ After(p, k) \in 0 .. SqSize - 1
           /\ After(After(p, k), l) = After(p, k + l)
           /\ After(p, 0) = p
BY Size DEF After

\* Less than one turn apart, two positions are equal only when the counts are.
LEMMA AfterSame ==
    ASSUME NEW p \in 0 .. SqSize - 1, NEW k \in 0 .. SqSize, NEW l \in 0 .. SqSize,
           After(p, k) = After(p, l), k - l < SqSize, l - k < SqSize
    PROVE  k = l
BY Size DEF After

\* How the driver and the controller step on.
LEMMA AfterNext ==
    ASSUME NEW p \in 0 .. SqSize - 1
    PROVE  (p + 1) % SqSize = After(p, 1)
<1>1. \A n \in Nat, x \in Int : n > 1 /\ 0 <= x /\ x < n => x % n = x
  OBVIOUS
<1>2. \A n \in Nat : n > 1 => n % n = 0
  OBVIOUS
<1>3. QED
  BY <1>1, <1>2, Size DEF After

\* Entries of QueueIntact.
LEMMA AfterMod ==
    ASSUME NEW p \in 0 .. SqSize - 1, NEW k \in 0 .. SqSize
    PROVE  (p + k) % SqSize = After(p, k) /\ (k < SqSize => (After(p, k) - p) % SqSize = k)
<1>1. \A n \in Nat, x \in Int : n > 1 /\ 0 <= x /\ x < n => x % n = x
  OBVIOUS
<1>2. \A n \in Nat, x \in Int : n > 1 /\ n <= x /\ x < 2 * n => x % n = x - n
  OBVIOUS
<1>3. \A n \in Nat, x \in Int : n > 1 /\ x < 0 /\ -n <= x => x % n = x + n
  OBVIOUS
<1>4. (p + k) % SqSize = After(p, k)
  BY <1>1, <1>2, Size DEF After
<1>5. k < SqSize => (After(p, k) - p) % SqSize = k
  BY <1>1, <1>3, Size DEF After
<1>6. QED
  BY <1>4, <1>5

\* The types, with one size for both queues.
LEMMA Types ==
    ASSUME SameSize, NvmeTypeOK
    PROVE  /\ sq_t \in 0 .. SqSize - 1 /\ sqhd \in 0 .. SqSize - 1
           /\ cq_h \in 0 .. SqSize - 1 /\ pt \in 0 .. 1 /\ cid \in Nat
           /\ sq \in [0 .. SqSize - 1 -> Commands \cup {NoCommand}]
           /\ cq \in [0 .. SqSize - 1 -> [phase : 0 .. 1, sqhd : 0 .. SqSize - 1]]
           /\ ncmds \in 0 .. SqSize
           /\ tail \in 0 .. SqSize - 1 /\ head \in 0 .. SqSize - 1
           /\ cqtail \in 0 .. SqSize - 1 /\ cqhead \in 0 .. SqSize - 1 /\ phase \in 0 .. 1
           /\ queued \in Seq(Commands) /\ inflight \subseteq Commands
           /\ call \in 0 .. MaxCalls /\ left \in 0 .. MaxChunks /\ needs_sync \in BOOLEAN
BY DEF SameSize, NvmeTypeOK

\* Ids are numbers.
LEMMA IdTypes ==
    ASSUME SameSize, NvmeTypeOK
    PROVE  /\ \A c \in inflight : c.cid \in Int
           /\ \A i \in 1 .. Len(queued) : queued[i].cid \in Int
<1>1. queued \in Seq(Commands) /\ inflight \subseteq Commands
  BY Types
<1>2. \A c \in Commands : c.cid \in Int
  BY Size DEF Commands
<1>3. \A i \in 1 .. Len(queued) : queued[i] \in Commands
  BY <1>1
<1>4. QED
  BY <1>1, <1>2, <1>3

\* How the invariant is shown again.
LEMMA Again ==
    ASSUME SameSize, NvmeTypeOK', Ids',
           NEW u \in 0 .. SqSize, NEW v \in 0 .. SqSize, NEW f \in 0 .. SqSize,
           NEW t \in 0 .. SqSize, NEW r \in 0 .. SqSize, NEW g \in 0 .. SqSize,
           NEW h \in [0 .. SqSize - 1 -> 0 .. SqSize],
           Indices(u, v, f, t, r, g)', Entries(v, f, r, h)', Amounts(u, v, f)', Control(u, t)'
    PROVE  IInv'
<1>1. Counted(u, v, f, t, r, g, h)'
  BY DEF Counted
<1>2. SameSize'
  BY DEF SameSize
<1>3. QED
  BY <1>1, <1>2 DEF IInv

\* A step that leaves the completion queue and its indices alone.
LEMMA EntriesKept ==
    ASSUME NEW v, NEW f, NEW r, NEW h, Entries(v, f, r, h), UNCHANGED <<cq_h, pt, cq, phase>>
    PROVE  Entries(v, f, r, h)'
<1>1. \A k : OldPhase(k)' = OldPhase(k)
  BY DEF OldPhase
<1>2. QED
  BY <1>1 DEF Entries

\* A step that leaves the commands alone.
LEMMA CommandsKept ==
    ASSUME UNCHANGED <<sq, queued, inflight, head>>
    PROVE  /\ \A u, v, f : Amounts(u, v, f) => Amounts(u, v, f)'
           /\ Ids /\ cid' = cid => Ids'
BY DEF Amounts, Ids

-----------------------------------------------------------------------------
(* The driver.                                                              *)

\* nvme_rw begins or gives up.
LEMMA CallStep ==
    ASSUME IInv, NoBuffer \/ Timeout \/ \E n \in 1 .. MaxChunks : Start(n)
    PROVE  IInv'
<1>1. PICK u \in 0 .. SqSize, v \in 0 .. SqSize, f \in 0 .. SqSize, t \in 0 .. SqSize,
           r \in 0 .. SqSize, g \in 0 .. SqSize, h \in [0 .. SqSize - 1 -> 0 .. SqSize] :
        Counted(u, v, f, t, r, g, h)
  BY DEF IInv
<1>2. UNCHANGED <<sq_t, cq_h, pt, sqhd, cid, sq, ncmds, then, device, cq, queued>>
  BY DEF NoBuffer, Timeout, Start
<1>3. Indices(u, v, f, t, r, g)'
  BY <1>1, <1>2 DEF Counted, Indices, device
<1>4. Entries(v, f, r, h)'
  BY <1>1, <1>2, EntriesKept DEF Counted, device
<1>5. Amounts(u, v, f)' /\ Ids'
  BY <1>1, <1>2, CommandsKept DEF Counted, device, IInv
<1>6. Control(u, t)' /\ NvmeTypeOK'
  <2>1. CASE NoBuffer \/ Timeout
    <3>1. pc' = "idle" /\ result' = "failed" /\ timedout' \in BOOLEAN
          /\ UNCHANGED <<call, left, needs_sync>>
      BY <2>1 DEF NoBuffer, Timeout, Return, IInv, NvmeTypeOK
    <3>2. Control(u, t)'
      BY <1>1, <1>2, <3>1 DEF Counted, Control
    <3>3. NvmeTypeOK'
      BY <1>2, <3>1 DEF IInv, NvmeTypeOK, device
    <3>4. QED
      BY <3>2, <3>3
  <2>2. ASSUME NEW n \in 1 .. MaxChunks, Start(n)
        PROVE  Control(u, t)' /\ NvmeTypeOK'
    <3>1. /\ pc' = "chunk" /\ call' = call + 1 /\ call < MaxCalls
          /\ left' = n /\ needs_sync' = FALSE
          /\ UNCHANGED <<result, timedout>>
      BY <2>2 DEF Start
    <3>2. n \in 0 .. MaxChunks /\ n > 0 /\ call' \in 0 .. MaxCalls /\ call' > 0
      <4>1. call \in 0 .. MaxCalls
        BY Types DEF IInv
      <4>2. QED
        BY <3>1, <4>1, Size
    <3>3. Control(u, t)'
      BY <1>1, <1>2, <3>1, <3>2 DEF Counted, Control
    <3>4. NvmeTypeOK'
      BY <1>2, <3>1, <3>2 DEF IInv, NvmeTypeOK, device
    <3>5. QED
      BY <3>3, <3>4
  <2>3. QED
    BY <2>1, <2>2
<1>7. QED
  BY <1>3, <1>4, <1>5, <1>6, Again DEF IInv

\* The driver waits for as many completions as it has not consumed.
LEMMA OutstandingIs ==
    ASSUME SameSize, NEW u \in 1 .. SqSize, cq_h \in 0 .. SqSize - 1, sq_t = After(cq_h, u)
    PROVE  Outstanding = u
BY Size DEF SameSize, Outstanding, After

\* nvme_sync_cmd begins: the queue is full, a buffer bounced, or all is queued.
LEMMA SyncStep ==
    ASSUME IInv, \/ CompleteFirst \/ SyncBounced
                 \/ Finish /\ needs_sync
    PROVE  IInv'
<1>1. PICK u \in 0 .. SqSize, v \in 0 .. SqSize, f \in 0 .. SqSize, t \in 0 .. SqSize,
           r \in 0 .. SqSize, g \in 0 .. SqSize, h \in [0 .. SqSize - 1 -> 0 .. SqSize] :
        Counted(u, v, f, t, r, g, h)
  BY DEF IInv
<1>2. /\ UNCHANGED <<sq_t, cq_h, pt, sqhd, cid, sq, call, left, result, timedout,
                     head, cqtail, cqhead, phase, inflight, cq, queued>>
      /\ pc = "chunk" /\ pc' = "sync" /\ tail' = sq_t /\ ncmds' = Outstanding
  BY DEF CompleteFirst, SyncBounced, Finish, BeginSync
<1>3. \/ then' = "submit" /\ left > 0 /\ Full /\ UNCHANGED needs_sync
      \/ then' = "chunk" /\ needs_sync /\ needs_sync' = FALSE
      \/ then' = "return" /\ needs_sync /\ UNCHANGED needs_sync
  BY DEF CompleteFirst, SyncBounced, Finish, BeginSync, StillNeedsSync
<1>4. cq_h \in 0 .. SqSize - 1 /\ sq_t \in 0 .. SqSize - 1 /\ sq_t = After(cq_h, u)
  BY <1>1, Types DEF IInv, Counted, Indices
<1>5. u > 0
  <2>1. CASE needs_sync
    BY <1>1, <1>2, <2>1 DEF Counted, Control
  <2>2. CASE Full
    <3>1. After(sq_t, 1) = sqhd
      BY <1>4, <2>2, AfterNext DEF Full
    <3>2. r <= u /\ u - r <= SqSize - 1 /\ sqhd = After(cq_h, r)
      BY <1>1, Size DEF Counted, Indices
    <3>3. u = 0 => r = 0 /\ sqhd = sq_t
      BY <1>4, <3>2, Size
    <3>4. After(sq_t, 1) # sq_t
      BY <1>4, Size DEF After
    <3>5. QED
      BY <3>1, <3>3, <3>4
  <2>3. QED
    BY <1>3, <2>1, <2>2
<1>6. ncmds' = u
  BY <1>2, <1>4, <1>5, OutstandingIs, Size DEF IInv
<1>7. Indices(u, v, f, u, r, g)'
  BY <1>1, <1>2, <1>4, Size DEF Counted, Indices
<1>8. Entries(v, f, r, h)'
  BY <1>1, <1>2, EntriesKept DEF Counted
<1>9. Amounts(u, v, f)' /\ Ids'
  BY <1>1, <1>2, CommandsKept DEF Counted, IInv
<1>10. Control(u, u)'
  BY <1>1, <1>2, <1>3, <1>6 DEF Counted, Control
<1>11. NvmeTypeOK'
  <2>1. ncmds' \in 0 .. CqSize /\ tail' \in 0 .. SqSize - 1
    BY <1>2, <1>4, <1>6 DEF IInv, SameSize
  <2>2. then' \in {"submit", "chunk", "return"} /\ needs_sync' \in BOOLEAN
    BY <1>3, Types DEF IInv
  <2>3. QED
    BY <1>2, <2>1, <2>2 DEF IInv, NvmeTypeOK
<1>12. QED
  BY <1>7, <1>8, <1>9, <1>10, <1>11, Again DEF IInv

\* nvme_sync_cmd ends, or there was nothing to wait for.
LEMMA SyncEndStep ==
    ASSUME IInv, SyncEnds \/ (Finish /\ ~ needs_sync)
    PROVE  IInv'
<1>1. PICK u \in 0 .. SqSize, v \in 0 .. SqSize, f \in 0 .. SqSize, t \in 0 .. SqSize,
           r \in 0 .. SqSize, g \in 0 .. SqSize, h \in [0 .. SqSize - 1 -> 0 .. SqSize] :
        Counted(u, v, f, t, r, g, h)
  BY DEF IInv
<1>2. UNCHANGED <<sq_t, cq_h, pt, sqhd, sq, call, left, needs_sync, ncmds, then, timedout,
                  tail, head, cqtail, phase, inflight, cq, queued>>
  BY DEF SyncEnds, Finish
<1>3. /\ u = 0 /\ pc # "idle"
      /\ pc' = "idle" \/ (pc = "sync" /\ pc' = then /\ then # "return")
      /\ result' \in {"ok", "failed"}
  <2>1. CASE SyncEnds
    BY <1>1, <2>1 DEF SyncEnds, Return, Counted, Control, IInv, NvmeTypeOK
  <2>2. CASE Finish /\ ~ needs_sync
    BY <1>1, <2>2 DEF Finish, Return, Counted, Control
  <2>3. QED
    BY <2>1, <2>2
<1>4. cid' \in Nat /\ (cqhead' = cq_h \/ cqhead' = cqhead)
  <2>1. cid \in Nat /\ 0 \in Nat
    BY Types DEF IInv
  <2>2. (cid' = 0 \/ cid' = cid) /\ (cqhead' = cq_h \/ cqhead' = cqhead)
    BY DEF SyncEnds, Finish, HeadRung
  <2>3. QED
    BY <2>1, <2>2
<1>5. v = 0 /\ f = 0 /\ t = 0 /\ r = 0
  BY <1>1, <1>3, Size DEF Counted, Indices
<1>6. /\ queued = << >> /\ inflight = {}
  <2>1. Len(queued) = 0 /\ IsFiniteSet(inflight) /\ Cardinality(inflight) = 0
    BY <1>1, <1>3, <1>5 DEF Counted, Amounts
  <2>2. QED
    BY <2>1, FS_EmptySet, Types DEF IInv
<1>7. PICK e \in 0 .. SqSize : Indices(u, v, f, t, r, e)'
  <2>1. Indices(u, v, f, t, r, g) /\ cq_h \in 0 .. SqSize - 1
    BY <1>1, Types DEF Counted, IInv
  <2>2. CASE cqhead' = cqhead
    BY <1>2, <2>1, <2>2 DEF Indices
  <2>3. CASE cqhead' = cq_h
    <3>1. cq_h = After(cq_h, 0) /\ 0 \in 0 .. SqSize
      BY <2>1, Size DEF After
    <3>2. Indices(u, v, f, t, r, 0)'
      BY <1>2, <1>3, <1>5, <2>1, <2>3, <3>1, Size DEF Indices
    <3>3. QED
      BY <3>1, <3>2
  <2>4. QED
    BY <1>4, <2>2, <2>3
<1>8. Entries(v, f, r, h)'
  BY <1>1, <1>2, EntriesKept DEF Counted
<1>9. Amounts(u, v, f)'
  BY <1>1, <1>2, CommandsKept DEF Counted
<1>10. Ids'
  BY <1>2, <1>6 DEF Ids
<1>11. Control(u, t)'
  <2>1. /\ call > 0 /\ (pc = "sync" => (then = "chunk" => ~ needs_sync))
        /\ pc = "sync" /\ then = "submit" => left > 0
    BY <1>1, <1>3 DEF Counted, Control
  <2>2. pc' = "idle" \/ pc' = "chunk" \/ pc' = "submit"
    BY <1>3 DEF IInv, NvmeTypeOK
  <2>3. u <= cid' /\ call' > 0
    BY <1>2, <1>3, <1>4, <2>1
  <2>4. (pc' = "submit" => left' > 0) /\ ~ (pc' = "chunk" /\ needs_sync')
    BY <1>2, <1>3, <2>1
  <2>5. QED
    BY <1>3, <2>2, <2>3, <2>4 DEF Control
<1>12. NvmeTypeOK'
  <2>1. cqhead' \in 0 .. CqSize - 1
    BY <1>4, Types DEF IInv, SameSize
  <2>2. pc' \in {"idle", "chunk", "submit", "sync"}
    BY <1>3 DEF IInv, NvmeTypeOK
  <2>3. QED
    BY <1>2, <1>3, <1>4, <2>1, <2>2 DEF IInv, NvmeTypeOK
<1>13. QED
  BY <1>7, <1>8, <1>9, <1>10, <1>11, <1>12, Again DEF IInv

\* A command is put into the queue, where no command is that the controller has
\* not fetched; or its id is used up.
LEMMA SubmitStep ==
    ASSUME IInv, Submit
    PROVE  IInv'
<1>1. PICK u \in 0 .. SqSize, v \in 0 .. SqSize, f \in 0 .. SqSize, t \in 0 .. SqSize,
           r \in 0 .. SqSize, g \in 0 .. SqSize, h \in [0 .. SqSize - 1 -> 0 .. SqSize] :
        Counted(u, v, f, t, r, g, h)
  BY DEF IInv
<1>2. /\ UNCHANGED <<cq_h, pt, sqhd, call, ncmds, then, timedout, device, cq>>
      /\ cid' = cid + 1 /\ cid \in Nat /\ cid' \in Nat
      /\ sq_t \in 0 .. SqSize - 1 /\ cq_h \in 0 .. SqSize - 1 /\ head \in 0 .. SqSize - 1
      /\ queued \in Seq(Commands) /\ sq \in [0 .. SqSize - 1 -> Commands \cup {NoCommand}]
  <2>1. cid' = cid + 1 /\ UNCHANGED <<cq_h, pt, sqhd, call, ncmds, then, timedout, device, cq>>
    BY DEF Submit
  <2>2. /\ cid \in Nat /\ sq_t \in 0 .. SqSize - 1 /\ cq_h \in 0 .. SqSize - 1
        /\ head \in 0 .. SqSize - 1
        /\ queued \in Seq(Commands) /\ sq \in [0 .. SqSize - 1 -> Commands \cup {NoCommand}]
    BY Types DEF IInv
  <2>3. QED
    BY <2>1, <2>2
<1>3. /\ v <= f /\ f <= t /\ t <= u /\ u <= SqSize
      /\ r <= f /\ u - r <= SqSize - 1 /\ g + v <= SqSize - 1 /\ u <= cid
      /\ sq_t = After(cq_h, u) /\ sqhd = After(cq_h, r) /\ head = After(cq_h, f)
  BY <1>1 DEF Counted, Indices, Control
<1>4. /\ Len(queued) = u - f /\ \A i \in 1 .. Len(queued) : queued[i] = sq[After(head, i - 1)]
      /\ IsFiniteSet(inflight) /\ Cardinality(inflight) = f - v
  BY <1>1 DEF Counted, Amounts
<1>5. sq_t = After(head, u - f) /\ u - f \in 0 .. SqSize - 1
  <2>1. f \in 0 .. SqSize /\ u - f \in 0 .. SqSize - 1 /\ f + (u - f) = u /\ u - f \in 0 .. SqSize
    BY <1>3, Size
  <2>2. After(After(cq_h, f), u - f) = After(cq_h, f + (u - f))
    BY <1>2, <1>3, <2>1, AfterSum
  <2>3. QED
    BY <1>3, <2>1, <2>2
<1>6. \A i \in 1 .. Len(queued) :
          After(head, i - 1) \in 0 .. SqSize - 1 /\ After(head, i - 1) # sq_t
  <2> SUFFICES ASSUME NEW i \in 1 .. Len(queued)
               PROVE  After(head, i - 1) \in 0 .. SqSize - 1 /\ After(head, i - 1) # sq_t
    OBVIOUS
  <2>1. i - 1 \in 0 .. SqSize /\ i - 1 < u - f
    BY <1>4, <1>5, Size
  <2>2. After(head, i - 1) \in 0 .. SqSize - 1
    BY <1>2, <2>1, Size DEF After
  <2>3. After(head, i - 1) = After(head, u - f) => i - 1 = u - f
    BY <1>2, <1>5, <2>1, AfterSame, Size
  <2>4. QED
    BY <1>5, <2>1, <2>2, <2>3
<1>7. (pc = "chunk" /\ left > 0) \/ pc = "submit"
  BY DEF Submit
<1>8. left > 0 /\ left \in 0 .. MaxChunks /\ call \in 1 .. MaxCalls
  <2>1. left > 0 /\ call > 0
    BY <1>1, <1>7 DEF Counted, Control
  <2>2. left \in 0 .. MaxChunks /\ call \in 0 .. MaxCalls
    BY Types DEF IInv
  <2>3. QED
    BY <2>1, <2>2, Size
<1>9. CASE cid >= SqSize
  <2>1. /\ sq' = [sq EXCEPT ![sq_t] = NoCommand]
        /\ pc' = "idle" /\ result' = "failed" /\ UNCHANGED <<sq_t, left, needs_sync, queued>>
    BY <1>9 DEF Submit, CommandId, Return
  <2>2. sq' \in [0 .. SqSize - 1 -> Commands \cup {NoCommand}]
    BY <1>2, <2>1
  <2>3. \A i \in 1 .. Len(queued) : queued[i] = sq'[After(head, i - 1)]
    BY <1>2, <1>4, <1>6, <2>1
  <2>4. Indices(u, v, f, t, r, g)'
    BY <1>1, <1>2, <2>1 DEF Counted, Indices, device
  <2>5. Entries(v, f, r, h)'
    BY <1>1, <1>2, EntriesKept DEF Counted, device
  <2>6. Amounts(u, v, f)'
    BY <1>2, <1>4, <2>1, <2>3 DEF Amounts, device
  <2>7. Ids'
    <3>1. Ids /\ \A x \in Int : x < cid => x < cid'
      BY <1>2 DEF IInv
    <3>2. /\ \A c \in inflight : c.cid \in Int
          /\ \A i \in 1 .. Len(queued) : queued[i].cid \in Int
      BY IdTypes DEF IInv
    <3>3. UNCHANGED <<inflight, queued>>
      BY <1>2, <2>1 DEF device
    <3>4. QED
      BY <3>1, <3>2, <3>3 DEF Ids
  <2>8. Control(u, t)'
    BY <1>2, <1>3, <1>8, <2>1, Size DEF Control
  <2>9. NvmeTypeOK'
    BY <1>2, <2>1, <2>2 DEF IInv, NvmeTypeOK, device
  <2>10. QED
    BY <2>4, <2>5, <2>6, <2>7, <2>8, <2>9, Again DEF IInv
<1>10. CASE cid < SqSize
  <2> DEFINE c == [call |-> call, chunk |-> left, cid |-> cid]
  <2>1. /\ sq' = [sq EXCEPT ![sq_t] = c]
        /\ queued' = Append(queued, c) /\ sq_t' = TailAfter /\ left' = left - 1
        /\ needs_sync' = TRUE /\ pc' = "chunk" /\ UNCHANGED result
    <3>1. ~ (CommandId >= SqSize)
      BY <1>2, <1>10, Size DEF CommandId
    <3>2. QED
      BY <3>1 DEF Submit, CommandId
  <2>2. c \in Commands /\ c.cid = cid
    <3>1. cid \in 0 .. SqSize - 1 /\ left \in 1 .. MaxChunks
      BY <1>2, <1>8, <1>10, Size
    <3>2. QED
      BY <1>8, <3>1 DEF Commands
  <2> HIDE DEF c
  <2>3. /\ u + 1 \in 0 .. SqSize /\ u + 1 - r <= SqSize - 1
        /\ sq_t' = After(cq_h, u + 1)
    <3>1. u + 1 \in 0 .. SqSize
      BY <1>2, <1>3, <1>10, Size
    <3>2. sq_t' = After(sq_t, 1)
      BY <1>2, <2>1, Size DEF TailAfter, After
    <3>3. After(sq_t, 1) = After(cq_h, u + 1)
      BY <1>2, <1>3, <3>1, AfterSum, Size
    <3>4. CASE pc = "submit"
      <4>1. u = 0
        BY <1>1, <3>4 DEF Counted, Control
      <4>2. QED
        BY <1>3, <3>1, <3>2, <3>3, <4>1, Size
    <3>5. CASE pc = "chunk"
      <4>1. (sq_t + 1) % SqSize # sqhd
        BY <3>5 DEF Submit, Full
      <4>2. After(cq_h, u + 1) # After(cq_h, r)
        BY <1>2, <1>3, <3>3, <4>1, AfterNext
      <4>3. u + 1 - r # SqSize
        <5>1. SUFFICES ASSUME u + 1 - r = SqSize
                       PROVE  FALSE
          OBVIOUS
        <5>2. u + 1 = SqSize /\ r = 0
          BY <1>3, <3>1, <5>1, Size
        <5>3. After(cq_h, SqSize) = After(cq_h, 0)
          BY <1>2, Size DEF After
        <5>4. QED
          BY <4>2, <5>2, <5>3
      <4>4. u + 1 - r <= SqSize - 1
        BY <1>3, <4>3, Size
      <4>5. QED
        BY <3>1, <3>2, <3>3, <4>4
    <3>6. QED
      BY <1>7, <3>4, <3>5
  <2>4. /\ sq' \in [0 .. SqSize - 1 -> Commands \cup {NoCommand}] /\ sq'[sq_t] = c
        /\ \A i \in 0 .. SqSize - 1 : i # sq_t => sq'[i] = sq[i]
    BY <1>2, <2>1, <2>2
  <2>5. /\ queued' \in Seq(Commands) /\ Len(queued') = Len(queued) + 1
        /\ queued'[Len(queued) + 1] = c
        /\ \A i \in 1 .. Len(queued) : queued'[i] = queued[i]
    BY <1>2, <2>1, <2>2
  <2>6. \A i \in 1 .. Len(queued') : i \in 1 .. Len(queued) \/ i = Len(queued) + 1
    BY <1>4, <1>5, <2>5
  <2>7. Indices(u + 1, v, f, t, r, g)'
    <3>1. t <= u + 1
      BY <1>3, Size
    <3>2. UNCHANGED <<cq_h, tail, head, sqhd, cqtail, cqhead>>
      BY <1>2 DEF device
    <3>3. QED
      BY <1>1, <2>3, <3>1, <3>2 DEF Counted, Indices
  <2>8. Entries(v, f, r, h)'
    BY <1>1, <1>2, EntriesKept DEF Counted, device
  <2>9. Amounts(u + 1, v, f)'
    <3>1. UNCHANGED <<head, inflight>>
      BY <1>2 DEF device
    <3>2. Len(queued') = u + 1 - f
      BY <1>3, <1>4, <2>5, Size
    <3>3. \A i \in 1 .. Len(queued') : queued'[i] = sq'[After(head, i - 1)]
      <4> SUFFICES ASSUME NEW i \in 1 .. Len(queued')
                   PROVE  queued'[i] = sq'[After(head, i - 1)]
        OBVIOUS
      <4>1. CASE i \in 1 .. Len(queued)
        BY <1>4, <1>6, <2>4, <2>5, <4>1
      <4>2. CASE i = Len(queued) + 1
        <5>1. i - 1 = u - f
          BY <1>4, <1>5, <4>2
        <5>2. QED
          BY <1>5, <2>4, <2>5, <4>2, <5>1
      <4>3. QED
        BY <2>6, <4>1, <4>2
    <3>4. QED
      BY <1>4, <3>1, <3>2, <3>3 DEF Amounts
  <2>10. Ids'
    <3>1. Ids /\ \A x \in Int : x < cid => x < cid'
      BY <1>2 DEF IInv
    <3>2. /\ \A b \in inflight : b.cid \in Int
          /\ \A i \in 1 .. Len(queued) : queued[i].cid \in Int
      BY IdTypes DEF IInv
    <3>3. UNCHANGED inflight /\ cid < cid' /\ Len(queued) \in Nat
      BY <1>2, <1>4, <1>5 DEF device
    <3>4. \A b \in inflight' : b.cid < cid'
      BY <3>1, <3>2, <3>3 DEF Ids
    <3>5. \A i \in 1 .. Len(queued') : queued'[i].cid < cid'
      BY <2>2, <2>5, <2>6, <3>1, <3>2, <3>3 DEF Ids
    <3>6. \A b \in inflight', i \in 1 .. Len(queued') : b.cid < queued'[i].cid
      BY <2>2, <2>5, <2>6, <3>1, <3>3 DEF Ids
    <3>7. ASSUME NEW i \in 1 .. Len(queued'), NEW j \in 1 .. Len(queued'), i < j
          PROVE  queued'[i].cid < queued'[j].cid
      <4>1. i \in 1 .. Len(queued)
        BY <2>5, <3>3, <3>7
      <4>2. QED
        BY <2>2, <2>5, <2>6, <3>1, <3>7, <4>1 DEF Ids
    <3>8. \A a, b \in inflight' : a.cid = b.cid => a = b
      BY <3>1, <3>3 DEF Ids
    <3>9. QED
      BY <3>4, <3>5, <3>6, <3>7, <3>8 DEF Ids
  <2>11. Control(u + 1, t)'
    <3>1. u + 1 <= cid' /\ u + 1 > 0 /\ call' > 0
      BY <1>2, <1>3, <1>8, Size
    <3>2. QED
      BY <2>1, <3>1 DEF Control
  <2>12. NvmeTypeOK'
    <3>1. left' \in 0 .. MaxChunks
      BY <1>8, <2>1, Size
    <3>2. sq_t' \in 0 .. SqSize - 1
      BY <1>2, <2>3, AfterSum, Size
    <3>3. QED
      BY <1>2, <2>1, <2>4, <2>5, <3>1, <3>2 DEF IInv, NvmeTypeOK, device
  <2>13. QED
    BY <2>3, <2>7, <2>8, <2>9, <2>10, <2>11, <2>12, Again DEF IInv
<1>11. QED
  BY <1>2, <1>9, <1>10, Size

\* One turn of the loop of nvme_sync_cmd: everything is counted from one entry
\* further on.
LEMMA ConsumeStep ==
    ASSUME IInv, Consume
    PROVE  IInv'
<1>1. PICK u \in 0 .. SqSize, v \in 0 .. SqSize, f \in 0 .. SqSize, t \in 0 .. SqSize,
           r \in 0 .. SqSize, g \in 0 .. SqSize, h \in [0 .. SqSize - 1 -> 0 .. SqSize] :
        Counted(u, v, f, t, r, g, h)
  BY DEF IInv
<1>2. /\ UNCHANGED <<sq_t, cid, sq, pc, call, left, needs_sync, then, result, timedout, device, cq,
                     queued>>
      /\ pc = "sync" /\ ncmds > 0 /\ ncmds' = ncmds - 1 /\ sqhd' = cq[cq_h].sqhd
      /\ cq[cq_h].phase # pt
  BY DEF Consume, Arrived
<1>3. /\ cq_h \in 0 .. SqSize - 1 /\ pt \in 0 .. 1 /\ cqhead \in 0 .. SqSize - 1
      /\ cq \in [0 .. SqSize - 1 -> [phase : 0 .. 1, sqhd : 0 .. SqSize - 1]]
      /\ cid \in Nat /\ ncmds \in 0 .. SqSize
  BY Types DEF IInv
<1>4. cq_h' = After(cq_h, 1) /\ cq_h' \in 0 .. SqSize - 1 /\ pt' = OldPhase(1) /\ pt' \in 0 .. 1
  <2>1. SqSize = CqSize
    BY DEF IInv, SameSize
  <2>2. /\ cq_h + 1 > SqSize - 1 => cq_h' = 0 /\ pt' = 1 - pt
        /\ ~ (cq_h + 1 > SqSize - 1) => cq_h' = cq_h + 1 /\ pt' = pt
    BY <2>1 DEF Consume
  <2>3. QED
    BY <1>3, <2>2, Size DEF After, OldPhase
<1>5. /\ v <= f /\ f <= t /\ t <= u /\ u <= SqSize
      /\ r <= f /\ u - r <= SqSize - 1 /\ g + v <= SqSize - 1
      /\ sq_t = After(cq_h, u) /\ tail = After(cq_h, t) /\ head = After(cq_h, f)
      /\ cqtail = After(cq_h, v) /\ cq_h = After(cqhead, g)
      /\ u <= cid /\ ncmds = u /\ t = u
  BY <1>1, <1>2 DEF Counted, Indices, Control
<1>6. /\ phase = 1 - OldPhase(v)
      /\ \A k \in 0 .. SqSize - 1 :
             cq[After(cq_h, k)].phase = IF k < v THEN 1 - OldPhase(k) ELSE OldPhase(k)
      /\ \A k \in 0 .. SqSize - 1 : k < v =>
             /\ cq[After(cq_h, k)].sqhd = After(cq_h, h[k])
             /\ k < h[k] /\ r <= h[k] /\ h[k] <= f
             /\ \A l \in 0 .. SqSize - 1 : k <= l /\ l < v => h[k] <= h[l]
  BY <1>1 DEF Counted, Entries
<1>7. v > 0
  <2>1. After(cq_h, 0) = cq_h /\ OldPhase(0) = pt /\ 0 \in 0 .. SqSize - 1
    BY <1>3, Size DEF After, OldPhase
  <2>2. QED
    BY <1>2, <1>6, <2>1
<1>8. \A k \in 1 .. SqSize : After(cq_h, k) = After(cq_h', k - 1)
  BY <1>3, <1>4, Size DEF After
<1>9. \A k \in 0 .. SqSize - 1 : OldPhase(k)' = OldPhase(k + 1)
  <2>1. cq_h' = (IF cq_h + 1 >= SqSize THEN 0 ELSE cq_h + 1)
        /\ pt' = (IF cq_h + 1 >= SqSize THEN 1 - pt ELSE pt)
    BY <1>3, <1>4, Size DEF After, OldPhase
  <2>2. QED
    BY <1>3, <2>1, Size DEF OldPhase
<1>10. /\ 0 \in 0 .. SqSize - 1 /\ h[0] \in 0 .. SqSize /\ 0 < h[0] /\ h[0] <= f
       /\ r <= h[0] /\ sqhd' = After(cq_h, h[0])
       /\ \A l \in 0 .. SqSize - 1 : l < v => h[0] <= h[l]
  <2>1. 0 \in 0 .. SqSize - 1 /\ After(cq_h, 0) = cq_h
    BY <1>3, Size DEF After
  <2>2. h[0] \in 0 .. SqSize
    BY <2>1
  <2>3. QED
    BY <1>2, <1>6, <1>7, <2>1, <2>2
<1> DEFINE e == [k \in 0 .. SqSize - 1 |-> IF k + 1 < v THEN h[k + 1] - 1 ELSE 0]
<1>11. ASSUME NEW k \in 0 .. SqSize - 1, k < v - 1
       PROVE  /\ k + 1 \in 0 .. SqSize - 1 /\ k + 1 < v /\ e[k] = h[k + 1] - 1
              /\ h[k + 1] \in 0 .. SqSize /\ k + 1 < h[k + 1]
  <2>1. k + 1 \in 0 .. SqSize - 1 /\ k + 1 < v
    BY <1>5, <1>11, Size
  <2>2. QED
    BY <1>6, <2>1
<1>12. e \in [0 .. SqSize - 1 -> 0 .. SqSize]
  <2> SUFFICES ASSUME NEW k \in 0 .. SqSize - 1
               PROVE  (IF k + 1 < v THEN h[k + 1] - 1 ELSE 0) \in 0 .. SqSize
    OBVIOUS
  <2>1. CASE k + 1 < v
    <3>1. k < v - 1
      BY <2>1, Size
    <3>2. QED
      BY <1>11, <2>1, <3>1, Size
  <2>2. CASE ~ (k + 1 < v)
    BY <2>2, Size
  <2>3. QED
    BY <2>1, <2>2
<1> HIDE DEF e
<1>13. /\ u - 1 \in 0 .. SqSize /\ v - 1 \in 0 .. SqSize /\ f - 1 \in 0 .. SqSize
       /\ t - 1 \in 0 .. SqSize /\ h[0] - 1 \in 0 .. SqSize /\ g + 1 \in 0 .. SqSize
  BY <1>5, <1>7, <1>10, Size
<1>14. Indices(u - 1, v - 1, f - 1, t - 1, h[0] - 1, g + 1)'
  <2>1. /\ After(cq_h, u) = After(cq_h', u - 1) /\ After(cq_h, v) = After(cq_h', v - 1)
        /\ After(cq_h, f) = After(cq_h', f - 1) /\ After(cq_h, t) = After(cq_h', t - 1)
        /\ After(cq_h, h[0]) = After(cq_h', h[0] - 1)
    <3>1. u \in 1 .. SqSize /\ v \in 1 .. SqSize /\ f \in 1 .. SqSize /\ t \in 1 .. SqSize
          /\ h[0] \in 1 .. SqSize
      BY <1>5, <1>7, <1>10, Size
    <3>2. QED
      BY <1>8, <3>1
  <2>2. cq_h' = After(cqhead, g + 1)
    <3>1. After(After(cqhead, g), 1) = After(cqhead, g + 1)
      <4>1. 1 \in 0 .. SqSize /\ g + 1 <= SqSize
        BY <1>5, <1>7, Size
      <4>2. QED
        BY <1>3, <4>1, AfterSum
    <3>2. QED
      BY <1>4, <1>5, <3>1
  <2>3. UNCHANGED <<sq_t, tail, head, cqtail, cqhead>>
    BY <1>2 DEF device
  <2>4. /\ v - 1 <= f - 1 /\ f - 1 <= t - 1 /\ t - 1 <= u - 1 /\ u - 1 <= SqSize
        /\ h[0] - 1 <= f - 1 /\ (u - 1) - (h[0] - 1) <= SqSize - 1
        /\ (g + 1) + (v - 1) <= SqSize - 1
    BY <1>5, <1>10, Size
  <2>5. QED
    BY <1>5, <1>10, <2>1, <2>2, <2>3, <2>4 DEF Indices
<1>15. Entries(v - 1, f - 1, h[0] - 1, e)'
  <2>1. phase' = 1 - OldPhase(v - 1)'
    <3>1. v - 1 \in 0 .. SqSize - 1 /\ (v - 1) + 1 = v
      BY <1>5, <1>7, Size
    <3>2. phase' = phase
      BY <1>2 DEF device
    <3>3. QED
      BY <1>6, <1>9, <3>1, <3>2
  <2>2. ASSUME NEW k \in 0 .. SqSize - 1
        PROVE  cq'[After(cq_h', k)].phase
                 = IF k < v - 1 THEN 1 - OldPhase(k)' ELSE OldPhase(k)'
    <3>1. After(cq_h', k) = After(cq_h, k + 1) /\ OldPhase(k)' = OldPhase(k + 1) /\ cq' = cq
      <4>1. k + 1 \in 1 .. SqSize /\ (k + 1) - 1 = k
        BY Size
      <4>2. QED
        BY <1>2, <1>8, <1>9, <4>1
    <3>2. CASE k + 1 <= SqSize - 1
      <4>1. k + 1 \in 0 .. SqSize - 1 /\ (k + 1 < v <=> k < v - 1)
        BY <3>2, Size
      <4>2. QED
        BY <1>6, <3>1, <4>1
    <3>3. CASE k + 1 = SqSize
      <4>1. After(cq_h, SqSize) = cq_h /\ OldPhase(SqSize) = 1 - pt /\ ~ (k < v - 1)
        BY <1>3, <1>5, <3>3, Size DEF After, OldPhase
      <4>2. cq[cq_h].phase = 1 - pt
        <5>1. cq[cq_h].phase \in 0 .. 1
          BY <1>3
        <5>2. QED
          BY <1>2, <1>3, <5>1
      <4>3. QED
        BY <3>1, <3>3, <4>1, <4>2
    <3>4. QED
      BY <3>2, <3>3, Size
  <2>3. ASSUME NEW k \in 0 .. SqSize - 1, k < v - 1
        PROVE  /\ cq'[After(cq_h', k)].sqhd = After(cq_h', e[k])
               /\ k < e[k] /\ h[0] - 1 <= e[k] /\ e[k] <= f - 1
               /\ \A l \in 0 .. SqSize - 1 : k <= l /\ l < v - 1 => e[k] <= e[l]
    <3>1. /\ k + 1 \in 0 .. SqSize - 1 /\ k + 1 < v /\ e[k] = h[k + 1] - 1
          /\ h[k + 1] \in 0 .. SqSize /\ k + 1 < h[k + 1]
      BY <1>11, <2>3
    <3>2. After(cq_h', k) = After(cq_h, k + 1) /\ After(cq_h', e[k]) = After(cq_h, h[k + 1])
      <4>1. k + 1 \in 1 .. SqSize /\ h[k + 1] \in 1 .. SqSize /\ (k + 1) - 1 = k
        BY <3>1, Size
      <4>2. QED
        BY <1>8, <3>1, <4>1
    <3>3. cq[After(cq_h, k + 1)].sqhd = After(cq_h, h[k + 1]) /\ h[k + 1] <= f /\ h[0] <= h[k + 1]
      BY <1>6, <1>10, <3>1
    <3>4. ASSUME NEW l \in 0 .. SqSize - 1, k <= l, l < v - 1
          PROVE  e[k] <= e[l]
      <4>1. /\ l + 1 \in 0 .. SqSize - 1 /\ l + 1 < v
            /\ e[l] = h[l + 1] - 1 /\ h[l + 1] \in 0 .. SqSize
        BY <1>11, <3>4
      <4>2. k + 1 <= l + 1
        BY <3>4
      <4>3. h[k + 1] <= h[l + 1]
        BY <1>6, <3>1, <4>1, <4>2
      <4>4. QED
        BY <3>1, <4>1, <4>3
    <3>5. k < e[k] /\ h[0] - 1 <= e[k] /\ e[k] <= f - 1
      BY <1>10, <3>1, <3>3
    <3>6. QED
      BY <1>2, <3>2, <3>3, <3>4, <3>5
  <2>4. QED
    BY <2>1, <2>2, <2>3 DEF Entries
<1>16. Amounts(u - 1, v - 1, f - 1)'
  <2>1. UNCHANGED <<sq, queued, inflight, head>>
    BY <1>2 DEF device
  <2>2. (u - 1) - (f - 1) = u - f /\ (f - 1) - (v - 1) = f - v
    BY Size
  <2>3. QED
    BY <1>1, <2>1, <2>2 DEF Counted, Amounts
<1>17. Ids'
  BY <1>2, CommandsKept DEF device, IInv
<1>18. Control(u - 1, t - 1)'
  <2>1. u - 1 <= cid /\ ncmds' = u - 1 /\ t - 1 = u - 1
    BY <1>2, <1>3, <1>5, Size
  <2>2. QED
    BY <1>1, <1>2, <2>1 DEF Counted, Control
<1>19. NvmeTypeOK'
  <2>1. ncmds' \in 0 .. CqSize /\ cq_h' \in 0 .. CqSize - 1
    <3>1. CqSize = SqSize
      BY DEF IInv, SameSize
    <3>2. QED
      BY <1>2, <1>3, <1>4, <3>1, Size
  <2>2. sqhd' \in 0 .. SqSize - 1
    BY <1>2, <1>3
  <2>3. QED
    BY <1>2, <1>4, <2>1, <2>2 DEF IInv, NvmeTypeOK, device
<1>20. QED
  BY <1>12, <1>13, <1>14, <1>15, <1>16, <1>17, <1>18, <1>19, Again DEF IInv

-----------------------------------------------------------------------------
(* The controller.                                                          *)

\* The next command is fetched.
LEMMA FetchStep ==
    ASSUME IInv, Fetch
    PROVE  IInv'
<1>1. PICK u \in 0 .. SqSize, v \in 0 .. SqSize, f \in 0 .. SqSize, t \in 0 .. SqSize,
           r \in 0 .. SqSize, g \in 0 .. SqSize, h \in [0 .. SqSize - 1 -> 0 .. SqSize] :
        Counted(u, v, f, t, r, g, h)
  BY DEF IInv
<1>2. /\ UNCHANGED <<driver, tail, cqtail, cqhead, phase, cq>>
      /\ head # tail /\ head' = (head + 1) % SqSize
      /\ inflight' = inflight \cup {sq[head]} /\ queued' = Tail(queued)
  BY DEF Fetch
<1>3. /\ cq_h \in 0 .. SqSize - 1 /\ head \in 0 .. SqSize - 1
      /\ queued \in Seq(Commands) /\ inflight \subseteq Commands
  BY Types DEF IInv
<1>4. /\ v <= f /\ f <= t /\ t <= u /\ u <= SqSize /\ r <= f /\ u - r <= SqSize - 1
      /\ tail = After(cq_h, t) /\ head = After(cq_h, f)
  BY <1>1 DEF Counted, Indices
<1>5. f < t /\ f + 1 \in 0 .. SqSize
  <2>1. f # t
    BY <1>2, <1>4
  <2>2. QED
    BY <1>4, <2>1, Size
<1>6. head' = After(cq_h, f + 1) /\ head' = After(head, 1) /\ head' \in 0 .. SqSize - 1
  <2>1. head' = After(head, 1)
    BY <1>2, <1>3, AfterNext
  <2>2. 1 \in 0 .. SqSize /\ f + 1 <= SqSize
    BY <1>5, Size
  <2>3. After(After(cq_h, f), 1) = After(cq_h, f + 1)
    BY <1>3, <2>2, AfterSum
  <2>4. After(cq_h, f + 1) \in 0 .. SqSize - 1
    BY <1>3, <1>5, Size DEF After
  <2>5. QED
    BY <1>4, <2>1, <2>3, <2>4
<1>7. /\ Len(queued) = u - f /\ \A i \in 1 .. Len(queued) : queued[i] = sq[After(head, i - 1)]
      /\ IsFiniteSet(inflight) /\ Cardinality(inflight) = f - v
  BY <1>1 DEF Counted, Amounts
<1>8. /\ Len(queued) \in Nat /\ Len(queued) > 0 /\ Len(queued) <= SqSize /\ 1 \in 1 .. Len(queued)
      /\ queued[1] = sq[head] /\ sq[head] \in Commands
  <2>1. Len(queued) \in Nat /\ Len(queued) > 0 /\ Len(queued) <= SqSize
    BY <1>4, <1>5, <1>7, Size
  <2>2. 1 \in 1 .. Len(queued) /\ 1 - 1 = 0
    BY <2>1
  <2>3. After(head, 0) = head
    BY <1>3, Size DEF After
  <2>4. QED
    BY <1>3, <1>7, <2>1, <2>2, <2>3
<1>9. /\ queued' \in Seq(Commands) /\ Len(queued') = Len(queued) - 1
      /\ \A i \in 1 .. Len(queued') : i + 1 \in 1 .. Len(queued) /\ queued'[i] = queued[i + 1]
  BY <1>2, <1>3, <1>8
<1>10. Ids /\ sq[head] \notin inflight
  <2>1. Ids
    BY DEF IInv
  <2>2. \A c \in inflight : c.cid < sq[head].cid /\ c.cid \in Int
    BY <1>8, <2>1, IdTypes DEF Ids, IInv
  <2>3. QED
    BY <2>1, <2>2
<1>11. Indices(u, v, f + 1, t, r, g)'
  <2>1. v <= f + 1 /\ f + 1 <= t /\ r <= f + 1
    BY <1>4, <1>5, Size
  <2>2. UNCHANGED <<cq_h, sq_t, tail, sqhd, cqtail, cqhead>>
    BY <1>2 DEF driver
  <2>3. QED
    BY <1>1, <1>6, <2>1, <2>2 DEF Counted, Indices
<1>12. Entries(v, f + 1, r, h)'
  <2>1. Entries(v, f, r, h)'
    BY <1>1, <1>2, EntriesKept DEF Counted, driver
  <2>2. \A k \in 0 .. SqSize - 1 : h[k] <= f => h[k] <= f + 1
    BY Size
  <2>3. QED
    BY <2>1, <2>2 DEF Entries
<1>13. Amounts(u, v, f + 1)'
  <2>1. Len(queued') = u - (f + 1)
    BY <1>7, <1>9, Size
  <2>2. \A i \in 1 .. Len(queued') : queued'[i] = sq[After(head', i - 1)]
    <3> SUFFICES ASSUME NEW i \in 1 .. Len(queued')
                 PROVE  queued'[i] = sq[After(head', i - 1)]
      OBVIOUS
    <3>1. queued'[i] = sq[After(head, (i + 1) - 1)]
      BY <1>7, <1>9
    <3>2. /\ i - 1 \in 0 .. SqSize /\ 1 \in 0 .. SqSize /\ 1 + (i - 1) <= SqSize
          /\ 1 + (i - 1) = (i + 1) - 1
      BY <1>8, <1>9, Size
    <3>3. After(After(head, 1), i - 1) = After(head, 1 + (i - 1))
      BY <1>3, <3>2, AfterSum
    <3>4. QED
      BY <1>6, <3>1, <3>2, <3>3
  <2>3. IsFiniteSet(inflight') /\ Cardinality(inflight') = f + 1 - v
    <3>1. IsFiniteSet(inflight') /\ Cardinality(inflight') = Cardinality(inflight) + 1
      BY <1>2, <1>7, <1>10, FS_AddElement
    <3>2. QED
      BY <1>7, <3>1, Size
  <2>4. sq' = sq
    BY <1>2 DEF driver
  <2>5. QED
    BY <2>1, <2>2, <2>3, <2>4 DEF Amounts
<1>14. Ids'
  <2>1. cid' = cid
    BY <1>2 DEF driver
  <2>2. \A i \in 1 .. Len(queued') : 1 < i + 1 /\ i \in Int
    OBVIOUS
  <2>3. \A c \in inflight' : c.cid < cid'
    BY <1>2, <1>8, <1>10, <2>1 DEF Ids
  <2>4. \A i \in 1 .. Len(queued') : queued'[i].cid < cid'
    BY <1>9, <1>10, <2>1 DEF Ids
  <2>5. \A c \in inflight', i \in 1 .. Len(queued') : c.cid < queued'[i].cid
    BY <1>2, <1>8, <1>9, <1>10, <2>2 DEF Ids
  <2>6. \A i, j \in 1 .. Len(queued') : i < j => queued'[i].cid < queued'[j].cid
    <3>1. \A i, j \in 1 .. Len(queued') : i < j => i + 1 < j + 1
      OBVIOUS
    <3>2. QED
      BY <1>9, <1>10, <3>1 DEF Ids
  <2>7. \A a, b \in inflight' : a.cid = b.cid => a = b
    <3>1. \A c \in inflight : c.cid # sq[head].cid
      <4>1. \A c \in inflight : c.cid \in Int /\ c.cid < sq[head].cid
        BY <1>8, <1>10, IdTypes DEF Ids, IInv
      <4>2. sq[head].cid \in Int
        BY <1>8, IdTypes DEF IInv
      <4>3. QED
        BY <4>1, <4>2
    <3>2. QED
      BY <1>2, <1>10, <3>1 DEF Ids
  <2>8. QED
    BY <2>3, <2>4, <2>5, <2>6, <2>7 DEF Ids
<1>15. Control(u, t)'
  BY <1>1, <1>2 DEF Counted, Control, driver
<1>16. NvmeTypeOK'
  <2>1. inflight' \subseteq Commands
    BY <1>2, <1>3, <1>8
  <2>2. QED
    BY <1>2, <1>6, <1>9, <2>1 DEF IInv, NvmeTypeOK, driver
<1>17. QED
  BY <1>5, <1>11, <1>12, <1>13, <1>14, <1>15, <1>16, Again DEF IInv

\* A command is completed: the next entry of the completion queue becomes new.
LEMMA CompleteStep ==
    ASSUME IInv, NEW c \in inflight, Complete(c)
    PROVE  IInv'
<1>1. PICK u \in 0 .. SqSize, v \in 0 .. SqSize, f \in 0 .. SqSize, t \in 0 .. SqSize,
           r \in 0 .. SqSize, g \in 0 .. SqSize, h \in [0 .. SqSize - 1 -> 0 .. SqSize] :
        Counted(u, v, f, t, r, g, h)
  BY DEF IInv
<1>2. /\ UNCHANGED <<driver, tail, head, cqhead, queued>>
      /\ (cqtail + 1) % SqSize # cqhead /\ cqtail' = (cqtail + 1) % SqSize
      /\ inflight' = inflight \ {c}
      /\ cq' = [cq EXCEPT ![cqtail] = [phase |-> phase, sqhd |-> head]]
      /\ phase' = IF cqtail + 1 = SqSize THEN 1 - phase ELSE phase
  <2>1. CqDevice = SqSize
    BY DEF IInv, SameSize
  <2>2. QED
    BY <2>1 DEF Complete, CqFull
<1>3. /\ cq_h \in 0 .. SqSize - 1 /\ pt \in 0 .. 1 /\ head \in 0 .. SqSize - 1
      /\ cqhead \in 0 .. SqSize - 1 /\ cqtail \in 0 .. SqSize - 1 /\ phase \in 0 .. 1
      /\ cq \in [0 .. SqSize - 1 -> [phase : 0 .. 1, sqhd : 0 .. SqSize - 1]]
      /\ inflight \subseteq Commands
  BY Types DEF IInv
<1>4. /\ v <= f /\ f <= t /\ t <= u /\ u <= SqSize /\ r <= f /\ g + v <= SqSize - 1
      /\ head = After(cq_h, f) /\ cqtail = After(cq_h, v) /\ cq_h = After(cqhead, g)
  BY <1>1 DEF Counted, Indices
<1>5. IsFiniteSet(inflight) /\ Cardinality(inflight) = f - v
  BY <1>1 DEF Counted, Amounts
<1>6. /\ IsFiniteSet(inflight') /\ Cardinality(inflight') = f - v - 1
      /\ v + 1 <= f /\ v + 1 \in 0 .. SqSize
  <2>1. IsFiniteSet(inflight') /\ Cardinality(inflight') = Cardinality(inflight) - 1
    BY <1>2, <1>5, FS_RemoveElement
  <2>2. Cardinality(inflight') \in Nat
    BY <2>1, FS_CardinalityType
  <2>3. QED
    BY <1>5, <2>1, <2>2, Size
<1>7. g + (v + 1) <= SqSize - 1
  <2>1. cqtail = After(cqhead, g + v)
    BY <1>3, <1>4, AfterSum, Size
  <2>2. cqtail = cqhead + (g + v) \/ cqtail = cqhead + (g + v) - SqSize
    BY <1>3, <2>1, Size DEF After
  <2>3. After(cqtail, 1) # cqhead
    BY <1>2, <1>3, AfterNext
  <2>4. g + v # SqSize - 1
    BY <1>3, <2>1, <2>3, Size DEF After
  <2>5. QED
    BY <1>4, <2>4, Size
<1>8. cqtail' = After(cq_h, v + 1) /\ cqtail' \in 0 .. SqSize - 1
  <2>1. cqtail' = After(cqtail, 1)
    BY <1>2, <1>3, AfterNext
  <2>2. 1 \in 0 .. SqSize /\ v + 1 <= SqSize
    BY <1>6, Size
  <2>3. After(After(cq_h, v), 1) = After(cq_h, v + 1)
    BY <1>3, <2>2, AfterSum
  <2>4. After(cq_h, v + 1) \in 0 .. SqSize - 1
    BY <1>3, <1>6, Size DEF After
  <2>5. QED
    BY <1>4, <2>1, <2>3, <2>4
<1>9. /\ phase = 1 - OldPhase(v)
      /\ \A k \in 0 .. SqSize - 1 :
             cq[After(cq_h, k)].phase = IF k < v THEN 1 - OldPhase(k) ELSE OldPhase(k)
      /\ \A k \in 0 .. SqSize - 1 : k < v =>
             /\ cq[After(cq_h, k)].sqhd = After(cq_h, h[k])
             /\ k < h[k] /\ r <= h[k] /\ h[k] <= f
             /\ \A l \in 0 .. SqSize - 1 : k <= l /\ l < v => h[k] <= h[l]
  BY <1>1 DEF Counted, Entries
<1>10. /\ v \in 0 .. SqSize - 1
       /\ cq' \in [0 .. SqSize - 1 -> [phase : 0 .. 1, sqhd : 0 .. SqSize - 1]]
       /\ cq'[After(cq_h, v)].phase = phase /\ cq'[After(cq_h, v)].sqhd = head
       /\ \A k \in 0 .. SqSize - 1 : k # v => cq'[After(cq_h, k)] = cq[After(cq_h, k)]
  <2>1. v \in 0 .. SqSize - 1
    BY <1>4, Size
  <2>2. [phase |-> phase, sqhd |-> head] \in [phase : 0 .. 1, sqhd : 0 .. SqSize - 1]
    BY <1>3
  <2>3. /\ cq' \in [0 .. SqSize - 1 -> [phase : 0 .. 1, sqhd : 0 .. SqSize - 1]]
        /\ cq'[cqtail] = [phase |-> phase, sqhd |-> head]
        /\ \A i \in 0 .. SqSize - 1 : i # cqtail => cq'[i] = cq[i]
    BY <1>2, <1>3, <2>2
  <2>4. \A k \in 0 .. SqSize - 1 : k # v => After(cq_h, k) # cqtail
                                            /\ After(cq_h, k) \in 0 .. SqSize - 1
    BY <1>3, <1>4, <2>1, Size DEF After
  <2>5. QED
    BY <1>4, <2>1, <2>3, <2>4
<1>11. \A k : OldPhase(k)' = OldPhase(k)
  BY <1>2 DEF OldPhase, driver
<1> DEFINE e == [h EXCEPT ![v] = f]
<1>12. /\ e \in [0 .. SqSize - 1 -> 0 .. SqSize] /\ e[v] = f
       /\ \A k \in 0 .. SqSize - 1 : k # v => e[k] = h[k]
  BY <1>10
<1> HIDE DEF e
<1>13. Indices(u, v + 1, f, t, r, g)'
  <2>1. UNCHANGED <<cq_h, sq_t, tail, head, sqhd, cqhead>>
    BY <1>2 DEF driver
  <2>2. QED
    BY <1>1, <1>6, <1>7, <1>8, <2>1 DEF Counted, Indices
<1>14. Entries(v + 1, f, r, e)'
  <2>1. phase' = 1 - OldPhase(v + 1)
    BY <1>2, <1>3, <1>4, <1>9, <1>10, Size DEF OldPhase, After
  <2>2. UNCHANGED cq_h
    BY <1>2 DEF driver
  <2>3. ASSUME NEW k \in 0 .. SqSize - 1
        PROVE  cq'[After(cq_h, k)].phase = IF k < v + 1 THEN 1 - OldPhase(k) ELSE OldPhase(k)
    <3>1. CASE k = v
      BY <1>9, <1>10, <3>1, Size
    <3>2. CASE k # v
      <4>1. k < v + 1 <=> k < v
        BY <3>2, Size
      <4>2. QED
        BY <1>9, <1>10, <3>2, <4>1
    <3>3. QED
      BY <3>1, <3>2
  <2>4. ASSUME NEW k \in 0 .. SqSize - 1, k < v + 1
        PROVE  /\ cq'[After(cq_h, k)].sqhd = After(cq_h, e[k])
               /\ k < e[k] /\ r <= e[k] /\ e[k] <= f
               /\ \A l \in 0 .. SqSize - 1 : k <= l /\ l < v + 1 => e[k] <= e[l]
    <3>1. CASE k = v
      <4>1. \A l \in 0 .. SqSize - 1 : k <= l /\ l < v + 1 => l = v
        BY <3>1, Size
      <4>2. k < f /\ r <= f /\ f <= f
        BY <1>4, <1>6, <3>1, Size
      <4>3. QED
        BY <1>4, <1>10, <1>12, <3>1, <4>1, <4>2
    <3>2. CASE k # v
      <4>1. k < v /\ e[k] = h[k] /\ h[k] <= f
        BY <1>9, <1>12, <2>4, <3>2, Size
      <4>2. \A l \in 0 .. SqSize - 1 : l < v + 1 => l < v \/ l = v
        BY Size
      <4>3. \A l \in 0 .. SqSize - 1 : k <= l /\ l < v + 1 => e[k] <= e[l]
        <5> SUFFICES ASSUME NEW l \in 0 .. SqSize - 1, k <= l, l < v + 1
                     PROVE  e[k] <= e[l]
          OBVIOUS
        <5>1. CASE l = v
          BY <1>12, <4>1, <5>1
        <5>2. CASE l # v
          <6>1. l < v /\ e[l] = h[l]
            BY <1>12, <4>2, <5>2
          <6>2. QED
            BY <1>9, <4>1, <6>1
        <5>3. QED
          BY <5>1, <5>2
      <4>4. QED
        BY <1>9, <1>10, <3>2, <4>1, <4>3
    <3>3. QED
      BY <3>1, <3>2
  <2>5. QED
    BY <1>11, <2>1, <2>2, <2>3, <2>4 DEF Entries
<1>15. Amounts(u, v + 1, f)'
  <2>1. UNCHANGED <<sq, queued, head>>
    BY <1>2 DEF driver
  <2>2. f - v - 1 = f - (v + 1)
    BY Size
  <2>3. QED
    BY <1>1, <1>6, <2>1, <2>2 DEF Counted, Amounts
<1>16. Ids'
  <2>1. UNCHANGED <<cid, queued>> /\ inflight' \subseteq inflight
    BY <1>2 DEF driver
  <2>2. QED
    BY <2>1 DEF Ids, IInv
<1>17. Control(u, t)'
  BY <1>1, <1>2 DEF Counted, Control, driver
<1>18. NvmeTypeOK'
  <2>1. CqSize = SqSize /\ CqDevice = SqSize
    BY DEF IInv, SameSize
  <2>2. phase' \in 0 .. 1
    BY <1>2, <1>3
  <2>3. inflight' \subseteq Commands
    BY <1>2, <1>3
  <2>4. QED
    BY <1>2, <1>8, <1>10, <2>1, <2>2, <2>3 DEF IInv, NvmeTypeOK, driver
<1>19. QED
  BY <1>6, <1>12, <1>13, <1>14, <1>15, <1>16, <1>17, <1>18, Again DEF IInv

-----------------------------------------------------------------------------
(* The theorems.                                                            *)

\* Both queues are empty after their creation.
LEMMA InitIInv == SameSize /\ Init => IInv
<1> SUFFICES ASSUME SameSize, Init
             PROVE  IInv
  OBVIOUS
<1> DEFINE h == [k \in 0 .. SqSize - 1 |-> 0]
<1>1. /\ 0 \in 0 .. SqSize /\ 0 \in 0 .. SqSize - 1 /\ h \in [0 .. SqSize - 1 -> 0 .. SqSize]
      /\ After(0, 0) = 0 /\ CqSize = SqSize /\ CqDevice = SqSize
      /\ \A k \in 0 .. SqSize - 1 : After(0, k) = k
  BY Size DEF After, SameSize
<1>2. /\ sq_t = 0 /\ cq_h = 0 /\ pt = 0 /\ sqhd = 0 /\ cid = 0 /\ tail = 0 /\ head = 0
      /\ cqtail = 0 /\ cqhead = 0 /\ phase = 1 /\ queued = << >> /\ inflight = {}
      /\ pc = "idle" /\ cq = [i \in 0 .. CqSize - 1 |-> [phase |-> 0, sqhd |-> 0]]
  BY DEF Init
<1>3. Len(<< >>) = 0 /\ << >> \in Seq(Commands) /\ IsFiniteSet({}) /\ Cardinality({}) = 0
  BY FS_EmptySet
<1>4. NvmeTypeOK
  <2>1. cq \in [0 .. CqSize - 1 -> [phase : 0 .. 1, sqhd : 0 .. SqSize - 1]]
    BY <1>1, <1>2
  <2>2. sq \in [0 .. SqSize - 1 -> Commands \cup {NoCommand}]
    BY DEF Init
  <2>3. /\ call \in 0 .. MaxCalls /\ left \in 0 .. MaxChunks /\ ncmds \in 0 .. CqSize
    BY <1>1, Size DEF Init
  <2>4. pt \in 0 .. 1 /\ phase \in 0 .. 1 /\ cid \in Nat
    BY <1>2
  <2>5. QED
    BY <1>1, <1>2, <1>3, <2>1, <2>2, <2>3, <2>4 DEF Init, NvmeTypeOK
<1>5. Ids
  BY <1>2, <1>3 DEF Ids
<1>6. Indices(0, 0, 0, 0, 0, 0)
  BY <1>1, <1>2, Size DEF Indices
<1>7. Entries(0, 0, 0, h)
  <2>1. \A k \in 0 .. SqSize - 1 : OldPhase(k) = 0
    BY <1>2, Size DEF OldPhase
  <2>2. \A k \in 0 .. SqSize - 1 : cq[k].phase = 0 /\ ~ (k < 0)
    BY <1>1, <1>2
  <2>3. phase = 1 - OldPhase(0)
    BY <1>1, <1>2, <2>1
  <2>4. QED
    BY <1>1, <1>2, <2>1, <2>2, <2>3 DEF Entries
<1>8. Amounts(0, 0, 0)
  BY <1>2, <1>3 DEF Amounts
<1>9. Control(0, 0)
  BY <1>2 DEF Control
<1>10. Counted(0, 0, 0, 0, 0, 0, h)
  BY <1>6, <1>7, <1>8, <1>9 DEF Counted
<1> HIDE DEF h
<1>11. QED
  BY <1>1, <1>4, <1>5, <1>10 DEF IInv

\* Every step of the driver and of the controller keeps the invariant.
LEMMA StepIInv == IInv /\ [Next]_vars => IInv'
<1> SUFFICES ASSUME IInv, [Next]_vars
             PROVE  IInv'
  OBVIOUS
<1>1. CASE NoBuffer \/ Timeout \/ \E n \in 1 .. MaxChunks : Start(n)
  BY <1>1, CallStep
<1>2. CASE CompleteFirst \/ SyncBounced \/ (Finish /\ needs_sync)
  BY <1>2, SyncStep
<1>3. CASE SyncEnds \/ (Finish /\ ~ needs_sync)
  BY <1>3, SyncEndStep
<1>4. CASE UNCHANGED vars
  <2>1. PICK u \in 0 .. SqSize, v \in 0 .. SqSize, f \in 0 .. SqSize, t \in 0 .. SqSize,
             r \in 0 .. SqSize, g \in 0 .. SqSize, h \in [0 .. SqSize - 1 -> 0 .. SqSize] :
          Counted(u, v, f, t, r, g, h)
    BY DEF IInv
  <2>2. UNCHANGED <<driver, device, cq, queued>>
    BY <1>4 DEF vars
  <2>3. Indices(u, v, f, t, r, g)' /\ Control(u, t)'
    BY <2>1, <2>2 DEF driver, device, Counted, Indices, Control
  <2>4. Entries(v, f, r, h)'
    BY <2>1, <2>2, EntriesKept DEF driver, device, Counted
  <2>5. Amounts(u, v, f)' /\ Ids'
    BY <2>1, <2>2, CommandsKept DEF driver, device, Counted, IInv
  <2>6. NvmeTypeOK'
    BY <2>2 DEF driver, device, IInv, NvmeTypeOK
  <2>7. QED
    BY <2>3, <2>4, <2>5, <2>6, Again DEF IInv
<1>5. QED
  BY <1>1, <1>2, <1>3, <1>4, SubmitStep, ConsumeStep, FetchStep, CompleteStep DEF Next

\* The invariant holds for all calls of nvme_rw, also after those that failed.
THEOREM Invariant == SameSize /\ Spec => []IInv
BY InitIInv, StepIInv, PTL DEF Spec

\* The indices and counters stay in range, no entry of the submission queue is
\* written while it holds a command that the controller has not fetched, and no
\* two open commands share a PRP list, whatever calls have timed out before.
THEOREM IntactTheorem == SameSize /\ Spec => []CommandsIntact
<1>1. IInv => CommandsIntact
  <2> SUFFICES ASSUME IInv
               PROVE  CommandsIntact
    OBVIOUS
  <2>1. PICK u \in 0 .. SqSize, v \in 0 .. SqSize, f \in 0 .. SqSize, t \in 0 .. SqSize,
             r \in 0 .. SqSize, g \in 0 .. SqSize, h \in [0 .. SqSize - 1 -> 0 .. SqSize] :
          Counted(u, v, f, t, r, g, h)
    BY DEF IInv
  <2>2. /\ f <= t /\ t <= u /\ r <= f /\ u - r <= SqSize - 1
        /\ sq_t = After(cq_h, u) /\ head = After(cq_h, f) /\ Len(queued) = u - f
        /\ \A i \in 1 .. Len(queued) : queued[i] = sq[After(head, i - 1)]
    BY <2>1 DEF Counted, Indices, Amounts
  <2>3. /\ cq_h \in 0 .. SqSize - 1 /\ head \in 0 .. SqSize - 1 /\ queued \in Seq(Commands)
    BY Types DEF IInv
  <2>4. u - f \in 0 .. SqSize /\ u - f < SqSize /\ f + (u - f) = u /\ u <= SqSize
    BY <2>2, Size
  <2>5. sq_t = After(head, u - f)
    BY <2>2, <2>3, <2>4, AfterSum
  <2>6. Len(queued) = (sq_t - head) % SqSize
    BY <2>2, <2>3, <2>4, <2>5, AfterMod
  <2>7. ASSUME NEW i \in DOMAIN queued
        PROVE  queued[i] = sq[(head + i - 1) % SqSize]
    <3>1. i \in 1 .. Len(queued) /\ DOMAIN queued = 1 .. Len(queued)
      BY <2>3
    <3>2. i - 1 \in 0 .. SqSize /\ head + (i - 1) = head + i - 1
      <4>1. i \in Int /\ i >= 1 /\ i <= u - f /\ u - f \in Int /\ u - f < SqSize
        BY <2>2, <2>4, <3>1
      <4>2. i - 1 \in 0 .. SqSize
        BY <4>1, Size
      <4>3. head \in Int
        BY <2>3
      <4>4. QED
        BY <4>1, <4>2, <4>3
    <3>3. (head + (i - 1)) % SqSize = After(head, i - 1)
      BY <2>3, <3>2, AfterMod
    <3>4. QED
      BY <2>2, <3>1, <3>2, <3>3
  <2>8. PrpListsApart
    <3> SUFFICES ASSUME NEW a \in Open, NEW b \in Open, a.cid = b.cid
                 PROVE  a = b
      BY DEF PrpListsApart
    <3>1. Ids /\ DOMAIN queued = 1 .. Len(queued)
      BY <2>3 DEF IInv
    <3>2. /\ \A c \in inflight : c.cid \in Int
          /\ \A i \in 1 .. Len(queued) : queued[i].cid \in Int
      BY IdTypes DEF IInv
    <3>3. /\ a \in inflight \/ \E i \in 1 .. Len(queued) : a = queued[i]
          /\ b \in inflight \/ \E i \in 1 .. Len(queued) : b = queued[i]
      BY <3>1 DEF Open
    <3>4. \A i, j \in 1 .. Len(queued) : i < j \/ j < i \/ i = j
      OBVIOUS
    <3>5. \A x, y \in Int : x < y => x # y
      OBVIOUS
    <3>6. QED
      BY <3>1, <3>2, <3>3, <3>4, <3>5 DEF Ids
  <2>9. QED
    BY <2>6, <2>7, <2>8 DEF CommandsIntact, QueueIntact, IInv
<1>2. QED
  BY <1>1, Invariant, PTL

\* What is open, in terms of the counts.
LEMMA OpenCount ==
    ASSUME SameSize, NvmeTypeOK, NEW u \in 0 .. SqSize, NEW v \in 0 .. SqSize,
           NEW f \in 0 .. SqSize, v <= f, f <= u, Amounts(u, v, f)
    PROVE  Open = {} <=> u = v
<1>1. /\ queued \in Seq(Commands) /\ DOMAIN queued = 1 .. Len(queued) /\ Len(queued) = u - f
      /\ IsFiniteSet(inflight) /\ Cardinality(inflight) = f - v
  BY Types DEF Amounts
<1>2. inflight = {} <=> f = v
  <2>1. Cardinality(inflight) = 0 <=> inflight = {}
    BY <1>1, FS_EmptySet
  <2>2. QED
    BY <1>1, <2>1, Size
<1>3. {queued[i] : i \in DOMAIN queued} = {} <=> u = f
  <2>1. 1 .. Len(queued) = {} <=> u = f
    BY <1>1, Size
  <2>2. QED
    BY <1>1, <2>1
<1>4. u = v <=> u = f /\ f = v
  BY Size
<1>5. QED
  BY <1>2, <1>3, <1>4 DEF Open

\* A call of nvme_rw that reports success leaves no command with the controller,
\* neither its own nor one that an earlier call gave up on.
THEOREM SuccessTheorem == SameSize /\ Spec => []SuccessMeansDone
<1>1. IInv => SuccessMeansDone
  <2> SUFFICES ASSUME IInv, pc = "idle", result = "ok"
               PROVE  Open = {}
    BY DEF SuccessMeansDone
  <2>1. PICK u \in 0 .. SqSize, v \in 0 .. SqSize, f \in 0 .. SqSize, t \in 0 .. SqSize,
             r \in 0 .. SqSize, g \in 0 .. SqSize, h \in [0 .. SqSize - 1 -> 0 .. SqSize] :
          Counted(u, v, f, t, r, g, h)
    BY DEF IInv
  <2>2. u = 0 /\ v <= f /\ f <= t /\ t <= u /\ Amounts(u, v, f)
    BY <2>1 DEF Counted, Control, Indices
  <2>3. v = 0 /\ f <= u
    BY <2>2, Size
  <2>4. QED
    BY <2>2, <2>3, OpenCount DEF IInv
<1>2. QED
  BY <1>1, Invariant, PTL

\* nvme_sync_cmd never polls for an entry that the controller has no reason to
\* write: the count it starts from, taken from the indices, is right.
THEOREM OwedTheorem == SameSize /\ Spec => []WaitsForOwed
<1>1. IInv => WaitsForOwed
  <2> SUFFICES ASSUME IInv, pc = "sync", ncmds > 0
               PROVE  Arrived \/ Open # {}
    BY DEF WaitsForOwed
  <2>1. PICK u \in 0 .. SqSize, v \in 0 .. SqSize, f \in 0 .. SqSize, t \in 0 .. SqSize,
             r \in 0 .. SqSize, g \in 0 .. SqSize, h \in [0 .. SqSize - 1 -> 0 .. SqSize] :
          Counted(u, v, f, t, r, g, h)
    BY DEF IInv
  <2>2. /\ ncmds = u /\ v <= f /\ f <= t /\ t <= u /\ Amounts(u, v, f)
    BY <2>1 DEF Counted, Control, Indices
  <2>3. f <= u /\ u > 0
    BY <2>2, Size
  <2>4. CASE v = 0
    BY <2>2, <2>3, <2>4, OpenCount DEF IInv
  <2>5. CASE v > 0
    <3>1. cq_h \in 0 .. SqSize - 1 /\ pt \in 0 .. 1
      BY Types DEF IInv
    <3>2. After(cq_h, 0) = cq_h /\ OldPhase(0) = pt /\ 0 \in 0 .. SqSize - 1
      BY <3>1, Size DEF After, OldPhase
    <3>3. cq[cq_h].phase = 1 - pt
      BY <2>1, <2>5, <3>2 DEF Counted, Entries
    <3>4. QED
      BY <3>1, <3>3 DEF Arrived
  <2>6. QED
    BY <2>4, <2>5
<1>2. QED
  BY <1>1, Invariant, PTL
=============================================================================
