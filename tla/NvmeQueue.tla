----------------------------- MODULE NvmeQueue -----------------------------
(***************************************************************************)
(* The I/O queue pair of the NVMe driver, src/drivers/storage/nvme.c, and  *)
(* the controller on its other side.                                       *)
(*                                                                         *)
(* nvme_rw cuts a request into chunks and puts a command for each into the *)
(* submission queue; nvme_sync_cmd rings the doorbell and polls for the    *)
(* completions of all commands outstanding, up to a timeout for each.  The *)
(* indices, the phase and the command id outlive a call, also one that     *)
(* failed.                                                                 *)
(*                                                                         *)
(* The controller fetches commands in order, completes them in any order   *)
(* and as late as it likes.                                                *)
(***************************************************************************)
EXTENDS Integers, Sequences, FiniteSets

CONSTANTS
    SqSize,        \* iosq_sz: NVME_CSQ_SIZE, or less when MQES is smaller
    CqSize,        \* what nvme_sync_cmd takes for the size: NVME_CCQ_SIZE
    CqDevice,      \* iocq_sz: the size the controller was given
    MaxChunks,     \* bound on the chunks of a call
    MaxCalls,      \* bound on the calls
    NoCommand

ASSUME NvmeAssumption ==
    /\ SqSize \in Nat /\ SqSize > 1
    /\ CqSize \in Nat /\ CqDevice \in 2 .. CqSize
    /\ MaxChunks \in Nat \ {0} /\ MaxCalls \in Nat \ {0}

VARIABLES
    sq_t, cq_h, pt, sqhd, cid,      \* the driver's copies for the queue
    sq, cq,                         \* the queues in memory
    pc, call, left, needs_sync,     \* nvme_rw
    ncmds, then,                    \* nvme_sync_cmd, and where it returns to
    result,                         \* of the last call
    timedout,                       \* some call has timed out
    tail, head,                     \* controller: tail doorbell, next fetch
    cqtail, cqhead, phase,          \* controller: next entry, head doorbell
    queued, inflight                \* commands not yet fetched, not yet completed

driver == <<sq_t, cq_h, pt, sqhd, cid, sq, pc, call, left, needs_sync, ncmds, then, result, timedout>>
device == <<tail, head, cqtail, cqhead, phase, inflight>>
vars == <<driver, device, cq, queued>>

Commands == [call : 1 .. MaxCalls, chunk : 1 .. MaxChunks, cid : 0 .. SqSize - 1]

NvmeTypeOK ==
    /\ sq_t \in 0 .. SqSize - 1 /\ sqhd \in 0 .. SqSize - 1
    /\ cq_h \in 0 .. CqSize - 1 /\ pt \in 0 .. 1
    /\ cid \in Nat
    /\ sq \in [0 .. SqSize - 1 -> Commands \cup {NoCommand}]
    /\ cq \in [0 .. CqSize - 1 -> [phase : 0 .. 1, sqhd : 0 .. SqSize - 1]]
    /\ pc \in {"idle", "chunk", "submit", "sync"}
    /\ call \in 0 .. MaxCalls /\ left \in 0 .. MaxChunks /\ needs_sync \in BOOLEAN
    /\ ncmds \in 0 .. CqSize
    /\ then \in {"submit", "chunk", "return"}
    /\ result \in {"ok", "failed"} /\ timedout \in BOOLEAN
    /\ tail \in 0 .. SqSize - 1 /\ head \in 0 .. SqSize - 1
    /\ cqtail \in 0 .. CqDevice - 1 /\ cqhead \in 0 .. CqSize - 1 /\ phase \in 0 .. 1
    /\ queued \in Seq(Commands) /\ inflight \subseteq Commands

Init ==
    /\ sq_t = 0 /\ cq_h = 0 /\ pt = 0 /\ sqhd = 0 /\ cid = 0
    /\ sq = [i \in 0 .. SqSize - 1 |-> NoCommand]
    /\ cq = [i \in 0 .. CqSize - 1 |-> [phase |-> 0, sqhd |-> 0]]
    /\ pc = "idle" /\ call = 0 /\ left = 0 /\ needs_sync = FALSE
    /\ ncmds = 0 /\ then = "return" /\ result = "ok" /\ timedout = FALSE
    /\ tail = 0 /\ head = 0 /\ cqtail = 0 /\ cqhead = 0 /\ phase = 1
    /\ queued = << >> /\ inflight = {}

-----------------------------------------------------------------------------
(* The driver.                                                              *)

Return(r) == pc' = "idle" /\ result' = r

\* nvme_rw of n chunks.
Start(n) ==
    /\ pc = "idle"
    /\ call < MaxCalls
    /\ call' = call + 1
    /\ left' = n
    /\ needs_sync' = FALSE
    /\ pc' = "chunk"
    /\ UNCHANGED <<sq_t, cq_h, pt, sqhd, cid, sq, ncmds, then, result, timedout, device, cq, queued>>

\* bounce_buffer_start finds no memory: nvme_rw returns at once.
NoBuffer ==
    /\ pc = "chunk" /\ left > 0
    /\ Return("failed")
    /\ UNCHANGED <<sq_t, cq_h, pt, sqhd, cid, sq, call, left, needs_sync, ncmds, then, timedout,
                   device, cq, queued>>

\* How many completions nvme_sync_cmd waits for.
OutstandingMutant == IF cq_h < sq_t THEN sq_t - cq_h ELSE (CqSize - 1 - cq_h) + sq_t
Outstanding == IF cq_h < sq_t THEN sq_t - cq_h ELSE (CqSize - cq_h) + sq_t

\* nvme_sync_cmd up to its loop: the doorbell covers all that is queued.
BeginSync(after) ==
    /\ tail' = sq_t
    /\ ncmds' = Outstanding
    /\ then' = after
    /\ pc' = "sync"

\* nvme_block_rw: one entry always stays free.
Full == (sq_t + 1) % SqSize = sqhd

CompleteFirst ==
    /\ pc = "chunk" /\ left > 0
    /\ Full
    /\ BeginSync("submit")
    /\ UNCHANGED <<sq_t, cq_h, pt, sqhd, cid, sq, call, left, needs_sync, result, timedout,
                   head, cqtail, cqhead, phase, inflight, cq, queued>>

\* The id selects the PRP list of the command.
CommandIdMutant == cid % SqSize
CommandId == cid

TailAfter == IF sq_t + 1 > SqSize - 1 THEN 0 ELSE sq_t + 1

\* The rest of nvme_block_rw, and of the loop's body.  An id that is used up is
\* an error: the entry is left cleared and the tail where it is.
Submit ==
    /\ \/ pc = "chunk" /\ left > 0 /\ ~Full
       \/ pc = "submit"
    /\ cid' = cid + 1
    /\ IF CommandId >= SqSize
       THEN /\ sq' = [sq EXCEPT ![sq_t] = NoCommand]
            /\ Return("failed")
            /\ UNCHANGED <<sq_t, left, needs_sync, queued>>
       ELSE LET c == [call |-> call, chunk |-> left, cid |-> CommandId] IN
            /\ sq' = [sq EXCEPT ![sq_t] = c]
            /\ queued' = Append(queued, c)
            /\ sq_t' = TailAfter
            /\ left' = left - 1
            /\ needs_sync' = TRUE
            /\ pc' = "chunk"
            /\ UNCHANGED result
    /\ UNCHANGED <<cq_h, pt, sqhd, call, ncmds, then, timedout, device, cq>>

StillNeedsSyncMutant == needs_sync
StillNeedsSync == FALSE

\* The buffer of the chunk bounced: its command is completed before the buffer
\* is given up.
SyncBounced ==
    /\ pc = "chunk" /\ needs_sync
    /\ BeginSync("chunk")
    /\ needs_sync' = StillNeedsSync
    /\ UNCHANGED <<sq_t, cq_h, pt, sqhd, cid, sq, call, left, result, timedout,
                   head, cqtail, cqhead, phase, inflight, cq, queued>>

\* After the last chunk.
Finish ==
    /\ pc = "chunk" /\ left = 0
    /\ IF needs_sync THEN BeginSync("return") /\ UNCHANGED result
                     ELSE Return("ok") /\ UNCHANGED <<tail, ncmds, then>>
    /\ UNCHANGED <<sq_t, cq_h, pt, sqhd, cid, sq, call, left, needs_sync, timedout,
                   head, cqtail, cqhead, phase, inflight, cq, queued>>

Arrived == cq[cq_h].phase # pt

\* One turn of the loop of nvme_sync_cmd.
Consume ==
    /\ pc = "sync" /\ ncmds > 0
    /\ Arrived
    /\ ncmds' = ncmds - 1
    /\ sqhd' = cq[cq_h].sqhd
    /\ IF cq_h + 1 > CqSize - 1 THEN cq_h' = 0 /\ pt' = 1 - pt
                                ELSE cq_h' = cq_h + 1 /\ UNCHANGED pt
    /\ UNCHANGED <<sq_t, cid, sq, pc, call, left, needs_sync, then, result, timedout, device, cq, queued>>

\* The completion is late: the call fails, its commands stay where they are.
Timeout ==
    /\ pc = "sync" /\ ncmds > 0
    /\ ~Arrived
    /\ timedout' = TRUE
    /\ Return("failed")
    /\ UNCHANGED <<sq_t, cq_h, pt, sqhd, cid, sq, call, left, needs_sync, ncmds, then, device, cq, queued>>

HeadRungMutant == cqhead
HeadRung == cq_h

\* The completions are given back to the controller, and the ids start over.
SyncEnds ==
    /\ pc = "sync" /\ ncmds = 0
    /\ cqhead' = HeadRung
    /\ cid' = IF sq_t = sqhd THEN 0 ELSE cid
    /\ IF then = "return" THEN Return("ok") ELSE pc' = then /\ UNCHANGED result
    /\ UNCHANGED <<sq_t, cq_h, pt, sqhd, sq, call, left, needs_sync, ncmds, then, timedout,
                   tail, head, cqtail, phase, inflight, cq, queued>>

-----------------------------------------------------------------------------
(* The controller.                                                          *)

Fetch ==
    /\ head # tail
    /\ head' = (head + 1) % SqSize
    /\ inflight' = inflight \cup {sq[head]}
    /\ queued' = Tail(queued)
    /\ UNCHANGED <<driver, tail, cqtail, cqhead, phase, cq>>

CqFull == (cqtail + 1) % CqDevice = cqhead

Complete(c) ==
    /\ c \in inflight
    /\ ~CqFull
    /\ inflight' = inflight \ {c}
    /\ cq' = [cq EXCEPT ![cqtail] = [phase |-> phase, sqhd |-> head]]
    /\ cqtail' = (cqtail + 1) % CqDevice
    /\ phase' = IF cqtail + 1 = CqDevice THEN 1 - phase ELSE phase
    /\ UNCHANGED <<driver, tail, head, cqhead, queued>>

Next ==
    \/ \E n \in 1 .. MaxChunks : Start(n)
    \/ NoBuffer \/ CompleteFirst \/ Submit \/ SyncBounced \/ Finish
    \/ Consume \/ Timeout \/ SyncEnds
    \/ Fetch
    \/ \E c \in inflight : Complete(c)

\* The driver runs on, and the controller works off what it was given.
Spec ==
    /\ Init /\ [][Next]_vars
    /\ WF_vars(NoBuffer \/ CompleteFirst \/ Submit \/ SyncBounced \/ Finish \/ Consume \/ SyncEnds)
    /\ WF_vars(Fetch)
    /\ WF_vars(\E c \in inflight : Complete(c))

-----------------------------------------------------------------------------
(* Properties.                                                              *)

Open == {queued[i] : i \in DOMAIN queued} \cup inflight

\* A call that succeeds leaves no command behind: those of its chunks are
\* completed, and those that earlier calls had given up on are, too.
SuccessMeansDone == pc = "idle" /\ result = "ok" => Open = {}

\* No two commands that the controller may still work on share a command id, and
\* with it the PRP list that says where their data goes.
PrpListsApart == \A a, b \in Open : a.cid = b.cid => a = b

\* A command stays in the submission queue until the controller has fetched it.
QueueIntact ==
    /\ Len(queued) = (sq_t - head) % SqSize
    /\ \A i \in DOMAIN queued : queued[i] = sq[(head + i - 1) % SqSize]

\* nvme_sync_cmd waits for an entry of the completion queue only when the
\* controller owes it one, whatever an earlier call has left unfinished.
WaitsForOwed == pc = "sync" /\ ncmds > 0 => Arrived \/ Open # {}

\* As long as no call has timed out, each wait for the completions ends without
\* a timeout: the controller never runs out of entries while the driver waits
\* for more before it gives back any.
SyncServed == (pc = "sync" /\ ~timedout) ~> pc # "sync"

\* A command that the controller may still use is left alone, its queue entry
\* and its PRP list alike, until the controller is done with it.
CommandsIntact == NvmeTypeOK /\ QueueIntact /\ PrpListsApart
=============================================================================
