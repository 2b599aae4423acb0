-------------------------- MODULE FastbootLog_proofs --------------------------
(***************************************************************************)
(* The ring buffer of the fastboot log holds the last SIZE bytes printed,  *)
(* for every size of the buffer and every length of the strings printed.   *)
(* The screen over it shows a page of these bytes, and paging skips none,  *)
(* for every size of the screen.                                           *)
(***************************************************************************)
EXTENDS FastbootLogPager, TLAPS, WellFoundedInduction

\* Where every byte is: those left of idx are the last idx ones, those from
\* idx on, once the buffer has been filled, the ones before them.
RingInv ==
    /\ idx <= total_len
    /\ total_len < SIZE => idx = total_len
    /\ \A p \in 0 .. SIZE - 1 :
          /\ p < idx => buf[p] = total_len - idx + p
          /\ p >= idx /\ total_len >= SIZE => buf[p] = total_len - idx - SIZE + p

Inv == TypeOK /\ RingInv

USE LogAssumption

\* x % SIZE in the two cases the iterators meet.
LEMMA ModBelow == \A x \in 0 .. SIZE - 1 : x % SIZE = x
  OBVIOUS

LEMMA ModAbove == \A x \in SIZE .. 2 * SIZE - 1 : x % SIZE = x - SIZE
  OBVIOUS

\* What a memcpy into the buffer leaves.
LEMMA CopiedType ==
    ASSUME NEW b \in [0 .. SIZE - 1 -> {Junk} \cup Nat], NEW at \in Nat,
           NEW first \in Nat, NEW n \in Nat
    PROVE  Copied(b, at, first, n) \in [0 .. SIZE - 1 -> {Junk} \cup Nat]
  BY DEF Copied

\* fastboot_logger_write keeps every byte in its place, whether the string
\* fits before the end of the buffer, wraps, or is longer than the buffer.
LEMMA WriteStep ==
    ASSUME Inv, NEW count \in Nat, fastboot_logger_write(count)
    PROVE  Inv'
<1> DEFINE kept    == Kept(count)
           first   == total_len + count - kept
           to_copy == MinOf(SIZE - idx, kept)
           once    == Copied(buf, idx, first, to_copy)
           twice   == Copied(once, 0, first + to_copy, kept - to_copy)
<1>1. /\ kept \in 0 .. SIZE /\ kept <= count
      /\ first \in Nat
      /\ to_copy \in 0 .. SIZE /\ to_copy <= kept /\ to_copy <= SIZE - idx
      /\ kept < SIZE => kept = count
      /\ to_copy < SIZE - idx => to_copy = kept
  BY DEF Inv, TypeOK, Kept, MinOf
<1>2. /\ total_len' = total_len + count
      /\ active' = active
  BY DEF fastboot_logger_write
<1>3. once \in [0 .. SIZE - 1 -> {Junk} \cup Nat]
  <2>1. idx \in Nat /\ to_copy \in Nat /\ buf \in [0 .. SIZE - 1 -> {Junk} \cup Nat]
    BY <1>1 DEF Inv, TypeOK
  <2>2. QED
    BY <1>1, <2>1, CopiedType
<1>4. \A p \in 0 .. SIZE - 1 :
         once[p] = IF p \in idx .. idx + to_copy - 1 THEN first + p - idx ELSE buf[p]
  BY DEF Copied
<1>5. CASE Wraps(to_copy)
  <2>1. buf' = twice /\ idx' = kept - to_copy
    BY <1>5 DEF fastboot_logger_write
  <2>2. to_copy = SIZE - idx
    BY <1>1, <1>5 DEF Wraps, Inv, TypeOK
  <2>3. twice \in [0 .. SIZE - 1 -> {Junk} \cup Nat]
    <3>1. first + to_copy \in Nat /\ kept - to_copy \in Nat
      BY <1>1
    <3>2. QED
      BY <1>3, <3>1, CopiedType
  <2>4. \A p \in 0 .. SIZE - 1 :
           twice[p] = IF p \in 0 .. kept - to_copy - 1 THEN first + to_copy + p ELSE once[p]
    BY <1>1 DEF Copied
  <2>5. idx' \in 0 .. SIZE - 1 /\ total_len' \in Nat
    <3>1. idx \in 0 .. SIZE - 1 /\ total_len \in Nat
      BY DEF Inv, TypeOK
    <3>2. QED
      BY <1>1, <1>2, <2>1, <2>2, <3>1
  <2>6. TypeOK'
    BY <1>2, <2>1, <2>3, <2>5 DEF Inv, TypeOK
  <2>7. idx' <= total_len' /\ total_len' >= SIZE
    <3>1. /\ idx \in 0 .. SIZE - 1 /\ total_len \in Nat /\ SIZE \in Nat
          /\ idx <= total_len
      BY DEF Inv, TypeOK, RingInv
    <3> HIDE DEF kept, first, to_copy, once, twice
    <3>2. QED
      BY <1>1, <1>2, <2>1, <2>2, <3>1
  <2>8. ASSUME NEW p \in 0 .. SIZE - 1
        PROVE  /\ p < idx' => buf'[p] = total_len' - idx' + p
               /\ p >= idx' => buf'[p] = total_len' - idx' - SIZE + p
    <3> HIDE DEF kept, to_copy, once, twice
    <3>1. CASE p < idx'
      BY <1>1, <1>2, <2>1, <2>2, <2>4, <2>5, <3>1 DEF Inv, TypeOK
    <3>2. CASE p >= idx' /\ p >= idx
      BY <1>1, <1>2, <1>4, <2>1, <2>2, <2>4, <2>5, <3>2 DEF Inv, TypeOK
    <3>3. CASE p >= idx' /\ p < idx
      <4>1. buf'[p] = buf[p]
        BY <1>1, <1>4, <2>1, <2>4, <2>5, <3>3 DEF Inv, TypeOK
      <4>2. buf[p] = total_len - idx + p
        BY <3>3 DEF Inv, RingInv
      <4>3. kept = count
        BY <1>1, <2>1, <2>2, <3>3 DEF Inv, TypeOK
      <4>4. QED
        BY <1>1, <1>2, <2>1, <2>2, <4>1, <4>2, <4>3, <3>3 DEF Inv, TypeOK
    <3>4. QED
      BY <3>1, <3>2, <3>3, <2>5 DEF Inv, TypeOK
  <2>9. total_len' < SIZE => idx' = total_len'
    BY <2>5, <2>7
  <2>10. RingInv'
    BY <2>7, <2>8, <2>9, Zenon DEF RingInv
  <2>11. QED
    BY <2>6, <2>10 DEF Inv
<1>6. CASE ~Wraps(to_copy)
  <2>1. buf' = once /\ idx' = idx + to_copy
    BY <1>6 DEF fastboot_logger_write
  <2>2. to_copy = count /\ idx + count < SIZE
    BY <1>1, <1>6 DEF Wraps, Inv, TypeOK
  <2>3. idx' \in 0 .. SIZE - 1 /\ total_len' \in Nat
    <3>1. idx \in 0 .. SIZE - 1 /\ total_len \in Nat
      BY DEF Inv, TypeOK
    <3> HIDE DEF to_copy
    <3>2. QED
      BY <1>2, <2>1, <2>2, <3>1
  <2>4. TypeOK'
    BY <1>2, <1>3, <2>1, <2>3 DEF Inv, TypeOK
  <2>5. /\ idx' <= total_len'
        /\ total_len' < SIZE => idx' = total_len'
    BY <1>2, <2>1, <2>2 DEF Inv, TypeOK, RingInv
  <2>6. ASSUME NEW p \in 0 .. SIZE - 1
        PROVE  /\ p < idx' => buf'[p] = total_len' - idx' + p
               /\ p >= idx' /\ total_len' >= SIZE =>
                    buf'[p] = total_len' - idx' - SIZE + p
    <3> HIDE DEF to_copy, once
    <3>1. first = total_len
      BY <1>1, <2>2 DEF Inv, TypeOK
    <3> HIDE DEF kept, first
    <3>2. CASE p < idx
      <4>1. buf'[p] = buf[p] /\ buf[p] = total_len - idx + p
        BY <1>4, <2>1, <3>2 DEF Inv, TypeOK, RingInv
      <4>2. QED
        BY <4>1, <1>2, <2>1, <2>2, <3>2 DEF Inv, TypeOK
    <3>3. CASE p >= idx /\ p < idx'
      BY <1>2, <1>4, <2>1, <2>2, <3>1, <3>3 DEF Inv, TypeOK
    <3>4. CASE p >= idx'
      <4>1. buf'[p] = buf[p]
        BY <1>1, <1>4, <2>1, <3>4 DEF Inv, TypeOK
      <4>2. total_len' >= SIZE => total_len >= SIZE
        BY <1>2, <2>1, <2>2, <2>3 DEF Inv, TypeOK, RingInv
      <4>3. QED
        BY <1>2, <2>1, <2>2, <3>4, <4>1, <4>2 DEF Inv, TypeOK, RingInv
    <3>5. QED
      BY <3>2, <3>3, <3>4, <2>3 DEF Inv, TypeOK
  <2>7. QED
    BY <2>4, <2>5, <2>6 DEF Inv, RingInv
<1>7. QED
  BY <1>5, <1>6

\* Every step of the log keeps the invariant.
LEMMA InvStep == Inv /\ [Next]_logVars => Inv'
<1> SUFFICES ASSUME Inv, [Next]_logVars PROVE Inv'
  OBVIOUS
<1>1. CASE Write
  BY <1>1, WriteStep DEF Write
<1>2. CASE UNCHANGED log /\ active' \in BOOLEAN
  BY <1>2 DEF log, Inv, TypeOK, RingInv
<1>3. CASE WriteIgnored \/ UNCHANGED logVars
  BY <1>2, <1>3 DEF WriteIgnored, logVars, Inv, TypeOK
<1>4. CASE fastboot_log_set_active
  <2>1. active' \in BOOLEAN
    BY <1>4, Zenon DEF fastboot_log_set_active
  <2>2. QED
    BY <1>2, <1>4, <2>1 DEF fastboot_log_set_active
<1>5. CASE Reopen
  <2>1. active' \in BOOLEAN
    BY <1>5, Zenon DEF Reopen
  <2>2. QED
    BY <1>5, <2>1 DEF Reopen, Inv, TypeOK, RingInv
<1>6. QED
  BY <1>1, <1>3, <1>4, <1>5 DEF Next

\* A fresh log satisfies it.
LEMMA InvInit == Init => Inv
<1> SUFFICES ASSUME Init PROVE Inv
  OBVIOUS
<1>1. active \in BOOLEAN
  BY Zenon DEF Init
<1>2. QED
  BY <1>1 DEF Init, Inv, TypeOK, RingInv

\* The invariant holds in every state of the log.
THEOREM InvAlways == Spec => []Inv
  BY InvInit, InvStep, PTL DEF Spec

\* The write index stays inside the buffer, whatever is printed.
THEOREM TypeCorrect == Spec => []TypeOK
<1>1. Inv => TypeOK
  BY DEF Inv
<1>2. QED
  BY <1>1, InvAlways, PTL

-----------------------------------------------------------------------------
(* What the readers return.                                                 *)

\* Where the ring keeps a byte that is still available, counted from the
\* oldest one.
LEMMA AvailableByte ==
    ASSUME Inv, NEW byte \in Nat, Available(byte)
    PROVE  LET oldest == fastboot_log_get_oldest_available_byte
           IN  /\ oldest \in Nat
               /\ total_len < SIZE => /\ idx = total_len
                                      /\ oldest = 0
                                      /\ buf[byte] = byte
               /\ total_len >= SIZE =>
                    /\ idx # total_len
                    /\ oldest = total_len - SIZE
                    /\ idx + byte - oldest < SIZE => buf[idx + byte - oldest] = byte
                    /\ idx + byte - oldest >= SIZE =>
                         /\ buf[idx + byte - oldest - SIZE] = byte
                         /\ idx + byte - oldest \in SIZE .. 2 * SIZE - 1
<1> DEFINE oldest == fastboot_log_get_oldest_available_byte
<1>1. /\ idx \in 0 .. SIZE - 1
      /\ total_len \in Nat
      /\ oldest = IF total_len < SIZE THEN 0 ELSE total_len - SIZE
      /\ oldest <= byte /\ byte < total_len
  BY DEF Inv, TypeOK, Available, fastboot_log_get_oldest_available_byte
<1>2. CASE total_len < SIZE
  <2>1. idx = total_len
    BY <1>2 DEF Inv, RingInv
  <2>2. byte \in 0 .. SIZE - 1 /\ byte < idx
    BY <1>1, <1>2, <2>1
  <2>3. buf[byte] = total_len - idx + byte
    BY <2>2 DEF Inv, RingInv
  <2>4. QED
    BY <1>1, <1>2, <2>1, <2>3
<1>3. CASE total_len >= SIZE
  <2>1. CASE idx + byte - oldest < SIZE
    <3>1. idx + byte - oldest \in 0 .. SIZE - 1 /\ idx + byte - oldest >= idx
      BY <1>1, <1>3, <2>1
    <3>2. buf[idx + byte - oldest] = total_len - idx - SIZE + (idx + byte - oldest)
      BY <1>3, <3>1 DEF Inv, RingInv
    <3>3. QED
      BY <1>1, <1>3, <2>1, <3>2
  <2>2. CASE idx + byte - oldest >= SIZE
    <3>1. /\ idx + byte - oldest - SIZE \in 0 .. SIZE - 1
          /\ idx + byte - oldest - SIZE < idx
      BY <1>1, <1>3, <2>2
    <3>2. buf[idx + byte - oldest - SIZE] = total_len - idx + (idx + byte - oldest - SIZE)
      BY <1>3, <3>1 DEF Inv, RingInv
    <3>3. QED
      BY <1>1, <1>3, <2>2, <3>1, <3>2
  <2>3. QED
    BY <1>1, <2>1, <2>2
<1>4. QED
  BY <1>1, <1>2, <1>3

\* The iterator of an available byte is the position that holds it.
LEMMA IterReads ==
    ASSUME Inv, NEW byte \in Nat, Available(byte)
    PROVE  LET iter == fastboot_log_get_iter(byte)
           IN  /\ iter \in 0 .. SIZE - 1
               /\ buf[iter] = byte
               /\ total_len < SIZE => iter = byte
               /\ total_len >= SIZE =>
                    iter = IF idx + byte - (total_len - SIZE) < SIZE
                           THEN idx + byte - (total_len - SIZE)
                           ELSE idx + byte - total_len
<1> DEFINE oldest == fastboot_log_get_oldest_available_byte
           x == idx + byte - oldest
           iter == fastboot_log_get_iter(byte)
<1>1. /\ idx \in 0 .. SIZE - 1
      /\ total_len \in Nat
      /\ oldest <= byte /\ byte < total_len
  BY DEF Inv, TypeOK, Available
<1>2. CASE total_len < SIZE
  BY <1>1, <1>2, AvailableByte DEF fastboot_log_get_iter
<1>3. CASE total_len >= SIZE
  <2>1. /\ iter = x % SIZE
        /\ oldest = total_len - SIZE
    BY <1>3, AvailableByte DEF fastboot_log_get_iter
  <2>2. CASE x < SIZE
    <3>1. x \in 0 .. SIZE - 1
      BY <1>1, <2>1, <2>2, <1>3
    <3>2. iter = x
      BY <2>1, <3>1, ModBelow
    <3>3. buf[x] = byte
      BY <1>3, <2>2, AvailableByte
    <3>4. QED
      BY <1>1, <1>3, <2>1, <2>2, <3>1, <3>2, <3>3
  <2>3. CASE x >= SIZE
    <3>1. x \in SIZE .. 2 * SIZE - 1 /\ buf[x - SIZE] = byte
      <4>1. total_len >= SIZE /\ idx + byte - fastboot_log_get_oldest_available_byte >= SIZE
        BY <1>3, <2>3
      <4>2. /\ buf[idx + byte - fastboot_log_get_oldest_available_byte - SIZE] = byte
            /\ idx + byte - fastboot_log_get_oldest_available_byte \in SIZE .. 2 * SIZE - 1
        BY <4>1, AvailableByte
      <4>3. QED
        BY <1>1, <1>3, <2>1, <4>2
    <3>2. iter = x - SIZE
      BY <2>1, <3>1, ModAbove
    <3>3. QED
      BY <1>1, <1>3, <2>1, <2>3, <3>1, <3>2
  <2>4. QED
    BY <1>1, <2>1, <2>2, <2>3
<1>4. QED
  BY <1>1, <1>2, <1>3

\* The iterator of the first byte that is not there is no iterator.
LEMMA NoIter ==
    ASSUME NEW byte \in Nat, ~Available(byte)
    PROVE  fastboot_log_get_iter(byte) = UINT64_MAX
  BY DEF fastboot_log_get_iter

\* Stepping an iterator forward.
LEMMA IncWalks ==
    ASSUME Inv, NEW byte \in Nat, Available(byte)
    PROVE  fastboot_log_inc_iter(fastboot_log_get_iter(byte)) = fastboot_log_get_iter(byte + 1)
<1> DEFINE iter == fastboot_log_get_iter(byte)
           next == (iter + 1) % SIZE
<1>1. /\ idx \in 0 .. SIZE - 1
      /\ total_len \in Nat
      /\ byte < total_len
      /\ total_len < SIZE => idx = total_len
      /\ fastboot_log_get_oldest_available_byte <= byte
      /\ fastboot_log_get_oldest_available_byte =
            IF total_len < SIZE THEN 0 ELSE total_len - SIZE
  BY DEF Inv, TypeOK, RingInv, Available, fastboot_log_get_oldest_available_byte
<1>2. /\ iter \in 0 .. SIZE - 1
      /\ total_len < SIZE => iter = byte
      /\ total_len >= SIZE =>
            iter = IF idx + byte - (total_len - SIZE) < SIZE
                   THEN idx + byte - (total_len - SIZE)
                   ELSE idx + byte - total_len
  BY IterReads
<1> HIDE DEF iter
<1>3. next = IF iter + 1 < SIZE THEN iter + 1 ELSE 0
  <2>1. CASE iter + 1 < SIZE
    BY <1>2, <2>1, ModBelow
  <2>2. CASE iter + 1 = SIZE
    BY <1>2, <2>2, ModAbove
  <2>3. QED
    BY <1>2, <2>1, <2>2
<1>4. fastboot_log_inc_iter(iter) = IF next = idx THEN UINT64_MAX ELSE next
  BY DEF fastboot_log_inc_iter
<1> HIDE DEF next
<1>5. CASE byte + 1 = total_len
  <2>1. next = idx
    BY <1>1, <1>2, <1>3, <1>5
  <2>2. ~Available(byte + 1)
    BY <1>1, <1>5 DEF Available
  <2>3. QED
    BY <1>4, <2>1, <2>2, NoIter DEF iter
<1>6. CASE byte + 1 < total_len
  <2>1. Available(byte + 1)
    BY <1>1, <1>6 DEF Available
  <2>2. /\ total_len < SIZE => fastboot_log_get_iter(byte + 1) = byte + 1
        /\ total_len >= SIZE =>
             fastboot_log_get_iter(byte + 1) =
                   IF idx + (byte + 1) - (total_len - SIZE) < SIZE
                   THEN idx + (byte + 1) - (total_len - SIZE)
                   ELSE idx + (byte + 1) - total_len
    BY <2>1, IterReads
  <2>3. next = fastboot_log_get_iter(byte + 1) /\ next # idx
    BY <1>1, <1>2, <1>3, <1>6, <2>2
  <2>4. QED
    BY <1>4, <2>3 DEF iter
<1>7. QED
  BY <1>1, <1>5, <1>6

\* Stepping an iterator backward.
LEMMA DecWalks ==
    ASSUME Inv, NEW byte \in Nat, Available(byte)
    PROVE  fastboot_log_dec_iter(fastboot_log_get_iter(byte)) =
             IF byte = 0 THEN UINT64_MAX ELSE fastboot_log_get_iter(byte - 1)
<1> DEFINE iter == fastboot_log_get_iter(byte)
           next == (iter + SIZE - 1) % SIZE
<1>1. /\ idx \in 0 .. SIZE - 1
      /\ total_len \in Nat
      /\ byte < total_len
      /\ total_len < SIZE => idx = total_len
      /\ fastboot_log_get_oldest_available_byte <= byte
      /\ fastboot_log_get_oldest_available_byte =
            IF total_len < SIZE THEN 0 ELSE total_len - SIZE
  BY DEF Inv, TypeOK, RingInv, Available, fastboot_log_get_oldest_available_byte
<1>2. /\ iter \in 0 .. SIZE - 1
      /\ total_len < SIZE => iter = byte
      /\ total_len >= SIZE =>
            iter = IF idx + byte - (total_len - SIZE) < SIZE
                   THEN idx + byte - (total_len - SIZE)
                   ELSE idx + byte - total_len
  BY IterReads
<1> HIDE DEF iter
<1>3. next = IF iter = 0 THEN SIZE - 1 ELSE iter - 1
  <2>1. CASE iter = 0
    BY <1>2, <2>1, ModBelow
  <2>2. CASE iter > 0
    <3>1. iter + SIZE - 1 \in SIZE .. 2 * SIZE - 1
      BY <1>2, <2>2
    <3>2. QED
      BY <1>2, <2>2, <3>1, ModAbove
  <2>3. QED
    BY <1>2, <2>1, <2>2
<1>4. fastboot_log_dec_iter(iter) =
        IF iter = idx \/ next >= total_len THEN UINT64_MAX ELSE next
  BY DEF fastboot_log_dec_iter
<1> HIDE DEF next
<1>5. CASE byte = fastboot_log_get_oldest_available_byte
  <2>1. iter = idx \/ next >= total_len
    BY <1>1, <1>2, <1>3, <1>5
  <2>2. byte # 0 => byte - 1 \in Nat /\ ~Available(byte - 1)
    BY <1>1, <1>5 DEF Available
  <2>3. QED
    BY <1>4, <2>1, <2>2, NoIter DEF iter
<1>6. CASE byte > fastboot_log_get_oldest_available_byte
  <2>1. byte - 1 \in Nat /\ Available(byte - 1)
    BY <1>1, <1>6 DEF Available
  <2>2. /\ total_len < SIZE => fastboot_log_get_iter(byte - 1) = byte - 1
        /\ total_len >= SIZE =>
             fastboot_log_get_iter(byte - 1) =
                   IF idx + (byte - 1) - (total_len - SIZE) < SIZE
                   THEN idx + (byte - 1) - (total_len - SIZE)
                   ELSE idx + (byte - 1) - total_len
    BY <2>1, IterReads
  <2>3. byte # 0 /\ next = fastboot_log_get_iter(byte - 1) /\ next < total_len /\ iter # idx
    BY <1>1, <1>2, <1>3, <1>6, <2>2
  <2>4. ~(iter = idx \/ next >= total_len)
    BY <1>1, <1>2, <1>3, <2>3
  <2>5. QED
    BY <1>4, <2>3, <2>4 DEF iter
<1>7. QED
  BY <1>1, <1>5, <1>6

\* Iterators read and walk the bytes in the order they were printed.
THEOREM IteratorsCorrect == Spec => []IteratorsWalk
<1>1. Inv => IteratorsWalk
  <2> SUFFICES ASSUME Inv, NEW byte \in 0 .. total_len - 1, Available(byte)
               PROVE  LET iter == fastboot_log_get_iter(byte)
                      IN  /\ iter \in 0 .. SIZE - 1
                          /\ fastboot_log_get_byte_at_iter(iter) = byte
                          /\ fastboot_log_inc_iter(iter) = fastboot_log_get_iter(byte + 1)
                          /\ fastboot_log_dec_iter(iter) =
                               IF byte = 0 THEN UINT64_MAX ELSE fastboot_log_get_iter(byte - 1)
    BY DEF IteratorsWalk
  <2>1. byte \in Nat
    BY DEF Inv, TypeOK
  <2>2. QED
    BY <2>1, IterReads, IncWalks, DecWalks DEF fastboot_log_get_byte_at_iter
<1>2. QED
  BY <1>1, InvAlways, PTL

\* A part of the log that is available, whichever way it lies in the ring.
LEMMA BufTail ==
    ASSUME Inv, NEW start \in Nat, NEW num \in Nat, Available(start)
    PROVE  fastboot_log_get_buf(start, num) =
             [i \in 1 .. MinOf(num, total_len - start) |-> start + i - 1]
<1> DEFINE oldest == fastboot_log_get_oldest_available_byte
           offset == start - oldest
           right  == SIZE - idx - offset
           both   == MinOf(right + idx, num)
           len    == MinOf(num, total_len - start)
           tail   == [i \in 1 .. len |-> start + i - 1]
<1>1. /\ idx \in 0 .. SIZE - 1
      /\ total_len \in Nat
      /\ start < total_len /\ oldest <= start
      /\ oldest = IF total_len < SIZE THEN 0 ELSE total_len - SIZE
      /\ total_len < SIZE => idx = total_len
  BY DEF Inv, TypeOK, RingInv, Available, fastboot_log_get_oldest_available_byte
<1>2. len \in Nat /\ len <= num /\ len <= total_len - start
  BY <1>1 DEF MinOf
<1>3. ASSUME NEW i \in 1 .. len
      PROVE  start + i - 1 \in Nat /\ Available(start + i - 1)
  BY <1>1, <1>2 DEF Available
<1>4. CASE idx = total_len
  <2>1. total_len < SIZE
    BY <1>1, <1>4
  <2>2. fastboot_log_get_buf(start, num) = From(start, MinOf(total_len - start, num))
    BY <1>4 DEF fastboot_log_get_buf
  <2>3. MinOf(total_len - start, num) = len
    BY <1>1 DEF MinOf
  <2>4. \A i \in 1 .. len : buf[start + i - 1] = start + i - 1
    BY <1>3, <2>1, AvailableByte
  <2>5. QED
    BY <2>2, <2>3, <2>4 DEF From
<1>5. CASE idx # total_len /\ idx + offset >= SIZE
  <2>1. total_len >= SIZE
    BY <1>1, <1>5
  <2>2. (idx + offset) % SIZE = idx + offset - SIZE
    <3>1. idx + offset \in SIZE .. 2 * SIZE - 1
      BY <1>1, <1>5, <2>1
    <3>2. QED
      BY <1>1, <2>1, <3>1, ModAbove
  <2>3. fastboot_log_get_buf(start, num) =
          From(idx + offset - SIZE, MinOf(total_len - start, num))
    BY <1>5, <2>2 DEF fastboot_log_get_buf
  <2>4. MinOf(total_len - start, num) = len
    BY <1>1 DEF MinOf
  <2>5. ASSUME NEW i \in 1 .. len
        PROVE  buf[(idx + offset - SIZE) + i - 1] = start + i - 1
    <3>1. /\ (idx + offset - SIZE) + i - 1 = idx + start + i - 1 - total_len
          /\ (idx + offset - SIZE) + i - 1 \in 0 .. SIZE - 1
          /\ (idx + offset - SIZE) + i - 1 < idx
      BY <1>1, <1>2, <1>5, <2>1
    <3>2. buf[(idx + offset - SIZE) + i - 1] =
            total_len - idx + ((idx + offset - SIZE) + i - 1)
      BY <3>1 DEF Inv, RingInv
    <3>3. QED
      BY <1>1, <1>2, <2>1, <3>1, <3>2
  <2>6. QED
    BY <2>3, <2>4, <2>5 DEF From
<1>6. CASE idx # total_len /\ idx + offset < SIZE
  <2>1. total_len >= SIZE
    BY <1>1, <1>6
  <2>2. /\ offset \in Nat
        /\ right \in Nat
        /\ right + idx = total_len - start
        /\ oldest = total_len - SIZE
    BY <1>1, <1>6, <2>1
  <2>3. ASSUME NEW i \in 1 .. len, i <= right
        PROVE  buf[idx + offset + i - 1] = start + i - 1
    <3>1. idx + offset + i - 1 \in 0 .. SIZE - 1 /\ idx + offset + i - 1 >= idx
      BY <1>1, <1>2, <2>2, <2>3
    <3>2. buf[idx + offset + i - 1] = total_len - idx - SIZE + (idx + offset + i - 1)
      BY <2>1, <3>1 DEF Inv, RingInv
    <3>3. QED
      BY <1>1, <1>2, <2>2, <3>2
  <2>4. CASE right >= num
    <3>1. fastboot_log_get_buf(start, num) = From(idx + offset, num)
      BY <1>1, <1>6, <2>4 DEF fastboot_log_get_buf
    <3>2. len = num /\ len <= right
      BY <1>1, <2>2, <2>4 DEF MinOf
    <3>3. \A i \in 1 .. len : buf[idx + offset + i - 1] = start + i - 1
      <4>1. \A i \in 1 .. len : i <= right
        BY <1>2, <2>2, <3>2
      <4>2. QED
        BY <4>1, <2>3
    <3>4. QED
      BY <3>1, <3>2, <3>3 DEF From
  <2>5. CASE right < num
    <3>1. fastboot_log_get_buf(start, num) =
            [i \in 1 .. both |-> IF i <= right THEN buf[idx + offset + i - 1]
                                               ELSE buf[i - right - 1]]
      BY <1>1, <1>6, <2>5 DEF fastboot_log_get_buf
    <3>2. both = len
      BY <1>1, <2>2 DEF MinOf
    <3>3. ASSUME NEW i \in 1 .. len, i > right
          PROVE  buf[i - right - 1] = start + i - 1
      <4>1. i - right - 1 \in 0 .. SIZE - 1 /\ i - right - 1 < idx
        BY <1>1, <1>2, <2>2, <3>3
      <4>2. buf[i - right - 1] = total_len - idx + (i - right - 1)
        BY <4>1 DEF Inv, RingInv
      <4>3. QED
        BY <1>1, <1>2, <2>2, <4>2
    <3>4. \A i \in 1 .. len : (IF i <= right THEN buf[idx + offset + i - 1]
                                             ELSE buf[i - right - 1]) = start + i - 1
      BY <2>2, <2>3, <3>3
    <3>5. QED
      BY <3>1, <3>2, <3>4
  <2>6. QED
    BY <2>2, <2>4, <2>5
<1>7. QED
  BY <1>1, <1>4, <1>5, <1>6

\* The log is the last SIZE bytes printed, for every reader of any part of it.
THEOREM BufCorrect == Spec => []BufIsTail
<1>1. Inv => BufIsTail
  <2> SUFFICES ASSUME Inv, NEW start \in 0 .. total_len, NEW num \in 0 .. SIZE + 1
               PROVE  fastboot_log_get_buf(start, num) =
                        IF start < total_len - SIZE \/ start >= total_len THEN NULL
                        ELSE [i \in 1 .. MinOf(num, total_len - start) |-> start + i - 1]
    BY DEF BufIsTail
  <2>1. total_len \in Nat /\ start \in Nat /\ num \in Nat
    BY DEF Inv, TypeOK
  <2>2. Available(start) <=> ~(start < total_len - SIZE \/ start >= total_len)
    BY <2>1 DEF Available, fastboot_log_get_oldest_available_byte
  <2>3. CASE Available(start)
    BY <2>1, <2>2, <2>3, BufTail
  <2>4. CASE ~Available(start)
    BY <2>2, <2>4 DEF fastboot_log_get_buf
  <2>5. QED
    BY <2>3, <2>4
<1>2. QED
  BY <1>1, InvAlways, PTL

\* Together: every reader of the log agrees with what was printed.
THEOREM ReadersCorrect == Spec => []ReadersAgree
<1>1. TypeOK /\ BufIsTail /\ IteratorsWalk => ReadersAgree
  BY DEF ReadersAgree
<1>2. QED
  BY <1>1, TypeCorrect, BufCorrect, IteratorsCorrect, PTL

-----------------------------------------------------------------------------
(* The screen over the log.                                                 *)

\* Every natural number is reached from 0 in steps of one.
LEMMA InSteps ==
    ASSUME NEW S, 0 \in S, \A n \in Nat : n \in S => n + 1 \in S
    PROVE  \A n \in Nat : n \in S
<1> DEFINE R == {ss \in Nat \X Nat : ss[1] < ss[2]}
           T == Nat \ S
<1>1. IsWellFoundedOn(R, Nat)
  <2>1. R = OpToRel(<, Nat)
    BY DEF OpToRel
  <2>2. QED
    BY NatLessThanWellFounded, <2>1
<1>2. ASSUME T # {}
      PROVE  FALSE
  <2> HIDE DEF R
  <2>1. T \subseteq Nat
    OBVIOUS
  <2> HIDE DEF T
  <2>2. PICK n \in T : \A m \in T : ~ (<<m, n>> \in R)
    BY <1>1, <1>2, <2>1, WFMin
  <2>3. n \in Nat /\ n \notin S /\ n # 0
    BY <2>2 DEF T
  <2>4. n - 1 \in Nat /\ (n - 1) + 1 = n
    BY <2>3
  <2>5. <<n - 1, n>> \in R
    BY <2>3, <2>4 DEF R
  <2>6. n - 1 \in S
    BY <2>2, <2>4, <2>5 DEF T
  <2>7. QED
    BY <2>3, <2>4, <2>6
<1>3. QED
  BY <1>2

\* The first n rounds of a loop.
FirstRounds(D, g, x, n, f) ==
    /\ f \in [0 .. n -> D]
    /\ f[0] = x
    /\ \A k \in 1 .. n : f[k] = g[f[k - 1]]

\* They exist for every n.
LEMMA FirstRoundsExist ==
    ASSUME NEW D, NEW g \in [D -> D], NEW x \in D
    PROVE  \A n \in Nat : \E f : FirstRounds(D, g, x, n, f)
<1> DEFINE S == {n \in Nat : \E f : FirstRounds(D, g, x, n, f)}
<1>1. 0 \in S
  <2>1. FirstRounds(D, g, x, 0, [k \in 0 .. 0 |-> x])
    BY DEF FirstRounds
  <2>2. QED
    BY <2>1
<1>2. ASSUME NEW n \in Nat, n \in S
      PROVE  n + 1 \in S
  <2>1. PICK f : FirstRounds(D, g, x, n, f)
    BY <1>2
  <2> DEFINE h == [k \in 0 .. n + 1 |-> IF k = n + 1 THEN g[f[n]] ELSE f[k]]
  <2>2. f[n] \in D /\ g[f[n]] \in D
    BY <2>1 DEF FirstRounds
  <2>3. h \in [0 .. n + 1 -> D]
    BY <2>1, <2>2 DEF FirstRounds
  <2>4. ASSUME NEW k \in 1 .. n + 1
        PROVE  h[k] = g[h[k - 1]]
    <3>1. CASE k = n + 1
      BY <3>1
    <3>2. CASE k \in 1 .. n
      BY <2>1, <3>2 DEF FirstRounds
    <3>3. QED
      BY <3>1, <3>2
  <2>5. h[0] = x
    BY <2>1 DEF FirstRounds
  <2> HIDE DEF h
  <2>6. FirstRounds(D, g, x, n + 1, h)
    BY <2>3, <2>4, <2>5 DEF FirstRounds
  <2>7. QED
    BY <2>6
<1>3. \A n \in Nat : n \in S
  <2> HIDE DEF S
  <2>1. QED
    BY <1>1, <1>2, InSteps
<1>4. QED
  BY <1>3

\* And there is only one way a loop can go.
LEMMA FirstRoundsAgree ==
    ASSUME NEW D, NEW g \in [D -> D], NEW x \in D,
           NEW m \in Nat, NEW n \in Nat, m <= n,
           NEW f, FirstRounds(D, g, x, m, f), NEW h, FirstRounds(D, g, x, n, h)
    PROVE  f[m] = h[m]
<1> DEFINE S == {k \in Nat : k <= m => f[k] = h[k]}
<1>1. 0 \in S
  BY DEF FirstRounds
<1>2. ASSUME NEW k \in Nat, k \in S
      PROVE  k + 1 \in S
  <2>1. SUFFICES ASSUME k + 1 <= m
                 PROVE  f[k + 1] = h[k + 1]
    OBVIOUS
  <2>2. f[k] = h[k] /\ k + 1 \in 1 .. m /\ k + 1 \in 1 .. n /\ (k + 1) - 1 = k
    BY <1>2, <2>1
  <2>3. f[k + 1] = g[f[k]] /\ h[k + 1] = g[h[k]]
    BY <2>2 DEF FirstRounds
  <2>4. QED
    BY <2>2, <2>3
<1>3. m \in S
  <2> HIDE DEF S
  <2>1. QED
    BY <1>1, <1>2, InSteps
<1>4. QED
  BY <1>3

\* A loop that begins at x, with states in D.
LoopOn(D, g, x) == g \in [D -> D] /\ x \in D

\* What Rounds computes: a round after the other.
LEMMA RoundsWork ==
    ASSUME NEW D, NEW g, NEW x, LoopOn(D, g, x)
    PROVE  /\ Rounds(g, x, 0) = x
           /\ \A n \in Nat : Rounds(g, x, n) \in D
           /\ \A n \in Nat : Rounds(g, x, n + 1) = g[Rounds(g, x, n)]
<1> DEFINE f(n) == CHOOSE f : FirstRounds(D, g, x, n, f)
           F == [n \in Nat |-> f(n)[n]]
           IsLoop(h) == h = [k \in Nat |-> IF k = 0 THEN x ELSE g[h[k - 1]]]
           A == CHOOSE h : IsLoop(h)
<1>0. g \in [D -> D] /\ x \in D
  BY DEF LoopOn
<1>1. \A n \in Nat : FirstRounds(D, g, x, n, f(n))
  BY <1>0, FirstRoundsExist
<1> HIDE DEF f
<1>2. F[0] = x
  BY <1>1 DEF FirstRounds
<1>3. ASSUME NEW n \in Nat
      PROVE  F[n] \in D /\ F[n + 1] = g[F[n]]
  <2>1. FirstRounds(D, g, x, n, f(n)) /\ FirstRounds(D, g, x, n + 1, f(n + 1))
    BY <1>1
  <2>2. f(n)[n] = f(n + 1)[n]
    BY <1>0, <2>1, FirstRoundsAgree, n <= n + 1
  <2>3. f(n + 1)[n + 1] = g[f(n + 1)[n]] /\ f(n)[n] \in D
    BY <2>1 DEF FirstRounds
  <2>4. QED
    BY <2>2, <2>3
<1>4. IsLoop(F)
  <2>1. F = [k \in Nat |-> F[k]]
    OBVIOUS
  <2>2. ASSUME NEW k \in Nat
        PROVE  F[k] = IF k = 0 THEN x ELSE g[F[k - 1]]
    <3>1. CASE k = 0
      BY <1>2, <3>1
    <3>2. CASE k # 0
      <4>1. k - 1 \in Nat /\ (k - 1) + 1 = k
        BY <3>2
      <4> HIDE DEF F
      <4>2. QED
        BY <1>3, <3>2, <4>1
    <3>3. QED
      BY <3>1, <3>2
  <2> HIDE DEF F
  <2>3. QED
    BY <2>1, <2>2
<1> HIDE DEF F
<1>5. IsLoop(A)
  <2> HIDE DEF IsLoop
  <2>1. QED
    BY <1>4
<1>6. \A n : Rounds(g, x, n) = A[n]
  BY Zenon DEF Rounds
<1> HIDE DEF A
<1> DEFINE S == {n \in Nat : A[n] \in D}
<1>7. A[0] = x
  BY <1>5
<1>8. \A n \in Nat : A[n + 1] = g[A[n]]
  <2>1. SUFFICES ASSUME NEW n \in Nat PROVE A[n + 1] = g[A[n]]
    OBVIOUS
  <2>2. n + 1 \in Nat /\ n + 1 # 0 /\ (n + 1) - 1 = n
    OBVIOUS
  <2>3. QED
    BY <1>5, <2>2
<1>9. 0 \in S
  BY <1>0, <1>7
<1>10. \A n \in Nat : n \in S => n + 1 \in S
  BY <1>0, <1>8
<1>11. \A n \in Nat : n \in S
  <2> HIDE DEF S
  <2>1. QED
    BY <1>9, <1>10, InSteps
<1>12. QED
  BY <1>6, <1>7, <1>8, <1>11

-----------------------------------------------------------------------------
(* Lines by the numbers of their bytes.  nl are the newlines, old is the    *)
(* oldest byte there is and tot the number of bytes written.                *)

\* A set of numbers has a least one.
LEMMA Least ==
    ASSUME NEW T, T \subseteq Nat, T # {}
    PROVE  \E n \in T : \A m \in T : n <= m
<1> DEFINE R == {ss \in Nat \X Nat : ss[1] < ss[2]}
<1>1. IsWellFoundedOn(R, Nat)
  <2>1. R = OpToRel(<, Nat)
    BY DEF OpToRel
  <2>2. QED
    BY NatLessThanWellFounded, <2>1
<1>2. PICK n \in T : \A m \in T : ~ (<<m, n>> \in R)
  <2> HIDE DEF R
  <2>1. QED
    BY <1>1, WFMin
<1>3. ASSUME NEW m \in T
      PROVE  n <= m
  <2>1. n \in Nat /\ m \in Nat
    OBVIOUS
  <2>2. <<m, n>> \in R <=> m < n
    BY <2>1
  <2>3. QED
    BY <1>2, <2>1, <2>2
<1>4. QED
  BY <1>3

\* Bytes b to e - 1 fit on one line of the screen, and belong to one of the log.
Chunk(nl, b, e) ==
    /\ b < e
    /\ \A x \in nl : ~ (b <= x /\ x < e - 1)
    /\ e - b <= chars_per_line \/ (e - b = chars_per_line + 1 /\ e - 1 \in nl)

\* The line that begins at b ends before e.
LineEnd(nl, tot, b, e) ==
    /\ Chunk(nl, b, e)
    /\ e <= tot
    /\ e = tot \/ e - 1 \in nl \/ (e - b = chars_per_line /\ e \notin nl)

\* The line that ends before q begins at p.
LineStart(nl, old, p, q) ==
    /\ Chunk(nl, p, q)
    /\ old <= p
    /\ \/ p = old
       \/ p - 1 \in nl
       \/ q - p = chars_per_line /\ q - 1 \notin nl
       \/ q - p = chars_per_line + 1 /\ q - 1 \in nl

EndOf(nl, tot, b) == IF b < tot THEN CHOOSE e \in Nat : LineEnd(nl, tot, b, e) ELSE tot
StartOf(nl, old, q) == IF old < q THEN CHOOSE p \in Nat : LineStart(nl, old, p, q) ELSE old

\* Every byte has the end of the line that begins with it.
LEMMA EndExists ==
    ASSUME NEW nl \in SUBSET Nat, NEW tot \in Nat, NEW b \in Nat, b < tot
    PROVE  EndOf(nl, tot, b) \in Nat /\ LineEnd(nl, tot, b, EndOf(nl, tot, b))
<1> USE PagerAssumption
<1> DEFINE T == {e \in Nat : b < e /\ e <= tot
                             /\ (e = tot \/ e - 1 \in nl \/ e = b + chars_per_line)}
<1>1. tot \in T
  OBVIOUS
<1>2. PICK e \in T : \A m \in T : e <= m
  <2>1. T \subseteq Nat /\ T # {}
    BY <1>1
  <2> HIDE DEF T
  <2>2. QED
    BY <2>1, Least
<1>3. \A x \in nl : ~ (b <= x /\ x < e - 1)
  <2>1. SUFFICES ASSUME NEW x \in nl, b <= x, x < e - 1
                 PROVE  FALSE
    OBVIOUS
  <2>2. x \in Nat /\ (x + 1) - 1 = x
    OBVIOUS
  <2>3. x + 1 \in T
    BY <2>1, <2>2
  <2>4. QED
    BY <1>2, <2>1, <2>3
<1>4. e <= b + chars_per_line
  <2>1. CASE b + chars_per_line \in T
    BY <1>2, <2>1
  <2>2. CASE b + chars_per_line \notin T
    <3>1. tot < b + chars_per_line
      BY <2>2
    <3>2. QED
      BY <1>2, <3>1
  <2>3. QED
    BY <2>1, <2>2
<1>5. \E f \in Nat : LineEnd(nl, tot, b, f)
  <2>1. CASE e = tot \/ e - 1 \in nl \/ e \notin nl
    <3>1. LineEnd(nl, tot, b, e)
      BY <1>2, <1>3, <1>4, <2>1 DEF LineEnd, Chunk
    <3>2. QED
      BY <3>1
  <2>2. CASE e # tot /\ e - 1 \notin nl /\ e \in nl
    <3>1. e = b + chars_per_line /\ e + 1 <= tot
      BY <1>2, <2>2
    <3>2. \A x \in nl : ~ (b <= x /\ x < (e + 1) - 1)
      BY <1>3, <2>2
    <3>3. LineEnd(nl, tot, b, e + 1)
      BY <1>2, <2>2, <3>1, <3>2 DEF LineEnd, Chunk
    <3>4. QED
      BY <3>3
  <2>3. QED
    BY <2>1, <2>2
<1>6. EndOf(nl, tot, b) = CHOOSE f \in Nat : LineEnd(nl, tot, b, f)
  BY DEF EndOf
<1>7. QED
  BY <1>5, <1>6

\* And the start of the line that ends with it.
LEMMA StartExists ==
    ASSUME NEW nl \in SUBSET Nat, NEW old \in Nat, NEW q \in Nat, old < q
    PROVE  StartOf(nl, old, q) \in Nat /\ LineStart(nl, old, StartOf(nl, old, q), q)
<1> USE PagerAssumption
<1> DEFINE width == IF q - 1 \in nl THEN chars_per_line + 1 ELSE chars_per_line
           T == {d \in Nat : d > 0 /\ d <= q - old
                             /\ (d = q - old \/ q - d - 1 \in nl \/ d = width)}
<1>0. width \in Nat
  OBVIOUS
<1>1. q - old \in T
  OBVIOUS
<1>2. PICK d \in T : \A m \in T : d <= m
  <2>1. T \subseteq Nat /\ T # {}
    BY <1>1
  <2> HIDE DEF T
  <2>2. QED
    BY <2>1, Least
<1>3. \A x \in nl : ~ (q - d <= x /\ x < q - 1)
  <2>1. SUFFICES ASSUME NEW x \in nl, q - d <= x, x < q - 1
                 PROVE  FALSE
    OBVIOUS
  <2>2. x \in Nat /\ q - (q - x - 1) - 1 = x
    OBVIOUS
  <2>3. q - x - 1 \in T
    BY <1>2, <2>1, <2>2
  <2>4. QED
    BY <1>2, <2>1, <2>3
<1>4. d <= width
  <2>1. CASE width \in T
    BY <1>2, <2>1
  <2>2. CASE width \notin T
    <3>1. q - old < width
      BY <1>0, <2>2
    <3>2. QED
      BY <1>0, <1>2, <3>1
  <2>3. QED
    BY <2>1, <2>2
<1>5. q - d \in Nat /\ LineStart(nl, old, q - d, q)
  BY <1>2, <1>3, <1>4 DEF LineStart, Chunk
<1>6. StartOf(nl, old, q) = CHOOSE p \in Nat : LineStart(nl, old, p, q)
  BY DEF StartOf
<1>7. QED
  BY <1>5, <1>6

\* A line taken forward from inside a chunk, or from behind it, ends no earlier.
LEMMA EndCovers ==
    ASSUME NEW nl \in SUBSET Nat, NEW tot \in Nat, NEW p \in Nat, NEW q \in Nat,
           NEW b \in Nat, NEW e \in Nat,
           Chunk(nl, p, q), q <= tot, p <= b, LineEnd(nl, tot, b, e)
    PROVE  q <= e
  BY PagerAssumption DEF Chunk, LineEnd

\* A line taken backward from inside a chunk, or from before it, begins no later.
LEMMA StartCovers ==
    ASSUME NEW nl \in SUBSET Nat, NEW old \in Nat, NEW b \in Nat, NEW e \in Nat,
           NEW p \in Nat, NEW q \in Nat,
           Chunk(nl, b, e), old <= b, q <= e, LineStart(nl, old, p, q)
    PROVE  p <= b
  BY PagerAssumption DEF Chunk, LineStart

\* The byte after k lines from b, and the first one of k lines that end before q.
Past(nl, tot, b, k) == Rounds([x \in Nat |-> EndOf(nl, tot, x)], b, k)
Front(nl, old, q, k) == Rounds([x \in Nat |-> StartOf(nl, old, x)], q, k)

\* Lines taken forward, one by one.
LEMMA PastStep ==
    ASSUME NEW nl \in SUBSET Nat, NEW tot \in Nat, NEW b \in Nat
    PROVE  /\ Past(nl, tot, b, 0) = b
           /\ \A k \in Nat : /\ Past(nl, tot, b, k) \in Nat
                             /\ Past(nl, tot, b, k + 1) = EndOf(nl, tot, Past(nl, tot, b, k))
<1> DEFINE g == [x \in Nat |-> EndOf(nl, tot, x)]
<1>1. g \in [Nat -> Nat]
  <2>1. \A x \in Nat : EndOf(nl, tot, x) \in Nat
    <3>1. SUFFICES ASSUME NEW x \in Nat PROVE EndOf(nl, tot, x) \in Nat
      OBVIOUS
    <3>2. CASE x < tot
      BY <3>2, EndExists
    <3>3. CASE ~ (x < tot)
      BY <3>3 DEF EndOf
    <3>4. QED
      BY <3>2, <3>3
  <2>2. QED
    BY <2>1
<1>2. \A x \in Nat : g[x] = EndOf(nl, tot, x)
  OBVIOUS
<1>3. \A k : Past(nl, tot, b, k) = Rounds(g, b, k)
  BY DEF Past
<1> HIDE DEF g
<1>4. LoopOn(Nat, g, b)
  BY <1>1 DEF LoopOn
<1>5. /\ Rounds(g, b, 0) = b
      /\ \A n \in Nat : Rounds(g, b, n) \in Nat
      /\ \A n \in Nat : Rounds(g, b, n + 1) = g[Rounds(g, b, n)]
  BY <1>4, RoundsWork
<1>6. QED
  BY <1>2, <1>3, <1>5

\* Lines taken backward.
LEMMA FrontStep ==
    ASSUME NEW nl \in SUBSET Nat, NEW old \in Nat, NEW q \in Nat
    PROVE  /\ Front(nl, old, q, 0) = q
           /\ \A k \in Nat : /\ Front(nl, old, q, k) \in Nat
                             /\ Front(nl, old, q, k + 1) = StartOf(nl, old, Front(nl, old, q, k))
<1> DEFINE g == [x \in Nat |-> StartOf(nl, old, x)]
<1>1. g \in [Nat -> Nat]
  <2>1. \A x \in Nat : StartOf(nl, old, x) \in Nat
    <3>1. SUFFICES ASSUME NEW x \in Nat PROVE StartOf(nl, old, x) \in Nat
      OBVIOUS
    <3>2. CASE old < x
      BY <3>2, StartExists
    <3>3. CASE ~ (old < x)
      BY <3>3 DEF StartOf
    <3>4. QED
      BY <3>2, <3>3
  <2>2. QED
    BY <2>1
<1>2. \A x \in Nat : g[x] = StartOf(nl, old, x)
  OBVIOUS
<1>3. \A k : Front(nl, old, q, k) = Rounds(g, q, k)
  BY DEF Front
<1> HIDE DEF g
<1>4. LoopOn(Nat, g, q)
  BY <1>1 DEF LoopOn
<1>5. /\ Rounds(g, q, 0) = q
      /\ \A n \in Nat : Rounds(g, q, n) \in Nat
      /\ \A n \in Nat : Rounds(g, q, n + 1) = g[Rounds(g, q, n)]
  BY <1>4, RoundsWork
<1>6. QED
  BY <1>2, <1>3, <1>5

\* They get on until the end of the log, and stay there.
LEMMA PastGoesOn ==
    ASSUME NEW nl \in SUBSET Nat, NEW tot \in Nat, NEW b \in 0 .. tot
    PROVE  \A k \in Nat :
              /\ Past(nl, tot, b, k) \in b .. tot
              /\ Past(nl, tot, b, k) < tot =>
                    LineEnd(nl, tot, Past(nl, tot, b, k), Past(nl, tot, b, k + 1))
              /\ Past(nl, tot, b, k) = tot => Past(nl, tot, b, k + 1) = tot
<1> DEFINE P(k) == Past(nl, tot, b, k)
           S == {k \in Nat : P(k) \in b .. tot}
<1>0. b \in Nat
  OBVIOUS
<1>1. P(0) = b /\ \A k \in Nat : P(k) \in Nat /\ P(k + 1) = EndOf(nl, tot, P(k))
  BY <1>0, PastStep
<1>2. \A k \in Nat : P(k) < tot => LineEnd(nl, tot, P(k), P(k + 1))
  BY <1>1, EndExists
<1>3. \A k \in Nat : P(k) = tot => P(k + 1) = tot
  BY <1>1 DEF EndOf
<1>4. 0 \in S
  BY <1>1
<1>5. ASSUME NEW k \in Nat, k \in S
      PROVE  k + 1 \in S
  <2>1. P(k) \in b .. tot /\ P(k + 1) \in Nat
    BY <1>1, <1>5
  <2>2. CASE P(k) < tot
    <3>1. P(k) < P(k + 1) /\ P(k + 1) <= tot
      BY <1>2, <2>2 DEF LineEnd, Chunk
    <3> HIDE DEF P
    <3>2. QED
      BY <1>0, <2>1, <3>1
  <2>3. CASE P(k) = tot
    BY <1>3, <2>1, <2>3
  <2> HIDE DEF P
  <2>4. QED
    BY <1>0, <2>1, <2>2, <2>3
<1>6. \A k \in Nat : k \in S
  <2> HIDE DEF S
  <2>1. QED
    BY <1>4, <1>5, InSteps
<1>7. \A k \in Nat : P(k) \in b .. tot
  BY <1>6
<1>8. QED
  BY <1>2, <1>3, <1>7

\* They get back to the oldest byte, and stay there.
LEMMA FrontGoesOn ==
    ASSUME NEW nl \in SUBSET Nat, NEW old \in Nat, NEW q \in Nat, old <= q
    PROVE  \A k \in Nat :
              /\ Front(nl, old, q, k) \in old .. q
              /\ old < Front(nl, old, q, k) =>
                    LineStart(nl, old, Front(nl, old, q, k + 1), Front(nl, old, q, k))
              /\ Front(nl, old, q, k) = old => Front(nl, old, q, k + 1) = old
<1> DEFINE P(k) == Front(nl, old, q, k)
           S == {k \in Nat : P(k) \in old .. q}
<1>1. P(0) = q /\ \A k \in Nat : P(k) \in Nat /\ P(k + 1) = StartOf(nl, old, P(k))
  BY FrontStep
<1>2. \A k \in Nat : old < P(k) => LineStart(nl, old, P(k + 1), P(k))
  BY <1>1, StartExists
<1>3. \A k \in Nat : P(k) = old => P(k + 1) = old
  BY <1>1 DEF StartOf
<1>4. 0 \in S
  BY <1>1
<1>5. ASSUME NEW k \in Nat, k \in S
      PROVE  k + 1 \in S
  <2>1. P(k) \in old .. q /\ P(k + 1) \in Nat
    BY <1>1, <1>5
  <2>2. CASE old < P(k)
    <3>1. P(k + 1) < P(k) /\ old <= P(k + 1)
      BY <1>2, <2>2 DEF LineStart, Chunk
    <3> HIDE DEF P
    <3>2. QED
      BY <2>1, <3>1
  <2>3. CASE P(k) = old
    BY <1>3, <2>1, <2>3
  <2> HIDE DEF P
  <2>4. QED
    BY <2>1, <2>2, <2>3
<1>6. \A k \in Nat : k \in S
  <2> HIDE DEF S
  <2>1. QED
    BY <1>4, <1>5, InSteps
<1>7. \A k \in Nat : P(k) \in old .. q
  BY <1>6
<1>8. QED
  BY <1>2, <1>3, <1>7

\* What k lines back from q hold, k lines forward from anywhere in it reach.
LEMMA ForwardReaches ==
    ASSUME NEW nl \in SUBSET Nat, NEW old \in Nat, NEW tot \in Nat, NEW q \in Nat,
           old <= q, q <= tot, NEW k \in Nat, NEW b \in Nat,
           Front(nl, old, q, k) <= b, b <= tot
    PROVE  q <= Past(nl, tot, b, k)
<1> DEFINE F(j) == Front(nl, old, q, j)
           P(j) == Past(nl, tot, b, j)
           S == {j \in Nat : j <= k => F(k - j) <= P(j)}
<1>1. \A j \in Nat : /\ F(j) \in old .. q
                     /\ old < F(j) => LineStart(nl, old, F(j + 1), F(j))
                     /\ F(j) = old => F(j + 1) = old
  BY FrontGoesOn
<1>2. \A j \in Nat : /\ P(j) \in b .. tot
                     /\ P(j) < tot => LineEnd(nl, tot, P(j), P(j + 1))
                     /\ P(j) = tot => P(j + 1) = tot
  BY PastGoesOn
<1>3. F(0) = q /\ P(0) = b /\ F(k) <= b
  BY FrontStep, PastStep
<1> HIDE DEF F, P
<1>4. 0 \in S
  BY <1>3
<1>5. ASSUME NEW j \in Nat, j \in S
      PROVE  j + 1 \in S
  <2>1. SUFFICES ASSUME j + 1 <= k
                 PROVE  F(k - (j + 1)) <= P(j + 1)
    OBVIOUS
  <2>2. PICK i \in Nat : i = k - (j + 1) /\ i + 1 = k - j
    BY <2>1
  <2>3. F(i + 1) <= P(j)
    BY <1>5, <2>1, <2>2
  <2>4. /\ F(i) \in old .. q /\ F(i + 1) \in old .. q
        /\ P(j) \in b .. tot /\ P(j + 1) \in b .. tot
    BY <1>1, <1>2
  <2>5. CASE P(j) = tot
    BY <1>2, <2>4, <2>5, <2>2
  <2>6. CASE P(j) < tot /\ F(i) = old
    <3>1. P(j) < P(j + 1)
      BY <1>2, <2>6 DEF LineEnd, Chunk
    <3>2. F(i + 1) = old
      BY <1>1, <2>6
    <3>3. QED
      BY <2>2, <2>3, <2>4, <2>6, <3>1, <3>2
  <2>7. CASE P(j) < tot /\ old < F(i)
    <3>1. Chunk(nl, F(i + 1), F(i))
      BY <1>1, <2>7 DEF LineStart
    <3>2. LineEnd(nl, tot, P(j), P(j + 1))
      BY <1>2, <2>7
    <3>3. F(i) \in Nat /\ F(i + 1) \in Nat /\ P(j) \in Nat /\ P(j + 1) \in Nat /\ F(i) <= tot
      BY <2>4
    <3>4. F(i) <= P(j + 1)
      BY <2>3, <3>1, <3>2, <3>3, EndCovers
    <3>5. QED
      BY <2>2, <3>4
  <2>8. QED
    BY <2>4, <2>5, <2>6, <2>7
<1>6. k \in S
  <2> HIDE DEF S
  <2>1. QED
    BY <1>4, <1>5, InSteps
<1>7. QED
  BY <1>3, <1>6 DEF P

\* When k lines from s are the rest of the log, k lines back from its end get to s.
LEMMA BackwardReaches ==
    ASSUME NEW nl \in SUBSET Nat, NEW old \in Nat, NEW tot \in Nat, NEW s \in Nat,
           old <= s, s <= tot, NEW k \in Nat, Past(nl, tot, s, k) = tot
    PROVE  Front(nl, old, tot, k) <= s
<1> DEFINE F(j) == Front(nl, old, tot, j)
           P(j) == Past(nl, tot, s, j)
           S == {j \in Nat : j <= k => F(j) <= P(k - j)}
<1>1. \A j \in Nat : /\ F(j) \in old .. tot
                     /\ old < F(j) => LineStart(nl, old, F(j + 1), F(j))
                     /\ F(j) = old => F(j + 1) = old
  BY FrontGoesOn
<1>2. \A j \in Nat : /\ P(j) \in s .. tot
                     /\ P(j) < tot => LineEnd(nl, tot, P(j), P(j + 1))
                     /\ P(j) = tot => P(j + 1) = tot
  BY PastGoesOn
<1>3. F(0) = tot /\ P(0) = s /\ P(k) = tot
  BY FrontStep, PastStep
<1> HIDE DEF F, P
<1>4. 0 \in S
  BY <1>3
<1>5. ASSUME NEW j \in Nat, j \in S
      PROVE  j + 1 \in S
  <2>1. SUFFICES ASSUME j + 1 <= k
                 PROVE  F(j + 1) <= P(k - (j + 1))
    OBVIOUS
  <2>2. PICK i \in Nat : i = k - (j + 1) /\ i + 1 = k - j
    BY <2>1
  <2>3. F(j) <= P(i + 1)
    BY <1>5, <2>1, <2>2
  <2>4. /\ F(j) \in old .. tot /\ F(j + 1) \in old .. tot
        /\ P(i) \in s .. tot /\ P(i + 1) \in s .. tot
    BY <1>1, <1>2
  <2>5. CASE F(j) = old
    BY <1>1, <2>4, <2>5, <2>2
  <2>6. CASE old < F(j) /\ P(i) = tot
    BY <2>2, <2>4, <2>6
  <2>7. CASE old < F(j) /\ P(i) < tot
    <3>1. Chunk(nl, P(i), P(i + 1))
      BY <1>2, <2>7 DEF LineEnd
    <3>2. LineStart(nl, old, F(j + 1), F(j))
      BY <1>1, <2>7
    <3>3. F(j) \in Nat /\ F(j + 1) \in Nat /\ P(i) \in Nat /\ P(i + 1) \in Nat /\ old <= P(i)
      BY <2>4
    <3>4. F(j + 1) <= P(i)
      BY <2>3, <3>1, <3>2, <3>3, StartCovers
    <3>5. QED
      BY <2>2, <3>4
  <2>8. QED
    BY <2>4, <2>5, <2>6, <2>7
<1>6. k \in S
  <2> HIDE DEF S
  <2>1. QED
    BY <1>4, <1>5, InSteps
<1>7. QED
  BY <1>3, <1>6 DEF F

\* Bytes written later take no room from lines there were.
LEMMA PastGrows ==
    ASSUME NEW nl \in SUBSET Nat, NEW nl2 \in SUBSET Nat, NEW tot \in Nat, NEW tot2 \in Nat,
           tot <= tot2, \A x \in 0 .. tot - 1 : x \in nl <=> x \in nl2,
           NEW b \in 0 .. tot
    PROVE  \A k \in Nat : Past(nl, tot, b, k) <= Past(nl2, tot2, b, k)
<1> DEFINE P(k) == Past(nl, tot, b, k)
           Q(k) == Past(nl2, tot2, b, k)
           S == {k \in Nat : P(k) <= Q(k)}
<1>0. b \in Nat /\ b \in 0 .. tot2
  OBVIOUS
<1>1. \A k \in Nat : /\ P(k) \in b .. tot
                     /\ P(k) < tot => LineEnd(nl, tot, P(k), P(k + 1))
                     /\ P(k) = tot => P(k + 1) = tot
  BY PastGoesOn
<1>2. \A k \in Nat : /\ Q(k) \in b .. tot2
                     /\ Q(k) < tot2 => LineEnd(nl2, tot2, Q(k), Q(k + 1))
                     /\ Q(k) = tot2 => Q(k + 1) = tot2
  BY <1>0, PastGoesOn
<1>3. P(0) = b /\ Q(0) = b
  BY <1>0, PastStep
<1> HIDE DEF P, Q
<1>4. 0 \in S
  BY <1>3
<1>5. ASSUME NEW k \in Nat, k \in S
      PROVE  k + 1 \in S
  <2>1. /\ P(k) \in Nat /\ P(k + 1) \in Nat /\ P(k) <= tot /\ P(k + 1) <= tot
        /\ Q(k) \in Nat /\ Q(k + 1) \in Nat /\ Q(k) <= tot2 /\ Q(k + 1) <= tot2
    BY <1>0, <1>1, <1>2
  <2>2. P(k) <= Q(k)
    BY <1>5
  <2>3. CASE Q(k) = tot2
    BY <1>2, <2>1, <2>3
  <2>4. CASE Q(k) < tot2 /\ P(k) = tot
    <3>1. Q(k) < Q(k + 1)
      BY <1>2, <2>4 DEF LineEnd, Chunk
    <3>2. QED
      BY <1>1, <2>1, <2>2, <2>4, <3>1
  <2>5. CASE Q(k) < tot2 /\ P(k) < tot
    <3>1. Chunk(nl, P(k), P(k + 1))
      BY <1>1, <2>5 DEF LineEnd
    <3>2. Chunk(nl2, P(k), P(k + 1))
      BY <2>1, <3>1, PagerAssumption DEF Chunk
    <3>3. LineEnd(nl2, tot2, Q(k), Q(k + 1))
      BY <1>2, <2>5
    <3>4. P(k + 1) <= Q(k + 1)
      BY <2>1, <2>2, <3>2, <3>3, EndCovers
    <3>5. QED
      BY <3>4
  <2>6. QED
    BY <2>1, <2>3, <2>4, <2>5
<1>6. \A k \in Nat : k \in S
  <2> HIDE DEF S
  <2>1. QED
    BY <1>4, <1>5, InSteps
<1>7. QED
  BY <1>6 DEF P, Q

-----------------------------------------------------------------------------
(* What the code finds: its iterators stand for bytes, its loops for lines.  *)

\* The log as the screen's code meets it.
LogOk == Inv /\ newlines \in SUBSET Nat

\* An iterator at an available byte reads it and walks to its neighbours.
LEMMA IterWalk ==
    ASSUME Inv, NEW b \in Nat, Available(b)
    PROVE  LET iter == fastboot_log_get_iter(b)
           IN  /\ iter \in 0 .. SIZE - 1
               /\ iter # UINT64_MAX
               /\ buf[iter] = b
               /\ fastboot_log_inc_iter(iter) = fastboot_log_get_iter(b + 1)
               /\ fastboot_log_dec_iter(iter) =
                    IF b = fastboot_log_get_oldest_available_byte THEN UINT64_MAX
                    ELSE fastboot_log_get_iter(b - 1)
<1> DEFINE iter == fastboot_log_get_iter(b)
<1>1. iter \in 0 .. SIZE - 1 /\ buf[iter] = b
  BY IterReads
<1>2. iter # UINT64_MAX
  BY <1>1 DEF UINT64_MAX
<1>3. fastboot_log_inc_iter(iter) = fastboot_log_get_iter(b + 1)
  BY IncWalks
<1>4. fastboot_log_dec_iter(iter) = IF b = 0 THEN UINT64_MAX ELSE fastboot_log_get_iter(b - 1)
  BY DecWalks
<1>5. CASE b = fastboot_log_get_oldest_available_byte
  <2>1. CASE b = 0
    BY <1>1, <1>2, <1>3, <1>4, <1>5, <2>1
  <2>2. CASE b # 0
    <3>1. b - 1 \in Nat /\ ~Available(b - 1)
      BY <1>5, <2>2 DEF Available
    <3>2. fastboot_log_get_iter(b - 1) = UINT64_MAX
      BY <3>1, NoIter
    <3>3. QED
      BY <1>1, <1>2, <1>3, <1>4, <1>5, <2>2, <3>2
  <2>3. QED
    BY <2>1, <2>2
<1>6. CASE b # fastboot_log_get_oldest_available_byte
  <2>1. b # 0
    BY <1>6 DEF Available, fastboot_log_get_oldest_available_byte, Inv, TypeOK
  <2>2. QED
    BY <1>1, <1>2, <1>3, <1>4, <1>6, <2>1
<1>7. QED
  BY <1>5, <1>6

\* The last byte written is the one before total_len.
LEMMA OldestType ==
    ASSUME Inv
    PROVE  /\ total_len \in Nat
           /\ fastboot_log_get_oldest_available_byte \in 0 .. total_len
           /\ total_len > 0 => fastboot_log_get_oldest_available_byte < total_len
           /\ fastboot_log_get_iter(total_len) = UINT64_MAX
  BY DEF Inv, TypeOK, fastboot_log_get_oldest_available_byte, fastboot_log_get_iter, Available

\* Steps of an iterator are iterators.
LEMMA StepTypes ==
    ASSUME Inv, NEW iter \in Iters
    PROVE  /\ UINT64_MAX \in Iters
           /\ fastboot_log_inc_iter(iter) \in Iters
           /\ fastboot_log_dec_iter(iter) \in Iters
<1>1. iter \in Nat /\ SIZE \in Nat \ {0}
  BY DEF Iters, UINT64_MAX
<1>2. (iter + 1) % SIZE \in 0 .. SIZE - 1 /\ (iter + SIZE - 1) % SIZE \in 0 .. SIZE - 1
  BY <1>1
<1>3. QED
  BY <1>2 DEF Iters, fastboot_log_inc_iter, fastboot_log_dec_iter

\* The states of a loop.
LEMMA LoopType ==
    ASSUME NEW len, NEW iter, NEW more
    PROVE  /\ Loop(len, iter, more) \in LoopStates <=>
                len \in Nat /\ iter \in Iters /\ more \in BOOLEAN
           /\ Loop(len, iter, more).len = len
           /\ Loop(len, iter, more).iter = iter
           /\ Loop(len, iter, more).more = more
  BY DEF Loop, LoopStates

\* The loops over characters keep to their states.
LEMMA CharTypes ==
    ASSUME Inv
    PROVE  NextChar \in [LoopStates -> LoopStates] /\ PrevChar \in [LoopStates -> LoopStates]
<1>1. ASSUME NEW s \in LoopStates
      PROVE  s.len \in Nat /\ s.iter \in Iters /\ s.len + 1 \in Nat
  BY DEF LoopStates
<1>2. ASSUME NEW s \in LoopStates
      PROVE  NextChar[s] \in LoopStates
  <2> DEFINE next == fastboot_log_inc_iter(s.iter)
             more == next # UINT64_MAX /\ ~IsNewline(s.iter)
  <2>1. next \in Iters
    BY <1>1, StepTypes
  <2>2. more \in BOOLEAN
    OBVIOUS
  <2>3. NextChar[s] = IF ~s.more THEN s ELSE Loop(s.len + 1, next, more)
    BY DEF NextChar
  <2> HIDE DEF next, more
  <2>4. QED
    BY <1>1, <2>1, <2>2, <2>3, LoopType
<1>3. ASSUME NEW s \in LoopStates
      PROVE  PrevChar[s] \in LoopStates
  <2> DEFINE prev == fastboot_log_dec_iter(s.iter)
  <2>1. prev \in Iters
    BY <1>1, StepTypes
  <2>2. PrevChar[s] \in {s, Loop(s.len, s.iter, FALSE), Loop(s.len, prev, FALSE),
                         Loop(s.len + 1, prev, TRUE)}
    BY DEF PrevChar
  <2> HIDE DEF prev
  <2>3. /\ Loop(s.len, s.iter, FALSE) \in LoopStates /\ Loop(s.len, prev, FALSE) \in LoopStates
        /\ Loop(s.len + 1, prev, TRUE) \in LoopStates
    BY <1>1, <2>1, LoopType
  <2>4. QED
    BY <2>2, <2>3
<1>4. NextChar = [s \in LoopStates |-> NextChar[s]] /\ PrevChar = [s \in LoopStates |-> PrevChar[s]]
  BY DEF NextChar, PrevChar
<1>5. QED
  BY <1>2, <1>3, <1>4

\* After i rounds of the loop of get_next_fastboot_log_line from byte b, which
\* has counted m of them.
NextCharAt(b, i, m, s) ==
    /\ m \in 0 .. i
    /\ b + m <= total_len
    /\ s = Loop(m, fastboot_log_get_iter(b + m), s.more)
    /\ \A x \in newlines : ~ (b <= x /\ x < b + m - 1)
    /\ s.more = TRUE => m = i /\ b + m < total_len /\ ~ (m > 0 /\ b + m - 1 \in newlines)
    /\ s.more = FALSE => m > 0 /\ (b + m = total_len \/ b + m - 1 \in newlines)

\* A round of the loop of get_next_fastboot_log_line counts one more character,
\* or the loop is over.
LEMMA NextCharRound ==
    ASSUME LogOk, NEW b \in Nat, Available(b), NEW i \in Nat, NEW m, NEW s \in LoopStates,
           NextCharAt(b, i, m, s)
    PROVE  \E n : NextCharAt(b, i + 1, n, NextChar[s])
<1>1. m \in Nat /\ m <= i /\ s.more \in BOOLEAN /\ total_len \in Nat /\ newlines \in SUBSET Nat
  BY OldestType DEF NextCharAt, LoopStates, LogOk
<1>2. CASE s.more = FALSE
  <2>1. NextChar[s] = s
    BY <1>2 DEF NextChar
  <2>2. NextCharAt(b, i + 1, m, s)
    BY <1>1, <1>2 DEF NextCharAt
  <2>3. QED
    BY <2>1, <2>2
<1>3. CASE s.more = TRUE
  <2>1. m = i /\ b + i < total_len /\ b + i \in Nat /\ Available(b + i)
    BY <1>1, <1>3, OldestType DEF NextCharAt, Available, LogOk
  <2> DEFINE here == fastboot_log_get_iter(b + i)
             next == fastboot_log_get_iter((b + i) + 1)
             more == next # UINT64_MAX /\ ~ (b + i \in newlines)
  <2>2. /\ here # UINT64_MAX /\ buf[here] = b + i
        /\ fastboot_log_inc_iter(here) = next
    BY <2>1, IterWalk DEF LogOk
  <2>3. s.len = i /\ s.iter = here
    BY <2>1, LoopType DEF NextCharAt
  <2>4. NextChar[s] = Loop(i + 1, next, more)
    BY <1>3, <2>2, <2>3 DEF NextChar, IsNewline, fastboot_log_get_byte_at_iter
  <2>5. more = (b + i + 1 < total_len /\ ~ (b + i \in newlines))
    <3>1. CASE b + i + 1 < total_len
      <4>1. (b + i) + 1 \in Nat /\ Available((b + i) + 1)
        BY <1>1, <2>1, <3>1, OldestType DEF Available, LogOk
      <4>2. next # UINT64_MAX
        BY <4>1, IterWalk DEF LogOk
      <4>3. QED
        BY <3>1, <4>2
    <3>2. CASE ~ (b + i + 1 < total_len)
      <4>1. (b + i) + 1 = total_len
        BY <1>1, <2>1, <3>2
      <4>2. next = UINT64_MAX
        BY <4>1, OldestType DEF LogOk
      <4>3. QED
        BY <3>2, <4>2
    <3>3. QED
      BY <3>1, <3>2
  <2>6. more \in BOOLEAN /\ b + (i + 1) = (b + i) + 1 /\ b + (i + 1) - 1 = b + i
    BY <1>1, <2>1
  <2> HIDE DEF more
  <2>7. /\ NextChar[s] = Loop(i + 1, fastboot_log_get_iter(b + (i + 1)), NextChar[s].more)
        /\ NextChar[s].more = more
    BY <2>4, <2>6, LoopType
  <2>8. \A x \in newlines : ~ (b <= x /\ x < b + i)
    BY <1>1, <1>3, <2>1 DEF NextCharAt
  <2> DEFINE t == NextChar[s]
  <2> HIDE DEF t
  <2>9. NextCharAt(b, i + 1, i + 1, t)
    <3>1. t = Loop(i + 1, fastboot_log_get_iter(b + (i + 1)), t.more) /\ t.more = more
      BY <2>7 DEF t
    <3>2. \A x \in newlines : ~ (b <= x /\ x < b + (i + 1) - 1)
      BY <2>6, <2>8
    <3>3. t.more = TRUE => b + (i + 1) < total_len /\ ~ (b + (i + 1) - 1 \in newlines)
      BY <2>5, <2>6, <3>1
    <3>4. t.more = FALSE => b + (i + 1) = total_len \/ b + (i + 1) - 1 \in newlines
      <4>1. SUFFICES ASSUME t.more = FALSE
                     PROVE  b + (i + 1) = total_len \/ b + (i + 1) - 1 \in newlines
        OBVIOUS
      <4>2. ~ (b + i + 1 < total_len /\ ~ (b + i \in newlines))
        BY <2>5, <3>1, <4>1, Zenon
      <4>3. QED
        BY <1>1, <2>1, <2>6, <4>2
    <3>5. i + 1 \in 0 .. i + 1 /\ b + (i + 1) <= total_len /\ i + 1 > 0
      BY <1>1, <2>1, <2>6
    <3>6. QED
      BY <3>1, <3>2, <3>3, <3>4, <3>5 DEF NextCharAt
  <2>10. QED
    BY <2>9 DEF t
<1>4. QED
  BY <1>1, <1>2, <1>3

\* A line has one end, and one start.
LEMMA EndUnique ==
    ASSUME NEW nl \in SUBSET Nat, NEW tot \in Nat, NEW b \in Nat, NEW e \in Nat,
           LineEnd(nl, tot, b, e)
    PROVE  e = EndOf(nl, tot, b)
<1>1. b < tot
  BY DEF LineEnd, Chunk
<1>2. EndOf(nl, tot, b) \in Nat /\ LineEnd(nl, tot, b, EndOf(nl, tot, b))
  BY <1>1, EndExists
<1> DEFINE f == EndOf(nl, tot, b)
<1> HIDE DEF f
<1>3. f \in Nat /\ LineEnd(nl, tot, b, f)
  BY <1>2 DEF f
<1>4. Chunk(nl, b, e) /\ e <= tot /\ Chunk(nl, b, f) /\ f <= tot
  BY <1>3 DEF LineEnd
<1>5. b <= b
  OBVIOUS
<1>6. e <= f
  BY <1>3, <1>4, <1>5, EndCovers
<1>7. f <= e
  BY <1>3, <1>4, <1>5, EndCovers
<1>8. QED
  BY <1>3, <1>6, <1>7 DEF f

\* A line that ends at q has one start.
LEMMA StartUnique ==
    ASSUME NEW nl \in SUBSET Nat, NEW old \in Nat, NEW p \in Nat, NEW q \in Nat,
           LineStart(nl, old, p, q)
    PROVE  p = StartOf(nl, old, q)
<1>1. old < q
  BY DEF LineStart, Chunk
<1>2. StartOf(nl, old, q) \in Nat /\ LineStart(nl, old, StartOf(nl, old, q), q)
  BY <1>1, StartExists
<1> DEFINE f == StartOf(nl, old, q)
<1> HIDE DEF f
<1>3. f \in Nat /\ LineStart(nl, old, f, q)
  BY <1>2 DEF f
<1>4. Chunk(nl, p, q) /\ old <= p /\ Chunk(nl, f, q) /\ old <= f
  BY <1>3 DEF LineStart
<1>5. q <= q
  OBVIOUS
<1>6. p <= f
  BY <1>3, <1>4, <1>5, StartCovers
<1>7. f <= p
  BY <1>3, <1>4, <1>5, StartCovers
<1>8. QED
  BY <1>3, <1>6, <1>7 DEF f

\* get_next_fastboot_log_line finds the end of the line that begins at b, and
\* its length.
LEMMA NextLineIs ==
    ASSUME LogOk, NEW b \in Nat, Available(b)
    PROVE  LET e == EndOf(newlines, total_len, b)
           IN  /\ e \in Nat /\ LineEnd(newlines, total_len, b, e)
               /\ get_next_fastboot_log_line(fastboot_log_get_iter(b)) =
                    Line(e - b, fastboot_log_get_iter(e))
<1> USE PagerAssumption
<1> DEFINE iter == fastboot_log_get_iter(b)
           x0 == Loop(0, iter, TRUE)
           R(i) == Rounds(NextChar, x0, i)
           S == {i \in Nat : \E m : NextCharAt(b, i, m, R(i))}
<1>0. Inv /\ newlines \in SUBSET Nat /\ total_len \in Nat /\ b < total_len
  BY OldestType DEF LogOk, Available
<1>1. iter \in 0 .. SIZE - 1 /\ iter # UINT64_MAX /\ iter \in Iters
  BY <1>0, IterWalk DEF Iters
<1>2. x0 \in LoopStates
  BY <1>1, LoopType
<1> HIDE DEF x0
<1>3. LoopOn(LoopStates, NextChar, x0)
  BY <1>0, <1>2, CharTypes DEF LoopOn
<1>4. R(0) = x0 /\ \A i \in Nat : R(i) \in LoopStates /\ R(i + 1) = NextChar[R(i)]
  BY <1>3, RoundsWork
<1> HIDE DEF R
<1>5. 0 \in S
  <2>1. b + 0 = b
    OBVIOUS
  <2>2. R(0) = Loop(0, iter, TRUE) /\ R(0).more = TRUE
    BY <1>4 DEF x0, Loop
  <2>3. R(0) = Loop(0, fastboot_log_get_iter(b + 0), R(0).more)
    BY <2>1, <2>2, Zenon
  <2>4. NextCharAt(b, 0, 0, R(0))
    BY <1>0, <2>2, <2>3 DEF NextCharAt
  <2>5. QED
    BY <2>4
<1>6. ASSUME NEW i \in Nat, i \in S
      PROVE  i + 1 \in S
  <2>1. PICK m : NextCharAt(b, i, m, R(i))
    BY <1>6
  <2>2. \E n : NextCharAt(b, i + 1, n, NextChar[R(i)])
    BY <1>4, <2>1, NextCharRound
  <2>3. QED
    BY <1>4, <2>2
<1>7. chars_per_line \in S
  <2> HIDE DEF S
  <2>1. QED
    BY <1>5, <1>6, InSteps
<1>8. PICK m : NextCharAt(b, chars_per_line, m, R(chars_per_line))
  BY <1>7
<1> DEFINE s == R(chars_per_line)
           line == get_next_fastboot_log_line(iter)
<1>9. s \in LoopStates /\ s.more \in BOOLEAN
  BY <1>4 DEF LoopStates
<1>10. line = IF s.more /\ IsNewline(s.iter)
              THEN Line(s.len + 1, fastboot_log_inc_iter(s.iter))
              ELSE Line(s.len, s.iter)
  BY <1>1 DEF get_next_fastboot_log_line, R, x0
<1> HIDE DEF s, line, iter
<1>11. NextCharAt(b, chars_per_line, m, s)
  BY <1>8 DEF s
<1>12. /\ m \in Nat /\ m <= chars_per_line /\ b + m <= total_len /\ b + m \in Nat
       /\ s.len = m /\ s.iter = fastboot_log_get_iter(b + m)
       /\ \A x \in newlines : ~ (b <= x /\ x < b + m - 1)
  BY <1>11, LoopType DEF NextCharAt
<1>13. \E e \in Nat : /\ LineEnd(newlines, total_len, b, e)
                      /\ line = Line(e - b, fastboot_log_get_iter(e))
  <2>1. CASE s.more = FALSE
    <3>1. m > 0 /\ (b + m = total_len \/ b + m - 1 \in newlines)
      BY <1>11, <2>1 DEF NextCharAt
    <3>2. LineEnd(newlines, total_len, b, b + m)
      BY <1>0, <1>12, <3>1 DEF LineEnd, Chunk
    <3>3. line = Line((b + m) - b, fastboot_log_get_iter(b + m))
      BY <1>10, <1>12, <2>1
    <3>4. QED
      BY <1>12, <3>2, <3>3
  <2>2. CASE s.more = TRUE
    <3>1. m = chars_per_line /\ m > 0 /\ b + m < total_len /\ ~ (b + m - 1 \in newlines)
      BY <1>11, <2>2 DEF NextCharAt
    <3>2. Available(b + m)
      BY <1>0, <1>12, <3>1, OldestType DEF Available
    <3>3. /\ buf[fastboot_log_get_iter(b + m)] = b + m
          /\ fastboot_log_inc_iter(fastboot_log_get_iter(b + m)) =
                fastboot_log_get_iter((b + m) + 1)
      BY <1>0, <1>12, <3>2, IterWalk
    <3>4. IsNewline(s.iter) <=> b + m \in newlines
      BY <1>12, <3>3 DEF IsNewline, fastboot_log_get_byte_at_iter
    <3>5. CASE b + m \in newlines
      <4>1. line = Line(m + 1, fastboot_log_get_iter((b + m) + 1))
        BY <1>10, <1>12, <2>2, <3>3, <3>4, <3>5
      <4>2. (b + m) + 1 \in Nat /\ ((b + m) + 1) - b = m + 1 /\ ((b + m) + 1) - 1 = b + m
        BY <1>12
      <4>3. LineEnd(newlines, total_len, b, (b + m) + 1)
        BY <1>0, <1>12, <3>1, <3>5, <4>2 DEF LineEnd, Chunk
      <4>4. QED
        BY <4>1, <4>2, <4>3
    <3>6. CASE b + m \notin newlines
      <4>1. line = Line((b + m) - b, fastboot_log_get_iter(b + m))
        BY <1>10, <1>12, <3>4, <3>6
      <4>2. LineEnd(newlines, total_len, b, b + m)
        BY <1>0, <1>12, <3>1, <3>6 DEF LineEnd, Chunk
      <4>3. QED
        BY <1>12, <4>1, <4>2
    <3>7. QED
      BY <3>5, <3>6
  <2>3. QED
    BY <1>9, <2>1, <2>2
<1>14. PICK e \in Nat : /\ LineEnd(newlines, total_len, b, e)
                        /\ line = Line(e - b, fastboot_log_get_iter(e))
  BY <1>13
<1>15. e = EndOf(newlines, total_len, b)
  BY <1>0, <1>14, EndUnique
<1>16. QED
  BY <1>14, <1>15 DEF line, iter

\* The lines found have a length, and an iterator to go on with.
LEMMA LineTypes ==
    ASSUME Inv, NEW iter \in Iters
    PROVE  /\ get_next_fastboot_log_line(iter).len \in Nat
           /\ get_next_fastboot_log_line(iter).iter \in Iters
           /\ get_prev_fastboot_log_line(iter).len \in Nat
           /\ get_prev_fastboot_log_line(iter).iter \in Iters
<1> USE PagerAssumption
<1> DEFINE prev == fastboot_log_dec_iter(iter)
           start == IF IsNewline(iter) THEN Loop(1, prev, prev # UINT64_MAX)
                                       ELSE Loop(0, iter, TRUE)
           s == Rounds(NextChar, Loop(0, iter, TRUE), chars_per_line)
           t == Rounds(PrevChar, start, chars_per_line)
<1>0. \A len, it : Line(len, it).len = len /\ Line(len, it).iter = it
  BY DEF Line
<1>1. prev \in Iters /\ (prev # UINT64_MAX) \in BOOLEAN
  BY StepTypes
<1>2. Loop(0, iter, TRUE) \in LoopStates /\ Loop(1, prev, prev # UINT64_MAX) \in LoopStates
  BY <1>1, LoopType
<1>3. start \in LoopStates
  BY <1>2
<1>4. LoopOn(LoopStates, NextChar, Loop(0, iter, TRUE)) /\ LoopOn(LoopStates, PrevChar, start)
  BY <1>2, <1>3, CharTypes DEF LoopOn
<1>5. /\ get_next_fastboot_log_line(iter) =
           IF iter = UINT64_MAX THEN Line(0, iter)
           ELSE IF s.more /\ IsNewline(s.iter)
           THEN Line(s.len + 1, fastboot_log_inc_iter(s.iter))
           ELSE Line(s.len, s.iter)
      /\ get_prev_fastboot_log_line(iter) =
           IF iter = UINT64_MAX THEN Line(0, iter) ELSE Line(t.len, t.iter)
  BY DEF get_next_fastboot_log_line, get_prev_fastboot_log_line
<1> HIDE DEF start
<1>6. s \in LoopStates /\ t \in LoopStates
  BY <1>4, RoundsWork
<1>7. s.len \in Nat /\ s.iter \in Iters /\ t.len \in Nat /\ t.iter \in Iters
  BY <1>6 DEF LoopStates
<1> HIDE DEF s, t
<1>8. fastboot_log_inc_iter(s.iter) \in Iters
  BY <1>7, StepTypes
<1>9. QED
  BY <1>0, <1>5, <1>7, <1>8

\* There is no iterator before the oldest byte.
LEMMA NoIterBefore ==
    ASSUME Inv
    PROVE  fastboot_log_get_iter(fastboot_log_get_oldest_available_byte - 1) = UINT64_MAX
<1>1. fastboot_log_get_oldest_available_byte \in Nat
  BY OldestType
<1>2. ~Available(fastboot_log_get_oldest_available_byte - 1)
  BY <1>1 DEF Available
<1>3. QED
  BY <1>2 DEF fastboot_log_get_iter

\* After i rounds of the loop of get_prev_fastboot_log_line back from byte q - 1,
\* the newline at the end of a line counted first (w = 1): m bytes are counted.
\* The oldest byte of the log is not, when the line reaches it.
PrevCharAt(q, w, i, m, s) ==
    /\ m \in w .. w + i
    /\ s.len = m
    /\ \A x \in newlines : ~ (q - m <= x /\ x < q - 1)
    /\ s.more = TRUE => /\ m = w + i
                        /\ fastboot_log_get_oldest_available_byte < q - m
                        /\ s.iter = fastboot_log_get_iter(q - m - 1)
    /\ s.more = FALSE =>
         \/ /\ m > 0
            /\ s.iter = fastboot_log_get_iter(q - m - 1)
            /\ fastboot_log_get_oldest_available_byte <= q - m
            /\ q - m = fastboot_log_get_oldest_available_byte \/ q - m - 1 \in newlines
         \/ /\ m < w + i
            /\ s.iter = UINT64_MAX
            /\ fastboot_log_get_oldest_available_byte = q - m - 1
            /\ q - m - 1 \notin newlines

\* A round of the loop of get_prev_fastboot_log_line.
LEMMA PrevCharRound ==
    ASSUME LogOk, NEW q \in Nat, q > 0, Available(q - 1), NEW w \in {0, 1}, NEW i \in Nat,
           w = 1 <=> q - 1 \in newlines, NEW m, NEW s \in LoopStates, PrevCharAt(q, w, i, m, s)
    PROVE  \E n : PrevCharAt(q, w, i + 1, n, PrevChar[s])
<1> DEFINE old == fastboot_log_get_oldest_available_byte
<1>1. /\ m \in Nat /\ w \in Nat /\ m >= w /\ m <= w + i /\ s.more \in BOOLEAN /\ s.len = m
      /\ total_len \in Nat /\ newlines \in SUBSET Nat /\ Inv /\ old \in Nat
  BY OldestType DEF PrevCharAt, LoopStates, LogOk
<1>2. CASE s.more = FALSE
  <2>1. PrevChar[s] = s
    BY <1>2 DEF PrevChar
  <2>2. PrevCharAt(q, w, i + 1, m, s)
    BY <1>1, <1>2 DEF PrevCharAt
  <2>3. QED
    BY <2>1, <2>2
<1>3. CASE s.more = TRUE
  <2> DEFINE x == q - m - 1
             here == fastboot_log_get_iter(x)
  <2>1. m = w + i /\ old < q - m /\ s.iter = here
    BY <1>3 DEF PrevCharAt
  <2>2. x \in Nat /\ old <= x /\ x <= q - 1
    BY <1>1, <2>1
  <2>3. Available(x)
    BY <1>1, <2>2 DEF Available
  <2>4. /\ here # UINT64_MAX /\ buf[here] = x
        /\ fastboot_log_dec_iter(here) =
             IF x = old THEN UINT64_MAX ELSE fastboot_log_get_iter(x - 1)
    BY <1>1, <2>2, <2>3, IterWalk
  <2>5. IsNewline(s.iter) <=> x \in newlines
    BY <2>1, <2>4 DEF IsNewline, fastboot_log_get_byte_at_iter
  <2>6. \A y \in newlines : ~ (q - m <= y /\ y < q - 1)
    BY DEF PrevCharAt
  <2> DEFINE t == PrevChar[s]
             prev == fastboot_log_dec_iter(s.iter)
  <2>7. t = IF IsNewline(s.iter) THEN Loop(s.len, s.iter, FALSE)
            ELSE IF prev = UINT64_MAX THEN Loop(s.len, prev, FALSE)
            ELSE Loop(s.len + 1, prev, TRUE)
    BY <1>3 DEF PrevChar
  <2> HIDE DEF t
  <2>8. CASE x \in newlines
    <3>1. t.len = m /\ t.iter = here /\ t.more = FALSE
      BY <1>1, <2>1, <2>5, <2>7, <2>8 DEF Loop
    <3>2. m > 0
      BY <1>1, <2>8
    <3>3. m \in w .. w + (i + 1) /\ old <= q - m
      BY <1>1, <2>1
    <3> HIDE DEF old
    <3>4. PrevCharAt(q, w, i + 1, m, t)
      BY <2>6, <2>8, <3>1, <3>2, <3>3 DEF PrevCharAt, old
    <3>5. QED
      BY <3>4 DEF t
  <2>9. CASE x \notin newlines /\ x = old
    <3>1. t.len = m /\ t.iter = UINT64_MAX /\ t.more = FALSE
      BY <1>1, <2>1, <2>4, <2>5, <2>7, <2>9 DEF Loop
    <3>2. m \in w .. w + (i + 1) /\ m < w + (i + 1)
      BY <1>1, <2>1
    <3>3. PrevCharAt(q, w, i + 1, m, t)
      BY <2>6, <2>9, <3>1, <3>2 DEF PrevCharAt
    <3>4. QED
      BY <3>3 DEF t
  <2>10. CASE x \notin newlines /\ x # old
    <3>1. x - 1 \in Nat /\ Available(x - 1) /\ x - 1 = q - (m + 1) - 1
      BY <1>1, <2>2, <2>3, <2>10 DEF Available
    <3>2. fastboot_log_get_iter(x - 1) # UINT64_MAX
      BY <1>1, <3>1, IterWalk
    <3>3. t.len = m + 1 /\ t.iter = fastboot_log_get_iter(x - 1) /\ t.more = TRUE
      BY <1>1, <2>1, <2>4, <2>5, <2>7, <2>10, <3>2 DEF Loop
    <3>4. /\ m + 1 \in w .. w + (i + 1) /\ m + 1 = w + (i + 1) /\ old < q - (m + 1)
          /\ \A y \in newlines : ~ (q - (m + 1) <= y /\ y < q - 1)
      BY <1>1, <2>1, <2>2, <2>6, <2>10
    <3>5. t.iter = fastboot_log_get_iter(q - (m + 1) - 1)
      BY <3>1, <3>3, Zenon
    <3>6. PrevCharAt(q, w, i + 1, m + 1, t)
      BY <3>3, <3>4, <3>5 DEF PrevCharAt
    <3>7. QED
      BY <3>6 DEF t
  <2>11. QED
    BY <2>8, <2>9, <2>10
<1>4. QED
  BY <1>1, <1>2, <1>3

\* get_prev_fastboot_log_line finds the start of the line that ends at q - 1.
\* Its length is right, or one short when the line reaches the oldest byte.
LEMMA PrevLineIs ==
    ASSUME LogOk, NEW q \in Nat, q > 0, Available(q - 1)
    PROVE  LET old  == fastboot_log_get_oldest_available_byte
               p    == StartOf(newlines, old, q)
               line == get_prev_fastboot_log_line(fastboot_log_get_iter(q - 1))
           IN  /\ p \in Nat /\ LineStart(newlines, old, p, q)
               /\ line.iter = fastboot_log_get_iter(p - 1)
               /\ line.len = q - p \/ (p = old /\ line.len = q - p - 1)
<1> USE PagerAssumption
<1> DEFINE old == fastboot_log_get_oldest_available_byte
           iter == fastboot_log_get_iter(q - 1)
           prev == fastboot_log_dec_iter(iter)
           w == IF q - 1 \in newlines THEN 1 ELSE 0
           x0 == IF IsNewline(iter) THEN Loop(1, prev, prev # UINT64_MAX) ELSE Loop(0, iter, TRUE)
           R(i) == Rounds(PrevChar, x0, i)
           S == {i \in Nat : \E m : PrevCharAt(q, w, i, m, R(i))}
<1>0. Inv /\ newlines \in SUBSET Nat /\ total_len \in Nat /\ old \in Nat /\ old <= q - 1
      /\ q - 1 \in Nat
  BY OldestType DEF LogOk, Available
<1>1. /\ iter \in 0 .. SIZE - 1 /\ iter # UINT64_MAX /\ iter \in Iters /\ buf[iter] = q - 1
      /\ prev = IF q - 1 = old THEN UINT64_MAX ELSE fastboot_log_get_iter((q - 1) - 1)
  BY <1>0, IterWalk DEF Iters
<1>2. IsNewline(iter) <=> q - 1 \in newlines
  BY <1>1 DEF IsNewline, fastboot_log_get_byte_at_iter
<1>3. prev \in Iters /\ (prev # UINT64_MAX) \in BOOLEAN
  BY <1>0, <1>1, StepTypes
<1>4. Loop(0, iter, TRUE) \in LoopStates /\ Loop(1, prev, prev # UINT64_MAX) \in LoopStates
  <2> HIDE DEF iter, prev
  <2>1. QED
    BY <1>1, <1>3, LoopType
<1>5. x0 \in LoopStates
  BY <1>4
<1>6. w \in {0, 1} /\ (w = 1 <=> q - 1 \in newlines) /\ w \in Nat
  OBVIOUS
<1>7. PrevCharAt(q, w, 0, w, x0)
  <2>1. CASE q - 1 \notin newlines
    <3>1. x0.len = 0 /\ x0.iter = iter /\ x0.more = TRUE /\ w = 0
      BY <1>2, <2>1 DEF Loop
    <3>2. q - 0 - 1 = q - 1 /\ old < q - 0 /\ 0 \in 0 .. 0 + 0
      BY <1>0
    <3>3. \A x \in newlines : ~ (q - 0 <= x /\ x < q - 1)
      BY <1>0
    <3> HIDE DEF x0, w
    <3>4. QED
      BY <3>1, <3>2, <3>3 DEF PrevCharAt
  <2>2. CASE q - 1 \in newlines /\ q - 1 = old
    <3>1. x0.len = 1 /\ x0.iter = UINT64_MAX /\ x0.more = FALSE /\ w = 1
      BY <1>1, <1>2, <2>2 DEF Loop
    <3>2. q - 1 - 1 = old - 1 /\ old <= q - 1 /\ 1 \in 1 .. 1 + 0
      BY <1>0, <2>2
    <3>3. \A x \in newlines : ~ (q - 1 <= x /\ x < q - 1)
      BY <1>0
    <3>4. x0.iter = fastboot_log_get_iter(q - 1 - 1)
      BY <1>0, <3>1, <3>2, NoIterBefore
    <3> HIDE DEF x0, w
    <3>5. QED
      BY <2>2, <3>1, <3>2, <3>3, <3>4 DEF PrevCharAt
  <2>3. CASE q - 1 \in newlines /\ q - 1 # old
    <3>1. (q - 1) - 1 \in Nat /\ Available((q - 1) - 1) /\ (q - 1) - 1 = q - 1 - 1
      BY <1>0, <2>3 DEF Available
    <3>2. fastboot_log_get_iter((q - 1) - 1) # UINT64_MAX
      BY <1>0, <3>1, IterWalk
    <3>3. x0.len = 1 /\ x0.iter = prev /\ x0.more = (prev # UINT64_MAX) /\ w = 1
      BY <1>1, <1>2, <2>3 DEF Loop
    <3>4. prev # UINT64_MAX /\ x0.iter = fastboot_log_get_iter(q - 1 - 1)
      BY <1>1, <2>3, <3>1, <3>2, <3>3
    <3>5. x0.more = TRUE
      BY <3>3, <3>4
    <3>6. old < q - 1 /\ 1 \in 1 .. 1 + 0 /\ 1 = 1 + 0
      BY <1>0, <2>3
    <3>7. \A x \in newlines : ~ (q - 1 <= x /\ x < q - 1)
      BY <1>0
    <3> HIDE DEF x0, w
    <3>8. QED
      BY <3>3, <3>4, <3>5, <3>6, <3>7 DEF PrevCharAt
  <2>4. QED
    BY <2>1, <2>2, <2>3
<1>8. get_prev_fastboot_log_line(iter) = Line(R(chars_per_line).len, R(chars_per_line).iter)
  BY <1>1 DEF get_prev_fastboot_log_line
<1> HIDE DEF x0, w
<1>9. LoopOn(LoopStates, PrevChar, x0)
  BY <1>0, <1>5, CharTypes DEF LoopOn
<1>10. R(0) = x0 /\ \A i \in Nat : R(i) \in LoopStates /\ R(i + 1) = PrevChar[R(i)]
  BY <1>9, RoundsWork
<1> HIDE DEF R
<1>11. 0 \in S
  BY <1>7, <1>10
<1>12. ASSUME NEW i \in Nat, i \in S
       PROVE  i + 1 \in S
  <2>1. PICK m : PrevCharAt(q, w, i, m, R(i))
    BY <1>12
  <2>2. \E n : PrevCharAt(q, w, i + 1, n, PrevChar[R(i)])
    BY <1>6, <1>10, <2>1, PrevCharRound
  <2>3. QED
    BY <1>10, <2>2
<1>13. chars_per_line \in S
  <2> HIDE DEF S
  <2>1. QED
    BY <1>11, <1>12, InSteps
<1>14. PICK m : PrevCharAt(q, w, chars_per_line, m, R(chars_per_line))
  BY <1>13
<1> DEFINE s == R(chars_per_line)
           line == get_prev_fastboot_log_line(iter)
<1>15. s \in LoopStates /\ s.more \in BOOLEAN
  BY <1>10 DEF LoopStates
<1>16. line.len = s.len /\ line.iter = s.iter
  BY <1>8 DEF Line
<1> HIDE DEF s, line, iter
<1>17. PrevCharAt(q, w, chars_per_line, m, s)
  BY <1>14 DEF s
<1>18. /\ m \in Nat /\ w <= m /\ m <= w + chars_per_line /\ s.len = m
       /\ \A x \in newlines : ~ (q - m <= x /\ x < q - 1)
  BY <1>6, <1>17 DEF PrevCharAt
<1>19. \E p \in Nat : /\ LineStart(newlines, old, p, q)
                      /\ s.iter = fastboot_log_get_iter(p - 1)
                      /\ m = q - p \/ (p = old /\ m = q - p - 1)
  <2>1. CASE s.more = TRUE
    <3>1. m = w + chars_per_line /\ old < q - m /\ s.iter = fastboot_log_get_iter(q - m - 1)
      BY <1>17, <2>1 DEF PrevCharAt
    <3>2. q - m \in Nat /\ q - (q - m) = m /\ m > 0
      BY <1>0, <1>6, <1>18, <3>1
    <3>3. LineStart(newlines, old, q - m, q)
      BY <1>0, <1>6, <1>18, <3>1, <3>2 DEF LineStart, Chunk
    <3> HIDE DEF old
    <3>4. QED
      BY <3>1, <3>2, <3>3
  <2>2. CASE /\ m > 0
             /\ s.iter = fastboot_log_get_iter(q - m - 1)
             /\ old <= q - m
             /\ q - m = old \/ q - m - 1 \in newlines
    <3>1. q - m \in Nat /\ q - (q - m) = m
      BY <1>0, <1>18, <2>2
    <3>2. LineStart(newlines, old, q - m, q)
      BY <1>0, <1>6, <1>18, <2>2, <3>1 DEF LineStart, Chunk
    <3> HIDE DEF old
    <3>3. QED
      BY <2>2, <3>1, <3>2
  <2>3. CASE /\ m < w + chars_per_line
             /\ s.iter = UINT64_MAX
             /\ old = q - m - 1
             /\ q - m - 1 \notin newlines
    <3>1. q - old = m + 1 /\ m = q - old - 1
      BY <1>0, <1>18, <2>3
    <3>2. \A x \in newlines : ~ (old <= x /\ x < q - 1)
      BY <1>0, <1>18, <2>3
    <3>3. LineStart(newlines, old, old, q)
      BY <1>0, <1>6, <1>18, <2>3, <3>1, <3>2 DEF LineStart, Chunk
    <3>4. s.iter = fastboot_log_get_iter(old - 1)
      BY <1>0, <2>3, NoIterBefore
    <3>5. QED
      BY <1>0, <3>1, <3>3, <3>4
  <2>4. QED
    BY <1>15, <1>17, <2>1, <2>2, <2>3 DEF PrevCharAt
<1>20. PICK p \in Nat : /\ LineStart(newlines, old, p, q)
                        /\ s.iter = fastboot_log_get_iter(p - 1)
                        /\ m = q - p \/ (p = old /\ m = q - p - 1)
  BY <1>19
<1>21. p = StartOf(newlines, old, q)
  BY <1>0, <1>20, StartUnique
<1>22. /\ line.iter = fastboot_log_get_iter(p - 1)
       /\ line.len = q - p \/ (p = old /\ line.len = q - p - 1)
  BY <1>16, <1>18, <1>20
<1>23. QED
  BY <1>20, <1>21, <1>22 DEF line, iter

-----------------------------------------------------------------------------
(* Pages.                                                                   *)

\* The loops over lines keep to their states.
LEMMA PageLoopTypes ==
    ASSUME Inv
    PROVE  /\ NextLine \in [LoopStates -> LoopStates]
           /\ PrevLine \in [LoopStates -> LoopStates]
           /\ PrevPiece \in [LoopStates -> LoopStates]
           /\ LineStep \in [Iters -> Iters]
<1>1. ASSUME NEW s \in LoopStates, NEW line, line.len \in Nat, line.iter \in Iters
      PROVE  Counted(s, line) \in LoopStates /\ Loop(line.len, line.iter, TRUE) \in LoopStates
  <2>1. s.len \in Nat /\ s.len + line.len \in Nat
    BY <1>1 DEF LoopStates
  <2>2. /\ Loop(0, line.iter, FALSE) \in LoopStates
        /\ Loop(s.len + line.len, line.iter, TRUE) \in LoopStates
        /\ Loop(line.len, line.iter, TRUE) \in LoopStates
    BY <1>1, <2>1, LoopType
  <2>3. QED
    BY <2>2 DEF Counted
<1>2. ASSUME NEW s \in LoopStates
      PROVE  /\ NextLine[s] \in LoopStates
             /\ PrevLine[s] \in LoopStates
             /\ PrevPiece[s] \in LoopStates
  <2>1. s.iter \in Iters
    BY DEF LoopStates
  <2> DEFINE a == get_next_fastboot_log_line(s.iter)
             b == get_prev_fastboot_log_line(s.iter)
  <2>2. a.len \in Nat /\ a.iter \in Iters /\ b.len \in Nat /\ b.iter \in Iters
    BY <2>1, LineTypes
  <2>3. NextLine[s] = Counted(s, a) /\ PrevLine[s] = Counted(s, b)
    BY DEF NextLine, PrevLine
  <2>4. PrevPiece[s] = s \/ PrevPiece[s] = Loop(b.len, b.iter, TRUE)
    BY DEF PrevPiece
  <2> HIDE DEF a, b
  <2>5. Counted(s, a) \in LoopStates /\ Counted(s, b) \in LoopStates
        /\ Loop(b.len, b.iter, TRUE) \in LoopStates
    BY <1>1, <2>2
  <2>6. QED
    BY <2>3, <2>4, <2>5
<1>3. /\ NextLine = [s \in LoopStates |-> NextLine[s]]
      /\ PrevLine = [s \in LoopStates |-> PrevLine[s]]
      /\ PrevPiece = [s \in LoopStates |-> PrevPiece[s]]
  BY DEF NextLine, PrevLine, PrevPiece
<1>4. LineStep \in [Iters -> Iters]
  BY LineTypes DEF LineStep
<1>5. QED
  BY <1>2, <1>3, <1>4

\* The line loop, line by line, goes where the lines of the log do.
LEMMA LineStepIs ==
    ASSUME LogOk, NEW b \in Nat, Available(b)
    PROVE  \A k \in Nat : Rounds(LineStep, fastboot_log_get_iter(b), k) =
                          fastboot_log_get_iter(Past(newlines, total_len, b, k))
<1> DEFINE P(k) == Past(newlines, total_len, b, k)
           x0 == fastboot_log_get_iter(b)
           R(k) == Rounds(LineStep, x0, k)
           S == {k \in Nat : R(k) = fastboot_log_get_iter(P(k))}
<1>0. Inv /\ newlines \in SUBSET Nat /\ total_len \in Nat /\ b \in 0 .. total_len
      /\ fastboot_log_get_oldest_available_byte <= b
  BY OldestType DEF LogOk, Available
<1>1. x0 \in Iters
  BY <1>0, IterWalk DEF Iters
<1> HIDE DEF x0
<1>2. LoopOn(Iters, LineStep, x0)
  BY <1>0, <1>1, PageLoopTypes DEF LoopOn
<1>3. R(0) = x0 /\ \A k \in Nat : R(k) \in Iters /\ R(k + 1) = LineStep[R(k)]
  BY <1>2, RoundsWork
<1>4. P(0) = b /\ \A k \in Nat : P(k + 1) = EndOf(newlines, total_len, P(k))
  BY <1>0, PastStep
<1>5. \A k \in Nat : P(k) \in b .. total_len /\ (P(k) = total_len => P(k + 1) = total_len)
  BY <1>0, PastGoesOn
<1> HIDE DEF R, P
<1>6. 0 \in S
  BY <1>3, <1>4 DEF x0
<1>7. ASSUME NEW k \in Nat, k \in S
      PROVE  k + 1 \in S
  <2>1. R(k) = fastboot_log_get_iter(P(k)) /\ R(k) \in Iters
    BY <1>3, <1>7
  <2>2. R(k + 1) = get_next_fastboot_log_line(R(k)).iter
    BY <1>3, <2>1 DEF LineStep
  <2>3. CASE P(k) = total_len
    <3>1. R(k) = UINT64_MAX /\ P(k + 1) = total_len
      BY <1>0, <1>5, <2>1, <2>3, OldestType
    <3>2. R(k + 1) = UINT64_MAX
      BY <2>2, <3>1 DEF get_next_fastboot_log_line, Line
    <3>3. QED
      BY <1>0, <3>1, <3>2, OldestType
  <2>4. CASE P(k) # total_len
    <3>1. P(k) \in Nat /\ Available(P(k))
      BY <1>0, <1>5, <2>4, OldestType DEF Available
    <3>2. get_next_fastboot_log_line(fastboot_log_get_iter(P(k))) =
             Line(EndOf(newlines, total_len, P(k)) - P(k),
                  fastboot_log_get_iter(EndOf(newlines, total_len, P(k))))
      BY <3>1, NextLineIs
    <3>3. R(k + 1) = fastboot_log_get_iter(EndOf(newlines, total_len, P(k)))
      BY <2>1, <2>2, <3>2 DEF Line
    <3>4. QED
      BY <1>4, <3>3
  <2>5. QED
    BY <2>3, <2>4
<1>8. \A k \in Nat : k \in S
  <2> HIDE DEF S
  <2>1. QED
    BY <1>6, <1>7, InSteps
<1>9. QED
  BY <1>8 DEF R, P, x0

\* After k rounds of the loop of get_next_fastboot_log_page_len: the bytes of k
\* lines, or nothing when the log has ended.
NextLineAt(b, k, s) ==
    /\ s.more = TRUE => /\ s.len = Past(newlines, total_len, b, k) - b
                        /\ s.iter = fastboot_log_get_iter(Past(newlines, total_len, b, k))
                        /\ k > 0 => s.len > 0
    /\ s.more = FALSE => /\ s.len = 0
                         /\ k > 0
                         /\ Past(newlines, total_len, b, k - 1) = total_len

\* A round of get_next_fastboot_log_page_len counts one more line.
LEMMA NextLineRound ==
    ASSUME LogOk, NEW b \in Nat, Available(b), NEW k \in Nat, NEW s \in LoopStates,
           NextLineAt(b, k, s)
    PROVE  NextLineAt(b, k + 1, NextLine[s])
<1> DEFINE P(j) == Past(newlines, total_len, b, j)
           line == get_next_fastboot_log_line(s.iter)
           t == NextLine[s]
<1>0. /\ Inv /\ newlines \in SUBSET Nat /\ total_len \in Nat /\ b \in 0 .. total_len
      /\ fastboot_log_get_oldest_available_byte <= b
      /\ s.more \in BOOLEAN
  BY OldestType DEF LogOk, Available, LoopStates
<1>1. t = Counted(s, line)
  BY DEF NextLine
<1>2. \A j \in Nat : P(j + 1) = EndOf(newlines, total_len, P(j))
  BY <1>0, PastStep
<1>3. \A j \in Nat : P(j) \in b .. total_len /\ (P(j) = total_len => P(j + 1) = total_len)
  BY <1>0, PastGoesOn
<1>4. /\ s.more = TRUE => /\ s.len = P(k) - b
                          /\ s.iter = fastboot_log_get_iter(P(k))
                          /\ k > 0 => s.len > 0
      /\ s.more = FALSE => s.len = 0 /\ k > 0 /\ P(k - 1) = total_len
  BY DEF NextLineAt
<1> SUFFICES /\ t.more = TRUE => /\ t.len = P(k + 1) - b
                                 /\ t.iter = fastboot_log_get_iter(P(k + 1))
                                 /\ t.len > 0
             /\ t.more = FALSE => t.len = 0 /\ P(k) = total_len
  <2>1. (k + 1) - 1 = k /\ k + 1 > 0
    OBVIOUS
  <2> HIDE DEF t
  <2>2. QED
    BY <2>1 DEF NextLineAt, t
<1> HIDE DEF P, t, line
<1>5. CASE s.more = FALSE
  <2>1. t = s
    BY <1>1, <1>5 DEF Counted
  <2>2. k - 1 \in Nat /\ (k - 1) + 1 = k
    BY <1>4, <1>5
  <2>3. P(k) = total_len
    BY <1>3, <1>4, <1>5, <2>2
  <2>4. QED
    BY <1>4, <1>5, <2>1, <2>3
<1>6. CASE s.more = TRUE /\ P(k) = total_len
  <2>1. s.iter = UINT64_MAX
    BY <1>0, <1>4, <1>6, OldestType
  <2>2. line.len = 0
    BY <2>1 DEF line, get_next_fastboot_log_line, Line
  <2>3. t.len = 0 /\ t.more = FALSE
    BY <1>1, <1>6, <2>2 DEF Counted, Loop
  <2>4. QED
    BY <1>6, <2>3
<1>7. CASE s.more = TRUE /\ P(k) # total_len
  <2> DEFINE e == EndOf(newlines, total_len, P(k))
  <2>1. P(k) \in Nat /\ Available(P(k)) /\ P(k) >= b
    BY <1>0, <1>3, <1>7, OldestType DEF Available
  <2>2. /\ e \in Nat /\ LineEnd(newlines, total_len, P(k), e)
        /\ line = Line(e - P(k), fastboot_log_get_iter(e))
    BY <1>4, <1>7, <2>1, NextLineIs DEF line
  <2>3. line.len = e - P(k) /\ line.iter = fastboot_log_get_iter(e)
    BY <2>2 DEF Line
  <2>4. e > P(k)
    BY <2>2 DEF LineEnd, Chunk
  <2>5. e = P(k + 1)
    BY <1>2
  <2> HIDE DEF e
  <2>6. line.len # 0
    BY <2>1, <2>2, <2>3, <2>4
  <2>7. t.len = s.len + line.len /\ t.iter = line.iter /\ t.more = TRUE
    BY <1>1, <1>7, <2>6 DEF Counted, Loop
  <2>8. t.len = e - b /\ t.len > 0
    BY <1>4, <1>7, <2>1, <2>2, <2>3, <2>4, <2>7
  <2>9. QED
    BY <2>3, <2>5, <2>7, <2>8
<1>8. QED
  BY <1>0, <1>5, <1>6, <1>7

\* get_next_fastboot_log_page_len is the length of lines_per_page lines, or 0
\* when one line less gets to the end of the log.
LEMMA NextPageIs ==
    ASSUME LogOk, NEW b \in Nat, Available(b)
    PROVE  LET n == get_next_fastboot_log_page_len(b)
           IN  \/ n > 0 /\ n = Past(newlines, total_len, b, lines_per_page) - b
               \/ n = 0 /\ Past(newlines, total_len, b, lines_per_page - 1) = total_len
<1> USE PagerAssumption
<1> DEFINE iter == fastboot_log_get_iter(b)
           x0 == Loop(0, iter, TRUE)
           R(k) == Rounds(NextLine, x0, k)
           S == {k \in Nat : NextLineAt(b, k, R(k))}
<1>0. Inv /\ newlines \in SUBSET Nat /\ total_len \in Nat
  BY OldestType DEF LogOk
<1>1. iter \in Iters
  BY <1>0, IterWalk DEF Iters
<1>2. x0 \in LoopStates /\ x0.len = 0 /\ x0.iter = iter /\ x0.more = TRUE
  <2> HIDE DEF iter
  <2>1. QED
    BY <1>1 DEF Loop, LoopStates
<1>3. get_next_fastboot_log_page_len(b) = R(lines_per_page).len
  BY DEF get_next_fastboot_log_page_len
<1> HIDE DEF x0
<1>4. LoopOn(LoopStates, NextLine, x0)
  BY <1>0, <1>2, PageLoopTypes DEF LoopOn
<1>5. R(0) = x0 /\ \A k \in Nat : R(k) \in LoopStates /\ R(k + 1) = NextLine[R(k)]
  BY <1>4, RoundsWork
<1> HIDE DEF R
<1>6. 0 \in S
  <2>1. Past(newlines, total_len, b, 0) = b
    BY <1>0, PastStep
  <2>2. NextLineAt(b, 0, x0)
    BY <1>2, <2>1 DEF NextLineAt
  <2>3. QED
    BY <1>5, <2>2
<1>7. ASSUME NEW k \in Nat, k \in S
      PROVE  k + 1 \in S
  <2>1. NextLineAt(b, k + 1, NextLine[R(k)])
    BY <1>5, <1>7, NextLineRound
  <2>2. QED
    BY <1>5, <2>1
<1>8. lines_per_page \in S
  <2> HIDE DEF S
  <2>1. QED
    BY <1>6, <1>7, InSteps
<1>9. NextLineAt(b, lines_per_page, R(lines_per_page)) /\ R(lines_per_page).more \in BOOLEAN
  BY <1>5, <1>8 DEF LoopStates
<1>10. QED
  BY <1>3, <1>9 DEF NextLineAt

\* There is no page from where there is no byte.
LEMMA NextPageNone ==
    ASSUME Inv, NEW b, ~Available(b)
    PROVE  get_next_fastboot_log_page_len(b) = 0
<1> USE PagerAssumption
<1> DEFINE x0 == Loop(0, UINT64_MAX, TRUE)
           R(k) == Rounds(NextLine, x0, k)
           S == {k \in Nat : R(k).len = 0 /\ R(k).iter = UINT64_MAX}
<1>1. fastboot_log_get_iter(b) = UINT64_MAX
  BY DEF fastboot_log_get_iter
<1>2. x0 \in LoopStates /\ x0.len = 0 /\ x0.iter = UINT64_MAX
  BY DEF Loop, LoopStates, Iters
<1>3. get_next_fastboot_log_page_len(b) = R(lines_per_page).len
  BY <1>1 DEF get_next_fastboot_log_page_len
<1> HIDE DEF x0
<1>4. LoopOn(LoopStates, NextLine, x0)
  BY <1>2, PageLoopTypes DEF LoopOn
<1>5. R(0) = x0 /\ \A k \in Nat : R(k) \in LoopStates /\ R(k + 1) = NextLine[R(k)]
  BY <1>4, RoundsWork
<1> HIDE DEF R
<1>6. 0 \in S
  BY <1>2, <1>5
<1>7. ASSUME NEW k \in Nat, k \in S
      PROVE  k + 1 \in S
  <2>1. R(k) \in LoopStates /\ R(k).len = 0 /\ R(k).iter = UINT64_MAX
    BY <1>5, <1>7
  <2>2. R(k + 1) = Counted(R(k), Line(0, UINT64_MAX))
    BY <1>5, <2>1 DEF NextLine, get_next_fastboot_log_line
  <2>3. R(k + 1).len = 0 /\ R(k + 1).iter = UINT64_MAX
    BY <2>1, <2>2 DEF Counted, Line, Loop
  <2>4. QED
    BY <2>3
<1>8. lines_per_page \in S
  <2> HIDE DEF S
  <2>1. QED
    BY <1>6, <1>7, InSteps
<1>9. QED
  BY <1>3, <1>8

\* After k rounds of the loop of get_prev_fastboot_log_page_len back from q: the
\* bytes of k lines, the last of them not empty, or nothing when they get to
\* the oldest byte.
PrevLineAt(q, k, s) ==
    LET old == fastboot_log_get_oldest_available_byte
        F(j) == Front(newlines, old, q, j)
    IN  /\ s.more = TRUE =>
             /\ s.iter = fastboot_log_get_iter(F(k) - 1)
             /\ s.len = q - F(k) \/ (F(k) = old /\ s.len = q - F(k) - 1)
             /\ k > 0 => s.len > q - F(k - 1)
        /\ s.more = FALSE => s.len = 0 /\ F(k) = old

\* A round of get_prev_fastboot_log_page_len counts one more line backwards.
LEMMA PrevLineRound ==
    ASSUME LogOk, NEW q \in Nat, q > 0, Available(q - 1), NEW k \in Nat, NEW s \in LoopStates,
           PrevLineAt(q, k, s)
    PROVE  PrevLineAt(q, k + 1, PrevLine[s])
<1> DEFINE old == fastboot_log_get_oldest_available_byte
           F(j) == Front(newlines, old, q, j)
           line == get_prev_fastboot_log_line(s.iter)
           t == PrevLine[s]
<1>0. /\ Inv /\ newlines \in SUBSET Nat /\ total_len \in Nat /\ old \in Nat
      /\ old <= q /\ q <= total_len /\ s.more \in BOOLEAN
  BY OldestType DEF LogOk, Available, LoopStates
<1>1. t = Counted(s, line)
  BY DEF PrevLine
<1>2. \A j \in Nat : F(j) \in Nat /\ F(j + 1) = StartOf(newlines, old, F(j))
  BY <1>0, FrontStep
<1>3. \A j \in Nat : F(j) \in old .. q /\ (F(j) = old => F(j + 1) = old)
  BY <1>0, FrontGoesOn
<1>4. /\ s.more = TRUE => /\ s.iter = fastboot_log_get_iter(F(k) - 1)
                          /\ s.len = q - F(k) \/ (F(k) = old /\ s.len = q - F(k) - 1)
      /\ s.more = FALSE => s.len = 0 /\ F(k) = old
  BY DEF PrevLineAt
<1> SUFFICES /\ t.more = TRUE =>
                 /\ t.iter = fastboot_log_get_iter(F(k + 1) - 1)
                 /\ t.len = q - F(k + 1) \/ (F(k + 1) = old /\ t.len = q - F(k + 1) - 1)
                 /\ t.len > q - F(k)
             /\ t.more = FALSE => t.len = 0 /\ F(k + 1) = old
  <2>1. (k + 1) - 1 = k
    OBVIOUS
  <2> HIDE DEF t
  <2>2. QED
    BY <2>1 DEF PrevLineAt, t
<1> HIDE DEF F, t, line
<1>5. CASE s.more = FALSE
  <2>1. t = s
    BY <1>1, <1>5 DEF Counted
  <2>2. QED
    BY <1>3, <1>4, <1>5, <2>1
<1>6. CASE s.more = TRUE /\ F(k) = old
  <2>1. s.iter = UINT64_MAX
    BY <1>0, <1>4, <1>6, NoIterBefore
  <2>2. line.len = 0
    BY <2>1 DEF line, get_prev_fastboot_log_line, Line
  <2>3. t.len = 0 /\ t.more = FALSE
    BY <1>1, <1>6, <2>2 DEF Counted, Loop
  <2>4. QED
    BY <1>3, <1>6, <2>3
<1>7. CASE s.more = TRUE /\ F(k) # old
  <2> DEFINE c == F(k)
             p == F(k + 1)
  <2>1. c \in Nat /\ c > 0 /\ Available(c - 1) /\ c <= q /\ c > old
    BY <1>0, <1>3, <1>7, OldestType DEF Available
  <2>2. s.iter = fastboot_log_get_iter(c - 1) /\ s.len = q - c /\ p = StartOf(newlines, old, c)
    BY <1>2, <1>4, <1>7
  <2> HIDE DEF c, p, old
  <2>3. /\ p \in Nat /\ LineStart(newlines, old, p, c)
        /\ line.iter = fastboot_log_get_iter(p - 1)
        /\ line.len = c - p \/ (p = old /\ line.len = c - p - 1)
    BY <2>1, <2>2, PrevLineIs DEF line, old
  <2>4. p < c
    BY <2>3 DEF LineStart, Chunk
  <2>5. CASE line.len = 0
    <3>1. p = old
      BY <2>1, <2>3, <2>4, <2>5
    <3>2. t.len = 0 /\ t.more = FALSE
      BY <1>1, <1>7, <2>5 DEF Counted, Loop
    <3>3. QED
      BY <3>1, <3>2 DEF p
  <2>6. CASE line.len # 0
    <3>1. t.len = s.len + line.len /\ t.iter = line.iter /\ t.more = TRUE
      BY <1>1, <1>7, <2>6 DEF Counted, Loop
    <3>2. t.len > q - c
      BY <2>1, <2>2, <2>3, <2>4, <2>6, <3>1
    <3>3. t.len = q - p \/ (p = old /\ t.len = q - p - 1)
      BY <2>1, <2>2, <2>3, <2>4, <3>1
    <3>4. QED
      BY <2>3, <3>1, <3>2, <3>3 DEF p, c
  <2>7. QED
    BY <2>5, <2>6
<1>8. QED
  BY <1>0, <1>5, <1>6, <1>7

\* The pieces of a wrapped line are no longer than a line of the screen.
PieceAt(s) ==
    /\ s.len \in 0 .. chars_per_line
    /\ \E x \in Nat : /\ fastboot_log_get_oldest_available_byte <= x /\ x <= total_len
                      /\ s.iter = fastboot_log_get_iter(x - 1)

\* A round of the loop over the pieces goes back one piece.
LEMMA PieceRound ==
    ASSUME LogOk, NEW s \in LoopStates, PieceAt(s)
    PROVE  PieceAt(PrevPiece[s])
<1> USE PagerAssumption
<1> DEFINE old == fastboot_log_get_oldest_available_byte
           line == get_prev_fastboot_log_line(s.iter)
           t == PrevPiece[s]
<1>0. Inv /\ newlines \in SUBSET Nat /\ total_len \in Nat /\ old \in Nat
  BY OldestType DEF LogOk
<1>1. PICK x \in Nat : old <= x /\ x <= total_len /\ s.iter = fastboot_log_get_iter(x - 1)
  BY DEF PieceAt
<1>2. t = IF s.iter = UINT64_MAX THEN s
          ELSE IF IsNewline(s.iter) THEN s
          ELSE Loop(line.len, line.iter, TRUE)
  BY DEF PrevPiece
<1> HIDE DEF t, line
<1>3. CASE t = s
  BY <1>3 DEF t
<1>4. CASE t # s
  <2>1. t = Loop(line.len, line.iter, TRUE) /\ s.iter # UINT64_MAX /\ ~IsNewline(s.iter)
    BY <1>2, <1>4
  <2>2. x # old
    BY <1>0, <1>1, <2>1, NoIterBefore
  <2>3. x - 1 \in Nat /\ x > 0 /\ Available(x - 1)
    BY <1>0, <1>1, <2>2 DEF Available
  <2>4. buf[fastboot_log_get_iter(x - 1)] = x - 1
    BY <1>0, <2>3, IterWalk
  <2>5. x - 1 \notin newlines
    BY <1>1, <2>1, <2>4 DEF IsNewline, fastboot_log_get_byte_at_iter
  <2> DEFINE p == StartOf(newlines, old, x)
  <2>6. /\ p \in Nat /\ LineStart(newlines, old, p, x)
        /\ line.iter = fastboot_log_get_iter(p - 1)
        /\ line.len = x - p \/ (p = old /\ line.len = x - p - 1)
    BY <1>1, <2>3, PrevLineIs DEF line
  <2> HIDE DEF p, old
  <2>7. p < x /\ x - p <= chars_per_line /\ old <= p
    BY <2>5, <2>6 DEF LineStart, Chunk
  <2>8. line.len \in 0 .. chars_per_line /\ p <= total_len
    BY <1>0, <1>1, <2>6, <2>7
  <2>9. t.len = line.len /\ t.iter = line.iter
    BY <2>1 DEF Loop
  <2>10. PieceAt(t)
    BY <2>6, <2>7, <2>8, <2>9 DEF PieceAt, old
  <2>11. QED
    BY <2>10 DEF t
<1>5. QED
  BY <1>3, <1>4

\* The length of the first piece, counted back from x.
LEMMA PieceIs ==
    ASSUME LogOk, NEW x \in Nat,
           fastboot_log_get_oldest_available_byte <= x, x <= total_len
    PROVE  LET piece == Rounds(PrevPiece, Loop(0, fastboot_log_get_iter(x - 1), TRUE), SIZE).len
           IN  /\ piece \in 0 .. chars_per_line
               /\ piece # 0 => /\ fastboot_log_get_oldest_available_byte < x
                               /\ x - 1 \notin newlines
<1> USE PagerAssumption
<1> DEFINE old == fastboot_log_get_oldest_available_byte
           iter == fastboot_log_get_iter(x - 1)
           x0 == Loop(0, iter, TRUE)
           R(k) == Rounds(PrevPiece, x0, k)
           ends == iter = UINT64_MAX \/ IsNewline(iter)
           S == {k \in Nat : PieceAt(R(k)) /\ (ends => R(k) = x0)}
<1>0. Inv /\ newlines \in SUBSET Nat /\ total_len \in Nat /\ old \in Nat
  BY OldestType DEF LogOk
<1>1. /\ x = old => iter = UINT64_MAX
      /\ x # old => /\ x - 1 \in Nat /\ iter \in 0 .. SIZE - 1
                    /\ buf[iter] = x - 1
  <2>1. CASE x = old
    BY <1>0, <2>1, NoIterBefore
  <2>2. CASE x # old
    <3>1. x - 1 \in Nat /\ Available(x - 1)
      BY <1>0, <2>2 DEF Available
    <3>2. QED
      BY <1>0, <2>2, <3>1, IterWalk
  <2>3. QED
    BY <2>1, <2>2
<1>2. iter \in Iters
  BY <1>1 DEF Iters
<1>3. x0 \in LoopStates /\ x0.len = 0 /\ x0.iter = iter
  <2> HIDE DEF iter
  <2>1. QED
    BY <1>2 DEF Loop, LoopStates
<1>4. PieceAt(x0)
  <2>1. 0 \in 0 .. chars_per_line
    OBVIOUS
  <2> HIDE DEF x0
  <2>2. QED
    BY <1>3, <2>1 DEF PieceAt
<1> HIDE DEF x0
<1>5. LoopOn(LoopStates, PrevPiece, x0)
  BY <1>0, <1>3, PageLoopTypes DEF LoopOn
<1>6. R(0) = x0 /\ \A k \in Nat : R(k) \in LoopStates /\ R(k + 1) = PrevPiece[R(k)]
  BY <1>5, RoundsWork
<1>7. ends => PrevPiece[x0] = x0
  BY <1>3 DEF PrevPiece
<1> HIDE DEF R, ends
<1>8. 0 \in S
  BY <1>4, <1>6
<1>9. ASSUME NEW k \in Nat, k \in S
      PROVE  k + 1 \in S
  <2>1. PieceAt(PrevPiece[R(k)])
    BY <1>6, <1>9, PieceRound
  <2>2. QED
    BY <1>6, <1>7, <1>9, <2>1
<1>10. SIZE \in S
  <2>1. SIZE \in Nat
    OBVIOUS
  <2> HIDE DEF S
  <2>2. QED
    BY <1>8, <1>9, <2>1, InSteps
<1>11. PieceAt(R(SIZE)) /\ (ends => R(SIZE).len = 0)
  BY <1>3, <1>10
<1>12. R(SIZE).len \in 0 .. chars_per_line
  BY <1>11 DEF PieceAt
<1>13. ~ends => old < x /\ x - 1 \notin newlines
  BY <1>0, <1>1 DEF ends, IsNewline, fastboot_log_get_byte_at_iter
<1>14. QED
  BY <1>11, <1>12, <1>13 DEF R, x0

\* Adding UINT64_MAX is taking one away.
LEMMA PlusMax ==
    ASSUME NEW n \in 0 .. UINT64_MAX
    PROVE  /\ n > 0 => Plus(n, UINT64_MAX) = n - 1
           /\ n = 0 => Plus(n, UINT64_MAX) = UINT64_MAX
<1>1. PICK M \in Nat : M = UINT64_MAX
  BY DEF UINT64_MAX
<1>2. \A x \in 0 .. M : x % (M + 1) = x
  OBVIOUS
<1>3. \A x \in M + 1 .. 2 * M + 1 : x % (M + 1) = x - (M + 1)
  OBVIOUS
<1>4. QED
  BY <1>1, <1>2, <1>3 DEF Plus

\* get_prev_fastboot_log_page_len: a page that ends at end begins no earlier
\* than lines_per_page lines back and earlier than one line less; there is none
\* when they get to the oldest byte.
LEMMA PrevPageIs ==
    ASSUME LogOk, NEW end \in 1 .. UINT64_MAX, Available(end - 1)
    PROVE  LET old == fastboot_log_get_oldest_available_byte
               n   == get_prev_fastboot_log_page_len(end)
           IN  \/ n = 0 /\ Front(newlines, old, end, lines_per_page) = old
               \/ /\ n \in Nat \ {0}
                  /\ Front(newlines, old, end, lines_per_page) <= end - n
                  /\ end - n < Front(newlines, old, end, lines_per_page - 1)
<1> USE PagerAssumption
<1> DEFINE old == fastboot_log_get_oldest_available_byte
           iter == fastboot_log_get_iter(end - 1)
           x0 == Loop(0, iter, TRUE)
           R(k) == Rounds(PrevLine, x0, k)
           F(k) == Front(newlines, old, end, k)
           S == {k \in Nat : PrevLineAt(end, k, R(k))}
           lines == R(lines_per_page)
           piece == Rounds(PrevPiece, Loop(0, lines.iter, TRUE), SIZE).len
           n == get_prev_fastboot_log_page_len(end)
<1>0. /\ Inv /\ newlines \in SUBSET Nat /\ total_len \in Nat /\ old \in Nat
      /\ end \in Nat /\ end > 0 /\ end - 1 \in Nat /\ old <= end /\ end <= total_len
      /\ end \in 0 .. UINT64_MAX
  <2>1. UINT64_MAX \in Nat
    BY DEF UINT64_MAX
  <2>2. QED
    BY <2>1, OldestType DEF LogOk, Available
<1>1. iter \in Iters
  BY <1>0, IterWalk DEF Iters
<1>2. x0 \in LoopStates /\ x0.len = 0 /\ x0.iter = iter /\ x0.more = TRUE
  <2> HIDE DEF iter
  <2>1. QED
    BY <1>1 DEF Loop, LoopStates
<1>3. n = IF lines.len = 0 THEN 0
          ELSE IF piece # 0 THEN lines.len - (chars_per_line - piece)
          ELSE lines.len
  <2>1. Plus(end, UINT64_MAX) = end - 1
    BY <1>0, PlusMax
  <2>2. QED
    BY <2>1, Zenon DEF get_prev_fastboot_log_page_len
<1> HIDE DEF x0
<1>4. LoopOn(LoopStates, PrevLine, x0)
  BY <1>0, <1>2, PageLoopTypes DEF LoopOn
<1>5. R(0) = x0 /\ \A k \in Nat : R(k) \in LoopStates /\ R(k + 1) = PrevLine[R(k)]
  BY <1>4, RoundsWork
<1> HIDE DEF R
<1>6. 0 \in S
  <2>1. F(0) = end
    BY <1>0, FrontStep
  <2>2. PrevLineAt(end, 0, x0)
    BY <1>0, <1>2, <2>1 DEF PrevLineAt
  <2>3. QED
    BY <1>5, <2>2
<1>7. ASSUME NEW k \in Nat, k \in S
      PROVE  k + 1 \in S
  <2>1. PrevLineAt(end, k + 1, PrevLine[R(k)])
    BY <1>0, <1>5, <1>7, PrevLineRound
  <2>2. QED
    BY <1>5, <2>1
<1>8. lines_per_page \in S
  <2> HIDE DEF S
  <2>1. QED
    BY <1>6, <1>7, InSteps
<1>9. lines.more \in BOOLEAN /\ lines.len \in Nat
  BY <1>5 DEF LoopStates
<1>10. PICK p \in Nat : p = F(lines_per_page)
  BY <1>0, FrontStep
<1>11. PICK q \in Nat : q = F(lines_per_page - 1)
  BY <1>0, FrontStep
<1>12. /\ lines.more = TRUE => /\ lines.iter = fastboot_log_get_iter(p - 1)
                               /\ lines.len = end - p \/ (p = old /\ lines.len = end - p - 1)
                               /\ lines.len > end - q
       /\ lines.more = FALSE => lines.len = 0 /\ p = old
  BY <1>8, <1>10, <1>11 DEF PrevLineAt
<1>13. /\ p \in old .. end /\ q \in old .. end
       /\ old < q => LineStart(newlines, old, p, q)
  <2>1. \A k \in Nat : /\ F(k) \in old .. end
                       /\ old < F(k) => LineStart(newlines, old, F(k + 1), F(k))
    BY <1>0, FrontGoesOn
  <2>2. lines_per_page - 1 \in Nat /\ (lines_per_page - 1) + 1 = lines_per_page
    OBVIOUS
  <2> HIDE DEF F
  <2>3. QED
    BY <1>10, <1>11, <2>1, <2>2
<1> SUFFICES (n = 0 /\ p = old) \/ (n \in Nat \ {0} /\ p <= end - n /\ end - n < q)
  BY <1>10, <1>11
<1> HIDE DEF n, lines
<1>14. CASE lines.more = FALSE
  BY <1>3, <1>12, <1>14
<1>15. CASE lines.more = TRUE
  <2>1. lines.len > 0
    BY <1>0, <1>12, <1>13, <1>15
  <2>2. piece = Rounds(PrevPiece, Loop(0, fastboot_log_get_iter(p - 1), TRUE), SIZE).len
    BY <1>12, <1>15, Zenon
  <2>3. old <= p /\ p <= total_len
    BY <1>0, <1>13
  <2> HIDE DEF piece
  <2>4. /\ piece \in 0 .. chars_per_line
        /\ piece # 0 => old < p /\ p - 1 \notin newlines
    BY <2>2, <2>3, PieceIs
  <2>5. CASE piece = 0
    BY <1>0, <1>3, <1>9, <1>12, <1>13, <1>15, <2>1, <2>5
  <2>6. CASE piece # 0
    <3>1. lines.len = end - p /\ p > old /\ p - 1 \notin newlines
      BY <1>12, <1>13, <1>15, <2>4, <2>6
    <3>2. LineStart(newlines, old, p, q) /\ p < q
      BY <1>0, <1>12, <1>13, <1>15, <3>1
    <3>3. q - p >= chars_per_line
      BY <1>0, <3>1, <3>2 DEF LineStart
    <3>4. n = (end - p) - (chars_per_line - piece)
      BY <1>3, <2>1, <2>6, <3>1
    <3>5. QED
      BY <1>0, <1>13, <2>4, <2>6, <3>1, <3>3, <3>4
  <2>7. QED
    BY <2>5, <2>6
<1>16. QED
  BY <1>9, <1>14, <1>15

\* There is no page up to where there is no byte.
LEMMA PrevPageNone ==
    ASSUME Inv, NEW b, NEW end, Plus(end, UINT64_MAX) = b, ~Available(b)
    PROVE  get_prev_fastboot_log_page_len(end) = 0
<1> USE PagerAssumption
<1> DEFINE x0 == Loop(0, UINT64_MAX, TRUE)
           R(k) == Rounds(PrevLine, x0, k)
           S == {k \in Nat : R(k).len = 0 /\ R(k).iter = UINT64_MAX}
<1>1. fastboot_log_get_iter(b) = UINT64_MAX
  BY DEF fastboot_log_get_iter
<1>2. x0 \in LoopStates /\ x0.len = 0 /\ x0.iter = UINT64_MAX
  BY DEF Loop, LoopStates, Iters
<1>3. R(lines_per_page).len = 0 => get_prev_fastboot_log_page_len(end) = 0
  BY <1>1, Zenon DEF get_prev_fastboot_log_page_len
<1> HIDE DEF x0
<1>4. LoopOn(LoopStates, PrevLine, x0)
  BY <1>2, PageLoopTypes DEF LoopOn
<1>5. R(0) = x0 /\ \A k \in Nat : R(k) \in LoopStates /\ R(k + 1) = PrevLine[R(k)]
  BY <1>4, RoundsWork
<1> HIDE DEF R
<1>6. 0 \in S
  BY <1>2, <1>5
<1>7. ASSUME NEW k \in Nat, k \in S
      PROVE  k + 1 \in S
  <2>1. R(k) \in LoopStates /\ R(k).len = 0 /\ R(k).iter = UINT64_MAX
    BY <1>5, <1>7
  <2>2. R(k + 1) = Counted(R(k), Line(0, UINT64_MAX))
    BY <1>5, <2>1 DEF PrevLine, get_prev_fastboot_log_line
  <2>3. R(k + 1).len = 0 /\ R(k + 1).iter = UINT64_MAX
    BY <2>1, <2>2 DEF Counted, Line, Loop
  <2>4. QED
    BY <2>3
<1>8. lines_per_page \in S
  <2> HIDE DEF S
  <2>1. QED
    BY <1>6, <1>7, InSteps
<1>9. QED
  BY <1>3, <1>8

\* The pager's log: all its bytes have numbers below UINT64_MAX.
PagerLog == LogOk /\ total_len <= MaxTotal

\* A page to draw: some of the log, not more than fits the screen.
GoodPage(a, n) ==
    LET old == fastboot_log_get_oldest_available_byte
    IN  /\ a \in 0 .. UINT64_MAX
        /\ n \in 0 .. SIZE_MAX
        /\ total_len = 0 => a = 0
        /\ total_len > 0 => /\ Available(a)
                            /\ n > 0
                            /\ MinOf(a + n, total_len)
                                 <= Past(newlines, total_len, a, lines_per_page)

\* The numbers of a log.
LEMMA PagerLogType ==
    ASSUME PagerLog
    PROVE  LET old == fastboot_log_get_oldest_available_byte
           IN  /\ LogOk /\ Inv /\ newlines \in SUBSET Nat
               /\ total_len \in Nat /\ old \in Nat /\ old <= total_len
               /\ total_len > 0 => Available(old) /\ Available(total_len - 1)
               /\ UINT64_MAX \in Nat /\ total_len < UINT64_MAX
               /\ SIZE_MAX = UINT64_MAX /\ lines_per_page \in Nat \ {0}
               /\ lines_per_page - 1 \in Nat
<1>1. LogOk /\ Inv /\ newlines \in SUBSET Nat /\ total_len <= MaxTotal
  BY DEF PagerLog, LogOk
<1>2. UINT64_MAX \in Nat /\ total_len < UINT64_MAX /\ SIZE_MAX = UINT64_MAX
  BY <1>1, OldestType DEF UINT64_MAX, SIZE_MAX
<1>3. QED
  BY <1>1, <1>2, OldestType, PagerAssumption DEF Available

\* The first page begins at the oldest byte and shows at least a page of lines.
LEMMA FirstPageIs ==
    ASSUME PagerLog
    PROVE  LET old == fastboot_log_get_oldest_available_byte
               pg  == ui_fb_log_set_first_page
           IN  /\ GoodPage(pg[1], pg[2])
               /\ pg[1] = old
               /\ Past(newlines, total_len, old, lines_per_page) <= old + pg[2]
<1> DEFINE old == fastboot_log_get_oldest_available_byte
           n == get_next_fastboot_log_page_len(old)
           pg == ui_fb_log_set_first_page
           P(k) == Past(newlines, total_len, old, k)
<1>0. /\ LogOk /\ Inv /\ newlines \in SUBSET Nat
      /\ total_len \in Nat /\ old \in Nat /\ old <= total_len
      /\ total_len > 0 => Available(old)
      /\ UINT64_MAX \in Nat /\ total_len < UINT64_MAX
      /\ SIZE_MAX = UINT64_MAX /\ lines_per_page \in Nat \ {0}
      /\ lines_per_page - 1 \in Nat
  BY PagerLogType
<1>1. pg[1] = old /\ pg[2] = IF n = 0 THEN SIZE_MAX ELSE n
  BY DEF ui_fb_log_set_first_page, Page
<1>2. \A k \in Nat : P(k) \in old .. total_len /\ (P(k) = total_len => P(k + 1) = total_len)
  BY <1>0, PastGoesOn
<1>3. PICK p \in Nat : p = P(lines_per_page) /\ old <= p /\ p <= total_len
  BY <1>0, <1>2
<1>4. CASE total_len = 0
  <2>1. ~Available(old) /\ old = 0
    BY <1>0, <1>4 DEF Available
  <2>2. n = 0
    BY <1>0, <2>1, NextPageNone
  <2>3. pg[2] = UINT64_MAX
    BY <1>0, <1>1, <2>2
  <2> HIDE DEF P, pg, old, n
  <2>4. GoodPage(pg[1], pg[2]) /\ p <= old + pg[2]
    BY <1>0, <1>1, <1>3, <1>4, <2>1, <2>3 DEF GoodPage
  <2>5. QED
    BY <1>1, <1>3, <2>4 DEF P, pg, old
<1>5. CASE total_len > 0
  <2>1. \/ n > 0 /\ n = p - old
        \/ n = 0 /\ P(lines_per_page - 1) = total_len
    BY <1>0, <1>3, <1>5, NextPageIs
  <2>2. CASE n > 0 /\ n = p - old
    <3>1. pg[2] = p - old
      BY <1>0, <1>1, <2>2
    <3>2. p - old \in 0 .. SIZE_MAX /\ p - old > 0 /\ MinOf(old + (p - old), total_len) <= p
      BY <1>0, <1>3, <2>2 DEF MinOf
    <3>3. GoodPage(old, p - old)
      BY <1>0, <1>3, <1>5, <3>2 DEF GoodPage
    <3>4. p <= old + (p - old)
      BY <1>0, <1>3
    <3> HIDE DEF P, pg, old, n
    <3>5. QED
      BY <1>1, <1>3, <3>1, <3>3, <3>4 DEF P, pg, old
  <2>3. CASE n = 0 /\ P(lines_per_page - 1) = total_len
    <3>1. (lines_per_page - 1) + 1 = lines_per_page
      BY <1>0
    <3>2. p = total_len
      BY <1>0, <1>2, <1>3, <2>3, <3>1
    <3>3. pg[2] = UINT64_MAX
      BY <1>0, <1>1, <2>3
    <3>4. UINT64_MAX > 0 /\ MinOf(old + UINT64_MAX, total_len) <= p /\ p <= old + UINT64_MAX
      BY <1>0, <1>3, <3>2 DEF MinOf
    <3>5. GoodPage(old, UINT64_MAX)
      BY <1>0, <1>3, <1>5, <3>4 DEF GoodPage
    <3> HIDE DEF P, pg, old, n
    <3>6. QED
      BY <1>1, <1>3, <3>3, <3>4, <3>5 DEF P, pg, old
  <2>4. QED
    BY <2>1, <2>2, <2>3
<1>6. QED
  BY <1>0, <1>4, <1>5

\* A page that lines_per_page lines back from end hold.
LEMMA PageBack ==
    ASSUME PagerLog, NEW end \in Nat, end <= total_len, NEW a \in Nat, Available(a), a < end,
           Front(newlines, fastboot_log_get_oldest_available_byte, end, lines_per_page) <= a
    PROVE  GoodPage(a, end - a)
<1>0. /\ newlines \in SUBSET Nat /\ total_len \in Nat
      /\ fastboot_log_get_oldest_available_byte \in Nat
      /\ UINT64_MAX \in Nat /\ total_len < UINT64_MAX
      /\ SIZE_MAX = UINT64_MAX /\ lines_per_page \in Nat \ {0}
  BY PagerLogType
<1>1. fastboot_log_get_oldest_available_byte <= end /\ a <= total_len
  BY <1>0 DEF Available
<1>2. end <= Past(newlines, total_len, a, lines_per_page)
  BY <1>0, <1>1, ForwardReaches
<1>3. a \in 0 .. UINT64_MAX /\ end - a \in 0 .. SIZE_MAX /\ end - a > 0 /\ total_len > 0
      /\ MinOf(a + (end - a), total_len) = end
  BY <1>0 DEF MinOf
<1>4. QED
  BY <1>0, <1>2, <1>3 DEF GoodPage

\* The last page ends with the log, and begins no later than one line less
\* than a page would.
LEMMA LastPageIs ==
    ASSUME PagerLog
    PROVE  LET old == fastboot_log_get_oldest_available_byte
               pg  == ui_fb_log_set_last_page
           IN  /\ GoodPage(pg[1], pg[2])
               /\ pg[1] + pg[2] = total_len
               /\ pg[1] <= Front(newlines, old, total_len, lines_per_page - 1)
<1> DEFINE old == fastboot_log_get_oldest_available_byte
           got == get_prev_fastboot_log_page_len(total_len)
           pg == ui_fb_log_set_last_page
           n == IF got = 0 THEN total_len - old ELSE got
           F(k) == Front(newlines, old, total_len, k)
<1>0. /\ LogOk /\ Inv /\ newlines \in SUBSET Nat
      /\ total_len \in Nat /\ old \in Nat /\ old <= total_len
      /\ total_len > 0 => Available(total_len - 1) /\ Available(old)
      /\ UINT64_MAX \in Nat /\ total_len < UINT64_MAX
      /\ SIZE_MAX = UINT64_MAX /\ lines_per_page \in Nat \ {0}
      /\ lines_per_page - 1 \in Nat
  BY PagerLogType
<1>1. pg[1] = total_len - n /\ pg[2] = n
  BY DEF ui_fb_log_set_last_page, Page
<1>2. PICK f \in Nat : f = F(lines_per_page - 1) /\ old <= f /\ f <= total_len
  BY <1>0, FrontGoesOn
<1> HIDE DEF pg, F
<1>3. CASE total_len = 0
  <2>1. Plus(0, UINT64_MAX) = UINT64_MAX /\ ~Available(UINT64_MAX)
    BY <1>0, PlusMax DEF Available
  <2>2. got = 0
    BY <1>0, <1>3, <2>1, PrevPageNone
  <2>3. n = 0 /\ old = 0
    BY <1>0, <1>3, <2>2
  <2>4. GoodPage(0, 0)
    BY <1>0, <1>3 DEF GoodPage
  <2> HIDE DEF n, old
  <2>5. pg[1] = 0 /\ pg[2] = 0
    BY <1>1, <1>3, <2>3
  <2>6. QED
    BY <1>2, <1>3, <2>4, <2>5 DEF pg, F, old
<1>4. CASE total_len > 0
  <2>1. total_len \in 1 .. UINT64_MAX
    BY <1>0, <1>4
  <2>2. \/ got = 0 /\ F(lines_per_page) = old
        \/ /\ got \in Nat \ {0}
           /\ F(lines_per_page) <= total_len - got
           /\ total_len - got < f
    BY <1>0, <1>2, <1>4, <2>1, PrevPageIs DEF F
  <2>3. /\ total_len - n \in Nat /\ n \in Nat \ {0} /\ F(lines_per_page) <= total_len - n
        /\ total_len - n <= f /\ total_len - n >= old
    <3>1. CASE got = 0 /\ F(lines_per_page) = old
      <4>1. old < total_len
        BY <1>0, <1>4 DEF Available
      <4>2. QED
        BY <1>0, <1>2, <3>1, <4>1
    <3>2. CASE /\ got \in Nat \ {0}
               /\ F(lines_per_page) <= total_len - got
               /\ total_len - got < f
      <4>1. F(lines_per_page) \in Nat /\ F(lines_per_page) >= old
        BY <1>0, FrontGoesOn DEF F
      <4>2. QED
        BY <1>0, <1>2, <3>2, <4>1
    <3>3. QED
      BY <2>2, <3>1, <3>2
  <2> HIDE DEF n
  <2>4. PICK a \in Nat : a = total_len - n /\ a < total_len /\ n = total_len - a
    BY <1>0, <2>3
  <2>5. Available(a)
    BY <1>0, <2>3, <2>4 DEF Available
  <2>6. GoodPage(a, total_len - a)
    BY <1>0, <2>3, <2>4, <2>5, PageBack DEF F
  <2>7. pg[1] = a /\ pg[2] = total_len - a /\ a + (total_len - a) = total_len /\ a <= f
    BY <1>0, <1>1, <2>3, <2>4
  <2>8. QED
    BY <1>2, <2>6, <2>7 DEF pg, F
<1>5. QED
  BY <1>0, <1>3, <1>4

\* The page after another: what follows it, or the last page when fewer lines do.
LEMMA NextPageKey ==
    ASSUME PagerLog, NEW pg, Plus(pg[1], pg[2]) \in Nat
    PROVE  LET s    == Plus(pg[1], pg[2])
               down == ui_fb_log_set_next_page(pg)
           IN  /\ GoodPage(down[1], down[2])
               /\ \/ down[1] = s /\ down[2] > 0
                  \/ /\ down = ui_fb_log_set_last_page
                     /\ Available(s) => Past(newlines, total_len, s, lines_per_page - 1) = total_len
<1> DEFINE s == Plus(pg[1], pg[2])
           n == get_next_fastboot_log_page_len(s)
           down == ui_fb_log_set_next_page(pg)
<1>0. /\ LogOk /\ Inv /\ newlines \in SUBSET Nat
      /\ total_len \in Nat
      /\ UINT64_MAX \in Nat /\ total_len < UINT64_MAX
      /\ SIZE_MAX = UINT64_MAX /\ lines_per_page \in Nat \ {0}
  BY PagerLogType
<1>1. down = IF n = 0 THEN ui_fb_log_set_last_page ELSE Page(s, n)
  BY DEF ui_fb_log_set_next_page
<1> HIDE DEF down, s
<1>2. s \in Nat
  BY DEF s
<1>3. CASE ~Available(s)
  <2>1. n = 0
    BY <1>0, <1>3, NextPageNone
  <2>2. QED
    BY <1>1, <1>3, <2>1, LastPageIs DEF down, s
<1>4. CASE Available(s)
  <2> DEFINE p == Past(newlines, total_len, s, lines_per_page)
  <2>1. \/ n > 0 /\ n = p - s
        \/ n = 0 /\ Past(newlines, total_len, s, lines_per_page - 1) = total_len
    BY <1>0, <1>2, <1>4, NextPageIs
  <2>2. CASE n = 0 /\ Past(newlines, total_len, s, lines_per_page - 1) = total_len
    BY <1>1, <2>2, LastPageIs DEF down, s
  <2>3. CASE n > 0 /\ n = p - s
    <3>1. s \in 0 .. total_len /\ s < total_len
      BY <1>0, <1>2, <1>4 DEF Available
    <3>2. p \in Nat /\ p <= total_len
      BY <1>0, <3>1, PastGoesOn
    <3>3. n \in 0 .. SIZE_MAX /\ n # 0 /\ MinOf(s + n, total_len) <= p /\ s \in 0 .. UINT64_MAX
          /\ total_len > 0
      BY <1>0, <2>3, <3>1, <3>2 DEF MinOf
    <3> HIDE DEF n
    <3>4. GoodPage(s, n)
      BY <1>4, <2>3, <3>3 DEF GoodPage
    <3>5. down[1] = s /\ down[2] = n
      BY <1>1, <3>3 DEF Page
    <3>6. QED
      BY <2>3, <3>4, <3>5 DEF down, s
  <2>4. QED
    BY <2>1, <2>2, <2>3
<1>5. QED
  BY <1>3, <1>4

\* The page before another: what leads up to it, or the first page when there
\* are not enough lines.
LEMMA PrevPageKey ==
    ASSUME PagerLog, NEW pg, pg[1] \in 0 .. UINT64_MAX
    PROVE  LET a   == pg[1]
               old == fastboot_log_get_oldest_available_byte
               up  == ui_fb_log_set_prev_page(pg)
           IN  /\ GoodPage(up[1], up[2])
               /\ \/ up[1] + up[2] = a /\ up[1] < a
                  \/ /\ up = ui_fb_log_set_first_page
                     /\ a > 0 /\ Available(a - 1) => Front(newlines, old, a, lines_per_page) = old
<1> DEFINE a == pg[1]
           old == fastboot_log_get_oldest_available_byte
           n == get_prev_fastboot_log_page_len(a)
           up == ui_fb_log_set_prev_page(pg)
<1>0. /\ LogOk /\ Inv /\ newlines \in SUBSET Nat
      /\ total_len \in Nat /\ old \in Nat
      /\ UINT64_MAX \in Nat /\ total_len < UINT64_MAX
      /\ lines_per_page \in Nat \ {0}
  BY PagerLogType
<1>1. up = IF n = 0 THEN ui_fb_log_set_first_page ELSE Page(a - n, n)
  BY DEF ui_fb_log_set_prev_page
<1> HIDE DEF up, a
<1>2. a \in Nat /\ a \in 0 .. UINT64_MAX
  BY <1>0 DEF a
<1>3. CASE ~ (a > 0 /\ Available(a - 1))
  <2>1. \E b : Plus(a, UINT64_MAX) = b /\ ~Available(b)
    <3>1. CASE a = 0
      <4>1. Plus(a, UINT64_MAX) = UINT64_MAX /\ ~Available(UINT64_MAX)
        BY <1>0, <1>2, <3>1, PlusMax DEF Available
      <4>2. QED
        BY <4>1
    <3>2. CASE a > 0
      <4>1. Plus(a, UINT64_MAX) = a - 1 /\ ~Available(a - 1)
        BY <1>2, <1>3, <3>2, PlusMax
      <4>2. QED
        BY <4>1
    <3>3. QED
      BY <1>2, <3>1, <3>2
  <2>2. n = 0
    BY <1>0, <2>1, PrevPageNone
  <2>3. QED
    BY <1>1, <1>3, <2>2, FirstPageIs DEF up, a
<1>4. CASE a > 0 /\ Available(a - 1)
  <2>1. a \in 1 .. UINT64_MAX /\ a <= total_len
    BY <1>0, <1>2, <1>4 DEF Available
  <2>2. \/ n = 0 /\ Front(newlines, old, a, lines_per_page) = old
        \/ /\ n \in Nat \ {0}
           /\ Front(newlines, old, a, lines_per_page) <= a - n
    BY <1>0, <1>4, <2>1, PrevPageIs
  <2>3. CASE n = 0 /\ Front(newlines, old, a, lines_per_page) = old
    BY <1>1, <2>3, FirstPageIs DEF up, a
  <2>4. CASE /\ n \in Nat \ {0}
             /\ Front(newlines, old, a, lines_per_page) <= a - n
    <3>1. old <= a
      BY <1>0, <1>2, <1>4 DEF Available
    <3>2. Front(newlines, old, a, lines_per_page) \in old .. a
      BY <1>0, <1>2, <3>1, FrontGoesOn
    <3> DEFINE b == a - n
    <3>3. b \in Nat /\ b < a /\ old <= b /\ n = a - b /\ b + n = a
      BY <1>0, <1>2, <2>4, <3>2
    <3> HIDE DEF b, n
    <3>4. Available(b) /\ Front(newlines, old, a, lines_per_page) <= b
      BY <1>0, <2>1, <2>4, <3>3 DEF Available, b
    <3>5. GoodPage(b, a - b)
      BY <1>2, <2>1, <3>3, <3>4, PageBack
    <3>6. up[1] = b /\ up[2] = a - b /\ b + (a - b) = a
      BY <1>1, <2>4, <3>3 DEF Page, b
    <3>7. QED
      BY <3>3, <3>5, <3>6 DEF up, a
  <2>5. QED
    BY <2>2, <2>3, <2>4
<1>5. QED
  BY <1>3, <1>4

-----------------------------------------------------------------------------
(* The screen.                                                              *)

\* What is on the screen since it was drawn: a part of the log as it was then,
\* which fits the screen however the log has grown.
ShownInv ==
    next_to_run \in {"poll", "update"} =>
        \/ seen_total = UINT64_MAX /\ anchor = UINT64_MAX /\ on_screen = 0
        \/ /\ seen_total <= total_len
           /\ anchor + on_screen <= seen_total
           /\ seen_total > 0 => on_screen > 0
           /\ seen_total = total_len => fastboot_log_get_oldest_available_byte <= anchor
           /\ Available(anchor) =>
                 anchor + on_screen <= Past(newlines, total_len, anchor, lines_per_page)

\* What is about to be drawn.
DrawInv ==
    next_to_run = "draw" => seen_total = total_len /\ GoodPage(anchor, on_screen)

NumInv == total_len <= MaxTotal /\ newlines \subseteq 0 .. total_len - 1

PagerInv == Inv /\ NumInv /\ PagerTypeOK /\ ShownInv /\ DrawInv

\* Types of the invariant.
LEMMA PagerInvType ==
    ASSUME PagerInv
    PROVE  /\ PagerLog
           /\ anchor \in Nat /\ on_screen \in Nat /\ seen_total \in Nat
           /\ anchor <= UINT64_MAX /\ on_screen <= UINT64_MAX
           /\ newlines \in SUBSET Nat
<1>1. UINT64_MAX \in Nat /\ SIZE_MAX = UINT64_MAX
  BY DEF UINT64_MAX, SIZE_MAX
<1>2. total_len \in Nat
  BY DEF PagerInv, Inv, TypeOK
<1>3. QED
  BY <1>1, <1>2 DEF PagerInv, NumInv, PagerTypeOK, PagerLog, LogOk

\* The page is one to draw once fastboot_action has looked at the log.
LEMMA UpdatedGood ==
    ASSUME PagerInv, next_to_run = "update"
    PROVE  GoodPage(Updated[1], Updated[2])
<1> DEFINE old == fastboot_log_get_oldest_available_byte
<1>0. /\ PagerLog /\ anchor \in Nat /\ on_screen \in Nat /\ seen_total \in Nat
      /\ anchor <= UINT64_MAX /\ on_screen <= UINT64_MAX
  BY PagerInvType
<1>1. /\ total_len \in Nat /\ old \in Nat /\ total_len < UINT64_MAX /\ UINT64_MAX \in Nat
      /\ SIZE_MAX = UINT64_MAX
  BY <1>0, PagerLogType
<1>2. \/ seen_total = UINT64_MAX /\ anchor = UINT64_MAX /\ on_screen = 0
      \/ /\ seen_total <= total_len
         /\ anchor + on_screen <= seen_total
         /\ seen_total > 0 => on_screen > 0
         /\ seen_total = total_len => old <= anchor
         /\ Available(anchor) =>
               anchor + on_screen <= Past(newlines, total_len, anchor, lines_per_page)
  BY DEF PagerInv, ShownInv
<1>3. Plus(anchor, on_screen) = anchor + on_screen
  <2>1. anchor + on_screen \in 0 .. UINT64_MAX
    BY <1>0, <1>1, <1>2
  <2>2. \A M \in Nat : \A x \in 0 .. M : x % (M + 1) = x
    OBVIOUS
  <2>3. QED
    BY <1>1, <2>1, <2>2 DEF Plus
<1>4. page[1] = anchor /\ page[2] = on_screen
  BY DEF page
<1>5. CASE Updated = ui_fb_log_set_first_page
  BY <1>0, <1>5, FirstPageIs
<1>6. CASE Updated = ui_fb_log_set_last_page
  BY <1>0, <1>6, LastPageIs
<1>7. CASE Updated = page /\ (seen_total = total_len
                              \/ (old <= anchor /\ seen_total # anchor + on_screen))
  <2>1. seen_total # UINT64_MAX
    BY <1>0, <1>1, <1>2, <1>7
  <2>2. old <= anchor
    BY <1>2, <1>7, <2>1
  <2>3. CASE total_len = 0
    <3>1. anchor = 0 /\ on_screen = 0
      BY <1>0, <1>1, <1>2, <2>1, <2>3
    <3>2. GoodPage(anchor, on_screen)
      BY <1>1, <2>3, <3>1 DEF GoodPage
    <3>3. QED
      BY <1>4, <1>7, <3>2
  <2>4. CASE total_len > 0
    <3>1. seen_total > 0
      BY <1>0, <1>1, <1>2, <1>7, <2>1, <2>4
    <3>2. on_screen > 0 /\ anchor < total_len /\ anchor + on_screen <= total_len
      BY <1>0, <1>1, <1>2, <2>1, <3>1
    <3>3. Available(anchor)
      BY <2>2, <3>2 DEF Available
    <3>4. MinOf(anchor + on_screen, total_len) = anchor + on_screen
      BY <1>0, <1>1, <3>2 DEF MinOf
    <3>5. anchor + on_screen <= Past(newlines, total_len, anchor, lines_per_page)
      BY <1>2, <2>1, <3>3
    <3>6. anchor \in 0 .. UINT64_MAX /\ on_screen \in 0 .. SIZE_MAX
      BY <1>0, <1>1
    <3>7. GoodPage(anchor, on_screen)
      BY <2>4, <3>2, <3>3, <3>4, <3>5, <3>6 DEF GoodPage
    <3>8. QED
      BY <1>4, <1>7, <3>7
  <2>5. QED
    BY <1>1, <2>3, <2>4
<1>8. QED
  BY <1>0, <1>1, <1>3, <1>5, <1>6, <1>7 DEF Updated

\* And after any key.
LEMMA PressedGood ==
    ASSUME PagerInv, next_to_run = "update", NEW key \in Keys
    PROVE  GoodPage(Pressed(key, Updated)[1], Pressed(key, Updated)[2])
<1> DEFINE pg == Updated
<1>0. PagerLog
  BY PagerInvType
<1>1. GoodPage(pg[1], pg[2])
  BY UpdatedGood
<1>2. UINT64_MAX \in Nat /\ SIZE_MAX = UINT64_MAX
  BY <1>0, PagerLogType
<1> HIDE DEF pg
<1>3. pg[1] \in 0 .. UINT64_MAX /\ pg[2] \in 0 .. SIZE_MAX
  BY <1>1 DEF GoodPage
<1>4. Plus(pg[1], pg[2]) \in Nat
  BY <1>2, <1>3 DEF Plus
<1>5. /\ GoodPage(ui_fb_log_set_next_page(pg)[1], ui_fb_log_set_next_page(pg)[2])
      /\ GoodPage(ui_fb_log_set_prev_page(pg)[1], ui_fb_log_set_prev_page(pg)[2])
      /\ GoodPage(ui_fb_log_set_first_page[1], ui_fb_log_set_first_page[2])
      /\ GoodPage(ui_fb_log_set_last_page[1], ui_fb_log_set_last_page[2])
  BY <1>0, <1>3, <1>4, NextPageKey, PrevPageKey, FirstPageIs, LastPageIs
<1>6. \/ Pressed(key, pg) = pg
      \/ Pressed(key, pg) = ui_fb_log_set_next_page(pg)
      \/ Pressed(key, pg) = ui_fb_log_set_prev_page(pg)
      \/ Pressed(key, pg) = ui_fb_log_set_first_page
      \/ Pressed(key, pg) = ui_fb_log_set_last_page
  BY DEF Keys, Pressed
<1>7. QED
  BY <1>1, <1>5, <1>6 DEF pg

\* The rest of fastboot_action, whatever key was pressed.
LEMMA UpdateKeeps ==
    ASSUME PagerInv, NEW key \in Keys, Update(key)
    PROVE  PagerInv'
<1>1. /\ next_to_run = "update" /\ next_to_run' = "draw" /\ seen_total' = total_len
      /\ anchor' = Pressed(key, Updated)[1] /\ on_screen' = Pressed(key, Updated)[2]
      /\ buf' = buf /\ idx' = idx /\ total_len' = total_len /\ active' = active
      /\ newlines' = newlines
  BY DEF Update, logVars, log
<1>2. GoodPage(anchor', on_screen')
  BY <1>1, PressedGood
<1>3. GoodPage(anchor, on_screen)'
  BY <1>1, <1>2 DEF GoodPage, Available, fastboot_log_get_oldest_available_byte
<1>4. Inv' /\ NumInv'
  BY <1>1 DEF PagerInv, NumInv, Inv, TypeOK, RingInv
<1>5. PagerTypeOK'
  <2>1. anchor' \in 0 .. UINT64_MAX /\ on_screen' \in 0 .. SIZE_MAX
    BY <1>2 DEF GoodPage
  <2>2. total_len \in 0 .. UINT64_MAX
    BY PagerInvType, PagerLogType
  <2>3. QED
    BY <1>1, <2>1, <2>2 DEF PagerInv, PagerTypeOK
<1>6. ShownInv' /\ DrawInv'
  BY <1>1, <1>3 DEF ShownInv, DrawInv
<1>7. QED
  BY <1>4, <1>5, <1>6 DEF PagerInv

\* draw_fastboot_log, which shows what the log still has of the page.
LEMMA DrawKeeps ==
    ASSUME PagerInv, draw_fastboot_log
    PROVE  PagerInv'
<1> DEFINE b == fastboot_log_get_buf(anchor, on_screen)
           old == fastboot_log_get_oldest_available_byte
<1>0. /\ PagerLog /\ anchor \in Nat /\ on_screen \in Nat /\ seen_total \in Nat
      /\ newlines \in SUBSET Nat
  BY PagerInvType
<1>1. /\ total_len \in Nat /\ old \in Nat /\ total_len < UINT64_MAX /\ UINT64_MAX \in Nat
      /\ SIZE_MAX = UINT64_MAX /\ Inv /\ old <= total_len
  BY <1>0, PagerLogType
<1>2. /\ next_to_run = "draw" /\ next_to_run' = "poll" /\ seen_total' = seen_total
      /\ anchor' = anchor /\ on_screen' = IF b = NULL THEN 0 ELSE Len(b)
      /\ buf' = buf /\ idx' = idx /\ total_len' = total_len /\ active' = active
      /\ newlines' = newlines
  BY DEF draw_fastboot_log, logVars, log
<1>3. seen_total = total_len /\ GoodPage(anchor, on_screen)
  BY <1>2 DEF PagerInv, DrawInv
<1>4. CASE total_len = 0
  <2>1. anchor = 0 /\ ~Available(anchor)
    BY <1>3, <1>4 DEF GoodPage, Available
  <2>2. on_screen' = 0
    BY <1>2, <2>1 DEF fastboot_log_get_buf
  <2>3. old <= anchor /\ 0 <= total_len
    BY <1>1, <1>4, <2>1
  <2>4. ShownInv'
    BY <1>1, <1>2, <1>3, <1>4, <2>1, <2>2, <2>3
       DEF ShownInv, Available, fastboot_log_get_oldest_available_byte
  <2>5. on_screen' \in 0 .. SIZE_MAX
    BY <1>1, <2>2
  <2>6. QED
    BY <1>2, <2>4, <2>5
       DEF PagerInv, DrawInv, NumInv, PagerTypeOK, Inv, TypeOK, RingInv
<1>5. CASE total_len > 0
  <2> DEFINE n == MinOf(on_screen, total_len - anchor)
  <2>1. /\ Available(anchor) /\ on_screen > 0
        /\ MinOf(anchor + on_screen, total_len) <= Past(newlines, total_len, anchor, lines_per_page)
    BY <1>3, <1>5 DEF GoodPage
  <2>2. anchor < total_len /\ old <= anchor
    BY <2>1 DEF Available
  <2>3. n \in Nat \ {0} /\ anchor + n = MinOf(anchor + on_screen, total_len)
        /\ anchor + n <= total_len /\ n <= total_len
    BY <1>0, <1>1, <2>1, <2>2 DEF MinOf
  <2>4. b = [i \in 1 .. n |-> anchor + i - 1]
    BY <1>0, <1>1, <2>1, BufTail
  <2> HIDE DEF n
  <2>5. Len(b) = n /\ b[1] = anchor
    BY <1>0, <2>3, <2>4
  <2>6. NULL[1] = -2
    BY DEF NULL
  <2>7. b # NULL
    BY <1>0, <2>5, <2>6
  <2>8. on_screen' = n
    BY <1>2, <2>5, <2>7
  <2>9. anchor + n <= Past(newlines, total_len, anchor, lines_per_page)
    BY <2>1, <2>3
  <2>10. ShownInv'
    BY <1>0, <1>1, <1>2, <1>3, <2>2, <2>3, <2>8, <2>9
       DEF ShownInv, Available, fastboot_log_get_oldest_available_byte
  <2>11. on_screen' \in 0 .. SIZE_MAX
    BY <1>1, <2>3, <2>8
  <2>12. QED
    BY <1>2, <2>10, <2>11
       DEF PagerInv, DrawInv, NumInv, PagerTypeOK, Inv, TypeOK, RingInv
<1>6. QED
  BY <1>1, <1>4, <1>5

\* Bytes logged during the poll, which may overwrite the page on the screen.
LEMMA LogKeeps ==
    ASSUME PagerInv, Log
    PROVE  PagerInv'
<1> DEFINE old == fastboot_log_get_oldest_available_byte
<1>0. /\ PagerLog /\ anchor \in Nat /\ on_screen \in Nat /\ seen_total \in Nat
      /\ newlines \in SUBSET Nat
  BY PagerInvType
<1>1. /\ total_len \in Nat /\ old \in Nat /\ total_len < UINT64_MAX /\ UINT64_MAX \in Nat
      /\ lines_per_page \in Nat
  BY <1>0, PagerLogType
<1>2. /\ next_to_run = "poll" /\ next_to_run' = "poll" /\ seen_total' = seen_total
      /\ anchor' = anchor /\ on_screen' = on_screen
  BY DEF Log, page
<1>3. PICK count \in Counts : total_len + count <= MaxTotal /\ fastboot_logger_write(count)
  BY DEF Log, Write
<1>4. count \in Nat /\ total_len' = total_len + count
  BY <1>3 DEF fastboot_logger_write
<1>5. PICK tot \in Nat : tot = total_len' /\ total_len <= tot /\ tot <= MaxTotal
  BY <1>1, <1>3, <1>4
<1>6. Inv'
  BY <1>3, <1>4, WriteStep DEF PagerInv
<1>7. PICK nl \in SUBSET (total_len .. tot - 1) : newlines' = newlines \cup nl
  BY <1>5 DEF Log
<1>8. newlines \subseteq 0 .. total_len - 1
  BY DEF PagerInv, NumInv
<1>9. ASSUME NEW x \in newlines'
      PROVE  x \in Nat /\ x < tot /\ (x \in newlines \/ total_len <= x)
  <2>1. CASE x \in newlines
    <3>1. x \in 0 .. total_len - 1
      BY <1>8, <2>1
    <3>2. QED
      BY <1>1, <1>5, <2>1, <3>1
  <2>2. CASE x \in nl
    <3>1. x \in total_len .. tot - 1
      BY <1>7, <2>2
    <3>2. \A k, n \in Nat : \A y \in k .. n - 1 : y \in Nat /\ k <= y /\ y < n
      OBVIOUS
    <3>3. total_len \in Nat
      BY <1>1
    <3>4. QED
      BY <3>1, <3>2, <3>3
  <2>3. QED
    BY <1>7, <2>1, <2>2
<1>10. /\ newlines' \in SUBSET Nat /\ newlines' \subseteq 0 .. MaxTotal - 1
       /\ newlines' \subseteq 0 .. tot - 1
  BY <1>5, <1>9
<1>11. \A x \in 0 .. total_len - 1 : x \in newlines <=> x \in newlines'
  <2>1. SUFFICES ASSUME NEW x \in 0 .. total_len - 1 PROVE x \in newlines <=> x \in newlines'
    OBVIOUS
  <2>2. x \in newlines => x \in newlines'
    BY <1>7
  <2>3. ~ (total_len <= x)
    BY <1>1
  <2>4. x \in newlines' => x \in newlines
    BY <1>9, <2>3
  <2>5. QED
    BY <2>2, <2>4
<1>12. ShownInv'
  <2>1. CASE seen_total = UINT64_MAX /\ anchor = UINT64_MAX /\ on_screen = 0
    BY <1>2, <2>1 DEF ShownInv, UINT64_MAX
  <2>2. CASE /\ seen_total <= total_len
             /\ anchor + on_screen <= seen_total
             /\ seen_total > 0 => on_screen > 0
             /\ seen_total = total_len => old <= anchor
             /\ Available(anchor) =>
                   anchor + on_screen <= Past(newlines, total_len, anchor, lines_per_page)
    <3>1. seen_total <= tot
      BY <1>0, <1>1, <1>5, <2>2
    <3>2. seen_total = tot => old' <= anchor
      <4>1. SUFFICES ASSUME seen_total = tot PROVE old' <= anchor
        OBVIOUS
      <4>2. tot = total_len
        BY <1>0, <1>1, <1>5, <2>2, <4>1
      <4>3. QED
        BY <1>5, <2>2, <4>1, <4>2 DEF fastboot_log_get_oldest_available_byte
    <3>3. ASSUME Available(anchor)'
          PROVE  anchor + on_screen <= Past(newlines', tot, anchor, lines_per_page)
      <4>1. anchor < tot /\ old' <= anchor
        BY <1>2, <1>5, <3>3 DEF Available
      <4>2. old <= old' /\ old' \in Nat
        <5>1. old = IF total_len < SIZE THEN 0 ELSE total_len - SIZE
          BY DEF fastboot_log_get_oldest_available_byte
        <5>2. old' = IF tot < SIZE THEN 0 ELSE tot - SIZE
          BY <1>5 DEF fastboot_log_get_oldest_available_byte
        <5>3. SIZE \in Nat
          OBVIOUS
        <5>4. \A z, k, n \in Nat :
                 k <= n => LET f(y) == IF y < z THEN 0 ELSE y - z
                           IN  f(k) <= f(n) /\ f(n) \in Nat
          OBVIOUS
        <5>5. total_len \in Nat /\ total_len <= tot
          BY <1>1, <1>5
        <5> HIDE DEF old
        <5>6. QED
          BY <5>1, <5>2, <5>3, <5>4, <5>5
      <4>3. old <= anchor
        BY <1>0, <1>1, <4>1, <4>2
      <4>4. CASE seen_total = 0
        <5>1. anchor = 0 /\ on_screen = 0
          BY <1>0, <2>2, <4>4
        <5>2. anchor \in 0 .. tot
          BY <1>5, <5>1
        <5>3. Past(newlines', tot, anchor, lines_per_page) \in anchor .. tot
          BY <1>1, <1>5, <1>10, <5>2, PastGoesOn
        <5>4. QED
          BY <1>5, <5>1, <5>3
      <4>5. CASE seen_total > 0
        <5>1. anchor < total_len /\ anchor \in 0 .. total_len
          BY <1>0, <1>1, <2>2, <4>5
        <5>2. Available(anchor)
          BY <4>3, <5>1 DEF Available
        <5>3. Past(newlines, total_len, anchor, lines_per_page) <=
              Past(newlines', tot, anchor, lines_per_page)
          BY <1>0, <1>1, <1>5, <1>10, <1>11, <5>1, PastGrows
        <5>4. /\ Past(newlines, total_len, anchor, lines_per_page) \in Nat
              /\ Past(newlines', tot, anchor, lines_per_page) \in Nat
          BY <1>0, <1>1, <1>5, <1>10, PastStep
        <5>5. QED
          BY <1>0, <2>2, <5>2, <5>3, <5>4
      <4>6. QED
        BY <1>0, <4>4, <4>5
    <3> HIDE DEF old
    <3>4. QED
      BY <1>2, <1>5, <2>2, <3>1, <3>2, <3>3 DEF ShownInv, old
  <2>3. QED
    BY <1>2, <2>1, <2>2 DEF PagerInv, ShownInv
<1>13. QED
  BY <1>2, <1>5, <1>6, <1>10, <1>12
     DEF PagerInv, DrawInv, NumInv, PagerTypeOK, UINT64_MAX, SIZE_MAX

\* A callback, the end of the poll, a new session, and a stutter.
LEMMA OthersKeep ==
    ASSUME PagerInv, Callback \/ PollReturns \/ Reconnect \/ UNCHANGED pagerVars
    PROVE  PagerInv'
<1>1. CASE Reconnect
  <2>1. /\ next_to_run = "poll" /\ next_to_run' = "poll" /\ seen_total' = UINT64_MAX
        /\ anchor' = UINT64_MAX /\ on_screen' = 0 /\ newlines' = {}
        /\ total_len' = 0 /\ Reopen
    BY <1>1 DEF Reconnect, Reopen
  <2>2. Inv'
    BY <2>1, InvStep DEF PagerInv, Next
  <2>3. UINT64_MAX' = UINT64_MAX /\ UINT64_MAX \in Nat /\ SIZE_MAX = UINT64_MAX
        /\ SIZE_MAX' = UINT64_MAX
    BY DEF UINT64_MAX, SIZE_MAX
  <2>4. PagerTypeOK'
    BY <2>1, <2>3 DEF PagerTypeOK
  <2>5. NumInv' /\ ShownInv' /\ DrawInv'
    BY <2>1, <2>3 DEF NumInv, ShownInv, DrawInv
  <2>6. QED
    BY <2>2, <2>4, <2>5 DEF PagerInv
<1>2. CASE Callback \/ PollReturns \/ UNCHANGED pagerVars
  <2>1. /\ seen_total' = seen_total /\ anchor' = anchor /\ on_screen' = on_screen
        /\ newlines' = newlines /\ buf' = buf /\ idx' = idx /\ total_len' = total_len
    BY <1>2 DEF Callback, PollReturns, pagerVars, page, logVars, log, fastboot_log_set_active
  <2>2. active' \in BOOLEAN
    <3>1. active \in BOOLEAN
      BY DEF PagerInv, Inv, TypeOK
    <3>2. active' = ~active \/ active' = active
      BY <1>2 DEF Callback, PollReturns, pagerVars, logVars, fastboot_log_set_active
    <3>3. QED
      BY <3>1, <3>2
  <2>3. \/ next_to_run' = next_to_run
        \/ next_to_run = "poll" /\ next_to_run' = "update"
    BY <1>2 DEF Callback, PollReturns, pagerVars
  <2>4. Inv' /\ NumInv'
    BY <2>1, <2>2 DEF PagerInv, NumInv, Inv, TypeOK, RingInv
  <2>5. PagerTypeOK'
    BY <2>1, <2>3 DEF PagerInv, PagerTypeOK, UINT64_MAX, SIZE_MAX
  <2>6. ShownInv'
    BY <2>1, <2>3
       DEF PagerInv, PagerTypeOK, ShownInv, Available, fastboot_log_get_oldest_available_byte,
           UINT64_MAX
  <2>7. DrawInv'
    BY <2>1, <2>3
       DEF PagerInv, DrawInv, GoodPage, Available, fastboot_log_get_oldest_available_byte,
           UINT64_MAX, SIZE_MAX
  <2>8. QED
    BY <2>4, <2>5, <2>6, <2>7 DEF PagerInv
<1>3. QED
  BY <1>1, <1>2

\* Every step keeps the invariant.
LEMMA PagerNextKeeps == PagerInv /\ [PagerNext]_pagerVars => PagerInv'
<1> SUFFICES ASSUME PagerInv, [PagerNext]_pagerVars PROVE PagerInv'
  OBVIOUS
<1>1. CASE Log
  BY <1>1, LogKeeps
<1>2. ASSUME NEW key \in Keys, Update(key) PROVE PagerInv'
  BY <1>2, UpdateKeeps
<1>3. CASE draw_fastboot_log
  BY <1>3, DrawKeeps
<1>4. CASE Callback \/ PollReturns \/ Reconnect \/ UNCHANGED pagerVars
  BY <1>4, OthersKeep
<1>5. QED
  BY <1>1, <1>2, <1>3, <1>4 DEF PagerNext

\* ui_fb_log_init starts with no page.
LEMMA PagerInitKeeps == PagerInit => PagerInv
<1> SUFFICES ASSUME PagerInit PROVE PagerInv
  OBVIOUS
<1>1. Init /\ newlines = {} /\ anchor = UINT64_MAX /\ on_screen = 0 /\ seen_total = UINT64_MAX
      /\ next_to_run = "poll"
  BY DEF PagerInit
<1>2. Inv
  BY <1>1, InvInit
<1>3. total_len = 0
  BY <1>1 DEF Init
<1>4. UINT64_MAX \in Nat /\ SIZE_MAX = UINT64_MAX
  BY DEF UINT64_MAX, SIZE_MAX
<1>5. PagerTypeOK
  BY <1>1, <1>4 DEF PagerTypeOK
<1>6. QED
  BY <1>1, <1>2, <1>3, <1>5 DEF PagerInv, NumInv, ShownInv, DrawInv

\* The pager's invariant, for every ring, screen size and text.
THEOREM PagerInvariant == PagerSpec => []PagerInv
  BY PagerInitKeeps, PagerNextKeeps, PTL DEF PagerSpec

\* A page that is drawn fits the screen, and is in the log.
LEMMA PagerInvShows == PagerInv => PageShown
<1> SUFFICES ASSUME PagerInv PROVE PageShown
  OBVIOUS
<1> DEFINE old == fastboot_log_get_oldest_available_byte
<1>0. /\ PagerLog /\ anchor \in Nat /\ on_screen \in Nat /\ seen_total \in Nat
      /\ newlines \in SUBSET Nat
  BY PagerInvType
<1>1. /\ total_len \in Nat /\ old \in Nat /\ total_len < UINT64_MAX /\ UINT64_MAX \in Nat
      /\ LogOk /\ Inv /\ lines_per_page \in Nat
  BY <1>0, PagerLogType
<1>2. next_to_run = "poll" =>
        \/ seen_total = UINT64_MAX /\ anchor = UINT64_MAX /\ on_screen = 0
        \/ /\ seen_total <= total_len
           /\ anchor + on_screen <= seen_total
           /\ seen_total > 0 => on_screen > 0
           /\ seen_total = total_len => old <= anchor
           /\ Available(anchor) =>
                 anchor + on_screen <= Past(newlines, total_len, anchor, lines_per_page)
  BY DEF PagerInv, ShownInv
<1>3. PageInLog
  BY <1>0, <1>1, <1>2 DEF PageInLog
<1>4. PageFits
  <2>1. SUFFICES ASSUME next_to_run = "poll", Available(anchor)
                 PROVE  LET below == Rounds(LineStep, fastboot_log_get_iter(anchor), lines_per_page)
                        IN  \/ below = UINT64_MAX
                            \/ fastboot_log_get_byte_at_iter(below) >= anchor + on_screen
    BY DEF PageFits
  <2>2. anchor < total_len /\ anchor \in 0 .. total_len /\ old <= anchor
    BY <1>0, <1>1, <2>1 DEF Available
  <2>3. PICK p \in Nat : p = Past(newlines, total_len, anchor, lines_per_page)
                         /\ anchor <= p /\ p <= total_len
    BY <1>0, <1>1, <2>2, PastGoesOn
  <2>4. anchor + on_screen <= p
    BY <1>0, <1>1, <1>2, <2>1, <2>2, <2>3
  <2>5. Rounds(LineStep, fastboot_log_get_iter(anchor), lines_per_page) = fastboot_log_get_iter(p)
    BY <1>0, <1>1, <2>1, <2>3, LineStepIs
  <2>6. CASE p = total_len
    BY <1>1, <2>5, <2>6, OldestType
  <2>7. CASE p # total_len
    <3>1. Available(p)
      BY <1>0, <1>1, <2>2, <2>3, <2>7 DEF Available
    <3>2. buf[fastboot_log_get_iter(p)] = p
      BY <1>1, <2>3, <3>1, IterWalk
    <3>3. QED
      BY <1>0, <2>3, <2>4, <2>5, <3>2 DEF fastboot_log_get_byte_at_iter
  <2>8. QED
    BY <2>6, <2>7
<1>5. QED
  BY <1>3, <1>4 DEF PageShown, PagerInv

\* A line found going forward has as many characters as it covers.
LEMMA PagerInvNextLine == PagerInv => NextLineLength
<1> SUFFICES ASSUME PagerInv, NEW b \in 0 .. total_len - 1, Available(b)
             PROVE  LET line == get_next_fastboot_log_line(fastboot_log_get_iter(b))
                    IN  line.len = (IF line.iter = UINT64_MAX THEN total_len
                                    ELSE fastboot_log_get_byte_at_iter(line.iter)) - b
  BY DEF NextLineLength
<1> DEFINE line == get_next_fastboot_log_line(fastboot_log_get_iter(b))
<1>0. PagerLog
  BY PagerInvType
<1>1. /\ total_len \in Nat /\ LogOk /\ Inv /\ newlines \in SUBSET Nat /\ b \in Nat
      /\ fastboot_log_get_oldest_available_byte <= b
  BY <1>0, PagerLogType DEF Available
<1>2. PICK e \in Nat : /\ LineEnd(newlines, total_len, b, e)
                       /\ line = Line(e - b, fastboot_log_get_iter(e))
  BY <1>1, NextLineIs
<1>3. b < e /\ e <= total_len
  BY <1>2 DEF LineEnd, Chunk
<1>4. line.len = e - b /\ line.iter = fastboot_log_get_iter(e)
  BY <1>2 DEF Line
<1> HIDE DEF line
<1>5. CASE e = total_len
  <2>1. line.iter = UINT64_MAX
    BY <1>1, <1>4, <1>5, OldestType
  <2>2. QED
    BY <1>4, <1>5, <2>1 DEF line
<1>6. CASE e # total_len
  <2>1. Available(e)
    BY <1>1, <1>3, <1>6, OldestType DEF Available
  <2>2. line.iter # UINT64_MAX /\ buf[line.iter] = e
    BY <1>1, <1>4, <2>1, IterWalk
  <2>3. QED
    BY <1>4, <2>2 DEF line, fastboot_log_get_byte_at_iter
<1>7. QED
  BY <1>5, <1>6

\* The down key skips no byte and gets on.
LEMMA PagerInvDown == PagerInv => DownReadsOn
<1> SUFFICES ASSUME PagerInv, Settled, total_len > 0
             PROVE  LET down == ui_fb_log_set_next_page(page)
                    IN  /\ down[1] <= anchor + on_screen
                        /\ anchor + on_screen < total_len => down[1] + down[2] > anchor + on_screen
  BY DEF DownReadsOn
<1> DEFINE old == fastboot_log_get_oldest_available_byte
           down == ui_fb_log_set_next_page(page)
           last == ui_fb_log_set_last_page
<1>0. /\ PagerLog /\ anchor \in Nat /\ on_screen \in Nat /\ seen_total \in Nat
      /\ newlines \in SUBSET Nat
  BY PagerInvType
<1>1. /\ total_len \in Nat /\ old \in Nat /\ total_len < UINT64_MAX /\ UINT64_MAX \in Nat
      /\ lines_per_page - 1 \in Nat /\ SIZE_MAX = UINT64_MAX
  BY <1>0, PagerLogType
<1>2. next_to_run = "update" /\ seen_total = total_len
  BY DEF Settled
<1>3. anchor + on_screen <= total_len /\ old <= anchor
  BY <1>0, <1>1, <1>2 DEF PagerInv, ShownInv
<1>4. PICK s \in Nat : s = anchor + on_screen
  BY <1>0
<1>5. Plus(page[1], page[2]) = s
  <2>1. page[1] = anchor /\ page[2] = on_screen
    BY DEF page
  <2>2. \A M \in Nat : \A x \in 0 .. M : x % (M + 1) = x
    OBVIOUS
  <2>3. s \in 0 .. UINT64_MAX
    BY <1>1, <1>3, <1>4
  <2>4. QED
    BY <1>1, <1>4, <2>1, <2>2, <2>3 DEF Plus
<1>6. /\ GoodPage(down[1], down[2])
      /\ \/ down[1] = s /\ down[2] > 0
         \/ /\ down = last
            /\ Available(s) => Past(newlines, total_len, s, lines_per_page - 1) = total_len
  BY <1>0, <1>4, <1>5, NextPageKey
<1> HIDE DEF down
<1>7. down[1] \in Nat /\ down[2] \in Nat
  BY <1>1, <1>6 DEF GoodPage
<1> SUFFICES down[1] <= s /\ (s < total_len => down[1] + down[2] > s)
  BY <1>4 DEF down
<1>8. CASE down[1] = s /\ down[2] > 0
  BY <1>7, <1>8
<1>9. CASE /\ down = last
           /\ Available(s) => Past(newlines, total_len, s, lines_per_page - 1) = total_len
  <2>1. /\ down[1] + down[2] = total_len
        /\ down[1] <= Front(newlines, old, total_len, lines_per_page - 1)
    BY <1>0, <1>9, LastPageIs
  <2>2. s <= total_len /\ old <= s
    BY <1>0, <1>1, <1>3, <1>4
  <2>3. CASE s = total_len
    BY <1>1, <1>7, <2>1, <2>3
  <2>4. CASE s < total_len
    <3>1. Available(s)
      BY <2>2, <2>4 DEF Available
    <3>2. Past(newlines, total_len, s, lines_per_page - 1) = total_len
      BY <1>9, <3>1
    <3>3. Front(newlines, old, total_len, lines_per_page - 1) <= s
      BY <1>0, <1>1, <2>2, <3>2, BackwardReaches
    <3>4. Front(newlines, old, total_len, lines_per_page - 1) \in Nat
      BY <1>0, <1>1, FrontStep
    <3>5. QED
      BY <1>7, <2>1, <2>4, <3>3, <3>4
  <2>5. QED
    BY <1>1, <2>2, <2>3, <2>4
<1>10. QED
  BY <1>6, <1>8, <1>9

\* The up key skips no byte and gets on.
LEMMA PagerInvUp == PagerInv => UpReadsBack
<1> SUFFICES ASSUME PagerInv, Settled, total_len > 0
             PROVE  LET up == ui_fb_log_set_prev_page(page)
                    IN  /\ up[1] + up[2] >= anchor
                        /\ anchor > fastboot_log_get_oldest_available_byte => up[1] < anchor
  BY DEF UpReadsBack
<1> DEFINE old == fastboot_log_get_oldest_available_byte
           up == ui_fb_log_set_prev_page(page)
           first == ui_fb_log_set_first_page
<1>0. /\ PagerLog /\ anchor \in Nat /\ on_screen \in Nat /\ seen_total \in Nat
      /\ newlines \in SUBSET Nat /\ anchor <= UINT64_MAX
  BY PagerInvType
<1>1. /\ total_len \in Nat /\ old \in Nat /\ total_len < UINT64_MAX /\ UINT64_MAX \in Nat
      /\ lines_per_page \in Nat /\ SIZE_MAX = UINT64_MAX /\ old <= total_len
  BY <1>0, PagerLogType
<1>2. next_to_run = "update" /\ seen_total = total_len
  BY DEF Settled
<1>3. anchor + on_screen <= total_len /\ old <= anchor /\ on_screen > 0
  BY <1>0, <1>1, <1>2 DEF PagerInv, ShownInv
<1>4. page[1] = anchor /\ anchor \in 0 .. UINT64_MAX
  BY <1>0, <1>1 DEF page
<1>5. /\ GoodPage(up[1], up[2])
      /\ \/ up[1] + up[2] = anchor /\ up[1] < anchor
         \/ /\ up = first
            /\ anchor > 0 /\ Available(anchor - 1) =>
                  Front(newlines, old, anchor, lines_per_page) = old
  BY <1>0, <1>4, PrevPageKey
<1> HIDE DEF up
<1>6. up[1] \in Nat /\ up[2] \in Nat
  BY <1>1, <1>5 DEF GoodPage
<1> SUFFICES up[1] + up[2] >= anchor /\ (anchor > old => up[1] < anchor)
  BY DEF up
<1>7. CASE up[1] + up[2] = anchor /\ up[1] < anchor
  BY <1>0, <1>6, <1>7
<1>8. CASE /\ up = first
           /\ anchor > 0 /\ Available(anchor - 1) =>
                 Front(newlines, old, anchor, lines_per_page) = old
  <2>1. up[1] = old /\ Past(newlines, total_len, old, lines_per_page) <= old + up[2]
    BY <1>0, <1>8, FirstPageIs
  <2>2. CASE anchor = old
    BY <1>0, <1>1, <1>6, <2>1, <2>2
  <2>3. CASE anchor # old
    <3>1. anchor > 0 /\ Available(anchor - 1) /\ anchor <= total_len
      BY <1>0, <1>1, <1>3, <2>3 DEF Available
    <3>2. Front(newlines, old, anchor, lines_per_page) = old /\ old <= old
      BY <1>1, <1>8, <3>1
    <3>3. anchor <= Past(newlines, total_len, old, lines_per_page)
      BY <1>0, <1>1, <1>3, <3>1, <3>2, ForwardReaches
    <3>4. Past(newlines, total_len, old, lines_per_page) \in Nat
      BY <1>0, <1>1, PastStep
    <3>5. QED
      BY <1>0, <1>1, <1>3, <1>6, <2>1, <2>3, <3>3, <3>4
  <2>4. QED
    BY <2>2, <2>3
<1>9. QED
  BY <1>5, <1>7, <1>8

\* What draw_fastboot_log shows is a part of the log that fits the screen, and
\* never nothing while there is a log: for every size of the ring and of the
\* screen, whatever is logged between two pages (PageShown).
THEOREM PagerShows == PagerSpec => []PageShown
  BY PagerInvariant, PagerInvShows, PTL

\* Paging down and up skips no byte and gets to both ends of the log, although
\* the two ways divide it into different lines (PagingSkipsNothing).
THEOREM PagerSkipsNothing == PagerSpec => []PagingSkipsNothing
<1>1. PagerInv => PagingSkipsNothing
  BY PagerInvNextLine, PagerInvDown, PagerInvUp DEF PagingSkipsNothing
<1>2. QED
  BY <1>1, PagerInvariant, PTL
=============================================================================
