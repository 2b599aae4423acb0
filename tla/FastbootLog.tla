----------------------------- MODULE FastbootLog -----------------------------
(***************************************************************************)
(* The log of a fastboot session: the ring buffer of src/fastboot/log.c.   *)
(*                                                                         *)
(* A byte is its number: the k-th byte written since fastboot_log_init is  *)
(* k, counted from 0, so that `buf' tells which bytes it still holds.      *)
(* What xmalloc left in the buffer is -1.                                  *)
(***************************************************************************)
EXTENDS Integers, Sequences

CONSTANTS
    SIZE,      \* FASTBOOT_LOG_BUF_SIZE
    Counts,    \* lengths of the strings printed
    MaxTotal   \* bound on the bytes written in one session

ASSUME LogAssumption ==
    /\ SIZE \in Nat \ {0}
    /\ Counts \subseteq Nat
    /\ MaxTotal \in Nat

VARIABLES
    buf, idx, total_len,   \* struct fastboot_log
    active                 \* active_fastboot_log_instance is this log

log == <<buf, idx, total_len>>
logVars == <<log, active>>

Junk == -1

TypeOK ==
    /\ buf \in [0 .. SIZE - 1 -> {Junk} \cup Nat]
    /\ idx \in 0 .. SIZE - 1
    /\ total_len \in Nat
    /\ active \in BOOLEAN

\* fastboot_log_init
Init ==
    /\ buf = [p \in 0 .. SIZE - 1 |-> Junk]
    /\ idx = 0
    /\ total_len = 0
    /\ active = FALSE

MinOf(a, b) == IF a < b THEN a ELSE b

-----------------------------------------------------------------------------
(* Writing.                                                                 *)

\* memcpy of bytes first, first + 1, ... to b[at], ..., b[at + n - 1].
Copied(b, at, first, n) ==
    [p \in 0 .. SIZE - 1 |-> IF p \in at .. at + n - 1 THEN first + p - at ELSE b[p]]

KeptMutant(count) == MinOf(count, SIZE - 1)
Kept(count) == MinOf(count, SIZE)

Wraps(n) == idx + n >= SIZE

fastboot_logger_write(count) ==
    LET kept    == Kept(count)
        first   == total_len + count - kept
        to_copy == MinOf(SIZE - idx, kept)
        once    == Copied(buf, idx, first, to_copy)
    IN  /\ active
        /\ total_len' = total_len + count
        /\ IF Wraps(to_copy)
           THEN /\ buf' = Copied(once, 0, first + to_copy, kept - to_copy)
                /\ idx' = kept - to_copy
           ELSE /\ buf' = once
                /\ idx' = idx + to_copy
        /\ UNCHANGED active

\* Anything printed outside of a fastboot callback.
WriteIgnored ==
    /\ ~active
    /\ UNCHANGED logVars

fastboot_log_set_active ==
    /\ active' = ~active
    /\ UNCHANGED log

\* fastboot_log_release, and fastboot_log_init for the next session: the heap
\* hands out the old bytes or others.
Reopen ==
    /\ active' = FALSE
    /\ idx' = 0
    /\ total_len' = 0
    /\ buf' = [p \in 0 .. SIZE - 1 |-> Junk]

Write == \E count \in Counts :
            total_len + count <= MaxTotal /\ fastboot_logger_write(count)

Next == Write \/ WriteIgnored \/ fastboot_log_set_active \/ Reopen

Spec == Init /\ [][Next]_logVars

-----------------------------------------------------------------------------
(* Reading.                                                                 *)

fastboot_log_get_oldest_available_byte ==
    IF total_len < SIZE THEN 0 ELSE total_len - SIZE

Available(byte) ==
    fastboot_log_get_oldest_available_byte <= byte /\ byte < total_len

\* No bytes of any log.
NULL == <<-2>>

\* Larger than any number of a byte and any position in the buffer.
UINT64_MAX == MaxTotal + SIZE

\* The first n bytes from position p of the buffer.
From(p, n) == [i \in 1 .. n |-> buf[p + i - 1]]

\* What fastboot_log_get_buf returns: the bytes, as many as *num says.
fastboot_log_get_buf(start, num) ==
    LET offset == start - fastboot_log_get_oldest_available_byte
        right  == SIZE - idx - offset
        both   == MinOf(right + idx, num)
    IN  IF ~Available(start) THEN NULL
        ELSE IF idx = total_len THEN From(start, MinOf(total_len - start, num))
        ELSE IF idx + offset >= SIZE
        THEN From((idx + offset) % SIZE, MinOf(total_len - start, num))
        ELSE IF right >= num THEN From(idx + offset, num)
        ELSE [i \in 1 .. both |-> IF i <= right THEN buf[idx + offset + i - 1]
                                                ELSE buf[i - right - 1]]

fastboot_log_get_iter(byte) ==
    IF ~Available(byte) THEN UINT64_MAX
    ELSE IF idx = total_len THEN byte
    ELSE (idx + byte - fastboot_log_get_oldest_available_byte) % SIZE

\* The iterator after fastboot_log_inc_iter, or UINT64_MAX when it fails.
fastboot_log_inc_iter(iter) ==
    LET next == (iter + 1) % SIZE
    IN  IF next = idx THEN UINT64_MAX ELSE next

fastboot_log_dec_iter(iter) ==
    LET next == (iter + SIZE - 1) % SIZE
    IN  IF iter = idx \/ next >= total_len THEN UINT64_MAX ELSE next

fastboot_log_get_byte_at_iter(iter) == buf[iter]

-----------------------------------------------------------------------------
(* Properties.                                                              *)

\* The reference: the log is the last SIZE bytes printed.  Any part of it that
\* fastboot_log_get_buf returns, around the end of the ring included, is the
\* bytes asked for, in order, and as many as there are; a part that has been
\* overwritten, or not been written, is NULL and never other bytes.
BufIsTail ==
    \A start \in 0 .. total_len, num \in 0 .. SIZE + 1 :
        fastboot_log_get_buf(start, num) =
            IF start < total_len - SIZE \/ start >= total_len THEN NULL
            ELSE [i \in 1 .. MinOf(num, total_len - start) |-> start + i - 1]

\* An iterator taken at a byte reads that byte, and stepping it forward or
\* backward is the iterator of the next or the previous byte, until the last
\* written and the oldest available one.
IteratorsWalk ==
    \A byte \in 0 .. total_len - 1 :
        Available(byte) =>
            LET iter == fastboot_log_get_iter(byte)
            IN  /\ iter \in 0 .. SIZE - 1
                /\ fastboot_log_get_byte_at_iter(iter) = byte
                /\ fastboot_log_inc_iter(iter) = fastboot_log_get_iter(byte + 1)
                /\ fastboot_log_dec_iter(iter) =
                     IF byte = 0 THEN UINT64_MAX ELSE fastboot_log_get_iter(byte - 1)

\* Every reader of log.c agrees with the reference, by parts and byte by byte,
\* and the write index stays in the ring.
ReadersAgree == TypeOK /\ BufIsTail /\ IteratorsWalk
=============================================================================
