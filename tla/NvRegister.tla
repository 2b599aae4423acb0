------------------------------ MODULE NvRegister ------------------------------
(***************************************************************************)
(* What nvdata storage promises its callers, whichever way it is laid out  *)
(* in the flash: one register that is changed only by a write, that holds  *)
(* the written value when the write has succeeded, and that an interrupted *)
(* write leaves with the old value, with nothing, or with a mixture of     *)
(* either and the new one.  In particular a value that was overwritten     *)
(* earlier never comes back.                                               *)
(*                                                                         *)
(* An interrupted write may also damage the register.  Nothing is promised *)
(* of a damaged one, until a write gets as far as to empty it.             *)
(***************************************************************************)
EXTENDS Naturals

CONSTANTS Bits

Blob == SUBSET Bits
Erased == Bits

VARIABLES
    stored,     \* what a read would return
    busy,       \* the value being written: {value}, or {} when there is none
    got,        \* what the last read returned
    damaged

vars == <<stored, busy, got, damaged>>

Init == stored \in Blob /\ busy = {} /\ got = {} /\ damaged = FALSE

Mixture(old, new) == {s \in Blob : old \cap new \subseteq s /\ s \subseteq old}

\* What an interrupted write may leave.
Remains ==
    {stored, Erased} \cup UNION {Mixture(stored, b) \cup Mixture(Erased, b) : b \in busy}

StartWrite ==
    busy = {} /\ (\E b \in Blob : busy' = {b}) /\ UNCHANGED <<stored, got, damaged>>

\* The old value goes before the new one is in place.
LoseOld == busy # {} /\ stored' = Erased /\ UNCHANGED <<busy, got, damaged>>

WriteSucceeds ==
    /\ busy # {}
    /\ stored' \in busy
    /\ busy' = {}
    /\ UNCHANGED <<got, damaged>>

WriteFails ==
    /\ busy # {}
    /\ stored' \in Remains
    /\ busy' = {}
    /\ UNCHANGED <<got, damaged>>

Read == busy = {} /\ got' = stored /\ UNCHANGED <<stored, busy, damaged>>

Restart ==
    /\ stored' \in IF busy = {} THEN {stored} ELSE Remains
    /\ busy' = {}
    /\ got' = {}
    /\ UNCHANGED damaged

\* A write is interrupted in the worst place.
Damage ==
    /\ busy # {} /\ busy' = {}
    /\ damaged' = TRUE
    /\ stored' \in Blob /\ got' \in {got, {}}

\* Any operation on a damaged register.
UseDamaged ==
    /\ damaged
    /\ UNCHANGED damaged
    /\ stored' \in Blob /\ got' \in Blob
    /\ busy' \in {{}} \cup {{b} : b \in Blob}

Repair ==
    /\ busy # {}
    /\ damaged' = FALSE
    /\ stored' = Erased
    /\ UNCHANGED <<busy, got>>

Next ==
    \/ UseDamaged \/ Repair
    \/ /\ ~damaged
       /\ StartWrite \/ LoseOld \/ WriteSucceeds \/ WriteFails \/ Read \/ Restart \/ Damage

Spec == Init /\ [][Next]_vars
=============================================================================
