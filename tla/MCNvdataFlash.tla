---------------------------- MODULE MCNvdataFlash ----------------------------
(* Instances of NvdataFlash for TLC, and the register it implements. *)
EXTENDS NvdataFlash

Writing == pc \in {"write", "erase", "program"} \/ (pc = "search" /\ op = "write")

\* The register's value is the last used blob; the value being written is the
\* argument of the call in progress.
Register == INSTANCE NvRegister WITH
    stored <- flash[LastUsed(flash)],
    busy <- IF Writing THEN {buf} ELSE {},
    got <- data,
    damaged <- cut

\* nvdata_flash_read and nvdata_flash_write behave as a register: a read
\* returns the last value stored, whatever reboots and failed flash operations
\* came in between, and no older value is ever seen again.  Only an erase of
\* the area that stops in its second half damages it, and the next complete
\* erase repairs it.
ImplementsRegister == Register!Spec
=============================================================================
