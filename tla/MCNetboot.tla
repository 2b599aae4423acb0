----------------------------- MODULE MCNetboot -----------------------------
EXTENDS Netboot

\* The kernel's block numbers wrap around on the wire; the ramdisk, whose second
\* block is empty, just fits behind it; the command line does not fit.
MCBlocks == [f \in Files |-> CASE f = "bootfile" -> 4 [] f = "ramdisk" -> 2 [] f = "args" -> 2]

MCBlocksArgs == [f \in Files |-> CASE f = "bootfile" -> 2 [] f = "ramdisk" -> 1 [] f = "args" -> 2]
=============================================================================
