--------------------------- MODULE MCFastbootDisk ---------------------------
(***************************************************************************)
(* A disk of four blocks of four bytes.  Block 0 starts with the table; t1 *)
(* has p in blocks 1 and 2 and misc in block 3, t2 has misc in block 1 and *)
(* p in blocks 2 and 3.                                                    *)
(***************************************************************************)
EXTENDS FastbootDisk

TestLayout ==
    [t1 |-> [p |-> [start |-> 1, size |-> 2], misc |-> [start |-> 3, size |-> 1]],
     t2 |-> [p |-> [start |-> 2, size |-> 2], misc |-> [start |-> 1, size |-> 1]]]
TestFresh == {[i \in 1..4 |-> "h"]}
TestDisk == [a \in 0..15 |-> IF a = 0 THEN "t1" ELSE IF a = 1 THEN "a1" ELSE "o"]

Chunk(type, blks, total, data) == [type |-> type, blks |-> blks, total |-> total, data |-> data]
Image(ok, blk, size, chunks) == [hdr_ok |-> ok, blk |-> blk, size |-> size, chunks |-> chunks]
Fill(blks) == Chunk("fill", blks, 3, <<"f", "g">>)
Skip(blks) == Chunk("dont_care", blks, 1, <<>>)

TestImages ==
    {[plain |-> <<"t2", "a1", "x">>],                              \* a table, in less than a block
     [plain |-> <<"u", "v", "w", "x", "y", "z">>],                 \* a block and a half
     \* three kinds of chunk that end with the partition, over block boundaries
     Image(TRUE, 2, 8, <<Chunk("raw", 1, 3, <<"x", "y">>), Skip(1), Fill(2)>>),
     Image(TRUE, 2, 11, <<Skip(1), Fill(3), Chunk("crc32", 0, 3, <<"c", "c">>), Fill(1)>>),   \* too big at its last
     Image(TRUE, 1, 6, <<Chunk("raw", 1, 2, <<"x">>), Fill(2)>>),  \* a fill that is not aligned
     Image(TRUE, 2, 5, <<Fill(1), Chunk("raw", 1, 3, <<"x", "y">>)>>),   \* cut off in a chunk
     Image(TRUE, 2, 5, <<Chunk("raw", 1, 4, <<"x", "y", "z">>)>>),      \* bad chunks
     Image(TRUE, 2, 2, <<Chunk("other", 1, 1, <<>>)>>),
     Image(FALSE, 2, 4, <<Fill(1)>>)}
TestMisc == {[offset |-> 2, plain |-> <<"d", "d">>], [offset |-> 3, plain |-> <<"d", "d">>]}
=============================================================================
