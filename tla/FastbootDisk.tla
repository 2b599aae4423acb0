---------------------------- MODULE FastbootDisk ----------------------------
(***************************************************************************)
(* What the fastboot commands do to the disk: flash and erase of a         *)
(* partition, raw flash, the commands that change partition attributes and *)
(* those that write into the misc partition (src/fastboot/disk.c, cmd.c),  *)
(* over partition writes (src/base/gpt.c), sparse images                   *)
(* (src/base/sparse.c) and byte writes on a block device                   *)
(* (src/drivers/storage/blockdev.c).                                       *)
(*                                                                         *)
(* A transfer that fails may have written any of its blocks: NVMe queues   *)
(* it in parts that complete in any order (src/drivers/storage/nvme.c).    *)
(* It may also fail without being noticed: nvme_sync_cmd only prints the   *)
(* status of a completion, mmc_write drops that of a transfer of many      *)
(* blocks, and gpt_erase_partition takes the zero of a failed erase for    *)
(* success.  `unnoticed' says that this has happened to the command.       *)
(* What a transfer that timed out, or stopped with parts of it queued,     *)
(* still does later is left out.                                           *)
(*                                                                         *)
(* The disk is a function from byte addresses; the partition table is the  *)
(* first byte of block 0 with the attributes in the second, standing for   *)
(* both copies of the GPT.                                                 *)
(***************************************************************************)
EXTENDS Integers, Sequences, FiniteSetsExt

CONSTANTS
    Byte,          \* values of a byte; "e" is that of an erased one
    BlockSize,     \* bytes of a block of the disk
    Word,          \* bytes of a fill pattern
    FileHeader,    \* bytes of the header of a sparse image
    ChunkHeader,   \* bytes of the header of a chunk
    EraseMax,      \* bytes that erasing by writing covers at most
    FreshBlocks,   \* what a newly allocated block may hold
    Layout,        \* table |-> partition |-> [start, size] in blocks
    Attributes,    \* values of the attributes in a table
    Images,        \* staged images: [plain] or [hdr_ok, blk, size, chunks]
    MiscWrites,    \* what commands write into the misc partition: [offset, plain]
    FirstDisk,     \* the disk at the start, a function on its byte addresses
    MaxCommands,   \* bounds for model checking: on the commands,
    MaxFailures    \* and on those before the last that fail or go wrong unnoticed

VARIABLES
    disk,       \* the bytes on the disk
    ready,      \* fb->disk is set
    gpt,        \* fb->gpt: NoGpt, or the table and its attributes
    job,        \* the sparse image being written, Idle between commands
    answer,     \* of the last command: "okay" or "fail"
    unnoticed,  \* history: a transfer of the command failed, and the code took it for a success
    before,     \* history: the disk when the command began
    want,       \* history: what it is to write: [disk, sure, target, cuts]
    commands    \* how many have begun, and how many of them went wrong: [begun, failed]

diskVars == <<disk, ready, gpt, job, answer, unnoticed, before, want, commands>>

Idle == [pc |-> "idle"]
NoGpt == <<>>
Bytes == DOMAIN FirstDisk
BlockCount == (1 + Max(Bytes)) \div BlockSize
Names == {"p", "misc", "missing"}
IsSparse(img) == "chunks" \in DOMAIN img

\* The table is inside block 0 and no partition is; blocks are whole.  A chunk's data is what
\* its total size says follows its header.
ChunkRecords == [type : STRING, blks : Nat, total : Nat, data : Seq(Byte)]
ASSUME DiskAssumption ==
    /\ BlockSize \in Nat \ {0, 1}
    /\ Word \in Nat \ {0}
    /\ FileHeader \in Nat /\ ChunkHeader \in Nat /\ EraseMax \in Nat
    /\ FreshBlocks \subseteq [1..BlockSize -> Byte]
    /\ BlockCount \in Nat \ {0}
    /\ Bytes = 0..BlockCount * BlockSize - 1
    /\ FirstDisk \in [Bytes -> Byte]
    /\ DOMAIN Layout \subseteq Byte /\ Attributes \subseteq Byte /\ "e" \in Byte
    /\ \A t \in DOMAIN Layout : \A name \in DOMAIN Layout[t] :
          Layout[t][name].start \in Nat \ {0} /\ Layout[t][name].size \in Nat
    /\ \A img \in Images :
          \/ img \in [plain : Seq(Byte)]
          \/ /\ img \in [hdr_ok : BOOLEAN, blk : Nat, size : Nat, chunks : Seq(ChunkRecords)]
             /\ \A i \in DOMAIN img.chunks :
                   LET c == img.chunks[i]
                   IN c.total < ChunkHeader \/ c.total = ChunkHeader + Len(c.data)
    /\ MiscWrites \subseteq [offset : Nat, plain : Seq(Byte)]

\* The table GptInit finds on a disk, if it finds a valid one.
Table(d) == IF d[0] \in DOMAIN Layout /\ d[1] \in Attributes THEN <<d[0], d[1]>> ELSE NoGpt
HasPartition(g, name) == g # NoGpt /\ name \in DOMAIN Layout[g[1]]
PartStart(g, name) == Layout[g[1]][name].start * BlockSize
PartSize(g, name) == Layout[g[1]][name].size * BlockSize

-----------------------------------------------------------------------------
(* Byte writes on a block device, as the set of their possible results     *)

Patch(d, addr, data) ==
    [a \in DOMAIN d |-> IF a \in addr..addr + Len(data) - 1 THEN data[a - addr + 1] ELSE d[a]]

\* The blocks of data that are in a set of them, counted from 0.
PatchBlocks(d, addr, data, blocks) ==
    [a \in DOMAIN d |-> IF a \in addr..addr + Len(data) - 1 /\ (a - addr) \div BlockSize \in blocks
                        THEN data[a - addr + 1] ELSE d[a]]

\* ops.write: all blocks are written and counted; or any of them, and none is counted; or
\* all are counted although some are not written.
Write(d, lba, data) ==
    LET all == 0..Len(data) \div BlockSize - 1
        Result(blocks, n) == [disk |-> PatchBlocks(d, lba * BlockSize, data, blocks), written |-> n,
                              unnoticed |-> n # 0 /\ blocks # all]
    IN {Result(blocks, n) : blocks \in SUBSET all, n \in {0, Len(data)}}

Nothing(d) == {[disk |-> d, written |-> 0, unnoticed |-> FALSE]}

\* Part of one block, which is read into a new buffer first.  A read that fails without
\* being noticed leaves in it what was there, and that is written back.
blockdev_write_unaligned(d, lba, offset, data) ==
    LET n == Min({BlockSize - offset, Len(data)})
        OnDisk == [i \in 1..BlockSize |-> d[lba * BlockSize + i - 1]]
        Merged(block) == [i \in 1..BlockSize |->
                             IF i \in offset + 1..offset + n THEN data[i - offset] ELSE block[i]]
        Back(block, misread) ==
            {[disk |-> r.disk, written |-> IF r.written = BlockSize THEN n ELSE 0,
              unnoticed |-> misread \/ r.unnoticed] : r \in Write(d, lba, Merged(block))}
    IN Nothing(d) \union Back(OnDisk, FALSE) \union UNION {Back(b, TRUE) : b \in FreshBlocks}

\* Go on with next after a piece that counts as written.
Then(results, wanted, next(_)) ==
    UNION {IF r.written = wanted
           THEN {[disk |-> s.disk, written |-> r.written + s.written,
                  unnoticed |-> r.unnoticed \/ s.unnoticed] : s \in next(r.disk)}
           ELSE {r} : r \in results}

\* A head up to the next block, whole blocks, a tail.
FirstWholeMutant(addr) == addr \div BlockSize
FirstWhole(addr) == (addr + BlockSize - 1) \div BlockSize
blockdev_write_bytes(d, addr, data) ==
    LET offset == addr % BlockSize
        head == IF offset = 0 THEN 0 ELSE Min({BlockSize - offset, Len(data)})
        body == ((Len(data) - head) \div BlockSize) * BlockSize
        First(d0) == IF head = 0 THEN Nothing(d0)
                     ELSE blockdev_write_unaligned(d0, addr \div BlockSize, offset, data)
        Whole(d1) == IF body = 0 THEN Nothing(d1)
                     ELSE Write(d1, FirstWhole(addr), SubSeq(data, head + 1, head + body))
        Last(d2) == IF head + body = Len(data) THEN Nothing(d2)
                    ELSE blockdev_write_unaligned(d2, FirstWhole(addr) + body \div BlockSize, 0,
                                                  SubSeq(data, head + body + 1, Len(data)))
        Rest(d1) == Then(Whole(d1), body, Last)
    IN Then(First(d), head, Rest)

\* Every piece is written from the start of a buffer of repeated patterns; the whole blocks
\* in several calls of ops.write, of which Write allows more than they can do.
ErasePattern == [i \in 1..Word |-> "e"]
Filled(n, pattern) == [i \in 1..n |-> pattern[((i - 1) % Word) + 1]]
blockdev_fill_write_bytes(d, addr, count, pattern) ==
    IF addr % Word # 0 THEN Nothing(d) ELSE blockdev_write_bytes(d, addr, Filled(count, pattern))

-----------------------------------------------------------------------------
(* What a command is to write: the disk it promises and the bytes of which *)
(* that is sure, the bytes it is for, and where its pieces start           *)

ChunkSize(img, i) == img.chunks[i].blks * img.blk
ChunkStart(img, i) ==
    LET start[n \in 0..Len(img.chunks)] == IF n = 0 THEN 0 ELSE start[n - 1] + ChunkSize(img, n)
    IN start[i - 1]

\* The bytes of an image by their offset, where it has one.
ImageBytes(img) ==
    IF ~ IsSparse(img) THEN [o \in 0..Len(img.plain) - 1 |-> img.plain[o + 1]]
    ELSE LET Data(i) == {o \in ChunkStart(img, i)..ChunkStart(img, i + 1) - 1 :
                            \/ img.chunks[i].type = "raw" /\ o - ChunkStart(img, i) < Len(img.chunks[i].data)
                            \/ img.chunks[i].type = "fill"}
             Of(o) == CHOOSE i \in DOMAIN img.chunks : o \in Data(i)
         IN [o \in UNION {Data(i) : i \in DOMAIN img.chunks} |->
                LET i == Of(o) n == o - ChunkStart(img, i)
                IN img.chunks[i].data[(IF img.chunks[i].type = "fill" THEN n % Word ELSE n) + 1]]

\* The image laid over room bytes of the disk at addr.
Over(d, addr, room, img) ==
    LET bytes == ImageBytes(img)
        target == {a \in DOMAIN d : a < addr + room /\ a - addr \in DOMAIN bytes}
    IN [disk |-> [a \in DOMAIN d |-> IF a \in target THEN bytes[a - addr] ELSE d[a]],
        sure |-> DOMAIN d, target |-> target,
        cuts |-> IF IsSparse(img) THEN {addr + ChunkStart(img, i) : i \in DOMAIN img.chunks} ELSE {}]
Unchanged(d) == [disk |-> d, sure |-> DOMAIN d, target |-> {}, cuts |-> {}]
InPartition(d, name, offset, img) ==
    IF HasPartition(Table(d), name)
    THEN Over(d, PartStart(Table(d), name) + offset, PartSize(Table(d), name) - offset, img)
    ELSE Unchanged(d)
\* Erasing promises the start of the partition only.
Erased(d, name) ==
    IF HasPartition(Table(d), name)
    THEN LET start == PartStart(Table(d), name)
             all == start..start + PartSize(Table(d), name) - 1
         IN [disk |-> [a \in DOMAIN d |-> IF a \in all THEN "e" ELSE d[a]],
             sure |-> DOMAIN d \ {a \in all : a >= start + EraseMax},
             target |-> all, cuts |-> {}]
    ELSE Unchanged(d)

-----------------------------------------------------------------------------
(* Answers, and the disk and the table a command works on                  *)

Respond(a) == answer' = a /\ job' = Idle
Begin(promise) ==
    /\ job = Idle
    /\ commands.begun < MaxCommands
    /\ commands' = [begun |-> commands.begun + 1,
                    failed |-> commands.failed + IF answer = "fail" \/ unnoticed THEN 1 ELSE 0]
    /\ commands'.failed <= MaxFailures
    /\ before' = disk
    /\ want' = promise

\* A command that fails before it changes anything, its table loaded or not.
Refused == Respond("fail") /\ unnoticed' = FALSE /\ UNCHANGED disk

\* fastboot_do_disk_init finds no single fixed disk.
DiskFails == ~ ready /\ Refused /\ UNCHANGED <<ready, gpt>>

\* fastboot_do_disk_gpt_init: the cached table, or the one on the disk.
GptFails ==
    \/ DiskFails
    \/ gpt = NoGpt /\ ready' = TRUE /\ Refused /\ UNCHANGED gpt
Loaded == IF gpt # NoGpt THEN gpt ELSE Table(disk)
GptReady == Loaded # NoGpt /\ ready' = TRUE

\* fastboot_save_gpt forgets the cached table, whether it was saved or not.
AfterSaveMutant(g) == g
AfterSave(g) == NoGpt

-----------------------------------------------------------------------------
(* Writing an image                                                        *)

WritePlain(addr, data) ==
    \E r \in blockdev_write_bytes(disk, addr, data) :
        /\ disk' = r.disk
        /\ unnoticed' = r.unnoticed
        /\ Respond(IF r.written = Len(data) THEN "okay" ELSE "fail")

\* write_sparse_image up to its loop.
BeginSparse(addr, room, img) ==
    /\ UNCHANGED disk
    /\ unnoticed' = FALSE
    /\ IF img.size < FileHeader \/ ~ img.hdr_ok THEN Respond("fail")
       ELSE /\ job' = [pc |-> "sparse", img |-> img, next |-> 1, addr |-> addr, room |-> room,
                       left |-> img.size - FileHeader]
            /\ UNCHANGED answer

\* Bytes a chunk has in the image after its header.
Payload(img, i) ==
    CASE img.chunks[i].type = "raw" -> ChunkSize(img, i)
      [] img.chunks[i].type \in {"fill", "crc32"} -> Word
      [] OTHER -> 0
TooBig(size, room) == room < size
BadChunk(j) ==
    LET c == j.img.chunks[j.next]
    IN \/ j.left < ChunkHeader + Payload(j.img, j.next)
       \/ TooBig(ChunkSize(j.img, j.next), j.room)
       \/ c.type \notin {"raw", "fill", "dont_care", "crc32"}
       \/ c.total # ChunkHeader + Payload(j.img, j.next)

\* What writing a chunk may leave, and whether it counts as written.
ChunkResults(j) ==
    LET c == j.img.chunks[j.next]
        size == ChunkSize(j.img, j.next)
        Done(results) ==
            {[disk |-> r.disk, ok |-> r.written = size, unnoticed |-> r.unnoticed] : r \in results}
    IN CASE c.type = "raw" -> Done(blockdev_write_bytes(disk, j.addr, c.data))
         [] c.type = "fill" -> Done(blockdev_fill_write_bytes(disk, j.addr, size, c.data))
         [] OTHER -> {[disk |-> disk, ok |-> TRUE, unnoticed |-> FALSE]}

\* part_start and part_size move over every chunk, also over one without data.
AdvancedMutant(j) ==
    [j EXCEPT !.next = @ + 1, !.left = @ - ChunkHeader - Payload(j.img, j.next),
              !.addr = @ + Payload(j.img, j.next), !.room = @ - ChunkSize(j.img, j.next)]
Advanced(j) ==
    [j EXCEPT !.next = @ + 1, !.left = @ - ChunkHeader - Payload(j.img, j.next),
              !.addr = @ + ChunkSize(j.img, j.next), !.room = @ - ChunkSize(j.img, j.next)]

WriteChunk ==
    /\ job # Idle
    /\ job.next <= Len(job.img.chunks)
    /\ IF BadChunk(job) THEN Respond("fail") /\ UNCHANGED <<disk, unnoticed>>
       ELSE \E r \in ChunkResults(job) :
               /\ disk' = r.disk
               /\ unnoticed' = (unnoticed \/ r.unnoticed)
               /\ IF r.ok THEN job' = Advanced(job) /\ UNCHANGED answer ELSE Respond("fail")
    /\ UNCHANGED <<ready, gpt, before, want, commands>>
SparseEnds ==
    /\ job # Idle
    /\ job.next > Len(job.img.chunks)
    /\ Respond("okay")
    /\ UNCHANGED <<disk, ready, gpt, unnoticed, before, want, commands>>

\* The length of what is staged is compared with the space, sparse or not.
gpt_write_partition(g, name, offset, img, data_len) ==
    IF ~ HasPartition(g, name) \/ PartSize(g, name) < offset + data_len THEN Refused
    ELSE LET addr == PartStart(g, name) + offset
         IN IF IsSparse(img) THEN BeginSparse(addr, PartSize(g, name) - offset, img)
            ELSE WritePlain(addr, img.plain)

-----------------------------------------------------------------------------
(* The commands                                                            *)

DataLen(img) == IF IsSparse(img) THEN img.size ELSE Len(img.plain)

\* flash:<partition>
fastboot_write(name, img) ==
    /\ Begin(InPartition(disk, name, 0, img))
    /\ \/ GptFails
       \/ GptReady /\ gpt' = Loaded /\ gpt_write_partition(Loaded, name, 0, img, DataLen(img))

\* flash:raw-sector:<block>, which may write over the table.
fastboot_write_raw(start_block, img) ==
    LET addr == start_block * BlockSize
        room == (BlockCount - start_block) * BlockSize
    IN /\ Begin(Over(disk, addr, room, img))
       /\ \/ gpt # NoGpt /\ gpt' = AfterSave(gpt) /\ Refused /\ UNCHANGED ready      \* the save failed
          \/ DiskFails
          \/ /\ ready' = TRUE
             /\ gpt' = (IF gpt = NoGpt THEN NoGpt ELSE AfterSave(gpt))      \* nothing in it is unsaved
             /\ IF start_block >= BlockCount THEN Refused
                ELSE IF IsSparse(img) THEN BeginSparse(addr, room, img)
                ELSE IF DataLen(img) > room THEN Refused
                ELSE WritePlain(addr, img.plain)

\* The start of a partition is erased by writing, after the device has erased all of it or
\* where the device cannot.
FillErased(d, start, size) ==
    \E r \in blockdev_fill_write_bytes(d, start, size, ErasePattern) :
        /\ disk' = r.disk
        /\ unnoticed' = r.unnoticed
        /\ Respond(IF r.written = size THEN "okay" ELSE "fail")

\* The count that block_mmc_erase returns is taken for an error, so that the filling follows;
\* the zero of a failed erase, of which any blocks may be erased, is taken for success.
gpt_erase_partition(g, name) ==
    LET start == PartStart(g, name)
        size == PartSize(g, name)
        all == 0..size \div BlockSize - 1
        Trimmed(blocks) == PatchBlocks(disk, start, Filled(size, ErasePattern), blocks)
    IN IF ~ HasPartition(g, name) THEN Refused
       ELSE \/ \E d \in {disk, Trimmed(all)} : FillErased(d, start, Min({size, EraseMax}))
            \/ /\ \E blocks \in SUBSET all : disk' = Trimmed(blocks)
               /\ unnoticed' = TRUE
               /\ Respond("okay")

\* erase:<partition>
fastboot_erase(name) ==
    /\ Begin(Erased(disk, name))
    /\ \/ GptFails
       \/ GptReady /\ gpt' = Loaded /\ gpt_erase_partition(Loaded, name)

\* set_active, oem set-priority and oem set-successful: change the cached table and
\* save it at once.  They fail first for a partition that is missing or not bootable.
SetAttributes(attr) ==
    /\ Begin([disk |-> Patch(disk, 1, <<attr>>), sure |-> Bytes, target |-> {1}, cuts |-> {}])
    /\ \/ GptFails
       \/ GptReady /\ gpt' = Loaded /\ Refused
       \/ /\ GptReady
          /\ LET g == <<Loaded[1], attr>>
             IN /\ gpt' = AfterSave(g)
                /\ \/ disk' = Patch(disk, 0, g) /\ Respond("okay") /\ unnoticed' = FALSE
                   \/ disk' \in {disk, Patch(disk, 0, g)} /\ Respond("fail") /\ unnoticed' = FALSE
                   \/ disk' = disk /\ Respond("okay") /\ unnoticed' = TRUE

\* oem cmdline and bootconfig changes, reboot to a target, snapshot-update:cancel.  A read
\* of the partition that fails only makes them start afresh or, for the last, fail.
WriteMisc(w) ==
    /\ Begin(InPartition(disk, "misc", w.offset, w))
    /\ \/ GptFails
       \/ GptReady /\ gpt' = Loaded /\ Refused
       \/ /\ GptReady
          /\ gpt' = Loaded
          /\ gpt_write_partition(Loaded, "misc", w.offset, w, Len(w.plain))

\* getvar, oem sha256, oem cmdline get and the like load the table and read.
ReadOnly ==
    /\ Begin(Unchanged(disk))
    /\ \/ GptFails
       \/ /\ GptReady
          /\ gpt' = Loaded
          /\ \E a \in {"okay", "fail"} : Respond(a)
          /\ unnoticed' = FALSE
          /\ UNCHANGED disk

DiskInit ==
    /\ disk = FirstDisk
    /\ before = FirstDisk
    /\ want = Unchanged(FirstDisk)
    /\ ready = FALSE
    /\ gpt = NoGpt
    /\ job = Idle
    /\ answer = "okay"
    /\ unnoticed = FALSE
    /\ commands = [begun |-> 0, failed |-> 0]

DiskNext ==
    \/ \E name \in Names, img \in Images : fastboot_write(name, img)
    \/ \E block \in 0..BlockCount, img \in Images : fastboot_write_raw(block, img)
    \/ \E name \in Names : fastboot_erase(name)
    \/ \E attr \in Attributes : SetAttributes(attr)
    \/ \E w \in MiscWrites : WriteMisc(w)
    \/ ReadOnly
    \/ WriteChunk
    \/ SparseEnds

DiskSpec == DiskInit /\ [][DiskNext]_diskVars

-----------------------------------------------------------------------------
(* Properties                                                              *)

\* A sparse image is never written past the space it was given, and never read past
\* what was staged (the two checks at the start of write_sparse_image's loop).
DiskTypeOK ==
    /\ disk \in [Bytes -> Byte]
    /\ ready \in BOOLEAN
    /\ gpt = NoGpt \/ gpt \in (DOMAIN Layout) \X Attributes
    /\ answer \in {"okay", "fail"}
    /\ unnoticed \in BOOLEAN
    /\ job # Idle => /\ job.room >= 0
                     /\ job.left >= 0
                     /\ job.next \in 1..Len(job.img.chunks) + 1

\* An OKAY for a flash, an erase, a change of attributes or of the misc partition means that
\* all of it is on the disk, at the place the table on the disk gives it, and that no other
\* byte changed.
OkayMeansImage ==
    job = Idle /\ answer = "okay" => \A a \in want.sure : disk[a] = want.disk[a]

\* That is so, whatever the alignment of the pieces and whatever was cached, unless a driver
\* claimed a transfer it did not make or gpt_erase_partition mistook a failed erase.
SuccessMeansImage == unnoticed \/ OkayMeansImage

\* Not even a failure that nobody notices changes a block in which the command has nothing
\* to write: blockdev_write_unaligned stays within its block, and a chunk within the space.
StaysInside ==
    \A a \in Bytes : disk[a] # before[a] =>
        \E b \in want.target : a \div BlockSize = b \div BlockSize

\* While a command is under way, and when it has failed part way, no byte holds anything but
\* its old or its new value, unless a read failed unnoticed before a block was written back.
OldOrNew == unnoticed \/ \A a \in Bytes : disk[a] \in {before[a], want.disk[a]}

\* The blocks of one chunk reach the disk in any order, but write_sparse_image stops at the
\* first chunk that fails: where a chunk has begun to show, all before it are complete.
ChunksInOrder ==
    unnoticed \/ \A cut \in want.cuts, b \in Bytes :
        b >= cut /\ disk[b] # before[b] => \A a \in Bytes : a < cut => disk[a] = want.disk[a]

\* The table kept between commands is the one on the disk: a raw write, which may replace
\* the table, drops it first, and every change to it is saved by the command that makes it.
TableCurrent == gpt # NoGpt => gpt = Table(disk)

\* Writing stays inside its target, goes up through its chunks and tears no byte, in every
\* state of a command: the bytes, and the space and input that are left, agree.
WritesInOrder == DiskTypeOK /\ StaysInside /\ OldOrNew /\ ChunksInOrder
=============================================================================
