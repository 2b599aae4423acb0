----------------------------- MODULE NvdataFlash -----------------------------
(***************************************************************************)
(* nvdata kept in a NOR flash area: src/vboot/nvdata/flash.c on top of     *)
(* the SPI flash driver src/drivers/flash/spi.c.                           *)
(*                                                                         *)
(* A blob is the set of its bits that are 1.  An erased blob is the set of *)
(* all Bits; programming can only take bits out of it, and an erase works  *)
(* on whole sectors.  The current nvdata is the last blob that is not      *)
(* erased.  Power may fail between any two steps, and in the middle of a   *)
(* program or erase command; a reboot forgets everything but the flash.    *)
(***************************************************************************)
EXTENDS Naturals, FiniteSets

CONSTANTS
    Bits,           \* the bit positions of a blob
    NumBlobs,       \* RW_NVRAM size / VB2_NVDATA_SIZE
    SectorBlobs,    \* blobs in one erase sector
    IgnoreErrors    \* TRUE: the caller carries on after a failed write, as
                    \* vb2ex_commit_data does in recovery mode

ASSUME BlobAssumption ==
    /\ NumBlobs \in Nat \ {0}
    /\ SectorBlobs \in Nat \ {0}
    /\ NumBlobs % SectorBlobs = 0
    /\ IgnoreErrors \in BOOLEAN

Offsets == 0 .. NumBlobs - 1
Middle == NumBlobs \div 2     \* the first blob the binary search probes
Blob == SUBSET Bits
Erased == Bits

\* What vboot asks to store: its header and CRC are never all ones.
Values == Blob \ {Erased}

VARIABLES
    flash,          \* [Offsets -> Blob], survives a reboot
    initialized,    \* nvdata_flash_is_initialized
    blob_offset,    \* nvdata_blob_offset, in blobs
    cache,          \* nvdata_cache
    pc,             \* where the call in progress has got to
    op,             \* the call in progress: "read" or "write"
    buf,            \* the argument of the last write
    data,           \* what the last successful read gave its caller
    used_below,     \* the two ends of the binary search
    empty_above,
    sector,         \* first blob of the next sector to erase
    cut             \* history: an erase stopped after the middle of the area and
                    \* before its end, and none has been completed since

flashVars == <<flash, cut>>
callVars == <<op, buf, data>>
searchVars == <<used_below, empty_above>>
vars == <<flash, initialized, blob_offset, cache, pc, op, buf, data,
          used_below, empty_above, sector, cut>>

TypeOK ==
    /\ flash \in [Offsets -> Blob]
    /\ initialized \in BOOLEAN
    /\ blob_offset \in Offsets
    /\ cache \in Blob
    /\ pc \in {"idle", "search", "load", "write", "erase", "program", "dead"}
    /\ op \in {"none", "read", "write"}
    /\ buf \in Blob
    /\ data \in Blob
    /\ used_below \in Offsets
    /\ empty_above \in 1 .. NumBlobs
    /\ sector \in Nat
    /\ cut \in BOOLEAN

\* Every blob below the border is in use and every blob from it on is erased.
UsedUpTo(f, border) ==
    /\ \A i \in Offsets : i < border => f[i] # Erased
    /\ \A i \in Offsets : i >= border => f[i] = Erased

\* The area as earlier boots, and the running system, leave it.
WellFormed(f) == \E border \in 0 .. NumBlobs : UsedUpTo(f, border)

Init ==
    /\ flash \in [Offsets -> Blob]
    /\ WellFormed(flash)
    /\ initialized = FALSE
    /\ blob_offset = 0
    /\ cache = {}
    /\ pc = "idle"
    /\ op = "none"
    /\ buf = {}
    /\ data = {}
    /\ used_below = 0
    /\ empty_above = NumBlobs
    /\ sector = 0
    /\ cut = FALSE

-----------------------------------------------------------------------------
(* The calls: nvdata_flash_read(buf) and nvdata_flash_write(buf).  Both     *)
(* first run flash_nvdata_init, which searches once per boot.               *)

Call(o, b) ==
    /\ pc = "idle"
    /\ op' = o
    /\ buf' = b
    /\ pc' = IF initialized THEN IF o = "read" THEN "load" ELSE "write"
                            ELSE "search"
    /\ used_below' = 0
    /\ empty_above' = NumBlobs
    /\ UNCHANGED <<flashVars, data, initialized, blob_offset, cache, sector>>

nvdata_flash_read == Call("read", buf)

nvdata_flash_write == \E b \in Values : Call("write", b)

\* The call fails.  A failed write makes the caller die unless it ignores
\* errors; a failed read only makes vboot start from default values.
Fail ==
    pc' = IF op = "write" /\ ~IgnoreErrors THEN "dead" ELSE "idle"

-----------------------------------------------------------------------------
(* flash_nvdata_init: the binary search for the border, one probe a step.   *)

\* There is still a blob between the two ends.
SearchingMutant(low, high) == low < high
Searching(low, high) == low + 1 < high

\* memcmp with a block of 0xff bytes.
IsErasedMutant(blob) == blob = {}
IsErased(blob) == blob = Erased

Probe ==
    /\ pc = "search"
    /\ Searching(used_below, empty_above)
    /\ LET guess == (used_below + empty_above) \div 2
       IN IF IsErased(flash[guess])
          THEN empty_above' = guess /\ UNCHANGED used_below
          ELSE used_below' = guess /\ UNCHANGED empty_above
    /\ UNCHANGED <<flashVars, callVars, initialized, blob_offset, cache, pc, sector>>

\* The search is over: the offset is set, the blob there is read.
LoadCache ==
    /\ pc = "search"
    /\ ~Searching(used_below, empty_above)
    /\ blob_offset' = used_below
    /\ cache' = flash[used_below]
    /\ initialized' = TRUE
    /\ pc' = IF op = "read" THEN "load" ELSE "write"
    /\ UNCHANGED <<flashVars, callVars, searchVars, sector>>

\* flash_read (or fmap_find_area) fails: nothing is initialized, but the
\* offset is already set when it is the last read that fails.
InitFails ==
    /\ pc = "search"
    /\ blob_offset' = IF Searching(used_below, empty_above) THEN blob_offset
                                                          ELSE used_below
    /\ Fail
    /\ UNCHANGED <<flashVars, callVars, searchVars, initialized, cache, sector>>

\* The tail of nvdata_flash_read: the caller gets the cache.
ReadReturns ==
    /\ pc = "load"
    /\ data' = cache
    /\ pc' = "idle"
    /\ UNCHANGED <<flashVars, searchVars, op, buf, initialized, blob_offset, cache, sector>>

-----------------------------------------------------------------------------
(* nvdata_flash_write once the area is initialized.                         *)

\* Bits may only go from 1 to 0 where they stand.
CanOverwriteMutant(old, new) == old \subseteq new
CanOverwrite(old, new) == new \subseteq old

\* The blob after this one is still in the area.
HasNextTooEarly(offset) == offset + 2 < NumBlobs
HasNext(offset) == offset + 1 < NumBlobs

\* Nothing to do, overwrite in place, move to the next blob, or start over.
ChooseBlob ==
    /\ pc = "write"
    /\ IF buf = cache
       THEN pc' = "idle" /\ UNCHANGED <<blob_offset, sector>>
       ELSE IF CanOverwrite(cache, buf)
       THEN pc' = "program" /\ UNCHANGED <<blob_offset, sector>>
       ELSE IF HasNext(blob_offset)
       THEN pc' = "program" /\ blob_offset' = blob_offset + 1 /\ UNCHANGED sector
       ELSE pc' = "erase" /\ sector' = 0 /\ UNCHANGED blob_offset
    /\ UNCHANGED <<flashVars, callVars, searchVars, initialized, cache>>

\* The blobs of the sector that starts at blob s are erased.
WithSectorErasedMutant(f, s) ==
    [i \in Offsets |-> IF s < i /\ i < s + SectorBlobs THEN Erased ELSE f[i]]
WithSectorErased(f, s) ==
    [i \in Offsets |-> IF s <= i /\ i < s + SectorBlobs THEN Erased ELSE f[i]]

\* One round of the loop of spi_flash_erase.
EraseSector ==
    /\ pc = "erase"
    /\ sector < NumBlobs
    /\ flash' = WithSectorErased(flash, sector)
    /\ sector' = sector + SectorBlobs
    /\ UNCHANGED <<callVars, searchVars, initialized, blob_offset, cache, pc, cut>>

\* The loop ends: the new blob goes to the bottom of the area.
EraseDone ==
    /\ pc = "erase"
    /\ sector >= NumBlobs
    /\ blob_offset' = 0
    /\ pc' = "program"
    /\ cut' = FALSE
    /\ UNCHANGED <<flash, callVars, searchVars, initialized, cache, sector>>

\* The erase command for the current sector is cut short or reported failed:
\* the sector may be erased or not.
StopErase ==
    \E erased \in {sector, sector + SectorBlobs} :
        /\ flash' = IF erased = sector THEN flash ELSE WithSectorErased(flash, sector)
        /\ cut' = (cut \/ (Middle < erased /\ erased < NumBlobs))

\* spi_flash_modify fails, so spi_flash_erase returns less than the size.
EraseFails ==
    /\ pc = "erase"
    /\ sector < NumBlobs
    /\ StopErase
    /\ Fail
    /\ UNCHANGED <<callVars, searchVars, initialized, blob_offset, cache, sector>>

\* Programming takes bits out of the blob, never into it.
Programmed(old, new) == old \cap new

\* flash_write succeeds.
Program ==
    /\ pc = "program"
    /\ flash' = [flash EXCEPT ![blob_offset] = Programmed(@, buf)]
    /\ cache' = buf
    /\ pc' = "idle"
    /\ UNCHANGED <<callVars, searchVars, initialized, blob_offset, sector, cut>>

\* The blob an interrupted program command leaves: some of the bits changed.
Torn(old, new) == {s \in Blob : Programmed(old, new) \subseteq s /\ s \subseteq old}

\* The program command is cut short or reported failed.
StopProgram ==
    \E s \in Torn(flash[blob_offset], buf) :
        flash' = [flash EXCEPT ![blob_offset] = s]

\* flash_write fails: the offset has already moved, the cache is not updated.
ProgramFails ==
    /\ pc = "program"
    /\ StopProgram
    /\ Fail
    /\ UNCHANGED <<callVars, searchVars, initialized, blob_offset, cache, sector, cut>>

-----------------------------------------------------------------------------
(* A reset at any moment, power loss included: the static variables get     *)
(* their initial values back, and only the flash is kept.                   *)

Restarted ==
    /\ initialized' = FALSE
    /\ blob_offset' = 0
    /\ cache' = {}
    /\ pc' = "idle"
    /\ op' = "none"
    /\ buf' = {}
    /\ data' = {}
    /\ used_below' = 0
    /\ empty_above' = NumBlobs
    /\ sector' = 0

Reboot ==
    /\ ~(pc = "erase" /\ sector < NumBlobs)
    /\ pc # "program"
    /\ Restarted
    /\ UNCHANGED flashVars

RebootInErase ==
    /\ pc = "erase" /\ sector < NumBlobs
    /\ StopErase
    /\ Restarted

RebootInProgram ==
    /\ pc = "program"
    /\ StopProgram
    /\ Restarted
    /\ UNCHANGED cut

Next ==
    \/ nvdata_flash_read \/ nvdata_flash_write
    \/ Probe \/ LoadCache \/ InitFails \/ ReadReturns
    \/ ChooseBlob \/ EraseSector \/ EraseDone \/ EraseFails
    \/ Program \/ ProgramFails
    \/ Reboot \/ RebootInErase \/ RebootInProgram

\* A call that has begun runs: the firmware is one thread and its caller waits.
Running == Probe \/ LoadCache \/ ReadReturns \/ ChooseBlob
             \/ EraseSector \/ EraseDone \/ Program

Spec == Init /\ [][Next]_vars /\ WF_vars(Running)

-----------------------------------------------------------------------------
(* Properties.                                                              *)

\* The last blob in use, or the first blob when the area is erased.
LastUsed(f) ==
    CHOOSE i \in Offsets :
        /\ \A j \in Offsets : j > i => f[j] = Erased
        /\ i = 0 \/ f[i] # Erased

\* The comment of flash_nvdata_init taken as it stands: whenever the area is
\* initialized and no write is under way, the offset is that of the last blob
\* that is not erased, or 0 when there is none.
OffsetIsLastBlob ==
    initialized /\ pc = "idle" => blob_offset = LastUsed(flash)

\* The same unless an interrupted erase has left used blobs above an erased
\* middle: the binary search then looks for a border that is not there.
OffsetIsLastBlobUnlessCut == ~cut => OffsetIsLastBlob

\* nvdata_cache is what its comment says, a cache of the current blob: reads
\* are served from it and writes are compared with it, so a difference makes
\* nvdata_flash_write report success for something that is not in the flash.
CacheIsCurrentBlob ==
    initialized /\ pc = "idle" => cache = flash[blob_offset]

\* The same, for an area without such an interrupted erase.
CacheIsCurrentBlobUnlessCut == ~cut => CacheIsCurrentBlob

\* flash_write is never given a blob whose programming would have to turn a 0
\* into a 1: what it reports as written is then what is in the flash.
ProgramNeedsNoErase ==
    ~cut /\ pc = "program" => buf \subseteq flash[blob_offset]

\* The area is erased only when every blob of it has been used (the wear the
\* scheme is there to save), but for the blobs an interrupted erase got to.
EraseOnlyWhenFull ==
    ~cut /\ pc = "erase" /\ sector = 0 =>
        \A i \in Offsets : i >= Middle => flash[i] # Erased

\* Every call returns: the search narrows and the erase loop advances.
CallReturns == pc \notin {"idle", "dead"} ~> pc \in {"idle", "dead"}

\* The flash is used as flash has to be: inside the area, whatever fails, never
\* programming over bits that need an erase, and erasing only when the area is
\* used up (nvdata_flash_write).
FlashUse == TypeOK /\ ProgramNeedsNoErase /\ EraseOnlyWhenFull
=============================================================================
