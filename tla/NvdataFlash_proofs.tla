-------------------------- MODULE NvdataFlash_proofs --------------------------
(***************************************************************************)
(* The inductive invariant of NvdataFlash, its proof, and the proof that   *)
(* the driver implements NvRegister, for every area size, sector size and  *)
(* blob width.                                                             *)
(***************************************************************************)
EXTENDS MCNvdataFlash, FiniteSetTheorems, TLAPS

\* Blob i is the last one in use, or the first one of an area with none.
IsLast(f, i) ==
    /\ \A j \in Offsets : j > i => f[j] = Erased
    /\ i = 0 \/ f[i] # Erased

UpperHalfUsed(f) == \A i \in Offsets : i >= Middle => f[i] # Erased

\* The binary search finds the last blob of such an area: either there is one
\* border between used and erased, or the first probe moves it to the half
\* that an interrupted erase has not reached.
Searchable(f) == WellFormed(f) \/ UpperHalfUsed(f)

Reliable == ~IgnoreErrors /\ ~cut

AreaInv == Reliable /\ pc # "erase" => Searchable(flash)

SearchInv ==
    pc = "search" =>
        /\ used_below < empty_above
        /\ ~initialized
        /\ op \in {"read", "write"}
        /\ used_below = 0 \/ flash[used_below] # Erased
        /\ empty_above = NumBlobs \/ flash[empty_above] = Erased
        /\ \/ used_below = 0 /\ empty_above = NumBlobs
           \/ used_below >= Middle /\ flash[Middle] # Erased
           \/ empty_above <= Middle /\ flash[Middle] = Erased

CallInv ==
    /\ pc \in {"load", "write", "erase", "program"} => initialized
    /\ pc \in {"write", "erase", "program"} => op = "write"
    /\ op = "write" => buf # Erased

CacheInv ==
    Reliable /\ initialized /\ pc \in {"idle", "load", "write"} =>
        cache = flash[blob_offset] /\ IsLast(flash, blob_offset)

EraseInv ==
    pc = "erase" =>
        /\ \A i \in Offsets : i < sector => flash[i] = Erased
        /\ Reliable =>
               \A i \in Offsets : i >= sector /\ i >= Middle => flash[i] # Erased

ProgramInv ==
    Reliable /\ pc = "program" =>
        /\ CanOverwrite(flash[blob_offset], buf)
        /\ \A j \in Offsets : j > blob_offset => flash[j] = Erased
        /\ \/ \A j \in Offsets : j < blob_offset => flash[j] # Erased
           \/ UpperHalfUsed(flash)

IInv ==
    /\ TypeOK
    /\ AreaInv
    /\ SearchInv
    /\ CallInv
    /\ CacheInv
    /\ EraseInv
    /\ ProgramInv

-----------------------------------------------------------------------------
\* The probes stay inside the area: the middle blob is one of its blobs.
LEMMA MiddleInArea == Middle \in Offsets
BY BlobAssumption DEF Middle, Offsets

\* When the two ends of the search meet, the lower one is the last blob in use.
LEMMA SearchFindsLast ==
    ASSUME TypeOK, SearchInv, pc = "search", Searchable(flash),
           used_below + 1 >= empty_above
    PROVE  IsLast(flash, used_below)
<1>1. empty_above = used_below + 1
  BY DEF TypeOK, SearchInv, Offsets
<1>2. CASE WellFormed(flash)
  <2>1. PICK border \in 0 .. NumBlobs : UsedUpTo(flash, border)
    BY <1>2 DEF WellFormed
  <2>2. border <= used_below + 1
    <3>1. CASE empty_above = NumBlobs
      BY <1>1, <3>1, BlobAssumption DEF TypeOK, Offsets
    <3>2. CASE empty_above # NumBlobs
      <4>1. empty_above \in Offsets /\ flash[empty_above] = Erased
        BY <1>1, <3>2, BlobAssumption DEF SearchInv, TypeOK, Offsets
      <4>2. ~(empty_above < border)
        BY <2>1, <4>1 DEF UsedUpTo
      <4> QED BY <1>1, <4>1, <4>2, BlobAssumption DEF TypeOK, Offsets
    <3> QED BY <3>1, <3>2
  <2>3. \A j \in Offsets : j > used_below => flash[j] = Erased
    BY <2>1, <2>2, BlobAssumption DEF UsedUpTo, TypeOK, Offsets
  <2> QED BY <2>3 DEF IsLast, SearchInv
<1>3. CASE UpperHalfUsed(flash)
  <2>1. empty_above = NumBlobs
    <3>1. SUFFICES ASSUME empty_above # NumBlobs PROVE FALSE
      OBVIOUS
    <3>2. empty_above \in Offsets /\ flash[empty_above] = Erased
      BY <1>1, <3>1, BlobAssumption DEF SearchInv, TypeOK, Offsets
    <3>3. flash[Middle] # Erased
      BY <1>3, MiddleInArea, BlobAssumption DEF UpperHalfUsed, Offsets
    <3>4. used_below >= Middle
      BY <3>1, <3>3 DEF SearchInv
    <3>5. empty_above >= Middle
      BY <1>1, <3>4, MiddleInArea, BlobAssumption DEF TypeOK, Offsets
    <3> QED BY <1>3, <3>2, <3>5 DEF UpperHalfUsed
  <2> QED BY <1>1, <2>1, BlobAssumption DEF IsLast, SearchInv, TypeOK, Offsets
<1> QED BY <1>2, <1>3 DEF Searchable

\* A program command, complete or not, leaves an area the search can handle.
LEMMA ProgramKeepsSearchable ==
    ASSUME TypeOK, ProgramInv, Reliable, pc = "program",
           NEW s \in Torn(flash[blob_offset], buf)
    PROVE  Searchable([flash EXCEPT ![blob_offset] = s])
<1> DEFINE g == [flash EXCEPT ![blob_offset] = s]
<1>1. s \in Blob /\ s \subseteq flash[blob_offset] /\ blob_offset \in Offsets
  BY DEF Torn, TypeOK
<1>2. \A j \in Offsets : g[j] = IF j = blob_offset THEN s ELSE flash[j]
  BY DEF TypeOK
<1>3. flash[blob_offset] \in Blob
  BY <1>1 DEF TypeOK
<1>4. flash[blob_offset] # Erased => s # Erased
  BY <1>1, <1>3 DEF Blob, Erased
<1>5. CASE UpperHalfUsed(flash)
  <2>1. UpperHalfUsed(g)
    BY <1>1, <1>2, <1>4, <1>5 DEF UpperHalfUsed
  <2> QED BY <2>1 DEF Searchable
<1>6. CASE \A j \in Offsets : j < blob_offset => flash[j] # Erased
  <2>1. \A j \in Offsets : j < blob_offset => g[j] # Erased
    BY <1>2, <1>6, <1>1 DEF Offsets
  <2>2. \A j \in Offsets : j > blob_offset => g[j] = Erased
    BY <1>2, <1>1 DEF Offsets, ProgramInv
  <2>3. g[blob_offset] = s
    BY <1>1, <1>2
  <2> HIDE DEF g
  <2>4. \E border \in 0 .. NumBlobs : UsedUpTo(g, border)
    <3>1. blob_offset \in 0 .. NumBlobs /\ blob_offset + 1 \in 0 .. NumBlobs
      BY <1>1, BlobAssumption DEF Offsets
    <3>2. CASE s = Erased
      <4>1. UsedUpTo(g, blob_offset)
        BY <1>1, <2>1, <2>2, <2>3, <3>2, BlobAssumption DEF UsedUpTo, Offsets
      <4> QED BY <3>1, <4>1
    <3>3. CASE s # Erased
      <4>1. UsedUpTo(g, blob_offset + 1)
        BY <1>1, <2>1, <2>2, <2>3, <3>3, BlobAssumption DEF UsedUpTo, Offsets
      <4> QED BY <3>1, <4>1
    <3> QED BY <3>2, <3>3
  <2>5. Searchable(g)
    BY <2>4 DEF Searchable, WellFormed
  <2> QED BY <2>5 DEF g
<1> QED BY <1>5, <1>6 DEF ProgramInv

\* An erase that stops outside the dangerous half leaves an area the search
\* can handle; one that stops inside it sets cut.
LEMMA StoppedEraseIsSearchable ==
    ASSUME TypeOK, EraseInv, ~IgnoreErrors, pc = "erase", sector < NumBlobs,
           StopErase, ~cut'
    PROVE  Searchable(flash')
<1>1. PICK erased \in {sector, sector + SectorBlobs} :
        /\ flash' = IF erased = sector THEN flash ELSE WithSectorErased(flash, sector)
        /\ cut' = (cut \/ (Middle < erased /\ erased < NumBlobs))
  BY DEF StopErase
<1>2. ~cut /\ Reliable /\ erased \in Nat /\ sector \in Nat
  BY <1>1, BlobAssumption DEF Reliable, TypeOK
<1>3. \A i \in Offsets : i < erased => flash'[i] = Erased
  BY <1>1, <1>2, BlobAssumption DEF EraseInv, WithSectorErased, Offsets
<1>4. \A i \in Offsets : i >= erased /\ i >= Middle => flash'[i] # Erased
  BY <1>1, <1>2, MiddleInArea, BlobAssumption DEF EraseInv, WithSectorErased, Offsets
<1>5. CASE erased >= NumBlobs
  <2>1. UsedUpTo(flash', 0)
    BY <1>2, <1>3, <1>5, BlobAssumption DEF UsedUpTo, Offsets
  <2> QED BY <2>1, BlobAssumption DEF Searchable, WellFormed
<1>6. CASE ~(erased >= NumBlobs)
  <2>1. ~(Middle < erased /\ erased < NumBlobs)
    BY <1>1
  <2>2. erased <= Middle
    BY <1>2, <1>6, <2>1, MiddleInArea, BlobAssumption DEF Offsets
  <2>3. UpperHalfUsed(flash')
    BY <1>2, <1>4, <2>2, MiddleInArea DEF UpperHalfUsed, Offsets
  <2> QED BY <2>3 DEF Searchable
<1> QED BY <1>5, <1>6

-----------------------------------------------------------------------------
(* TypeOK is preserved on its own.                                          *)

\* Every step keeps the driver's variables in their types: in particular the
\* offset and both ends of the search stay inside the area.
LEMMA TypeStep == TypeOK /\ SearchInv /\ [Next]_vars => TypeOK'
<1> SUFFICES ASSUME TypeOK, SearchInv, [Next]_vars PROVE TypeOK'
  OBVIOUS
<1>0. 0 \in Offsets /\ 0 \in Nat /\ NumBlobs \in 1 .. NumBlobs /\ {} \in Blob
  BY BlobAssumption DEF Offsets, Blob
<1> USE BlobAssumption
<1>1. CASE nvdata_flash_read
  BY <1>1 DEF nvdata_flash_read, Call, TypeOK, flashVars, Offsets
<1>2. CASE nvdata_flash_write
  BY <1>2 DEF nvdata_flash_write, Call, TypeOK, flashVars, Offsets, Values
<1>3. CASE Probe
  <2>1. ((used_below + empty_above) \div 2) \in Offsets \ {0}
    BY <1>3 DEF Probe, Searching, TypeOK, Offsets
  <2> QED BY <1>3, <2>1 DEF Probe, TypeOK, flashVars, callVars, Offsets
<1>4. CASE LoadCache
  BY <1>4 DEF LoadCache, TypeOK, flashVars, callVars, searchVars
<1>5. CASE InitFails
  BY <1>5 DEF InitFails, Fail, TypeOK, flashVars, callVars, searchVars
<1>6. CASE ReadReturns
  BY <1>6 DEF ReadReturns, TypeOK, flashVars, searchVars
<1>7. CASE ChooseBlob
  BY <1>7 DEF ChooseBlob, HasNext, TypeOK, flashVars, callVars, searchVars, Offsets
<1>8. CASE EraseSector
  BY <1>8 DEF EraseSector, WithSectorErased, TypeOK, callVars, searchVars, Blob, Erased
<1>9. CASE EraseDone
  BY <1>0, <1>9, Zenon DEF EraseDone, TypeOK, callVars, searchVars
<1>10. CASE EraseFails
  <2>1. flash' \in [Offsets -> Blob] /\ cut' \in BOOLEAN
    BY <1>10 DEF EraseFails, StopErase, WithSectorErased, TypeOK, Blob, Erased
  <2> QED BY <1>10, <2>1 DEF EraseFails, Fail, TypeOK, callVars, searchVars
<1>11. CASE Program
  <2>1. flash' \in [Offsets -> Blob]
    BY <1>11 DEF Program, Programmed, TypeOK, Blob
  <2> QED BY <1>11, <2>1 DEF Program, TypeOK, callVars, searchVars
<1>12. CASE ProgramFails
  <2>1. flash' \in [Offsets -> Blob]
    BY <1>12 DEF ProgramFails, StopProgram, Torn, TypeOK
  <2> QED BY <1>12, <2>1 DEF ProgramFails, Fail, TypeOK, callVars, searchVars
<1>13. ASSUME Restarted, flash' \in [Offsets -> Blob], cut' \in BOOLEAN PROVE TypeOK'
  BY <1>0, <1>13, Zenon DEF Restarted, TypeOK
<1>14. CASE Reboot
  BY <1>13, <1>14 DEF Reboot, TypeOK, flashVars
<1>15. CASE RebootInErase
  <2>1. flash' \in [Offsets -> Blob] /\ cut' \in BOOLEAN
    BY <1>15 DEF RebootInErase, StopErase, WithSectorErased, TypeOK, Blob, Erased
  <2> QED BY <1>13, <1>15, <2>1 DEF RebootInErase
<1>16. CASE RebootInProgram
  <2>1. flash' \in [Offsets -> Blob]
    BY <1>16 DEF RebootInProgram, StopProgram, Torn, TypeOK
  <2> QED BY <1>13, <1>16, <2>1 DEF RebootInProgram, TypeOK
<1>17. CASE UNCHANGED vars
  BY <1>17 DEF vars, TypeOK
<1> QED
  BY <1>1, <1>2, <1>3, <1>4, <1>5, <1>6, <1>7, <1>8, <1>9, <1>10, <1>11, <1>12,
     <1>14, <1>15, <1>16, <1>17 DEF Next

-----------------------------------------------------------------------------
(* The other parts: one step per action, one under it per part of the       *)
(* invariant the action can disturb.                                        *)

Parts == AreaInv /\ SearchInv /\ CallInv /\ CacheInv /\ EraseInv /\ ProgramInv

\* A restart keeps nothing but the flash, so only its shape matters.
LEMMA RestartParts ==
    ASSUME Restarted, Reliable' => Searchable(flash')
    PROVE  Parts'
<1>1. AreaInv'
  BY DEF AreaInv
<1>2. SearchInv' /\ CallInv' /\ EraseInv' /\ ProgramInv'
  BY DEF Restarted, SearchInv, CallInv, EraseInv, ProgramInv
<1>3. CacheInv'
  BY Zenon DEF Restarted, CacheInv
<1> QED BY <1>1, <1>2, <1>3 DEF Parts

\* A call that fails leaves the driver dead or uninitialized unless the caller
\* ignores errors, so only the shape of the area matters.
LEMMA FailParts ==
    ASSUME CallInv, Fail, UNCHANGED <<callVars, initialized>>,
           op = "write" \/ ~initialized,
           Reliable' => Searchable(flash')
    PROVE  Parts'
<1>1. pc' \in {"dead", "idle"} /\ (Reliable' /\ op = "write" => pc' = "dead")
  BY DEF Fail, Reliable
<1>2. AreaInv'
  BY DEF AreaInv
<1>3. SearchInv' /\ EraseInv' /\ ProgramInv'
  BY <1>1 DEF SearchInv, EraseInv, ProgramInv
<1>4. CallInv'
  BY <1>1 DEF CallInv, callVars
<1>5. CacheInv'
  <2>1. CASE op = "write"
    BY <1>1, <2>1 DEF CacheInv
  <2>2. CASE ~initialized
    BY <2>2 DEF CacheInv
  <2> QED BY <2>1, <2>2
<1> QED BY <1>2, <1>3, <1>4, <1>5 DEF Parts

\* The beginning of a call.
LEMMA CallParts ==
    ASSUME IInv, NEW o \in {"read", "write"}, NEW b, o = "write" => b # Erased,
           Call(o, b)
    PROVE  Parts'
<1> USE DEF Call, flashVars
<1>0. Reliable' <=> Reliable
  BY DEF Reliable
<1>1. pc' \in {"search", "load", "write"} /\ (pc' = "search" <=> ~initialized)
      /\ (pc' = "write" => o = "write")
  OBVIOUS
<1>2. AreaInv'
  BY <1>0 DEF IInv, AreaInv
<1>3. SearchInv'
  BY <1>1, BlobAssumption DEF SearchInv, Middle
<1>4. CallInv' /\ EraseInv' /\ ProgramInv'
  BY <1>1 DEF CallInv, EraseInv, ProgramInv
<1>5. CacheInv'
  BY <1>0 DEF IInv, CacheInv
<1> QED BY <1>2, <1>3, <1>4, <1>5 DEF Parts

\* The search and the load of the cache.
LEMMA SearchParts ==
    ASSUME IInv, Probe \/ LoadCache \/ InitFails \/ ReadReturns
    PROVE  Parts'
<1> USE DEF flashVars, callVars, searchVars
<1>1. CASE Probe
  <2> DEFINE guess == (used_below + empty_above) \div 2
  <2>1. /\ guess \in Offsets \ {0} /\ used_below < guess /\ guess < empty_above
        /\ used_below = 0 /\ empty_above = NumBlobs => guess = Middle
        /\ used_below >= Middle => guess >= Middle
        /\ empty_above <= Middle => guess <= Middle
    BY <1>1, BlobAssumption, MiddleInArea DEF Probe, Searching, IInv, TypeOK, Offsets, Middle
  <2>2. SearchInv'
    <3>1. CASE flash[guess] = Erased
      BY <1>1, <2>1, <3>1, MiddleInArea, BlobAssumption
         DEF Probe, IsErased, SearchInv, IInv, TypeOK, Offsets
    <3>2. CASE flash[guess] # Erased
      BY <1>1, <2>1, <3>2, MiddleInArea, BlobAssumption
         DEF Probe, IsErased, SearchInv, IInv, TypeOK, Offsets
    <3> QED BY <3>1, <3>2
  <2>3. pc = "search" /\ UNCHANGED <<flash, cut, op, buf, initialized, blob_offset, cache, pc>>
    BY <1>1 DEF Probe
  <2>4. AreaInv' /\ CallInv' /\ CacheInv' /\ EraseInv' /\ ProgramInv'
    BY <2>3 DEF IInv, AreaInv, CallInv, CacheInv, EraseInv, ProgramInv, Reliable
  <2> QED BY <2>2, <2>4 DEF Parts
<1>2. CASE LoadCache
  <2>1. /\ pc = "search" /\ pc' \in {"load", "write"} /\ (pc' = "write" => op = "write")
        /\ blob_offset' = used_below /\ cache' = flash[used_below] /\ initialized'
        /\ UNCHANGED <<flash, cut, op, buf>>
    BY <1>2 DEF LoadCache, IInv, SearchInv
  <2>2. AreaInv' /\ CallInv' /\ EraseInv' /\ ProgramInv' /\ SearchInv'
    BY <2>1 DEF IInv, AreaInv, CallInv, EraseInv, ProgramInv, SearchInv, Reliable
  <2>3. ASSUME Reliable PROVE IsLast(flash, used_below)
    <3>1. Searchable(flash)
      BY <2>1, <2>3 DEF IInv, AreaInv
    <3> QED BY <1>2, <2>1, <3>1, SearchFindsLast DEF LoadCache, Searching, IInv, TypeOK, Offsets
  <2>4. CacheInv'
    BY <2>1, <2>3 DEF CacheInv, Reliable, IsLast
  <2> QED BY <2>2, <2>4 DEF Parts
<1>3. CASE InitFails
  <2>1. pc = "search" /\ Fail /\ UNCHANGED <<callVars, initialized, flash, cut>>
    BY <1>3 DEF InitFails
  <2>2. ~initialized
    BY <2>1 DEF IInv, SearchInv
  <2>3. Reliable' => Searchable(flash')
    BY <2>1 DEF IInv, AreaInv, Reliable
  <2> QED BY <2>1, <2>2, <2>3, FailParts DEF IInv
<1>4. CASE ReadReturns
  <2>1. pc = "load" /\ pc' = "idle"
        /\ UNCHANGED <<flash, cut, op, buf, initialized, blob_offset, cache>>
    BY <1>4 DEF ReadReturns
  <2>2. AreaInv' /\ CallInv' /\ CacheInv' /\ EraseInv' /\ ProgramInv' /\ SearchInv'
    BY <2>1 DEF IInv, AreaInv, CallInv, CacheInv, EraseInv, ProgramInv, SearchInv, Reliable
  <2> QED BY <2>2 DEF Parts
<1> QED BY <1>1, <1>2, <1>3, <1>4

\* The choice of the blob to write: in place, the next one, or an erase.
LEMMA ChooseBlobParts ==
    ASSUME IInv, ChooseBlob
    PROVE  Parts'
<1> USE DEF flashVars, callVars, searchVars
<1>1. pc = "write" /\ UNCHANGED <<flash, cut, op, buf, initialized, cache>>
  BY DEF ChooseBlob
<1>2. initialized /\ op = "write" /\ buf # Erased
  BY <1>1 DEF IInv, CallInv
<1>3. Reliable => cache = flash[blob_offset] /\ IsLast(flash, blob_offset) /\ Searchable(flash)
  BY <1>1, <1>2 DEF IInv, CacheInv, AreaInv
<1>4. Reliable' <=> Reliable
  BY <1>1 DEF Reliable
<1>5. pc' \in {"idle", "program", "erase"}
  BY DEF ChooseBlob
<1>6. AreaInv' /\ SearchInv' /\ CallInv'
  BY <1>1, <1>2, <1>3, <1>4, <1>5 DEF AreaInv, SearchInv, CallInv
<1>7. CacheInv'
  BY <1>1, <1>3, <1>4 DEF ChooseBlob, CacheInv, IsLast
<1>8. ASSUME Reliable, IsLast(flash, blob_offset), Searchable(flash),
             flash[blob_offset] # Erased
      PROVE  (\A i \in Offsets : i < blob_offset => flash[i] # Erased)
             \/ (UpperHalfUsed(flash) /\ blob_offset = NumBlobs - 1)
  <2>1. CASE WellFormed(flash)
    BY <1>8, <2>1, BlobAssumption DEF WellFormed, UsedUpTo, IInv, TypeOK, Offsets
  <2>2. CASE UpperHalfUsed(flash)
    <3>1. NumBlobs - 1 \in Offsets /\ NumBlobs - 1 >= Middle
      BY MiddleInArea, BlobAssumption DEF Offsets
    <3>2. ~(NumBlobs - 1 > blob_offset)
      BY <1>8, <2>2, <3>1 DEF UpperHalfUsed, IsLast
    <3>3. blob_offset = NumBlobs - 1
      BY <3>2, BlobAssumption DEF IInv, TypeOK, Offsets
    <3> QED BY <2>2, <3>3
  <2> QED BY <1>8, <2>1, <2>2 DEF Searchable
<1>9. ASSUME Reliable, ~CanOverwrite(cache, buf) PROVE flash[blob_offset] # Erased
  BY <1>3, <1>9 DEF CanOverwrite, Erased, IInv, TypeOK, Blob
<1>10. EraseInv'
  <2> SUFFICES ASSUME pc' = "erase" PROVE EraseInv'
    BY DEF EraseInv
  <2>1. sector' = 0 /\ blob_offset = NumBlobs - 1 /\ ~CanOverwrite(cache, buf)
    BY BlobAssumption DEF ChooseBlob, HasNext, IInv, TypeOK, Offsets
  <2>2. ASSUME Reliable PROVE UpperHalfUsed(flash)
    <3>1. CASE UpperHalfUsed(flash)
      BY <3>1
    <3>2. CASE \A i \in Offsets : i < blob_offset => flash[i] # Erased
      BY <1>9, <2>1, <2>2, <3>2, BlobAssumption DEF UpperHalfUsed, Offsets
    <3> QED BY <1>3, <1>8, <1>9, <2>1, <2>2, <3>1, <3>2
  <2>3. \A i \in Offsets : ~(i < sector')
    BY <2>1, BlobAssumption DEF Offsets
  <2> QED BY <1>1, <1>4, <2>2, <2>3 DEF EraseInv, UpperHalfUsed
<1>11. ProgramInv'
  <2> SUFFICES ASSUME Reliable, pc' = "program" PROVE ProgramInv'
    BY <1>4 DEF ProgramInv
  <2>1. CASE CanOverwrite(cache, buf)
    <3>1. blob_offset' = blob_offset
      BY <2>1 DEF ChooseBlob
    <3>2. CASE flash[blob_offset] # Erased
      BY <1>1, <1>3, <1>8, <2>1, <3>1, <3>2 DEF ProgramInv, IsLast, CanOverwrite
    <3>3. CASE flash[blob_offset] = Erased
      <4>1. blob_offset = 0
        BY <1>3, <3>3 DEF IsLast
      <4>2. \A i \in Offsets : ~(i < blob_offset)
        BY <4>1, BlobAssumption DEF Offsets
      <4> QED BY <1>1, <1>3, <2>1, <3>1, <4>2 DEF ProgramInv, IsLast, CanOverwrite
    <3> QED BY <3>2, <3>3
  <2>2. CASE ~CanOverwrite(cache, buf)
    <3>1. blob_offset' = blob_offset + 1 /\ blob_offset + 1 < NumBlobs
      BY <2>2 DEF ChooseBlob, HasNext
    <3>2. flash[blob_offset] # Erased
      BY <1>9, <2>2
    <3>3. \A i \in Offsets : i < blob_offset => flash[i] # Erased
      BY <1>3, <1>8, <3>1, <3>2, BlobAssumption DEF IInv, TypeOK, Offsets
    <3>4. \A i \in Offsets : i < blob_offset + 1 => flash[i] # Erased
      BY <3>2, <3>3 DEF IInv, TypeOK, Offsets
    <3>5. blob_offset + 1 \in Offsets
      BY <3>1, BlobAssumption DEF IInv, TypeOK, Offsets
    <3>6. flash[blob_offset + 1] = Erased
      BY <1>3, <3>5 DEF IsLast, IInv, TypeOK, Offsets
    <3>7. CanOverwrite(flash[blob_offset + 1], buf)
      BY <3>6 DEF CanOverwrite, Erased, IInv, TypeOK, Blob
    <3>8. \A j \in Offsets : j > blob_offset + 1 => flash[j] = Erased
      BY <1>3 DEF IsLast, IInv, TypeOK, Offsets
    <3> QED BY <1>1, <3>1, <3>4, <3>7, <3>8 DEF ProgramInv
  <2> QED BY <2>1, <2>2
<1> QED BY <1>6, <1>7, <1>10, <1>11 DEF Parts

\* The erase loop.
LEMMA EraseParts ==
    ASSUME IInv, EraseSector \/ EraseDone \/ EraseFails
    PROVE  Parts'
<1> USE DEF callVars, searchVars
<1>1. CASE EraseSector
  <2>1. pc = "erase" /\ pc' = "erase" /\ sector' = sector + SectorBlobs
        /\ flash' = WithSectorErased(flash, sector)
        /\ UNCHANGED <<op, buf, initialized, cut>>
    BY <1>1 DEF EraseSector
  <2>2. sector \in Nat /\ SectorBlobs \in Nat /\ NumBlobs \in Nat /\ (Reliable' <=> Reliable)
    BY <2>1, BlobAssumption DEF IInv, TypeOK, Reliable
  <2>3. EraseInv'
    BY <2>1, <2>2 DEF IInv, EraseInv, WithSectorErased, Offsets
  <2>4. AreaInv' /\ SearchInv' /\ CallInv' /\ CacheInv' /\ ProgramInv'
    BY <2>1 DEF IInv, AreaInv, SearchInv, CallInv, CacheInv, ProgramInv
  <2> QED BY <2>3, <2>4 DEF Parts
<1>2. CASE EraseDone
  <2>1. pc = "erase" /\ pc' = "program" /\ sector >= NumBlobs /\ blob_offset' = 0
        /\ UNCHANGED <<flash, op, buf, initialized>>
    BY <1>2 DEF EraseDone
  <2>2. \A i \in Offsets : flash[i] = Erased
    BY <2>1, BlobAssumption DEF IInv, EraseInv, TypeOK, Offsets
  <2>3. UsedUpTo(flash, 0) /\ 0 \in 0 .. NumBlobs /\ 0 \in Offsets
    BY <2>2, BlobAssumption DEF UsedUpTo, Offsets
  <2>4. Searchable(flash)
    BY <2>3 DEF Searchable, WellFormed
  <2>5. AreaInv' /\ SearchInv' /\ CallInv' /\ CacheInv' /\ EraseInv'
    BY <2>1, <2>4 DEF IInv, AreaInv, SearchInv, CallInv, CacheInv, EraseInv
  <2>6. CanOverwrite(flash[0], buf)
    BY <2>2, <2>3 DEF CanOverwrite, Erased, IInv, TypeOK, Blob
  <2>7. \A i \in Offsets : ~(i < 0)
    BY BlobAssumption DEF Offsets
  <2>8. ProgramInv'
    BY <2>1, <2>2, <2>6, <2>7 DEF ProgramInv
  <2> QED BY <2>5, <2>8 DEF Parts
<1>3. CASE EraseFails
  <2>1. pc = "erase" /\ sector < NumBlobs /\ StopErase /\ Fail
        /\ UNCHANGED <<callVars, initialized>>
    BY <1>3 DEF EraseFails
  <2>2. op = "write"
    BY <2>1 DEF IInv, CallInv
  <2>3. Reliable' => Searchable(flash')
    BY <2>1, StoppedEraseIsSearchable DEF IInv, Reliable
  <2> QED BY <2>1, <2>2, <2>3, FailParts DEF IInv
<1> QED BY <1>1, <1>2, <1>3

\* The program command: on success the blob holds exactly what was asked.
LEMMA ProgramParts ==
    ASSUME IInv, Program \/ ProgramFails
    PROVE  Parts'
<1> USE DEF callVars, searchVars
<1>1. CASE Program
  <2>1. /\ pc = "program" /\ pc' = "idle" /\ cache' = buf
        /\ flash' = [flash EXCEPT ![blob_offset] = Programmed(flash[blob_offset], buf)]
        /\ UNCHANGED <<op, buf, initialized, blob_offset, cut>>
    BY <1>1 DEF Program
  <2>2. initialized /\ op = "write" /\ buf # Erased /\ (Reliable' <=> Reliable)
    BY <2>1 DEF IInv, CallInv, Reliable
  <2>3. SearchInv' /\ CallInv' /\ EraseInv' /\ ProgramInv'
    BY <2>1, <2>2 DEF SearchInv, CallInv, EraseInv, ProgramInv
  <2>4. Programmed(flash[blob_offset], buf) \in Torn(flash[blob_offset], buf)
    BY DEF Programmed, Torn, IInv, TypeOK, Blob
  <2>5. AreaInv'
    BY <2>1, <2>2, <2>4, ProgramKeepsSearchable DEF IInv, AreaInv
  <2>6. ASSUME Reliable PROVE flash'[blob_offset] = buf /\ IsLast(flash', blob_offset)
    <3>1. Programmed(flash[blob_offset], buf) = buf
      BY <2>1, <2>6 DEF IInv, ProgramInv, CanOverwrite, Programmed
    <3>2. blob_offset \in Offsets
      BY DEF IInv, TypeOK
    <3>3. flash'[blob_offset] = buf
      BY <2>1, <3>1, <3>2 DEF IInv, TypeOK
    <3>4. \A j \in Offsets : j > blob_offset => flash'[j] = Erased
      BY <2>1, <2>6, <3>2 DEF IInv, TypeOK, ProgramInv, Offsets
    <3> QED BY <2>2, <3>3, <3>4 DEF IsLast
  <2>7. CacheInv'
    BY <2>1, <2>2, <2>6 DEF CacheInv
  <2> QED BY <2>3, <2>5, <2>7 DEF Parts
<1>2. CASE ProgramFails
  <2>1. pc = "program" /\ StopProgram /\ Fail /\ UNCHANGED <<callVars, initialized, cut>>
    BY <1>2 DEF ProgramFails
  <2>2. op = "write"
    BY <2>1 DEF IInv, CallInv
  <2>3. Reliable' => Searchable(flash')
    BY <2>1, ProgramKeepsSearchable DEF IInv, Reliable, StopProgram
  <2> QED BY <2>1, <2>2, <2>3, FailParts DEF IInv
<1> QED BY <1>1, <1>2

-----------------------------------------------------------------------------
\* IInv is inductive.
LEMMA InvStep == IInv /\ [Next]_vars => IInv'
<1> SUFFICES ASSUME IInv, [Next]_vars PROVE Parts'
  BY TypeStep DEF IInv, Parts
<1>1. CASE nvdata_flash_read
  <2>1. buf # Erased \/ "read" # "write"
    OBVIOUS
  <2> QED BY <1>1, <2>1, CallParts DEF nvdata_flash_read
<1>2. CASE nvdata_flash_write
  <2>1. PICK b \in Values : Call("write", b)
    BY <1>2 DEF nvdata_flash_write
  <2>2. b # Erased
    BY DEF Values
  <2> QED BY <2>1, <2>2, CallParts
<1>3. CASE Probe \/ LoadCache \/ InitFails \/ ReadReturns
  BY <1>3, SearchParts
<1>4. CASE ChooseBlob
  BY <1>4, ChooseBlobParts
<1>5. CASE EraseSector \/ EraseDone \/ EraseFails
  BY <1>5, EraseParts
<1>6. CASE Program \/ ProgramFails
  BY <1>6, ProgramParts
<1>7. CASE Reboot
  <2>1. Restarted /\ UNCHANGED <<flash, cut>> /\ (pc = "erase" => ~(sector < NumBlobs))
    BY <1>7 DEF Reboot, flashVars
  <2>2. CASE pc = "erase"
    <3>1. \A i \in Offsets : flash[i] = Erased
      BY <2>1, <2>2, BlobAssumption DEF IInv, EraseInv, TypeOK, Offsets
    <3>2. UsedUpTo(flash, 0) /\ 0 \in 0 .. NumBlobs
      BY <3>1, BlobAssumption DEF UsedUpTo, Offsets
    <3>3. Searchable(flash)
      BY <3>2 DEF Searchable, WellFormed
    <3> QED BY <2>1, <3>3, RestartParts
  <2>3. CASE pc # "erase"
    BY <2>1, <2>3, RestartParts DEF IInv, AreaInv, Reliable
  <2> QED BY <2>2, <2>3
<1>8. CASE RebootInErase
  BY <1>8, StoppedEraseIsSearchable, RestartParts DEF RebootInErase, IInv, Reliable
<1>9. CASE RebootInProgram
  BY <1>9, ProgramKeepsSearchable, RestartParts
     DEF RebootInProgram, StopProgram, IInv, Reliable
<1>10. CASE UNCHANGED vars
  BY <1>10 DEF vars, IInv, Parts, AreaInv, SearchInv, CallInv, CacheInv, EraseInv,
               ProgramInv, Reliable
<1> QED
  BY <1>1, <1>2, <1>3, <1>4, <1>5, <1>6, <1>7, <1>8, <1>9, <1>10 DEF Next

\* The invariant holds of a driver that has not been called yet.
LEMMA InvInit == Init => IInv
<1> SUFFICES ASSUME Init PROVE IInv
  OBVIOUS
<1>1. TypeOK
  <2>1. 0 \in Offsets /\ 0 \in Nat /\ NumBlobs \in 1 .. NumBlobs /\ {} \in Blob
    BY BlobAssumption DEF Offsets, Blob
  <2> QED BY <2>1, Zenon DEF Init, TypeOK
<1>2. AreaInv /\ SearchInv /\ CallInv /\ EraseInv /\ ProgramInv
  BY DEF Init, AreaInv, SearchInv, CallInv, EraseInv, ProgramInv, Searchable
<1>3. CacheInv
  BY Zenon DEF Init, CacheInv
<1> QED BY <1>1, <1>2, <1>3 DEF IInv

\* Every reachable state satisfies the inductive invariant: the search of
\* flash_nvdata_init, the erase and the program command included.
THEOREM InvAlways == Spec => []IInv
BY InvInit, InvStep, PTL DEF Spec

\* Type correctness: offset, search bounds and cache stay within the area.
THEOREM TypeCorrect == Spec => []TypeOK
<1>1. IInv => TypeOK
  BY DEF IInv
<1> QED BY <1>1, InvAlways, PTL

\* Every area has one last blob, so that LastUsed names it: of the blobs in
\* use, take the one with the fewest above it.
LEMMA LastExists ==
    ASSUME NEW f \in [Offsets -> Blob]
    PROVE  LastUsed(f) \in Offsets /\ IsLast(f, LastUsed(f))
<1> DEFINE Above(i) == {j \in Offsets : j > i}
           used == {i \in Offsets : f[i] # Erased}
           Sets == {Above(i) : i \in used}
<1>1. \E i \in Offsets : IsLast(f, i)
  <2>1. CASE used = {}
    <3>1. 0 \in Offsets
      BY BlobAssumption DEF Offsets
    <3>2. IsLast(f, 0)
      BY <2>1 DEF IsLast
    <3> QED BY <3>1, <3>2
  <2>2. CASE used # {}
    <3>1. IsFiniteSet(Offsets)
      BY BlobAssumption, FS_Interval DEF Offsets
    <3>2. Sets \subseteq FiniteSubsetsOf(Offsets)
      <4>1. ASSUME NEW i \in used PROVE Above(i) \subseteq Offsets /\ IsFiniteSet(Above(i))
        BY <3>1, FS_Subset
      <4> QED BY <4>1 DEF FiniteSubsetsOf
    <3>3. Sets # {}
      BY <2>2
    <3>4. PICK x \in Sets : \A y \in Sets : ~ (<<y, x>> \in StrictSubsetOrdering(Offsets))
      <4> HIDE DEF Sets
      <4> QED BY <3>2, <3>3, FS_StrictSubsetOrderingWellFounded, WFMin
    <3>5. PICK i \in used : x = Above(i)
      BY <3>4
    <3>6. ASSUME NEW k \in used, k > i PROVE FALSE
      <4>1. Above(k) \subseteq Above(i) /\ k \in Above(i) /\ k \notin Above(k)
        BY <3>5, <3>6, BlobAssumption DEF Offsets
      <4>2. <<Above(k), Above(i)>> \in StrictSubsetOrdering(Offsets)
        BY <4>1 DEF StrictSubsetOrdering
      <4> QED BY <3>4, <3>5, <4>2
    <3>7. IsLast(f, i)
      BY <3>5, <3>6 DEF IsLast
    <3> QED BY <3>5, <3>7
  <2> QED BY <2>1, <2>2
<1> QED BY <1>1 DEF LastUsed, IsLast

\* Only one blob can be the last one.
LEMMA LastOf ==
    ASSUME NEW f \in [Offsets -> Blob], NEW i \in Offsets, IsLast(f, i)
    PROVE  LastUsed(f) = i
<1>1. \A k \in Offsets : IsLast(f, k) => k = i
  BY BlobAssumption DEF IsLast, Offsets
<1> QED BY <1>1, LastExists

\* What an erased area stores.
LEMMA ErasedStored ==
    ASSUME NEW f \in [Offsets -> Blob], \A i \in Offsets : f[i] = Erased
    PROVE  f[LastUsed(f)] = Erased
BY LastExists

\* When errors are not ignored and no erase was interrupted in the dangerous
\* half, the offset that nvdata_flash_read and nvdata_flash_write work with is
\* that of the last blob in use.
THEOREM OffsetCorrect == ~IgnoreErrors => (Spec => []OffsetIsLastBlobUnlessCut)
<1> SUFFICES ASSUME ~IgnoreErrors PROVE Spec => []OffsetIsLastBlobUnlessCut
  OBVIOUS
<1>1. IInv => OffsetIsLastBlobUnlessCut
  <2> SUFFICES ASSUME IInv, ~cut, initialized, pc = "idle"
               PROVE  blob_offset = LastUsed(flash)
    BY DEF OffsetIsLastBlobUnlessCut, OffsetIsLastBlob
  <2>1. IsLast(flash, blob_offset)
    BY DEF IInv, CacheInv, Reliable
  <2> QED BY <2>1, LastOf DEF IInv, TypeOK
<1> QED BY <1>1, InvAlways, PTL

\* Under the same conditions the cache that reads are served from, and writes
\* are compared with, is the blob in the flash.
THEOREM CacheCorrect == ~IgnoreErrors => (Spec => []CacheIsCurrentBlobUnlessCut)
<1> SUFFICES ASSUME ~IgnoreErrors PROVE Spec => []CacheIsCurrentBlobUnlessCut
  OBVIOUS
<1>1. IInv => CacheIsCurrentBlobUnlessCut
  BY DEF IInv, CacheInv, Reliable, CacheIsCurrentBlobUnlessCut, CacheIsCurrentBlob
<1> QED BY <1>1, InvAlways, PTL

\* Under the same conditions no program command has to turn a 0 into a 1, so
\* what nvdata_flash_write reports as written is in the flash.
THEOREM ProgramCorrect == ~IgnoreErrors => (Spec => []ProgramNeedsNoErase)
<1> SUFFICES ASSUME ~IgnoreErrors PROVE Spec => []ProgramNeedsNoErase
  OBVIOUS
<1>1. IInv => ProgramNeedsNoErase
  BY DEF IInv, ProgramInv, Reliable, ProgramNeedsNoErase, CanOverwrite
<1> QED BY <1>1, InvAlways, PTL

\* Under the same conditions the area is erased only when it is used up.
THEOREM WearCorrect == ~IgnoreErrors => (Spec => []EraseOnlyWhenFull)
<1> SUFFICES ASSUME ~IgnoreErrors PROVE Spec => []EraseOnlyWhenFull
  OBVIOUS
<1>1. IInv => EraseOnlyWhenFull
  BY BlobAssumption DEF IInv, EraseInv, Reliable, EraseOnlyWhenFull, Offsets
<1> QED BY <1>1, InvAlways, PTL

\* Together: under the same conditions the flash is used as flash has to be.
THEOREM FlashUseCorrect == ~IgnoreErrors => (Spec => []FlashUse)
<1> SUFFICES ASSUME ~IgnoreErrors PROVE Spec => []FlashUse
  OBVIOUS
<1>1. TypeOK /\ ProgramNeedsNoErase /\ EraseOnlyWhenFull => FlashUse
  BY DEF FlashUse
<1> QED BY <1>1, TypeCorrect, ProgramCorrect, WearCorrect, PTL
-----------------------------------------------------------------------------
(* The refinement of NvRegister: one lemma for each kind of step.           *)

Stored == flash[LastUsed(flash)]

Busy == IF Writing THEN {buf} ELSE {}

\* While the area is damaged, whatever the driver does is allowed.
LEMMA DamagedStep ==
    ASSUME TypeOK', cut, cut'
    PROVE  Register!UseDamaged
<1>1. flash' \in [Offsets -> Blob] /\ data' \in Blob /\ buf' \in Blob
  BY DEF TypeOK
<1>2. Stored' \in Blob
  BY <1>1, LastExists DEF Stored
<1>3. Busy' \in {{}} \cup {{b} : b \in Blob}
  BY <1>1 DEF Busy
<1> QED BY <1>1, <1>2, <1>3 DEF Register!UseDamaged, Register!Blob, Blob, Stored, Busy

\* A step that changes neither the area nor the calls in progress is none of the register.
LEMMA SameRegister ==
    ASSUME UNCHANGED <<Stored, Busy, data, cut>>
    PROVE  UNCHANGED Register!vars
BY DEF Register!vars, Stored, Busy

\* A call begins: a write makes the register busy, a read does not.
LEMMA CallImplements ==
    ASSUME IInv, ~cut, nvdata_flash_read \/ nvdata_flash_write
    PROVE  [Register!Next]_Register!vars
<1> USE DEF Call, flashVars
<1>1. Busy = {}
  BY DEF Busy, Writing, nvdata_flash_read, nvdata_flash_write
<1>2. UNCHANGED <<Stored, data, cut>>
  BY DEF Stored, nvdata_flash_read, nvdata_flash_write
<1>3. CASE nvdata_flash_read
  <2>1. Busy' = {}
    BY <1>3 DEF Busy, Writing, nvdata_flash_read
  <2> QED BY <1>1, <1>2, <2>1, SameRegister
<1>4. CASE nvdata_flash_write
  <2>1. PICK b \in Values : Call("write", b)
    BY <1>4 DEF nvdata_flash_write
  <2>2. Busy' = {b} /\ b \in Blob
    BY <2>1 DEF Busy, Writing, Values
  <2>3. Register!StartWrite
    BY <1>1, <1>2, <2>2 DEF Register!StartWrite, Register!Blob, Blob, Stored, Busy
  <2> QED BY <2>3 DEF Register!Next
<1> QED BY <1>3, <1>4

\* The search is not seen; a read returns what is stored.
LEMMA SearchImplements ==
    ASSUME IInv, ~cut, ~IgnoreErrors, Probe \/ LoadCache \/ InitFails \/ ReadReturns
    PROVE  [Register!Next]_Register!vars
<1> USE DEF flashVars, callVars, searchVars
<1>1. UNCHANGED <<Stored, cut, op, buf>>
  BY DEF Stored, Probe, LoadCache, InitFails, ReadReturns
<1>2. CASE Probe
  BY <1>1, <1>2, SameRegister DEF Probe, Busy, Writing
<1>3. CASE LoadCache
  <2>1. op \in {"read", "write"}
    BY <1>3 DEF LoadCache, IInv, SearchInv
  <2> QED BY <1>1, <1>3, <2>1, SameRegister DEF LoadCache, Busy, Writing
<1>4. CASE InitFails
  <2>1. op \in {"read", "write"} /\ pc = "search" /\ UNCHANGED data /\ Busy' = {}
    BY <1>4 DEF InitFails, IInv, SearchInv, Fail, Busy, Writing
  <2>2. CASE op = "read"
    BY <1>1, <2>1, <2>2, SameRegister DEF Busy, Writing
  <2>3. CASE op = "write"
    <3>1. Busy # {}
      BY <2>1, <2>3 DEF Busy, Writing
    <3>2. Register!WriteFails
      BY <1>1, <2>1, <3>1 DEF Register!WriteFails, Register!Remains, Stored, Busy
    <3> QED BY <3>2 DEF Register!Next
  <2> QED BY <2>1, <2>2, <2>3
<1>5. CASE ReadReturns
  <2>1. pc = "load" /\ Busy = {} /\ Busy' = {} /\ data' = cache
    BY <1>5 DEF ReadReturns, Busy, Writing
  <2>2. cache = flash[blob_offset] /\ IsLast(flash, blob_offset)
    BY <2>1 DEF IInv, CacheInv, CallInv, Reliable
  <2>3. cache = Stored
    BY <2>2, LastOf DEF IInv, TypeOK, Stored
  <2>4. Register!Read
    BY <1>1, <2>1, <2>3 DEF Register!Read, Stored, Busy
  <2> QED BY <2>4 DEF Register!Next
<1> QED BY <1>2, <1>3, <1>4, <1>5

\* A write that finds its value in the cache has succeeded: it is stored.
LEMMA ChooseImplements ==
    ASSUME IInv, ~cut, ~IgnoreErrors, ChooseBlob
    PROVE  [Register!Next]_Register!vars
<1> USE DEF flashVars, callVars, searchVars
<1>1. pc = "write" /\ UNCHANGED <<Stored, cut, op, buf, data>> /\ Busy = {buf}
  BY DEF ChooseBlob, Stored, Busy, Writing
<1>2. cache = flash[blob_offset] /\ IsLast(flash, blob_offset)
  BY <1>1 DEF IInv, CacheInv, CallInv, Reliable
<1>3. cache = Stored
  BY <1>2, LastOf DEF IInv, TypeOK, Stored
<1>4. CASE buf = cache
  <2>1. Busy' = {}
    BY <1>4 DEF ChooseBlob, Busy, Writing
  <2>2. Register!WriteSucceeds
    BY <1>1, <1>3, <1>4, <2>1 DEF Register!WriteSucceeds, Stored, Busy
  <2> QED BY <2>2 DEF Register!Next
<1>5. CASE buf # cache
  <2>1. Busy' = {buf}
    BY <1>1, <1>5 DEF ChooseBlob, Busy, Writing
  <2> QED BY <1>1, <2>1, SameRegister
<1> QED BY <1>4, <1>5

\* An erase up to a blob, in an area whose upper half was in use: the last value is
\* still there, or the area is empty, unless the erase stopped in between.
LEMMA ErasedUpTo ==
    ASSUME IInv, ~cut, ~IgnoreErrors, pc = "erase", sector < NumBlobs,
           NEW g \in {flash, WithSectorErased(flash, sector)}
    PROVE  /\ g \in [Offsets -> Blob]
           /\ g[LastUsed(g)] \in {Stored, Erased}
<1> DEFINE top == NumBlobs - 1
<1>1. top \in Offsets /\ top >= Middle /\ sector \in Nat /\ SectorBlobs \in Nat
  BY MiddleInArea, BlobAssumption DEF Offsets, IInv, TypeOK
<1>2. flash \in [Offsets -> Blob] /\ flash[top] # Erased
  BY <1>1, BlobAssumption DEF IInv, TypeOK, EraseInv, Reliable, Offsets
<1>3. LastUsed(flash) = top
  <2>1. IsLast(flash, top)
    BY <1>1, <1>2 DEF IsLast, Offsets
  <2> QED BY <1>1, <1>2, <2>1, LastOf
<1>4. CASE g = flash
  BY <1>2, <1>4 DEF Stored
<1>5. CASE g = WithSectorErased(flash, sector)
  <2>1. g \in [Offsets -> Blob]
    BY <1>2, <1>5 DEF WithSectorErased, Blob, Erased
  <2>2. CASE g[top] = Erased
    <3>1. sector + SectorBlobs >= NumBlobs
      BY <1>1, <1>2, <1>5, <2>2, BlobAssumption DEF WithSectorErased
    <3>2. \A i \in Offsets : g[i] = Erased
      BY <1>1, <1>5, <3>1, BlobAssumption DEF WithSectorErased, IInv, EraseInv, Offsets
    <3> QED BY <2>1, <3>2, ErasedStored
  <2>3. CASE g[top] # Erased
    <3>1. g[top] = flash[top]
      BY <1>1, <1>5, <2>3 DEF WithSectorErased
    <3>2. IsLast(g, top)
      BY <1>1, <2>3 DEF IsLast, Offsets
    <3>3. LastUsed(g) = top
      BY <1>1, <2>1, <3>2, LastOf
    <3> QED BY <1>3, <2>1, <3>1, <3>3 DEF Stored
  <2> QED BY <2>2, <2>3, <2>1
<1> QED BY <1>4, <1>5

\* What an erase that stops leaves of an area that was not damaged.
LEMMA StoppedErase ==
    ASSUME IInv, ~cut, ~IgnoreErrors, pc = "erase", sector < NumBlobs, StopErase
    PROVE  Stored' \in Blob /\ (~cut' => Stored' \in {Stored, Erased})
<1>1. flash' \in {flash, WithSectorErased(flash, sector)}
  BY DEF StopErase
<1>2. flash' \in [Offsets -> Blob] /\ flash'[LastUsed(flash')] \in {Stored, Erased}
  BY <1>1, ErasedUpTo
<1>3. Stored' \in Blob
  BY <1>2, LastExists DEF Stored
<1> QED BY <1>2, <1>3 DEF Stored

\* The erase loses the old value with its last sector.  Stopped, it fails the
\* write or damages the register.
LEMMA EraseImplements ==
    ASSUME IInv, ~cut, ~IgnoreErrors, EraseSector \/ EraseDone \/ EraseFails
    PROVE  [Register!Next]_Register!vars
<1> USE DEF callVars, searchVars
<1>1. pc = "erase" /\ op = "write" /\ Busy = {buf} /\ UNCHANGED <<op, buf, data>>
  BY DEF EraseSector, EraseDone, EraseFails, Busy, Writing, IInv, CallInv
<1>2. CASE EraseSector
  <2>1. Busy' = {buf} /\ ~cut'
    BY <1>1, <1>2 DEF EraseSector, Busy, Writing
  <2>2. Stored' \in {Stored, Erased}
    BY <1>2, ErasedUpTo DEF EraseSector, Stored
  <2>3. CASE Stored' = Stored
    BY <1>1, <1>2, <2>1, <2>3, SameRegister DEF EraseSector
  <2>4. CASE Stored' = Erased
    <3>1. Register!LoseOld
      BY <1>1, <1>2, <2>1, <2>4
         DEF EraseSector, Register!LoseOld, Register!Erased, Erased, Stored, Busy
    <3> QED BY <3>1 DEF Register!Next
  <2> QED BY <2>2, <2>3, <2>4
<1>3. CASE EraseDone
  BY <1>1, <1>3, SameRegister DEF EraseDone, Stored, Busy, Writing, IInv, TypeOK
<1>4. CASE EraseFails
  <2>1. pc' = "dead" /\ Busy' = {}
    BY <1>1, <1>4 DEF EraseFails, Fail, Busy, Writing
  <2>2. Stored' \in Blob /\ (~cut' => Stored' \in {Stored, Erased})
    BY <1>1, <1>4, StoppedErase DEF EraseFails
  <2>3. cut' \in BOOLEAN
    BY <1>4 DEF EraseFails, StopErase
  <2>4. CASE cut'
    <3>1. Register!Damage
      BY <1>1, <2>1, <2>2, <2>3, <2>4
         DEF Register!Damage, Register!Blob, Blob, Stored, Busy
    <3> QED BY <3>1 DEF Register!Next
  <2>5. CASE ~cut'
    <3>1. Register!WriteFails
      BY <1>1, <2>1, <2>2, <2>3, <2>5
         DEF Register!WriteFails, Register!Remains, Register!Erased, Erased, Stored, Busy,
             IInv, TypeOK
    <3> QED BY <3>1 DEF Register!Next
  <2> QED BY <2>4, <2>5
<1> QED BY <1>2, <1>3, <1>4

\* What a program command leaves, complete or not: the value it found, or part
\* of the new one over it or over an erased blob.
LEMMA StoredByProgram ==
    ASSUME IInv, ~cut, ~IgnoreErrors, pc = "program",
           NEW s \in Torn(flash[blob_offset], buf),
           flash' = [flash EXCEPT ![blob_offset] = s]
    PROVE  /\ s # Erased => Stored' = s
           /\ Stored' \in {Stored} \cup Torn(Stored, buf) \cup Torn(Erased, buf)
<1>1. blob_offset \in Offsets /\ flash \in [Offsets -> Blob] /\ flash' \in [Offsets -> Blob]
  BY DEF IInv, TypeOK, Torn
<1>2. flash'[blob_offset] = s
  BY <1>1
<1>3. \A j \in Offsets : j > blob_offset => flash[j] = Erased /\ flash'[j] = Erased
  BY <1>1 DEF IInv, ProgramInv, Reliable, Offsets
<1>4. ASSUME s # Erased PROVE Stored' = s
  <2>1. IsLast(flash', blob_offset)
    BY <1>2, <1>3, <1>4 DEF IsLast
  <2> QED BY <1>1, <1>2, <2>1, LastOf DEF Stored
<1>5. CASE flash[blob_offset] # Erased
  <2>1. IsLast(flash, blob_offset)
    BY <1>3, <1>5 DEF IsLast
  <2>2. Stored = flash[blob_offset]
    BY <1>1, <2>1, LastOf DEF Stored
  <2>3. s # Erased
    BY <1>1, <1>5 DEF Torn, Blob, Erased
  <2> QED BY <1>4, <2>2, <2>3
<1>6. CASE flash[blob_offset] = Erased /\ s # Erased
  BY <1>4, <1>6
<1>7. CASE flash[blob_offset] = Erased /\ s = Erased
  <2>1. \A j \in Offsets : flash'[j] = flash[j]
    BY <1>1, <1>7
  <2>2. flash' = flash
    BY <1>1, <2>1
  <2> QED BY <1>7, <2>2 DEF Stored
<1> QED BY <1>4, <1>5, <1>6, <1>7

\* A program command ends the write, with success or without.
LEMMA ProgramImplements ==
    ASSUME IInv, ~cut, ~IgnoreErrors, Program \/ ProgramFails
    PROVE  [Register!Next]_Register!vars
<1> USE DEF callVars, searchVars
<1>1. /\ pc = "program" /\ op = "write" /\ buf # Erased /\ buf \in Blob /\ Busy = {buf}
      /\ UNCHANGED <<op, buf, data, cut>>
  BY DEF Program, ProgramFails, Busy, Writing, IInv, CallInv, TypeOK
<1>2. CASE Program
  <2>1. Programmed(flash[blob_offset], buf) = buf
    BY <1>1 DEF IInv, ProgramInv, Reliable, CanOverwrite, Programmed
  <2>2. buf \in Torn(flash[blob_offset], buf)
    BY <1>1, <2>1 DEF Torn, Programmed, IInv, TypeOK, Blob
  <2>3. Stored' = buf /\ Busy' = {}
    <3>1. flash' = [flash EXCEPT ![blob_offset] = buf] /\ pc' = "idle"
      BY <1>2, <2>1 DEF Program
    <3>2. Stored' = buf
      BY <1>1, <2>2, <3>1, StoredByProgram
    <3> QED BY <3>1, <3>2 DEF Busy, Writing
  <2>4. Register!WriteSucceeds
    BY <1>1, <2>3 DEF Register!WriteSucceeds, Stored, Busy
  <2> QED BY <2>4 DEF Register!Next
<1>3. CASE ProgramFails
  <2>1. Busy' = {}
    BY <1>1, <1>3 DEF ProgramFails, Fail, Busy, Writing
  <2>2. Stored' \in {Stored} \cup Torn(Stored, buf) \cup Torn(Erased, buf)
    BY <1>1, <1>3, StoredByProgram DEF ProgramFails, StopProgram
  <2>3. Stored' \in Register!Remains
    BY <1>1, <2>2
       DEF Register!Remains, Register!Mixture, Register!Blob, Register!Erased, Torn, Programmed,
           Blob, Erased, Stored, Busy
  <2>4. Register!WriteFails
    BY <1>1, <2>1, <2>3 DEF Register!WriteFails, Stored, Busy
  <2> QED BY <2>4 DEF Register!Next
<1> QED BY <1>2, <1>3

\* A reset is a restart of the register, or damages it.
LEMMA RebootImplements ==
    ASSUME IInv, ~cut, ~IgnoreErrors, Reboot \/ RebootInErase \/ RebootInProgram
    PROVE  [Register!Next]_Register!vars
<1>1. Busy' = {} /\ data' = {}
  BY DEF Reboot, RebootInErase, RebootInProgram, Restarted, Busy, Writing
<1>2. ASSUME Stored' \in (IF Busy = {} THEN {Stored} ELSE Register!Remains), UNCHANGED cut
      PROVE  Register!Next
  <2>1. Register!Restart
    BY <1>1, <1>2 DEF Register!Restart, Stored, Busy
  <2> QED BY <2>1 DEF Register!Next
<1>3. CASE Reboot
  <2>1. Stored' = Stored /\ UNCHANGED cut
    BY <1>3 DEF Reboot, flashVars, Stored
  <2>2. Stored' \in Register!Remains
    BY <2>1 DEF Register!Remains, Stored
  <2> QED BY <1>2, <2>1, <2>2
<1>4. CASE RebootInErase
  <2>1. Busy # {} /\ Stored' \in Blob /\ (~cut' => Stored' \in {Stored, Erased})
    BY <1>4, StoppedErase DEF RebootInErase, Busy, Writing
  <2>2. cut' \in BOOLEAN
    BY <1>4 DEF RebootInErase, StopErase
  <2>3. CASE cut'
    <3>1. Register!Damage
      BY <1>1, <2>1, <2>2, <2>3 DEF Register!Damage, Register!Blob, Blob, Stored, Busy
    <3> QED BY <3>1 DEF Register!Next
  <2>4. CASE ~cut'
    <3>1. Stored' \in Register!Remains
      BY <2>1, <2>4 DEF Register!Remains, Register!Erased, Erased, Stored
    <3> QED BY <1>2, <2>1, <2>2, <2>4, <3>1 DEF IInv, TypeOK
  <2> QED BY <2>3, <2>4
<1>5. CASE RebootInProgram
  <2>1. pc = "program" /\ Busy = {buf} /\ UNCHANGED cut
    BY <1>5 DEF RebootInProgram, Busy, Writing
  <2>2. Stored' \in {Stored} \cup Torn(Stored, buf) \cup Torn(Erased, buf)
    BY <1>5, StoredByProgram DEF RebootInProgram, StopProgram
  <2>3. Stored' \in Register!Remains
    BY <2>1, <2>2
       DEF Register!Remains, Register!Mixture, Register!Blob, Register!Erased, Torn, Programmed,
           Blob, Erased, Stored, Busy
  <2> QED BY <1>2, <2>1, <2>3
<1> QED BY <1>3, <1>4, <1>5

\* Every step of the driver, a failing flash or a reset is one of the register.
LEMMA StepImplements ==
    ~IgnoreErrors /\ IInv /\ IInv' /\ [Next]_vars => [Register!Next]_Register!vars
<1> SUFFICES ASSUME ~IgnoreErrors, IInv, IInv', [Next]_vars
             PROVE  [Register!Next]_Register!vars
  OBVIOUS
<1>0. TypeOK' /\ cut \in BOOLEAN
  BY DEF IInv, TypeOK
<1>1. CASE UNCHANGED vars
  BY <1>1 DEF vars, Register!vars, Writing
<1>2. CASE Next /\ ~cut
  BY <1>2, CallImplements, SearchImplements, ChooseImplements, EraseImplements,
     ProgramImplements, RebootImplements DEF Next
<1>3. CASE EraseDone /\ cut
  <2>1. \A i \in Offsets : flash[i] = Erased
    BY <1>3, BlobAssumption DEF EraseDone, IInv, EraseInv, TypeOK, Offsets
  <2>2. Stored = Erased
    BY <2>1, ErasedStored DEF Stored, IInv, TypeOK
  <2>3. /\ Stored' = Erased /\ ~cut' /\ Busy = {buf} /\ Busy' = {buf}
        /\ UNCHANGED <<buf, data>> /\ cut' = FALSE
    BY <1>3, <2>2 DEF EraseDone, Stored, Busy, Writing, callVars
  <2>4. Register!Repair
    BY <2>3 DEF Register!Repair, Register!Erased, Erased, Stored, Busy
  <2> QED BY <2>4 DEF Register!Next
<1>4. CASE Next /\ ~EraseDone /\ cut
  <2>1. cut'
    BY <1>4
       DEF Next, nvdata_flash_read, nvdata_flash_write, Call, Probe, LoadCache, InitFails,
           ReadReturns, ChooseBlob, EraseSector, EraseFails, StopErase, Program,
           ProgramFails, Reboot, RebootInErase, RebootInProgram, flashVars
  <2>2. Register!UseDamaged
    BY <1>0, <1>4, <2>1, DamagedStep
  <2> QED BY <2>2 DEF Register!Next
<1> QED BY <1>0, <1>1, <1>2, <1>3, <1>4

\* nvdata_flash_read and nvdata_flash_write implement the register, whatever
\* fails and whenever the machine is reset, for callers that stop at an error.
THEOREM RegisterImplemented == ~IgnoreErrors => (Spec => ImplementsRegister)
<1> SUFFICES ASSUME ~IgnoreErrors PROVE Spec => ImplementsRegister
  OBVIOUS
<1>1. Init => Register!Init
  <2> SUFFICES ASSUME Init PROVE Register!Init
    OBVIOUS
  <2>1. Stored \in Blob
    BY LastExists DEF Init, Stored
  <2> QED BY <2>1 DEF Init, Register!Init, Register!Blob, Blob, Stored, Writing
<1>2. IInv /\ IInv' /\ [Next]_vars => [Register!Next]_Register!vars
  BY StepImplements
<1> QED BY <1>1, <1>2, InvAlways, PTL DEF Spec, ImplementsRegister, Register!Spec
=============================================================================
