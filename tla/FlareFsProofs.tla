--------------------------- MODULE FlareFsProofs ---------------------------
(***************************************************************************)
(* Theorems about FlareFs, for every layout of the region, every set of    *)
(* names and texts and every mix of failing writes and power losses.       *)
(***************************************************************************)
EXTENDS FlareFs, FiniteSetTheorems, FunctionTheorems, TLAPS

Writing == call.op \in {"write", "append"}

\* g_super and g_dir describe the region: it is mounted, or format is past its zero loop.
MemKnown == writable \/ (call.op = "format" /\ pc \in {"super", "dir", "end"})

\* An entry lies in the data area of the region.
InRegion(e) == e.used => (DataStart <= e.start /\ e.start + e.count <= TotalSectors)

Geometry ==
    /\ \A i \in DirIdx : InRegion(dDir[i]) /\ InRegion(gDir[i])
    /\ dSuper.ok => (DataStart <= dSuper.next /\ dSuper.next <= TotalSectors)
    /\ MemKnown => (DataStart <= gNext /\ gNext <= TotalSectors)

\* The slot a running call will update in g_files is there.
SlotOK ==
    /\ (Writing /\ call.slot = NoSlot) => gCount < DirEntries
    /\ call.slot # NoSlot => call.slot < gCount

CallOK ==
    /\ pc = "data" => /\ Writing
                      /\ call.start = gNext
                      /\ call.start + call.count <= TotalSectors
                      /\ cur < call.count
    /\ pc = "super" => call.op \in {"write", "append", "format"}
    /\ pc \in {"dir", "end"} => call.op \in {"write", "append", "remove", "format"}
    /\ (pc \in {"data", "dir", "super", "end"} /\ call.op # "format") => writable /\ SlotOK
    /\ call.op = "remove" => call.slot # NoSlot
    /\ pc = "zero" => /\ call.op = "format"
                      /\ \A i \in DirIdx : 1 + i \div EntriesPerSector < cur => dDir[i] = NoEntry
                      /\ cur > 0 => ~dSuper.ok
    /\ pc = "copy" => install.pos < install.count

\* Two entries name no common sector: they are disjoint, or one of them is not in use.
Apart(e, f) == (e.used /\ f.used) => Disjoint(e, f)

Below(e, n) == e.used => e.start + e.count <= n

DiskApart == \A i, j \in DirIdx : i # j => Apart(dDir[i], dDir[j])

\* Memory and disk agree on an extent or use different sectors, and everything
\* in use on either side is below next_free_sector.
MemApart ==
    /\ \A i, j \in DirIdx : i # j => Apart(gDir[i], gDir[j]) /\ Apart(gDir[i], dDir[j])
    /\ \A i \in DirIdx : /\ gDir[i] = dDir[i] \/ Apart(gDir[i], dDir[i])
                         /\ Below(gDir[i], gNext)
                         /\ Below(dDir[i], gNext)

Separation == ~stale => DiskApart /\ (MemKnown => MemApart)

\* The inductive invariant.
IInv == TypeOK /\ Geometry /\ CallOK /\ Separation

-----------------------------------------------------------------------------
(* The operators the model is built from *)

LEMMA Layout ==
    /\ DirIdx \subseteq Nat
    /\ NoSlot \in Nat /\ NoSlot \notin DirIdx
    /\ DataStart \in Nat /\ 2 <= DataStart
    /\ DirSectors \in Nat /\ TotalSectors \in Nat /\ DirEntries \in Nat
    /\ DataSectors \subseteq Nat
    /\ ZeroSector \in Sector
  BY LayoutAssumption, DataAssumption
     DEF DirIdx, NoSlot, DataStart, DataSectors, ZeroSector, Sector

\* The directory sectors hold the whole directory.
LEMMA DirectoryFits ==
    ASSUME NEW i \in DirIdx
    PROVE  i \div EntriesPerSector \in Nat /\ i \div EntriesPerSector < DirSectors
  <1>1. EntriesPerSector \in Nat /\ DirEntries = DirSectors * EntriesPerSector
    BY LayoutAssumption DEF EntriesPerSector
  <1>2. EntriesPerSector > 0
    BY <1>1, LayoutAssumption
  <1>3. i \in Nat /\ i < DirSectors * EntriesPerSector
    BY <1>1, LayoutAssumption DEF DirIdx
  <1> QED
    BY <1>1, <1>2, <1>3, LayoutAssumption

LEMMA SectorCountType ==
    ASSUME NEW d \in Seq(Byte)
    PROVE  SectorCount(d) \in Nat /\ SectorCount(d) > 0
  <1>1. SectorSize \in Nat /\ SectorSize > 0 /\ Len(d) \in Nat
    BY LayoutAssumption
  <1>2. Len(d) > 0 => /\ (Len(d) + SectorSize - 1) \div SectorSize \in Nat
                      /\ (Len(d) + SectorSize - 1) \div SectorSize > 0
    BY <1>1
  <1> QED
    BY <1>1, <1>2 DEF SectorCount

LEMMA SectorOfType ==
    ASSUME NEW d \in Seq(Byte), NEW k \in Nat
    PROVE  SectorOf(d, k) \in Sector
  <1>1. ASSUME NEW i \in 1 .. SectorSize, k * SectorSize + i <= Len(d)
        PROVE  d[k * SectorSize + i] \in Byte
    <2>1. k * SectorSize \in Nat
      BY LayoutAssumption
    <2>2. k * SectorSize + i \in 1 .. Len(d)
      BY <1>1, <2>1, LayoutAssumption
    <2> QED
      BY <2>2
  <1> QED
    BY <1>1, DataAssumption DEF SectorOf, Sector

LEMMA ReadEntryType ==
    ASSUME TypeOK, NEW e \in Entries
    PROVE  ReadEntry(e) \in Seq(Byte)
  <1>1. ASSUME NEW i \in 1 .. e.size, NEW s \in DataSectors
        PROVE  dData[s][1 + ((i - 1) % SectorSize)] \in Byte
    <2>1. i - 1 \in Nat /\ SectorSize \in Nat /\ SectorSize > 0
      BY LayoutAssumption DEF Entries
    <2>2. 1 + ((i - 1) % SectorSize) \in 1 .. SectorSize
      BY <2>1
    <2>3. dData[s] \in [1 .. SectorSize -> Byte]
      BY DEF TypeOK, Sector
    <2> QED
      BY <2>2, <2>3
  <1>2. ReadEntry(e) \in [1 .. e.size -> Byte]
    BY <1>1, DataAssumption DEF ReadEntry
  <1> QED
    BY <1>2 DEF Entries

LEMMA FirstOfType ==
    ASSUME NEW hits, NEW none
    PROVE  FirstOf(hits, none) \in hits \/ FirstOf(hits, none) = none
  BY DEF FirstOf

LEMMA FindSlotType ==
    ASSUME NEW n
    PROVE  /\ FindSlot(n) \in DirIdx \cup {NoSlot}
           /\ FindSlot(n) # NoSlot => FindSlot(n) < gCount
  BY FirstOfType DEF FindSlot

LEMMA FreeEntryType == FreeEntry \in DirIdx \cup {NoIndex}
  BY FirstOfType DEF FreeEntry

-----------------------------------------------------------------------------
(* Every step keeps the inductive invariant *)

LEMMA SourceFilesType == SourceFiles \in [DirIdx -> Files] /\ Len(SourceNames) \in 0 .. DirEntries
  <1>1. ASSUME NEW k \in DirIdx, k < Len(SourceNames)
        PROVE  SourceNames[k + 1] \in Names /\ SourceData[k + 1] \in Seq(Byte)
    BY <1>1, DataAssumption, Layout
  <1> QED
    BY <1>1, DataAssumption, Layout DEF SourceFiles, Files, EmptySlot

LEMMA ConstantTypes ==
    /\ NoEntry \in Entries /\ ~NoEntry.used
    /\ EmptyDir \in [DirIdx -> Entries]
    /\ EmptySlot \in Files
    /\ EmptyFiles \in [DirIdx -> Files]
    /\ NoCallYet \in Calls /\ NoCallYet.op = "none" /\ NoCallYet.slot = NoSlot
    /\ NoInstall \in [files : [DirIdx -> Files], count : 0 .. DirEntries, pos : Nat]
    /\ NoSuper \in Supers /\ ~NoSuper.ok
  BY Layout DEF NoEntry, Entries, EmptyDir, EmptySlot, Files, EmptyFiles, NoCallYet, Calls,
                NoInstall, NoSuper, Supers, NoSlot, NoIndex

LEMMA InitIInv == Init => IInv
  <1> SUFFICES ASSUME Init PROVE IInv
    OBVIOUS
  <1>1. TypeOK
    BY ConstantTypes, SourceFilesType, Layout DEF Init, TypeOK
  <1>2. Geometry
    BY ConstantTypes DEF Init, Geometry, InRegion, MemKnown, EmptyDir
  <1>3. CallOK
    BY ConstantTypes DEF Init, CallOK, SlotOK
  <1>4. Separation
    BY ConstantTypes DEF Init, Separation, DiskApart, MemApart, Apart, Below, EmptyDir, MemKnown
  <1> QED
    BY <1>1, <1>2, <1>3, <1>4 DEF IInv

\* A call that begins or is refused changes only the variables of the call.
LEMMA BeginWriteIInv ==
    ASSUME IInv, NEW n, NEW d \in Seq(Byte), NEW append \in BOOLEAN,
           NEW rest \in [files : [DirIdx -> Files], count : 0 .. DirEntries, pos : Nat],
           BeginWrite(n, d, append, rest), UNCHANGED <<disk, mem, stale>>
    PROVE  IInv'
  <1> DEFINE slot  == FindSlot(n)
             final == IF append /\ slot # NoSlot THEN gFiles[slot].data \o d ELSE d
             idx   == IF slot # NoSlot THEN gFiles[slot].idx ELSE FreeEntry
  <1> USE DEF IInv
  <1>1. /\ slot \in DirIdx \cup {NoSlot}
        /\ slot # NoSlot => slot < gCount
    BY FindSlotType
  <1>2. slot # NoSlot => gFiles[slot] \in Files
    BY <1>1 DEF TypeOK
  <1>3. final \in Seq(Byte) /\ idx \in DirIdx \cup {NoIndex}
    BY <1>2, FreeEntryType DEF Files
  <1>4. SectorCount(final) \in Nat /\ SectorCount(final) > 0
    BY <1>3, SectorCountType
  <1>5. CASE pc' = "idle" /\ call' = NoCallYet /\ cur' = 0 /\ install' = NoInstall /\ ret' = "fail"
    <2>1. TypeOK'
      BY <1>5, ConstantTypes DEF TypeOK, disk, mem
    <2>2. Geometry' /\ CallOK' /\ Separation'
      BY <1>5, ConstantTypes
         DEF disk, mem, Geometry, CallOK, SlotOK, Separation, DiskApart, MemApart, MemKnown, Writing
    <2> QED
      BY <2>1, <2>2
  <1>6. CASE /\ writable
             /\ n \in ValidNames
             /\ slot = NoSlot => (FreeEntry # NoIndex /\ gCount < DirEntries)
             /\ gNext + SectorCount(final) <= TotalSectors
             /\ pc' = "data"
             /\ cur' = 0
             /\ ret' = "none"
             /\ install' = rest
             /\ call' = [op |-> IF append THEN "append" ELSE "write", name |-> n, data |-> final,
                         text |-> d, slot |-> slot, idx |-> idx, start |-> gNext,
                         count |-> SectorCount(final)]
    <2>1. TypeOK'
      BY <1>1, <1>3, <1>4, <1>6, ConstantTypes DEF TypeOK, disk, mem, Calls, Names
    <2>2. Geometry' /\ Separation'
      BY <1>6 DEF disk, mem, Geometry, Separation, DiskApart, MemApart, MemKnown
    <2>3. CallOK'
      BY <1>1, <1>4, <1>6, <1>3 DEF CallOK, SlotOK, Writing, mem
    <2> QED
      BY <2>1, <2>2, <2>3
  <1> QED
    BY <1>5, <1>6 DEF BeginWrite, Return

LEMMA WriteIInv ==
    ASSUME IInv, NEW n \in Names, NEW d \in Writes, NEW append \in BOOLEAN, Write(n, d, append)
    PROVE  IInv'
  <1>1. d \in Seq(Byte)
    BY DataAssumption
  <1> QED
    BY <1>1, BeginWriteIInv, ConstantTypes DEF Write

LEMMA CopyNextIInv == ASSUME IInv, CopyNext PROVE IInv'
  <1> DEFINE file == install.files[install.pos]
             rest == [install EXCEPT !.pos = @ + 1]
  <1>1. install.pos \in DirIdx
    BY Layout DEF IInv, TypeOK, CallOK, CopyNext, DirIdx
  <1>2. file.data \in Seq(Byte)
    BY <1>1 DEF IInv, TypeOK, Files
  <1>3. rest \in [files : [DirIdx -> Files], count : 0 .. DirEntries, pos : Nat]
    BY DEF IInv, TypeOK
  <1>4. BeginWrite(file.name, file.data, FALSE, rest) /\ UNCHANGED <<disk, mem, stale>>
    BY DEF CopyNext
  <1> QED
    BY <1>2, <1>3, <1>4, BeginWriteIInv

\* Clearing an entry of g_dir frees sectors, which nothing reuses before a format.
LEMMA RemoveIInv == ASSUME IInv, NEW n \in Names, Remove(n) PROVE IInv'
  <1> DEFINE slot == FindSlot(n)
  <1> USE DEF IInv
  <1>1. /\ slot \in DirIdx \cup {NoSlot}
        /\ slot # NoSlot => slot < gCount
    BY FindSlotType
  <1>2. CASE Return("fail") /\ UNCHANGED <<disk, mem, stale>>
    <2>1. TypeOK'
      BY <1>2, ConstantTypes DEF TypeOK, disk, mem, Return
    <2>2. Geometry' /\ CallOK' /\ Separation'
      BY <1>2, ConstantTypes
         DEF disk, mem, Return, Geometry, CallOK, SlotOK, Separation, DiskApart, MemApart,
             MemKnown, Writing
    <2> QED
      BY <2>1, <2>2
  <1>3. CASE /\ writable /\ slot # NoSlot
             /\ pc' = "dir" /\ cur' = 0 /\ ret' = "none"
             /\ call' = [NoCallYet EXCEPT !.op = "remove", !.name = n, !.slot = slot,
                                          !.idx = gFiles[slot].idx]
             /\ gDir' = [gDir EXCEPT ![gFiles[slot].idx] = NoEntry]
             /\ UNCHANGED <<disk, ata, writable, gNext, gFiles, gCount, stale, install>>
    <2>1. gFiles[slot] \in Files
      BY <1>1, <1>3 DEF TypeOK
    <2>2. call' \in Calls
      BY <1>1, <1>3, <2>1, ConstantTypes DEF Calls, Files
    <2>3. /\ call'.op = "remove" /\ call'.slot = slot
      BY <1>3, ConstantTypes DEF Calls
    <2>4. gDir' \in [DirIdx -> Entries] /\ \A i \in DirIdx : gDir'[i] = gDir[i] \/ ~gDir'[i].used
      BY <1>3, ConstantTypes DEF TypeOK
    <2>5. TypeOK'
      BY <1>3, <2>2, <2>4 DEF TypeOK, disk
    <2>6. Geometry'
      BY <1>3, <2>3, <2>4 DEF Geometry, InRegion, MemKnown, disk
    <2>7. CallOK'
      BY <1>1, <1>3, <2>3 DEF CallOK, SlotOK, Writing
    <2>8. Separation'
      BY <1>3, <2>3, <2>4 DEF Separation, DiskApart, MemApart, MemKnown, Apart, Below, disk
    <2> QED
      BY <2>5, <2>6, <2>7, <2>8
  <1> QED
    BY <1>2, <1>3 DEF Remove, mem

LEMMA InstallIInv == ASSUME IInv, Install PROVE IInv'
  <1> USE DEF IInv
  <1>1. call' \in Calls /\ (pc' = "zero" => call'.op = "format")
        /\ call'.op \in {"none", "format"} /\ call'.slot = NoSlot
    BY ConstantTypes DEF Install, Calls, Return
  <1>2. TypeOK'
    BY <1>1, ConstantTypes DEF TypeOK, Install, Return, disk, mem
  <1>3. Geometry' /\ Separation'
    BY <1>1 DEF Install, Return, disk, mem, Geometry, Separation, DiskApart, MemApart, MemKnown
  <1>4. CallOK'
    <2>1. \A i \in DirIdx : ~(1 + i \div EntriesPerSector < 0)
      BY DirectoryFits
    <2> QED
      BY <1>1, <2>1 DEF Install, Return, CallOK, SlotOK, Writing
  <1> QED
    BY <1>2, <1>3, <1>4

\* The new extent starts at next_free_sector: above every extent in memory and on disk.
LEMMA WriteDataSectorIInv == ASSUME IInv, WriteDataSector PROVE IInv'
  <1> DEFINE written == [dData EXCEPT ![call.start + cur] = SectorOf(call.data, cur)]
             entry == [used |-> TRUE, start |-> call.start, count |-> call.count,
                       size |-> Len(call.data), name |-> call.name]
  <1> USE DEF IInv
  <1>1. /\ pc = "data" /\ Writing /\ writable /\ SlotOK
        /\ call.start = gNext /\ call.start + call.count <= TotalSectors
        /\ DataStart <= gNext
    BY DEF WriteDataSector, CallOK, Writing, Geometry, MemKnown
  <1>2. call \in Calls /\ cur \in Nat /\ call.data \in Seq(Byte)
    BY DEF TypeOK, Calls
  <1>3. dData' \in [DataSectors -> Sector]
    <2>1. written \in [DataSectors -> Sector]
      BY <1>2, SectorOfType DEF TypeOK
    <2> QED
      BY <2>1 DEF WriteDataSector, TypeOK
  <1>4. entry \in Entries /\ InRegion(entry) /\ entry.start = gNext
    BY <1>1, <1>2 DEF Entries, Calls, InRegion
  <1>5. CASE /\ cur + 1 < call.count /\ cur' = cur + 1
             /\ UNCHANGED <<pc, gDir, gNext, call, install, ret>>
    <2>1. TypeOK'
      BY <1>3, <1>5 DEF WriteDataSector, TypeOK
    <2>2. Geometry' /\ CallOK' /\ Separation'
      BY <1>1, <1>5 DEF WriteDataSector, Geometry, CallOK, SlotOK, Separation, DiskApart, MemApart,
                        MemKnown, Writing
    <2> QED
      BY <2>1, <2>2
  <1>6. CASE Return("fail") /\ UNCHANGED <<gDir, gNext>>
    <2>1. TypeOK'
      BY <1>3, <1>6, ConstantTypes DEF WriteDataSector, TypeOK, Return
    <2>2. Geometry' /\ CallOK' /\ Separation'
      BY <1>1, <1>6, ConstantTypes
         DEF WriteDataSector, Return, Geometry, CallOK, SlotOK, Separation, DiskApart, MemApart,
             MemKnown, Writing
    <2> QED
      BY <2>1, <2>2
  <1>7. CASE /\ cur' = 0 /\ pc' = "dir"
             /\ gDir' = [gDir EXCEPT ![call.idx] = entry]
             /\ gNext' = call.start + call.count
             /\ UNCHANGED <<call, install, ret>>
    <2>1. gNext' \in Nat /\ gNext <= gNext' /\ gNext' <= TotalSectors /\ Below(entry, gNext')
      BY <1>1, <1>2, <1>7, Layout DEF TypeOK, Calls, Below
    <2>2. gDir' \in [DirIdx -> Entries]
      BY <1>4, <1>7 DEF TypeOK
    <2>3. TypeOK'
      BY <1>3, <1>7, <2>1, <2>2 DEF WriteDataSector, TypeOK
    <2>4. Geometry'
      BY <1>1, <1>4, <1>7, <2>1, Layout DEF WriteDataSector, Geometry, MemKnown, TypeOK
    <2>5. CallOK'
      BY <1>1, <1>7 DEF WriteDataSector, CallOK, SlotOK, Writing
    <2>6. ASSUME ~stale PROVE MemApart'
      <3>1. MemApart
        BY <1>1, <2>6 DEF Separation, MemKnown
      <3>2. ASSUME NEW e \in Entries, Below(e, gNext)
            PROVE  Apart(entry, e) /\ Apart(e, entry) /\ Below(e, gNext')
        <4>1. e.start \in Nat /\ e.count \in Nat /\ gNext \in Nat
          BY DEF Entries, TypeOK
        <4>2. e.used => e.start + e.count <= entry.start
          BY <1>4, <3>2 DEF Below
        <4> QED
          BY <1>4, <2>1, <4>1, <4>2 DEF Apart, Below, Disjoint
      <3>3. \A i \in DirIdx : gDir'[i] = gDir[i] \/ (gDir'[i] = entry /\ i = call.idx)
        BY <1>7 DEF TypeOK
      <3>4. \A i \in DirIdx : gDir[i] \in Entries /\ dDir[i] \in Entries /\ dDir'[i] = dDir[i]
        BY DEF TypeOK, WriteDataSector
      <3>5. \A i, j \in DirIdx : i # j => Apart(gDir'[i], gDir'[j]) /\ Apart(gDir'[i], dDir[j])
        BY <3>1, <3>2, <3>3, <3>4 DEF MemApart
      <3>6. \A i \in DirIdx : /\ gDir'[i] = dDir[i] \/ Apart(gDir'[i], dDir[i])
                              /\ Below(gDir'[i], gNext')
                              /\ Below(dDir[i], gNext')
        BY <3>1, <3>2, <3>3, <3>4, <2>1 DEF MemApart
      <3> QED
        BY <3>4, <3>5, <3>6 DEF MemApart
    <2>7. Separation'
      BY <2>6 DEF Separation, DiskApart, WriteDataSector
    <2> QED
      BY <2>3, <2>4, <2>5, <2>7
  <1> QED
    BY <1>5, <1>6, <1>7 DEF WriteDataSector

\* Each entry of the new directory sector is memory's, every other one stays.
LEMMA WriteDirSectorIInv == ASSUME IInv, WriteDirSector PROVE IInv'
  <1> USE DEF IInv
  <1>1. /\ dDir' \in [DirIdx -> Entries]
        /\ \A i \in DirIdx : dDir'[i] = dDir[i] \/ dDir'[i] = gDir[i]
    BY DEF WriteDirSector, TypeOK
  <1>2. /\ \/ /\ pc' \in {"dir", "super", "end"} /\ cur' \in Nat
              /\ (pc' = "super" => Writing)
              /\ UNCHANGED <<call, install, ret>>
           \/ Return("fail")
        /\ pc = "dir"
        /\ UNCHANGED <<dSuper, dData, media, mem, stale>>
    BY DEF WriteDirSector, TypeOK, Writing
  <1>3. TypeOK'
    BY <1>1, <1>2, ConstantTypes DEF TypeOK, Return, mem
  <1>4. MemKnown' => MemKnown
    BY <1>2, ConstantTypes DEF MemKnown, Return, mem
  <1>5. MemKnown
    BY <1>2 DEF CallOK, MemKnown
  <1>6. Geometry'
    BY <1>1, <1>2, <1>4 DEF Geometry, mem
  <1>7. CallOK'
    BY <1>2, ConstantTypes DEF CallOK, SlotOK, Writing, Return, mem
  <1>8. ASSUME ~stale PROVE DiskApart' /\ MemApart'
    <2>1. DiskApart /\ MemApart
      BY <1>5, <1>8 DEF Separation
    <2>2. \A i, j \in DirIdx : Apart(gDir[i], dDir[j]) => Apart(dDir[j], gDir[i])
      BY DEF Apart, Disjoint
    <2>3. UNCHANGED <<gDir, gNext>>
      BY <1>2 DEF mem
    <2> QED
      BY <1>1, <2>1, <2>2, <2>3 DEF DiskApart, MemApart, Apart
  <1>9. Separation'
    BY <1>2, <1>8 DEF Separation
  <1> QED
    BY <1>3, <1>6, <1>7, <1>9

LEMMA WriteSuperIInv == ASSUME IInv, WriteSuper PROVE IInv'
  <1> USE DEF IInv
  <1>1. /\ \/ /\ pc' \in {"dir", "end"}
              /\ UNCHANGED <<cur, call, install, ret>>
           \/ Return("fail")
        /\ pc = "super"
        /\ UNCHANGED <<dDir, dData, media, mem, stale>>
    BY DEF WriteSuper
  <1>2. MemKnown
    BY <1>1 DEF CallOK, MemKnown
  <1>3. dSuper' \in Supers /\ (dSuper' = dSuper \/ dSuper'.next = gNext)
    <2>1. CASE dSuper' = dSuper
      BY <2>1 DEF TypeOK
    <2>2. CASE dSuper' = [ok |-> TRUE, next |-> gNext]
      BY <2>2 DEF TypeOK, Supers
    <2> QED
      BY <2>1, <2>2 DEF WriteSuper
  <1>4. TypeOK'
    BY <1>1, <1>3, ConstantTypes DEF TypeOK, Return, mem
  <1>5. Geometry'
    BY <1>1, <1>2, <1>3, ConstantTypes DEF Geometry, MemKnown, mem, Return
  <1>6. CallOK'
    BY <1>1, ConstantTypes DEF CallOK, SlotOK, Writing, Return, mem
  <1>7. Separation'
    BY <1>1, <1>2 DEF Separation, DiskApart, MemApart, MemKnown, mem, Return
  <1> QED
    BY <1>4, <1>5, <1>6, <1>7

\* The zero loop leaves no directory entry behind, so the new epoch starts clean.
LEMMA ZeroOneIInv == ASSUME IInv, ZeroOne PROVE IInv'
  <1> USE DEF IInv
  <1>1. pc = "zero" /\ call.op = "format"
    BY DEF ZeroOne, CallOK
  <1>2. Zeroed \/ UNCHANGED disk
    BY DEF ZeroOne
  <1>3. /\ dDir' \in [DirIdx -> Entries]
        /\ \A i \in DirIdx : dDir'[i] = dDir[i] \/ dDir'[i] = NoEntry
    BY <1>2, ConstantTypes DEF Zeroed, disk, TypeOK
  <1>4. dData' \in [DataSectors -> Sector]
    BY <1>2, Layout DEF Zeroed, disk, TypeOK
  <1>5. dSuper' \in Supers /\ (dSuper' = dSuper \/ ~dSuper'.ok)
    BY <1>2, ConstantTypes DEF Zeroed, disk, TypeOK
  <1>6. media' \in BOOLEAN
    BY <1>2 DEF Zeroed, disk, TypeOK
  <1>7. DiskApart => DiskApart'
    BY <1>3, ConstantTypes DEF DiskApart, Apart
  <1>8. CASE Return("fail") /\ UNCHANGED <<gNext, gDir, stale>>
    <2>1. TypeOK'
      BY <1>3, <1>4, <1>5, <1>6, <1>8, ConstantTypes DEF TypeOK, ZeroOne, Return
    <2>2. MemKnown' => MemKnown
      BY <1>8, ConstantTypes DEF MemKnown, ZeroOne, Return
    <2>3. Geometry'
      BY <1>3, <1>5, <1>8, <2>2, ConstantTypes DEF Geometry, InRegion
    <2>4. CallOK'
      BY <1>8, ConstantTypes DEF CallOK, SlotOK, Writing, Return
    <2>5. MemApart => MemApart'
      BY <1>3, <1>8, ConstantTypes DEF MemApart, Apart, Below
    <2>6. Separation'
      BY <1>7, <1>8, <2>2, <2>5 DEF Separation
    <2> QED
      BY <2>1, <2>3, <2>4, <2>6
  <1>9. CASE /\ Zeroed /\ cur + 1 < TotalSectors
             /\ cur' = cur + 1
             /\ UNCHANGED <<pc, gNext, gDir, stale, call, install, ret>>
    <2>1. TypeOK'
      BY <1>3, <1>4, <1>5, <1>6, <1>9 DEF TypeOK, ZeroOne
    <2>2. MemKnown' => MemKnown
      BY <1>9 DEF MemKnown, ZeroOne
    <2>3. Geometry'
      BY <1>3, <1>5, <1>9, <2>2, ConstantTypes DEF Geometry, InRegion
    <2>4. ASSUME NEW i \in DirIdx, 1 + i \div EntriesPerSector < cur'
          PROVE  dDir'[i] = NoEntry
      <3>1. 1 + i \div EntriesPerSector < cur \/ 1 + i \div EntriesPerSector = cur
        BY <1>9, <2>4, DirectoryFits DEF TypeOK
      <3> QED
        BY <1>1, <1>9, <3>1 DEF CallOK, Zeroed
    <2>5. ~dSuper'.ok
      BY <1>1, <1>9, ConstantTypes DEF CallOK, Zeroed, TypeOK
    <2>6. CallOK'
      BY <1>1, <1>9, <2>4, <2>5 DEF CallOK, SlotOK, Writing
    <2>7. MemApart => MemApart'
      BY <1>3, <1>9, ConstantTypes DEF MemApart, Apart, Below
    <2>8. Separation'
      BY <1>7, <1>9, <2>2, <2>7 DEF Separation
    <2> QED
      BY <2>1, <2>3, <2>6, <2>8
  <1>10. CASE /\ Zeroed /\ ~(cur + 1 < TotalSectors)
              /\ pc' = "super" /\ cur' = 0
              /\ gNext' = DataStart /\ gDir' = EmptyDir /\ stale' = FALSE
              /\ UNCHANGED <<call, install, ret>>
    <2>1. TypeOK'
      BY <1>3, <1>4, <1>5, <1>6, <1>10, ConstantTypes, Layout DEF TypeOK, ZeroOne
    <2>2. ASSUME NEW i \in DirIdx PROVE dDir'[i] = NoEntry /\ gDir'[i] = NoEntry
      <3>1. 1 + i \div EntriesPerSector < cur \/ 1 + i \div EntriesPerSector = cur
        BY <1>10, DirectoryFits, LayoutAssumption DEF TypeOK, DataStart
      <3> QED
        BY <1>1, <1>10, <3>1 DEF CallOK, Zeroed, EmptyDir
    <2>3. Geometry'
      BY <1>5, <1>10, <2>2, ConstantTypes, LayoutAssumption, Layout DEF Geometry, InRegion
    <2>4. CallOK'
      BY <1>1, <1>10 DEF CallOK, SlotOK, Writing
    <2>5. Separation'
      BY <2>2, ConstantTypes DEF Separation, DiskApart, MemApart, Apart, Below
    <2> QED
      BY <2>1, <2>3, <2>4, <2>5
  <1> QED
    BY <1>8, <1>9, <1>10 DEF ZeroOne

LEMMA FinishIInv == ASSUME IInv, Finish PROVE IInv'
  <1> USE DEF IInv
  <1>1. /\ call.op \in {"write", "append", "remove", "format"}
        /\ call.op # "format" => writable /\ SlotOK
        /\ pc = "end"
    BY DEF Finish, CallOK
  <1>2. MemKnown
    BY <1>1 DEF MemKnown
  <1>3. /\ gFiles' \in [DirIdx -> Files]
        /\ gCount' \in 0 .. DirEntries
        /\ writable' \in BOOLEAN
    <2>1. CASE StoreFile
      <3>1. [name |-> call.name, data |-> call.data, idx |-> call.idx] \in Files
        BY DEF TypeOK, Calls, Files
      <3>2. gCount' \in 0 .. DirEntries
        BY <1>1, <2>1, Layout DEF StoreFile, SlotOK, Writing, TypeOK
      <3> QED
        BY <2>1, <3>1, <3>2 DEF StoreFile, TypeOK
    <2>2. CASE DropFile
      <3>1. call.slot < gCount /\ call.slot \in Nat
        BY <1>1, <2>2, Layout DEF DropFile, SlotOK, CallOK, TypeOK, Calls
      <3>2. gCount' \in 0 .. DirEntries
        BY <2>2, <3>1, Layout DEF DropFile, TypeOK
      <3>3. \A k \in DirIdx : k + 1 < gCount => k + 1 \in DirIdx
        BY Layout DEF TypeOK, DirIdx
      <3> QED
        BY <2>2, <3>2, <3>3, ConstantTypes DEF DropFile, TypeOK
    <2>3. CASE ResetFiles
      BY <2>3, ConstantTypes, Layout DEF ResetFiles
    <2> QED
      BY <2>1, <2>2, <2>3 DEF Finish
  <1>4. /\ pc' \in {"copy", "idle"} /\ cur' = 0 /\ call' = NoCallYet /\ ret' = "ok"
        /\ \/ install' = NoInstall /\ pc' = "idle"
           \/ install' = install /\ install.pos < install.count
        /\ UNCHANGED <<disk, ata, gNext, gDir, stale>>
    BY DEF Finish, Return
  <1>5. TypeOK'
    BY <1>3, <1>4, ConstantTypes DEF TypeOK, disk
  <1>6. Geometry'
    BY <1>2, <1>4 DEF Geometry, disk
  <1>7. CallOK'
    BY <1>4, ConstantTypes DEF CallOK, SlotOK, Writing
  <1>8. Separation'
    BY <1>2, <1>4 DEF Separation, DiskApart, MemApart, disk
  <1> QED
    BY <1>5, <1>6, <1>7, <1>8

LEMMA MountedFilesType ==
    ASSUME TypeOK
    PROVE  MountedFiles \in [DirIdx -> Files] /\ MountedCount \in 0 .. DirEntries
  <1>1. ASSUME NEW i \in DirIdx
        PROVE  [name |-> dDir[i].name, data |-> ReadEntry(dDir[i]), idx |-> i] \in Files
    <2>1. dDir[i] \in Entries
      BY DEF TypeOK
    <2> QED
      BY <2>1, ReadEntryType DEF Entries, Files
  <1>2. MountedFiles \in [DirIdx -> Files]
    BY <1>1, ConstantTypes DEF MountedFiles
  <1>3. IsFiniteSet(DirIdx) /\ Cardinality(DirIdx) = DirEntries
    BY FS_Interval, Layout DEF DirIdx
  <1>4. {i \in DirIdx : dDir[i].used} \subseteq DirIdx
    OBVIOUS
  <1> QED
    BY <1>2, <1>3, <1>4, FS_Subset, FS_CardinalityType, Layout DEF MountedCount

\* A mount takes the disk for the truth: what is in use must be below its next_free_sector.
LEMMA BootMountedIInv == ASSUME IInv, BootMounted PROVE IInv'
  <1> USE DEF IInv
  <1>1. TypeOK'
    BY MountedFilesType, ConstantTypes DEF BootMounted, BootTo, Return, TypeOK, disk, Supers
  <1>2. Geometry'
    BY DEF BootMounted, BootTo, Geometry, disk
  <1>3. CallOK'
    BY ConstantTypes DEF BootMounted, BootTo, Return, CallOK, SlotOK, Writing
  <1>4. ASSUME ~stale' PROVE DiskApart' /\ MemApart'
    <2>1. DiskApart /\ SuperCovers
      BY <1>4 DEF BootMounted, Separation, TypeOK
    <2>2. gDir' = dDir /\ dDir' = dDir /\ gNext' = dSuper.next
      BY DEF BootMounted, BootTo, disk
    <2>3. \A i \in DirIdx : Below(dDir[i], gNext')
      BY <2>1, <2>2 DEF SuperCovers, Below
    <2> QED
      BY <2>1, <2>2, <2>3 DEF DiskApart, MemApart
  <1>5. Separation'
    BY <1>4 DEF Separation
  <1> QED
    BY <1>1, <1>2, <1>3, <1>5

LEMMA BootFallbackIInv == ASSUME IInv, BootFallback PROVE IInv'
  <1> USE DEF IInv
  <1>1. PICK present \in BOOLEAN, got \in Nat :
          BootTo(present, FALSE, IF present THEN dSuper.next ELSE 0,
                 [i \in DirIdx |-> IF i \div EntriesPerSector < got THEN dDir[i] ELSE NoEntry],
                 IF media THEN SourceFiles ELSE EmptyFiles,
                 IF media THEN Len(SourceNames) ELSE 0)
    <2>1. 0 .. DirSectors \subseteq Nat
      BY Layout
    <2>2. (IF Io THEN BOOLEAN ELSE {TRUE}) \subseteq BOOLEAN
      OBVIOUS
    <2> QED
      BY <2>1, <2>2 DEF BootFallback
  <1>2. UNCHANGED stale
    BY DEF BootFallback
  <1>3. /\ gDir' \in [DirIdx -> Entries]
        /\ \A i \in DirIdx : gDir'[i] = dDir[i] \/ gDir'[i] = NoEntry
    BY <1>1, ConstantTypes DEF BootTo, TypeOK
  <1>4. TypeOK'
    <2>1. gNext' \in Nat
      BY <1>1 DEF BootTo, TypeOK, Supers
    <2>2. gFiles' \in [DirIdx -> Files]
      BY <1>1, SourceFilesType, ConstantTypes DEF BootTo
    <2>3. gCount' \in 0 .. DirEntries
      BY <1>1, SourceFilesType, Layout DEF BootTo
    <2>4. /\ ata' \in BOOLEAN /\ writable' = FALSE
          /\ Return("none") /\ UNCHANGED disk
      BY <1>1 DEF BootTo
    <2> QED
      BY <1>2, <1>3, <2>1, <2>2, <2>3, <2>4, ConstantTypes DEF Return, TypeOK, disk
  <1>5. ~MemKnown'
    BY <1>1, ConstantTypes DEF BootTo, Return, MemKnown
  <1>6. Geometry'
    BY <1>1, <1>3, <1>5, ConstantTypes DEF BootTo, Geometry, InRegion, disk
  <1>7. CallOK'
    BY <1>1, ConstantTypes DEF BootTo, Return, CallOK, SlotOK, Writing
  <1>8. Separation'
    BY <1>1, <1>2, <1>5 DEF BootTo, Separation, DiskApart, disk
  <1> QED
    BY <1>4, <1>6, <1>7, <1>8

LEMMA NextIInv == IInv /\ [Next]_vars => IInv'
  <1> SUFFICES ASSUME IInv, [Next]_vars PROVE IInv'
    OBVIOUS
  <1>1. ASSUME NEW n \in Names, NEW d \in Writes, NEW append \in BOOLEAN, Write(n, d, append)
        PROVE  IInv'
    BY <1>1, WriteIInv
  <1>2. ASSUME NEW n \in Names, Remove(n) PROVE IInv'
    BY <1>2, RemoveIInv
  <1>3. CASE UNCHANGED vars
    BY <1>3 DEF vars, disk, mem, IInv, TypeOK, Geometry, CallOK, SlotOK, Writing, MemKnown,
                Separation, DiskApart, MemApart
  <1> QED
    BY <1>1, <1>2, <1>3, InstallIInv, CopyNextIInv, WriteDataSectorIInv, WriteDirSectorIInv,
       WriteSuperIInv, ZeroOneIInv, FinishIInv, BootMountedIInv, BootFallbackIInv DEF Next

-----------------------------------------------------------------------------
(* The theorems *)

\* Every reachable state of flarefs satisfies the inductive invariant.
THEOREM Invariance == Spec => []IInv
  BY InitIInv, NextIInv, PTL DEF Spec

\* The types of TypeOK hold for every layout and every fault.
THEOREM TypeCorrect == Spec => []TypeOK
  BY Invariance, PTL DEF IInv

\* Files never share a sector, nor lie outside the allocated part of the data area,
\* whatever writes fail and whenever the power goes, until a mount takes a superblock
\* that lags behind its directory.
THEOREM ExtentsStayDisjoint == Spec => []ExtentsDisjoint
  <1>1. IInv => ExtentsDisjoint
    BY DEF IInv, Geometry, InRegion, Separation, MemKnown, MemApart, Apart, Below,
           ExtentsDisjoint
  <1> QED
    BY <1>1, Invariance, PTL

\* No step overwrites a data sector of a file a reboot would find, with the same exception.
THEOREM NothingClobbered == Spec => NoClobber
  <1>1. IInv /\ [Next]_vars => [~stale => ~Clobbers]_vars
    <2> SUFFICES ASSUME IInv, Next, ~stale,
                        NEW s \in DataSectors, dData'[s] # dData[s], dSuper.ok,
                        NEW i \in DirIdx, dDir[i].used, s \in Extent(dDir[i])
                 PROVE  FALSE
      BY DEF Clobbers
    <2> USE DEF IInv
    <2>1. CASE WriteDataSector
      <3>1. s = call.start + cur
        <4>1. dData' \in {dData, [dData EXCEPT ![call.start + cur] = SectorOf(call.data, cur)]}
          BY <2>1 DEF WriteDataSector
        <4> QED
          BY <4>1 DEF TypeOK
      <3>2. call.start = gNext /\ Below(dDir[i], gNext)
        BY <2>1 DEF WriteDataSector, CallOK, Separation, MemApart, MemKnown, Writing
      <3>3. /\ dDir[i].start \in Nat /\ dDir[i].count \in Nat
            /\ gNext \in Nat /\ cur \in Nat
        BY DEF TypeOK, Entries
      <3> QED
        BY <3>1, <3>2, <3>3 DEF Below, Extent
    <2>2. CASE ZeroOne
      <3>1. s = cur
        BY <2>2 DEF ZeroOne, Zeroed, disk, TypeOK
      <3>2. cur > 0
        BY <3>1, Layout DEF DataSectors
      <3> QED
        BY <2>2, <3>2 DEF ZeroOne, CallOK
    <2>3. CASE dData' = dData
      BY <2>3
    <2> QED
      BY <2>1, <2>2, <2>3
         DEF Next, Write, Remove, Install, CopyNext, WriteDirSector, WriteSuper, Finish,
             BootMounted, BootFallback, BootTo, disk
  <1> QED
    BY <1>1, Invariance, PTL DEF Spec, NoClobber

-----------------------------------------------------------------------------
(* The files in memory and the files on the disk *)

\* What a mount reads for an entry from these data sectors: ReadEntry, as an operator of
\* its own arguments only.
BytesOf(data, e) ==
    [i \in 1 .. e.size |->
        LET s == e.start + (i - 1) \div SectorSize
        IN  IF s \in DataSectors /\ s < e.start + e.count
            THEN data[s][1 + ((i - 1) % SectorSize)] ELSE 0]

\* A file in memory and an entry of a directory say the same: same name, and the text is
\* what a mount would read for the entry.
Mirrors(data, f, e) == e.used /\ e.name = f.name /\ BytesOf(data, e) = f.data

\* g_dir is one call ahead of g_files: the call has its sectors still to write.
Updating == pc \in {"dir", "super", "end"} /\ call.op \in {"write", "append", "remove"}

\* Each file in g_files has an entry of its own in g_dir, which mirrors it, but for the
\* file of a call that is updating.
FilesMirror ==
    \A k \in DirIdx : k < gCount =>
        /\ gFiles[k].idx \in DirIdx
        /\ (Updating /\ k = call.slot) \/ Mirrors(dData, gFiles[k], gDir[gFiles[k].idx])
        /\ \A l \in DirIdx : (l < gCount /\ l # k) => /\ gFiles[l].idx # gFiles[k].idx
                                                     /\ gFiles[l].name # gFiles[k].name

\* Each entry in use has its file.
EntriesMirror ==
    \A i \in DirIdx : gDir[i].used =>
        \/ \E k \in DirIdx : k < gCount /\ gFiles[k].idx = i
        \/ Updating /\ Writing /\ i = call.idx

\* A running write, append or remove knows its file and its entry ...
CallMirror ==
    (pc = "data" \/ Updating) =>
        /\ call.idx \in DirIdx
        /\ \A k \in DirIdx : k < gCount =>
              /\ gFiles[k].name = call.name <=> k = call.slot
              /\ gFiles[k].idx = call.idx <=> k = call.slot
        /\ (pc = "data" /\ call.slot = NoSlot) => ~gDir[call.idx].used
        /\ (Updating /\ Writing) =>
              Mirrors(dData, [name |-> call.name, data |-> call.data], gDir[call.idx])
        /\ (Updating /\ ~Writing) => ~gDir[call.idx].used

\* ... and has written the sectors it has passed.
DataWritten ==
    pc = "data" =>
        /\ call.count = SectorCount(call.data)
        /\ \A k \in Nat : k < cur => dData[call.start + k] = SectorOf(call.data, k)

\* The directory on the disk is g_dir, but for the entry of a running call until the
\* directory sector of that entry is written: there it still has the file as it was.
Awaited(i) == pc = "dir" /\ i = call.idx /\ cur <= i \div EntriesPerSector

AsBefore(i) ==
    /\ dDir[i].used <=> call.slot # NoSlot
    /\ dDir[i].used => Mirrors(dData, gFiles[call.slot], dDir[i])

DirMirror ==
    /\ dSuper.ok
    /\ \A i \in DirIdx : IF Awaited(i) THEN AsBefore(i) ELSE dDir[i] = gDir[i]

\* Format's new directory, in memory and on the disk.
Formatted ==
    /\ \A i \in DirIdx : gDir[i] = NoEntry /\ dDir[i] = NoEntry
    /\ pc = "super" <=> ~dSuper.ok

NamesDistinct ==
    \A i, j \in DirIdx : (dDir[i].used /\ dDir[j].used /\ dDir[i].name = dDir[j].name) => i = j

\* What an append adds to is the file as it was.
TextKept ==
    (pc = "data" \/ Updating) =>
        /\ call.op = "write" => call.data = call.text
        /\ call.op = "append" =>
              call.data = IF call.slot = NoSlot THEN call.text
                          ELSE gFiles[call.slot].data \o call.text

Mirrored == FilesMirror /\ EntriesMirror /\ CallMirror /\ DataWritten /\ DirMirror /\ TextKept

\* What CacheCoherent rests on, as long as no write fails and no mount took a lagging superblock.
Coherent ==
    /\ pc \in {"idle", "copy"} => call = NoCallYet
    /\ ~stale => /\ dSuper.ok => NamesDistinct
                 /\ (writable /\ call.op # "format") => Mirrored
                 /\ (call.op = "format" /\ pc # "zero") => Formatted

-----------------------------------------------------------------------------
(* Sectors and files *)

LEMMA ReadEntryIsBytesOf == \A e : ReadEntry(e) = BytesOf(dData, e)
  BY DEF ReadEntry, BytesOf

\* What a mount reads for an entry depends on its own sectors only.
LEMMA BytesKept ==
    ASSUME NEW data, NEW data2, NEW e \in Entries,
           \A s \in DataSectors :
               (e.start <= s /\ s < e.start + e.count) => data2[s] = data[s]
    PROVE  BytesOf(data2, e) = BytesOf(data, e)
  <1>1. ASSUME NEW i \in 1 .. e.size
        PROVE  e.start <= e.start + (i - 1) \div SectorSize
    <2>1. i - 1 \in Nat /\ e.start \in Nat /\ SectorSize \in Nat /\ SectorSize > 0
      BY LayoutAssumption DEF Entries
    <2>2. (i - 1) \div SectorSize \in Nat
      BY <2>1
    <2> QED
      BY <2>1, <2>2
  <1> QED
    BY <1>1 DEF BytesOf

LEMMA BytesOfType ==
    ASSUME NEW data \in [DataSectors -> Sector], NEW e \in Entries
    PROVE  BytesOf(data, e) \in Seq(Byte)
  <1>1. ASSUME NEW i \in 1 .. e.size, NEW s \in DataSectors
        PROVE  data[s][1 + ((i - 1) % SectorSize)] \in Byte
    <2>1. i - 1 \in Nat /\ SectorSize \in Nat /\ SectorSize > 0
      BY LayoutAssumption DEF Entries
    <2>2. 1 + ((i - 1) % SectorSize) \in 1 .. SectorSize
      BY <2>1
    <2>3. data[s] \in [1 .. SectorSize -> Byte]
      BY DEF Sector
    <2> QED
      BY <2>2, <2>3
  <1>2. BytesOf(data, e) \in [1 .. e.size -> Byte]
    BY <1>1, DataAssumption DEF BytesOf
  <1> QED
    BY <1>2 DEF Entries

\* Division by the sector size.
LEMMA Division ==
    ASSUME NEW n \in Nat
    PROVE  /\ n \div SectorSize \in Nat /\ n % SectorSize \in 0 .. SectorSize - 1
           /\ n = (n \div SectorSize) * SectorSize + (n % SectorSize)
  BY LayoutAssumption

\* Byte i of a text lies in one of the sectors SectorCount gives it.
LEMMA ByteInSectors ==
    ASSUME NEW d \in Seq(Byte), NEW i \in 1 .. Len(d)
    PROVE  (i - 1) \div SectorSize < SectorCount(d)
  <1> DEFINE q == (i - 1) \div SectorSize
             t == Len(d) + SectorSize - 1
  <1>1. /\ i - 1 \in Nat /\ Len(d) \in Nat /\ SectorSize \in Nat /\ SectorSize > 0
        /\ t \in Nat /\ i \in Nat /\ i <= Len(d)
    BY LayoutAssumption
  <1>2. q \in Nat /\ q * SectorSize <= i - 1
    <2>1. q * SectorSize \in Nat
      BY <1>1, Division
    <2> QED
      BY <1>1, <2>1, Division
  <1>3. t \div SectorSize \in Nat /\ t < (t \div SectorSize) * SectorSize + SectorSize
    <2> HIDE DEF t
    <2>1. (t \div SectorSize) * SectorSize \in Nat
      BY <1>1, Division
    <2> QED
      BY <1>1, <2>1, Division
  <1>4. q * SectorSize + SectorSize <= t
    BY <1>1, <1>2
  <1>5. q < t \div SectorSize
    <2> DEFINE u == t \div SectorSize
    <2> HIDE DEF q, t, u
    <2>0. u \in Nat /\ t < u * SectorSize + SectorSize
      BY <1>3 DEF u
    <2>1. SUFFICES ASSUME u <= q PROVE FALSE
      BY <1>2, <2>0 DEF u
    <2>2. u * SectorSize <= q * SectorSize
      BY <1>1, <1>2, <2>0, <2>1
    <2>3. u * SectorSize \in Nat /\ q * SectorSize \in Nat
      BY <1>1, <1>2, <2>0
    <2> QED
      BY <1>1, <1>4, <2>0, <2>2, <2>3
  <1> QED
    BY <1>1, <1>5 DEF SectorCount

\* Reading back what the sector loop of flarefs_write_internal wrote.
LEMMA WrittenIsRead ==
    ASSUME NEW data, NEW d \in Seq(Byte), NEW e \in Entries,
           DataStart <= e.start, e.start + e.count <= TotalSectors,
           e.count = SectorCount(d), e.size = Len(d),
           \A k \in Nat : k < e.count => data[e.start + k] = SectorOf(d, k)
    PROVE  BytesOf(data, e) = d
  <1>1. ASSUME NEW i \in 1 .. Len(d)
        PROVE  BytesOf(data, e)[i] = d[i]
    <2> DEFINE q == (i - 1) \div SectorSize
               r == (i - 1) % SectorSize
    <2>1. i - 1 \in Nat /\ i \in Nat /\ SectorSize \in Nat /\ e.start \in Nat /\ e.count \in Nat
      BY LayoutAssumption DEF Entries
    <2>2. q \in Nat /\ q < e.count
      BY <2>1, Division, ByteInSectors
    <2>3. r \in 0 .. SectorSize - 1 /\ i - 1 = q * SectorSize + r
      BY <2>1, Division
    <2>4. r \in Nat /\ 1 + r \in 1 .. SectorSize /\ q * SectorSize + (1 + r) = i
      <3>1. q * SectorSize \in Nat
        BY <2>1, <2>2
      <3> DEFINE p == q * SectorSize
      <3> HIDE DEF q, r
      <3>2. p \in Nat /\ i - 1 = p + r
        BY <2>3, <3>1
      <3>3. r \in Nat /\ 1 + r \in 1 .. SectorSize
        BY <2>1, <2>3
      <3>4. p + (1 + r) = i
        <4> HIDE DEF p
        <4> QED
          BY <2>1, <3>2, <3>3
      <3> QED
        BY <3>3, <3>4
    <2>5. SectorOf(d, q)[1 + r] = d[i]
      <3> HIDE DEF q, r
      <3> QED
        BY <2>1, <2>4 DEF SectorOf
    <2>6. e.start + q \in DataSectors /\ e.start + q < e.start + e.count
      <3> HIDE DEF q, r
      <3> QED
        BY <2>1, <2>2, Layout DEF DataSectors
    <2>7. BytesOf(data, e)[i] = data[e.start + q][1 + r]
      BY <2>6 DEF BytesOf
    <2> QED
      BY <2>1, <2>2, <2>5, <2>7
  <1>2. BytesOf(data, e) = [i \in 1 .. Len(d) |-> BytesOf(data, e)[i]]
    BY DEF BytesOf
  <1>3. d = [i \in 1 .. Len(d) |-> d[i]]
    OBVIOUS
  <1> QED
    BY <1>1, <1>2, <1>3

-----------------------------------------------------------------------------
(* Looking a name up *)

LEMMA FirstOfOne ==
    ASSUME NEW hits \in SUBSET Nat, NEW k \in hits, \A l \in hits : l = k, NEW none
    PROVE  FirstOf(hits, none) = k
  <1>1. k \in Nat /\ k <= k
    OBVIOUS
  <1>2. {j \in hits : \A l \in hits : j <= l} = {k}
    BY <1>1
  <1> QED
    BY <1>2 DEF FirstOf

LEMMA FirstOfNone ==
    ASSUME NEW none
    PROVE  FirstOf({}, none) = none
  BY DEF FirstOf

NamesOnce ==
    \A k, l \in DirIdx : (k < gCount /\ l < gCount /\ gFiles[k].name = gFiles[l].name) => k = l

\* With no name twice in g_files, flarefs_find_slot finds the file if there is one.
LEMMA FindSlotFinds ==
    ASSUME NamesOnce, NEW n
    PROVE  /\ \A k \in DirIdx : (k < gCount /\ gFiles[k].name = n) => FindSlot(n) = k
           /\ FindSlot(n) # NoSlot =>
                 /\ FindSlot(n) \in DirIdx /\ FindSlot(n) < gCount
                 /\ gFiles[FindSlot(n)].name = n
  <1> DEFINE hits == {k \in DirIdx : k < gCount /\ gFiles[k].name = n}
  <1>1. hits \subseteq Nat
    BY Layout
  <1>2. \A k \in hits : FirstOf(hits, NoSlot) = k
    BY <1>1, FirstOfOne DEF NamesOnce
  <1>3. FirstOf(hits, NoSlot) \in hits \/ FirstOf(hits, NoSlot) = NoSlot
    BY FirstOfType
  <1> QED
    BY <1>2, <1>3 DEF FindSlot

LEMMA FilesMirrorNames == FilesMirror => NamesOnce
  BY DEF FilesMirror, NamesOnce

LEMMA FreeEntryFree == FreeEntry # NoIndex => FreeEntry \in DirIdx /\ ~gDir[FreeEntry].used
  <1> DEFINE free == {i \in DirIdx : ~gDir[i].used}
  <1>1. FreeEntry \in free \/ FreeEntry = NoIndex
    BY FirstOfType DEF FreeEntry
  <1> QED
    BY <1>1

\* What a boot finds under a name, with no name twice in the directory.
LEMMA DiskFileFinds ==
    ASSUME dSuper.ok => NamesDistinct, NEW n
    PROVE  /\ ~dSuper.ok => DiskFile(n) = NoName
           /\ \A i \in DirIdx : (dSuper.ok /\ dDir[i].used /\ dDir[i].name = n) =>
                 DiskFile(n) = BytesOf(dData, dDir[i])
           /\ (\A i \in DirIdx : ~(dDir[i].used /\ dDir[i].name = n)) => DiskFile(n) = NoName
  <1> DEFINE hits == {i \in DirIdx : dSuper.ok /\ dDir[i].used /\ dDir[i].name = n}
  <1>1. hits \subseteq Nat
    BY Layout
  <1>2. ASSUME NEW i \in hits
        PROVE  DiskFile(n) = BytesOf(dData, dDir[i])
    <2>1. \A j \in hits : j = i
      BY DEF NamesDistinct
    <2>2. (CHOOSE j \in hits : \A l \in hits : j <= l) = i
      BY <1>1, <2>1
    <2>3. DiskFile(n) = ReadEntry(dDir[CHOOSE j \in hits : \A l \in hits : j <= l])
      BY DEF DiskFile
    <2> QED
      BY <2>2, <2>3, ReadEntryIsBytesOf
  <1>3. hits = {} => DiskFile(n) = NoName
    BY DEF DiskFile
  <1> QED
    BY <1>2, <1>3

-----------------------------------------------------------------------------
(* A mount packs the used entries in order *)

Used == {i \in DirIdx : dDir[i].used}

LEMMA BeforeFinite ==
    ASSUME NEW i \in DirIdx
    PROVE  /\ IsFiniteSet(Used) /\ Cardinality(Used) \in Nat
           /\ IsFiniteSet(Before(i)) /\ Cardinality(Before(i)) \in Nat
           /\ i \notin Before(i) /\ Before(i) \subseteq Used
  <1>1. IsFiniteSet(DirIdx)
    BY FS_Interval, Layout DEF DirIdx
  <1>2. Used \subseteq DirIdx /\ Before(i) \subseteq DirIdx
    BY DEF Used, Before
  <1>3. i \notin Before(i) /\ Before(i) \subseteq Used
    BY Layout DEF Before, Used
  <1> QED
    BY <1>1, <1>2, <1>3, FS_Subset, FS_CardinalityType

\* Each used entry has a place of its own, below their number, and every place is taken.
LEMMA Packing ==
    /\ \A i \in Used : Cardinality(Before(i)) < MountedCount
    /\ \A i, j \in Used : Cardinality(Before(i)) = Cardinality(Before(j)) => i = j
    /\ \A k \in Nat : k < MountedCount => \E i \in Used : Cardinality(Before(i)) = k
  <1>0. Used \subseteq DirIdx /\ MountedCount = Cardinality(Used)
    BY DEF Used, MountedCount
  <1>1. ASSUME NEW i \in Used PROVE Cardinality(Before(i)) < MountedCount
    <2>1. Before(i) \cup {i} \subseteq Used
      BY <1>0, <1>1, BeforeFinite
    <2>2. Cardinality(Before(i) \cup {i}) = Cardinality(Before(i)) + 1
      BY <1>0, BeforeFinite, FS_AddElement
    <2>3. Cardinality(Before(i) \cup {i}) <= Cardinality(Used)
      BY <1>0, <2>1, BeforeFinite, FS_Subset
    <2> QED
      BY <1>0, <2>2, <2>3, BeforeFinite
  <1>2. ASSUME NEW i \in Used, NEW j \in Used, i < j
        PROVE  Cardinality(Before(i)) < Cardinality(Before(j))
    <2>0. i \in DirIdx /\ j \in DirIdx /\ i \in Nat /\ j \in Nat
      BY <1>0, Layout
    <2>1. Before(i) \cup {i} \subseteq Before(j)
      <3>1. \A l \in DirIdx : l < i => l < j
        BY <1>2, <2>0, Layout
      <3>2. dDir[i].used
        BY DEF Used
      <3> QED
        BY <1>2, <2>0, <3>1, <3>2 DEF Before
    <2>2. Cardinality(Before(i) \cup {i}) = Cardinality(Before(i)) + 1
      BY <2>0, BeforeFinite, FS_AddElement
    <2>3. Cardinality(Before(i) \cup {i}) <= Cardinality(Before(j))
      BY <2>0, <2>1, BeforeFinite, FS_Subset
    <2> QED
      BY <2>0, <2>2, <2>3, BeforeFinite
  <1>3. ASSUME NEW i \in Used, NEW j \in Used, Cardinality(Before(i)) = Cardinality(Before(j))
        PROVE  i = j
    <2>1. i \in DirIdx /\ j \in DirIdx /\ i \in Nat /\ j \in Nat
      BY <1>0, Layout
    <2>2. Cardinality(Before(i)) \in Nat
      BY <2>1, BeforeFinite
    <2>3. ~(i < j) /\ ~(j < i)
      BY <1>2, <1>3, <2>2
    <2> QED
      BY <2>1, <2>3
  <1>4. ASSUME NEW k \in Nat, k < MountedCount
        PROVE  \E i \in Used : Cardinality(Before(i)) = k
    <2> DEFINE places == 0 .. MountedCount - 1
               place == [i \in Used |-> Cardinality(Before(i))]
    <2>1. PICK i0 \in DirIdx : TRUE
      BY Layout, LayoutAssumption DEF DirIdx
    <2>2. IsFiniteSet(Used) /\ MountedCount \in Nat
      BY <1>0, <2>1, BeforeFinite
    <2>3. IsFiniteSet(places) /\ Cardinality(places) = MountedCount
      BY <1>4, <2>2, FS_Interval
    <2>4. \A i \in Used : Cardinality(Before(i)) \in places
      BY <1>0, <1>1, <2>2, BeforeFinite
    <2>5. place \in Injection(Used, places)
      <3>1. place \in [Used -> places]
        BY <2>4
      <3>2. \A i, j \in Used : place[i] = place[j] => i = j
        BY <1>3
      <3> HIDE DEF place, places
      <3> QED
        BY <3>1, <3>2, Fun_IsInj
    <2>6. place \in Surjection(Used, places)
      BY <1>0, <2>2, <2>3, <2>5, FS_Injection
    <2>7. k \in places
      BY <1>4, <2>2
    <2> QED
      <3>1. \A p \in places : \E i \in Used : place[i] = p
        <4> HIDE DEF place, places
        <4> QED
          BY <2>6, Fun_SurjectionProperties
      <3> QED
        BY <2>7, <3>1
  <1> QED
    BY <1>1, <1>3, <1>4

\* What the mount makes of the directory: one file for each used entry, and no other.
LEMMA MountedFilesAre ==
    /\ \A k \in DirIdx : k < MountedCount =>
          \E i \in DirIdx : /\ dDir[i].used /\ Cardinality(Before(i)) = k
                            /\ MountedFiles[k] = [name |-> dDir[i].name,
                                                  data |-> BytesOf(dData, dDir[i]), idx |-> i]
    /\ \A i \in DirIdx : dDir[i].used =>
          \E k \in DirIdx : k < MountedCount /\ MountedFiles[k].idx = i
  <1>1. ASSUME NEW i \in DirIdx, NEW k \in DirIdx, dDir[i].used, Cardinality(Before(i)) = k
        PROVE  MountedFiles[k] = [name |-> dDir[i].name, data |-> BytesOf(dData, dDir[i]), idx |-> i]
    <2>1. i \in Used
      BY <1>1 DEF Used
    <2>2. {j \in DirIdx : dDir[j].used /\ Cardinality(Before(j)) = k} = {i}
      BY <1>1, <2>1, Packing DEF Used
    <2>3. MountedFiles[k] = [name |-> dDir[i].name, data |-> ReadEntry(dDir[i]), idx |-> i]
      BY <2>2 DEF MountedFiles
    <2> QED
      BY <2>3, ReadEntryIsBytesOf
  <1>2. ASSUME NEW k \in DirIdx, k < MountedCount
        PROVE  \E i \in DirIdx : dDir[i].used /\ Cardinality(Before(i)) = k
    BY <1>2, Packing, Layout DEF Used
  <1>3. ASSUME NEW i \in DirIdx, dDir[i].used
        PROVE  /\ Cardinality(Before(i)) \in DirIdx
               /\ Cardinality(Before(i)) < MountedCount
    <2>1. i \in Used
      BY <1>3 DEF Used
    <2>2. Cardinality(Before(i)) < MountedCount
      BY <2>1, Packing
    <2>3. MountedCount \in Nat /\ MountedCount <= DirEntries
      <3>1. IsFiniteSet(DirIdx) /\ Cardinality(DirIdx) = DirEntries
        BY FS_Interval, Layout DEF DirIdx
      <3>2. {j \in DirIdx : dDir[j].used} \in SUBSET DirIdx
        OBVIOUS
      <3> QED
        BY <3>1, <3>2, FS_Subset, FS_CardinalityType DEF MountedCount
    <2> QED
      BY <2>2, <2>3, BeforeFinite, Layout DEF DirIdx
  <1>4. ASSUME NEW i \in DirIdx, dDir[i].used
        PROVE  \E k \in DirIdx : k < MountedCount /\ MountedFiles[k].idx = i
    <2>1. MountedFiles[Cardinality(Before(i))].idx = i
      <3>1. MountedFiles[Cardinality(Before(i))] =
               [name |-> dDir[i].name, data |-> BytesOf(dData, dDir[i]), idx |-> i]
        BY <1>1, <1>3, <1>4
      <3> QED
        BY <3>1
    <2> QED
      BY <1>3, <1>4, <2>1
  <1>5. ASSUME NEW k \in DirIdx, k < MountedCount
        PROVE  \E i \in DirIdx : /\ dDir[i].used /\ Cardinality(Before(i)) = k
                                 /\ MountedFiles[k] = [name |-> dDir[i].name,
                                                       data |-> BytesOf(dData, dDir[i]), idx |-> i]
    BY <1>1, <1>2, <1>5
  <1> QED
    BY <1>4, <1>5

-----------------------------------------------------------------------------
(* Every step keeps the files in memory and on the disk together *)

LEMMA MirroredNames == IInv /\ call.op # "format" /\ Mirrored => NamesDistinct
  <1> SUFFICES ASSUME IInv, call.op # "format", Mirrored,
                      NEW i \in DirIdx, NEW j \in DirIdx, i # j, dDir[i].used, dDir[j].used
               PROVE  dDir[i].name # dDir[j].name
    BY DEF NamesDistinct
  <1> USE DEF Mirrored
  <1> DEFINE Mine(e) == Updating /\ e = call.idx
  <1>1. ASSUME NEW e \in DirIdx, dDir[e].used, Mine(e)
        PROVE  dDir[e].name = call.name
    <2>1. CASE dDir[e] = gDir[e]
      BY <1>1, <2>1 DEF CallMirror, Mirrors
    <2>2. CASE dDir[e] # gDir[e]
      <3>1. call.slot \in DirIdx /\ call.slot < gCount
        <4>1. call.slot \in DirIdx \cup {NoSlot}
          BY DEF IInv, TypeOK, Calls
        <4>2. call.slot # NoSlot /\ pc = "dir"
          BY <1>1, <2>2 DEF DirMirror, Awaited, AsBefore
        <4>3. call.op # "format"
          BY <1>1 DEF Updating
        <4>4. SlotOK
          BY <4>2, <4>3 DEF IInv, CallOK
        <4> QED
          BY <4>1, <4>2, <4>4 DEF SlotOK
      <3> QED
        BY <1>1, <2>2, <3>1 DEF DirMirror, AsBefore, CallMirror, Mirrors
    <2> QED
      BY <2>1, <2>2 DEF DirMirror
  <1>2. ASSUME NEW e \in DirIdx, dDir[e].used, ~Mine(e)
        PROVE  \E k \in DirIdx : /\ k < gCount /\ gFiles[k].idx = e /\ gFiles[k].name = dDir[e].name
                                 /\ Updating => gFiles[k].name # call.name
    <2>1. dDir[e] = gDir[e]
      <3>1. CASE Awaited(e)
        BY <1>2, <3>1 DEF Awaited, Updating, IInv, CallOK, DirMirror
      <3> QED
        BY <3>1 DEF DirMirror
    <2>2. PICK k \in DirIdx : k < gCount /\ gFiles[k].idx = e
      BY <1>2, <2>1 DEF EntriesMirror
    <2>3. ~(Updating /\ k = call.slot)
      BY <1>2, <2>2 DEF CallMirror
    <2>4. gFiles[k].name = dDir[e].name
      BY <2>1, <2>2, <2>3 DEF FilesMirror, Mirrors
    <2> QED
      BY <2>2, <2>3, <2>4 DEF CallMirror
  <1>3. CASE Mine(i)
    BY <1>1, <1>2, <1>3
  <1>4. CASE Mine(j)
    BY <1>1, <1>2, <1>4
  <1>5. CASE ~Mine(i) /\ ~Mine(j)
    <2>1. PICK k \in DirIdx : k < gCount /\ gFiles[k].idx = i /\ gFiles[k].name = dDir[i].name
      BY <1>2, <1>5
    <2>2. PICK l \in DirIdx : l < gCount /\ gFiles[l].idx = j /\ gFiles[l].name = dDir[j].name
      BY <1>2, <1>5
    <2> QED
      BY <2>1, <2>2 DEF FilesMirror
  <1> QED
    BY <1>3, <1>4, <1>5

LEMMA MirroredNamesNext == (IInv /\ call.op # "format" /\ Mirrored => NamesDistinct)'
  BY MirroredNames, PTL

LEMMA InitCoherent == Init => Coherent
  BY ConstantTypes DEF Init, Coherent

LEMMA BootMountedCoherent == ASSUME IInv, Coherent, BootMounted PROVE Coherent'
  <1>1. /\ gDir' = dDir /\ gFiles' = MountedFiles /\ gCount' = MountedCount /\ dSuper.ok
        /\ pc' = "idle" /\ call' = NoCallYet /\ UNCHANGED disk
        /\ ~stale' => ~stale
    BY DEF BootMounted, BootTo, Return, IInv, TypeOK
  <1> SUFFICES ASSUME ~stale PROVE NamesDistinct' /\ Mirrored' /\ call'.op # "format"
    BY <1>1 DEF Coherent
  <1>2. NamesDistinct
    BY <1>1 DEF Coherent
  <1>3. ~Updating' /\ call'.op # "format" /\ pc' = "idle"
    BY <1>1, ConstantTypes DEF Updating
  <1>4. FilesMirror'
    <2> SUFFICES ASSUME NEW k \in DirIdx, k < MountedCount
                 PROVE  /\ MountedFiles[k].idx \in DirIdx
                        /\ Mirrors(dData, MountedFiles[k], dDir[MountedFiles[k].idx])
                        /\ \A l \in DirIdx : (l < MountedCount /\ l # k) =>
                              /\ MountedFiles[l].idx # MountedFiles[k].idx
                              /\ MountedFiles[l].name # MountedFiles[k].name
      BY <1>1, <1>3 DEF FilesMirror, disk
    <2>1. PICK i \in DirIdx : /\ dDir[i].used /\ Cardinality(Before(i)) = k
                              /\ MountedFiles[k] = [name |-> dDir[i].name,
                                                    data |-> BytesOf(dData, dDir[i]), idx |-> i]
      BY MountedFilesAre
    <2>2. MountedFiles[k].idx = i /\ MountedFiles[k].name = dDir[i].name
      BY <2>1
    <2>3. Mirrors(dData, MountedFiles[k], dDir[i])
      BY <2>1 DEF Mirrors
    <2>4. ASSUME NEW l \in DirIdx, l < MountedCount, l # k
          PROVE  MountedFiles[l].idx # i /\ MountedFiles[l].name # dDir[i].name
      <3>1. PICK j \in DirIdx : /\ dDir[j].used /\ Cardinality(Before(j)) = l
                                /\ MountedFiles[l] = [name |-> dDir[j].name,
                                                      data |-> BytesOf(dData, dDir[j]), idx |-> j]
        BY <2>4, MountedFilesAre
      <3>2. MountedFiles[l].idx = j /\ MountedFiles[l].name = dDir[j].name
        BY <3>1
      <3>3. i # j
        BY <2>1, <2>4, <3>1
      <3> QED
        BY <1>2, <2>1, <3>1, <3>2, <3>3 DEF NamesDistinct
    <2> QED
      BY <2>2, <2>3, <2>4
  <1>5. EntriesMirror'
    <2>1. \A i \in DirIdx : dDir[i].used =>
             \E k \in DirIdx : k < MountedCount /\ MountedFiles[k].idx = i
      BY MountedFilesAre
    <2> QED
      BY <1>1, <2>1 DEF EntriesMirror
  <1>6. DirMirror'
    BY <1>1, <1>3 DEF DirMirror, Awaited, disk
  <1>7. CallMirror' /\ DataWritten' /\ TextKept'
    BY <1>3 DEF CallMirror, DataWritten, TextKept
  <1>8. NamesDistinct'
    BY <1>1, <1>2 DEF NamesDistinct, disk
  <1> QED
    BY <1>3, <1>4, <1>5, <1>6, <1>7, <1>8 DEF Mirrored

LEMMA BootFallbackCoherent == ASSUME ~Io, Coherent, BootFallback PROVE Coherent'
  <1>1. ~dSuper.ok
    BY DEF BootFallback
  <1>2. pc' = "idle" /\ call' = NoCallYet /\ ~writable' /\ UNCHANGED disk
    BY DEF BootFallback, BootTo, Return
  <1> QED
    BY <1>1, <1>2, ConstantTypes DEF Coherent, disk

\* A refused call leaves everything but the call as it was.
LEMMA RefusedCoherent ==
    ASSUME Coherent, pc \in {"idle", "copy"}, pc' = "idle", call' = NoCallYet,
           UNCHANGED <<disk, mem, stale>>
    PROVE  Coherent'
  <1>1. call = NoCallYet /\ call.op = "none" /\ call'.op = "none" /\ ~Updating /\ ~Updating'
    BY ConstantTypes DEF Coherent, Updating
  <1> SUFFICES ASSUME ~stale
               PROVE  (dSuper.ok => NamesDistinct)' /\ (writable => Mirrored)'
    BY <1>1 DEF Coherent
  <1>2. (dSuper.ok => NamesDistinct)'
    BY DEF disk, Coherent, NamesDistinct
  <1>3. ASSUME writable, Mirrored PROVE Mirrored'
    BY <1>1, <1>3 DEF Mirrored, FilesMirror, EntriesMirror, CallMirror, DataWritten, DirMirror,
                      Awaited, AsBefore, TextKept, disk, mem
  <1>4. writable' = writable
    BY DEF mem
  <1> QED
    BY <1>1, <1>2, <1>3, <1>4 DEF Coherent

LEMMA BeginWriteCoherent ==
    ASSUME IInv, Coherent, pc \in {"idle", "copy"}, NEW n, NEW d, NEW append \in BOOLEAN, NEW rest,
           BeginWrite(n, d, append, rest), UNCHANGED <<disk, mem, stale>>
    PROVE  Coherent'
  <1> DEFINE slot  == FindSlot(n)
             final == IF append /\ slot # NoSlot THEN gFiles[slot].data \o d ELSE d
             idx   == IF slot # NoSlot THEN gFiles[slot].idx ELSE FreeEntry
             begun == [op |-> IF append THEN "append" ELSE "write", name |-> n, data |-> final,
                       text |-> d, slot |-> slot, idx |-> idx, start |-> gNext,
                       count |-> SectorCount(final)]
  <1>1. CASE Return("fail")
    BY <1>1, RefusedCoherent DEF Return
  <1>2. CASE /\ writable
             /\ slot = NoSlot => FreeEntry # NoIndex
             /\ pc' = "data" /\ cur' = 0 /\ call' = begun
    <2>1. /\ call'.op \in {"append", "write"} /\ call'.name = n /\ call'.data = final
          /\ call'.text = d /\ call'.slot = slot /\ call'.idx = idx /\ call'.start = gNext
          /\ call'.count = SectorCount(final) /\ (call'.op = "append" <=> append)
      BY <1>2
    <2> HIDE DEF begun
    <2>2. call.op = "none" /\ ~Updating /\ ~Updating'
      BY <1>2, ConstantTypes DEF Coherent, Updating
    <2>3. (dSuper.ok /\ ~stale => NamesDistinct)'
      BY DEF Coherent, NamesDistinct, disk
    <2> SUFFICES ASSUME ~stale PROVE Mirrored'
      BY <1>2, <2>1, <2>3 DEF Coherent
    <2>4. Mirrored
      BY <1>2, <2>2 DEF Coherent
    <2>5. FilesMirror' /\ EntriesMirror'
      BY <2>2, <2>4 DEF Mirrored, FilesMirror, EntriesMirror, disk, mem
    <2>6. DirMirror'
      BY <1>2, <2>4 DEF Mirrored, DirMirror, Awaited, AsBefore, disk, mem
    <2>7. DataWritten'
      BY <1>2, <2>1 DEF DataWritten
    <2>8. TextKept'
      BY <1>2, <2>1, <2>2 DEF TextKept, mem
    <2>9. CallMirror'
      <3>1. NamesOnce
        BY <2>4, FilesMirrorNames DEF Mirrored
      <3>2. slot # NoSlot => slot \in DirIdx /\ slot < gCount
        BY <3>1, FindSlotFinds
      <3>3. idx \in DirIdx /\ (slot = NoSlot => ~gDir[idx].used)
        BY <1>2, <2>4, <3>2, FreeEntryFree DEF Mirrored, FilesMirror
      <3>4. ASSUME NEW k \in DirIdx, k < gCount
            PROVE  gFiles[k].name = n <=> k = slot
        BY <3>1, <3>4, FindSlotFinds, Layout
      <3>5. ASSUME NEW k \in DirIdx, k < gCount
            PROVE  gFiles[k].idx = idx <=> k = slot
        <4>1. CASE slot # NoSlot
          BY <2>4, <3>2, <3>5, <4>1 DEF Mirrored, FilesMirror
        <4>2. CASE slot = NoSlot
          <5>1. gDir[gFiles[k].idx].used
            BY <2>2, <2>4, <3>5 DEF Mirrored, FilesMirror, Mirrors
          <5> QED
            BY <3>3, <4>2, <5>1, Layout
        <4> QED
          BY <4>1, <4>2
      <3> HIDE DEF slot, idx, final
      <3> QED
        BY <1>2, <2>1, <2>2, <3>3, <3>4, <3>5 DEF CallMirror, mem
    <2> QED
      BY <2>4, <2>5, <2>6, <2>7, <2>8, <2>9 DEF Mirrored
  <1> QED
    BY <1>1, <1>2 DEF BeginWrite

LEMMA WriteCoherent ==
    ASSUME IInv, Coherent, NEW n \in Names, NEW d \in Writes, NEW append \in BOOLEAN,
           Write(n, d, append)
    PROVE  Coherent'
  BY BeginWriteCoherent DEF Write

LEMMA CopyNextCoherent == ASSUME IInv, Coherent, CopyNext PROVE Coherent'
  BY BeginWriteCoherent DEF CopyNext

\* The entry goes from g_dir before the disk hears of it: the file is the one the call updates.
LEMMA RemoveCoherent == ASSUME IInv, Coherent, NEW n \in Names, Remove(n) PROVE Coherent'
  <1> DEFINE slot == FindSlot(n)
             begun == [NoCallYet EXCEPT !.op = "remove", !.name = n, !.slot = slot,
                                        !.idx = gFiles[slot].idx]
  <1>1. CASE Return("fail") /\ UNCHANGED gDir
    BY <1>1, RefusedCoherent DEF Remove, Return, mem
  <1>2. CASE /\ writable /\ slot # NoSlot
             /\ pc' = "dir" /\ cur' = 0 /\ call' = begun
             /\ gDir' = [gDir EXCEPT ![gFiles[slot].idx] = NoEntry]
    <2>1. /\ call'.op = "remove" /\ call'.name = n
          /\ call'.slot = slot /\ call'.idx = gFiles[slot].idx
      BY <1>2 DEF NoCallYet
    <2> HIDE DEF begun
    <2>2. /\ pc = "idle" /\ call.op = "none" /\ ~Updating /\ Updating' /\ ~Writing'
          /\ UNCHANGED <<disk, writable, gNext, gFiles, gCount, stale>>
      BY <1>2, <2>1, ConstantTypes DEF Remove, Coherent, Updating, Writing
    <2>3. (dSuper.ok /\ ~stale => NamesDistinct)'
      BY <2>2 DEF Coherent, NamesDistinct, disk
    <2> SUFFICES ASSUME ~stale PROVE Mirrored'
      BY <1>2, <2>1, <2>2, <2>3 DEF Coherent
    <2>4. Mirrored
      BY <1>2, <2>2 DEF Coherent
    <2>5. NamesOnce
      BY <2>4, FilesMirrorNames DEF Mirrored
    <2>6. slot \in DirIdx /\ slot < gCount /\ gFiles[slot].name = n
      BY <1>2, <2>5, FindSlotFinds
    <2>7. gFiles[slot].idx \in DirIdx /\ Mirrors(dData, gFiles[slot], gDir[gFiles[slot].idx])
      BY <2>2, <2>4, <2>6 DEF Mirrored, FilesMirror
    <2>8. \A k \in DirIdx : k < gCount => /\ gFiles[k].name = n <=> k = slot
                                          /\ gFiles[k].idx = gFiles[slot].idx <=> k = slot
      BY <2>4, <2>6 DEF Mirrored, FilesMirror
    <2>9. /\ \A i \in DirIdx : i # gFiles[slot].idx => gDir'[i] = gDir[i]
          /\ ~gDir'[gFiles[slot].idx].used
      BY <1>2, <2>7, ConstantTypes DEF IInv, TypeOK
    <2> HIDE DEF slot
    <2>10. FilesMirror'
      <3> SUFFICES ASSUME NEW k \in DirIdx, k < gCount
                   PROVE  /\ gFiles[k].idx \in DirIdx
                          /\ k = slot \/ Mirrors(dData, gFiles[k], gDir'[gFiles[k].idx])
                          /\ \A l \in DirIdx : (l < gCount /\ l # k) =>
                                /\ gFiles[l].idx # gFiles[k].idx
                                /\ gFiles[l].name # gFiles[k].name
        BY <2>1, <2>2 DEF FilesMirror, disk
      <3> QED
        BY <2>2, <2>4, <2>8, <2>9 DEF Mirrored, FilesMirror
    <2>11. EntriesMirror'
      BY <2>2, <2>4, <2>9 DEF Mirrored, EntriesMirror
    <2>12. CallMirror'
      BY <2>1, <2>2, <2>7, <2>8, <2>9, <1>2 DEF CallMirror
    <2>13. DirMirror'
      <3>1. dSuper.ok /\ \A i \in DirIdx : dDir[i] = gDir[i]
        BY <2>2, <2>4 DEF Mirrored, DirMirror, Awaited, AsBefore
      <3>2. PICK e \in DirIdx : e = gFiles[slot].idx
        BY <2>7
      <3>3. AsBefore(e)' /\ Awaited(e)'
        <4>1. e \div EntriesPerSector \in Nat
          BY DirectoryFits
        <4>2. dDir[e].used /\ Mirrors(dData, gFiles[slot], dDir[e])
          BY <2>7, <3>1, <3>2 DEF Mirrors
        <4>3. call'.slot # NoSlot /\ cur' = 0 /\ pc' = "dir"
          BY <1>2, <2>1 DEF slot
        <4> QED
          BY <2>1, <2>2, <3>2, <4>1, <4>2, <4>3 DEF Awaited, AsBefore, disk
      <3> QED
        BY <2>1, <2>2, <2>9, <3>1, <3>2, <3>3 DEF DirMirror, Awaited, disk
    <2>14. DataWritten' /\ TextKept'
      BY <1>2, <2>1 DEF DataWritten, TextKept
    <2> QED
      BY <2>10, <2>11, <2>12, <2>13, <2>14 DEF Mirrored
  <1> QED
    BY <1>1, <1>2 DEF Remove

LEMMA InstallCoherent == ASSUME IInv, Coherent, Install PROVE Coherent'
  <1>1. CASE Return("fail")
    BY <1>1, RefusedCoherent DEF Install, Return
  <1>2. CASE pc' = "zero" /\ call' = [NoCallYet EXCEPT !.op = "format"]
    <2>1. call'.op = "format" /\ UNCHANGED <<disk, stale>>
      BY <1>2 DEF NoCallYet, Install
    <2> QED
      BY <1>2, <2>1 DEF Coherent, NamesDistinct, disk
  <1> QED
    BY <1>1, <1>2 DEF Install

\* A data sector is written above everything in use, so what is in use reads as before.
LEMMA DataKept ==
    ASSUME IInv, WriteDataSector, ~stale, NEW i \in DirIdx
    PROVE  /\ dDir[i].used => BytesOf(dData', dDir[i]) = BytesOf(dData, dDir[i])
           /\ \A f : Mirrors(dData', f, dDir[i]) <=> Mirrors(dData, f, dDir[i])
           /\ \A f : Mirrors(dData', f, gDir[i]) <=> Mirrors(dData, f, gDir[i])
  <1>1. pc = "data" /\ writable /\ call.start = gNext /\ MemKnown /\ cur \in Nat /\ gNext \in Nat
    BY DEF IInv, WriteDataSector, CallOK, Writing, MemKnown, TypeOK
  <1>2. Below(gDir[i], gNext) /\ Below(dDir[i], gNext)
    BY <1>1 DEF IInv, Separation, MemApart
  <1>3. gDir[i] \in Entries /\ dDir[i] \in Entries
    BY DEF IInv, TypeOK
  <1>4. \A s \in DataSectors : s < gNext => dData'[s] = dData[s]
    <2>1. dData' \in {dData, [dData EXCEPT ![call.start + cur] = SectorOf(call.data, cur)]}
      BY DEF WriteDataSector
    <2> QED
      BY <1>1, <2>1, Layout DEF IInv, TypeOK
  <1>5. ASSUME NEW e \in Entries, Below(e, gNext), e.used
        PROVE  BytesOf(dData', e) = BytesOf(dData, e)
    <2>1. e.start + e.count <= gNext /\ e.start \in Nat /\ e.count \in Nat
      BY <1>5 DEF Below, Entries
    <2>2. \A s \in DataSectors : (e.start <= s /\ s < e.start + e.count) => dData'[s] = dData[s]
      BY <1>1, <1>4, <2>1, Layout
    <2> QED
      BY <2>2, BytesKept
  <1> QED
    BY <1>2, <1>3, <1>5 DEF Mirrors

LEMMA WriteDataSectorCoherent == ASSUME ~Io, IInv, Coherent, WriteDataSector PROVE Coherent'
  <1> DEFINE entry == [used |-> TRUE, start |-> call.start, count |-> call.count,
                       size |-> Len(call.data), name |-> call.name]
  <1>1. /\ pc = "data" /\ Writing /\ writable /\ SlotOK /\ call.op # "format"
        /\ call.start = gNext /\ call.start + call.count <= TotalSectors
        /\ DataStart <= gNext /\ cur < call.count /\ ~Updating
    BY DEF IInv, WriteDataSector, CallOK, Writing, Geometry, MemKnown, Updating
  <1>2. call \in Calls /\ cur \in Nat /\ call.data \in Seq(Byte) /\ gNext \in Nat /\ call.count \in Nat
    BY DEF IInv, TypeOK, Calls
  <1>3. /\ dData' = [dData EXCEPT ![call.start + cur] = SectorOf(call.data, cur)]
        /\ UNCHANGED <<dSuper, dDir, writable, gFiles, gCount, stale, call>>
    BY DEF WriteDataSector
  <1>4. (dSuper.ok /\ ~stale => NamesDistinct)'
    BY <1>3 DEF Coherent, NamesDistinct
  <1>5. pc' \in {"data", "dir"}
    BY <1>1 DEF WriteDataSector
  <1> SUFFICES ASSUME ~stale PROVE Mirrored'
    BY <1>1, <1>3, <1>4, <1>5 DEF Coherent
  <1>6. FilesMirror /\ EntriesMirror /\ CallMirror /\ DataWritten /\ DirMirror /\ TextKept
    BY <1>1 DEF Coherent, Mirrored
  <1>7. ASSUME NEW k \in Nat, k < cur + 1
        PROVE  dData'[call.start + k] = SectorOf(call.data, k)
    <2>1. call.start + k \in DataSectors /\ call.start + cur \in DataSectors
      BY <1>1, <1>2, <1>7, Layout DEF DataSectors
    <2>2. dData \in [DataSectors -> Sector]
      BY DEF IInv, TypeOK
    <2>3. CASE k = cur
      BY <1>3, <2>1, <2>2, <2>3
    <2>4. CASE k < cur
      <3>1. call.start + k # call.start + cur
        BY <1>1, <1>2, <2>4
      <3>2. dData'[call.start + k] = dData[call.start + k]
        BY <1>3, <2>1, <2>2, <3>1
      <3> QED
        BY <1>1, <1>6, <2>4, <3>2 DEF DataWritten
    <2> QED
      BY <1>2, <1>7, <2>3, <2>4
  <1>8. \A i \in DirIdx : dDir[i] = gDir[i]
    BY <1>1, <1>6 DEF DirMirror, Awaited
  <1>9. CASE /\ cur + 1 < call.count /\ cur' = cur + 1
             /\ UNCHANGED <<pc, gDir, gNext>>
    <2>0. ~Updating'
      BY <1>1, <1>9 DEF Updating
    <2>1. FilesMirror'
      <3> SUFFICES ASSUME NEW k \in DirIdx, k < gCount
                   PROVE  /\ gFiles[k].idx \in DirIdx
                          /\ Mirrors(dData', gFiles[k], gDir[gFiles[k].idx])
                          /\ \A l \in DirIdx : (l < gCount /\ l # k) =>
                                /\ gFiles[l].idx # gFiles[k].idx
                                /\ gFiles[l].name # gFiles[k].name
        BY <1>3, <1>9 DEF FilesMirror
      <3> QED
        BY <1>1, <1>6, DataKept DEF FilesMirror
    <2>2. EntriesMirror'
      BY <1>1, <1>3, <1>6, <1>9 DEF EntriesMirror
    <2>3. CallMirror'
      BY <1>1, <1>3, <1>6, <1>9, <2>0 DEF CallMirror
    <2>4. DataWritten'
      BY <1>1, <1>3, <1>6, <1>7, <1>9 DEF DataWritten
    <2>5. DirMirror'
      BY <1>1, <1>3, <1>6, <1>8, <1>9 DEF DirMirror, Awaited
    <2>6. TextKept'
      BY <1>1, <1>3, <1>6 DEF TextKept
    <2> QED
      BY <2>1, <2>2, <2>3, <2>4, <2>5, <2>6 DEF Mirrored
  <1>10. CASE /\ ~(cur + 1 < call.count) /\ cur' = 0 /\ pc' = "dir"
              /\ gDir' = [gDir EXCEPT ![call.idx] = entry]
    <2>0. Updating' /\ Writing'
      BY <1>1, <1>3, <1>10 DEF Updating, Writing
    <2>1. call.idx \in DirIdx
      BY <1>1, <1>6 DEF CallMirror
    <2>2. /\ \A i \in DirIdx : i # call.idx => gDir'[i] = gDir[i]
          /\ gDir'[call.idx] = entry
      BY <1>10, <2>1 DEF IInv, TypeOK
    <2>3. Mirrors(dData', [name |-> call.name, data |-> call.data], entry)
      <3>1. entry \in Entries
        BY <1>2 DEF Calls, Entries
      <3>2. cur + 1 = call.count
        BY <1>1, <1>2, <1>10
      <3>3. \A k \in Nat : k < call.count => dData'[call.start + k] = SectorOf(call.data, k)
        BY <1>7, <3>2
      <3>4. call.count = SectorCount(call.data)
        BY <1>1, <1>6 DEF DataWritten
      <3>5. /\ entry.start = call.start /\ entry.count = call.count /\ entry.used
            /\ entry.size = Len(call.data) /\ entry.name = call.name
        OBVIOUS
      <3> HIDE DEF entry
      <3>6. BytesOf(dData', entry) = call.data
        BY <1>1, <1>2, <3>1, <3>3, <3>4, <3>5, WrittenIsRead
      <3> QED
        BY <3>5, <3>6 DEF Mirrors
    <2> HIDE DEF entry
    <2>4. FilesMirror'
      <3> SUFFICES ASSUME NEW k \in DirIdx, k < gCount
                   PROVE  /\ gFiles[k].idx \in DirIdx
                          /\ k = call.slot \/ Mirrors(dData', gFiles[k], gDir'[gFiles[k].idx])
                          /\ \A l \in DirIdx : (l < gCount /\ l # k) =>
                                /\ gFiles[l].idx # gFiles[k].idx
                                /\ gFiles[l].name # gFiles[k].name
        BY <1>3, <2>0 DEF FilesMirror
      <3>1. k # call.slot => gFiles[k].idx # call.idx
        BY <1>1, <1>6 DEF CallMirror
      <3>2. gFiles[k].idx \in DirIdx /\ Mirrors(dData, gFiles[k], gDir[gFiles[k].idx])
        BY <1>1, <1>6 DEF FilesMirror
      <3>3. Mirrors(dData', gFiles[k], gDir[gFiles[k].idx])
        BY <3>2, DataKept
      <3> QED
        BY <1>6, <2>2, <3>1, <3>2, <3>3 DEF FilesMirror
    <2>5. EntriesMirror'
      BY <1>1, <1>3, <1>6, <2>0, <2>2 DEF EntriesMirror
    <2>6. CallMirror'
      BY <1>1, <1>3, <1>6, <1>10, <2>0, <2>1, <2>2, <2>3 DEF CallMirror
    <2>7. AsBefore(call.idx)' /\ Awaited(call.idx)'
      <3>1. dDir[call.idx].used <=> call.slot # NoSlot
        <4>1. CASE call.slot = NoSlot
          BY <1>1, <1>6, <1>8, <2>1, <4>1 DEF CallMirror
        <4>2. CASE call.slot # NoSlot
          <5>1. call.slot \in DirIdx /\ call.slot < gCount
            BY <1>1, <1>2, <4>2 DEF SlotOK, Calls
          <5> QED
            BY <1>1, <1>6, <1>8, <4>2, <5>1 DEF CallMirror, FilesMirror, Mirrors
        <4> QED
          BY <4>1, <4>2
      <3>2. ASSUME dDir[call.idx].used
            PROVE  Mirrors(dData', gFiles[call.slot], dDir[call.idx])
        <4>1. call.slot \in DirIdx /\ call.slot < gCount
          BY <1>1, <1>2, <3>1, <3>2 DEF SlotOK, Calls
        <4>2. Mirrors(dData, gFiles[call.slot], dDir[call.idx])
          BY <1>1, <1>6, <1>8, <4>1 DEF CallMirror, FilesMirror
        <4> QED
          BY <2>1, <4>2, DataKept
      <3>3. call.idx \div EntriesPerSector \in Nat
        BY <2>1, DirectoryFits
      <3> QED
        BY <1>3, <1>10, <3>1, <3>2, <3>3 DEF AsBefore, Awaited
    <2>8. DirMirror'
      <3>1. \A i \in DirIdx : i # call.idx => dDir'[i] = gDir'[i]
        BY <1>3, <1>8, <2>2
      <3>2. \A i \in DirIdx : i = call.idx => AsBefore(i)' /\ Awaited(i)'
        BY <2>7, <1>3 DEF AsBefore, Awaited
      <3> QED
        BY <1>3, <1>6, <3>1, <3>2 DEF DirMirror, Awaited
    <2>9. DataWritten' /\ TextKept'
      BY <1>1, <1>3, <1>6, <1>10 DEF DataWritten, TextKept
    <2> QED
      BY <2>4, <2>5, <2>6, <2>8, <2>9 DEF Mirrored
  <1> QED
    BY <1>9, <1>10 DEF WriteDataSector

LEMMA WriteDirSectorCoherent == ASSUME ~Io, IInv, Coherent, WriteDirSector PROVE Coherent'
  <1>1. /\ pc = "dir" /\ call.op \in {"write", "append", "remove", "format"}
        /\ call.op # "format" => writable
        /\ UNCHANGED <<dSuper, dData, media, mem, stale, call>>
        /\ pc' \in {"dir", "super", "end"} /\ (call.op = "format" => pc' # "super")
    BY DEF IInv, CallOK, WriteDirSector
  <1>2. \A i \in DirIdx : dDir'[i] = IF i \div EntriesPerSector = cur THEN gDir[i] ELSE dDir[i]
    BY DEF WriteDirSector
  <1> SUFFICES ASSUME ~stale
               PROVE  /\ dSuper.ok => NamesDistinct'
                      /\ call.op # "format" => Mirrored'
                      /\ call.op = "format" => Formatted'
    BY <1>1 DEF Coherent
  <1>3. CASE call.op = "format"
    <2>1. Formatted
      BY <1>1, <1>3 DEF Coherent
    <2>2. Formatted'
      BY <1>1, <1>2, <1>3, <2>1 DEF Formatted, mem
    <2>3. NamesDistinct'
      BY <2>2, ConstantTypes DEF Formatted, NamesDistinct
    <2> QED
      BY <1>3, <2>2, <2>3
  <1>4. CASE call.op # "format"
    <2>1. FilesMirror /\ EntriesMirror /\ CallMirror /\ DataWritten /\ DirMirror /\ TextKept
      BY <1>1, <1>4 DEF Coherent, Mirrored
    <2>2. Updating /\ Updating'
      BY <1>1, <1>4 DEF Updating
    <2>3. FilesMirror' /\ EntriesMirror' /\ CallMirror'
      BY <1>1, <2>1, <2>2 DEF FilesMirror, EntriesMirror, CallMirror, Writing, mem
    <2>4. DataWritten' /\ TextKept'
      BY <1>1, <2>1, <2>2 DEF DataWritten, TextKept, mem
    <2>5. DirMirror'
      <3>1. ASSUME NEW i \in DirIdx
            PROVE  IF Awaited(i)' THEN AsBefore(i)' ELSE dDir'[i] = gDir'[i]
        <4>1. /\ i \div EntriesPerSector \in Nat /\ i \div EntriesPerSector < DirSectors
              /\ cur \in Nat /\ DirSectors \in Nat
          BY DirectoryFits, LayoutAssumption DEF IInv, TypeOK
        <4>2. pc' = "dir" => cur' = cur + 1
          BY <1>1 DEF WriteDirSector
        <4>3. CASE ~Awaited(i)
          BY <1>1, <1>2, <2>1, <4>1, <4>2, <4>3 DEF DirMirror, Awaited, mem
        <4>4. CASE Awaited(i) /\ i \div EntriesPerSector = cur
          BY <1>1, <1>2, <4>1, <4>2, <4>4 DEF Awaited, mem
        <4>5. CASE Awaited(i) /\ i \div EntriesPerSector # cur
          <5>1. cur + 1 <= i \div EntriesPerSector
            BY <4>1, <4>5 DEF Awaited
          <5>2. cur' = cur + 1 /\ pc' = "dir"
            BY <1>1, <4>1, <5>1 DEF WriteDirSector
          <5>3. dDir'[i] = dDir[i] /\ AsBefore(i)
            BY <1>2, <2>1, <4>5 DEF DirMirror
          <5> QED
            BY <1>1, <4>5, <5>1, <5>2, <5>3 DEF Awaited, AsBefore, mem
        <4> QED
          BY <4>3, <4>4, <4>5
      <3> QED
        BY <1>1, <2>1, <3>1 DEF DirMirror
    <2>6. Mirrored'
      BY <2>3, <2>4, <2>5 DEF Mirrored
    <2>7. NamesDistinct'
      <3>1. IInv'
        BY WriteDirSectorIInv
      <3> QED
        BY <1>1, <1>4, <2>6, <3>1, MirroredNamesNext
    <2> QED
      BY <1>4, <2>6, <2>7
  <1> QED
    BY <1>3, <1>4

LEMMA WriteSuperCoherent == ASSUME ~Io, IInv, Coherent, WriteSuper PROVE Coherent'
  <1>1. /\ pc = "super" /\ call.op \in {"write", "append", "format"}
        /\ call.op # "format" => writable
        /\ UNCHANGED <<dDir, dData, media, mem, stale, call>>
        /\ pc' \in {"dir", "end"} /\ (call.op # "format" => pc' = "end")
        /\ dSuper'.ok
    BY DEF IInv, CallOK, WriteSuper
  <1> SUFFICES ASSUME ~stale
               PROVE  /\ NamesDistinct'
                      /\ call.op # "format" => Mirrored'
                      /\ call.op = "format" => Formatted'
    BY <1>1 DEF Coherent
  <1>2. CASE call.op = "format"
    <2>1. Formatted
      BY <1>1, <1>2 DEF Coherent
    <2>2. Formatted'
      BY <1>1, <1>2, <2>1 DEF Formatted, mem
    <2>3. NamesDistinct'
      BY <2>2, ConstantTypes DEF Formatted, NamesDistinct
    <2> QED
      BY <1>2, <2>2, <2>3
  <1>3. CASE call.op # "format"
    <2>1. FilesMirror /\ EntriesMirror /\ CallMirror /\ DataWritten /\ DirMirror /\ TextKept
      BY <1>1, <1>3 DEF Coherent, Mirrored
    <2>2. Updating /\ Updating'
      BY <1>1, <1>3 DEF Updating
    <2>3. FilesMirror' /\ EntriesMirror' /\ CallMirror'
      BY <1>1, <2>1, <2>2 DEF FilesMirror, EntriesMirror, CallMirror, Writing, mem
    <2>4. DataWritten' /\ TextKept'
      BY <1>1, <1>3, <2>1, <2>2 DEF DataWritten, TextKept, mem
    <2>5. DirMirror'
      BY <1>1, <1>3, <2>1 DEF DirMirror, Awaited, mem
    <2>6. Mirrored'
      BY <2>3, <2>4, <2>5 DEF Mirrored
    <2>7. NamesDistinct'
      BY <1>1, <2>1 DEF Coherent, NamesDistinct, DirMirror
    <2> QED
      BY <1>3, <2>6, <2>7
  <1> QED
    BY <1>2, <1>3

LEMMA ZeroOneCoherent == ASSUME ~Io, IInv, Coherent, ZeroOne PROVE Coherent'
  <1>1. /\ pc = "zero" /\ call.op = "format" /\ cur \in Nat /\ Zeroed
        /\ UNCHANGED <<call, writable, gFiles, gCount>>
    BY DEF IInv, CallOK, ZeroOne, TypeOK
  <1>2. cur > 0 => ~dSuper.ok
    BY <1>1 DEF IInv, CallOK
  <1>3. dSuper'.ok => dSuper.ok
    BY <1>1, ConstantTypes DEF Zeroed
  <1>4. CASE cur' = cur + 1 /\ UNCHANGED <<pc, stale>>
    <2>1. \A i \in DirIdx : dDir'[i] = dDir[i] \/ ~dDir'[i].used
      BY <1>1, ConstantTypes DEF Zeroed
    <2>2. NamesDistinct => NamesDistinct'
      BY <2>1 DEF NamesDistinct
    <2> QED
      BY <1>1, <1>3, <1>4, <2>2 DEF Coherent
  <1>5. CASE ~(cur + 1 < TotalSectors) /\ pc' = "super" /\ gDir' = EmptyDir
    <2>1. cur > 0
      BY <1>1, <1>5, Layout, LayoutAssumption DEF MediaSuperSector
    <2>2. ~dSuper'.ok
      BY <1>2, <1>3, <2>1
    <2>3. ASSUME NEW i \in DirIdx PROVE dDir'[i] = NoEntry /\ gDir'[i] = NoEntry
      <3>1. 1 + i \div EntriesPerSector < cur \/ 1 + i \div EntriesPerSector = cur
        BY <1>1, <1>5, DirectoryFits, LayoutAssumption DEF DataStart
      <3> QED
        BY <1>1, <1>5, <3>1, ConstantTypes DEF IInv, CallOK, Zeroed, EmptyDir
    <2> QED
      BY <1>1, <1>5, <2>2, <2>3 DEF Coherent, Formatted
  <1> QED
    BY <1>4, <1>5 DEF ZeroOne

\* At the end of a call g_files catches up with g_dir and the disk.
LEMMA FinishCoherent == ASSUME ~Io, IInv, Coherent, Finish PROVE Coherent'
  <1>1. /\ pc = "end" /\ pc' \in {"idle", "copy"} /\ call' = NoCallYet
        /\ UNCHANGED <<disk, gDir, stale>>
        /\ call.op \in {"write", "append", "remove", "format"}
        /\ call.op # "format" => writable /\ SlotOK
        /\ call.op = "remove" => call.slot # NoSlot
    BY DEF Finish, Return, IInv, CallOK
  <1>2. call'.op = "none" /\ ~Updating' /\ pc' # "data"
    BY <1>1, ConstantTypes DEF Updating
  <1>3. (dSuper.ok /\ ~stale => NamesDistinct)'
    BY <1>1 DEF Coherent, NamesDistinct, disk
  <1> SUFFICES ASSUME ~stale PROVE Mirrored'
    BY <1>1, <1>2, <1>3 DEF Coherent
  <1>4. CallMirror' /\ DataWritten' /\ TextKept'
    BY <1>2 DEF CallMirror, DataWritten, TextKept
  <1>5. gFiles \in [DirIdx -> Files] /\ gCount \in 0 .. DirEntries /\ call.slot \in DirIdx \cup {NoSlot}
    BY DEF IInv, TypeOK, Calls
  <1>6. ASSUME call.op # "format"
        PROVE  /\ FilesMirror /\ EntriesMirror /\ CallMirror /\ DirMirror /\ Updating
               /\ call.idx \in DirIdx
               /\ \A k \in DirIdx : k < gCount => /\ gFiles[k].name = call.name <=> k = call.slot
                                                 /\ gFiles[k].idx = call.idx <=> k = call.slot
    <2>1. FilesMirror /\ EntriesMirror /\ CallMirror /\ DirMirror
      BY <1>1, <1>6 DEF Coherent, Mirrored
    <2>2. Updating
      BY <1>1, <1>6 DEF Updating
    <2> QED
      BY <2>1, <2>2 DEF CallMirror
  <1>7. DirMirror'
    <2>1. CASE call.op = "format"
      <3>1. Formatted /\ dSuper.ok
        BY <1>1, <2>1 DEF Coherent, Formatted
      <3> QED
        BY <1>1, <3>1 DEF DirMirror, Awaited, Formatted, disk
    <2>2. CASE call.op # "format"
      BY <1>1, <1>6, <2>2 DEF DirMirror, Awaited, disk
    <2> QED
      BY <2>1, <2>2
  <1>8. CASE StoreFile
    <2> DEFINE at == IF call.slot = NoSlot THEN gCount ELSE call.slot
               file == [name |-> call.name, data |-> call.data, idx |-> call.idx]
    <2>1. Writing /\ call.op # "format"
      BY <1>8 DEF StoreFile, Writing
    <2>2. /\ at \in DirIdx
          /\ gCount' = IF call.slot = NoSlot THEN gCount + 1 ELSE gCount
          /\ \A k \in DirIdx : (k # at => gFiles'[k] = gFiles[k]) /\ (k = at => gFiles'[k] = file)
      <3>1. at \in DirIdx
        BY <1>1, <1>5, <2>1, Layout DEF SlotOK, DirIdx
      <3> QED
        BY <1>5, <1>8, <3>1 DEF StoreFile
    <2>3. \A k \in DirIdx : (k < gCount' <=> (k < gCount \/ k = at)) /\ (k < gCount => (k = at <=> k = call.slot))
      BY <1>1, <1>5, <2>1, <2>2, Layout DEF SlotOK
    <2>4. Mirrors(dData, file, gDir[call.idx])
      BY <1>6, <2>1 DEF CallMirror, Mirrors
    <2>5. file.name = call.name /\ file.idx = call.idx
      OBVIOUS
    <2> HIDE DEF at, file
    <2>6. ASSUME NEW k \in DirIdx, k < gCount', k # at
          PROVE  /\ k < gCount /\ k # call.slot
                 /\ gFiles'[k] = gFiles[k]
                 /\ gFiles[k].idx \in DirIdx /\ Mirrors(dData, gFiles[k], gDir[gFiles[k].idx])
                 /\ gFiles[k].idx # call.idx /\ gFiles[k].name # call.name
      <3>1. k < gCount /\ k # call.slot
        BY <2>3, <2>6
      <3>2. gFiles'[k] = gFiles[k]
        BY <2>2, <2>6
      <3>3. gFiles[k].idx \in DirIdx /\ Mirrors(dData, gFiles[k], gDir[gFiles[k].idx])
        BY <1>6, <2>1, <3>1 DEF FilesMirror
      <3>4. gFiles[k].idx # call.idx /\ gFiles[k].name # call.name
        <4>1. CallMirror /\ Updating
          BY <1>6, <2>1
        <4> QED
          BY <3>1, <4>1 DEF CallMirror
      <3> QED
        BY <3>1, <3>2, <3>3, <3>4
    <2>7. FilesMirror'
      <3> SUFFICES ASSUME NEW k \in DirIdx, k < gCount'
                   PROVE  /\ gFiles'[k].idx \in DirIdx
                          /\ Mirrors(dData, gFiles'[k], gDir[gFiles'[k].idx])
                          /\ \A l \in DirIdx : (l < gCount' /\ l # k) =>
                                /\ gFiles'[l].idx # gFiles'[k].idx
                                /\ gFiles'[l].name # gFiles'[k].name
        BY <1>1, <1>2 DEF FilesMirror, disk
      <3>1. CASE k = at
        BY <1>6, <2>1, <2>2, <2>4, <2>5, <2>6, <3>1
      <3>2. CASE k # at
        <4>1. ASSUME NEW l \in DirIdx, l < gCount', l # k
              PROVE  gFiles'[l].idx # gFiles'[k].idx /\ gFiles'[l].name # gFiles'[k].name
          <5>1. CASE l = at
            BY <2>2, <2>5, <2>6, <3>2, <5>1
          <5>2. CASE l # at
            <6>1. l < gCount /\ k < gCount /\ gFiles'[l] = gFiles[l] /\ gFiles'[k] = gFiles[k]
              BY <2>6, <3>2, <4>1, <5>2
            <6> QED
              BY <1>6, <2>1, <4>1, <6>1 DEF FilesMirror
          <5> QED
            BY <5>1, <5>2
        <4> QED
          BY <2>6, <3>2, <4>1
      <3> QED
        BY <3>1, <3>2
    <2>8. EntriesMirror'
      <3> SUFFICES ASSUME NEW i \in DirIdx, gDir[i].used
                   PROVE  \E k \in DirIdx : k < gCount' /\ gFiles'[k].idx = i
        BY <1>1 DEF EntriesMirror
      <3>1. CASE i = call.idx
        BY <2>2, <2>3, <2>5, <3>1
      <3>2. CASE i # call.idx
        <4>1. PICK k \in DirIdx : k < gCount /\ gFiles[k].idx = i
          BY <1>6, <2>1, <3>2 DEF EntriesMirror
        <4>2. k # at /\ k < gCount'
          BY <1>6, <2>1, <2>3, <3>2, <4>1
        <4> QED
          BY <2>2, <4>1, <4>2
      <3> QED
        BY <3>1, <3>2
    <2> QED
      BY <1>4, <1>7, <2>7, <2>8 DEF Mirrored
  <1>9. CASE DropFile
    <2>1. /\ call.op = "remove" /\ ~Writing /\ call.slot \in DirIdx /\ call.slot < gCount
          /\ gCount' = gCount - 1
      BY <1>1, <1>5, <1>9 DEF DropFile, Writing, SlotOK
    \* Where the file now at k was.
    <2> DEFINE was(k) == IF k < call.slot THEN k ELSE k + 1
    <2>2. ASSUME NEW k \in DirIdx, k < gCount'
          PROVE  /\ was(k) \in DirIdx /\ was(k) < gCount /\ was(k) # call.slot
                 /\ gFiles'[k] = gFiles[was(k)]
      <3>1. was(k) \in DirIdx /\ was(k) < gCount /\ was(k) # call.slot
        BY <1>5, <2>1, <2>2, Layout DEF DirIdx
      <3>2. gFiles'[k] = IF k < call.slot THEN gFiles[k]
                         ELSE IF k + 1 < gCount THEN gFiles[k + 1] ELSE EmptySlot
        BY <1>9 DEF DropFile
      <3> QED
        BY <3>1, <3>2
    <2>3. \A k, l \in DirIdx : k # l => was(k) # was(l)
      <3> SUFFICES ASSUME NEW k \in DirIdx, NEW l \in DirIdx, k # l
                   PROVE  was(k) # was(l)
        OBVIOUS
      <3>1. k \in Nat /\ l \in Nat /\ call.slot \in Nat
        BY <2>1, Layout
      <3> QED
        BY <3>1
    <2>4. \A k \in DirIdx : (k < gCount /\ k # call.slot) =>
             \E l \in DirIdx : l < gCount' /\ was(l) = k
      <3> SUFFICES ASSUME NEW k \in DirIdx, k < gCount, k # call.slot
                   PROVE  \E l \in DirIdx : l < gCount' /\ was(l) = k
        OBVIOUS
      <3>1. CASE k < call.slot
        <4>0. k \in Nat /\ call.slot \in Nat /\ gCount \in Nat
          <5>1. gCount \in 0 .. DirEntries
            BY <1>5
          <5>2. k \in Nat
            BY Layout
          <5>3. call.slot \in Nat
            BY <2>1, Layout
          <5> QED
            BY <5>1, <5>2, <5>3, Layout
        <4>1. was(k) = k /\ k < gCount'
          BY <2>1, <3>1, <4>0
        <4> QED
          BY <4>1
      <3>2. CASE ~(k < call.slot)
        <4>1. k - 1 \in DirIdx /\ k - 1 < gCount' /\ was(k - 1) = k
          BY <1>5, <2>1, <3>2, Layout DEF DirIdx
        <4> QED
          BY <4>1
      <3> QED
        BY <3>1, <3>2
    <2> HIDE DEF was
    <2>5. FilesMirror'
      <3> SUFFICES ASSUME NEW k \in DirIdx, k < gCount'
                   PROVE  /\ gFiles'[k].idx \in DirIdx
                          /\ Mirrors(dData, gFiles'[k], gDir[gFiles'[k].idx])
                          /\ \A l \in DirIdx : (l < gCount' /\ l # k) =>
                                /\ gFiles'[l].idx # gFiles'[k].idx
                                /\ gFiles'[l].name # gFiles'[k].name
        BY <1>1, <1>2 DEF FilesMirror, disk
      <3>1. gFiles'[k].idx \in DirIdx /\ Mirrors(dData, gFiles'[k], gDir[gFiles'[k].idx])
        BY <1>6, <2>1, <2>2 DEF FilesMirror
      <3>2. ASSUME NEW l \in DirIdx, l < gCount', l # k
            PROVE  gFiles'[l].idx # gFiles'[k].idx /\ gFiles'[l].name # gFiles'[k].name
        <4>1. was(l) # was(k)
          BY <2>3, <3>2
        <4>2. /\ was(l) \in DirIdx /\ was(l) < gCount /\ gFiles'[l] = gFiles[was(l)]
              /\ was(k) \in DirIdx /\ was(k) < gCount /\ gFiles'[k] = gFiles[was(k)]
          BY <2>2, <3>2
        <4> QED
          BY <1>6, <2>1, <4>1, <4>2 DEF FilesMirror
      <3> QED
        BY <3>1, <3>2
    <2>6. EntriesMirror'
      <3> SUFFICES ASSUME NEW i \in DirIdx, gDir[i].used
                   PROVE  \E k \in DirIdx : k < gCount' /\ gFiles'[k].idx = i
        BY <1>1 DEF EntriesMirror
      <3>1. PICK k \in DirIdx : k < gCount /\ gFiles[k].idx = i
        BY <1>6, <2>1 DEF EntriesMirror
      <3>2. k # call.slot
        BY <1>6, <2>1, <3>1 DEF CallMirror
      <3>3. PICK l \in DirIdx : l < gCount' /\ was(l) = k
        BY <2>4, <3>1, <3>2
      <3> QED
        BY <2>2, <3>1, <3>3
    <2> QED
      BY <1>4, <1>7, <2>5, <2>6 DEF Mirrored
  <1>10. CASE ResetFiles
    <2>1. call.op = "format" /\ gCount' = 0
      BY <1>10 DEF ResetFiles
    <2>2. \A i \in DirIdx : ~gDir[i].used
      BY <1>1, <2>1, ConstantTypes DEF Coherent, Formatted
    <2> QED
      BY <1>1, <1>4, <1>7, <2>1, <2>2, Layout DEF Mirrored, FilesMirror, EntriesMirror
  <1> QED
    BY <1>8, <1>9, <1>10 DEF Finish

\* With failing writes nothing is claimed.
CInv == IInv /\ (~Io => Coherent)

LEMMA NextCoherent == ASSUME ~Io, IInv, Coherent, [Next]_vars PROVE Coherent'
  <1>1. ASSUME NEW n \in Names, NEW d \in Writes, NEW append \in BOOLEAN, Write(n, d, append)
        PROVE  Coherent'
    BY <1>1, WriteCoherent
  <1>2. ASSUME NEW n \in Names, Remove(n) PROVE Coherent'
    BY <1>2, RemoveCoherent
  <1>3. CASE UNCHANGED vars
    BY <1>3 DEF vars, disk, mem, Coherent, NamesDistinct, Mirrored, Formatted, FilesMirror,
                EntriesMirror, CallMirror, DataWritten, DirMirror, Awaited, AsBefore, TextKept, Updating,
                Writing
  <1> QED
    BY <1>1, <1>2, <1>3, InstallCoherent, CopyNextCoherent, WriteDataSectorCoherent,
       WriteDirSectorCoherent, WriteSuperCoherent, ZeroOneCoherent, FinishCoherent,
       BootMountedCoherent, BootFallbackCoherent DEF Next

LEMMA CInvariance == Spec => []CInv
  <1>1. Init => CInv
    BY InitIInv, InitCoherent DEF CInv
  <1>2. CInv /\ [Next]_vars => CInv'
    BY NextIInv, NextCoherent DEF CInv
  <1> QED
    BY <1>1, <1>2, PTL DEF Spec

\* Between calls cat shows what the next boot would find, as long as no write fails and
\* no mount took a lagging superblock: the packing of the mount, the move-up of a remove
\* and the in-place update of a write all leave one file per directory entry.
THEOREM CacheStaysCoherent == Spec => []CacheCoherent
  <1>1. ASSUME CInv PROVE CacheCoherent
    <2> SUFFICES ASSUME pc = "idle", writable, ~stale, ~Io, NEW n \in Names
                 PROVE  MemFile(n) = DiskFile(n)
      BY DEF CacheCoherent
    <2>1. /\ Coherent /\ call.op = "none" /\ Mirrored /\ dSuper.ok
      BY <1>1, ConstantTypes DEF CInv, Coherent, Mirrored, DirMirror
    <2>2. NamesDistinct /\ ~Updating /\ \A i \in DirIdx : dDir[i] = gDir[i]
      BY <2>1 DEF Coherent, Updating, Mirrored, DirMirror, Awaited
    <2>3. NamesOnce
      BY <2>1, FilesMirrorNames DEF Mirrored
    <2>4. CASE FindSlot(n) # NoSlot
      <3> DEFINE k == FindSlot(n)
      <3>1. k \in DirIdx /\ k < gCount /\ gFiles[k].name = n
        BY <2>3, <2>4, FindSlotFinds
      <3>2. /\ gFiles[k].idx \in DirIdx /\ dDir[gFiles[k].idx].used
            /\ dDir[gFiles[k].idx].name = n
            /\ BytesOf(dData, dDir[gFiles[k].idx]) = gFiles[k].data
        BY <2>1, <2>2, <3>1 DEF Mirrored, FilesMirror, Mirrors
      <3> QED
        BY <2>1, <2>2, <2>4, <3>2, DiskFileFinds DEF MemFile
    <2>5. CASE FindSlot(n) = NoSlot
      <3>1. ASSUME NEW i \in DirIdx, dDir[i].used, dDir[i].name = n PROVE FALSE
        <4>1. PICK k \in DirIdx : k < gCount /\ gFiles[k].idx = i
          BY <2>1, <2>2, <3>1 DEF Mirrored, EntriesMirror
        <4>2. gFiles[k].name = n
          BY <2>1, <2>2, <3>1, <4>1 DEF Mirrored, FilesMirror, Mirrors
        <4> QED
          BY <2>3, <2>5, <4>1, <4>2, FindSlotFinds, Layout
      <3> QED
        BY <2>2, <2>5, <3>1, DiskFileFinds DEF MemFile
    <2> QED
      BY <2>4, <2>5
  <1> QED
    BY <1>1, CInvariance, PTL

-----------------------------------------------------------------------------
(* flarefs implements AtomicStore, step by step *)

\* The request at rest, and of each kind of call.
LEMMA RequestIs ==
    /\ (pc \in {"idle", "copy"} /\ call.op = "none") => Request = [op |-> "none"]
    /\ (pc \notin {"idle", "copy"} /\ Writing) =>
          Request = [op |-> call.op, name |-> call.name, data |-> call.text]
    /\ (pc \notin {"idle", "copy"} /\ call.op = "remove") =>
          Request = [op |-> "remove", name |-> call.name]
    /\ (pc \notin {"idle", "copy"} /\ call.op = "format") => Request = [op |-> "clear"]
  <1>1. CASE pc \in {"idle", "copy"} /\ call.op = "none"
    BY <1>1 DEF Request, Writing
  <1>2. CASE pc \notin {"idle", "copy"} /\ Writing
    BY <1>2 DEF Request, Writing
  <1>3. CASE pc \notin {"idle", "copy"} /\ call.op = "remove"
    BY <1>3 DEF Request, Writing
  <1>4. CASE pc \notin {"idle", "copy"} /\ call.op = "format"
    BY <1>4 DEF Request, Writing
  <1> QED
    BY <1>1, <1>2, <1>3, <1>4

LEMMA AppliedIs ==
    (pc \notin {"idle", "copy"} \/ call.op = "none") =>
        /\ Applied \in BOOLEAN
        /\ pc \in {"idle", "copy"} => Applied = FALSE
        /\ (pc \notin {"idle", "copy"} /\ call.op = "format") =>
              (Applied = TRUE <=> (pc # "zero" \/ cur > 0))
        /\ (pc \notin {"idle", "copy"} /\ call.op # "format") =>
              (Applied = TRUE <=> \/ pc \in {"super", "end"}
                                  \/ (pc = "dir" /\ cur > call.idx \div EntriesPerSector))
  <1>1. CASE pc \in {"idle", "copy"} /\ call.op = "none"
    BY <1>1 DEF Applied
  <1>2. CASE pc \notin {"idle", "copy"} /\ call.op = "format"
    <2>1. Applied = (pc # "zero" \/ cur > 0)
      BY <1>2 DEF Applied
    <2> QED
      BY <1>2, <2>1
  <1>3. CASE pc \notin {"idle", "copy"} /\ call.op # "format"
    <2>1. Applied = (\/ pc \in {"super", "end"}
                     \/ (pc = "dir" /\ cur > call.idx \div EntriesPerSector))
      BY <1>3 DEF Applied
    <2> QED
      BY <1>3, <2>1
  <1> QED
    BY <1>1, <1>2, <1>3

LEMMA RequestIsNext ==
    (/\ (pc \in {"idle", "copy"} /\ call.op = "none") => Request = [op |-> "none"]
     /\ (pc \notin {"idle", "copy"} /\ Writing) =>
           Request = [op |-> call.op, name |-> call.name, data |-> call.text]
     /\ (pc \notin {"idle", "copy"} /\ call.op = "remove") =>
           Request = [op |-> "remove", name |-> call.name]
     /\ (pc \notin {"idle", "copy"} /\ call.op = "format") => Request = [op |-> "clear"])'
  BY RequestIs, PTL

LEMMA AppliedIsNext ==
    ((pc \notin {"idle", "copy"} \/ call.op = "none") =>
        /\ Applied \in BOOLEAN
        /\ pc \in {"idle", "copy"} => Applied = FALSE
        /\ (pc \notin {"idle", "copy"} /\ call.op = "format") =>
              (Applied = TRUE <=> (pc # "zero" \/ cur > 0))
        /\ (pc \notin {"idle", "copy"} /\ call.op # "format") =>
              (Applied = TRUE <=> \/ pc \in {"super", "end"}
                                  \/ (pc = "dir" /\ cur > call.idx \div EntriesPerSector)))'
  BY AppliedIs, PTL

\* A step that writes no sector shows a boot the same files.
LEMMA DiskFileSame == ASSUME UNCHANGED disk, NEW n PROVE DiskFile(n)' = DiskFile(n)
  BY DEF disk, DiskFile, ReadEntry

\* The files of AtomicStore.
Stored == [n \in Names |-> DiskFile(n)]

LEMMA DiskFileFindsAll ==
    (dSuper.ok => NamesDistinct) =>
        \A n : /\ ~dSuper.ok => DiskFile(n) = NoName
               /\ \A i \in DirIdx : (dSuper.ok /\ dDir[i].used /\ dDir[i].name = n) =>
                     DiskFile(n) = BytesOf(dData, dDir[i])
               /\ (\A i \in DirIdx : ~(dDir[i].used /\ dDir[i].name = n)) => DiskFile(n) = NoName
  BY DiskFileFinds

LEMMA DiskFileFindsNext ==
    ((dSuper.ok => NamesDistinct) =>
        \A n : /\ ~dSuper.ok => DiskFile(n) = NoName
               /\ \A i \in DirIdx : (dSuper.ok /\ dDir[i].used /\ dDir[i].name = n) =>
                     DiskFile(n) = BytesOf(dData, dDir[i])
               /\ (\A i \in DirIdx : ~(dDir[i].used /\ dDir[i].name = n)) => DiskFile(n) = NoName)'
  BY DiskFileFindsAll, PTL

\* The step changes no entry in use and nothing that is read through one.
LEMMA DirectoryKept ==
    ASSUME Coherent, Coherent', ~stale, ~stale', dSuper'.ok = dSuper.ok,
           \A i \in DirIdx : /\ dDir'[i] = dDir[i]
                             /\ dDir[i].used => BytesOf(dData', dDir[i]) = BytesOf(dData, dDir[i])
    PROVE  \A n : DiskFile(n)' = DiskFile(n)
  <1> SUFFICES ASSUME NEW n PROVE DiskFile(n)' = DiskFile(n)
    OBVIOUS
  <1>1. (dSuper.ok => NamesDistinct) /\ (dSuper.ok => NamesDistinct)'
    BY DEF Coherent
  <1>2. CASE ~dSuper.ok
    BY <1>1, <1>2, DiskFileFindsAll, DiskFileFindsNext
  <1>3. CASE dSuper.ok /\ \E i \in DirIdx : dDir[i].used /\ dDir[i].name = n
    BY <1>1, <1>3, DiskFileFindsAll, DiskFileFindsNext
  <1>4. CASE \A i \in DirIdx : ~(dDir[i].used /\ dDir[i].name = n)
    BY <1>1, <1>4, DiskFileFindsAll, DiskFileFindsNext
  <1> QED
    BY <1>2, <1>3, <1>4

\* A refused call, a call that begins and a call that ends leave the disk alone.
LEMMA Refuses ==
    ASSUME Coherent, pc \in {"idle", "copy"}, Return("fail"), UNCHANGED disk
    PROVE  Store!Refuse
  <1>1. Applied = FALSE
    BY AppliedIs, ConstantTypes DEF Coherent
  <1>2. Request' = [op |-> "none"] /\ Applied' = FALSE /\ ret' = "fail"
    BY AppliedIsNext, RequestIsNext, ConstantTypes DEF Return
  <1>3. Stored' = Stored
    BY DiskFileSame DEF Stored
  <1> QED
    BY <1>1, <1>2, <1>3 DEF Store!Refuse, Store!NoCall, Stored

LEMMA Asks ==
    ASSUME Coherent, pc \in {"idle", "copy"}, UNCHANGED disk,
           Request' \in Store!Requests, Applied' = FALSE, ret' = "none"
    PROVE  Store!Ask
  <1>1. Request = [op |-> "none"]
    BY RequestIs, ConstantTypes DEF Coherent
  <1>2. Stored' = Stored
    BY DiskFileSame DEF Stored
  <1> QED
    BY <1>1, <1>2 DEF Store!Ask, Store!NoCall, Stored

LEMMA BeginWriteStep ==
    ASSUME IInv, Coherent, pc \in {"idle", "copy"}, NEW n, NEW d \in Seq(Byte),
           NEW append \in BOOLEAN, NEW rest,
           BeginWrite(n, d, append, rest), UNCHANGED disk
    PROVE  Store!StoreNext
  <1>1. CASE Return("fail")
    BY <1>1, Refuses DEF Store!StoreNext
  <1>2. CASE /\ pc' = "data" /\ ret' = "none" /\ n \in ValidNames
             /\ call'.op = (IF append THEN "append" ELSE "write")
             /\ call'.name = n /\ call'.text = d
    <2>1. Writing' /\ call'.op \in {"write", "append"} /\ call'.op # "format"
      BY <1>2 DEF Writing
    <2>2. Request' = [op |-> call'.op, name |-> n, data |-> d]
      BY <1>2, <2>1, RequestIsNext
    <2>3. Request' \in Store!Requests
      BY <1>2, <2>1, <2>2 DEF Store!Requests, Names
    <2>4. Applied' = FALSE
      BY <1>2, <2>1, AppliedIsNext
    <2> QED
      BY <1>2, <2>3, <2>4, Asks DEF Store!StoreNext
  <1> QED
    BY <1>1, <1>2 DEF BeginWrite

LEMMA RemoveStep ==
    ASSUME IInv, Coherent, Coherent', ~stale', NEW n \in Names, Remove(n)
    PROVE  Store!StoreNext
  <1>1. pc = "idle" /\ UNCHANGED <<disk, writable>>
    BY DEF Remove
  <1>2. CASE Return("fail")
    BY <1>1, <1>2, Refuses DEF Store!StoreNext
  <1>3. CASE /\ writable /\ pc' = "dir" /\ cur' = 0 /\ ret' = "none"
             /\ call' = [NoCallYet EXCEPT !.op = "remove", !.name = n, !.slot = FindSlot(n),
                                          !.idx = gFiles[FindSlot(n)].idx]
    <2>1. call'.op = "remove" /\ call'.name = n
      BY <1>3 DEF NoCallYet
    <2>2. Request' \in Store!Requests
      BY <1>3, <2>1, RequestIsNext DEF Store!Requests
    <2>3. call'.idx \in DirIdx
      BY <1>1, <1>3, <2>1 DEF Coherent, Mirrored, CallMirror, Updating
    <2>4. ~(cur' > call'.idx \div EntriesPerSector)
      <3>1. call'.idx \div EntriesPerSector \in Nat
        BY <2>3, DirectoryFits
      <3> QED
        BY <1>3, <3>1
    <2>5. Applied' = FALSE
      BY <1>3, <2>1, <2>4, AppliedIsNext
    <2> QED
      BY <1>1, <1>3, <2>2, <2>5, Asks DEF Store!StoreNext
  <1> QED
    BY <1>2, <1>3 DEF Remove

LEMMA InstallStep == ASSUME IInv, Coherent, Install PROVE Store!StoreNext
  <1>1. pc = "idle" /\ UNCHANGED disk
    BY DEF Install
  <1>2. CASE Return("fail")
    BY <1>1, <1>2, Refuses DEF Store!StoreNext
  <1>3. CASE pc' = "zero" /\ cur' = 0 /\ ret' = "none" /\ call' = [NoCallYet EXCEPT !.op = "format"]
    <2>1. call'.op = "format"
      BY <1>3 DEF NoCallYet
    <2>2. Request' \in Store!Requests
      BY <1>3, <2>1, RequestIsNext DEF Store!Requests
    <2>3. Applied' = FALSE
      <3>1. ~(pc' # "zero" \/ cur' > 0)
        BY <1>3
      <3> QED
        BY <1>3, <2>1, <3>1, AppliedIsNext
    <2> QED
      BY <1>1, <1>3, <2>2, <2>3, Asks DEF Store!StoreNext
  <1> QED
    BY <1>2, <1>3 DEF Install

\* The data sectors of a call are not yet any file's.
LEMMA WriteDataSectorStep ==
    ASSUME ~Io, IInv, IInv', Coherent, Coherent', ~stale, WriteDataSector
    PROVE  UNCHANGED Store!svars
  <1>1. /\ pc = "data" /\ Writing /\ writable
        /\ UNCHANGED <<dSuper, dDir, call, ret, stale, writable>>
        /\ pc' = "data" \/ (pc' = "dir" /\ cur' = 0)
    BY DEF IInv, CallOK, WriteDataSector, Writing
  <1>2. call.op # "format"
    BY <1>1 DEF Writing
  <1>3. Stored' = Stored
    <2>1. \A n : DiskFile(n)' = DiskFile(n)
      BY <1>1, DataKept, DirectoryKept
    <2> QED
      BY <2>1 DEF Stored
  <1>4. Request' = Request
    BY <1>1, RequestIs, RequestIsNext DEF Writing
  <1>5. Applied = FALSE
    BY <1>1, <1>2, AppliedIs
  <1>6. Applied' = FALSE
    <2>1. call.idx \in DirIdx
      BY <1>1, <1>2 DEF Coherent, Mirrored, CallMirror
    <2>2. call.idx \div EntriesPerSector \in Nat
      BY <2>1, DirectoryFits
    <2>3. pc' = "dir" => ~(cur' > call.idx \div EntriesPerSector)
      BY <1>1, <2>2
    <2> QED
      BY <1>1, <1>2, <2>3, AppliedIsNext
  <1> QED
    BY <1>1, <1>3, <1>4, <1>5, <1>6 DEF Store!svars, Stored

LEMMA WriteSuperStep ==
    ASSUME ~Io, IInv, Coherent, Coherent', ~stale, WriteSuper
    PROVE  UNCHANGED Store!svars
  <1>1. /\ pc = "super" /\ call.op \in {"write", "append", "format"}
        /\ UNCHANGED <<dDir, dData, call, ret, stale, writable>>
        /\ pc' \in {"dir", "end"} /\ (call.op # "format" => pc' = "end" /\ writable)
        /\ dSuper'.ok
    BY DEF IInv, CallOK, WriteSuper, mem
  <1>2. Stored' = Stored
    <2>1. CASE call.op = "format"
      <3>1. \A i \in DirIdx : ~dDir[i].used /\ ~dDir'[i].used
        BY <1>1, <2>1, ConstantTypes DEF Coherent, Formatted
      <3>2. \A n : DiskFile(n) = NoName /\ DiskFile(n)' = NoName
        BY <3>1, DiskFileFindsAll, DiskFileFindsNext, <1>1 DEF Coherent
      <3> QED
        BY <3>2 DEF Stored
    <2>2. CASE call.op # "format"
      <3>1. dSuper.ok
        BY <1>1, <2>2 DEF Coherent, Mirrored, DirMirror
      <3>2. \A n : DiskFile(n)' = DiskFile(n)
        BY <1>1, <3>1 DEF DiskFile, ReadEntry
      <3> QED
        BY <3>2 DEF Stored
    <2> QED
      BY <2>1, <2>2
  <1>3. Request' = Request
    BY <1>1, RequestIs, RequestIsNext DEF Writing
  <1>4. Applied' = Applied
    BY <1>1, AppliedIs, AppliedIsNext
  <1> QED
    BY <1>1, <1>2, <1>3, <1>4 DEF Store!svars, Stored

\* The directory sector of the call's entry is where a write, append or remove happens.
LEMMA WriteDirSectorStep ==
    ASSUME ~Io, IInv, Coherent, Coherent', ~stale, WriteDirSector
    PROVE  Store!StoreNext \/ UNCHANGED Store!svars
  <1>1. /\ pc = "dir" /\ call.op \in {"write", "append", "remove", "format"}
        /\ call.op # "format" => writable
        /\ UNCHANGED <<dSuper, dData, media, mem, stale, call, ret>>
        /\ \/ cur + 1 < DirSectors /\ cur' = cur + 1 /\ pc' = "dir"
           \/ ~(cur + 1 < DirSectors) /\ cur' = 0 /\ pc' \in {"super", "end"}
        /\ cur \in Nat /\ DirSectors \in Nat
    BY LayoutAssumption DEF IInv, CallOK, WriteDirSector, TypeOK
  <1>2. \A i \in DirIdx : dDir'[i] = IF i \div EntriesPerSector = cur THEN gDir[i] ELSE dDir[i]
    BY DEF WriteDirSector
  <1>3. Request' = Request /\ ret' = ret
    BY <1>1, RequestIs, RequestIsNext DEF Writing
  <1>4. CASE call.op = "format"
    <2>1. \A i \in DirIdx : ~dDir[i].used /\ ~dDir'[i].used
      BY <1>1, <1>2, <1>4, ConstantTypes DEF Coherent, Formatted
    <2>2. \A n : DiskFile(n) = NoName /\ DiskFile(n)' = NoName
      BY <2>1, DiskFileFindsAll, DiskFileFindsNext, <1>1 DEF Coherent
    <2>3. Stored' = Stored
      BY <2>2 DEF Stored
    <2>4. Applied' = Applied
      BY <1>1, <1>4, AppliedIs, AppliedIsNext
    <2> QED
      BY <1>3, <2>3, <2>4 DEF Store!svars, Stored
  <1>5. CASE call.op # "format"
    <2> DEFINE idx == call.idx
               row == idx \div EntriesPerSector
    <2>1. /\ FilesMirror /\ EntriesMirror /\ CallMirror /\ DirMirror /\ TextKept /\ dSuper.ok
          /\ Updating /\ NamesDistinct /\ NamesDistinct'
      BY <1>1, <1>5 DEF Coherent, Mirrored, Updating, DirMirror
    <2>2. idx \in DirIdx /\ row \in Nat /\ row < DirSectors
      BY <2>1, DirectoryFits DEF CallMirror
    <2>3. \A i \in DirIdx : i # idx => dDir[i] = gDir[i] /\ dDir'[i] = dDir[i]
      BY <1>2, <2>1 DEF DirMirror, Awaited
    <2>4. cur <= row => AsBefore(idx)
      BY <1>1, <2>1, <2>2 DEF DirMirror, Awaited
    <2>5. cur > row => dDir[idx] = gDir[idx]
      BY <1>1, <2>1, <2>2 DEF DirMirror, Awaited
    <2>6. /\ Applied \in BOOLEAN /\ (Applied = TRUE <=> cur > row)
          /\ Applied' \in BOOLEAN /\ (Applied' = TRUE <=> cur >= row)
      <3> HIDE DEF row
      <3>1. Applied \in BOOLEAN /\ (Applied = TRUE <=> cur > row)
        BY <1>1, <1>5, AppliedIs DEF row
      <3>2. CASE cur + 1 < DirSectors /\ cur' = cur + 1 /\ pc' = "dir"
        <4>1. Applied' \in BOOLEAN /\ (Applied' = TRUE <=> cur + 1 > row)
          BY <1>1, <1>5, <3>2, AppliedIsNext DEF row
        <4>2. cur + 1 > row <=> cur >= row
          BY <1>1, <2>2
        <4> QED
          BY <3>1, <4>1, <4>2
      <3>3. CASE ~(cur + 1 < DirSectors) /\ pc' \in {"super", "end"}
        <4>1. Applied' = TRUE
          BY <1>1, <1>5, <3>3, AppliedIsNext
        <4>2. cur >= row
          BY <1>1, <2>2, <3>3
        <4> QED
          BY <3>1, <4>1, <4>2
      <3> QED
        BY <1>1, <3>2, <3>3
    <2>7. CASE cur # row
      <3>1. \A i \in DirIdx : dDir'[i] = dDir[i]
        BY <1>2, <2>2, <2>3, <2>7
      <3>2. \A n : DiskFile(n)' = DiskFile(n)
        BY <1>1, <3>1, DirectoryKept
      <3>3. Stored' = Stored
        BY <3>2 DEF Stored
      <3>4. Applied' = Applied
        BY <1>1, <2>2, <2>6, <2>7
      <3> QED
        BY <1>3, <3>3, <3>4 DEF Store!svars, Stored
    <2>8. CASE cur = row
      <3>1. dDir'[idx] = gDir[idx] /\ AsBefore(idx)
        BY <1>1, <1>2, <2>2, <2>4, <2>8
      <3>2. Applied = FALSE /\ Applied' = TRUE
        BY <1>1, <2>2, <2>6, <2>8
      \* No other entry has the name of the call.
      <3>3. \A i \in DirIdx : (i # idx /\ dDir[i].used) => dDir[i].name # call.name
        <4> SUFFICES ASSUME NEW i \in DirIdx, i # idx, dDir[i].used
                     PROVE  dDir[i].name # call.name
          OBVIOUS
        <4>1. PICK k \in DirIdx : k < gCount /\ gFiles[k].idx = i
          BY <2>1, <2>3 DEF EntriesMirror
        <4>2. k # call.slot
          BY <2>1, <4>1 DEF CallMirror
        <4>3. gFiles[k].name = dDir[i].name
          BY <2>1, <2>3, <4>1, <4>2 DEF FilesMirror, Mirrors
        <4> QED
          BY <2>1, <4>1, <4>2, <4>3 DEF CallMirror
      <3>4. call.slot # NoSlot => /\ call.slot \in DirIdx /\ call.slot < gCount
                                  /\ gFiles[call.slot].name = call.name
        <4>1. call.slot \in DirIdx \cup {NoSlot} /\ SlotOK
          BY <1>1, <1>5 DEF IInv, CallOK, TypeOK, Calls
        <4> QED
          BY <2>1, <4>1 DEF SlotOK, CallMirror
      \* What the name had before ...
      <3>5. DiskFile(call.name) = IF call.slot = NoSlot THEN NoName ELSE gFiles[call.slot].data
        <4>1. CASE call.slot = NoSlot
          <5>1. \A i \in DirIdx : ~(dDir[i].used /\ dDir[i].name = call.name)
            BY <3>1, <3>3, <4>1 DEF AsBefore
          <5> QED
            BY <2>1, <4>1, <5>1, DiskFileFindsAll
        <4>2. CASE call.slot # NoSlot
          <5>1. /\ dDir[idx].used /\ dDir[idx].name = call.name
                /\ BytesOf(dData, dDir[idx]) = gFiles[call.slot].data
            BY <3>1, <3>4, <4>2 DEF AsBefore, Mirrors
          <5> QED
            BY <2>1, <2>2, <4>2, <5>1, DiskFileFindsAll
        <4> QED
          BY <4>1, <4>2
      \* ... and has now.
      <3>6. DiskFile(call.name)' = IF Writing THEN call.data ELSE NoName
        <4>1. dSuper'.ok /\ NamesDistinct' /\ call' = call /\ dData' = dData
          BY <1>1, <2>1
        <4>2. CASE Writing
          <5>1. /\ dDir'[idx].used /\ dDir'[idx].name = call.name
                /\ BytesOf(dData, dDir'[idx]) = call.data
            BY <2>1, <3>1, <4>2 DEF CallMirror, Mirrors
          <5> QED
            BY <2>2, <4>1, <4>2, <5>1, DiskFileFindsNext
        <4>3. CASE ~Writing
          <5>1. ~dDir'[idx].used
            BY <2>1, <3>1, <4>3 DEF CallMirror
          <5>2. \A i \in DirIdx : ~(dDir'[i].used /\ dDir'[i].name = call.name)
            BY <2>3, <3>3, <5>1
          <5> QED
            BY <4>1, <4>3, <5>2, DiskFileFindsNext
        <4> QED
          BY <4>2, <4>3
      <3>7. ASSUME NEW n, n # call.name PROVE DiskFile(n)' = DiskFile(n)
        <4>1. dSuper'.ok /\ NamesDistinct' /\ dData' = dData
          BY <1>1, <2>1
        <4>2. /\ dDir[idx].used => dDir[idx].name = call.name
              /\ dDir'[idx].used => dDir'[idx].name = call.name
          BY <2>1, <3>1, <3>4 DEF AsBefore, CallMirror, Mirrors
        <4>3. CASE \E i \in DirIdx : dDir[i].used /\ dDir[i].name = n
          <5>1. PICK i \in DirIdx : dDir[i].used /\ dDir[i].name = n
            BY <4>3
          <5>2. dDir'[i] = dDir[i]
            BY <2>3, <3>7, <4>2, <5>1
          <5> QED
            BY <2>1, <4>1, <5>1, <5>2, DiskFileFindsAll, DiskFileFindsNext
        <4>4. CASE \A i \in DirIdx : ~(dDir[i].used /\ dDir[i].name = n)
          <5>1. \A i \in DirIdx : ~(dDir'[i].used /\ dDir'[i].name = n)
            BY <2>3, <3>7, <4>2, <4>4
          <5> QED
            BY <2>1, <4>1, <4>4, <5>1, DiskFileFindsAll, DiskFileFindsNext
        <4> QED
          BY <4>3, <4>4
      <3>8. ASSUME NEW v, DiskFile(call.name)' = v
            PROVE  Stored' = [Stored EXCEPT ![call.name] = v]
        <4>1. ASSUME NEW n \in Names
              PROVE  DiskFile(n)' = IF n = call.name THEN v ELSE DiskFile(n)
          BY <1>1, <3>7, <3>8
        <4> QED
          BY <4>1 DEF Stored
      <3>9. Stored' = Store!Apply(Stored, Request)
        <4>1. CASE call.op = "write"
          <5>1. Request = [op |-> "write", name |-> call.name, data |-> call.text]
            BY <1>1, <4>1, RequestIs DEF Writing
          <5>2. Store!Apply(Stored, Request) = [Stored EXCEPT ![call.name] = call.text]
            BY <5>1 DEF Store!Apply
          <5>3. DiskFile(call.name)' = call.text
            BY <2>1, <3>6, <4>1 DEF Writing, TextKept
          <5> QED
            BY <3>8, <5>2, <5>3
        <4>2. CASE call.op = "append"
          <5>1. Request = [op |-> "append", name |-> call.name, data |-> call.text]
            BY <1>1, <4>2, RequestIs DEF Writing
          <5>2. Store!Apply(Stored, Request) =
                   [Stored EXCEPT ![call.name] = IF @ = NoName THEN call.text ELSE @ \o call.text]
            BY <5>1 DEF Store!Apply
          <5>3. DiskFile(call.name)' = IF DiskFile(call.name) = NoName THEN call.text
                                       ELSE DiskFile(call.name) \o call.text
            <6>1. DiskFile(call.name)' = call.data
              BY <3>6, <4>2 DEF Writing
            <6>2. call.slot # NoSlot => gFiles[call.slot].data # NoName
              BY <3>4, DataAssumption DEF IInv, TypeOK, Files
            <6> QED
              BY <2>1, <3>5, <4>2, <6>1, <6>2 DEF TextKept
          <5>4. [Stored EXCEPT ![call.name] = IF @ = NoName THEN call.text ELSE @ \o call.text] =
                   [Stored EXCEPT ![call.name] = IF DiskFile(call.name) = NoName THEN call.text
                                                 ELSE DiskFile(call.name) \o call.text]
            BY DEF Stored
          <5> QED
            BY <3>8, <5>2, <5>3, <5>4
        <4>3. CASE call.op = "remove"
          <5>1. Request = [op |-> "remove", name |-> call.name]
            BY <1>1, <4>3, RequestIs
          <5>2. Store!Apply(Stored, Request) = [Stored EXCEPT ![call.name] = NoName]
            BY <5>1 DEF Store!Apply
          <5>3. DiskFile(call.name)' = NoName
            BY <3>6, <4>3 DEF Writing
          <5> QED
            BY <3>8, <5>2, <5>3
        <4> QED
          BY <1>1, <1>5, <4>1, <4>2, <4>3
      <3>10. Request # Store!NoCall
        BY <1>1, <1>5, RequestIs DEF Store!NoCall, Writing
      <3> QED
        BY <1>3, <3>2, <3>9, <3>10 DEF Store!StoreNext, Store!Effect, Stored
    <2> QED
      BY <2>7, <2>8
  <1> QED
    BY <1>4, <1>5

\* Format happens when it has zeroed the superblock, its first sector.
LEMMA ZeroOneStep ==
    ASSUME ~Io, IInv, Coherent, Coherent', ~stale \/ cur > 0, ZeroOne
    PROVE  Store!StoreNext \/ UNCHANGED Store!svars
  <1>1. /\ pc = "zero" /\ call.op = "format" /\ Zeroed /\ cur \in Nat
        /\ UNCHANGED <<call, ret>>
        /\ (pc' = "zero" /\ cur' = cur + 1) \/ pc' = "super"
    BY DEF IInv, CallOK, ZeroOne, TypeOK
  <1>2. Request = [op |-> "clear"] /\ Request' = [op |-> "clear"] /\ ret' = ret
    BY <1>1, RequestIs, RequestIsNext
  <1>3. /\ Applied \in BOOLEAN /\ (Applied = TRUE <=> cur > 0)
        /\ Applied' = TRUE
    BY <1>1, AppliedIs, AppliedIsNext
  <1>4. ~dSuper'.ok
    BY <1>1, ConstantTypes DEF IInv, CallOK, Zeroed
  <1>5. Stored' = [n \in Names |-> NoName]
    BY <1>4 DEF Stored, DiskFile
  <1>6. CASE cur > 0
    <2>1. ~dSuper.ok
      BY <1>1, <1>6 DEF IInv, CallOK
    <2>2. Stored = [n \in Names |-> NoName]
      BY <2>1 DEF Stored, DiskFile
    <2> QED
      BY <1>2, <1>3, <1>5, <1>6, <2>2 DEF Store!svars, Stored
  <1>7. CASE ~(cur > 0)
    <2>1. Store!Apply(Stored, Request) = [n \in Names |-> NoName]
      BY <1>2 DEF Store!Apply
    <2>2. Request # Store!NoCall
      BY <1>2 DEF Store!NoCall
    <2> QED
      BY <1>2, <1>3, <1>5, <1>7, <2>1, <2>2 DEF Store!StoreNext, Store!Effect, Stored
  <1> QED
    BY <1>6, <1>7

LEMMA FinishStep == ASSUME IInv, Coherent, Finish PROVE Store!StoreNext
  <1>1. /\ pc = "end" /\ pc' \in {"idle", "copy"} /\ call' = NoCallYet /\ ret' = "ok"
        /\ UNCHANGED disk /\ call.op \in {"write", "append", "remove", "format"}
    BY DEF Finish, Return, IInv, CallOK
  <1>2. Applied = TRUE
    BY <1>1, AppliedIs
  <1>3. Request' = [op |-> "none"] /\ Applied' = FALSE
    BY <1>1, AppliedIsNext, RequestIsNext, ConstantTypes
  <1>4. Stored' = Stored
    BY <1>1, DiskFileSame DEF Stored
  <1> QED
    BY <1>1, <1>2, <1>3, <1>4 DEF Store!StoreNext, Store!Succeed, Store!NoCall, Stored

LEMMA BootStep == ASSUME BootMounted \/ BootFallback PROVE Store!StoreNext
  <1>1. pc' = "idle" /\ call' = NoCallYet /\ ret' = "none" /\ UNCHANGED disk
    BY DEF BootMounted, BootFallback, BootTo, Return
  <1>2. Request' = [op |-> "none"] /\ Applied' = FALSE
    BY <1>1, AppliedIsNext, RequestIsNext, ConstantTypes
  <1>3. Stored' = Stored
    BY <1>1, DiskFileSame DEF Stored
  <1> QED
    BY <1>1, <1>2, <1>3 DEF Store!StoreNext, Store!LosePower, Store!NoCall, Stored

LEMMA NextStep ==
    ASSUME ~Io, IInv, IInv', Coherent, Coherent', Next
    PROVE  stale' \/ Store!StoreNext \/ UNCHANGED Store!svars
  <1> SUFFICES ASSUME ~stale' PROVE Store!StoreNext \/ UNCHANGED Store!svars
    OBVIOUS
  <1>1. ASSUME NEW n \in Names, NEW d \in Writes, NEW append \in BOOLEAN, Write(n, d, append)
        PROVE  Store!StoreNext
    <2>1. d \in Seq(Byte)
      BY DataAssumption
    <2> QED
      BY <1>1, <2>1, BeginWriteStep DEF Write
  <1>2. ASSUME NEW n \in Names, Remove(n) PROVE Store!StoreNext
    BY <1>2, RemoveStep
  <1>3. CASE CopyNext
    <2> DEFINE file == install.files[install.pos]
               rest == [install EXCEPT !.pos = @ + 1]
    <2>1. install.pos \in DirIdx
      BY <1>3, Layout DEF IInv, TypeOK, CallOK, CopyNext, DirIdx
    <2>2. file.data \in Seq(Byte)
      BY <2>1 DEF IInv, TypeOK, Files
    <2>3. BeginWrite(file.name, file.data, FALSE, rest) /\ UNCHANGED disk /\ pc = "copy"
      BY <1>3 DEF CopyNext
    <2> HIDE DEF file, rest
    <2> QED
      BY <2>2, <2>3, BeginWriteStep
  <1>4. CASE WriteDataSector
    BY <1>4, WriteDataSectorStep DEF WriteDataSector
  <1>5. CASE WriteDirSector
    BY <1>5, WriteDirSectorStep DEF WriteDirSector
  <1>6. CASE WriteSuper
    BY <1>6, WriteSuperStep DEF WriteSuper
  <1>7. CASE ZeroOne
    <2>1. ~stale \/ cur > 0
      <3>1. CASE cur + 1 < TotalSectors
        BY <1>7, <3>1 DEF ZeroOne
      <3>2. CASE ~(cur + 1 < TotalSectors)
        BY <3>2, Layout, LayoutAssumption DEF IInv, TypeOK, MediaSuperSector
      <3> QED
        BY <3>1, <3>2
    <2> QED
      BY <1>7, <2>1, ZeroOneStep
  <1> QED
    BY <1>1, <1>2, <1>3, <1>4, <1>5, <1>6, <1>7, InstallStep, FinishStep, BootStep DEF Next

\* With the power lost at any step but no failing write, flarefs implements AtomicStore for
\* every layout, set of names and texts: the directory sector of the call's entry (for
\* format, the first zeroed sector) is the one instant at which a call happens, until a
\* mount takes a lagging superblock.
THEOREM Atomicity == ~Io => (Spec => ImplementsAtomicStore)
  <1> SUFFICES ASSUME ~Io PROVE Spec => ImplementsAtomicStore
    OBVIOUS
  <1>1. Init => Store!StoreInit
    <2> SUFFICES ASSUME Init PROVE Store!StoreInit
      OBVIOUS
    <2>1. ~dSuper.ok /\ call.op = "none" /\ pc = "idle" /\ ret = "none"
      BY ConstantTypes DEF Init
    <2>2. Stored = [n \in Names |-> NoName]
      BY <2>1 DEF Stored, DiskFile
    <2>3. Request = [op |-> "none"] /\ Applied = FALSE
      BY <2>1, RequestIs, AppliedIs
    <2> QED
      BY <2>1, <2>2, <2>3 DEF Store!StoreInit, Store!NoCall, Stored
  <1>2. CInv /\ CInv' /\ [Next]_vars => [stale' \/ Store!StoreNext \/ UNCHANGED Store!svars]_vars
    BY NextStep DEF CInv
  <1> QED
    BY <1>1, <1>2, CInvariance, PTL DEF Spec, ImplementsAtomicStore

\* What the installed shell calls "file written" is on the disk, when no write fails: the
\* lost text of the run FlareFs_retry needs a failing write.
THEOREM WrittenStays == ~Io => (Spec => []WrittenIsKept)
  <1> SUFFICES ASSUME ~Io PROVE Spec => []WrittenIsKept
    OBVIOUS
  <1>1. ASSUME CInv PROVE WrittenIsKept
    <2> SUFFICES ASSUME pc = "end", ~stale, Writing PROVE DiskFile(call.name) = call.data
      BY DEF WrittenIsKept, Writing
    <2>1. Coherent /\ call.op # "format" /\ writable
      BY <1>1 DEF CInv, IInv, CallOK, Writing
    <2>2. CallMirror /\ DirMirror /\ Updating /\ NamesDistinct /\ dSuper.ok
      BY <2>1 DEF Coherent, Mirrored, DirMirror, Updating, Writing
    <2>3. call.idx \in DirIdx /\ dDir[call.idx] = gDir[call.idx]
      BY <2>2 DEF CallMirror, DirMirror, Awaited
    <2>4. /\ dDir[call.idx].used /\ dDir[call.idx].name = call.name
          /\ BytesOf(dData, dDir[call.idx]) = call.data
      BY <2>2, <2>3 DEF CallMirror, Mirrors
    <2> QED
      BY <2>2, <2>3, <2>4, DiskFileFindsAll
  <1> QED
    BY <1>1, CInvariance, PTL

=============================================================================
