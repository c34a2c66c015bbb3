------------------------------ MODULE FlareFs ------------------------------
(***************************************************************************)
(* The writable root file system of flareOS (kernel/fs/ext4.c, flarefs_    *)
(* and fs_) over its disk region: sector 0 is the superblock, the next     *)
(* DirSectors hold the directory, the rest holds file data.  One step is   *)
(* one sector write, with the memory updates between it and the next one.  *)
(*                                                                         *)
(* The region starts at LBA 321 (FLAREFS_LBA), which is also where the     *)
(* boot image keeps the ext4 install media (FS_LBA): formatting one        *)
(* destroys the other.                                                     *)
(***************************************************************************)
EXTENDS Integers, Sequences, FiniteSets

CONSTANTS
    ValidNames,       \* names flarefs_valid_name accepts
    BadNames,         \* names it refuses (a blank, '/', too long)
    NoName,           \* an empty name field
    Byte,             \* the byte values, 0 among them
    Writes,           \* the texts callers write: a subset of Seq(Byte)
    SectorSize,       \* 512
    DirEntries,       \* FS_MAX_ROOT_FILES, 32
    DirSectors,       \* FLAREFS_DIR_SECTORS, 4
    TotalSectors,     \* FLAREFS_SECTORS, 256
    SourceNames,      \* the root files of the ext4 install media, in scan order
    SourceData,       \* their contents
    Faults            \* which of "io" and "powerloss" may happen

Names == ValidNames \cup BadNames
DirIdx == 0 .. DirEntries - 1
EntriesPerSector == DirEntries \div DirSectors
DataStart == 1 + DirSectors
DataSectors == DataStart .. TotalSectors - 1
NoIndex == DirEntries        \* 0xffffffff
NoSlot == DirEntries         \* -1
Sector == [1 .. SectorSize -> Byte]
ZeroSector == [i \in 1 .. SectorSize |-> 0]
\* The sector of the region that holds the ext4 superblock (byte 1024).
MediaSuperSector == 2

ASSUME LayoutAssumption ==
    /\ SectorSize \in Nat \ {0}
    /\ DirEntries \in Nat \ {0}
    /\ DirSectors \in Nat \ {0}
    /\ DirEntries % DirSectors = 0
    /\ TotalSectors \in Nat
    /\ DataStart <= TotalSectors
    /\ MediaSuperSector < TotalSectors

ASSUME DataAssumption ==
    /\ 0 \in Byte
    /\ NoName \notin Names
    /\ NoName \notin Seq(Byte)
    /\ Writes \subseteq Seq(Byte)
    /\ Faults \subseteq {"io", "powerloss"}
    /\ SourceNames \in Seq(Names)
    /\ SourceData \in Seq(Seq(Byte))
    /\ Len(SourceNames) <= DirEntries
    /\ Len(SourceNames) = Len(SourceData)

VARIABLES
    dSuper,    \* sector 0: the magic and next_free_sector
    dDir,      \* the directory sectors
    dData,     \* the data sectors
    media,     \* the ext4 image in the region is still readable
    ata,       \* g_ata_present
    writable,  \* g_fs_writable
    gNext,     \* g_super.next_free_sector
    gDir,      \* g_dir
    gFiles,    \* g_files
    gCount,    \* g_file_count
    pc,        \* where the running call is
    call,      \* its locals
    cur,       \* the loop counter of the sector loop it is in
    install,   \* fs_install's copy of the root and its loop counter
    ret,       \* what the last call returned
    stale      \* history: this format of the region was mounted with a
               \* superblock that lags behind its directory

disk == <<dSuper, dDir, dData, media>>
mem == <<ata, writable, gNext, gDir, gFiles, gCount>>
vars == <<disk, mem, pc, call, cur, install, ret, stale>>

Entries == [used : BOOLEAN, start : Nat, count : Nat, size : Nat, name : Names \cup {NoName}]
NoEntry == [used |-> FALSE, start |-> 0, count |-> 0, size |-> 0, name |-> NoName]
Files == [name : Names \cup {NoName}, data : Seq(Byte), idx : DirIdx \cup {NoIndex}]
EmptySlot == [name |-> NoName, data |-> <<>>, idx |-> NoIndex]
EmptyFiles == [k \in DirIdx |-> EmptySlot]
EmptyDir == [i \in DirIdx |-> NoEntry]
NoInstall == [files |-> EmptyFiles, count |-> 0, pos |-> 0]
Supers == [ok : BOOLEAN, next : Nat]
NoSuper == [ok |-> FALSE, next |-> 0]
NoCallYet == [op |-> "none", name |-> NoName, data |-> <<>>, text |-> <<>>, slot |-> NoSlot,
              idx |-> NoIndex, start |-> 0, count |-> 0]

-----------------------------------------------------------------------------
(* Helpers *)

\* What a loop that stops at its first hit returns.
FirstOf(hits, none) ==
    LET first == {k \in hits : \A l \in hits : k <= l}
    IN  IF first = {} THEN none ELSE CHOOSE k \in first : TRUE

\* flarefs_find_slot: the first file of that name.
FindSlot(n) ==
    LET hits == {k \in DirIdx : k < gCount /\ gFiles[k].name = n}
    IN  FirstOf(hits, NoSlot)

\* The first directory entry not in use.
FreeEntry ==
    FirstOf({i \in DirIdx : ~gDir[i].used}, NoIndex)

\* Mutant: the last, partly filled sector is not counted.
SectorCountTruncated(d) ==
    IF Len(d) = 0 THEN 1 ELSE Len(d) \div SectorSize

\* Sectors a file of these bytes takes: at least one, even when it is empty.
SectorCount(d) ==
    IF Len(d) = 0 THEN 1 ELSE (Len(d) + SectorSize - 1) \div SectorSize

\* The k-th sector of a file, padded with zeros.
SectorOf(d, k) ==
    [i \in 1 .. SectorSize |->
        IF k * SectorSize + i <= Len(d) THEN d[k * SectorSize + i] ELSE 0]

\* The bytes a mount reads for an entry: what lies past its sectors stays unset.
ReadEntry(e) ==
    [i \in 1 .. e.size |->
        LET s == e.start + (i - 1) \div SectorSize
        IN  IF s \in DataSectors /\ s < e.start + e.count
            THEN dData[s][1 + ((i - 1) % SectorSize)] ELSE 0]

Extent(e) == e.start .. e.start + e.count - 1

\* The used entries of the disk's directory in front of entry i.
Before(i) == {j \in DirIdx : j < i /\ dDir[j].used}

\* g_files as flarefs_mount fills it, packing the used entries in order.
MountedFiles ==
    [k \in DirIdx |->
        LET at == {i \in DirIdx : dDir[i].used /\ Cardinality(Before(i)) = k}
        IN  IF at = {} THEN EmptySlot
            ELSE LET i == CHOOSE j \in at : TRUE
                 IN  [name |-> dDir[i].name, data |-> ReadEntry(dDir[i]), idx |-> i]]

MountedCount == Cardinality({i \in DirIdx : dDir[i].used})

\* The files of the install media, as active_clone_source copies them.
SourceFiles ==
    [k \in DirIdx |->
        IF k < Len(SourceNames)
        THEN [name |-> SourceNames[k + 1], data |-> SourceData[k + 1], idx |-> NoIndex]
        ELSE EmptySlot]

\* No used entry of the disk's directory reaches past the superblock's next_free_sector.
SuperCovers ==
    \A i \in DirIdx : dDir[i].used => dDir[i].start + dDir[i].count <= dSuper.next

-----------------------------------------------------------------------------
(* Starting and ending a call *)

Return(result) ==
    /\ pc' = "idle"
    /\ cur' = 0
    /\ call' = NoCallYet
    /\ install' = NoInstall
    /\ ret' = result

\* flarefs_write_internal up to its first sector write.
BeginWrite(n, d, append, rest) ==
    LET slot  == FindSlot(n)
        final == IF append /\ slot # NoSlot THEN gFiles[slot].data \o d ELSE d
        idx   == IF slot # NoSlot THEN gFiles[slot].idx ELSE FreeEntry
        ok    == /\ writable
                 /\ n \in ValidNames
                 /\ slot = NoSlot => (FreeEntry # NoIndex /\ gCount < DirEntries)
                 /\ gNext + SectorCount(final) <= TotalSectors
    IN  IF ok
        THEN /\ pc' = "data"
             /\ cur' = 0
             /\ ret' = "none"
             /\ install' = rest
             /\ call' = [op |-> IF append THEN "append" ELSE "write", name |-> n, data |-> final,
                         text |-> d, slot |-> slot, idx |-> idx, start |-> gNext,
                         count |-> SectorCount(final)]
        ELSE Return("fail")

\* fs_write_file, called by the write and append commands, curl, the editor and the installer.
Write(n, d, append) ==
    /\ pc = "idle"
    /\ BeginWrite(n, d, append, NoInstall)
    /\ UNCHANGED <<disk, mem, stale>>

\* The loop of fs_install: the next saved file is written.
CopyNext ==
    /\ pc = "copy"
    /\ LET file == install.files[install.pos]
       IN  BeginWrite(file.name, file.data, FALSE, [install EXCEPT !.pos = @ + 1])
    /\ UNCHANGED <<disk, mem, stale>>

\* fs_remove_file up to its first sector write: the entry goes from g_dir at once.
Remove(n) ==
    /\ pc = "idle"
    /\ LET slot == FindSlot(n)
       IN  IF writable /\ slot # NoSlot
           THEN /\ pc' = "dir"
                /\ cur' = 0
                /\ ret' = "none"
                /\ call' = [NoCallYet EXCEPT !.op = "remove", !.name = n, !.slot = slot,
                                             !.idx = gFiles[slot].idx]
                /\ gDir' = [gDir EXCEPT ![gFiles[slot].idx] = NoEntry]
                /\ UNCHANGED install
           ELSE Return("fail") /\ UNCHANGED gDir
    /\ UNCHANGED <<disk, ata, writable, gNext, gFiles, gCount, stale>>

\* fs_install up to the first sector flarefs_format writes.
Install ==
    /\ pc = "idle"
    /\ IF ata
       THEN /\ pc' = "zero"
            /\ cur' = 0
            /\ ret' = "none"
            /\ install' = [files |-> gFiles, count |-> gCount, pos |-> 0]
            /\ call' = [NoCallYet EXCEPT !.op = "format"]
       ELSE Return("fail")
    /\ UNCHANGED <<disk, mem, stale>>

-----------------------------------------------------------------------------
(* One sector write each.  A write ata_write_sector reports as failed may  *)
(* or may not have reached the disk: the flush after it can fail too.      *)

Io == "io" \in Faults

\* The sector loop of flarefs_write_internal; after the last sector the new
\* entry and next_free_sector are set in memory.
WriteDataSector ==
    LET written == [dData EXCEPT ![call.start + cur] = SectorOf(call.data, cur)]
    IN  /\ pc = "data"
        /\ \/ /\ dData' = written
              /\ IF cur + 1 < call.count
                 THEN /\ cur' = cur + 1
                      /\ UNCHANGED <<pc, gDir, gNext>>
                 ELSE /\ cur' = 0
                      /\ pc' = "dir"
                      /\ gDir' = [gDir EXCEPT ![call.idx] =
                                     [used |-> TRUE, start |-> call.start, count |-> call.count,
                                      size |-> Len(call.data), name |-> call.name]]
                      /\ gNext' = call.start + call.count
              /\ UNCHANGED <<call, install, ret>>
           \/ /\ Io
              /\ dData' \in {dData, written}
              /\ Return("fail")
              /\ UNCHANGED <<gDir, gNext>>
        /\ UNCHANGED <<dSuper, dDir, media, ata, writable, gFiles, gCount, stale>>

\* One sector of flarefs_write_directory.
WriteDirSector ==
    LET written == [i \in DirIdx |-> IF i \div EntriesPerSector = cur THEN gDir[i] ELSE dDir[i]]
    IN  /\ pc = "dir"
        /\ \/ /\ dDir' = written
              /\ IF cur + 1 < DirSectors
                 THEN cur' = cur + 1 /\ UNCHANGED pc
                 ELSE cur' = 0 /\ pc' = IF call.op \in {"write", "append"} THEN "super" ELSE "end"
              /\ UNCHANGED <<call, install, ret>>
           \/ /\ Io
              /\ dDir' \in {dDir, written}
              /\ Return("fail")
        /\ UNCHANGED <<dSuper, dData, media, mem, stale>>

\* flarefs_write_super: the last step of a write, and format's step before its directory.
WriteSuper ==
    LET written == [ok |-> TRUE, next |-> gNext]
    IN  /\ pc = "super"
        /\ \/ /\ dSuper' = written
              /\ pc' = IF call.op = "format" THEN "dir" ELSE "end"
              /\ UNCHANGED <<cur, call, install, ret>>
           \/ /\ Io
              /\ dSuper' \in {dSuper, written}
              /\ Return("fail")
        /\ UNCHANGED <<dDir, dData, media, mem, stale>>

\* Mutant: the superblock goes last instead of first.
ZeroedSuperLast ==
    /\ dSuper' = IF cur = TotalSectors - 1 THEN NoSuper ELSE dSuper
    /\ dDir' = [i \in DirIdx |-> IF 1 + i \div EntriesPerSector = cur THEN NoEntry ELSE dDir[i]]
    /\ dData' = [s \in DataSectors |-> IF s = cur THEN ZeroSector ELSE dData[s]]
    /\ media' = (media /\ cur # MediaSuperSector)

\* Zeroing sector cur of the region.
Zeroed ==
    /\ dSuper' = IF cur = 0 THEN NoSuper ELSE dSuper
    /\ dDir' = [i \in DirIdx |-> IF 1 + i \div EntriesPerSector = cur THEN NoEntry ELSE dDir[i]]
    /\ dData' = [s \in DataSectors |-> IF s = cur THEN ZeroSector ELSE dData[s]]
    /\ media' = (media /\ cur # MediaSuperSector)

\* The zero loop of flarefs_format; after the last sector g_super and g_dir are reset.
ZeroOne ==
    /\ pc = "zero"
    /\ \/ /\ Zeroed
          /\ IF cur + 1 < TotalSectors
             THEN /\ cur' = cur + 1
                  /\ UNCHANGED <<pc, gNext, gDir, stale>>
             ELSE /\ pc' = "super"
                  /\ cur' = 0
                  /\ gNext' = DataStart
                  /\ gDir' = EmptyDir
                  /\ stale' = FALSE
          /\ UNCHANGED <<call, install, ret>>
       \/ /\ Io
          /\ Zeroed \/ UNCHANGED disk
          /\ Return("fail")
          /\ UNCHANGED <<gNext, gDir, stale>>
    /\ UNCHANGED <<ata, writable, gFiles, gCount>>

-----------------------------------------------------------------------------
(* The end of a call whose sector writes all succeeded *)

\* flarefs_write_internal: the file's record in g_files.
StoreFile ==
    LET at == IF call.slot = NoSlot THEN gCount ELSE call.slot
    IN  /\ call.op \in {"write", "append"}
        /\ gFiles' = [gFiles EXCEPT ![at] =
                         [name |-> call.name, data |-> call.data, idx |-> call.idx]]
        /\ gCount' = IF call.slot = NoSlot THEN gCount + 1 ELSE gCount
        /\ UNCHANGED writable

\* fs_remove_file: the files behind it move up.
DropFile ==
    /\ call.op = "remove"
    /\ gFiles' = [k \in DirIdx |->
                     IF k < call.slot THEN gFiles[k]
                     ELSE IF k + 1 < gCount THEN gFiles[k + 1] ELSE EmptySlot]
    /\ gCount' = gCount - 1
    /\ UNCHANGED writable

\* flarefs_format: no files, and the root is writable from here on.
ResetFiles ==
    /\ call.op = "format"
    /\ gFiles' = EmptyFiles
    /\ gCount' = 0
    /\ writable' = TRUE

\* The call returns 1; inside fs_install the copy goes on with its next file.
Finish ==
    /\ pc = "end"
    /\ StoreFile \/ DropFile \/ ResetFiles
    /\ IF install.pos < install.count
       THEN pc' = "copy" /\ cur' = 0 /\ call' = NoCallYet /\ ret' = "ok" /\ UNCHANGED install
       ELSE Return("ok")
    /\ UNCHANGED <<disk, ata, gNext, gDir, stale>>

-----------------------------------------------------------------------------
(* Boot: stage 2 reloads the region, fs_init mounts it or falls back on the media *)

BootTo(a, w, next, dir, files, count) ==
    /\ ata' = a
    /\ writable' = w
    /\ gNext' = next
    /\ gDir' = dir
    /\ gFiles' = files
    /\ gCount' = count
    /\ Return("none")
    /\ UNCHANGED disk

\* Switched off between calls, or at any step when the power is lost.
PoweredOff == pc = "idle" \/ "powerloss" \in Faults

\* Mutant: the mount does not take next_free_sector over.
BootMountedFresh ==
    /\ PoweredOff
    /\ dSuper.ok
    /\ BootTo(TRUE, TRUE, DataStart, dDir, MountedFiles, MountedCount)
    /\ stale' = (stale \/ ~SuperCovers)

\* The region holds a flarefs: its directory and files are read.
BootMounted ==
    /\ PoweredOff
    /\ dSuper.ok
    /\ BootTo(TRUE, TRUE, dSuper.next, dDir, MountedFiles, MountedCount)
    /\ stale' = (stale \/ ~SuperCovers)

\* The mount fails on the superblock, or on a read error in any of its reads
\* or in ata_init: what it had read of g_super and g_dir by then stays.
BootFallback ==
    /\ PoweredOff
    /\ Io \/ ~dSuper.ok
    /\ \E present \in (IF Io THEN BOOLEAN ELSE {TRUE}), got \in 0 .. DirSectors :
          /\ got > 0 => present /\ dSuper.ok
          /\ BootTo(present, FALSE,
                 IF present THEN dSuper.next ELSE 0,
                 [i \in DirIdx |-> IF i \div EntriesPerSector < got THEN dDir[i] ELSE NoEntry],
                 IF media THEN SourceFiles ELSE EmptyFiles,
                 IF media THEN Len(SourceNames) ELSE 0)
    /\ UNCHANGED stale

-----------------------------------------------------------------------------
Init ==
    /\ dSuper = NoSuper
    /\ dDir = EmptyDir
    /\ dData = [s \in DataSectors |-> ZeroSector]
    /\ media = TRUE
    /\ ata = TRUE
    /\ writable = FALSE
    /\ gNext = 0
    /\ gDir = EmptyDir
    /\ gFiles = SourceFiles
    /\ gCount = Len(SourceNames)
    /\ pc = "idle"
    /\ call = NoCallYet
    /\ cur = 0
    /\ install = NoInstall
    /\ ret = "none"
    /\ stale = FALSE

Next ==
    \/ \E n \in Names, d \in Writes, append \in BOOLEAN : Write(n, d, append)
    \/ \E n \in Names : Remove(n)
    \/ Install
    \/ CopyNext
    \/ WriteDataSector
    \/ WriteDirSector
    \/ WriteSuper
    \/ ZeroOne
    \/ Finish
    \/ BootMounted
    \/ BootFallback

Spec == Init /\ [][Next]_vars
-----------------------------------------------------------------------------
(* Properties *)

Calls == [op : {"none", "write", "append", "remove", "format"}, name : Names \cup {NoName},
          data : Seq(Byte), text : Seq(Byte), slot : DirIdx \cup {NoSlot},
          idx : DirIdx \cup {NoIndex}, start : Nat, count : Nat]

\* The values every variable of ext4.c's flarefs layer, and of its disk region, can take.
TypeOK ==
    /\ dSuper \in Supers
    /\ dDir \in [DirIdx -> Entries]
    /\ dData \in [DataSectors -> Sector]
    /\ media \in BOOLEAN
    /\ ata \in BOOLEAN
    /\ writable \in BOOLEAN
    /\ gNext \in Nat
    /\ gDir \in [DirIdx -> Entries]
    /\ gFiles \in [DirIdx -> Files]
    /\ gCount \in 0 .. DirEntries
    /\ pc \in {"idle", "copy", "data", "dir", "super", "zero", "end"}
    /\ call \in Calls
    /\ cur \in Nat
    /\ install \in [files : [DirIdx -> Files], count : 0 .. DirEntries, pos : Nat]
    /\ ret \in {"none", "ok", "fail"}
    /\ stale \in BOOLEAN

Disjoint(e, f) == e.start + e.count <= f.start \/ f.start + f.count <= e.start

\* Files never share a sector: whatever writes fail and whenever the power goes, the
\* extents in g_dir lie in the data area, below next_free_sector and apart from each
\* other, as long as no mount took a superblock that lags behind its directory
\* (flarefs_write_internal allocates at next_free_sector and never reuses).
ExtentsDisjoint ==
    (writable /\ ~stale) =>
        \A i \in DirIdx : gDir[i].used =>
            /\ DataStart <= gDir[i].start
            /\ gDir[i].start + gDir[i].count <= gNext
            /\ gNext <= TotalSectors
            /\ \A j \in DirIdx : (j # i /\ gDir[j].used) => Disjoint(gDir[i], gDir[j])

\* The step overwrites a data sector that the disk's directory gives to a file.
Clobbers ==
    \E s \in DataSectors :
        /\ dData'[s] # dData[s]
        /\ dSuper.ok
        /\ \E i \in DirIdx : dDir[i].used /\ s \in Extent(dDir[i])

\* A file that a reboot would find keeps its bytes until its own entry is rewritten:
\* no data write of flarefs_write_internal, and no zeroing of flarefs_format, lands in
\* its sectors (format clears the superblock first), unless a stale superblock was mounted.
NoClobber == [][~stale => ~Clobbers]_vars

\* What a boot would read for a name: the first entry wins, as in flarefs_find_slot.
DiskFile(n) ==
    LET hits == {i \in DirIdx : dSuper.ok /\ dDir[i].used /\ dDir[i].name = n}
    IN  IF hits = {} THEN NoName
        ELSE ReadEntry(dDir[CHOOSE i \in hits : \A j \in hits : i <= j])

\* What cat shows for a name now.
MemFile(n) == IF FindSlot(n) = NoSlot THEN NoName ELSE gFiles[FindSlot(n)].data

\* Between calls the files in memory are the files on the disk, when no write fails.
CacheCoherent ==
    (pc = "idle" /\ writable /\ ~stale /\ ~Io) => \A n \in Names : MemFile(n) = DiskFile(n)

\* The call as AtomicStore sees it.
Request ==
    CASE pc \in {"idle", "copy"} -> [op |-> "none"]
      [] call.op \in {"write", "append"} -> [op |-> call.op, name |-> call.name, data |-> call.text]
      [] call.op = "remove" -> [op |-> "remove", name |-> call.name]
      [] OTHER -> [op |-> "clear"]

\* The sector write that makes the call's effect visible to a reboot has happened.
Applied ==
    CASE pc \in {"idle", "copy"} -> FALSE
      [] call.op = "format" -> pc # "zero" \/ cur > 0
      [] OTHER -> pc \in {"super", "end"} \/ (pc = "dir" /\ cur > call.idx \div EntriesPerSector)

Store == INSTANCE AtomicStore WITH
    Name <- Names, Data <- Seq(Byte), NoFile <- NoName,
    files <- [n \in Names |-> DiskFile(n)], req <- Request, applied <- Applied, reply <- ret

\* flarefs implements AtomicStore: write, append, remove and format each take effect
\* in one sector write, so that a power loss at any step leaves all of the call or
\* nothing of it, and 1 is returned only for a call that a reboot will find done.
ImplementsAtomicStore ==
    Store!StoreInit /\ [][stale' \/ Store!StoreNext \/ UNCHANGED Store!svars]_vars

\* "file written" (shell.c) means that the next boot finds this text under this name.
WrittenIsKept ==
    (pc = "end" /\ ~stale /\ call.op \in {"write", "append"})
        => DiskFile(call.name) = call.data
=============================================================================
