----------------------------- MODULE FileSystem -----------------------------
(***************************************************************************)
(* The file system on the disk (filesys/filesys.cc, filehdr.cc,            *)
(* directory.cc, pbitmap.cc; the build without FILESYS_STUB), used by the  *)
(* commands -f, -cp and -r of threads/main.cc.                             *)
(*                                                                         *)
(* An operation reads the directory, the bitmap and the header, computes   *)
(* their new versions in memory, and then writes sectors one after the     *)
(* other.  There is one operation at a time ("this implementation assumes  *)
(* there is no concurrent access to the file system!"), so what it will    *)
(* write is known when it starts: it is kept in pending, and written in    *)
(* that order.  Nachos may exit after any of the writes; what the disk     *)
(* holds then is what the disk of that state holds.                        *)
(***************************************************************************)
EXTENDS Integers, Sequences, Functions, FiniteSets, FiniteSetsExt

CONSTANTS
    NumSectors, NumDirEntries,
    SectorSize,               \* bytes in a sector
    EntrySize, PartSize,      \* a directory entry, and what of the directory
                              \* a sector takes, in units of half an entry:
                              \* inUse and sector first, then the name
    NumDirect,                \* sectors that a header has room for
    Names, Stored(_),         \* file names, and what an entry keeps of one
    Lengths,                  \* lengths of the files copied
    NoName                    \* the name in an entry never used

(* The last conjunct is about the caller: Allocate does not look at        *)
(* NumDirect, and would write past dataSectors.                            *)
ASSUME FileSystemAssumption ==
    /\ NumSectors \in Nat /\ NumDirEntries \in Nat /\ SectorSize \in Nat \ {0}
    /\ EntrySize = 2 /\ PartSize \in Nat \ {0}
    /\ NoName \notin {Stored(n) : n \in Names}
    /\ \A n \in Lengths : n <= NumDirect * SectorSize

VARIABLES
    disk,       \* what every sector holds
    pending,    \* the writes that the operation in progress still has to do
    call,       \* the last operation, with its arguments
    result      \* what it returned

vars == <<disk, pending, call, result>>

Sectors == 0..(NumSectors - 1)
Slots == 0..(NumDirEntries - 1)

FreeMapSector == 0
DirectorySector == 1

divRoundUp(n, s) == n \div s + (IF n % s > 0 THEN 1 ELSE 0)

----------------------------------------------------------------------------
(* The bitmap of lib/bitmap.cc as the set of its marked bits, without the  *)
(* words that the bits are packed in.                                      *)
Bits(numBits) == 0..(numBits - 1)

(* Bitmap::Bitmap: every bit is clear.                                     *)
NewBitmap == {}

Mark(map, which) == map \cup {which}

Clear(map, which) == map \ {which}

Test(map, which) == which \in map

(* Bitmap::NumClear                                                        *)
NumClear(map, numBits) == Cardinality({i \in Bits(numBits) : ~Test(map, i)})

(* The bit that Bitmap::FindAndSet finds, and then marks: the first clear  *)
(* one, or -1.                                                             *)
FirstClear(map, numBits) ==
    LET clear == {i \in Bits(numBits) : ~Test(map, i)}
    IN IF clear = {} THEN -1 ELSE Min(clear)

----------------------------------------------------------------------------
(* FileHeader::Allocate on a bitmap: the bitmap and the header afterwards. *)
(* The data sectors are those that FindAndSet finds in turn.               *)
Allocate(map, fileSize) ==
    LET numSectors == divRoundUp(fileSize, SectorSize)
        grab[i \in 0..numSectors] ==
            IF i = 0 THEN [map |-> map, dataSectors |-> <<>>]
            ELSE LET s == FirstClear(grab[i - 1].map, NumSectors)
                 IN [map |-> Mark(grab[i - 1].map, s),
                     dataSectors |-> Append(grab[i - 1].dataSectors, s)]
    IN IF NumClear(map, NumSectors) < numSectors
       THEN [ok |-> FALSE]
       ELSE [ok |-> TRUE, map |-> grab[numSectors].map,
             hdr |-> [kind |-> "hdr", numBytes |-> fileSize,
                      dataSectors |-> grab[numSectors].dataSectors]]

(* Mutant: the last data sector stays marked.                              *)
DeallocateButLast(map, hdr) ==
    map \ {hdr.dataSectors[i] : i \in 1..(Len(hdr.dataSectors) - 1)}

(* FileHeader::Deallocate                                                  *)
Deallocate(map, hdr) == map \ Range(hdr.dataSectors)

----------------------------------------------------------------------------
(* The directory: a table of entries.  Directory::Directory, FindIndex,    *)
(* Find, Add and Remove.                                                   *)
NewDirectory == [i \in Slots |-> [inUse |-> FALSE, sector |-> 0, name |-> NoName]]

FindIndex(table, name) ==
    LET found == {i \in Slots : table[i].inUse /\ table[i].name = Stored(name)}
    IN IF found = {} THEN -1 ELSE Min(found)

Find(table, name) ==
    LET i == FindIndex(table, name) IN IF i = -1 THEN -1 ELSE table[i].sector

FreeSlot(table) ==
    LET free == {i \in Slots : ~ table[i].inUse}
    IN IF free = {} THEN -1 ELSE Min(free)

Add(table, name, newSector) ==
    IF FindIndex(table, name) # -1 \/ FreeSlot(table) = -1
    THEN [ok |-> FALSE]
    ELSE [ok |-> TRUE,
          table |-> [table EXCEPT ![FreeSlot(table)] =
                        [inUse |-> TRUE, sector |-> newSector,
                         name |-> Stored(name)]]]

RemoveEntry(table, name) ==
    [table EXCEPT ![FindIndex(table, name)].inUse = FALSE]

----------------------------------------------------------------------------
(* The format of the disk: the bitmap fills one sector; the directory is a *)
(* file of several, and an entry may begin in one and end in the next.     *)
HeadPart(i) == (EntrySize * i) \div PartSize
NamePart(i) == (EntrySize * i + 1) \div PartSize
DirParts == 0..NamePart(NumDirEntries - 1)

Formatted ==
    LET marked == Mark(Mark(NewBitmap, FreeMapSector), DirectorySector)
        mapFile == Allocate(marked, SectorSize)
        dirFile == Allocate(mapFile.map, SectorSize * Cardinality(DirParts))
    IN [map |-> dirFile.map, mapHdr |-> mapFile.hdr, dirHdr |-> dirFile.hdr]

(* The writes of PersistentBitmap::WriteBack and Directory::WriteBack, to  *)
(* the files whose headers were read when they were opened.                *)
WriteBackMap(map) ==
    << <<Formatted.mapHdr.dataSectors[1], [kind |-> "map", map |-> map]>> >>

WriteBackDir(table) ==
    [k \in 1..Cardinality(DirParts) |->
        <<Formatted.dirHdr.dataSectors[k],
          [kind |-> "dir",
           heads |-> [i \in {j \in Slots : HeadPart(j) = k - 1} |->
                         [inUse |-> table[i].inUse, sector |-> table[i].sector]],
           names |-> [i \in {j \in Slots : NamePart(j) = k - 1} |->
                         table[i].name]]>>]

(* PersistentBitmap::FetchFrom and Directory::FetchFrom on a disk.         *)
FetchMap(d) == d[Formatted.mapHdr.dataSectors[1]].map

FetchDir(d) ==
    LET part(k) == d[Formatted.dirHdr.dataSectors[k + 1]]
    IN [i \in Slots |-> [inUse  |-> part(HeadPart(i)).heads[i].inUse,
                         sector |-> part(HeadPart(i)).heads[i].sector,
                         name   |-> part(NamePart(i)).names[i]]]

----------------------------------------------------------------------------
(* FileSystem::FileSystem(TRUE) on a disk that holds anything: the headers *)
(* of the bitmap and the directory, then their contents.                   *)
Init ==
    /\ disk = [s \in Sectors |-> [kind |-> "junk"]]
    /\ pending = << <<FreeMapSector, Formatted.mapHdr>>,
                    <<DirectorySector, Formatted.dirHdr>> >>
                 \o WriteBackMap(Formatted.map) \o WriteBackDir(NewDirectory)
    /\ call = [op |-> "format", name |-> NoName]
    /\ result = TRUE

(* One SynchDisk::WriteSector.                                             *)
WriteSector ==
    /\ pending # <<>>
    /\ disk' = [disk EXCEPT ![Head(pending)[1]] = Head(pending)[2]]
    /\ pending' = Tail(pending)
    /\ UNCHANGED <<call, result>>

(* What FileSystem::Create computes before it writes anything.             *)
NewFile(name, size) ==
    LET table == FetchDir(disk)
        map == FetchMap(disk)
        sector == FirstClear(map, NumSectors)
        added == Add(table, name, sector)
        space == Allocate(Mark(map, sector), size)
    IN IF Find(table, name) # -1 \/ sector = -1 THEN [ok |-> FALSE]
       ELSE IF ~ added.ok THEN [ok |-> FALSE]
       ELSE IF ~ space.ok THEN [ok |-> FALSE]
       ELSE [ok |-> TRUE, sector |-> sector, hdr |-> space.hdr,
             table |-> added.table, map |-> space.map]

(* Mutant: the directory is written before the header.                     *)
CreateDirFirst(file) ==
    WriteBackDir(file.table) \o << <<file.sector, file.hdr>> >>
        \o WriteBackMap(file.map)

(* The writes of FileSystem::Create when "everything worked".              *)
Create(file) ==
    << <<file.sector, file.hdr>> >> \o WriteBackDir(file.table)
        \o WriteBackMap(file.map)

(* Copy of main.cc: Create, then Open and Write in pieces of a sector.     *)
(* The data of a file is named after it.                                   *)
Copy(name, length) ==
    LET made == NewFile(name, length)
    IN /\ pending = <<>>
       /\ result' = made.ok
       /\ call' = [op |-> "copy", name |-> Stored(name), length |-> length]
       /\ pending' = IF ~ made.ok THEN <<>>
                     ELSE Create(made) \o
                          [i \in DOMAIN made.hdr.dataSectors |->
                              <<made.hdr.dataSectors[i],
                                [kind |-> "data", of |-> Stored(name)]>>]
       /\ UNCHANGED disk

(* FileSystem::Remove: the bitmap first, then the directory.               *)
Remove(name) ==
    LET table == FetchDir(disk)
        sector == Find(table, name)
        map == FetchMap(disk)
    IN /\ pending = <<>>
       /\ result' = (sector # -1)
       /\ call' = [op |-> "remove", name |-> Stored(name)]
       /\ pending' = IF sector = -1 THEN <<>>
                     ELSE WriteBackMap(Clear(Deallocate(map, disk[sector]), sector))
                          \o WriteBackDir(RemoveEntry(table, name))
       /\ UNCHANGED disk

Next ==
    \/ WriteSector
    \/ \E name \in Names :
          \/ Remove(name)
          \/ \E length \in Lengths : Copy(name, length)

Spec == Init /\ [][Next]_vars

----------------------------------------------------------------------------
(* The disk once the operation in progress has done its writes, of which   *)
(* no two are to the same sector.                                          *)
Completed ==
    [s \in Sectors |->
        LET writes == {w \in Range(pending) : w[1] = s}
        IN IF writes = {} THEN disk[s] ELSE (CHOOSE w \in writes : TRUE)[2]]

(* The files in the directory on a disk, with their lengths and data.      *)
FileOf(d, entry) ==
    LET hdr == d[entry.sector]
    IN [length |-> hdr.numBytes,
        data |-> [k \in DOMAIN hdr.dataSectors |-> d[hdr.dataSectors[k]].of]]

Entries(d) == {e \in Range(FetchDir(d)) : e.inUse}

FilesOn(d) ==
    LET entries == Entries(d)
    IN [n \in {e.name : e \in entries} |->
           FileOf(d, CHOOSE e \in entries : e.name = n)]

(* What the file system is: the catalog of the files that are on the disk   *)
(* once the writes of the operation in progress are done.                  *)
TheCatalog == INSTANCE Catalog WITH
    MaxFiles <- NumDirEntries,
    Room <- NumSectors - Cardinality(Formatted.map),
    files <- FilesOn(Completed)

DirWritten == \A k \in DOMAIN Formatted.dirHdr.dataSectors :
                  disk[Formatted.dirHdr.dataSectors[k]].kind = "dir"

(* If Nachos exits in the middle of an operation, every entry of the       *)
(* directory on the disk still leads to a header, and every file but the   *)
(* one the operation is about is what it was: Create writes the header     *)
(* before the entry that names it, and neither writes into a sector that   *)
(* another file has.                                                       *)
CrashKeepsFiles ==
    DirWritten =>
        LET entries == Entries(disk)
            files == FilesOn(Completed)
        IN /\ \A e \in entries : disk[e.sector].kind = "hdr"
           /\ \A n \in DOMAIN files \ {call.name} :
                  \E e \in entries : e.name = n /\ FileOf(disk, e) = files[n]

=============================================================================
