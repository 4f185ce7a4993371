----------------------------- MODULE FileCalls -----------------------------
(***************************************************************************)
(* The system calls on files, over the file system that the build uses:    *)
(* FileSystem and OpenFile of filesys/filesys.h and openfile.h under       *)
(* FILESYS_STUB, the functions of lib/sysdep.cc that they call, and        *)
(* SystemCallCreate ... SystemCallClose of userprog/ksyscall.h.            *)
(*                                                                         *)
(* There are two tables: fdTable, whose index is what the user program     *)
(* gets, and the descriptors of the UNIX process that runs Nachos.  UNIX   *)
(* gives out the least free descriptor, open fails when there is none, and *)
(* an unlinked file lives on while it is open.                             *)
(*                                                                         *)
(* An action is a whole system call: one user program runs, and nothing    *)
(* in these calls enables interrupts.                                      *)
(***************************************************************************)
EXTENDS Integers, Sequences

CONSTANTS
    NumSlots,           \* entries of fdTable (20)
    FirstUnix, NumUnix, \* Nachos itself has the UNIX descriptors below
                        \* FirstUnix (terminal, disk, sockets); all are
                        \* below NumUnix
    Names, Empty,       \* file names; Empty is the empty string
    Inodes,
    Bytes,              \* what a file can hold; 0 is one of them
    MaxLength,          \* bytes in a call, and in a file
    NULL,
    Stale               \* a byte of the user's buffer that a call left alone

Slots == 2..(NumSlots - 1)
Unix == FirstUnix..(NumUnix - 1)
Data == UNION {[1..n -> Bytes] : n \in 0..MaxLength}

ASSUME FileCallsAssumption ==
    /\ NumSlots \in Nat /\ FirstUnix \in Nat /\ NumUnix \in Nat
    /\ FirstUnix >= 3 /\ Inodes \subseteq Nat /\ MaxLength \in Nat /\ 0 \in Bytes
    /\ Empty \notin Names

VARIABLES
    dir,        \* the names that exist, with the inode of each
    data,       \* what the file with an inode holds
    unix,       \* the open UNIX descriptors, with inode and access mode
    fdTable,    \* FileSystem::fdTable: NULL or an OpenFile
    r2,         \* what the last call returned
    got,        \* what it left in the user's buffer, if it was a Read
    held,       \* the files that the program has opened and not closed
    running     \* FALSE once Nachos has halted, or stopped at an ASSERT

vars == <<dir, data, unix, fdTable, r2, got, held, running>>

----------------------------------------------------------------------------
(* UNIX.                                                                   *)
Least(S) == IF S = {} THEN -1 ELSE CHOOSE x \in S : \A y \in S : x <= y

NewDescriptor == Least(Unix \ DOMAIN unix)

Extend(f, x, v) == [y \in DOMAIN f \cup {x} |-> IF y = x THEN v ELSE f[y]]
Without(f, S) == [y \in DOMAIN f \ S |-> f[y]]

NewInode ==
    Least(Inodes \ ({dir[n] : n \in DOMAIN dir} \cup {unix[d].inode : d \in DOMAIN unix}))

InodeOf(name) == IF name \in DOMAIN dir THEN dir[name] ELSE NewInode

(* lib/sysdep.cc.  OpenForWrite does not return when open fails.           *)
OpenForWrite(name) ==
    [dir |-> Extend(dir, name, InodeOf(name)),
     data |-> [data EXCEPT ![InodeOf(name)] = <<>>],
     unix |-> Extend(unix, NewDescriptor, [inode |-> InodeOf(name), mode |-> "rw"])]

ReadPartial(bytes, offset, nBytes) ==
    SubSeq(bytes, offset + 1, IF offset + nBytes <= Len(bytes) THEN offset + nBytes
                              ELSE Len(bytes))

(* A gap between the end of the file and the offset is filled with zeros.  *)
WriteFile(old, offset, bytes) ==
    LET end == offset + Len(bytes)
    IN [i \in 1..(IF end > Len(old) /\ bytes # <<>> THEN end ELSE Len(old)) |->
           IF i > offset /\ i <= end THEN bytes[i - offset]
           ELSE IF i <= Len(old) THEN old[i] ELSE 0]

CloseFile(descriptors, files) == Without(descriptors, files)

Unlink(name) == Without(dir, {name})

----------------------------------------------------------------------------
(* FileSystem.                                                             *)
FreeSlot == Least({i \in Slots : fdTable[i] = NULL})

get(fd) == IF fd \in Slots THEN fdTable[fd] ELSE NULL

IsOpen(fd) == get(fd) # NULL

(* OpenFile::getInode, isReadable, isWritable and Length of a slot.        *)
getInode(i) == unix[fdTable[i].file].inode
isReadable(i) == unix[fdTable[i].file].mode \in {"r", "rw"}
isWritable(i) == unix[fdTable[i].file].mode = "rw"
FileLength(i) == Len(data[getInode(i)])

Init ==
    /\ dir = [n \in {} |-> NULL]
    /\ data = [i \in Inodes |-> <<>>]
    /\ unix = [d \in {} |-> NULL]
    /\ fdTable = [i \in Slots |-> NULL]
    /\ r2 = 0 /\ got = <<>> /\ held = {}
    /\ running = TRUE

----------------------------------------------------------------------------
(* FileSystem::Create.  Its Close is FileSystem::Close, so that it is an   *)
(* entry of fdTable that is closed, if there is one with the number of the *)
(* new descriptor; the descriptor itself stays open.                       *)
FileSystemCreate(name) ==
    LET fd == NewDescriptor
        opened == OpenForWrite(name)
    IN \/ /\ fd = -1 /\ running' = FALSE
          /\ UNCHANGED <<dir, data, unix, fdTable, r2>>
       \/ /\ fd # -1
          /\ dir' = opened.dir /\ data' = opened.data
          /\ unix' = CloseFile(opened.unix, IF IsOpen(fd) THEN {fdTable[fd].file} ELSE {})
          /\ fdTable' = [i \in Slots |-> IF i = fd THEN NULL ELSE fdTable[i]]
          /\ r2' = 0
          /\ UNCHANGED running

SysCreate(name) ==
    IF name = Empty
    THEN r2' = -1 /\ UNCHANGED <<dir, data, unix, fdTable, running>>
    ELSE FileSystemCreate(name)

(* SystemCallCreate.                                                       *)
Create(name) == running /\ SysCreate(name) /\ got' = <<>> /\ UNCHANGED held

(* Mutant: only the first entry in use is compared.                        *)
RefusesToRemoveFirst(name) ==
    LET used == {i \in Slots : IsOpen(i)}
    IN \/ name \notin DOMAIN dir \/ NewDescriptor = -1
       \/ \E i \in used : i = Least(used) /\ getInode(i) = dir[name]

(* FileSystem::Remove opens the file to see its inode, and compares it     *)
(* with those of the open files.                                           *)
RefusesToRemove(name) ==
    \/ name \notin DOMAIN dir \/ NewDescriptor = -1
    \/ \E i \in Slots : IsOpen(i) /\ getInode(i) = dir[name]

SysRemove(name) ==
    IF name = Empty \/ RefusesToRemove(name)
    THEN r2' = -1 /\ UNCHANGED dir
    ELSE r2' = 0 /\ dir' = Unlink(name)

(* SystemCallRemove.                                                       *)
Remove(name) ==
    /\ running /\ SysRemove(name) /\ got' = <<>>
    /\ UNCHANGED <<data, unix, fdTable, held, running>>

(* FileSystem::Open(name, accessType): 0 is read only, 1 is read and write *)
(* and makes the file if there is none, also when no slot is left.         *)
FileSystemOpen(name, accessType) ==
    LET fd == NewDescriptor
        opens == /\ fd # -1 /\ name # Empty
                 /\ accessType = 1 \/ (accessType = 0 /\ name \in DOMAIN dir)
        made == opens /\ name \notin DOMAIN dir
        mode == IF accessType = 0 THEN "r" ELSE "rw"
        fits == opens /\ FreeSlot # -1
    IN /\ dir' = IF made THEN Extend(dir, name, NewInode) ELSE dir
       /\ data' = IF made THEN [data EXCEPT ![NewInode] = <<>>] ELSE data
       /\ unix' = IF fits THEN Extend(unix, fd, [inode |-> InodeOf(name), mode |-> mode])
                  ELSE unix
       /\ fdTable' = IF fits THEN [fdTable EXCEPT ![FreeSlot] =
                                      [file |-> fd, currentOffset |-> 0]]
                     ELSE fdTable
       /\ held' = IF fits THEN held \cup {FreeSlot} ELSE held
       /\ r2' = IF fits THEN FreeSlot ELSE -1

(* SystemCallOpen and SysOpen.                                             *)
Open(name, accessType) ==
    running /\ FileSystemOpen(name, accessType) /\ got' = <<>> /\ UNCHANGED running

(* Mutant: the OpenFile is deleted and the entry keeps its address.        *)
FileSystemCloseKeeps(fd) ==
    IF ~ IsOpen(fd) THEN r2' = -1 /\ UNCHANGED <<unix, fdTable>>
    ELSE r2' = 0 /\ unix' = CloseFile(unix, {fdTable[fd].file}) /\ UNCHANGED fdTable

(* FileSystem::Close and ~OpenFile.                                        *)
FileSystemClose(fd) ==
    IF ~ IsOpen(fd) THEN r2' = -1 /\ UNCHANGED <<unix, fdTable>>
    ELSE /\ r2' = 0
         /\ unix' = CloseFile(unix, {fdTable[fd].file})
         /\ fdTable' = [fdTable EXCEPT ![fd] = NULL]

(* SystemCallClose and SysClose.                                           *)
Close(fd) ==
    /\ running /\ FileSystemClose(fd)
    /\ held' = held \ {fd} /\ got' = <<>>
    /\ UNCHANGED <<dir, data, running>>

----------------------------------------------------------------------------
(* System2User without keepNULL: it stops behind the first zero.           *)
Copied(bytes) ==
    LET zeros == {i \in 1..Len(bytes) : bytes[i] = 0}
    IN IF zeros = {} THEN Len(bytes) ELSE Least(zeros)

System2User(bytes) ==
    [i \in 1..Len(bytes) |-> IF i <= Copied(bytes) THEN bytes[i] ELSE Stale]

(* OpenFile::Read and ReadAt.                                              *)
FileRead(numBytes, fd) ==
    LET piece == ReadPartial(data[getInode(fd)], fdTable[fd].currentOffset, numBytes)
    IN /\ fdTable' = [fdTable EXCEPT ![fd].currentOffset = @ + Len(piece)]
       /\ got' = System2User(piece)
       /\ r2' = Len(piece)

SysRead(length, fd) ==
    \/ /\ (IF IsOpen(fd) THEN ~ isReadable(fd) ELSE TRUE)
       /\ r2' = -1 /\ got' = <<>> /\ UNCHANGED fdTable
    \/ IsOpen(fd) /\ isReadable(fd) /\ FileRead(length, fd)

(* SystemCallRead from a file.                                             *)
Read(length, fd) ==
    /\ running /\ fd # 0
    /\ IF fd = 1 \/ fd < 0 THEN r2' = -1 /\ got' = <<>> /\ UNCHANGED fdTable
       ELSE SysRead(length, fd)
    /\ UNCHANGED <<dir, data, unix, held, running>>

(* SystemCallRead from the console (fd = 0), which gives those characters  *)
(* and, if they are fewer than length, the end of the file.                *)
ReadConsole(chars) ==
    /\ running
    /\ got' = chars /\ r2' = Len(chars)
    /\ UNCHANGED <<dir, data, unix, fdTable, held, running>>

(* OpenFile::Write and WriteAt.                                            *)
FileWrite(bytes, fd) ==
    /\ fdTable[fd].currentOffset + Len(bytes) <= MaxLength     \* bound
    /\ data' = [data EXCEPT ![getInode(fd)] =
                   WriteFile(@, fdTable[fd].currentOffset, bytes)]
    /\ fdTable' = [fdTable EXCEPT ![fd].currentOffset = @ + Len(bytes)]
    /\ r2' = Len(bytes)

SysWrite(bytes, fd) ==
    \/ /\ (IF IsOpen(fd) THEN ~ isWritable(fd) ELSE TRUE)
       /\ r2' = -1 /\ UNCHANGED <<data, fdTable>>
    \/ IsOpen(fd) /\ isWritable(fd) /\ FileWrite(bytes, fd)

(* SystemCallWrite to a file or, as 1, to the console.                     *)
Write(bytes, fd) ==
    /\ running
    /\ IF fd <= 1 THEN r2' = (IF fd = 1 THEN Len(bytes) ELSE -1) /\ UNCHANGED <<data, fdTable>>
       ELSE SysWrite(bytes, fd)
    /\ got' = <<>>
    /\ UNCHANGED <<dir, unix, held, running>>

(* OpenFile::Seek: -1 is the end of the file.                              *)
FileSeek(position, fd) ==
    LET to == IF position = -1 THEN FileLength(fd) ELSE position
    IN IF to \in 0..FileLength(fd)
       THEN fdTable' = [fdTable EXCEPT ![fd].currentOffset = to] /\ r2' = to
       ELSE r2' = -1 /\ UNCHANGED fdTable

SysSeek(position, fd) ==
    IF ~ IsOpen(fd) THEN r2' = -1 /\ UNCHANGED fdTable ELSE FileSeek(position, fd)

(* SystemCallSeek.                                                         *)
Seek(position, fd) ==
    /\ running
    /\ IF fd < 2 THEN r2' = -1 /\ UNCHANGED fdTable ELSE SysSeek(position, fd)
    /\ got' = <<>>
    /\ UNCHANGED <<dir, data, unix, held, running>>

FileCall ==
    \/ \E name \in Names \cup {Empty} :
          \/ Create(name) \/ Remove(name)
          \/ \E accessType \in 0..2 : Open(name, accessType)
    \/ \E fd \in -1..NumSlots :
          \/ Close(fd)
          \/ \E length \in 0..MaxLength : Read(length, fd)
          \/ \E bytes \in Data : Write(bytes, fd)
          \/ \E position \in -1..(MaxLength + 1) : Seek(position, fd)
    \/ \E chars \in Data : ReadConsole(chars)

Spec == Init /\ [][FileCall]_vars

----------------------------------------------------------------------------
(* Every file in the table has a UNIX descriptor of its own, and it is     *)
(* open: ~OpenFile never closes a descriptor twice, nor one of another     *)
(* file or of Nachos itself (then the ASSERT in Close would fail, or the   *)
(* disk would be closed).                                                  *)
DescriptorsOwned ==
    /\ \A i \in Slots : IsOpen(i) => fdTable[i].file \in DOMAIN unix
    /\ \A i, j \in Slots :
           IsOpen(i) /\ IsOpen(j) /\ fdTable[i].file = fdTable[j].file => i = j

(* A file that is open has a name: Remove refuses it, by whatever name it  *)
(* was opened and in whatever slot it is, and Create truncates it and does *)
(* not replace it.  So what is written to an open file can be found again. *)
OpenFilesLinked ==
    \A i \in Slots : IsOpen(i) => \E n \in DOMAIN dir : dir[n] = getInode(i)

(* A file stays open until the program closes it: "Close the file, we're   *)
(* done reading and writing to it", and "Create does not open the file"    *)
(* (syscall.h).                                                            *)
HeldFilesOpen == \A i \in held : fdTable[i] # NULL

=============================================================================
