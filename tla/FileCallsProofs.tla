--------------------------- MODULE FileCallsProofs --------------------------
(***************************************************************************)
(* What fdTable and the UNIX descriptors have to do with one another, for  *)
(* tables, names and files of any number and size.  DescriptorsOwned and   *)
(* OpenFilesLinked need the shape of the entries of fdTable, and each      *)
(* other: a descriptor that a call opens must not be that of an open file. *)
(* The same holds of the calls as the exception handler makes them, and    *)
(* every one of them leaves the program counter behind the instruction.    *)
(***************************************************************************)
EXTENDS SystemCalls, WellFoundedInduction, TLAPS

EntriesOK ==
    /\ fdTable = [i \in Slots |-> fdTable[i]]
    /\ \A i \in Slots : IsOpen(i) =>
          \E f, o : fdTable[i] = [file |-> f, currentOffset |-> o]

FilesInv == EntriesOK /\ DescriptorsOwned /\ OpenFilesLinked

(* What Least gives is in the set, if it is not -1.                        *)
LEMMA LeastFacts ==
    ASSUME NEW S \in SUBSET Nat, Least(S) # -1 PROVE Least(S) \in S
<1> DEFINE R == OpToRel(<, Nat)
<1>1. S # {}
  BY DEF Least
<1>2. IsWellFoundedOn(R, Nat)
  BY NatLessThanWellFounded
<1>3. ASSUME NEW k \in Nat, NEW n \in Nat, k < n PROVE <<k, n>> \in R
  BY <1>3 DEF OpToRel
<1> HIDE DEF R
<1>4. PICK n \in S : \A k \in S : ~ (<<k, n>> \in R)
  BY <1>1, <1>2, WFMin
<1>5. ASSUME NEW k \in S PROVE n <= k
  <2>1. n \in Nat /\ k \in Nat
    OBVIOUS
  <2>2. ~ (k < n)
    BY <1>3, <1>4, <2>1
  <2> QED  BY <2>1, <2>2
<1> QED  BY <1>1, <1>5 DEF Least

(* A descriptor that UNIX gives out was not open.                          *)
LEMMA NewDescriptorFresh ==
    NewDescriptor # -1 => NewDescriptor \in Unix \ DOMAIN unix
<1>1. Unix \ DOMAIN unix \in SUBSET Nat
  BY FileCallsAssumption DEF Unix
<1> QED  BY <1>1, LeastFacts DEF NewDescriptor

(* A free slot is free.                                                    *)
LEMMA FreeSlotFresh == FreeSlot # -1 => FreeSlot \in Slots /\ fdTable[FreeSlot] = NULL
<1>1. {i \in Slots : fdTable[i] = NULL} \in SUBSET Nat
  BY FileCallsAssumption DEF Slots
<1>2. FreeSlot # -1 => FreeSlot \in {i \in Slots : fdTable[i] = NULL}
  BY <1>1, LeastFacts DEF FreeSlot
<1> QED  BY <1>2

(* At first nothing is open.                                               *)
LEMMA FilesInitInv == Init => FilesInv
  BY DEF Init, FilesInv, EntriesOK, DescriptorsOwned, OpenFilesLinked, IsOpen, get

(* Calls that move the offset of one open file, or nothing.                *)
LEMMA OffsetKeeps ==
    ASSUME FilesInv, dir' = dir, unix' = unix,
           \/ fdTable' = fdTable
           \/ \E fd, o : IsOpen(fd) /\ fdTable' = [fdTable EXCEPT ![fd].currentOffset = o]
    PROVE  FilesInv'
<1>1. CASE fdTable' = fdTable
  BY <1>1 DEF FilesInv, EntriesOK, DescriptorsOwned, OpenFilesLinked, IsOpen, get, getInode
<1>2. ASSUME NEW fd, NEW o, IsOpen(fd),
             fdTable' = [fdTable EXCEPT ![fd].currentOffset = o]
      PROVE  FilesInv'
  <2>1. fd \in Slots
    BY <1>2 DEF IsOpen, get
  <2>2. PICK f, p : fdTable[fd] = [file |-> f, currentOffset |-> p]
    BY <1>2, <2>1 DEF FilesInv, EntriesOK
  <2>3. fdTable = [i \in Slots |-> fdTable[i]]
    BY DEF FilesInv, EntriesOK
  <2>4. fdTable' = [i \in Slots |-> fdTable'[i]]
        /\ fdTable'[fd] = [file |-> f, currentOffset |-> o]
        /\ \A i \in Slots \ {fd} : fdTable'[i] = fdTable[i]
    BY <1>2, <2>1, <2>2, <2>3
  <2>5. \A i \in Slots : IsOpen(i)' => IsOpen(i) /\ fdTable'[i].file = fdTable[i].file
    BY <1>2, <2>1, <2>2, <2>4 DEF IsOpen, get
  <2>6. EntriesOK'
    BY <2>4 DEF FilesInv, EntriesOK, IsOpen, get
  <2>7. DescriptorsOwned'
    BY <2>5 DEF FilesInv, DescriptorsOwned
  <2>8. OpenFilesLinked'
    BY <2>5 DEF FilesInv, OpenFilesLinked, getInode
  <2> QED  BY <2>6, <2>7, <2>8 DEF FilesInv
<1> QED  BY <1>1, <1>2

(* FileSystem::Create: the entry that it closes has no other slot, and the *)
(* descriptor that it leaves open is nobody's.                             *)
LEMMA CreateKeeps ==
    ASSUME FilesInv, NEW name, NewDescriptor # -1, FileSystemCreate(name)
    PROVE  FilesInv'
<1> DEFINE fd == NewDescriptor
           node == InodeOf(name)
           opened == Extend(unix, fd, [inode |-> node, mode |-> "rw"])
           closed == IF IsOpen(fd) THEN {fdTable[fd].file} ELSE {}
<1>1. fd \notin DOMAIN unix
  BY NewDescriptorFresh
<1>2. /\ dir' = Extend(dir, name, node) /\ unix' = Without(opened, closed)
      /\ fdTable' = [i \in Slots |-> IF i = fd THEN NULL ELSE fdTable[i]]
  BY DEF FileSystemCreate, OpenForWrite, CloseFile
<1>3. name \in DOMAIN dir => node = dir[name]
  BY DEF InodeOf
<1> HIDE DEF fd, node
<1>4. /\ DOMAIN opened = DOMAIN unix \cup {fd}
      /\ \A d \in DOMAIN unix : opened[d] = unix[d]
  BY <1>1 DEF Extend
<1>5. /\ DOMAIN unix' = DOMAIN opened \ closed
      /\ \A d \in DOMAIN opened \ closed : unix'[d] = opened[d]
  BY <1>2 DEF Without
<1>6. /\ DOMAIN dir' = DOMAIN dir \cup {name}
      /\ \A n \in DOMAIN dir : dir'[n] = dir[n]
  BY <1>2, <1>3 DEF Extend
<1>7. \A i \in Slots : IsOpen(i)' => i # fd /\ IsOpen(i) /\ fdTable'[i] = fdTable[i]
  BY <1>2 DEF IsOpen, get
<1>8. ASSUME NEW i \in Slots, IsOpen(i)'
      PROVE  fdTable[i].file \in DOMAIN unix \ closed
  <2>1. i # fd /\ IsOpen(i) /\ fdTable[i].file \in DOMAIN unix
    BY <1>7, <1>8 DEF FilesInv, DescriptorsOwned
  <2>2. IsOpen(fd) => fd \in Slots
    BY DEF IsOpen, get
  <2> QED  BY <2>1, <2>2 DEF FilesInv, DescriptorsOwned
<1>9. \A i \in Slots : IsOpen(i)' => /\ fdTable'[i].file \in DOMAIN unix'
                                      /\ unix'[fdTable'[i].file] = unix[fdTable[i].file]
  BY <1>4, <1>5, <1>7, <1>8
<1>10. EntriesOK'
  BY <1>2, <1>7 DEF FilesInv, EntriesOK
<1>11. DescriptorsOwned'
  BY <1>7, <1>9 DEF FilesInv, DescriptorsOwned
<1>12. OpenFilesLinked'
  BY <1>6, <1>7, <1>9 DEF FilesInv, OpenFilesLinked, getInode
<1> QED  BY <1>10, <1>11, <1>12 DEF FilesInv

(* FileSystem::Remove: no open file loses its name.                        *)
LEMMA RemoveKeeps ==
    ASSUME FilesInv, NEW name, Remove(name) PROVE FilesInv'
<1>1. unix' = unix /\ fdTable' = fdTable
  BY DEF Remove
<1>2. CASE dir' = dir
  BY <1>1, <1>2, OffsetKeeps
<1>3. CASE ~ RefusesToRemove(name) /\ dir' = Unlink(name)
  <2>1. /\ DOMAIN dir' = DOMAIN dir \ {name}
        /\ \A n \in DOMAIN dir \ {name} : dir'[n] = dir[n]
    BY <1>3 DEF Unlink, Without
  <2>2. \A i \in Slots : IsOpen(i) => getInode(i) # dir[name]
    BY <1>3 DEF RefusesToRemove
  <2>3. OpenFilesLinked'
    BY <1>1, <2>1, <2>2 DEF FilesInv, OpenFilesLinked, IsOpen, get, getInode
  <2> QED
    BY <1>1, <2>3 DEF FilesInv, EntriesOK, DescriptorsOwned, IsOpen, get
<1> QED  BY <1>2, <1>3 DEF Remove, SysRemove

(* FileSystem::Open: the new entry has the new descriptor.                 *)
LEMMA OpenKeeps ==
    ASSUME FilesInv, NEW name, NEW accessType, FileSystemOpen(name, accessType)
    PROVE  FilesInv'
<1> DEFINE fd == NewDescriptor
           slot == FreeSlot
           node == InodeOf(name)
<1>1. \/ dir' = dir
      \/ name \notin DOMAIN dir /\ dir' = Extend(dir, name, node)
  BY DEF FileSystemOpen, InodeOf
<1>2. /\ DOMAIN dir \subseteq DOMAIN dir'
      /\ \A n \in DOMAIN dir : dir'[n] = dir[n]
  BY <1>1 DEF Extend
<1>3. CASE unix' = unix /\ fdTable' = fdTable
  <2>1. OpenFilesLinked'
    BY <1>2, <1>3 DEF FilesInv, OpenFilesLinked, IsOpen, get, getInode
  <2> QED
    BY <1>3, <2>1 DEF FilesInv, EntriesOK, DescriptorsOwned, IsOpen, get
<1>4. ASSUME fd # -1, slot # -1, NEW mode,
             unix' = Extend(unix, fd, [inode |-> node, mode |-> mode]),
             fdTable' = [fdTable EXCEPT ![slot] = [file |-> fd, currentOffset |-> 0]],
             name \in DOMAIN dir \/ dir' = Extend(dir, name, node)
      PROVE  FilesInv'
  <2>1. fd \notin DOMAIN unix /\ slot \in Slots /\ fdTable[slot] = NULL
    BY <1>4, NewDescriptorFresh, FreeSlotFresh
  <2>2. name \in DOMAIN dir' /\ dir'[name] = node
    <3>1. CASE name \in DOMAIN dir
      BY <1>2, <3>1 DEF InodeOf
    <3>2. CASE dir' = Extend(dir, name, node)
      BY <3>2 DEF Extend
    <3> QED  BY <1>4, <3>1, <3>2
  <2> HIDE DEF fd, slot, node
  <2>3. /\ DOMAIN unix' = DOMAIN unix \cup {fd}
        /\ unix'[fd] = [inode |-> node, mode |-> mode]
        /\ \A d \in DOMAIN unix : unix'[d] = unix[d]
    BY <1>4, <2>1 DEF Extend
  <2>4. fdTable = [i \in Slots |-> fdTable[i]]
    BY DEF FilesInv, EntriesOK
  <2>5. /\ fdTable' = [i \in Slots |-> fdTable'[i]]
        /\ fdTable'[slot] = [file |-> fd, currentOffset |-> 0]
        /\ \A i \in Slots \ {slot} : fdTable'[i] = fdTable[i]
    BY <1>4, <2>1, <2>4
  <2>6. ASSUME NEW i \in Slots \ {slot}, IsOpen(i)'
        PROVE  IsOpen(i) /\ fdTable'[i].file \in DOMAIN unix /\ fdTable'[i].file # fd
    BY <2>1, <2>5, <2>6 DEF FilesInv, DescriptorsOwned, IsOpen, get
  <2>7. EntriesOK'
    BY <2>5, <2>6 DEF FilesInv, EntriesOK
  <2>8. DescriptorsOwned'
    BY <2>3, <2>5, <2>6 DEF FilesInv, DescriptorsOwned
  <2>9. OpenFilesLinked'
    <3>1. ASSUME NEW i \in Slots \ {slot}, IsOpen(i)'
          PROVE  \E n \in DOMAIN dir' : dir'[n] = unix'[fdTable'[i].file].inode
      BY <1>2, <2>3, <2>5, <2>6, <3>1 DEF FilesInv, OpenFilesLinked, getInode
    <3>2. unix'[fdTable'[slot].file].inode = node
      BY <2>3, <2>5
    <3> QED  BY <2>2, <3>1, <3>2 DEF OpenFilesLinked, getInode
  <2> QED  BY <2>7, <2>8, <2>9 DEF FilesInv
<1>5. \/ unix' = unix /\ fdTable' = fdTable
      \/ /\ fd # -1 /\ slot # -1
         /\ \E mode : unix' = Extend(unix, fd, [inode |-> node, mode |-> mode])
         /\ fdTable' = [fdTable EXCEPT ![slot] = [file |-> fd, currentOffset |-> 0]]
         /\ name \in DOMAIN dir \/ dir' = Extend(dir, name, node)
  BY DEF FileSystemOpen, InodeOf
<1> QED  BY <1>3, <1>4, <1>5

(* FileSystem::Close: the descriptor goes with its only entry.             *)
LEMMA CloseKeeps ==
    ASSUME FilesInv, NEW fd, Close(fd) PROVE FilesInv'
<1>1. dir' = dir
  BY DEF Close
<1>2. CASE ~ IsOpen(fd)
  BY <1>1, <1>2, OffsetKeeps DEF Close, FileSystemClose
<1>3. CASE IsOpen(fd)
  <2>1. fd \in Slots /\ fdTable = [i \in Slots |-> fdTable[i]]
    BY <1>3 DEF FilesInv, EntriesOK, IsOpen, get
  <2>2. /\ unix' = Without(unix, {fdTable[fd].file})
        /\ fdTable' = [fdTable EXCEPT ![fd] = NULL]
    BY <1>3 DEF Close, FileSystemClose, CloseFile
  <2>3. /\ fdTable' = [i \in Slots |-> fdTable'[i]]
        /\ \A i \in Slots : IsOpen(i)' => i # fd /\ IsOpen(i) /\ fdTable'[i] = fdTable[i]
    BY <2>1, <2>2 DEF IsOpen, get
  <2>4. /\ DOMAIN unix' = DOMAIN unix \ {fdTable[fd].file}
        /\ \A d \in DOMAIN unix' : unix'[d] = unix[d]
    BY <2>2 DEF Without
  <2>5. \A i \in Slots : IsOpen(i)' => fdTable[i].file \in DOMAIN unix'
    BY <1>3, <2>1, <2>3, <2>4 DEF FilesInv, DescriptorsOwned
  <2>6. EntriesOK'
    BY <2>3 DEF FilesInv, EntriesOK
  <2>7. DescriptorsOwned'
    BY <2>3, <2>5 DEF FilesInv, DescriptorsOwned
  <2>8. OpenFilesLinked'
    BY <1>1, <2>3, <2>4, <2>5 DEF FilesInv, OpenFilesLinked, getInode
  <2> QED  BY <2>6, <2>7, <2>8 DEF FilesInv
<1> QED  BY <1>2, <1>3

(* Every system call on files.                                             *)
LEMMA FileCallKeeps == ASSUME FilesInv, FileCall PROVE FilesInv'
<1>1. ASSUME UNCHANGED <<dir, unix, fdTable>> PROVE FilesInv'
  BY <1>1, OffsetKeeps
<1>2. ASSUME NEW name, Create(name) PROVE FilesInv'
  <2>1. CASE name = Empty \/ NewDescriptor = -1
    BY <1>1, <1>2, <2>1 DEF Create, SysCreate, FileSystemCreate
  <2>2. CASE name # Empty /\ NewDescriptor # -1
    BY <1>2, <2>2, CreateKeeps DEF Create, SysCreate
  <2> QED  BY <2>1, <2>2
<1>3. ASSUME NEW name, NEW accessType, Open(name, accessType) PROVE FilesInv'
  BY <1>3, OpenKeeps DEF Open
<1>4. ASSUME NEW length, NEW fd, Read(length, fd) PROVE FilesInv'
  BY <1>4, OffsetKeeps DEF Read, SysRead, FileRead
<1>5. ASSUME NEW bytes, NEW fd, Write(bytes, fd) PROVE FilesInv'
  BY <1>5, OffsetKeeps DEF Write, SysWrite, FileWrite
<1>6. ASSUME NEW position, NEW fd, Seek(position, fd) PROVE FilesInv'
  BY <1>6, OffsetKeeps DEF Seek, SysSeek, FileSeek
<1>7. ASSUME NEW chars, ReadConsole(chars) PROVE FilesInv'
  BY <1>1, <1>7 DEF ReadConsole
<1> QED
  BY <1>2, <1>3, <1>4, <1>5, <1>6, <1>7, RemoveKeeps, CloseKeeps DEF FileCall

LEMMA FilesNextInv == FilesInv /\ [FileCall]_vars => FilesInv'
<1> SUFFICES ASSUME FilesInv, UNCHANGED vars PROVE FilesInv'
  BY FileCallKeeps
<1> QED  BY OffsetKeeps DEF vars

(* For fdTable and UNIX tables of any size and any calls: no UNIX          *)
(* descriptor is closed twice or shared by two entries of fdTable, so that *)
(* the ASSERT behind ~OpenFile holds.                                      *)
THEOREM DescriptorsSafe == Spec => []DescriptorsOwned
<1>1. FilesInv => DescriptorsOwned
  BY DEF FilesInv
<1> QED  BY FilesInitInv, FilesNextInv, <1>1, PTL DEF Spec

(* And an open file keeps a name: FileSystem::Remove never unlinks one.    *)
THEOREM LinksSafe == Spec => []OpenFilesLinked
<1>1. FilesInv => OpenFilesLinked
  BY DEF FilesInv
<1> QED  BY FilesInitInv, FilesNextInv, <1>1, PTL DEF Spec

----------------------------------------------------------------------------
(* The handler of exceptions around these calls.  A case of its switch is  *)
(* a call on files, or leaves the files alone; and it is one that returns. *)
LEMMA CallIsOneOf ==
    SysNext => /\ FileCall \/ UNCHANGED <<dir, unix, fdTable>>
               /\ \E type : Returns(type)
<1> SUFFICES ASSUME SysNext
             PROVE  /\ FileCall \/ UNCHANGED <<dir, unix, fdTable>>
                    /\ \E type : Returns(type)
  OBVIOUS
<1>1. ASSUME NEW name \in Names \cup {Empty}, NEW type \in ToCreate,
             CallCreate(type, name)
      PROVE  FileCall /\ Returns(type)
  BY <1>1 DEF CallCreate, FileCall
<1>2. ASSUME NEW name \in Names \cup {Empty}, CallRemove(name)
      PROVE  FileCall /\ Returns("Remove")
  BY <1>2 DEF CallRemove, FileCall
<1>3. ASSUME NEW name \in Names \cup {Empty}, NEW accessType \in 0..2,
             CallOpen(name, accessType)
      PROVE  FileCall /\ Returns("Open")
  BY <1>3 DEF CallOpen, FileCall
<1>4. ASSUME NEW fd \in -1..NumSlots, CallClose(fd)
      PROVE  FileCall /\ Returns("Close")
  BY <1>4 DEF CallClose, FileCall
<1>5. ASSUME NEW fd \in -1..NumSlots, NEW length \in 0..MaxLength, CallRead(length, fd)
      PROVE  FileCall /\ Returns("Read")
  BY <1>5 DEF CallRead, FileCall
<1>6. ASSUME NEW fd \in -1..NumSlots, NEW bytes \in Data, CallWrite(bytes, fd)
      PROVE  FileCall /\ Returns("Write")
  BY <1>6 DEF CallWrite, FileCall
<1>7. ASSUME NEW fd \in -1..NumSlots, NEW position \in -1..(MaxLength + 1),
             CallSeek(position, fd)
      PROVE  FileCall /\ Returns("Seek")
  BY <1>7 DEF CallSeek, FileCall
<1>8. ASSUME NEW chars \in Data, CallReadConsole(chars)
      PROVE  FileCall /\ Returns("Read")
  BY <1>8 DEF CallReadConsole, FileCall
<1>9. ASSUME NEW type, NEW value, Gives(type, value)
      PROVE  UNCHANGED <<dir, unix, fdTable>> /\ Returns(type)
  BY <1>9 DEF Gives
<1>10. ASSUME NEW type, Stops(type)
       PROVE  UNCHANGED <<dir, unix, fdTable>> /\ Returns(type)
  BY <1>10 DEF Stops
<1> QED
  BY <1>1, <1>2, <1>3, <1>4, <1>5, <1>6, <1>7, <1>8, <1>9, <1>10
  DEF SysNext, CallAdd, CallReadNum, CallRandomNum, CallReadChar, GivesNothing,
      CallPrintNum, CallPrintChar, CallPrintString, CallReadString

(* No call, whatever case it falls through to, breaks the tables.          *)
LEMMA SysNextInv == FilesInv /\ [SysNext]_sysVars => FilesInv'
<1>1. ASSUME FilesInv, UNCHANGED <<dir, unix, fdTable>> PROVE FilesInv'
  BY <1>1, OffsetKeeps
<1> QED  BY <1>1, CallIsOneOf, FileCallKeeps DEF sysVars, vars

(* The two theorems above for all system calls, in any order.              *)
THEOREM SystemCallsSafe == SysSpec => []DescriptorsOwned /\ []OpenFilesLinked
<1>1. SysInit => FilesInv
  BY FilesInitInv DEF SysInit
<1>2. FilesInv => DescriptorsOwned /\ OpenFilesLinked
  BY DEF FilesInv
<1> QED  BY <1>1, SysNextInv, <1>2, PTL DEF SysSpec

(* ProcessPCRegister called once moves all three registers by one          *)
(* instruction.                                                            *)
LEMMA ProcessedOnce == Processed(1) = [prev |-> 0, pc |-> 4, next |-> 8]
<1> DEFINE Regs(regs) == [k \in 0..1 |-> IF k = 0 THEN AtCall
                                         ELSE ProcessPCRegister(regs[k - 1])]
           once == [k \in 0..1 |-> IF k = 0 THEN AtCall ELSE ProcessPCRegister(AtCall)]
<1>1. once = Regs(once)
  OBVIOUS
<1>2. ASSUME NEW regs, regs = Regs(regs)
      PROVE  regs[1] = ProcessPCRegister(AtCall)
  BY <1>2
<1>3. PICK regs : regs = Regs(regs) /\ Processed(1) = regs[1]
  BY <1>1 DEF Processed
<1>4. Processed(1) = ProcessPCRegister(AtCall)
  BY <1>2, <1>3
<1> QED  BY <1>4 DEF ProcessPCRegister, AtCall

(* ExceptionHandler returns behind the system call, with all three program *)
(* counters, for every call that has a case of its own with a return, and  *)
(* whatever the calls before it did.                                       *)
THEOREM CallsReturn == SysSpec => []CallsReturnBehind
<1>1. SysInit => CallsReturnBehind
  BY DEF SysInit, CallsReturnBehind
<1>2. ASSUME NEW type, Returns(type) PROVE CallsReturnBehind'
  <2> SUFFICES ASSUME running', type \notin DOMAIN FallsTo
               PROVE  pcs' = [prev |-> 0, pc |-> 4, next |-> 8]
    BY <1>2 DEF Returns, CallsReturnBehind
  <2>1. OnTheWay(type) + (IF running' THEN 1 ELSE 0) = 1
    BY DEF OnTheWay
  <2>2. pcs' = Processed(1)
    BY <1>2, <2>1 DEF Returns
  <2> QED  BY <2>2, ProcessedOnce
<1>3. ASSUME CallsReturnBehind, UNCHANGED sysVars PROVE CallsReturnBehind'
  BY <1>3 DEF CallsReturnBehind, sysVars, vars
<1>4. CallsReturnBehind /\ [SysNext]_sysVars => CallsReturnBehind'
  BY <1>2, <1>3, CallIsOneOf
<1> QED  BY <1>1, <1>4, PTL DEF SysSpec

=============================================================================
