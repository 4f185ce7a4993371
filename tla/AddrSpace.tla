----------------------------- MODULE AddrSpace -----------------------------
(***************************************************************************)
(* A user program from its file into memory (AddrSpace::Load, userprog/    *)
(* addrspace.cc), and its accesses to memory from then on.                 *)
(*                                                                         *)
(* The executable is described by the sizes of its segments, which a       *)
(* linker puts one behind the other from address 0: code, read-only data,  *)
(* initialized and uninitialized data.                                     *)
(***************************************************************************)
EXTENDS Memory, Sequences

CONSTANTS
    UserStackSize,
    StackGap,           \* what InitRegisters leaves above the stack (16)
    Sizes,              \* sizes of a segment, in words
    Values,             \* words that the program writes
    MaxStores,          \* bound on the words the program writes
    FileByte(_)         \* the byte of the executable for an address

AddrSpaceAssumption ==
    /\ UserStackSize \in Nat /\ Sizes \subseteq Nat /\ Values \subseteq Words
    /\ StackGap \in Nat /\ StackGap % 4 = 0 /\ StackGap <= UserStackSize
    /\ MaxStores \in Nat

VARIABLES
    noffH,      \* sizes of the segments
    numPages,   \* AddrSpace::numPages
    registers,  \* PCReg, NextPCReg and StackReg when the program starts
    state,      \* "loading", "not found", "aborted" (by an ASSERT), "loaded",
                \* "running", "halted"
    expect,     \* what the program believes its memory holds
    stores      \* how often it has written

vars == <<pageTable, mainMemory, noffH, numPages, registers, state, expect, stores>>

Segments == {"code", "readonlyData", "initData", "uninitData"}
Addresses == 0..(MemorySize - 1)

divRoundUp(n, s) == (n + s - 1) \div s

(* Where the segments are.                                                 *)
virtualAddr ==
    [code |-> 0, readonlyData |-> noffH.code,
     initData |-> noffH.code + noffH.readonlyData,
     uninitData |-> noffH.code + noffH.readonlyData + noffH.initData]

Segment(s) == virtualAddr[s]..(virtualAddr[s] + noffH[s] - 1)

----------------------------------------------------------------------------
(* AddrSpace::AddrSpace: the identity, and memory full of zeros.           *)
Init ==
    /\ noffH \in [Segments -> {4 * n : n \in Sizes}]
    /\ pageTable = [p \in 0..(NumPhysPages - 1) |->
                       [physicalPage |-> p, valid |-> TRUE, readOnly |-> FALSE,
                        use |-> FALSE, dirty |-> FALSE]]
    /\ mainMemory = [a \in Addresses |-> 0]
    /\ numPages = 0
    /\ registers = [PCReg |-> 0, NextPCReg |-> 0, StackReg |-> 0]
    /\ state = "loading"
    /\ expect = [a \in {} |-> 0]
    /\ stores = 0

(* Mutant: the uninitialized data is not counted: nothing is read for it.  *)
SpaceSizeInFile ==
    noffH.code + noffH.readonlyData + noffH.initData + UserStackSize

(* The size that AddrSpace::Load computes (with RDATA).                    *)
SpaceSize ==
    noffH.code + noffH.readonlyData + noffH.initData + noffH.uninitData
        + UserStackSize

(* AddrSpace::Load of a file that there is not.                            *)
LoadFails ==
    /\ state = "loading"
    /\ state' = "not found"
    /\ UNCHANGED <<pageTable, mainMemory, noffH, numPages, registers, expect, stores>>

(* AddrSpace::Load: the segments that are in the file are read to their    *)
(* addresses.                                                              *)
Load ==
    LET pages == divRoundUp(SpaceSize, PageSize)
        inFile == UNION {Segment(s) : s \in {"code", "readonlyData", "initData"}}
    IN /\ state = "loading"
       /\ numPages' = pages
       /\ IF pages > NumPhysPages
          THEN state' = "aborted" /\ UNCHANGED <<mainMemory, expect>>
          ELSE /\ state' = "loaded"
               /\ mainMemory' = [a \in Addresses |->
                                    IF a \in inFile THEN FileByte(a) ELSE mainMemory[a]]
               /\ expect' = [a \in 0..(pages * PageSize - 1) |->
                                IF a \in inFile THEN FileByte(a) ELSE 0]
       /\ UNCHANGED <<pageTable, noffH, registers, stores>>

InitRegisters ==
    [PCReg |-> 0, NextPCReg |-> 4, StackReg |-> numPages * PageSize - StackGap]

(* AddrSpace::RestoreState: what the machine has of the page table.        *)
RestoreState == [p \in 0..(numPages - 1) |-> pageTable[p]]

Execute ==
    /\ state = "loaded"
    /\ state' = "running"
    /\ registers' = InitRegisters
    /\ pageTable' = RestoreState
    /\ UNCHANGED <<mainMemory, noffH, numPages, expect, stores>>

(* The program writes a word or a byte; an exception halts the machine.    *)
Store(virtAddr, size, value) ==
    LET at == Translate(virtAddr, size, TRUE)
    IN /\ state = "running" /\ stores < MaxStores
       /\ stores' = stores + 1
       /\ IF at.exception # "None"
          THEN state' = "halted" /\ UNCHANGED <<pageTable, mainMemory, expect>>
          ELSE /\ pageTable' = at.table
               /\ mainMemory' = WriteMem(at, size, value)
               /\ expect' = [a \in DOMAIN expect |->
                                IF a \in virtAddr..(virtAddr + size - 1)
                                THEN ByteOf(value, a - virtAddr) ELSE expect[a]]
               /\ UNCHANGED state
       /\ UNCHANGED <<noffH, numPages, registers>>

Next ==
    \/ LoadFails
    \/ Load
    \/ Execute
    \/ \E virtAddr \in 0..MemorySize, size \in {1, 2, 4}, value \in Values :
          Store(virtAddr, size, value)

Spec == Init /\ [][Next]_vars

----------------------------------------------------------------------------
(* The program has the memory that it was linked for: the addresses of its *)
(* segments and of a stack of UserStackSize bytes below the end are its    *)
(* own and do not overlap, the stack pointer lies inside, the first        *)
(* instruction can be fetched, and every address holds what the file or    *)
(* the program itself put there, read byte by byte or as a word through    *)
(* the page table.                                                         *)
ProgramHasItsMemory ==
    state = "running" =>
        LET end == numPages * PageSize
            used == UNION {Segment(s) : s \in Segments}
        IN /\ used \subseteq 0..(end - UserStackSize - 1)
           /\ registers.StackReg \in (end - UserStackSize)..(end - 1)
           /\ Translate(registers.PCReg, 4, FALSE).exception = "None"
           /\ \A a \in DOMAIN expect :
                  LET at == Translate(a, 1, FALSE)
                  IN at.exception = "None" /\ ReadMem(at, 1) = expect[a]
           /\ \A a \in DOMAIN expect : a % 4 = 0 =>
                  LET at == Translate(a, 4, FALSE)
                  IN \A k \in 0..3 : ByteOf(ReadMem(at, 4), k) = expect[a + k]

=============================================================================
