----------------------------- MODULE MCMachine -----------------------------
(***************************************************************************)
(* The simulated machine for TLC.  A run is about one of                   *)
(*   "delay"   three instructions out of those that load, store and jump,  *)
(*             one behind the other;                                       *)
(*   "every"   one instruction, with any opcode, on any registers;         *)
(*   "tables"  accesses through any page table that a kernel may give to   *)
(*             the machine;                                                *)
(*   "load"    a program that AddrSpace::Load loads, of any size.          *)
(***************************************************************************)
EXTENDS Mips

CONSTANTS
    Frames,             \* frames in page tables, also ones that do not exist
    UserStackSize, StackGap, Sizes, Values, MaxStores       \* of AddrSpace

VARIABLES
    part,
    read, written,      \* the pages that were read, and written, without a fault
    noffH, numPages, startRegisters, state, expect, stores  \* of AddrSpace

MCFileByte(a) == IF a % 3 = 0 THEN 0 ELSE 1

A == INSTANCE AddrSpace WITH registers <- startRegisters, FileByte <- MCFileByte

ASSUME A!AddrSpaceAssumption

processorVars == <<registers, running, executed, steps, recent>>
tableVars == <<read, written>>
spaceVars == <<noffH, numPages, startRegisters, state, expect, stores>>

----------------------------------------------------------------------------
(* Programs of registers 0, 1, 2 and 31.                                   *)
MCGprs == {0, 1, 2, 31}

Raw(op, rs, rt, imm) ==
    [op |-> op, rs |-> rs, rt |-> rt, rd |-> 0, shamt |-> 0, funct |-> 0,
     imm |-> imm, target |-> 1]
Special(funct, rs, rt, rd) ==
    [op |-> 0, rs |-> rs, rt |-> rt, rd |-> rd, shamt |-> 1, funct |-> funct,
     imm |-> 0, target |-> 0]

(* Every opcode once.                                                      *)
EveryText ==
    {Raw(op, 1, 2, 1) : op \in (0..63) \ {0, 1}}
    \cup {Raw(1, 2, cond, 3) : cond \in {0, 1, 2, 16, 17}}
    \cup {Special(funct, 1, 2, 1) : funct \in (0..63) \ {12}}
    \cup {Special(12, 0, 0, 0)}

(* Loads and stores around the other uses of their registers.              *)
DelayText ==
    {Raw(op, 1, 2, imm) : op \in {34, 38, 42, 46}, imm \in {1, 2}}
    \cup {Raw(32, 1, 2, 0), Raw(35, 2, 1, 0), Raw(43, 0, 2, 0), Raw(41, 1, 2, 0),
          Raw(9, 0, 1, 1), Raw(36, 0, 0, 1), Special(32, 2, 0, 1),
          Special(8, 31, 0, 0), Special(8, 1, 0, 0), Raw(3, 0, 0, 0),
          Special(12, 0, 0, 0)}

MCPageMap == [p \in 0..1 |-> p + 1]
NoMemory == [a \in 0..(MemorySize - 1) |-> 0]
SomeMemories == {[a \in 0..(MemorySize - 1) |-> IF a \in m THEN 1 ELSE 0] :
                    m \in {{8, 11, 12, 17}, {9, 10, 13, 14, 18, 19}}}
MCMemories == SomeMemories \cup {NoMemory}
FewWords == {2, 5, 7}

----------------------------------------------------------------------------
(* Page tables of two pages with any contents.                             *)
Pages == 0..1
Addresses == 0..(3 * PageSize - 1)
AccessSizes == {1, 2, 4}

Tables == [Pages -> [physicalPage : Frames, valid : BOOLEAN, readOnly : BOOLEAN,
                     use : {FALSE}, dirty : {FALSE}]]

(* A load, or a store of zero, that goes through.                          *)
Access(virtAddr, size, writing) ==
    LET at == Translate(virtAddr, size, writing)
        page == {virtAddr \div PageSize}
    IN /\ at.exception = "None"
       /\ pageTable' = at.table
       /\ read' = IF writing THEN read ELSE read \cup page
       /\ written' = IF writing THEN written \cup page ELSE written
       /\ mainMemory' = IF writing THEN WriteMem(at, size, 0) ELSE mainMemory

----------------------------------------------------------------------------
ProcessorIdle ==
    /\ registers = [r \in Registers |-> 0] /\ running = TRUE
    /\ executed = NoInstruction /\ steps = 0 /\ recent = <<>>

SpaceIdle ==
    /\ noffH = [s \in A!Segments |-> 0] /\ numPages = 0 /\ state = "idle"
    /\ startRegisters = [PCReg |-> 0, NextPCReg |-> 0, StackReg |-> 0]
    /\ expect = [a \in {} |-> 0] /\ stores = 0

MCInit ==
    /\ read = {} /\ written = {}
    /\ \/ /\ part = "delay" /\ Init /\ SpaceIdle
          /\ registers[1] \in FewWords /\ registers[2] \in FewWords
          /\ mainMemory \in SomeMemories
       \/ part = "every" /\ Init /\ SpaceIdle /\ mainMemory = NoMemory
       \/ /\ part = "tables" /\ ProcessorIdle /\ SpaceIdle
          /\ pageTable \in Tables /\ mainMemory = NoMemory
       \/ part = "load" /\ ProcessorIdle /\ A!Init

MCNext ==
    /\ UNCHANGED part
    /\ \/ part = "delay" /\ Next /\ UNCHANGED <<tableVars, spaceVars>>
       \/ /\ part = "every" /\ steps = 0 /\ Step(EveryText)
          /\ UNCHANGED <<tableVars, spaceVars>>
       \/ /\ part = "tables"
          /\ \E virtAddr \in Addresses, size \in AccessSizes, writing \in BOOLEAN :
                Access(virtAddr, size, writing)
          /\ UNCHANGED <<processorVars, spaceVars>>
       \/ part = "load" /\ A!Next /\ UNCHANGED <<processorVars, tableVars>>

MCSpec ==
    MCInit /\ [][MCNext]_<<part, pageTable, mainMemory, processorVars, tableVars, spaceVars>>

----------------------------------------------------------------------------
(* The delay of loads cannot be observed by a program that keeps to the    *)
(* rules, nor by the kernel: every load arrives before anything uses its   *)
(* register, RaiseException finishes it first, and what the kernel answers *)
(* is not overwritten by a load of before the call.                        *)
ImplementsPlain ==
    /\ part = "delay" => Plain!PlainInit
    /\ [][part = "delay" => Plain!PlainNext]_<<mainMemory, Arrived, running, executed>>

(* WordsExact of Mips: the instructions of OneInstruction that add,        *)
(* multiply and divide compute what integers do.                           *)
ArithmeticExact == part = "every" => WordsExact

(* What a kernel relies on: an access that Translate lets through lies     *)
(* inside the memory (the ASSERT at its end), however the page and the     *)
(* address were chosen; the translation that the kernel makes for itself   *)
(* (AddrSpace::Translate) agrees with the machine's for aligned addresses  *)
(* of valid pages; and the use and dirty bits tell which pages were        *)
(* accessed, and which of them written.                                    *)
TranslationSafe ==
    part = "tables" =>
        /\ \A a \in Addresses, size \in AccessSizes, writing \in BOOLEAN :
               LET at == Translate(a, size, writing)
               IN /\ at.exception = "None" => at.physAddr + size <= MemorySize
                  /\ at.exception # "PageFault" /\ a % size = 0 =>
                         at = SpaceTranslate(a, writing)
        /\ \A p \in Pages : /\ pageTable[p].use <=> p \in read \cup written
                            /\ pageTable[p].dirty <=> p \in written

(* ProgramHasItsMemory of AddrSpace: after AddrSpace::Load and Execute the *)
(* program's segments and stack are its own, and hold what was put there.  *)
ProgramHasItsMemory == A!ProgramHasItsMemory

=============================================================================
