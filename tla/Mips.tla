-------------------------------- MODULE Mips --------------------------------
(***************************************************************************)
(* The processor of the simulated machine: OneInstruction and DelayedLoad  *)
(* of machine/mipssim.cc with RaiseException of machine/machine.cc and     *)
(* what the kernel does to the registers on an exception.                  *)
(*                                                                         *)
(* A load reaches its register one instruction late.  The word at the pc   *)
(* may be any instruction of Text, so that a behaviour is a run of any     *)
(* program, from any contents of its registers.                            *)
(***************************************************************************)
EXTENDS Instructions

CONSTANTS
    Text,           \* the instructions of which programs consist
    Results,        \* what the kernel answers to a system call
    StartWords,     \* contents of the registers of the program
    StartMemory,    \* contents of the memory
    PageMap,        \* the physical pages of the program
    MaxSteps        \* bound on the length of a run

VARIABLES
    running,        \* FALSE once the kernel has stopped the program
    executed,       \* the instruction executed last
    steps,          \* instructions executed
    recent          \* the last two instructions with the address of each

vars == <<pageTable, mainMemory, registers, running, executed, steps, recent>>

----------------------------------------------------------------------------
(* The rules of the assembler: the instruction behind a load does not name *)
(* the register loaded, unless it loads it again, and a system call is not *)
(* in the delay slot of a branch (the stubs of test/start.S).              *)
Scheduled(i) ==
    /\ registers[LoadReg] # 0 =>
         /\ i.rs # registers[LoadReg] /\ i.rd # registers[LoadReg]
         /\ i.rt # registers[LoadReg] \/ i.opCode \in {"LB", "LBU", "LH", "LHU",
                                                       "LW", "LWL", "LWR"}
         /\ i.opCode \in {"JAL", "BGEZAL", "BLTZAL"} => registers[LoadReg] # R31
    /\ i.opCode = "SYSCALL" => registers[NextPCReg] = ToWord(registers[PCReg] + 4)

(* A program under way, between two instructions.                          *)
Init ==
    /\ pageTable = [p \in DOMAIN PageMap |->
                       [physicalPage |-> PageMap[p], valid |-> TRUE,
                        readOnly |-> FALSE, use |-> FALSE, dirty |-> FALSE]]
    /\ mainMemory \in StartMemory
    /\ \E gprs \in [Gprs \ {0, R31} -> StartWords] :
         registers = [r \in Registers |->
                        IF r \in DOMAIN gprs THEN gprs[r]
                        ELSE IF r = NextPCReg THEN 4 ELSE 0]
    /\ running = TRUE /\ executed = NoInstruction
    /\ steps = 0 /\ recent = <<>>

(* Machine::DelayedLoad.                                                   *)
DelayedLoad(regs, nextReg, nextValue) ==
    [regs EXCEPT ![regs[LoadReg]] = regs[LoadValueReg],
                 ![LoadReg] = nextReg, ![LoadValueReg] = nextValue, ![0] = 0]

Fetch == Translate(registers[PCReg], 4, FALSE)

(* The use bit of the page of the instruction, on top of the table that    *)
(* the instruction leaves.                                                 *)
WithFetch(table) ==
    [table EXCEPT ![registers[PCReg] \div PageSize] = Touched(@, FALSE)]

Seen(i) ==
    LET now == [opCode |-> i.opCode, rt |-> i.rt, at |-> Address(i)]
    IN IF recent = <<>> THEN <<now>> ELSE <<recent[Len(recent)], now>>

(* The end of OneInstruction.                                              *)
Advanced(out) ==
    [DelayedLoad(out.regs, out.loadReg, out.loadValue) EXCEPT
        ![PrevPCReg] = registers[PCReg],
        ![PCReg] = registers[NextPCReg],
        ![NextPCReg] = out.pcAfter]

(* An instruction that completes.                                          *)
OneInstruction(i) ==
    LET out == Execute(i)
    IN /\ running /\ steps < MaxSteps /\ Scheduled(i)
       /\ Fetch.exception = "None" /\ out.exception = "None"
       /\ registers' = Advanced(out)
       /\ pageTable' = WithFetch(out.table)
       /\ mainMemory' = out.memory
       /\ executed' = i /\ steps' = steps + 1 /\ recent' = Seen(i)
       /\ UNCHANGED running

(* Mutant: the load in progress is not finished before the kernel runs.    *)
RaiseExceptionPending(badVAddr) == [registers EXCEPT ![BadVAddrReg] = badVAddr]

(* Machine::RaiseException up to the call of ExceptionHandler.             *)
RaiseException(badVAddr) ==
    DelayedLoad([registers EXCEPT ![BadVAddrReg] = badVAddr], 0, 0)

(* A system call: the kernel answers in register 2 and moves the pc on.    *)
Syscall(i, result) ==
    /\ running /\ steps < MaxSteps /\ Scheduled(i)
    /\ Fetch.exception = "None" /\ Execute(i).exception = "Syscall"
    /\ LET regs == RaiseException(0)
       IN registers' = [regs EXCEPT
                           ![2] = result,
                           ![PrevPCReg] = regs[PCReg],
                           ![PCReg] = ToWord(regs[PCReg] + 4),
                           ![NextPCReg] = ToWord(regs[PCReg] + 8)]
    /\ pageTable' = WithFetch(pageTable)
    /\ executed' = i /\ steps' = steps + 1 /\ recent' = <<>>
    /\ UNCHANGED <<mainMemory, running>>

(* Any other exception: the kernel halts.                                  *)
Stops(badVAddr, table) ==
    /\ registers' = RaiseException(badVAddr)
    /\ pageTable' = table
    /\ running' = FALSE /\ recent' = <<>>
    /\ UNCHANGED <<mainMemory, executed, steps>>

FetchFails ==
    /\ running /\ Fetch.exception # "None"
    /\ Stops(registers[PCReg], pageTable)

InstructionFails(i) ==
    /\ running /\ steps < MaxSteps /\ Scheduled(i) /\ Fetch.exception = "None"
    /\ Execute(i).exception \notin {"None", "Syscall", "HostTrap"}
    /\ Stops(Execute(i).badVAddr, WithFetch(pageTable))

(* The simulator itself is ended by its host.                              *)
HostTraps(i) ==
    /\ running /\ steps < MaxSteps /\ Scheduled(i) /\ Fetch.exception = "None"
    /\ Execute(i).exception = "HostTrap"
    /\ pageTable' = WithFetch(pageTable)
    /\ running' = FALSE /\ recent' = <<>>
    /\ UNCHANGED <<mainMemory, registers, executed, steps>>

Step(text) ==
    \/ \E raw \in text :
        \/ OneInstruction(Decode(raw))
        \/ \E result \in Results : Syscall(Decode(raw), result)
        \/ InstructionFails(Decode(raw))
        \/ HostTraps(Decode(raw))
    \/ FetchFails

Next == Step(Text)

Spec == Init /\ [][Next]_vars

----------------------------------------------------------------------------
(* What an instruction on registers 1 and 2 comes to.                      *)
Outcome(opCode, extra) ==
    Execute([opCode |-> opCode, rs |-> 1, rt |-> 2, rd |-> 1, extra |-> extra])

InRange(n) == n \in (- 2 ^ (WordBits - 1))..(2 ^ (WordBits - 1) - 1)

Exactly(out, reg, n) ==
    IF InRange(n) THEN out.exception = "None" /\ out.regs[reg] = ToWord(n)
    ELSE out.exception = "Overflow"

(* Arithmetic on words is arithmetic on integers: ADD, ADDI and SUB give   *)
(* the exact result or raise the overflow exception, exactly when the      *)
(* result does not fit; MULT and MULTU leave the whole product in HI and   *)
(* LO, although Mult adds it up bit by bit; DIV and DIVU leave quotient    *)
(* and remainder, which has the sign of the dividend.                      *)
WordsExact ==
    LET a == Signed(registers[1])
        b == Signed(registers[2])
        Product(out) == out.regs[HiReg] * 2 ^ WordBits + out.regs[LoReg]
        div == Outcome("DIV", 0)
        divu == Outcome("DIVU", 0)
    IN /\ Exactly(Outcome("ADD", 0), 1, a + b)
       /\ Exactly(Outcome("SUB", 0), 1, a - b)
       /\ \A n \in 0..(2 ^ HalfBits - 1) :
            LET extra == SignExtend(n, HalfBits)
            IN Exactly(Outcome("ADDI", extra), 2, a + Signed(extra))
       /\ Product(Outcome("MULT", 0)) = (a * b) % 2 ^ (2 * WordBits)
       /\ Product(Outcome("MULTU", 0)) = registers[1] * registers[2]
       /\ b # 0 => 
            /\ divu.regs[LoReg] * registers[2] + divu.regs[HiReg] = registers[1]
            /\ divu.regs[HiReg] < registers[2]
            /\ div.exception = "None" =>
                 LET q == Signed(div.regs[LoReg])
                     r == Signed(div.regs[HiReg])
                 IN /\ q * b + r = a
                    /\ r < (IF b < 0 THEN -b ELSE b) /\ -r < (IF b < 0 THEN -b ELSE b)
                    /\ r # 0 => (r < 0) = (a < 0)

(* The byte of the program at an address, and its word there.              *)
UserByte(a) == mainMemory[Translate(a, 1, FALSE).physAddr]
UserWord(a) ==
    UserByte(a) + 2 ^ ByteBits * UserByte(a + 1)
        + 2 ^ (2 * ByteBits) * UserByte(a + 2) + 2 ^ (3 * ByteBits) * UserByte(a + 3)

(* The last two instructions were the two halves of an unaligned access.   *)
Pair(left, right) ==
    /\ Len(recent) = 2
    /\ {recent[1].opCode, recent[2].opCode} = {left, right}
    /\ recent[1].rt = recent[2].rt /\ recent[1].rt # 0
    /\ LET l == IF recent[1].opCode = left THEN recent[1] ELSE recent[2]
           r == IF recent[1].opCode = left THEN recent[2] ELSE recent[1]
       IN l.at = r.at + 3

(* A word at any address can be moved in two instructions, in either       *)
(* order: LWL and LWR one behind the other load it whole, because the      *)
(* second takes over what the first has loaded and not yet written, and    *)
(* SWL and SWR store the register and nothing around it.                   *)
UnalignedWords ==
    LET a == IF recent[1].at < recent[2].at THEN recent[1].at ELSE recent[2].at
    IN /\ Pair("LWL", "LWR") =>
            registers[LoadReg] = recent[1].rt /\ registers[LoadValueReg] = UserWord(a)
       /\ Pair("SWL", "SWR") => UserWord(a) = registers[recent[1].rt]

(* The registers with the load that is on its way.                         *)
Arrived ==
    [registers EXCEPT ![registers[LoadReg]] = registers[LoadValueReg],
                      ![LoadReg] = 0, ![LoadValueReg] = 0, ![0] = 0]

(* What the processor is, for a program that keeps to the rules.           *)
Plain == INSTANCE PlainMips WITH registers <- Arrived

=============================================================================
