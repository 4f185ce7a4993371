----------------------------- MODULE PlainMips ------------------------------
(***************************************************************************)
(* A MIPS processor as an assembler programmer sees it who keeps to the    *)
(* rule of the load delay slot: what an instruction loads is in the        *)
(* register when the instruction is over, register 0 is 0, and the kernel  *)
(* answers a system call in register 2.                                    *)
(***************************************************************************)
EXTENDS Instructions

CONSTANTS
    Text,           \* the instructions of which programs consist
    Results         \* what the kernel answers

VARIABLES
    running,        \* FALSE once the kernel has stopped the program
    executed        \* the instruction executed last

PlainInit ==
    /\ registers \in [Registers -> Words] /\ registers[0] = 0
    /\ registers[LoadReg] = 0 /\ registers[LoadValueReg] = 0
    /\ running = TRUE /\ executed = NoInstruction

PlainInstruction(i) ==
    LET out == Execute(i)
    IN /\ running /\ out.exception = "None"
       /\ registers' = [out.regs EXCEPT
                           ![out.loadReg] = out.loadValue, ![0] = 0,
                           ![PrevPCReg] = registers[PCReg],
                           ![PCReg] = registers[NextPCReg],
                           ![NextPCReg] = out.pcAfter]
       /\ mainMemory' = out.memory
       /\ executed' = i
       /\ UNCHANGED running

(* The program goes on behind the system call.                             *)
PlainSyscall(i, result) ==
    /\ running /\ Execute(i).exception = "Syscall"
    /\ registers' = [registers EXCEPT
                        ![2] = result, ![BadVAddrReg] = 0,
                        ![PrevPCReg] = registers[PCReg],
                        ![PCReg] = ToWord(registers[PCReg] + 4),
                        ![NextPCReg] = ToWord(registers[PCReg] + 8)]
    /\ executed' = i
    /\ UNCHANGED <<mainMemory, running>>

(* An exception ends the run; the registers of the program are as they     *)
(* were before the instruction.                                            *)
PlainStop(badVAddr) ==
    /\ running /\ running' = FALSE
    /\ registers' = [registers EXCEPT ![BadVAddrReg] = badVAddr]
    /\ UNCHANGED <<mainMemory, executed>>

PlainNext ==
    \/ \E raw \in Text : \/ PlainInstruction(Decode(raw))
                         \/ \E result \in Results : PlainSyscall(Decode(raw), result)
    \/ \E badVAddr \in Words : PlainStop(badVAddr)

PlainSpec == PlainInit /\ [][PlainNext]_<<mainMemory, registers, running, executed>>

=============================================================================
