---------------------------- MODULE SystemCalls ----------------------------
(***************************************************************************)
(* ExceptionHandler and ProcessPCRegister of userprog/exception.cc: which  *)
(* functions a system call runs, and where the program goes on afterwards. *)
(* The calls on files are those of FileCalls; of the calls that use the    *)
(* console and the arithmetic only the register that they leave is kept    *)
(* (see ConsoleCalls for the rest).                                        *)
(*                                                                         *)
(* In the code some cases have no "return": they go on with the case that  *)
(* follows.  Exit, Exec and Join end in Create in that way, and            *)
(* ThreadFork, ThreadYield, ExecV, ThreadExit and ThreadJoin in Halt.      *)
(***************************************************************************)
EXTENDS FileCalls

CONSTANT Results        \* numbers and characters that are read or added

VARIABLES
    call,       \* the system call, or other exception, handled last
    pcs         \* PrevPCReg, PCReg and NextPCReg, relative to its instruction

sysVars == <<vars, call, pcs>>

----------------------------------------------------------------------------
(* Mutant: NextPCReg is set from the PCReg read at the beginning.          *)
ProcessPCRegisterStale(regs) ==
    [prev |-> regs.pc, pc |-> regs.pc + 4, next |-> regs.pc + 4]

ProcessPCRegister(regs) ==
    [prev |-> regs.pc, pc |-> regs.pc + 4, next |-> regs.pc + 8]

AtCall == [prev |-> -4, pc |-> 0, next |-> 4]

(* The calls without a return, with the calls of ProcessPCRegister that    *)
(* are made on the way from them to the case that has one.                 *)
FallsTo ==
    [Exit |-> 3, Exec |-> 2, Join |-> 1, ThreadFork |-> 5, ThreadYield |-> 4,
     ExecV |-> 3, ThreadExit |-> 2, ThreadJoin |-> 1]

OnTheWay(type) == IF type \in DOMAIN FallsTo THEN FallsTo[type] ELSE 0

Processed(times) ==
    LET regs[k \in 0..times] ==
            IF k = 0 THEN AtCall ELSE ProcessPCRegister(regs[k - 1])
    IN regs[times]

(* The end of a case: ProcessPCRegister and return.  A call that stopped   *)
(* Nachos does not get there.                                              *)
Returns(type) ==
    /\ call' = type
    /\ pcs' = Processed(OnTheWay(type) + (IF running' THEN 1 ELSE 0))

SysInit == Init /\ call = "" /\ pcs = AtCall

(* The case SC_Create, and those that fall through to it.                  *)
CallCreate(type, name) == Create(name) /\ Returns(type)

CallRemove(name) == Remove(name) /\ Returns("Remove")
CallOpen(name, accessType) == Open(name, accessType) /\ Returns("Open")
CallRead(length, fd) == Read(length, fd) /\ Returns("Read")
CallReadConsole(chars) == ReadConsole(chars) /\ Returns("Read")
CallWrite(bytes, fd) == Write(bytes, fd) /\ Returns("Write")
CallSeek(position, fd) == Seek(position, fd) /\ Returns("Seek")
CallClose(fd) == Close(fd) /\ Returns("Close")

(* The calls that leave only a result in r2.                               *)
Gives(type, result) ==
    /\ running
    /\ r2' = result /\ got' = <<>>
    /\ UNCHANGED <<dir, data, unix, fdTable, held, running>>
    /\ Returns(type)

SysAdd(op1, op2) == op1 + op2

CallAdd(op1, op2) == Gives("Add", SysAdd(op1, op2))
CallReadNum(number) == Gives("ReadNum", number)
CallRandomNum(number) == Gives("RandomNum", number)
CallReadChar(char) == Gives("ReadChar", char)

(* The calls that leave r2 as it was, with the code of the call.           *)
GivesNothing(type) == Gives(type, r2)

CallPrintNum == GivesNothing("PrintNum")
CallPrintChar == GivesNothing("PrintChar")
CallPrintString == GivesNothing("PrintString")
CallReadString == GivesNothing("ReadString")

(* The cases that halt the machine: Halt and those that fall through to    *)
(* it, a length that SystemCallReadString refuses, a call that the switch  *)
(* does not know (ASSERTNOTREACHED), and every other exception.            *)
Stops(type) ==
    /\ running
    /\ running' = FALSE
    /\ UNCHANGED <<dir, data, unix, fdTable, r2, got, held>>
    /\ Returns(type)

ToCreate == {"Exit", "Exec", "Join", "Create"}
ToStop == {"ThreadFork", "ThreadYield", "ExecV", "ThreadExit", "ThreadJoin",
           "Halt", "ReadString", "unknown", "PageFault", "ReadOnly", "BusError",
           "AddressError", "Overflow", "IllegalInstr"}

SysNext ==
    \/ \E name \in Names \cup {Empty} :
          \/ \E type \in ToCreate : CallCreate(type, name)
          \/ CallRemove(name)
          \/ \E accessType \in 0..2 : CallOpen(name, accessType)
    \/ \E fd \in -1..NumSlots :
          \/ CallClose(fd)
          \/ \E length \in 0..MaxLength : CallRead(length, fd)
          \/ \E bytes \in Data : CallWrite(bytes, fd)
          \/ \E position \in -1..(MaxLength + 1) : CallSeek(position, fd)
    \/ \E chars \in Data : CallReadConsole(chars)
    \/ \E op1, op2 \in Results : CallAdd(op1, op2)
    \/ \E number \in Results : CallReadNum(number) \/ CallRandomNum(number)
    \/ \E char \in Results : CallReadChar(char)
    \/ CallPrintNum \/ CallPrintChar \/ CallPrintString \/ CallReadString
    \/ \E type \in ToStop : Stops(type)

SysSpec == SysInit /\ [][SysNext]_sysVars

----------------------------------------------------------------------------
(* A call that has an implementation goes back to the instruction behind   *)
(* the system call, and then to the one behind that ("don't forget to      *)
(* increment the pc before returning"): all three registers move together, *)
(* once, whatever way the handler took and whatever it returned.           *)
CallsReturnBehind ==
    running /\ call \notin DOMAIN FallsTo \cup {""} =>
        pcs = [prev |-> 0, pc |-> 4, next |-> 8]

=============================================================================
