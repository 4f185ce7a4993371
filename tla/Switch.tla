------------------------------- MODULE Switch -------------------------------
(***************************************************************************)
(* The context switch on the x86: SWITCH and ThreadRoot of threads/        *)
(* switch.S, StackAllocate, SaveUserState and RestoreUserState of threads/ *)
(* thread.cc, and the part of Scheduler::Run around SWITCH.                *)
(*                                                                         *)
(* Which thread is next is left open (module Scheduler has that).  Here a  *)
(* thread is its registers and the words of its stack: kernel code calls   *)
(* functions, which save the registers that they must preserve on the      *)
(* stack and then use them, and calls SWITCH at any point.  Words are      *)
(* strings: values, names of functions and return addresses.  A stack is   *)
(* the sequence of its words, the oldest first, and esp a thread whose     *)
(* stack it is with the number of words up to the top.                     *)
(***************************************************************************)
EXTENDS Integers, Sequences

CONSTANTS
    Threads, Main,      \* Main runs on the stack of the host
    Values,             \* what kernel code puts into registers
    Func, Arg,          \* functions: what a thread is forked with
    MaxUser             \* bound on the steps of the user program

(* ThreadBegin and ThreadFinish are static functions of thread.cc, so that *)
(* no thread is forked with one of them.                                   *)
ASSUME SwitchAssumption ==
    /\ Main \in Threads /\ MaxUser \in Nat
    /\ \A t \in Threads : Func[t] \notin {"ThreadBegin", "ThreadFinish"}

VARIABLES
    cpu, esp, pc,       \* the registers of the host
    stacks,             \* the words of the stacks
    machineState,       \* the registers saved in a thread, esp and pc included
    status,             \* "new", "live", "finishing" or "deleted"
    currentThread,
    toBeDestroyed,      \* a set of at most one thread
    machine,            \* the registers of the user program, a number
    userRegisters,      \* what SaveUserState has saved of them
    returning,          \* just back from SWITCH
    calls,              \* what ThreadRoot has called for a thread
    expect,             \* registers and stack of a thread when it called SWITCH
    user                \* how far the user program has come

host == <<cpu, esp, pc, stacks>>
ghosts == <<calls, expect, user>>
switchVars == <<host, machineState, status, currentThread, toBeDestroyed, machine,
                userRegisters, returning, ghosts>>

(* Registers that a function must preserve, and those it may destroy.      *)
Preserved == {"ebx", "esi", "edi", "ebp"}
Scratch == {"eax", "ecx", "edx"}
Registers == Preserved \cup Scratch

(* Kernel code that can call SWITCH, with and without a frame of its own.  *)
Bodies == {"main", "Begin", "func", "Finish"}
Framed == [b \in Bodies |-> CASE b = "main" -> "main+" [] b = "Begin" -> "Begin+"
                              [] b = "func" -> "func+" [] b = "Finish" -> "Finish+"]
InBody == pc \in Bodies \cup {Framed[b] : b \in Bodies}

Stack == stacks[esp.of]
Word(n) == Stack[esp.depth - n]                 \* 4n(%esp)
Pushed(words) == [stacks EXCEPT ![esp.of] = SubSeq(@, 1, esp.depth) \o words]
Moved(n) == [esp EXCEPT !.depth = @ + n]

Nulls == [r \in Registers |-> "NULL"]
NullState == [regs |-> Nulls, pc |-> "NULL", esp |-> [of |-> Main, depth |-> 0]]

----------------------------------------------------------------------------
SwitchInit ==
    /\ cpu = Nulls /\ esp = [of |-> Main, depth |-> 1] /\ pc = "main"
    /\ stacks = [t \in Threads |-> IF t = Main THEN <<"host">> ELSE <<>>]
    /\ machineState = [t \in Threads |-> NullState]
    /\ status = [t \in Threads |-> IF t = Main THEN "live" ELSE "new"]
    /\ currentThread = Main
    /\ toBeDestroyed = {}
    /\ machine = 0 /\ userRegisters = [t \in Threads |-> 0]
    /\ returning = FALSE
    /\ calls = [t \in Threads |-> <<>>]
    /\ expect = [t \in Threads |-> [regs |-> Nulls, pc |-> "NULL", stack |-> <<>>]]
    /\ user = 0

(* Mutant: the startup function is put where the comment of ThreadRoot     *)
(* says it is, in eax.                                                     *)
StackAllocateInEax(t) ==
    [stack |-> <<"safe", "safe", "safe", "safe", "ThreadRoot">>,
     state |-> [regs |-> [Nulls EXCEPT !["eax"] = "ThreadBegin", !["esi"] = Func[t],
                                       !["edx"] = Arg[t], !["edi"] = "ThreadFinish"],
                pc |-> "ThreadRoot", esp |-> [of |-> t, depth |-> 5]]]

(* Thread::StackAllocate: four words to be on the safe side, ThreadRoot as *)
(* the address to return to, and the registers that ThreadRoot expects.    *)
StackAllocate(t) ==
    [stack |-> <<"safe", "safe", "safe", "safe", "ThreadRoot">>,
     state |-> [regs |-> [Nulls EXCEPT !["ecx"] = "ThreadBegin", !["esi"] = Func[t],
                                       !["edx"] = Arg[t], !["edi"] = "ThreadFinish"],
                pc |-> "ThreadRoot", esp |-> [of |-> t, depth |-> 5]]]

Fork(t) ==
    /\ InBody /\ ~ returning /\ status[t] = "new"
    /\ status' = [status EXCEPT ![t] = "live"]
    /\ stacks' = [stacks EXCEPT ![t] = StackAllocate(t).stack]
    /\ machineState' = [machineState EXCEPT ![t] = StackAllocate(t).state]
    /\ UNCHANGED <<cpu, esp, pc, currentThread, toBeDestroyed, machine, userRegisters,
                   returning, ghosts>>

----------------------------------------------------------------------------
(* Kernel code: a function saves the registers that it must preserve and   *)
(* uses them, and restores them before it returns.                         *)
Prologue(v) ==
    /\ pc \in Bodies /\ ~ returning
    /\ stacks' = Pushed(<<cpu["ebp"], cpu["ebx"], cpu["esi"], cpu["edi"]>>)
    /\ esp' = Moved(4)
    /\ cpu' = [r \in Registers |-> v]
    /\ pc' = Framed[pc]
    /\ UNCHANGED <<machineState, status, currentThread, toBeDestroyed, machine,
                   userRegisters, returning, ghosts>>

Epilogue ==
    /\ \E b \in Bodies : pc = Framed[b] /\ pc' = b
    /\ ~ returning
    /\ cpu' = [cpu EXCEPT !["edi"] = Word(0), !["esi"] = Word(1), !["ebx"] = Word(2),
                          !["ebp"] = Word(3)]
    /\ esp' = Moved(-4)
    /\ UNCHANGED <<stacks, machineState, status, currentThread, toBeDestroyed, machine,
                   userRegisters, returning, ghosts>>

(* The user program of Main takes a step.                                  *)
UserStep ==
    /\ pc = "main" /\ ~ returning /\ machine < MaxUser
    /\ machine' = machine + 1 /\ user' = user + 1
    /\ UNCHANGED <<host, machineState, status, currentThread, toBeDestroyed,
                   userRegisters, returning, calls, expect>>

----------------------------------------------------------------------------
(* Scheduler::CheckToBeDestroyed.                                          *)
CheckToBeDestroyed(words) ==
    /\ toBeDestroyed' = {}
    /\ status' = [t \in Threads |-> IF t \in toBeDestroyed THEN "deleted" ELSE status[t]]
    /\ stacks' = [t \in Threads |-> IF t \in toBeDestroyed THEN <<>> ELSE words[t]]

(* ThreadRoot, up to its first call: the argument is pushed before the     *)
(* register that holds it can be destroyed.  Begin, the function and       *)
(* Finish are called through the registers that SWITCH has loaded.  Begin  *)
(* first deletes a thread that finished.                                   *)
Called(f) == CASE f = "ThreadBegin" -> "Begin" [] f = "ThreadFinish" -> "Finish"
               [] OTHER -> "func"

CallStartup ==
    /\ pc = "ThreadRoot"
    /\ esp' = Moved(3)
    /\ cpu' = [cpu EXCEPT !["ebp"] = "frame"]
    /\ pc' = Called(cpu["ecx"])
    /\ CheckToBeDestroyed(Pushed(<<cpu["ebp"], cpu["edx"], "ThreadRoot2">>))
    /\ calls' = [calls EXCEPT ![currentThread] = Append(@, <<cpu["ecx"]>>)]
    /\ UNCHANGED <<machineState, currentThread, machine, userRegisters, returning,
                   expect, user>>

CallInitial ==
    /\ pc = "ThreadRoot2"
    /\ stacks' = Pushed(<<"ThreadRoot3">>)
    /\ esp' = Moved(1)
    /\ pc' = Called(cpu["esi"])
    /\ calls' = [calls EXCEPT ![currentThread] = Append(@, <<cpu["esi"], Word(0)>>)]
    /\ UNCHANGED <<cpu, machineState, status, currentThread, toBeDestroyed, machine,
                   userRegisters, returning, expect, user>>

CallWhenDone ==
    /\ pc = "ThreadRoot3"
    /\ stacks' = Pushed(<<"ThreadRoot4">>)
    /\ esp' = Moved(1)
    /\ pc' = Called(cpu["edi"])
    /\ calls' = [calls EXCEPT ![currentThread] = Append(@, <<cpu["edi"]>>)]
    /\ UNCHANGED <<cpu, machineState, status, currentThread, toBeDestroyed, machine,
                   userRegisters, returning, expect, user>>

(* Begin and the function return to ThreadRoot.                            *)
Return ==
    /\ pc \in {"Begin", "func"} /\ ~ returning
    /\ pc' = Word(0) /\ esp' = Moved(-1)
    /\ UNCHANGED <<cpu, stacks, machineState, status, currentThread, toBeDestroyed,
                   machine, userRegisters, returning, ghosts>>

----------------------------------------------------------------------------
(* What SWITCH stores of the calling thread: all registers, and the        *)
(* address to return to, which is on top of the stack.                     *)
Saved(address) ==
    [regs |-> cpu, pc |-> address, esp |-> Moved(3)]

(* Mutant: the registers of the user program are not saved.                *)
SaveUserStateNot(t) == userRegisters

SaveUserState(t) == IF t = Main THEN [userRegisters EXCEPT ![t] = machine] ELSE userRegisters

RestoreUserState(t) == IF t = Main THEN userRegisters[t] ELSE machine

(* Scheduler::Run up to and including SWITCH: the user program's registers *)
(* are saved, the call pushes both threads and the return address, SWITCH  *)
(* stores the registers of the old thread and loads those of the next one. *)
(* Its last store does not replace the return address but the word below   *)
(* it, 4(%esp), and the return is through the address found on the stack.  *)
Run(next, finishing) ==
    LET old == currentThread
        called == Pushed(<<next, old, pc>>)
        saved == [machineState EXCEPT ![old] = Saved(pc)]
        loaded == saved[next]
        top == loaded.esp.depth
        of == loaded.esp.of
    IN  /\ InBody /\ ~ returning
        /\ next # old /\ status[next] = "live"
        /\ pc \in {"Finish", "Finish+"} <=> finishing
        /\ status' = IF finishing THEN [status EXCEPT ![old] = "finishing"] ELSE status
        /\ toBeDestroyed' = IF finishing THEN {old} ELSE toBeDestroyed
        /\ userRegisters' = SaveUserState(old)
        /\ currentThread' = next
        /\ machineState' = saved
        /\ cpu' = loaded.regs
        /\ stacks' = [called EXCEPT ![of][top - 1] = loaded.pc]
        /\ pc' = called[of][top]
        /\ esp' = [of |-> of, depth |-> top - 1]
        /\ returning' = (pc' # "ThreadRoot")
        /\ expect' = [expect EXCEPT ![old] =
                         [regs |-> [r \in Preserved |-> cpu[r]], pc |-> pc,
                          stack |-> SubSeq(Stack, 1, esp.depth)]]
        /\ UNCHANGED <<machine, calls, user>>

(* The rest of Scheduler::Run, back in the thread that called it: the      *)
(* arguments of SWITCH are dropped, a finished thread and its stack are    *)
(* deleted, the user program's registers are loaded again.                 *)
BackInRun ==
    /\ returning
    /\ returning' = FALSE
    /\ esp' = Moved(-2)
    /\ CheckToBeDestroyed(stacks)
    /\ machine' = RestoreUserState(currentThread)
    /\ UNCHANGED <<cpu, pc, machineState, currentThread, userRegisters, ghosts>>

----------------------------------------------------------------------------
SwitchNext ==
    \/ \E t \in Threads : Fork(t)
    \/ \E v \in Values : Prologue(v)
    \/ Epilogue
    \/ UserStep
    \/ CallStartup
    \/ CallInitial
    \/ CallWhenDone
    \/ Return
    \/ \E t \in Threads, finishing \in BOOLEAN : Run(t, finishing)
    \/ BackInRun

SwitchSpec == SwitchInit /\ [][SwitchNext]_switchVars

----------------------------------------------------------------------------
(* A thread that SWITCH returns to finds what it left: the registers that  *)
(* a function preserves, its place in the code and, once the arguments of  *)
(* SWITCH are dropped, every word of its stack, whatever other threads     *)
(* have done in between; and the user program's registers are those that   *)
(* its last step left.                                                     *)
ResumesUnchanged ==
    /\ returning =>
          LET was == expect[currentThread]
          IN  /\ \A r \in Preserved : cpu[r] = was.regs[r]
              /\ pc = was.pc
              /\ esp = [of |-> currentThread, depth |-> Len(was.stack) + 2]
              /\ SubSeq(Stack, 1, Len(was.stack)) = was.stack
    /\ currentThread = Main /\ ~ returning => machine = user

(* A forked thread calls ThreadBegin, the function it was forked with on   *)
(* the argument it was forked with, and ThreadFinish, in this order and    *)
(* once each, wherever it was switched out; and it never runs on the stack *)
(* of another thread.                                                      *)
RunsItsFunction ==
    /\ \A t \in Threads :
          calls[t] = SubSeq(<< <<"ThreadBegin">>, <<Func[t], Arg[t]>>, <<"ThreadFinish">> >>,
                            1, Len(calls[t]))
    /\ esp.of = currentThread /\ status[currentThread] = "live"

=============================================================================
