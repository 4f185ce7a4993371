----------------------------- MODULE Scheduler -----------------------------
(***************************************************************************)
(* The NachOS thread scheduler: threads/scheduler.cc, the life cycle of a  *)
(* thread in threads/thread.cc, and the time slice of threads/alarm.cc.    *)
(*                                                                         *)
(* The kernel is a uniprocessor.  Interrupts are its only source of        *)
(* preemption, and they are delivered only by Interrupt::OneTick, when the *)
(* interrupt level goes from IntOff to IntOn.  A step of this module is    *)
(* the code between two such points, cut once more at SWITCH, where one    *)
(* stack stops and another one goes on with interrupts still off.          *)
(*                                                                         *)
(* pc[t] says where the stack of t stands:                                 *)
(*   "none"     not allocated, or allocated and not yet forked             *)
(*   "begin"    forked, never run: it starts in ThreadRoot -> Begin        *)
(*   "body"     running its own code, interrupts on                        *)
(*   "yielded"  inside the SWITCH of Run, called from Yield                *)
(*   "slept"    inside the SWITCH of Run, called from Sleep(FALSE)         *)
(*   "dead"     inside the SWITCH of Run, called from Sleep(TRUE)          *)
(*   "sleep"    in the Idle loop of Sleep(FALSE)                           *)
(*   "finish"   in the Idle loop of Sleep(TRUE)                            *)
(*   "woken"    Sleep(FALSE) has returned, interrupts are still off        *)
(***************************************************************************)
EXTENDS Naturals, SequencesExt

CONSTANTS
    Threads,      \* the Thread objects that can be allocated
    MainThread,   \* the thread that runs main(); it never finishes
    NULL

ASSUME ThreadsAssumption == MainThread \in Threads /\ NULL \notin Threads

VARIABLES
    currentThread,   \* kernel->currentThread
    readyList,       \* Scheduler::readyList
    toBeDestroyed,   \* Scheduler::toBeDestroyed
    status,          \* Thread::status of every thread, "NONE" if unallocated
    pc,              \* where the stack of every thread stands
    level            \* Interrupt::level

schedVars == <<currentThread, readyList, toBeDestroyed, status, pc, level>>

Statuses == {"NONE", "JUST_CREATED", "RUNNING", "READY", "BLOCKED"}
Places == {"none", "begin", "body", "yielded", "slept", "dead",
           "sleep", "finish", "woken"}

----------------------------------------------------------------------------
(* Kernel::Initialize makes the calling code the main thread, and its last *)
(* act enables interrupts.                                                 *)
SchedInit ==
    /\ currentThread = MainThread
    /\ readyList = <<>>
    /\ toBeDestroyed = NULL
    /\ status = [t \in Threads |->
                    IF t = MainThread THEN "RUNNING" ELSE "NONE"]
    /\ pc = [t \in Threads |-> IF t = MainThread THEN "body" ELSE "none"]
    /\ level = "IntOn"

(* The current thread runs its own code and has interrupts enabled.        *)
Running == pc[currentThread] = "body"

(* Scheduler::ReadyToRun *)
ReadyToRun(t) ==
    /\ status' = [status EXCEPT ![t] = "READY"]
    /\ readyList' = Append(readyList, t)

----------------------------------------------------------------------------
(* Scheduler::FindNextToRun has found the head of the ready list, and      *)
(* Scheduler::Run switches to it: "old" is the status of the thread that   *)
(* gives up the processor, "ready" the list once the head is taken off,    *)
(* "where" the place at which the stack of the old thread is left.         *)
Run(old, ready, where) ==
    LET self == currentThread
        next == Head(readyList)
    IN  /\ readyList' = ready
        /\ currentThread' = next
        /\ status' = [status EXCEPT ![self] = old, ![next] = "RUNNING"]
        /\ pc' = [pc EXCEPT ![self] = where]
        /\ toBeDestroyed' = IF where = "dead" THEN self ELSE toBeDestroyed
        /\ level' = "IntOff"

(* Thread::Sleep, entered with interrupts off.  With nobody ready it stays *)
(* in the Idle loop, otherwise it switches at once.                        *)
Sleep(finishing) ==
    \/ /\ readyList = <<>>
       /\ status' = [status EXCEPT ![currentThread] = "BLOCKED"]
       /\ pc' = [pc EXCEPT ![currentThread] =
                    IF finishing THEN "finish" ELSE "sleep"]
       /\ level' = "IntOff"
       /\ UNCHANGED <<currentThread, readyList, toBeDestroyed>>
    \/ /\ readyList # <<>>
       /\ Run("BLOCKED", Tail(readyList),
              IF finishing THEN "dead" ELSE "slept")

(* Mutant: CheckToBeDestroyed deletes the thread and keeps the pointer.    *)
CheckKeepsPointer(here) ==
    LET gone == {toBeDestroyed} \ {NULL}
    IN  /\ status' = [t \in Threads |->
                         IF t \in gone THEN "NONE" ELSE status[t]]
        /\ pc' = [t \in Threads |-> IF t \in gone THEN "none"
                                    ELSE IF t = currentThread THEN here
                                    ELSE pc[t]]
        /\ UNCHANGED toBeDestroyed

(* Scheduler::CheckToBeDestroyed, run on the stack of the next thread: the *)
(* place "here" is where that thread goes on.                              *)
CheckToBeDestroyed(here) ==
    LET gone == {toBeDestroyed} \ {NULL}
    IN  /\ status' = [t \in Threads |->
                         IF t \in gone THEN "NONE" ELSE status[t]]
        /\ pc' = [t \in Threads |-> IF t \in gone THEN "none"
                                    ELSE IF t = currentThread THEN here
                                    ELSE pc[t]]
        /\ toBeDestroyed' = NULL

----------------------------------------------------------------------------
(* Thread::Thread *)
NewThread(t) ==
    /\ Running
    /\ status[t] = "NONE"
    /\ status' = [status EXCEPT ![t] = "JUST_CREATED"]
    /\ UNCHANGED <<currentThread, readyList, toBeDestroyed, pc, level>>

(* Thread::Fork: StackAllocate points the new stack at ThreadRoot.         *)
Fork(t) ==
    /\ Running
    /\ status[t] = "JUST_CREATED"
    /\ ReadyToRun(t)
    /\ pc' = [pc EXCEPT ![t] = "begin"]
    /\ UNCHANGED <<currentThread, toBeDestroyed, level>>

(* Thread::Begin, the first thing a new thread does.                       *)
Begin ==
    /\ pc[currentThread] = "begin"
    /\ CheckToBeDestroyed("body")
    /\ level' = "IntOn"
    /\ UNCHANGED <<currentThread, readyList>>

(* Mutant: Yield runs the next thread without ReadyToRun(this).            *)
YieldForgetsSelf ==
    /\ Running
    /\ readyList # <<>>
    /\ Run("READY", Tail(readyList), "yielded")

(* Mutant: Yield puts the thread back in front of the list.                *)
YieldToFront ==
    /\ Running
    /\ readyList # <<>>
    /\ Run("READY", <<currentThread>> \o Tail(readyList), "yielded")

(* Thread::Yield, called by the thread or by OneTick after Alarm::CallBack *)
(* asked for it.  With nobody ready it changes nothing.                    *)
Yield ==
    /\ Running
    /\ readyList # <<>>
    /\ Run("READY", Append(Tail(readyList), currentThread), "yielded")

(* Scheduler::Run after SWITCH, when Yield was suspended in it.            *)
YieldReturns ==
    /\ pc[currentThread] = "yielded"
    /\ CheckToBeDestroyed("body")
    /\ level' = "IntOn"
    /\ UNCHANGED <<currentThread, readyList>>

(* Scheduler::Run after SWITCH, when Sleep was suspended in it.            *)
SleepReturns ==
    /\ pc[currentThread] = "slept"
    /\ CheckToBeDestroyed("woken")
    /\ UNCHANGED <<currentThread, readyList, level>>

(* A thread blocks (Sleep(FALSE)), for the first time or again after it    *)
(* was woken; interrupts stay off between the two.                         *)
Block ==
    /\ Running \/ pc[currentThread] = "woken"
    /\ Sleep(FALSE)

(* What the thread was waiting for is there: it enables interrupts.        *)
Resume ==
    /\ pc[currentThread] = "woken"
    /\ pc' = [pc EXCEPT ![currentThread] = "body"]
    /\ level' = "IntOn"
    /\ UNCHANGED <<currentThread, readyList, toBeDestroyed, status>>

(* Thread::Finish, the end of every forked thread.                         *)
Finish ==
    /\ Running
    /\ currentThread # MainThread
    /\ Sleep(TRUE)

(* The current thread, or an interrupt handler on top of it, makes a       *)
(* thread ready that is blocked in Sleep(FALSE).                           *)
Wake(t) ==
    /\ Running
    /\ status[t] = "BLOCKED"
    /\ pc[t] \in {"sleep", "slept"}
    /\ ReadyToRun(t)
    /\ UNCHANGED <<currentThread, toBeDestroyed, pc, level>>

(* A handler run by Interrupt::Idle makes a blocked thread ready; it may   *)
(* be the very thread in whose Sleep the processor idles.  One call of     *)
(* CheckIfDue drains every interrupt that is due.                          *)
IdleWake(t) ==
    /\ pc[currentThread] \in {"sleep", "finish"}
    /\ status[t] = "BLOCKED"
    /\ pc[t] \in {"sleep", "slept"}
    /\ ReadyToRun(t)
    /\ UNCHANGED <<currentThread, toBeDestroyed, pc, level>>

(* The Idle loop of Sleep has found a thread to run.                       *)
IdleReturns ==
    /\ pc[currentThread] \in {"sleep", "finish"}
    /\ readyList # <<>>
    /\ Run(status[currentThread], Tail(readyList),
           IF pc[currentThread] = "finish" THEN "dead" ELSE "slept")

----------------------------------------------------------------------------
SchedNext ==
    \/ \E t \in Threads :
          NewThread(t) \/ Fork(t) \/ Wake(t) \/ IdleWake(t)
    \/ Begin \/ Yield \/ YieldReturns \/ SleepReturns
    \/ Block \/ Resume \/ Finish \/ IdleReturns

SchedSafety == SchedInit /\ [][SchedNext]_schedVars

----------------------------------------------------------------------------
(* Every variable has its type.                                            *)
SchedTypeOK ==
    /\ currentThread \in Threads
    /\ readyList \in Seq(Threads)
    /\ toBeDestroyed \in Threads \cup {NULL}
    /\ status \in [Threads -> Statuses]
    /\ pc \in [Threads -> Places]
    /\ level \in {"IntOn", "IntOff"}

(* A thread is on the ready list exactly when its status is READY, and     *)
(* then once: the ASSERT(!IsInList(item)) of List::Append cannot fail in   *)
(* ReadyToRun, and no READY thread is forgotten.                           *)
ReadyExactlyOnce ==
    /\ IsInjective(readyList)
    /\ \A t \in Threads : status[t] = "READY" <=> t \in ToSet(readyList)

(* The processor runs one thread.  Only currentThread can be RUNNING, and  *)
(* it is, except while it idles in its own Sleep.  Interrupts are on       *)
(* exactly while it runs its own code, so that the assertions of           *)
(* ReadyToRun, FindNextToRun, Run and Sleep about the level hold.          *)
OneThreadRuns ==
    /\ \A t \in Threads : status[t] = "RUNNING" => t = currentThread
    /\ status[currentThread] # "RUNNING"
            => pc[currentThread] \in {"sleep", "finish"}
    /\ level = "IntOn" <=> Running

(* A thread that has finished is never run again; until the next thread    *)
(* deletes it, it is the one toBeDestroyed names.  So no finished thread   *)
(* leaks, the assertion toBeDestroyed == NULL of Run holds when another    *)
(* thread finishes, and Thread::~Thread never deletes the current thread.  *)
FinishedFreedOnce ==
    /\ \A t \in Threads : pc[t] = "dead" <=> t = toBeDestroyed
    /\ toBeDestroyed # NULL =>
          /\ toBeDestroyed # currentThread
          /\ status[toBeDestroyed] = "BLOCKED"
          /\ pc[currentThread] \in {"begin", "yielded", "slept"}

(* Where a stack stands agrees with the status of its thread: what the     *)
(* scheduler can dispatch (READY) has a stack that some code of Run or     *)
(* ThreadRoot left, and only the current thread is outside SWITCH.         *)
PlaceMatchesStatus ==
    \A t \in Threads :
        /\ status[t] \in {"NONE", "JUST_CREATED"} <=> pc[t] = "none"
        /\ status[t] = "READY" =>
              pc[t] \in {"begin", "yielded", "slept", "sleep"}
        /\ status[t] = "RUNNING" =>
              pc[t] \in {"begin", "yielded", "slept", "woken", "body"}
        /\ status[t] = "BLOCKED" =>
              pc[t] \in {"sleep", "slept", "finish", "dead"}
        /\ pc[t] \in {"body", "woken", "sleep", "finish"} =>
              t = currentThread

(* Every ready thread gets the processor, however the others behave:       *)
(* FIFO order and the time slice exclude starvation.                       *)
ReadyThreadRuns ==
    \A t \in Threads : status[t] = "READY" ~> status[t] = "RUNNING"

=============================================================================
