----------------------------- MODULE Semaphores -----------------------------
(***************************************************************************)
(* Counting semaphores (class Semaphore of threads/synch.cc) on top of the *)
(* thread scheduler.  P and V are the only callers of Thread::Sleep(FALSE) *)
(* and, with Fork and Yield, of Scheduler::ReadyToRun.  V is also what     *)
(* every interrupt handler of the kernel calls (SynchDisk, SynchConsole,   *)
(* PostOffice); a handler runs on the stack of whatever thread is current, *)
(* in OneTick or in the Idle loop.                                         *)
(***************************************************************************)
EXTENDS Scheduler, FiniteSets

CONSTANTS
    Sems,         \* the semaphores
    InitialValue, \* Semaphore::Semaphore's argument, per semaphore
    MaxValue      \* bound: V is not called on a semaphore at this value

ASSUME SemsAssumption ==
    /\ IsFiniteSet(Threads)
    /\ NULL \notin Sems
    /\ InitialValue \in [Sems -> Nat]
    /\ MaxValue \in Nat

VARIABLES
    value,       \* Semaphore::value
    queue,       \* Semaphore::queue, the threads waiting in P
    waitingFor   \* the semaphore whose P a thread has entered and not left

semVars == <<value, queue, waitingFor>>
vars == <<schedVars, semVars>>

Init ==
    /\ SchedInit
    /\ value = InitialValue
    /\ queue = [s \in Sems |-> <<>>]
    /\ waitingFor = [t \in Threads |-> NULL]

----------------------------------------------------------------------------
(* Semaphore::P, one evaluation of its while condition with interrupts     *)
(* off.  A zero value puts the caller on the queue and to sleep;           *)
(* otherwise the value is taken and the interrupt level restored.  A       *)
(* thread woken from Sleep evaluates the condition again.                  *)
PTest(s) ==
    LET self == currentThread
    IN  \/ /\ value[s] = 0
           /\ queue' = [queue EXCEPT ![s] = Append(@, self)]
           /\ waitingFor' = [waitingFor EXCEPT ![self] = s]
           /\ Block
           /\ UNCHANGED value
        \/ /\ value[s] > 0
           /\ value' = [value EXCEPT ![s] = @ - 1]
           /\ waitingFor' = [waitingFor EXCEPT ![self] = NULL]
           /\ Resume \/ (Running /\ UNCHANGED schedVars)
           /\ UNCHANGED queue

(* A thread calls P.                                                       *)
P(s) == Running /\ PTest(s)

(* Sleep has returned inside P: back to the while condition.               *)
PAgain == pc[currentThread] = "woken" /\ PTest(waitingFor[currentThread])

(* Mutant: V wakes a waiter only when the value was 0.                     *)
VWakesAtZeroOnly(s) ==
    /\ pc[currentThread] \in {"body", "sleep", "finish"}
    /\ value[s] < MaxValue
    /\ \/ /\ queue[s] # <<>> /\ value[s] = 0
          /\ Wake(Head(queue[s])) \/ IdleWake(Head(queue[s]))
          /\ queue' = [queue EXCEPT ![s] = Tail(@)]
       \/ /\ queue[s] = <<>> \/ value[s] > 0
          /\ UNCHANGED <<schedVars, queue>>
    /\ value' = [value EXCEPT ![s] = @ + 1]
    /\ UNCHANGED waitingFor

(* Mutant: V puts the waiter in front of the ready list.                   *)
VToFront(s) ==
    /\ pc[currentThread] \in {"body", "sleep", "finish"}
    /\ value[s] < MaxValue
    /\ queue[s] # <<>>
    /\ status' = [status EXCEPT ![Head(queue[s])] = "READY"]
    /\ readyList' = <<Head(queue[s])>> \o readyList
    /\ queue' = [queue EXCEPT ![s] = Tail(@)]
    /\ value' = [value EXCEPT ![s] = @ + 1]
    /\ UNCHANGED <<currentThread, toBeDestroyed, pc, level, waitingFor>>

(* Semaphore::V, called by the running thread, or by an interrupt handler  *)
(* on top of it or of the Idle loop: the first waiter is made ready, and   *)
(* the value grows.                                                        *)
V(s) ==
    /\ pc[currentThread] \in {"body", "sleep", "finish"}
    /\ value[s] < MaxValue
    /\ \/ /\ queue[s] # <<>>
          /\ Wake(Head(queue[s])) \/ IdleWake(Head(queue[s]))
          /\ queue' = [queue EXCEPT ![s] = Tail(@)]
       \/ /\ queue[s] = <<>>
          /\ UNCHANGED <<schedVars, queue>>
    /\ value' = [value EXCEPT ![s] = @ + 1]
    /\ UNCHANGED waitingFor

(* The steps of threads that do not touch a semaphore.                     *)
ThreadStep ==
    /\ \/ \E t \in Threads : NewThread(t) \/ Fork(t)
       \/ Begin \/ Yield \/ YieldReturns \/ SleepReturns \/ Finish
       \/ IdleReturns
    /\ UNCHANGED semVars

Next ==
    \/ \E s \in Sems : P(s) \/ V(s)
    \/ PAgain
    \/ ThreadStep

(* The timer re-arms itself forever (Timer::SetInterrupt), so a running    *)
(* thread is eventually made to yield; the other steps are straight-line   *)
(* code with interrupts off.  Nobody has to call P or V.                   *)
Fairness ==
    /\ WF_vars(Yield /\ UNCHANGED semVars)
    /\ WF_vars((Begin \/ YieldReturns \/ SleepReturns) /\ UNCHANGED semVars)
    /\ WF_vars(IdleReturns /\ UNCHANGED semVars)
    /\ WF_vars(PAgain)

Safety == Init /\ [][Next]_vars
Spec == Safety /\ Fairness

----------------------------------------------------------------------------
(* Every variable has its type; "value, always >= 0" (synch.h).            *)
TypeOK ==
    /\ SchedTypeOK
    /\ value \in [Sems -> Nat]
    /\ queue \in [Sems -> Seq(Threads)]
    /\ waitingFor \in [Threads -> Sems \cup {NULL}]

(* The threads inside P(s) that are not on its queue: they are ready, or   *)
(* running, and will evaluate the while condition of P again.              *)
Contenders(s) ==
    {t \in Threads : waitingFor[t] = s /\ t \notin ToSet(queue[s])}

(* No wake-up is lost: while threads are queued on a semaphore, every unit *)
(* of its value has a thread on its way to take it.  V may therefore wake  *)
(* one thread only, and P may test the value with if-not-then-sleep.       *)
NoLostWakeup ==
    \A s \in Sems :
        queue[s] # <<>> => value[s] <= Cardinality(Contenders(s))

(* A blocked thread is on the queue of the semaphore it waits for, once,   *)
(* and on no other; only blocked threads are on queues.  So V never makes  *)
(* a thread ready that is ready or running already, and no blocked thread  *)
(* is out of reach of a V.                                                 *)
BlockedExactlyOnce ==
    /\ \A s \in Sems : IsInjective(queue[s])
    /\ \A s \in Sems, t \in Threads :
          t \in ToSet(queue[s]) <=> /\ status[t] = "BLOCKED"
                                    /\ pc[t] \in {"sleep", "slept"}
                                    /\ waitingFor[t] = s

(* The semaphores use the scheduler only as its specification allows: in   *)
(* particular V wakes blocked threads only, never a finishing one.         *)
UsesScheduler == SchedSafety

=============================================================================
