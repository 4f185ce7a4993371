----------------------------- MODULE Condition -----------------------------
(***************************************************************************)
(* Condition variables (class Condition of threads/synch.cc): the steps of *)
(* Wait and Signal, on top of a lock that keeps the promise of Mutex.      *)
(*                                                                         *)
(* Wait allocates a semaphore for the waiting thread, releases the lock,   *)
(* sleeps in the P of that semaphore and acquires the lock again.  Between *)
(* the Release and the P any other thread may run, a signaller included.   *)
(* A thread has at most one such semaphore, so it is named by its thread.  *)
(***************************************************************************)
EXTENDS Mutex, Naturals, SequencesExt

VARIABLES
    waitQueue,   \* Condition::waitQueue, the semaphores of the waiters
    value,       \* value of the semaphore of each waiter
    asleep,      \* the waiters asleep in the P of their semaphore
    inWait       \* per thread: "no", "P" (lock released, waiter->P() not
                 \* returned) or "acquire" (back from P)

condVars == <<holders, waitQueue, value, asleep, inWait>>

(* Condition::Condition, next to a free lock *)
CondInit ==
    /\ MutexInit
    /\ waitQueue = <<>>
    /\ value = [t \in Threads |-> 0]
    /\ asleep = {}
    /\ inWait = [t \in Threads |-> "no"]

Holds(t) == t \in holders

(* Mutant: Wait releases the lock before it queues the semaphore, so that  *)
(* a signal in between finds nobody.                                       *)
WaitReleasesUnqueued(t) ==
    /\ Holds(t)
    /\ value' = [value EXCEPT ![t] = 0]
    /\ Leave(t)
    /\ inWait' = [inWait EXCEPT ![t] = "P"]
    /\ UNCHANGED <<waitQueue, asleep>>

(* Condition::Wait up to the end of conditionLock->Release().              *)
WaitReleases(t) ==
    /\ Holds(t)
    /\ value' = [value EXCEPT ![t] = 0]
    /\ waitQueue' = Append(waitQueue, t)
    /\ Leave(t)
    /\ inWait' = [inWait EXCEPT ![t] = "P"]
    /\ UNCHANGED asleep

(* waiter->P(): the thread sleeps while the value is 0.                    *)
WaitSleeps(t) ==
    /\ inWait[t] = "P"
    /\ t \notin asleep
    /\ value[t] = 0
    /\ asleep' = asleep \cup {t}
    /\ UNCHANGED <<holders, waitQueue, value, inWait>>

WaitWakes(t) ==
    /\ inWait[t] = "P"
    /\ t \notin asleep
    /\ value[t] > 0
    /\ value' = [value EXCEPT ![t] = @ - 1]
    /\ inWait' = [inWait EXCEPT ![t] = "acquire"]
    /\ UNCHANGED <<holders, waitQueue, asleep>>

(* conditionLock->Acquire() and delete waiter.                             *)
WaitReturns(t) ==
    /\ inWait[t] = "acquire"
    /\ Enter(t)
    /\ inWait' = [inWait EXCEPT ![t] = "no"]
    /\ UNCHANGED <<waitQueue, value, asleep>>

(* Condition::Signal: the V of the first waiter's semaphore.               *)
Signal(t) ==
    /\ Holds(t)
    /\ \/ /\ waitQueue # <<>>
          /\ value' = [value EXCEPT ![Head(waitQueue)] = @ + 1]
          /\ asleep' = asleep \ {Head(waitQueue)}
          /\ waitQueue' = Tail(waitQueue)
       \/ waitQueue = <<>> /\ UNCHANGED <<waitQueue, value, asleep>>
    /\ UNCHANGED <<holders, inWait>>

----------------------------------------------------------------------------
(* "there is no chance the waiter will miss the signal, even though the    *)
(* lock is released before calling P()" (Condition::Wait).  A thread that  *)
(* has released the lock in Wait and not returned from P is either on      *)
(* waitQueue, with no signal for it yet, or has been signalled, and then   *)
(* it is not asleep and its semaphore has the value.  And only such        *)
(* threads are on waitQueue, each once: Signal never uses a semaphore that *)
(* Wait has deleted.                                                       *)
NoMissedSignal ==
    /\ \A t \in Threads : inWait[t] = "P" =>
          \/ t \in ToSet(waitQueue) /\ value[t] = 0
          \/ t \notin ToSet(waitQueue) /\ value[t] = 1 /\ t \notin asleep
    /\ IsInjective(waitQueue)
    /\ \A t \in ToSet(waitQueue) \cup asleep : inWait[t] = "P"

=============================================================================
