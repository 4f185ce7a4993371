-------------------------------- MODULE Lock --------------------------------
(***************************************************************************)
(* Mutual exclusion locks (class Lock of threads/synch.cc): a semaphore    *)
(* with initial value 1, and the thread that holds the lock.               *)
(*                                                                         *)
(* The order in which ready threads run is left open here: any thread that *)
(* is not asleep on the semaphore may take the next step.  The scheduler   *)
(* (module Scheduler) allows fewer orders, never more.  A step is the code *)
(* between two points where interrupts are enabled, the end of P and the   *)
(* end of V.  Nothing can run between the store to lockHolder and the V of *)
(* Release; between the P of Acquire and the store to lockHolder, anything *)
(* can.                                                                    *)
(***************************************************************************)
EXTENDS Naturals, SequencesExt

CONSTANTS Threads, NULL

ASSUME LockAssumption == NULL \notin Threads

VARIABLES
    value,        \* value of Lock::semaphore
    queue,        \* the threads asleep in its P
    lockHolder,   \* Lock::lockHolder
    at            \* where each thread stands: "out" of the lock, inside P
                  \* ("acquire"), back from P ("acquired"), Acquire done
                  \* ("held")

vars == <<value, queue, lockHolder, at>>

Places == {"out", "acquire", "acquired", "held"}

(* Lock::Lock *)
Init ==
    /\ value = 1
    /\ queue = <<>>
    /\ lockHolder = NULL
    /\ at = [t \in Threads |-> "out"]

(* The P of Lock::Acquire, first call or after a wake-up, with the lock    *)
(* busy: the thread goes to sleep.                                         *)
AcquireWaits(t) ==
    /\ at[t] \in {"out", "acquire"}
    /\ t \notin ToSet(queue)
    /\ value = 0
    /\ queue' = Append(queue, t)
    /\ at' = [at EXCEPT ![t] = "acquire"]
    /\ UNCHANGED <<value, lockHolder>>

(* Mutant: P tests with "if" instead of "while".                           *)
AcquireUntested(t) ==
    /\ at[t] \in {"out", "acquire"}
    /\ t \notin ToSet(queue)
    /\ value > 0 \/ at[t] = "acquire"
    /\ value' = value - 1
    /\ at' = [at EXCEPT ![t] = "acquired"]
    /\ UNCHANGED <<queue, lockHolder>>

(* The same with the lock free: P takes the value and returns.             *)
AcquireTakes(t) ==
    /\ at[t] \in {"out", "acquire"}
    /\ t \notin ToSet(queue)
    /\ value > 0
    /\ value' = value - 1
    /\ at' = [at EXCEPT ![t] = "acquired"]
    /\ UNCHANGED <<queue, lockHolder>>

(* The rest of Lock::Acquire: lockHolder = kernel->currentThread.          *)
AcquireReturns(t) ==
    /\ at[t] = "acquired"
    /\ lockHolder' = t
    /\ at' = [at EXCEPT ![t] = "held"]
    /\ UNCHANGED <<value, queue>>

(* Mutant: Release wakes nobody.                                           *)
ReleaseWakesNobody(t) ==
    /\ at[t] = "held"
    /\ lockHolder' = NULL
    /\ value' = value + 1
    /\ at' = [at EXCEPT ![t] = "out"]
    /\ UNCHANGED queue

(* Lock::Release, V included.                                              *)
Release(t) ==
    /\ at[t] = "held"
    /\ lockHolder' = NULL
    /\ queue' = IF queue = <<>> THEN queue ELSE Tail(queue)
    /\ value' = value + 1
    /\ at' = [at EXCEPT ![t] = "out"]

Step(t) ==
    \/ AcquireWaits(t) \/ AcquireTakes(t) \/ AcquireReturns(t) \/ Release(t)

Next == \E t \in Threads : Step(t)

(* A thread inside Acquire that is not asleep is ready or running, and     *)
(* gets the processor (ReadyThreadRuns of Scheduler); a critical section   *)
(* of the kernel ends.                                                     *)
Fairness ==
    \A t \in Threads :
        /\ WF_vars(at[t] = "acquire" /\ (AcquireWaits(t) \/ AcquireTakes(t)))
        /\ WF_vars(AcquireReturns(t))
        /\ WF_vars(Release(t))

Safety == Init /\ [][Next]_vars
Spec == Safety /\ Fairness

----------------------------------------------------------------------------
(* Every variable has its type; the semaphore of a lock is 0 or 1.         *)
TypeOK ==
    /\ value \in {0, 1}
    /\ queue \in Seq(Threads)
    /\ lockHolder \in Threads \cup {NULL}
    /\ at \in [Threads -> Places]

Owners == {t \in Threads : at[t] \in {"acquired", "held"}}

(* At most one thread is past the P of Acquire and before the end of       *)
(* Release, and none while the semaphore has its value.                    *)
MutualExclusion ==
    /\ \A t, u \in Owners : t = u
    /\ value = 1 <=> Owners = {}

(* lockHolder names the thread whose Acquire has returned, and nobody      *)
(* else's: the ASSERT(IsHeldByCurrentThread()) of Release and of           *)
(* Condition::Wait holds for the holder, and would fail for any other      *)
(* thread, also inside the window where the lock is taken and lockHolder   *)
(* is not yet set.                                                         *)
HolderIsKnown ==
    \A t \in Threads : at[t] = "held" <=> lockHolder = t

(* A free lock with threads asleep on it has another thread awake that is  *)
(* about to take it: Release cannot leave the sleepers behind.             *)
FreeLockHasTaker ==
    (value = 1 /\ queue # <<>>) =>
        \E t \in Threads : at[t] = "acquire" /\ t \notin ToSet(queue)

(* The lock is what Mutex promises.                                        *)
Promise == INSTANCE Mutex WITH holders <- Owners

ImplementsMutex == Promise!MutexSpec

(* Whenever a thread waits for the lock, some thread gets it: the lock is  *)
(* never idle for ever while it is wanted.                                 *)
WantedLockIsTaken ==
    (\E t \in Threads : at[t] = "acquire") ~> (Owners # {})

=============================================================================
