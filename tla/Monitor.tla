------------------------------ MODULE Monitor ------------------------------
(***************************************************************************)
(* Any use of one lock and one condition variable by kernel threads:       *)
(* Acquire, Release, Wait, Signal and Broadcast, in every order that their *)
(* assertions allow.  Broadcast is the loop of the code: interrupts are    *)
(* enabled at the end of each Signal, so other threads run in between, but *)
(* the lock stays held.                                                    *)
(***************************************************************************)
EXTENDS Condition

CONSTANT NULL

ASSUME MonitorAssumption == NULL \notin Threads

VARIABLE broadcaster   \* the thread inside Condition::Broadcast

vars == <<condVars, broadcaster>>

Init == CondInit /\ broadcaster = NULL

Busy(t) == inWait[t] # "no" \/ t = broadcaster

(* Lock::Acquire and Lock::Release, as Mutex promises them.                *)
Acquire(t) ==
    /\ ~Busy(t)
    /\ Enter(t)
    /\ UNCHANGED <<waitQueue, value, asleep, inWait, broadcaster>>

Release(t) ==
    /\ ~Busy(t)
    /\ Leave(t)
    /\ UNCHANGED <<waitQueue, value, asleep, inWait, broadcaster>>

Wait(t) ==
    /\ \/ ~Busy(t) /\ WaitReleases(t)
       \/ WaitSleeps(t) \/ WaitWakes(t) \/ WaitReturns(t)
    /\ UNCHANGED broadcaster

SignalOne(t) == ~Busy(t) /\ Signal(t) /\ UNCHANGED broadcaster

(* Mutant: Broadcast signals once.                                         *)
BroadcastOnce(t) ==
    \/ /\ ~Busy(t) /\ Holds(t)
       /\ broadcaster' = t
       /\ UNCHANGED condVars
    \/ /\ t = broadcaster
       /\ Signal(t)
       /\ broadcaster' = NULL

(* Condition::Broadcast *)
Broadcast(t) ==
    \/ /\ ~Busy(t) /\ Holds(t)
       /\ broadcaster' = t
       /\ UNCHANGED condVars
    \/ /\ t = broadcaster /\ waitQueue # <<>>
       /\ Signal(t)
       /\ UNCHANGED broadcaster
    \/ /\ t = broadcaster /\ waitQueue = <<>>
       /\ broadcaster' = NULL
       /\ UNCHANGED condVars

Next ==
    \E t \in Threads :
        Acquire(t) \/ Release(t) \/ Wait(t) \/ SignalOne(t) \/ Broadcast(t)

(* A thread that is not asleep and does not wait for the lock gets the     *)
(* processor, and the loop of Broadcast has no other exit.                 *)
Fairness ==
    \A t \in Threads :
        /\ WF_vars((WaitSleeps(t) \/ WaitWakes(t)) /\ UNCHANGED broadcaster)
        /\ WF_vars(t = broadcaster /\ Broadcast(t))

Safety == Init /\ [][Next]_vars
Spec == Safety /\ Fairness

----------------------------------------------------------------------------
(* Broadcast wakes everyone who waits when it is called, also threads that *)
(* have released the lock and not yet gone to sleep.                       *)
BroadcastWakesAll ==
    \A t \in Threads :
        (broadcaster # NULL /\ inWait[t] = "P") ~> inWait[t] = "acquire"

=============================================================================
