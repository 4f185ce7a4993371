------------------------------- MODULE Mutex -------------------------------
(***************************************************************************)
(* What a lock promises (class Lock of threads/synch.h): it is FREE or     *)
(* BUSY, Acquire waits until it is FREE and makes it BUSY, Release makes   *)
(* it FREE, and only the thread that acquired it may release it.  The      *)
(* module Lock implements this specification; the monitors that use locks  *)
(* build on it.                                                            *)
(***************************************************************************)
CONSTANT Threads

VARIABLE holders    \* the threads that have acquired and not yet released

MutexInit == holders = {}

Enter(t) == holders = {} /\ holders' = {t}

Leave(t) == t \in holders /\ holders' = {}

MutexNext == \E t \in Threads : Enter(t) \/ Leave(t)

MutexSpec == MutexInit /\ [][MutexNext]_holders

=============================================================================
