---------------------------- MODULE MCSemaphores ----------------------------
(* Model-checking instance of Semaphores: one semaphore starts at 0 (an    *)
(* event), the others at 1 (a lock).                                       *)
EXTENDS Semaphores

CONSTANT Event

MCInitialValue == [s \in Sems |-> IF s = Event THEN 0 ELSE 1]

=============================================================================
