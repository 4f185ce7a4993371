------------------------------- MODULE Driver -------------------------------
(***************************************************************************)
(* A synchronous driver on top of a device that answers each request with  *)
(* an interrupt: a lock, a semaphore with initial value 0, and the device. *)
(* SynchDisk (filesys/synchdisk.cc) and SynchConsoleOutput                 *)
(* (userprog/synchconsole.cc) are both                                     *)
(*                                                                         *)
(*     lock->Acquire(); start the device; semaphore->P(); lock->Release(); *)
(*                                                                         *)
(* with a handler that calls semaphore->V().  Nothing enables interrupts   *)
(* between the start of the device and the test of P, so these are one     *)
(* step.  The lock is one that keeps the promise of Mutex, and what the    *)
(* device has scheduled is delivered (RequestsAnswered of Interrupt).      *)
(***************************************************************************)
EXTENDS Mutex, Naturals

VARIABLES
    semaphore,   \* value of the semaphore
    blocked,     \* the threads asleep in its P
    active,      \* Disk::active, ConsoleOutput::putBusy
    scheduled,   \* how many interrupts of the device are pending
    stage        \* per thread: "idle", "acquire", "request" (lock held),
                 \* "wait" (request made, in P), "done" (back from P)

driverVars == <<holders, semaphore, blocked, active, scheduled, stage>>

(* SynchDisk::SynchDisk and the device's constructor                       *)
DriverInit ==
    /\ MutexInit
    /\ semaphore = 0 /\ blocked = {}
    /\ active = FALSE /\ scheduled = 0
    /\ stage = [t \in Threads |-> "idle"]

Advance(t, from, to) == stage[t] = from /\ stage' = [stage EXCEPT ![t] = to]

(* A thread calls the driver.                                              *)
Call(t) ==
    /\ Advance(t, "idle", "acquire")
    /\ UNCHANGED <<holders, semaphore, blocked, active, scheduled>>

(* lock->Acquire()                                                         *)
AcquireDevice(t) ==
    /\ Advance(t, "acquire", "request")
    /\ Enter(t)
    /\ UNCHANGED <<semaphore, blocked, active, scheduled>>

(* One evaluation of the while condition of semaphore->P().                *)
TestSemaphore(t) ==
    IF semaphore = 0
    THEN /\ blocked' = blocked \cup {t}
         /\ stage' = [stage EXCEPT ![t] = "wait"]
         /\ UNCHANGED semaphore
    ELSE /\ semaphore' = semaphore - 1
         /\ stage' = [stage EXCEPT ![t] = "done"]
         /\ UNCHANGED blocked

(* Disk::ReadRequest, Disk::WriteRequest or ConsoleOutput::PutChar, and    *)
(* the first test of P.                                                    *)
Request(t) ==
    /\ stage[t] = "request"
    /\ active' = TRUE
    /\ scheduled' = scheduled + 1
    /\ TestSemaphore(t)
    /\ UNCHANGED holders

(* The thread has been woken: P tests again.                               *)
WaitAgain(t) ==
    /\ stage[t] = "wait" /\ t \notin blocked
    /\ TestSemaphore(t)
    /\ UNCHANGED <<holders, active, scheduled>>

(* semaphore->V()                                                          *)
V ==
    /\ semaphore' = semaphore + 1
    /\ IF blocked = {} THEN UNCHANGED blocked
       ELSE \E t \in blocked : blocked' = blocked \ {t}

(* Disk::CallBack or ConsoleOutput::CallBack, with the driver's CallBack:  *)
(* semaphore->V().                                                         *)
CallBack ==
    /\ scheduled > 0
    /\ scheduled' = scheduled - 1
    /\ active' = FALSE
    /\ V
    /\ UNCHANGED <<holders, stage>>

(* lock->Release()                                                         *)
ReleaseDevice(t) ==
    /\ Advance(t, "done", "idle")
    /\ Leave(t)
    /\ UNCHANGED <<semaphore, blocked, active, scheduled>>

DriverNext ==
    \/ CallBack
    \/ \E t \in Threads : \/ Call(t) \/ AcquireDevice(t) \/ Request(t)
                          \/ WaitAgain(t) \/ ReleaseDevice(t)

DriverSafety == DriverInit /\ [][DriverNext]_driverVars

----------------------------------------------------------------------------
(* Every variable has its type.                                            *)
DriverTypeOK ==
    /\ holders \subseteq Threads
    /\ semaphore \in Nat /\ scheduled \in Nat
    /\ blocked \subseteq Threads
    /\ active \in BOOLEAN
    /\ stage \in [Threads -> {"idle", "acquire", "request", "wait", "done"}]

(* The device is free when a request is made, so that the assertions       *)
(* !active of Disk and putBusy == FALSE of ConsoleOutput hold.             *)
DeviceFree == \A t \in Threads : stage[t] = "request" => ~active

(* P returns on the interrupt of the caller's own request, never on one    *)
(* that an earlier request left behind: when it has returned, the device   *)
(* is done, no interrupt is to come, and no V is left for the next caller. *)
OwnAnswer ==
    \A t \in Threads : stage[t] = "done" =>
        ~active /\ scheduled = 0 /\ semaphore = 0 /\ blocked = {}

=============================================================================
