---------------------------- MODULE MutexProofs -----------------------------
(***************************************************************************)
(* Proofs about what the kernel builds on Mutex: condition variables, the  *)
(* synchronized list, the synchronous drivers, the disk and the console.   *)
(*                                                                         *)
(* Condition variables: no signal is missed, for any number of threads     *)
(* that wait, signal and broadcast in any order.  NoMissedSignal is        *)
(* inductive together with the types of the variables; that a signalled    *)
(* waiter has left waitQueue for good, so that its value stays 1, rests on *)
(* the queue having no duplicates (ListFacts).                             *)
(***************************************************************************)
EXTENDS SynchList, SynchDisk, Console, ListFacts, FiniteSetTheorems

CondTypeOK ==
    /\ waitQueue \in Seq(Threads)
    /\ value \in [Threads -> Nat]
    /\ asleep \subseteq Threads
    /\ inWait \in [Threads -> {"no", "P", "acquire"}]

MonitorInv == CondTypeOK /\ NoMissedSignal

(* At first nobody waits.                                                  *)
LEMMA MonitorInitInv == Init => MonitorInv
  BY DEF Init, CondInit, MonitorInv, CondTypeOK, NoMissedSignal, IsInjective, ToSet

(* Condition::Wait up to the Release: the new waiter is queued, with no    *)
(* signal for it.                                                          *)
LEMMA WaitReleasesKeeps ==
    ASSUME MonitorInv, NEW t \in Threads, inWait[t] = "no", WaitReleases(t)
    PROVE  MonitorInv'
<1> USE DEF MonitorInv, CondTypeOK, WaitReleases
<1>1. t \notin ToSet(waitQueue) \cup asleep
  BY DEF NoMissedSignal
<1>2. /\ waitQueue' \in Seq(Threads)
      /\ ToSet(waitQueue') = ToSet(waitQueue) \cup {t}
      /\ IsInjective(waitQueue')
  BY <1>1, AppendFacts DEF NoMissedSignal
<1>3. CondTypeOK'
  BY <1>2
<1>4. /\ inWait'[t] = "P" /\ value'[t] = 0
      /\ \A u \in Threads \ {t} : inWait'[u] = inWait[u] /\ value'[u] = value[u]
  OBVIOUS
<1>5. ASSUME NEW u \in Threads, inWait'[u] = "P"
      PROVE  \/ u \in ToSet(waitQueue') /\ value'[u] = 0
             \/ u \notin ToSet(waitQueue') /\ value'[u] = 1 /\ u \notin asleep'
  BY <1>2, <1>4, <1>5 DEF NoMissedSignal
<1>6. ASSUME NEW u \in ToSet(waitQueue') \cup asleep' PROVE inWait'[u] = "P"
  <2>1. CASE u = t
    BY <2>1, <1>4
  <2>2. CASE u # t
    <3>1. u \in ToSet(waitQueue) \cup asleep
      BY <2>2, <1>2
    <3>2. u \in Threads
      BY <3>1 DEF ToSet
    <3> QED  BY <2>2, <3>1, <3>2, <1>4 DEF NoMissedSignal
  <2> QED  BY <2>1, <2>2
<1> QED  BY <1>2, <1>3, <1>5, <1>6 DEF NoMissedSignal

(* The P of the waiter: it sleeps only if it has not been signalled, and   *)
(* is off the queue when it goes on.                                       *)
LEMMA WaitPKeeps ==
    ASSUME MonitorInv, NEW t \in Threads, WaitSleeps(t) \/ WaitWakes(t)
    PROVE  MonitorInv'
<1> USE DEF MonitorInv, CondTypeOK
<1>1. CASE WaitSleeps(t)
  BY <1>1 DEF WaitSleeps, NoMissedSignal
<1>2. CASE WaitWakes(t)
  <2>1. t \notin ToSet(waitQueue) \cup asleep
    BY <1>2 DEF WaitWakes, NoMissedSignal
  <2>2. CondTypeOK'
    BY <1>2 DEF WaitWakes
  <2>3. /\ inWait'[t] = "acquire"
        /\ \A u \in Threads \ {t} : inWait'[u] = inWait[u] /\ value'[u] = value[u]
    BY <1>2 DEF WaitWakes
  <2>4. ASSUME NEW u \in ToSet(waitQueue') \cup asleep' PROVE inWait'[u] = "P"
    <3>1. u \in ToSet(waitQueue) \cup asleep
      BY <1>2 DEF WaitWakes
    <3>2. u \in Threads /\ u # t
      BY <3>1, <2>1 DEF ToSet
    <3> QED  BY <3>1, <3>2, <2>3 DEF NoMissedSignal
  <2>5. ASSUME NEW u \in Threads, inWait'[u] = "P"
        PROVE  \/ u \in ToSet(waitQueue') /\ value'[u] = 0
               \/ u \notin ToSet(waitQueue') /\ value'[u] = 1 /\ u \notin asleep'
    BY <1>2, <2>3, <2>5 DEF WaitWakes, NoMissedSignal
  <2> QED  BY <1>2, <2>2, <2>4, <2>5 DEF WaitWakes, NoMissedSignal
<1> QED  BY <1>1, <1>2

(* The end of Wait: the thread is on no queue.                             *)
LEMMA WaitReturnsKeeps ==
    ASSUME MonitorInv, NEW t \in Threads, WaitReturns(t)
    PROVE  MonitorInv'
<1> USE DEF MonitorInv, CondTypeOK, WaitReturns
<1>1. /\ inWait'[t] = "no"
      /\ \A u \in Threads \ {t} : inWait'[u] = inWait[u]
  OBVIOUS
<1>2. ASSUME NEW u \in ToSet(waitQueue') \cup asleep' PROVE inWait'[u] = "P"
  <2>1. u \in Threads /\ inWait[u] = "P"
    BY DEF ToSet, NoMissedSignal
  <2> QED  BY <2>1, <1>1
<1> QED  BY <1>1, <1>2 DEF NoMissedSignal

(* Condition::Signal: the first waiter leaves the queue, gets its value    *)
(* and is woken if it sleeps.                                              *)
LEMMA SignalKeeps ==
    ASSUME MonitorInv, NEW t \in Threads, Signal(t)
    PROVE  MonitorInv'
<1> USE DEF MonitorInv, CondTypeOK, Signal
<1>1. CASE waitQueue = <<>>
  BY <1>1 DEF NoMissedSignal
<1>2. CASE waitQueue # <<>>
  <2> DEFINE h == Head(waitQueue)
  <2>1. /\ waitQueue' \in Seq(Threads) /\ h \in Threads /\ h \in ToSet(waitQueue)
        /\ ToSet(waitQueue') = ToSet(waitQueue) \ {h}
        /\ IsInjective(waitQueue')
    <3>1. waitQueue' = Tail(waitQueue) /\ waitQueue \in Seq(Threads)
      BY <1>2
    <3>2. IsInjective(waitQueue)
      BY DEF NoMissedSignal
    <3> QED  BY <1>2, <3>1, <3>2, RemoveFrontFacts
  <2>2. value[h] = 0 /\ inWait[h] = "P"
    BY <2>1 DEF NoMissedSignal
  <2>3. CondTypeOK'
    <3>1. value' = [value EXCEPT ![h] = 1]
      BY <1>2, <2>1, <2>2
    <3>2. value' \in [Threads -> Nat]
      BY <2>1, <3>1
    <3>3. asleep' \subseteq Threads /\ inWait' = inWait
      BY <1>2
    <3> QED  BY <2>1, <3>2, <3>3
  <2>4. /\ value'[h] = 1 /\ h \notin asleep'
        /\ \A u \in Threads \ {h} : /\ value'[u] = value[u]
                                    /\ u \in asleep' <=> u \in asleep
    BY <1>2, <2>1, <2>2
  <2>5. ASSUME NEW u \in Threads, inWait'[u] = "P"
        PROVE  \/ u \in ToSet(waitQueue') /\ value'[u] = 0
               \/ u \notin ToSet(waitQueue') /\ value'[u] = 1 /\ u \notin asleep'
    BY <2>1, <2>4, <2>5 DEF NoMissedSignal
  <2>6. ASSUME NEW u \in ToSet(waitQueue') \cup asleep' PROVE inWait'[u] = "P"
    BY <1>2, <2>1 DEF NoMissedSignal
  <2> QED  BY <2>1, <2>3, <2>5, <2>6 DEF NoMissedSignal
<1> QED  BY <1>1, <1>2

(* One step of the monitor, action by action.                              *)
THEOREM MonitorNextInv == MonitorInv /\ [Next]_vars => MonitorInv'
<1> SUFFICES ASSUME MonitorInv, [Next]_vars PROVE MonitorInv'
  OBVIOUS
<1>1. ASSUME UNCHANGED condVars PROVE MonitorInv'
  BY <1>1 DEF condVars, MonitorInv, CondTypeOK, NoMissedSignal
<1>2. ASSUME NEW t \in Threads, Acquire(t) \/ Release(t) PROVE MonitorInv'
  BY <1>2 DEF Acquire, Release, MonitorInv, CondTypeOK, NoMissedSignal
<1>3. ASSUME NEW t \in Threads, Wait(t) PROVE MonitorInv'
  BY <1>3, WaitReleasesKeeps, WaitPKeeps, WaitReturnsKeeps DEF Wait, Busy
<1>4. ASSUME NEW t \in Threads, SignalOne(t) PROVE MonitorInv'
  BY <1>4, SignalKeeps DEF SignalOne
<1>5. ASSUME NEW t \in Threads, Broadcast(t) PROVE MonitorInv'
  BY <1>1, <1>5, SignalKeeps DEF Broadcast
<1>6. CASE Next
  BY <1>2, <1>3, <1>4, <1>5, <1>6 DEF Next
<1>7. CASE UNCHANGED vars
  BY <1>1, <1>7 DEF vars
<1> QED  BY <1>6, <1>7

(* For every set of threads: "there is no chance the waiter will miss the  *)
(* signal, even though the lock is released before calling P()"            *)
(* (Condition::Wait), and no deleted semaphore is signalled.               *)
THEOREM MonitorSafe == Safety => []NoMissedSignal
<1>1. MonitorInv => NoMissedSignal
  BY DEF MonitorInv
<1> QED  BY MonitorInitInv, MonitorNextInv, <1>1, PTL DEF Safety

----------------------------------------------------------------------------
(* The synchronized list.  Its threads hold the lock exactly in the code   *)
(* between Acquire and Release, except inside listEmpty->Wait(), and only  *)
(* RemoveFront is ever inside Wait.                                        *)
ListPcs == {"idle", "append", "remove", "apply", "appending", "removing",
            "applying", "signalled"}

ListInv ==
    /\ pc \in [Threads -> ListPcs]
    /\ inWait \in [Threads -> {"no", "P", "acquire"}]
    /\ holders \subseteq Threads /\ \A t, u \in holders : t = u
    /\ broadcaster = NULL
    /\ \A t \in Threads :
          /\ inWait[t] # "no" => pc[t] = "removing"
          /\ t \in holders <=> /\ inWait[t] = "no"
                               /\ pc[t] \in {"appending", "removing",
                                             "applying", "signalled"}

(* SynchList::SynchList establishes the invariant.                         *)
LEMMA ListInitInv == ListInit => ListInv
  BY DEF ListInit, Init, CondInit, MutexInit, ListInv, ListPcs

(* A step of the list, of whatever thread, is a step that the lock and the *)
(* condition variable allow, and keeps the invariant.                      *)
LEMMA ListNextInv ==
    ListInv /\ [ListNext]_listVars => ListInv' /\ [Next]_vars
<1> SUFFICES ASSUME ListInv, [ListNext]_listVars
             PROVE  ListInv' /\ [Next]_vars
  OBVIOUS
<1> USE DEF ListInv, ListPcs
<1>1. \A t \in Threads : inWait[t] = "no" => ~Busy(t)
  BY MonitorAssumption DEF Busy
<1>2. ASSUME NEW t \in Threads, CallAppend(t) \/ CallOther(t)
      PROVE  ListInv' /\ UNCHANGED vars
  BY <1>2 DEF CallAppend, CallOther, Goto, vars, condVars
<1>3. ASSUME NEW t \in Threads, AcquireLock(t) PROVE ListInv' /\ Acquire(t)
  <2>1. inWait[t] = "no" /\ ~Busy(t)
    BY <1>1, <1>3 DEF AcquireLock, Goto
  <2> QED  BY <2>1, <1>3 DEF AcquireLock, Goto, Enter, Acquire
<1>4. ASSUME NEW t \in Threads, ReleaseLock(t) PROVE ListInv' /\ Release(t)
  <2>1. inWait[t] = "no" /\ ~Busy(t)
    BY <1>1, <1>4 DEF ReleaseLock, Goto
  <2> QED  BY <2>1, <1>4 DEF ReleaseLock, Goto, Leave, Release
<1>5. ASSUME NEW t \in Threads, NEW item \in Items, AppendItem(t, item)
      PROVE  ListInv' /\ SignalOne(t)
  <2>1. inWait[t] = "no" /\ ~Busy(t)
    BY <1>1, <1>5 DEF AppendItem, Goto
  <2> QED  BY <2>1, <1>5 DEF AppendItem, Goto, Signal, SignalOne
<1>6. ASSUME NEW t \in Threads, RemoveWaits(t) PROVE ListInv' /\ Wait(t)
  <2>1. ASSUME inWait[t] = "no", WaitReleases(t) PROVE ListInv' /\ Wait(t)
    BY <1>1, <1>6, <2>1 DEF RemoveWaits, WaitReleases, Leave, Wait
  <2>2. ASSUME WaitSleeps(t) \/ WaitWakes(t) PROVE ListInv' /\ Wait(t)
    BY <1>6, <2>2 DEF RemoveWaits, WaitSleeps, WaitWakes, Wait
  <2>3. ASSUME WaitReturns(t) PROVE ListInv' /\ Wait(t)
    BY <1>6, <2>3 DEF RemoveWaits, WaitReturns, Enter, Wait
  <2> QED  BY <1>6, <2>1, <2>2, <2>3 DEF RemoveWaits
<1>7. ASSUME NEW t \in Threads, RemoveItem(t) PROVE ListInv' /\ Release(t)
  <2>1. inWait[t] = "no" /\ ~Busy(t)
    BY <1>1, <1>7 DEF RemoveItem, Leave
  <2> QED  BY <2>1, <1>7 DEF RemoveItem, Goto, Leave, Release
<1>8. CASE UNCHANGED listVars
  BY <1>8 DEF listVars, vars, condVars
<1>9. CASE ListNext
  BY <1>2, <1>3, <1>4, <1>5, <1>6, <1>7, <1>9 DEF ListNext, Next
<1> QED  BY <1>8, <1>9

(* For every set of threads and items: Append, RemoveFront and Apply use   *)
(* the lock and the condition variable of their list only as the           *)
(* assertions of Release, Wait and Signal allow: whatever the list does is *)
(* a behaviour of the monitor.                                             *)
THEOREM ListUsesMonitor == ListSafety => UsesMonitor
<1>1. ListInit => Init
  BY DEF ListInit
<1> QED  BY <1>1, ListInitInv, ListNextInv, PTL DEF ListSafety, UsesMonitor, Safety

(* So no thread in RemoveFront misses the signal of an Append that comes   *)
(* while it is on its way to sleep.                                        *)
COROLLARY ListMissesNoSignal == ListSafety => []NoMissedSignal
  BY ListUsesMonitor, MonitorSafe, PTL DEF UsesMonitor

----------------------------------------------------------------------------
(* Synchronous drivers, the synchronous disk and the console.              *)

(* The driver at rest: no request is under way.                            *)
Quiet == semaphore = 0 /\ blocked = {} /\ active = FALSE /\ scheduled = 0

(* One request is under way, or its interrupt has come and the thread that *)
(* made it has not gone on yet.                                            *)
Waiting(t) ==
    \/ semaphore = 0 /\ blocked = {t} /\ active = TRUE /\ scheduled = 1
    \/ semaphore = 1 /\ blocked = {} /\ active = FALSE /\ scheduled = 0

(* The inductive invariant: the lock is held from Acquire to Release, and  *)
(* the device, the semaphore and the pending interrupt are those of the    *)
(* thread that holds it.                                                   *)
DriverInv ==
    /\ DriverTypeOK
    /\ \A t \in Threads :
          t \in holders <=> stage[t] \in {"request", "wait", "done"}
    /\ \A t, u \in holders : t = u
    /\ (\A t \in Threads : stage[t] # "wait") => Quiet
    /\ \A t \in Threads : stage[t] = "wait" => Waiting(t)

(* The constructor establishes the invariant.                              *)
LEMMA DriverInitInv == DriverInit => DriverInv
<1> SUFFICES ASSUME DriverInit PROVE DriverInv
  OBVIOUS
<1>1. active \in BOOLEAN
  BY DEF DriverInit
<1>2. DriverTypeOK
  BY <1>1 DEF DriverInit, MutexInit, DriverTypeOK
<1>3. \A t \in Threads : stage[t] = "idle" /\ t \notin holders
  BY DEF DriverInit, MutexInit
<1>4. \A t, u \in holders : t = u
  BY DEF DriverInit, MutexInit
<1> QED  BY <1>2, <1>3, <1>4 DEF DriverInv, Quiet, DriverInit

(* Every step of a driver, its device or its handler keeps the invariant.  *)
LEMMA DriverNextInv == DriverInv /\ [DriverNext]_driverVars => DriverInv'
<1> SUFFICES ASSUME DriverInv, [DriverNext]_driverVars PROVE DriverInv'
  OBVIOUS
<1> USE DEF DriverInv, DriverTypeOK
<1>1. CASE CallBack
  <2>1. scheduled > 0
    BY <1>1 DEF CallBack
  <2>2. PICK t \in Threads : stage[t] = "wait"
    BY <2>1 DEF Quiet
  <2>3. /\ semaphore = 0 /\ blocked = {t} /\ active = TRUE /\ scheduled = 1
        /\ \A u \in Threads : stage[u] = "wait" => u = t
    BY <2>1, <2>2 DEF Waiting
  <2>4. /\ semaphore' = 1 /\ blocked' = {} /\ active' = FALSE /\ scheduled' = 0
        /\ UNCHANGED <<holders, stage>>
    BY <1>1, <2>3 DEF CallBack, V
  <2> QED  BY <2>2, <2>3, <2>4 DEF Quiet, Waiting
<1>2. ASSUME NEW t \in Threads, Call(t) PROVE DriverInv'
  BY <1>2 DEF Call, Advance, Quiet, Waiting
<1>3. ASSUME NEW t \in Threads, AcquireDevice(t) PROVE DriverInv'
  BY <1>3 DEF AcquireDevice, Advance, Enter, Quiet, Waiting
<1>4. ASSUME NEW t \in Threads, Request(t) PROVE DriverInv'
  <2>1. stage[t] = "request" /\ \A u \in Threads : stage[u] # "wait"
    BY <1>4 DEF Request
  <2>2. Quiet
    BY <2>1
  <2>3. /\ semaphore' = 0 /\ blocked' = {t} /\ active' = TRUE /\ scheduled' = 1
        /\ stage' = [stage EXCEPT ![t] = "wait"] /\ UNCHANGED holders
    BY <1>4, <2>2 DEF Request, TestSemaphore, Quiet
  <2> QED  BY <2>1, <2>3 DEF Waiting
<1>5. ASSUME NEW t \in Threads, WaitAgain(t) PROVE DriverInv'
  <2>1. /\ stage[t] = "wait" /\ t \notin blocked
        /\ \A u \in Threads : stage[u] = "wait" => u = t
    BY <1>5 DEF WaitAgain
  <2>2. semaphore = 1 /\ blocked = {} /\ active = FALSE /\ scheduled = 0
    BY <2>1 DEF Waiting
  <2>3. /\ semaphore' = 0 /\ stage' = [stage EXCEPT ![t] = "done"]
        /\ UNCHANGED <<holders, blocked, active, scheduled>>
    BY <1>5, <2>2 DEF WaitAgain, TestSemaphore
  <2> QED  BY <2>1, <2>2, <2>3 DEF Quiet
<1>6. ASSUME NEW t \in Threads, ReleaseDevice(t) PROVE DriverInv'
  BY <1>6 DEF ReleaseDevice, Advance, Leave, Quiet, Waiting
<1>7. CASE UNCHANGED driverVars
  BY <1>7 DEF driverVars, Quiet, Waiting
<1> QED  BY <1>1, <1>2, <1>3, <1>4, <1>5, <1>6, <1>7 DEF DriverNext

(* What the invariant says to the users of a driver.                       *)
LEMMA DriverInvFacts == DriverInv => DriverTypeOK /\ DeviceFree /\ OwnAnswer
<1> SUFFICES ASSUME DriverInv PROVE DeviceFree /\ OwnAnswer
  BY DEF DriverInv
<1>1. ASSUME NEW t \in Threads, stage[t] \in {"request", "done"} PROVE Quiet
  BY <1>1 DEF DriverInv
<1> QED  BY <1>1 DEF DeviceFree, OwnAnswer, Quiet

(* Every synchronous driver of this form, with any number of threads: the  *)
(* device is free when it gets a request, and P returns on the interrupt   *)
(* of the caller's own request.                                            *)
THEOREM DriverSafe ==
    DriverSafety => [](DriverTypeOK /\ DeviceFree /\ OwnAnswer)
<1> QED  BY DriverInitInv, DriverNextInv, DriverInvFacts, PTL DEF DriverSafety

----------------------------------------------------------------------------
(* The disk: its driver's invariant, and the data of the thread that has   *)
(* made its request is that of its sector.                                 *)
DiskInv ==
    /\ DriverInv
    /\ TypeOK
    /\ \A t \in Threads :
          stage[t] \in {"wait", "done"} => op[t].data = disk[op[t].sector]

(* Every step of the synchronous disk is a step of the driver.             *)
LEMMA DiskStepIsDriverStep == [DiskNext]_diskVars => [DriverNext]_driverVars
  BY DEF DiskNext, diskVars, driverVars, DriverNext, DiskInterrupt, CallSector,
         ReadSector, WriteSector, Transfer

(* Every step of the synchronous disk keeps its invariant.                 *)
LEMMA DiskNextInv == DiskInv /\ [DiskNext]_diskVars => DiskInv'
<1> SUFFICES ASSUME DiskInv, [DiskNext]_diskVars PROVE DiskInv'
  OBVIOUS
<1>1. DriverInv' /\ DriverTypeOK'
  BY DriverNextInv, DiskStepIsDriverStep DEF DiskInv, DriverInv
<1>2. op \in [Threads -> Ops] /\ disk \in [Sectors -> Data]
  BY DEF DiskInv, TypeOK
<1>3. \A t, u \in Threads :
         (/\ stage[t] \in {"request", "wait", "done"}
          /\ stage[u] \in {"request", "wait", "done"}) => t = u
  BY DEF DiskInv, DriverInv
<1>4. stage \in [Threads -> {"idle", "acquire", "request", "wait", "done"}]
  BY DEF DiskInv, TypeOK, DriverTypeOK
<1> DEFINE Kept == /\ disk' \in [Sectors -> Data] /\ op' \in [Threads -> Ops]
                   /\ \A t \in Threads : stage'[t] \in {"wait", "done"} =>
                         op'[t].data = disk'[op'[t].sector]
<1>5. ASSUME UNCHANGED <<disk, op>>,
             \A t \in Threads : stage'[t] \in {"wait", "done"} =>
                                   stage[t] \in {"wait", "done"}
      PROVE  Kept
  BY <1>2, <1>5 DEF DiskInv
<1>6. ASSUME NEW t \in Threads, CallSector(t) PROVE Kept
  BY <1>2, <1>4, <1>6 DEF CallSector, Call, Advance, DiskInv, Ops
<1>7. ASSUME NEW t \in Threads, ReadSector(t) \/ WriteSector(t) PROVE Kept
  <2>1. /\ stage[t] = "request"
        /\ \A u \in Threads : u # t => stage'[u] = stage[u]
    BY <1>4, <1>7 DEF ReadSector, WriteSector, Request, TestSemaphore
  <2>2. \A u \in Threads : u # t => stage'[u] \notin {"wait", "done"}
    BY <1>3, <2>1
  <2>3. CASE ReadSector(t)
    BY <1>2, <2>2, <2>3 DEF ReadSector, Ops
  <2>4. CASE WriteSector(t)
    BY <1>2, <2>2, <2>4 DEF WriteSector, Ops
  <2> QED  BY <1>7, <2>3, <2>4
<1>8. ASSUME NEW t \in Threads, Transfer(t) PROVE Kept
  BY <1>2, <1>4, <1>5, <1>8
     DEF Transfer, AcquireDevice, WaitAgain, TestSemaphore, ReleaseDevice, Advance
<1>9. ASSUME DiskInterrupt PROVE Kept
  BY <1>5, <1>9 DEF DiskInterrupt, CallBack
<1>10. ASSUME UNCHANGED diskVars PROVE Kept
  BY <1>5, <1>10 DEF diskVars, driverVars
<1>11. Kept
  BY <1>6, <1>7, <1>8, <1>9, <1>10 DEF DiskNext
<1> QED  BY <1>1, <1>11 DEF DiskInv, TypeOK

(* The synchronous disk, with any number of threads and sectors: a call    *)
(* that has returned from P has its data on the disk, or has read what is  *)
(* there, and the driver's promises hold.                                  *)
THEOREM SynchDiskSafe ==
    DiskSafety => [](TypeOK /\ DeviceFree /\ OwnAnswer /\ SectorTransferred)
<1>1. DiskInit => DiskInv
  <2> SUFFICES ASSUME DiskInit PROVE DiskInv
    OBVIOUS
  <2>1. DriverInv /\ DriverTypeOK
    BY DriverInitInv DEF DiskInit, DriverInv
  <2>2. (CHOOSE o \in Ops : o.data = Blank) \in Ops
    <3>1. PICK s \in Sectors : TRUE
      BY SynchDiskAssumption
    <3> DEFINE first == [kind |-> "read", sector |-> s, data |-> Blank]
    <3>2. first \in Ops /\ first.data = Blank
      BY SynchDiskAssumption DEF Ops
    <3> HIDE DEF first
    <3> QED  BY <3>2
  <2>3. disk \in [Sectors -> Data] /\ op \in [Threads -> Ops]
    BY <2>2, SynchDiskAssumption DEF DiskInit
  <2>4. \A t \in Threads : stage[t] = "idle"
    BY DEF DiskInit, DriverInit
  <2> QED  BY <2>1, <2>3, <2>4 DEF DiskInv, TypeOK
<1>2. DiskInv => TypeOK /\ DeviceFree /\ OwnAnswer /\ SectorTransferred
  BY DriverInvFacts DEF DiskInv, SectorTransferred
<1> QED  BY <1>1, <1>2, DiskNextInv, PTL DEF DiskSafety

----------------------------------------------------------------------------
(* The console.  The threads that have the character p and have not given  *)
(* it to the output device, and the places of p in the output file.        *)
HeldBy(p) == {t \in Threads : ch[t] = p /\ stage[t] \notin {"wait", "done"}}

WrittenAt(p) == {i \in DOMAIN written : written[i] = p}

InOnePlace(p) ==
    \/ incoming = p /\ HeldBy(p) = {} /\ WrittenAt(p) = {}
    \/ /\ incoming # p /\ WrittenAt(p) = {}
       /\ \E t \in Threads : HeldBy(p) = {t}
    \/ /\ incoming # p /\ HeldBy(p) = {}
       /\ \E i \in DOMAIN written : WrittenAt(p) = {i}

ConsoleTypeOK ==
    /\ stage \in [Threads -> {"idle", "acquire", "request", "wait", "done"}]
    /\ at \in [Threads -> {"out", "acquire", "P", "get"}]
    /\ position \in 1..(Len(Typed) + 1)
    /\ ch \in [Threads -> Nat]
    /\ written \in Seq(Nat)

(* The inductive invariant.  The device is polled only when its buffer is  *)
(* empty; a thread in GetChar has no character yet and one in PutChar has  *)
(* one, so that neither call overwrites a character; and nobody has a      *)
(* character that is still in the input file.                              *)
ConsoleInv ==
    /\ ConsoleTypeOK
    /\ polling => incoming = EOF
    /\ \A t \in Threads : /\ at[t] # "out" => ch[t] = EOF
                          /\ stage[t] # "idle" => ch[t] # EOF
    /\ incoming \in 0..(position - 1)
    /\ \A t \in Threads : ch[t] < position
    /\ \A i \in DOMAIN written : written[i] < position
    /\ \A p \in 1..(position - 1) : AsChar(p) # EOF => InOnePlace(p)

(* The constructors establish the invariant.                               *)
LEMMA ConsoleInitInv == ConsoleInit => ConsoleInv
<1> SUFFICES ASSUME ConsoleInit PROVE ConsoleInv
  OBVIOUS
<1>1. Len(Typed) \in Nat
  BY TypedAssumption
<1>2. ConsoleTypeOK
  BY <1>1 DEF ConsoleInit, DriverInit, ConsoleTypeOK, EOF
<1> QED  BY <1>2 DEF ConsoleInit, DriverInit, ConsoleInv, ConsoleTypeOK, EOF

(* A step that moves no character.                                         *)
LEMMA CharsStay ==
    ASSUME ConsoleInv, NEW p \in Nat, InOnePlace(p),
           incoming' = p <=> incoming = p,
           HeldBy(p)' = HeldBy(p), WrittenAt(p)' = WrittenAt(p),
           DOMAIN written \subseteq DOMAIN written'
    PROVE  InOnePlace(p)'
  BY DEF InOnePlace

(* ConsoleInput::CallBack: the buffer was empty, so that the new character *)
(* takes nobody's place.                                                   *)
LEMMA InputKeepsChars == ConsoleInv /\ InputCallBack => ConsoleInv'
<1> SUFFICES ASSUME ConsoleInv, InputCallBack PROVE ConsoleInv'
  OBVIOUS
<1> USE DEF ConsoleTypeOK
<1>1. /\ incoming = EOF /\ polling' = FALSE
      /\ UNCHANGED <<stage, at, ch, written>>
      /\ Len(Typed) \in Nat
  BY TypedAssumption DEF InputCallBack, driverVars, ConsoleInv
<1>2. \A p : HeldBy(p)' = HeldBy(p) /\ WrittenAt(p)' = WrittenAt(p)
  BY <1>1 DEF HeldBy, WrittenAt
<1>3. CASE position > Len(Typed)
  <2>1. UNCHANGED <<incoming, position>>
    BY <1>1, <1>3 DEF InputCallBack, ConsoleInv
  <2>2. \A p : InOnePlace(p)' <=> InOnePlace(p)
    BY <2>1, <1>1, <1>2 DEF InOnePlace
  <2> QED  BY <2>1, <2>2, <1>1 DEF ConsoleInv, AsChar
<1>4. CASE position <= Len(Typed)
  <2>1. /\ incoming' = AsChar(position) /\ position' = position + 1
        /\ incoming' \in {EOF, position}
    BY <1>4 DEF InputCallBack, AsChar
  <2>2. ASSUME NEW p \in 1..(position' - 1), AsChar(p) # EOF
        PROVE  InOnePlace(p)'
    <3>1. CASE p = position
      <4>1. incoming' = p
        BY <2>1, <2>2, <3>1 DEF AsChar
      <4>2. HeldBy(p) = {} /\ WrittenAt(p) = {}
        BY <3>1 DEF HeldBy, WrittenAt, ConsoleInv
      <4> QED  BY <4>1, <4>2, <1>2 DEF InOnePlace
    <3>2. CASE p # position
      <4>1. p \in 1..(position - 1) /\ InOnePlace(p)
        BY <2>1, <2>2, <3>2 DEF ConsoleInv
      <4>2. incoming # p /\ incoming' # p
        BY <1>1, <2>1, <3>2, <4>1 DEF EOF
      <4> QED  BY <4>1, <4>2, <1>1, <1>2, CharsStay
    <3> QED  BY <3>1, <3>2
  <2>3. ConsoleTypeOK'
    BY <1>1, <2>1, <1>4 DEF ConsoleInv
  <2> QED  BY <1>1, <2>1, <2>2, <2>3 DEF ConsoleInv, AsChar, EOF
<1> QED  BY <1>3, <1>4 DEF ConsoleInv

(* SynchConsoleInput::GetChar: the character in the buffer, if any, moves  *)
(* to the thread, which had none.                                          *)
LEMMA GetCharKeepsChars ==
    ASSUME ConsoleInv, NEW t \in Threads, GetChar(t)
    PROVE  ConsoleInv'
<1> USE DEF ConsoleTypeOK
<1>1. /\ at' = [at EXCEPT ![t] = "out"] /\ ch' = [ch EXCEPT ![t] = incoming]
      /\ incoming' = EOF /\ UNCHANGED <<stage, position, written>>
      /\ ch[t] = EOF /\ stage[t] = "idle"
      /\ incoming \in Nat /\ incoming < position
  BY DEF GetChar, Moves, driverVars, ConsoleInv
<1>2. \A p : WrittenAt(p)' = WrittenAt(p)
  BY <1>1 DEF WrittenAt
<1>3. ASSUME NEW p \in 1..(position' - 1), AsChar(p) # EOF
      PROVE  InOnePlace(p)'
  <2>1. p \in Nat /\ p # EOF /\ InOnePlace(p)
    BY <1>1, <1>3 DEF ConsoleInv, EOF
  <2>2. CASE p = incoming
    <3>1. HeldBy(p) = {} /\ WrittenAt(p) = {}
      BY <2>1, <2>2 DEF InOnePlace
    <3>2. HeldBy(p)' = {t}
      BY <1>1, <2>2, <3>1 DEF HeldBy, ConsoleInv
    <3>3. incoming' # p
      BY <1>1, <2>1
    <3> QED  BY <3>1, <3>2, <3>3, <1>2 DEF InOnePlace
  <2>3. CASE p # incoming
    <3>1. HeldBy(p)' = HeldBy(p)
      BY <1>1, <2>1, <2>3 DEF HeldBy, ConsoleInv
    <3>2. incoming' # p
      BY <1>1, <2>1
    <3> QED  BY <3>1, <3>2, <2>1, <2>3, <1>1, <1>2, CharsStay
  <2> QED  BY <2>2, <2>3
<1>4. ConsoleTypeOK'
  BY <1>1 DEF ConsoleInv
<1>5. \A u \in Threads : /\ at'[u] # "out" => ch'[u] = EOF
                         /\ stage'[u] # "idle" => ch'[u] # EOF
                         /\ ch'[u] < position'
  BY <1>1 DEF ConsoleInv
<1>6. \A i \in DOMAIN written' : written'[i] < position'
  BY <1>1 DEF ConsoleInv
<1>7. incoming' = EOF /\ incoming' \in 0..(position' - 1)
  <2>1. position \in Nat /\ position >= 1
    BY TypedAssumption DEF ConsoleInv
  <2> QED  BY <1>1, <2>1 DEF EOF
<1> QED  BY <1>3, <1>4, <1>5, <1>6, <1>7 DEF ConsoleInv, AsChar

(* SynchConsoleOutput::PutChar at the device: the character moves from the *)
(* thread to the output file.                                              *)
LEMMA RequestKeepsChars ==
    ASSUME ConsoleInv, NEW t \in Threads, ch[t] # EOF, Request(t),
           written' = Append(written, ch[t]), UNCHANGED <<inVars, ch>>
    PROVE  ConsoleInv'
<1> USE DEF ConsoleTypeOK
<1>1. /\ \E to \in {"wait", "done"} : stage' = [stage EXCEPT ![t] = to]
      /\ UNCHANGED <<at, position, incoming, polling, ch>>
      /\ stage[t] = "request" /\ ch[t] \in Nat /\ ch[t] < position
  BY DEF Request, TestSemaphore, inVars, ConsoleInv
<1>2. /\ written' \in Seq(Nat)
      /\ DOMAIN written' = DOMAIN written \cup {Len(written) + 1}
      /\ Len(written) + 1 \notin DOMAIN written
      /\ \A i \in DOMAIN written : written'[i] = written[i]
      /\ written'[Len(written) + 1] = ch[t]
  BY <1>1 DEF ConsoleInv
<1>3. ASSUME NEW p \in 1..(position' - 1), AsChar(p) # EOF
      PROVE  InOnePlace(p)'
  <2>1. p \in Nat /\ InOnePlace(p)
    BY <1>1, <1>3 DEF ConsoleInv
  <2>2. CASE p = ch[t]
    <3>1. t \in HeldBy(p)
      BY <1>1, <2>2 DEF HeldBy
    <3>2. incoming # p /\ HeldBy(p) = {t} /\ WrittenAt(p) = {}
      BY <2>1, <3>1 DEF InOnePlace
    <3>3. HeldBy(p)' = {}
      BY <1>1, <3>2 DEF HeldBy, ConsoleInv
    <3>4. WrittenAt(p)' = {Len(written) + 1}
      BY <1>2, <2>2, <3>2 DEF WrittenAt
    <3> QED  BY <1>1, <1>2, <3>2, <3>3, <3>4 DEF InOnePlace
  <2>3. CASE p # ch[t]
    <3>1. HeldBy(p)' = HeldBy(p)
      BY <1>1, <2>3 DEF HeldBy, ConsoleInv
    <3>2. WrittenAt(p)' = WrittenAt(p)
      BY <1>2, <2>3 DEF WrittenAt
    <3> QED  BY <3>1, <3>2, <2>1, <1>1, <1>2, CharsStay
  <2> QED  BY <2>2, <2>3
<1>4. ConsoleTypeOK'
  BY <1>1, <1>2 DEF ConsoleInv
<1>5. \A i \in DOMAIN written' : written'[i] < position'
  BY <1>1, <1>2 DEF ConsoleInv
<1>6. \A u \in Threads : stage'[u] # "idle" => ch'[u] # EOF
  BY <1>1 DEF ConsoleInv
<1>7. /\ polling' => incoming' = EOF
      /\ incoming' \in 0..(position' - 1)
      /\ \A u \in Threads : /\ at'[u] # "out" => ch'[u] = EOF
                            /\ ch'[u] < position'
  BY <1>1 DEF ConsoleInv
<1> QED  BY <1>3, <1>4, <1>5, <1>6, <1>7 DEF ConsoleInv, AsChar

(* The end of PutChar: the thread's character is already written.          *)
LEMMA ReleaseKeepsChars ==
    ASSUME ConsoleInv, NEW t \in Threads, ReleaseDevice(t),
           ch' = [ch EXCEPT ![t] = EOF], UNCHANGED <<inVars, written>>
    PROVE  ConsoleInv'
<1> USE DEF ConsoleTypeOK
<1>1. /\ stage[t] = "done" /\ stage' = [stage EXCEPT ![t] = "idle"]
      /\ UNCHANGED <<at, position, incoming, polling, written>>
  BY DEF ReleaseDevice, Advance, inVars
<1>2. ASSUME NEW p \in 1..(position' - 1), AsChar(p) # EOF
      PROVE  InOnePlace(p)'
  <2>1. p \in Nat /\ p # EOF /\ InOnePlace(p)
    BY <1>1, <1>2 DEF ConsoleInv, EOF
  <2>2. HeldBy(p)' = HeldBy(p) /\ WrittenAt(p)' = WrittenAt(p)
    BY <1>1, <2>1 DEF HeldBy, WrittenAt, ConsoleInv
  <2> QED  BY <1>1, <2>1, <2>2, CharsStay
<1>3. ConsoleTypeOK' /\ \A u \in Threads : ch'[u] < position'
  BY <1>1 DEF ConsoleInv, EOF
<1>4. \A u \in Threads : /\ at'[u] # "out" => ch'[u] = EOF
                         /\ stage'[u] # "idle" => ch'[u] # EOF
  BY <1>1 DEF ConsoleInv
<1>5. /\ polling' => incoming' = EOF
      /\ incoming' \in 0..(position' - 1)
      /\ \A i \in DOMAIN written' : written'[i] < position'
  BY <1>1 DEF ConsoleInv
<1> QED  BY <1>2, <1>3, <1>4, <1>5 DEF ConsoleInv, AsChar

(* The steps of GetChar and PutChar between: they move no character.       *)
LEMMA OtherStepsKeepChars ==
    ASSUME ConsoleInv, NEW t \in Threads,
           UNCHANGED <<position, incoming, polling, ch, written>>,
           stage' \in [Threads -> {"idle", "acquire", "request", "wait", "done"}],
           at' \in [Threads -> {"out", "acquire", "P", "get"}],
           \A u \in Threads :
              /\ u # t => stage'[u] = stage[u] /\ at'[u] = at[u]
              /\ stage'[u] \in {"wait", "done"} <=> stage[u] \in {"wait", "done"},
           at'[t] # "out" => ch[t] = EOF, stage'[t] # "idle" => ch[t] # EOF
    PROVE  ConsoleInv'
<1>1. \A p : HeldBy(p)' = HeldBy(p) /\ WrittenAt(p)' = WrittenAt(p)
  BY DEF HeldBy, WrittenAt
<1>2. \A p : InOnePlace(p) => InOnePlace(p)'
  BY <1>1 DEF InOnePlace
<1>3. ConsoleTypeOK'
  BY DEF ConsoleInv, ConsoleTypeOK
<1>4. \A u \in Threads : /\ at'[u] # "out" => ch'[u] = EOF
                         /\ stage'[u] # "idle" => ch'[u] # EOF
  BY DEF ConsoleInv
<1> QED  BY <1>2, <1>3, <1>4 DEF ConsoleInv, AsChar

(* Every step of the console, its drivers and their threads.               *)
LEMMA ConsoleNextInv == ConsoleInv /\ [ConsoleNext]_consoleVars => ConsoleInv'
<1> SUFFICES ASSUME ConsoleInv, [ConsoleNext]_consoleVars PROVE ConsoleInv'
  OBVIOUS
<1>0. /\ stage \in [Threads -> {"idle", "acquire", "request", "wait", "done"}]
      /\ at \in [Threads -> {"out", "acquire", "P", "get"}]
      /\ \A t \in Threads : /\ at[t] # "out" => ch[t] = EOF
                            /\ stage[t] # "idle" => ch[t] # EOF
  BY DEF ConsoleInv, ConsoleTypeOK
<1>1. ASSUME UNCHANGED <<stage, at, position, incoming, polling, ch, written>>
      PROVE  ConsoleInv'
  <2>1. \A p : HeldBy(p)' = HeldBy(p) /\ WrittenAt(p)' = WrittenAt(p)
    BY <1>1 DEF HeldBy, WrittenAt
  <2>2. \A p : InOnePlace(p) => InOnePlace(p)'
    BY <1>1, <2>1 DEF InOnePlace
  <2> QED  BY <1>1, <2>2 DEF ConsoleInv, ConsoleTypeOK, AsChar
<1>2. CASE OutputCallBack
  BY <1>1, <1>2 DEF OutputCallBack, CallBack, inVars
<1>3. ASSUME NEW t \in Threads, CallGetChar(t) PROVE ConsoleInv'
  <2>1. /\ UNCHANGED <<stage, position, incoming, polling, ch, written>>
        /\ at' = [at EXCEPT ![t] = "acquire"] /\ ch[t] = EOF
    BY <1>3 DEF CallGetChar, Moves, driverVars
  <2> QED  BY <1>0, <2>1, OtherStepsKeepChars
<1>4. ASSUME NEW t \in Threads, AcquireInput(t) \/ WaitForChar(t)
      PROVE  ConsoleInv'
  <2>1. /\ UNCHANGED <<stage, position, incoming, polling, ch, written>>
        /\ at[t] # "out"
        /\ \E to \in {"P", "get"} : at' = [at EXCEPT ![t] = to]
    BY <1>0, <1>4 DEF AcquireInput, WaitForChar, Moves, driverVars
  <2> QED  BY <1>0, <2>1, OtherStepsKeepChars
<1>5. ASSUME NEW t \in Threads, PutChar(t) PROVE ConsoleInv'
  <2>1. ch[t] # EOF /\ UNCHANGED inVars
    BY <1>5 DEF PutChar
  <2>2. CASE Request(t) /\ written' = Append(written, ch[t]) /\ UNCHANGED ch
    BY <2>1, <2>2, RequestKeepsChars
  <2>3. CASE ReleaseDevice(t) /\ ch' = [ch EXCEPT ![t] = EOF] /\ UNCHANGED written
    BY <2>1, <2>3, ReleaseKeepsChars
  <2>4. CASE Call(t) \/ AcquireDevice(t) \/ WaitAgain(t)
    <3>1. CASE UNCHANGED <<ch, written>>
      <4>1. /\ \/ stage[t] \in {"idle", "acquire"} /\ stage'[t] \in {"acquire", "request"}
               \/ stage[t] = "wait" /\ stage'[t] \in {"wait", "done"}
            /\ stage' = [stage EXCEPT ![t] = stage'[t]]
            /\ UNCHANGED <<at, position, incoming, polling>>
        BY <1>0, <2>1, <2>4
           DEF Call, AcquireDevice, WaitAgain, TestSemaphore, Advance, inVars
      <4>2. stage' \in [Threads -> {"idle", "acquire", "request", "wait", "done"}]
        BY <1>0, <4>1
      <4>3. \A u \in Threads : u # t => stage'[u] = stage[u]
        BY <1>0, <4>1
      <4> QED  BY <1>0, <2>1, <3>1, <4>1, <4>2, <4>3, OtherStepsKeepChars
    <3>2. CASE ~ UNCHANGED <<ch, written>>
      BY <1>5, <2>2, <2>3, <3>2 DEF PutChar
    <3> QED  BY <3>1, <3>2
  <2> QED  BY <1>5, <2>2, <2>3, <2>4 DEF PutChar
<1>6. CASE UNCHANGED consoleVars
  BY <1>1, <1>6 DEF consoleVars, driverVars, inVars
<1> QED  BY <1>2, <1>3, <1>4, <1>5, <1>6, InputKeepsChars, GetCharKeepsChars
         DEF ConsoleNext

(* For every input file and every set of threads that echo it: a character *)
(* that the device has read from the file is in exactly one place, in the  *)
(* device, with a thread, or once in the output file.                      *)
THEOREM ConsoleKeepsChars == ConsoleSafety => []CharsKept
<1>1. ConsoleInv => CharsKept
  <2> SUFFICES ASSUME ConsoleInv, NEW p \in 1..(position - 1), AsChar(p) # EOF
               PROVE  Cardinality(Places(p)) = 1
    BY DEF CharsKept
  <2>1. InOnePlace(p)
    BY DEF ConsoleInv
  <2>2. \E x : Places(p) = {x}
    <3>1. CASE incoming = p /\ HeldBy(p) = {} /\ WrittenAt(p) = {}
      <4>1. Places(p) = {<<"device", p>>}
        BY <3>1 DEF Places, HeldBy, WrittenAt
      <4> QED  BY <4>1
    <3>2. CASE incoming # p
      <4>1. CASE WrittenAt(p) = {} /\ \E t \in Threads : HeldBy(p) = {t}
        <5>1. PICK t \in Threads : HeldBy(p) = {t}
          BY <4>1
        <5>2. Places(p) = {<<"thread", t>>}
          BY <3>2, <4>1, <5>1 DEF Places, HeldBy, WrittenAt
        <5> QED  BY <5>2
      <4>2. CASE HeldBy(p) = {} /\ \E i \in DOMAIN written : WrittenAt(p) = {i}
        <5>1. PICK i \in DOMAIN written : WrittenAt(p) = {i}
          BY <4>2
        <5>2. Places(p) = {<<"written", i>>}
          BY <3>2, <4>2, <5>1 DEF Places, HeldBy, WrittenAt
        <5> QED  BY <5>2
      <4> QED  BY <2>1, <3>2, <4>1, <4>2 DEF InOnePlace
    <3> QED  BY <2>1, <3>1, <3>2 DEF InOnePlace
  <2> QED  BY <2>2, FS_Singleton
<1> QED  BY <1>1, ConsoleInitInv, ConsoleNextInv, PTL DEF ConsoleSafety

=============================================================================
