------------------------- MODULE SemaphoresProofs -------------------------
(***************************************************************************)
(* The safety of the scheduler and of the semaphores, for any number of    *)
(* threads and semaphores.                                                 *)
(*                                                                         *)
(* The invariants of Scheduler are inductive together: that a finished     *)
(* thread is freed once needs where stacks stand, which needs that the     *)
(* ready list and the READY status agree, which needs that only one thread *)
(* runs.                                                                   *)
(*                                                                         *)
(* No wake-up is lost: the inductive invariant adds to NoLostWakeup and    *)
(* BlockedExactlyOnce where a thread inside P can stand, and rests on the  *)
(* scheduler's invariants, which hold because the semaphores implement the *)
(* scheduler's specification (SemaphoresUseScheduler).                     *)
(***************************************************************************)
EXTENDS Semaphores, ListFacts, FiniteSetTheorems

----------------------------------------------------------------------------
(* The scheduler.                                                          *)

SchedInv ==
    /\ SchedTypeOK
    /\ ReadyExactlyOnce
    /\ OneThreadRuns
    /\ FinishedFreedOnce
    /\ PlaceMatchesStatus

(* Kernel::Initialize leaves a state that satisfies the invariants.        *)
THEOREM SchedInitInv == SchedInit => SchedInv
<1> SUFFICES ASSUME SchedInit PROVE SchedInv
  OBVIOUS
<1> USE ThreadsAssumption
<1>1. SchedTypeOK
  BY DEF SchedInit, SchedTypeOK, Statuses, Places
<1>2. ReadyExactlyOnce
  BY DEF SchedInit, ReadyExactlyOnce, IsInjective, ToSet
<1>3. OneThreadRuns
  BY DEF SchedInit, OneThreadRuns, Running
<1>4. FinishedFreedOnce
  BY DEF SchedInit, FinishedFreedOnce
<1>5. PlaceMatchesStatus
  BY DEF SchedInit, PlaceMatchesStatus
<1> QED  BY <1>1, <1>2, <1>3, <1>4, <1>5 DEF SchedInv

(* ReadyToRun on a thread that is not READY keeps list and status in step. *)
LEMMA ReadyToRunFacts ==
    ASSUME SchedTypeOK, ReadyExactlyOnce, NEW t \in Threads,
           status[t] # "READY", ReadyToRun(t)
    PROVE  /\ readyList' \in Seq(Threads)
           /\ status' \in [Threads -> Statuses]
           /\ ReadyExactlyOnce'
<1>1. /\ readyList \in Seq(Threads)
      /\ status \in [Threads -> Statuses]
  BY DEF SchedTypeOK
<1>2. IsInjective(readyList) /\ t \notin ToSet(readyList)
  BY DEF ReadyExactlyOnce
<1>3. /\ readyList' \in Seq(Threads)
      /\ ToSet(readyList') = ToSet(readyList) \cup {t}
      /\ IsInjective(readyList')
  BY <1>1, <1>2, AppendFacts DEF ReadyToRun
<1>4. status' = [status EXCEPT ![t] = "READY"]
  BY DEF ReadyToRun
<1>5. status' \in [Threads -> Statuses]
  BY <1>1, <1>4 DEF Statuses
<1>6. ASSUME NEW u \in Threads
      PROVE  status'[u] = "READY" <=> u \in ToSet(readyList')
  BY <1>1, <1>3, <1>4 DEF ReadyExactlyOnce
<1> QED  BY <1>3, <1>5, <1>6 DEF ReadyExactlyOnce

(* Run switches away from a thread that is outside SWITCH, so that nobody  *)
(* waits to be destroyed: the invariants hold on the next stack.           *)
LEMMA RunInv ==
    ASSUME SchedInv, readyList # <<>>,
           NEW old, NEW ready \in Seq(Threads), NEW where,
           Run(old, ready, where),
           pc[currentThread] \in {"body", "woken", "sleep", "finish"},
           IsInjective(ready),
           \A u \in Threads : u \in ToSet(ready) <=>
               /\ u # Head(readyList)
               /\ IF u = currentThread THEN old = "READY"
                                       ELSE status[u] = "READY",
           \/ old = "READY" /\ where \in {"yielded", "slept"}
           \/ old = "BLOCKED" /\ where \in {"slept", "dead"},
           Head(readyList) = currentThread => where = "slept"
    PROVE  SchedInv'
<1> DEFINE self == currentThread
           next == Head(readyList)
<1>1. /\ self \in Threads
      /\ readyList \in Seq(Threads)
      /\ status \in [Threads -> Statuses]
      /\ pc \in [Threads -> Places]
      /\ toBeDestroyed \in Threads \cup {NULL}
  BY DEF SchedInv, SchedTypeOK
<1>2. next \in Threads /\ next \in ToSet(readyList)
  BY <1>1, RemoveFrontFacts DEF SchedInv, ReadyExactlyOnce
<1>3. /\ status[next] = "READY"
      /\ pc[next] \in {"begin", "yielded", "slept", "sleep"}
  BY <1>2 DEF SchedInv, ReadyExactlyOnce, PlaceMatchesStatus
<1>4. toBeDestroyed = NULL
  BY DEF SchedInv, FinishedFreedOnce
<1>5. /\ readyList' = ready
      /\ currentThread' = next
      /\ status' = [status EXCEPT ![self] = old, ![next] = "RUNNING"]
      /\ pc' = [pc EXCEPT ![self] = where]
      /\ toBeDestroyed' = IF where = "dead" THEN self ELSE toBeDestroyed
      /\ level' = "IntOff"
  BY DEF Run
<1>6. \A u \in Threads : status'[u] = IF u = next THEN "RUNNING"
                                      ELSE IF u = self THEN old
                                      ELSE status[u]
  BY <1>1, <1>2, <1>5
<1>7. \A u \in Threads : pc'[u] = IF u = self THEN where ELSE pc[u]
  BY <1>1, <1>5
<1>8. SchedTypeOK'
  BY <1>1, <1>2, <1>5 DEF SchedTypeOK, Statuses, Places
<1>9. ReadyExactlyOnce'
  <2>1. ASSUME NEW u \in Threads
        PROVE  status'[u] = "READY" <=> u \in ToSet(ready)
    BY <1>6
  <2> QED  BY <2>1, <1>5 DEF ReadyExactlyOnce
<1>10. \A u \in Threads : u # self => pc[u] \notin
          {"body", "woken", "sleep", "finish"}
  BY DEF SchedInv, PlaceMatchesStatus
<1>11. pc'[next] \in {"begin", "yielded", "slept"}
  BY <1>2, <1>3, <1>7, <1>10
<1>12. OneThreadRuns'
  <2>1. \A u \in Threads : status'[u] = "RUNNING" => u = next
    BY <1>6 DEF SchedInv, OneThreadRuns
  <2> QED  BY <2>1, <1>2, <1>5, <1>6, <1>11 DEF OneThreadRuns, Running
<1>13. FinishedFreedOnce'
  <2>1. \A u \in Threads : pc[u] # "dead"
    BY <1>4, ThreadsAssumption DEF SchedInv, FinishedFreedOnce
  <2>2. \A u \in Threads : pc'[u] = "dead" <=> u = toBeDestroyed'
    BY <2>1, <1>1, <1>4, <1>5, <1>7, ThreadsAssumption
  <2>3. ASSUME toBeDestroyed' # NULL
        PROVE  /\ toBeDestroyed' # currentThread'
               /\ status'[toBeDestroyed'] = "BLOCKED"
    BY <2>3, <1>1, <1>2, <1>4, <1>5, <1>6
  <2> QED  BY <2>2, <2>3, <1>5, <1>11 DEF FinishedFreedOnce
<1>14. PlaceMatchesStatus'
  BY <1>1, <1>2, <1>3, <1>5, <1>6, <1>7, <1>10, <1>11
     DEF SchedInv, PlaceMatchesStatus
<1> QED  BY <1>8, <1>9, <1>12, <1>13, <1>14 DEF SchedInv

(* CheckToBeDestroyed on the next stack deletes the finished thread.       *)
LEMMA CheckToBeDestroyedInv ==
    ASSUME SchedInv, NEW here \in {"body", "woken"},
           pc[currentThread] \in {"begin", "yielded", "slept"},
           CheckToBeDestroyed(here),
           level' = IF here = "body" THEN "IntOn" ELSE "IntOff",
           UNCHANGED <<currentThread, readyList>>
    PROVE  SchedInv'
<1>1. /\ currentThread \in Threads
      /\ status \in [Threads -> Statuses]
      /\ pc \in [Threads -> Places]
      /\ toBeDestroyed \in Threads \cup {NULL}
  BY DEF SchedInv, SchedTypeOK
<1>2. /\ toBeDestroyed # currentThread
      /\ toBeDestroyed # NULL => status[toBeDestroyed] = "BLOCKED"
      /\ \A t \in Threads : pc[t] = "dead" <=> t = toBeDestroyed
  BY <1>1, ThreadsAssumption DEF SchedInv, FinishedFreedOnce
<1>3. /\ status' \in [Threads -> Statuses]
      /\ \A t \in Threads :
            status'[t] = IF t = toBeDestroyed THEN "NONE" ELSE status[t]
  BY <1>1, ThreadsAssumption DEF CheckToBeDestroyed, Statuses
<1>4. /\ pc' \in [Threads -> Places]
      /\ \A t \in Threads :
            pc'[t] = IF t = toBeDestroyed THEN "none"
                     ELSE IF t = currentThread THEN here ELSE pc[t]
  BY <1>1, ThreadsAssumption DEF CheckToBeDestroyed, Places
<1>5. toBeDestroyed' = NULL
  BY DEF CheckToBeDestroyed
<1>6. status[currentThread] = "RUNNING"
  BY DEF SchedInv, OneThreadRuns
<1>7. SchedTypeOK'
  BY <1>3, <1>4, <1>5 DEF SchedInv, SchedTypeOK
<1>8. ReadyExactlyOnce'
  BY <1>2, <1>3, ThreadsAssumption DEF SchedInv, ReadyExactlyOnce
<1>9. OneThreadRuns'
  BY <1>1, <1>2, <1>3, <1>4, <1>6 DEF SchedInv, OneThreadRuns, Running
<1>10. FinishedFreedOnce'
  BY <1>2, <1>4, <1>5, ThreadsAssumption DEF FinishedFreedOnce
<1>11. PlaceMatchesStatus'
  BY <1>1, <1>2, <1>3, <1>4, <1>6, ThreadsAssumption
     DEF SchedInv, PlaceMatchesStatus
<1> QED  BY <1>7, <1>8, <1>9, <1>10, <1>11 DEF SchedInv

(* One step of the scheduler keeps the invariants.                         *)
THEOREM SchedNextInv == SchedInv /\ [SchedNext]_schedVars => SchedInv'
<1> SUFFICES ASSUME SchedInv, [SchedNext]_schedVars PROVE SchedInv'
  OBVIOUS
<1>1. /\ SchedTypeOK /\ ReadyExactlyOnce /\ OneThreadRuns
      /\ FinishedFreedOnce /\ PlaceMatchesStatus
  BY DEF SchedInv
<1>2. /\ currentThread \in Threads
      /\ readyList \in Seq(Threads)
      /\ IsInjective(readyList)
      /\ status \in [Threads -> Statuses]
      /\ pc \in [Threads -> Places]
  BY <1>1 DEF SchedTypeOK, ReadyExactlyOnce
<1>3. ASSUME NEW t \in Threads, NewThread(t) PROVE SchedInv'
  <2>1. /\ status' = [status EXCEPT ![t] = "JUST_CREATED"]
        /\ status[t] = "NONE"
        /\ UNCHANGED <<currentThread, readyList, toBeDestroyed, pc, level>>
    BY <1>3 DEF NewThread
  <2>2. SchedTypeOK'
    BY <1>1, <2>1 DEF SchedTypeOK, Statuses
  <2>3. ReadyExactlyOnce'
    BY <1>1, <1>2, <2>1 DEF ReadyExactlyOnce
  <2>4. OneThreadRuns'
    BY <1>1, <1>2, <2>1 DEF OneThreadRuns, Running
  <2>5. FinishedFreedOnce'
    BY <1>1, <1>2, <2>1 DEF FinishedFreedOnce, SchedTypeOK
  <2>6. PlaceMatchesStatus'
    BY <1>1, <1>2, <2>1 DEF PlaceMatchesStatus
  <2> QED  BY <2>2, <2>3, <2>4, <2>5, <2>6 DEF SchedInv
<1>4. ASSUME NEW t \in Threads, Fork(t) PROVE SchedInv'
  <2>1. /\ status' = [status EXCEPT ![t] = "READY"]
        /\ status[t] = "JUST_CREATED"
        /\ pc' = [pc EXCEPT ![t] = "begin"]
        /\ pc[currentThread] = "body"
        /\ UNCHANGED <<currentThread, toBeDestroyed, level>>
    BY <1>4 DEF Fork, ReadyToRun, Running
  <2>2. readyList' \in Seq(Threads) /\ ReadyExactlyOnce'
    BY <1>1, <1>4, <2>1, ReadyToRunFacts DEF Fork
  <2>3. pc[t] = "none" /\ t # currentThread /\ toBeDestroyed = NULL
    BY <1>1, <2>1 DEF PlaceMatchesStatus, FinishedFreedOnce
  <2>4. SchedTypeOK'
    BY <1>1, <2>1, <2>2 DEF SchedTypeOK, Statuses, Places
  <2>5. OneThreadRuns'
    BY <1>1, <1>2, <2>1, <2>3 DEF OneThreadRuns, Running
  <2>6. FinishedFreedOnce'
    BY <1>1, <1>2, <2>1, <2>3, ThreadsAssumption DEF FinishedFreedOnce
  <2>7. PlaceMatchesStatus'
    BY <1>1, <1>2, <2>1, <2>3 DEF PlaceMatchesStatus
  <2> QED  BY <2>2, <2>4, <2>5, <2>6, <2>7 DEF SchedInv
<1>5. ASSUME NEW t \in Threads, Wake(t) \/ IdleWake(t) PROVE SchedInv'
  <2>1. /\ status' = [status EXCEPT ![t] = "READY"]
        /\ status[t] = "BLOCKED"
        /\ ReadyToRun(t)
        /\ pc[currentThread] \in {"body", "sleep", "finish"}
        /\ UNCHANGED <<currentThread, toBeDestroyed, pc, level>>
    BY <1>5 DEF Wake, IdleWake, ReadyToRun, Running
  <2>2. readyList' \in Seq(Threads) /\ ReadyExactlyOnce'
    BY <1>1, <2>1, ReadyToRunFacts
  <2>3. /\ pc[t] \in {"sleep", "slept"}
        /\ toBeDestroyed = NULL
    BY <1>1, <1>5, ThreadsAssumption
       DEF Wake, IdleWake, Running, PlaceMatchesStatus, FinishedFreedOnce
  <2>4. SchedTypeOK'
    BY <1>1, <2>1, <2>2 DEF SchedTypeOK, Statuses
  <2>5. OneThreadRuns'
    BY <1>1, <1>2, <2>1, <2>3 DEF OneThreadRuns, Running
  <2>6. FinishedFreedOnce'
    BY <1>1, <1>2, <2>1, <2>3 DEF FinishedFreedOnce
  <2>7. PlaceMatchesStatus'
    BY <1>1, <1>2, <2>1, <2>3 DEF PlaceMatchesStatus
  <2> QED  BY <2>2, <2>4, <2>5, <2>6, <2>7 DEF SchedInv
<1>6. CASE Begin \/ YieldReturns
  BY <1>6, CheckToBeDestroyedInv DEF Begin, YieldReturns
<1>7. CASE SleepReturns
  <2>1. level = "IntOff"
    BY <1>1, <1>7 DEF SleepReturns, OneThreadRuns, Running, SchedTypeOK
  <2> QED  BY <1>7, <2>1, CheckToBeDestroyedInv DEF SleepReturns
<1>8. ASSUME NEW finishing \in BOOLEAN, Sleep(finishing),
             pc[currentThread] \in {"body", "woken"}
      PROVE  SchedInv'
  <2>1. CASE readyList = <<>>
    <3>1. /\ status' = [status EXCEPT ![currentThread] = "BLOCKED"]
          /\ pc' = [pc EXCEPT ![currentThread] =
                        IF finishing THEN "finish" ELSE "sleep"]
          /\ level' = "IntOff"
          /\ UNCHANGED <<currentThread, readyList, toBeDestroyed>>
          /\ status[currentThread] = "RUNNING"
          /\ toBeDestroyed = NULL
      BY <1>1, <1>8, <2>1 DEF Sleep, OneThreadRuns, FinishedFreedOnce
    <3>2. SchedTypeOK'
      BY <1>1, <3>1 DEF SchedTypeOK, Statuses, Places
    <3>3. ReadyExactlyOnce'
      BY <1>1, <1>2, <3>1 DEF ReadyExactlyOnce
    <3>4. OneThreadRuns'
      BY <1>1, <1>2, <3>1 DEF OneThreadRuns, Running
    <3>5. FinishedFreedOnce'
      <4>1. \A u \in Threads : pc'[u] = "dead" <=> pc[u] = "dead"
        <5>1. pc'[currentThread] # "dead" /\ pc[currentThread] # "dead"
          BY <1>2, <1>8, <3>1
        <5> QED  BY <1>2, <3>1, <5>1
      <4> QED  BY <1>1, <3>1, <4>1 DEF FinishedFreedOnce
    <3>6. PlaceMatchesStatus'
      BY <1>1, <1>2, <3>1 DEF PlaceMatchesStatus
    <3> QED  BY <3>2, <3>3, <3>4, <3>5, <3>6 DEF SchedInv
  <2>2. CASE readyList # <<>>
    <3> DEFINE where == IF finishing THEN "dead" ELSE "slept"
    <3>1. Run("BLOCKED", Tail(readyList), where)
      BY <1>8, <2>2 DEF Sleep
    <3>2. /\ Tail(readyList) \in Seq(Threads)
          /\ IsInjective(Tail(readyList))
          /\ ToSet(Tail(readyList)) = ToSet(readyList) \ {Head(readyList)}
          /\ Head(readyList) \in ToSet(readyList)
          /\ Head(readyList) \in Threads
      BY <1>2, <2>2, RemoveFrontFacts
    <3>3. status[currentThread] = "RUNNING"
      BY <1>1, <1>8 DEF OneThreadRuns
    <3>4. Head(readyList) # currentThread
      BY <1>1, <3>2, <3>3 DEF ReadyExactlyOnce
    <3>5. \A u \in Threads : u \in ToSet(Tail(readyList)) <=>
             /\ u # Head(readyList)
             /\ IF u = currentThread THEN "BLOCKED" = "READY"
                                     ELSE status[u] = "READY"
      BY <1>1, <3>2, <3>3 DEF ReadyExactlyOnce
    <3>6. where \in {"slept", "dead"}
      OBVIOUS
    <3> HIDE DEF where
    <3> QED  BY <1>8, <2>2, <3>1, <3>2, <3>4, <3>5, <3>6, RunInv
  <2> QED  BY <2>1, <2>2
<1>9. CASE Block
  BY <1>8, <1>9 DEF Block, Running
<1>10. CASE Finish
  BY <1>8, <1>10 DEF Finish, Running
<1>11. CASE Resume
  <2>1. /\ pc[currentThread] = "woken"
        /\ pc' = [pc EXCEPT ![currentThread] = "body"]
        /\ level' = "IntOn"
        /\ UNCHANGED <<currentThread, readyList, toBeDestroyed, status>>
        /\ status[currentThread] = "RUNNING"
        /\ toBeDestroyed = NULL
    BY <1>1, <1>11 DEF Resume, OneThreadRuns, FinishedFreedOnce
  <2>2. SchedTypeOK'
    BY <1>1, <2>1 DEF SchedTypeOK, Places
  <2>3. ReadyExactlyOnce'
    BY <1>1, <2>1 DEF ReadyExactlyOnce
  <2>4. OneThreadRuns'
    BY <1>1, <1>2, <2>1 DEF OneThreadRuns, Running
  <2>5. FinishedFreedOnce'
    BY <1>1, <1>2, <2>1 DEF FinishedFreedOnce
  <2>6. PlaceMatchesStatus'
    BY <1>1, <1>2, <2>1 DEF PlaceMatchesStatus
  <2> QED  BY <2>2, <2>3, <2>4, <2>5, <2>6 DEF SchedInv
<1>12. CASE Yield
  <2> DEFINE rest == Tail(readyList)
             ready == Append(rest, currentThread)
  <2>1. /\ pc[currentThread] = "body"
        /\ readyList # <<>>
        /\ Run("READY", ready, "yielded")
    BY <1>12 DEF Yield, Running
  <2>2. status[currentThread] = "RUNNING"
    BY <1>1, <2>1 DEF OneThreadRuns
  <2>3. /\ rest \in Seq(Threads)
        /\ IsInjective(rest)
        /\ ToSet(rest) = ToSet(readyList) \ {Head(readyList)}
        /\ Head(readyList) \in ToSet(readyList)
        /\ Head(readyList) \in Threads
    BY <1>2, <2>1, RemoveFrontFacts
  <2>4. currentThread \notin ToSet(readyList)
    BY <1>1, <1>2, <2>2 DEF ReadyExactlyOnce
  <2>5. /\ ready \in Seq(Threads)
        /\ IsInjective(ready)
        /\ ToSet(ready) = ToSet(rest) \cup {currentThread}
    <3>1. /\ rest \in Seq(Threads) /\ IsInjective(rest)
          /\ currentThread \in Threads /\ currentThread \notin ToSet(rest)
      BY <1>2, <2>3, <2>4
    <3> HIDE DEF rest
    <3> QED  BY <3>1, AppendFacts
  <2>6. Head(readyList) # currentThread
    BY <2>3, <2>4
  <2> HIDE DEF ready, rest
  <2>7. \A u \in Threads : u \in ToSet(ready) <=>
           /\ u # Head(readyList)
           /\ IF u = currentThread THEN "READY" = "READY"
                                   ELSE status[u] = "READY"
    BY <1>1, <2>3, <2>5, <2>6 DEF ReadyExactlyOnce
  <2> QED  BY <2>1, <2>5, <2>6, <2>7, RunInv
<1>13. CASE IdleReturns
  <2> DEFINE old == status[currentThread]
             where == IF pc[currentThread] = "finish" THEN "dead" ELSE "slept"
  <2>1. /\ pc[currentThread] \in {"sleep", "finish"}
        /\ readyList # <<>>
        /\ Run(old, Tail(readyList), where)
    BY <1>13 DEF IdleReturns
  <2>2. /\ Tail(readyList) \in Seq(Threads)
        /\ IsInjective(Tail(readyList))
        /\ ToSet(Tail(readyList)) = ToSet(readyList) \ {Head(readyList)}
        /\ Head(readyList) \in ToSet(readyList)
        /\ Head(readyList) \in Threads
    BY <1>2, <2>1, RemoveFrontFacts
  <2>3. \/ old = "READY" /\ where \in {"yielded", "slept"}
        \/ old = "BLOCKED" /\ where \in {"slept", "dead"}
    BY <1>1, <1>2, <2>1 DEF PlaceMatchesStatus, Statuses
  <2>4. Head(readyList) = currentThread => where = "slept"
    BY <1>1, <1>2, <2>1, <2>2 DEF PlaceMatchesStatus, ReadyExactlyOnce
  <2>5. \A u \in Threads : u \in ToSet(Tail(readyList)) <=>
           /\ u # Head(readyList)
           /\ IF u = currentThread THEN old = "READY"
                                   ELSE status[u] = "READY"
    BY <1>1, <2>2 DEF ReadyExactlyOnce
  <2> HIDE DEF old, where
  <2> QED  BY <2>1, <2>2, <2>3, <2>4, <2>5, RunInv
<1>14. CASE UNCHANGED schedVars
  BY <1>1, <1>14 DEF schedVars, SchedInv, SchedTypeOK, ReadyExactlyOnce,
     OneThreadRuns, Running, FinishedFreedOnce, PlaceMatchesStatus
<1> QED
  BY <1>3, <1>4, <1>5, <1>6, <1>7, <1>9, <1>10, <1>11, <1>12, <1>13, <1>14
     DEF SchedNext

(* The scheduler keeps its types and its four invariants, for any number   *)
(* of threads and any order of their steps and of the interrupts.          *)
THEOREM SchedulerSafe ==
    SchedSafety => [](/\ SchedTypeOK
                      /\ ReadyExactlyOnce
                      /\ OneThreadRuns
                      /\ FinishedFreedOnce
                      /\ PlaceMatchesStatus)
<1>1. SchedInv => /\ SchedTypeOK
                  /\ ReadyExactlyOnce
                  /\ OneThreadRuns
                  /\ FinishedFreedOnce
                  /\ PlaceMatchesStatus
  BY DEF SchedInv
<1> QED  BY <1>1, SchedInitInv, SchedNextInv, PTL DEF SchedSafety

(* Every thread that is READY is on the ready list, once, and no other is. *)
THEOREM ReadyListSafe == SchedSafety => []ReadyExactlyOnce
<1> QED  BY SchedulerSafe, PTL

----------------------------------------------------------------------------
(* The semaphores.                                                         *)

(* A thread is inside P exactly when it sleeps, or was woken from sleep.   *)
InsideP ==
    \A t \in Threads : waitingFor[t] # NULL <=>
                           pc[t] \in {"sleep", "slept", "woken"}

SemInv ==
    /\ TypeOK
    /\ SchedInv
    /\ InsideP
    /\ BlockedExactlyOnce
    /\ NoLostWakeup

(* Initially nobody waits.                                                 *)
THEOREM SemInitInv == Init => SemInv
<1> SUFFICES ASSUME Init PROVE SemInv
  OBVIOUS
<1> USE ThreadsAssumption, SemsAssumption
<1>1. SchedInv
  BY SchedInitInv DEF Init
<1>2. TypeOK
  BY <1>1 DEF Init, TypeOK, SchedInv
<1>3. InsideP
  BY DEF Init, InsideP, SchedInit
<1>4. BlockedExactlyOnce
  BY DEF Init, BlockedExactlyOnce, SchedInit, IsInjective, ToSet
<1>5. NoLostWakeup
  BY DEF Init, NoLostWakeup
<1> QED  BY <1>1, <1>2, <1>3, <1>4, <1>5 DEF SemInv

(* Every step of the semaphores is a step of the scheduler, or leaves it.  *)
LEMMA SemNextUsesScheduler ==
    ASSUME TypeOK, Next PROVE [SchedNext]_schedVars
<1>1. ASSUME NEW s, PTest(s) PROVE [SchedNext]_schedVars
  BY <1>1 DEF PTest, SchedNext
<1>2. ASSUME NEW s \in Sems, P(s) PROVE [SchedNext]_schedVars
  BY <1>1, <1>2 DEF P
<1>3. ASSUME PAgain PROVE [SchedNext]_schedVars
  BY <1>1, <1>3 DEF PAgain
<1>4. ASSUME NEW s \in Sems, V(s) PROVE [SchedNext]_schedVars
  <2>1. CASE queue[s] = <<>>
    BY <1>4, <2>1 DEF V
  <2>2. CASE queue[s] # <<>>
    <3>1. Head(queue[s]) \in Threads
      BY <2>2 DEF TypeOK
    <3> QED  BY <1>4, <2>2, <3>1 DEF V, SchedNext
  <2> QED  BY <2>1, <2>2
<1>5. ASSUME ThreadStep PROVE [SchedNext]_schedVars
  BY <1>5 DEF ThreadStep, SchedNext
<1> QED  BY <1>2, <1>3, <1>4, <1>5 DEF Next

(* The number of threads about to test a semaphore is a natural number.    *)
LEMMA ContendersFinite ==
    ASSUME NEW s
    PROVE  IsFiniteSet(Contenders(s)) /\ Cardinality(Contenders(s)) \in Nat
<1>1. Contenders(s) \subseteq Threads
  BY DEF Contenders
<1> QED  BY <1>1, SemsAssumption, FS_Subset, FS_CardinalityType

----------------------------------------------------------------------------
Asleep(t) == status[t] = "BLOCKED" /\ pc[t] \in {"sleep", "slept"}
AtP(t) == pc[t] \in {"sleep", "slept", "woken"}

(* Switching between threads leaves every thread inside, or outside, P.    *)
LEMMA ThreadStepFacts ==
    ASSUME SchedInv, ThreadStep, NEW t \in Threads
    PROVE  (Asleep(t)' <=> Asleep(t)) /\ (AtP(t)' <=> AtP(t))
<1>1. /\ currentThread \in Threads
      /\ readyList \in Seq(Threads)
      /\ status \in [Threads -> Statuses]
      /\ pc \in [Threads -> Places]
      /\ OneThreadRuns /\ PlaceMatchesStatus /\ FinishedFreedOnce
      /\ ReadyExactlyOnce
  BY DEF SchedInv, SchedTypeOK, ReadyExactlyOnce
<1> USE DEF Asleep, AtP
<1>2. ASSUME NEW u \in Threads, NewThread(u) \/ Fork(u)
      PROVE  (Asleep(t)' <=> Asleep(t)) /\ (AtP(t)' <=> AtP(t))
  <2>1. CASE t # u
    BY <1>1, <1>2, <2>1 DEF NewThread, Fork, ReadyToRun
  <2>2. CASE t = u
    BY <1>1, <1>2, <2>2
       DEF NewThread, Fork, ReadyToRun, PlaceMatchesStatus
  <2> QED  BY <2>1, <2>2
<1>3. CASE Begin \/ YieldReturns \/ SleepReturns
  <2>1. t = toBeDestroyed <=> pc[t] = "dead"
    BY <1>1 DEF FinishedFreedOnce
  <2>2. t = toBeDestroyed => t \in {toBeDestroyed} \ {NULL}
    BY ThreadsAssumption
  <2>3. status'[t] = IF t = toBeDestroyed THEN "NONE" ELSE status[t]
    BY <1>3, <2>2 DEF Begin, YieldReturns, SleepReturns, CheckToBeDestroyed
  <2>4. \E here \in {"body", "woken"} :
           /\ here = "body" => pc[currentThread] \in {"begin", "yielded"}
           /\ here = "woken" => pc[currentThread] = "slept"
           /\ pc'[t] = IF t = toBeDestroyed THEN "none"
                       ELSE IF t = currentThread THEN here ELSE pc[t]
    BY <1>3, <2>2 DEF Begin, YieldReturns, SleepReturns, CheckToBeDestroyed
  <2>5. status[currentThread] = "BLOCKED"
            => pc[currentThread] \in {"sleep", "finish"}
    BY <1>1 DEF OneThreadRuns
  <2> QED  BY <2>1, <2>3, <2>4, <2>5
<1>4. ASSUME readyList # <<>>, NEW old, NEW ready, NEW where,
             Run(old, ready, where)
      PROVE  /\ status[Head(readyList)] = "READY"
             /\ status'[t] = IF t = Head(readyList) THEN "RUNNING"
                             ELSE IF t = currentThread THEN old
                             ELSE status[t]
             /\ pc'[t] = IF t = currentThread THEN where ELSE pc[t]
  <2>1. Head(readyList) \in Threads /\ Head(readyList) \in ToSet(readyList)
    BY <1>1, <1>4, RemoveFrontFacts DEF ReadyExactlyOnce
  <2> QED  BY <1>1, <1>4, <2>1 DEF Run, ReadyExactlyOnce
<1>5. CASE Yield
  <2>1. status[currentThread] = "RUNNING" /\ pc[currentThread] = "body"
    BY <1>1, <1>5 DEF Yield, Running, OneThreadRuns
  <2> QED  BY <1>4, <1>5, <2>1 DEF Yield
<1>6. CASE Finish
  <2>1. status[currentThread] = "RUNNING" /\ pc[currentThread] = "body"
    BY <1>1, <1>6 DEF Finish, Running, OneThreadRuns
  <2>2. CASE readyList = <<>>
    BY <1>1, <1>6, <2>1, <2>2 DEF Finish, Sleep
  <2>3. CASE readyList # <<>>
    BY <1>4, <1>6, <2>1, <2>3 DEF Finish, Sleep
  <2> QED  BY <2>2, <2>3
<1>7. CASE IdleReturns
  <2>1. /\ readyList # <<>>
        /\ pc[currentThread] \in {"sleep", "finish"}
        /\ Run(status[currentThread], Tail(readyList),
               IF pc[currentThread] = "finish" THEN "dead" ELSE "slept")
    BY <1>7 DEF IdleReturns
  <2>2. /\ status[Head(readyList)] = "READY"
        /\ status'[t] = IF t = Head(readyList) THEN "RUNNING" ELSE status[t]
        /\ pc'[t] = IF t = currentThread
                    THEN IF pc[currentThread] = "finish"
                         THEN "dead" ELSE "slept"
                    ELSE pc[t]
    BY <1>4, <2>1
  <2> QED  BY <2>1, <2>2
<1> QED  BY <1>2, <1>3, <1>5, <1>6, <1>7 DEF ThreadStep

(* Block puts the current thread to sleep inside P and moves nobody else.  *)
LEMMA BlockFacts ==
    ASSUME SchedInv, Block, NEW t \in Threads
    PROVE  /\ t = currentThread => ~Asleep(t) /\ Asleep(t)' /\ AtP(t)'
           /\ t # currentThread =>
                 (Asleep(t)' <=> Asleep(t)) /\ (AtP(t)' <=> AtP(t))
<1>1. /\ currentThread \in Threads
      /\ readyList \in Seq(Threads)
      /\ status \in [Threads -> Statuses]
      /\ pc \in [Threads -> Places]
      /\ OneThreadRuns /\ ReadyExactlyOnce
  BY DEF SchedInv, SchedTypeOK, ReadyExactlyOnce
<1>2. status[currentThread] = "RUNNING"
  BY <1>1 DEF Block, Running, OneThreadRuns
<1>3. CASE readyList = <<>>
  BY <1>1, <1>2, <1>3 DEF Block, Sleep, Asleep, AtP
<1>4. CASE readyList # <<>>
  <2>1. Head(readyList) \in Threads /\ Head(readyList) \in ToSet(readyList)
    BY <1>1, <1>4, RemoveFrontFacts DEF ReadyExactlyOnce
  <2>2. status[Head(readyList)] = "READY"
    BY <1>1, <2>1 DEF ReadyExactlyOnce
  <2>3. /\ status'[t] = IF t = Head(readyList) THEN "RUNNING"
                        ELSE IF t = currentThread THEN "BLOCKED"
                        ELSE status[t]
        /\ pc'[t] = IF t = currentThread THEN "slept" ELSE pc[t]
    BY <1>1, <1>4, <2>1 DEF Block, Sleep, Run
  <2> QED  BY <1>2, <2>2, <2>3 DEF Asleep, AtP
<1> QED  BY <1>3, <1>4

----------------------------------------------------------------------------
(* P with a zero value: the caller joins the queue.                        *)
LEMMA PBlocksInv ==
    ASSUME SemInv, NEW s \in Sems, value[s] = 0, Block,
           waitingFor[currentThread] \in {NULL, s},
           queue' = [queue EXCEPT ![s] = Append(@, currentThread)],
           waitingFor' = [waitingFor EXCEPT ![currentThread] = s],
           value' = value
    PROVE  TypeOK' /\ InsideP' /\ BlockedExactlyOnce' /\ NoLostWakeup'
<1> DEFINE self == currentThread
<1>1. /\ self \in Threads
      /\ value \in [Sems -> Nat]
      /\ queue \in [Sems -> Seq(Threads)]
      /\ waitingFor \in [Threads -> Sems \cup {NULL}]
  BY DEF SemInv, TypeOK, SchedTypeOK
<1>2. SchedTypeOK'
  <2>1. SchedNext
    BY DEF SchedNext
  <2> QED  BY <2>1, SchedNextInv DEF SemInv, SchedInv
<1>3. /\ ~Asleep(self)
      /\ \A t \in Threads :
            /\ Asleep(t)' <=> (t = self \/ Asleep(t))
            /\ AtP(t)' <=> (t = self \/ AtP(t))
  BY <1>1, BlockFacts DEF SemInv
<1>4. self \notin ToSet(queue[s])
  BY <1>1, <1>3 DEF SemInv, BlockedExactlyOnce, Asleep
<1>5. /\ queue'[s] = Append(queue[s], self)
      /\ \A r \in Sems : r # s => queue'[r] = queue[r]
  BY <1>1
<1>6. /\ queue'[s] \in Seq(Threads)
      /\ ToSet(queue'[s]) = ToSet(queue[s]) \cup {self}
      /\ IsInjective(queue'[s])
  BY <1>1, <1>4, <1>5, AppendFacts DEF SemInv, BlockedExactlyOnce
<1>7. TypeOK'
  BY <1>1, <1>2, <1>6 DEF TypeOK
<1>8. InsideP'
  BY <1>1, <1>3, SemsAssumption DEF SemInv, InsideP, AtP
<1>9. BlockedExactlyOnce'
  <2>1. \A r \in Sems : IsInjective(queue'[r])
    BY <1>5, <1>6 DEF SemInv, BlockedExactlyOnce
  <2>2. ASSUME NEW r \in Sems, NEW t \in Threads
        PROVE  t \in ToSet(queue'[r]) <=> Asleep(t)' /\ waitingFor'[t] = r
    <3>1. t \in ToSet(queue[r]) <=> Asleep(t) /\ waitingFor[t] = r
      BY DEF SemInv, BlockedExactlyOnce, Asleep
    <3> QED  BY <1>1, <1>3, <1>5, <1>6, <3>1
  <2> QED  BY <2>1, <2>2 DEF BlockedExactlyOnce, Asleep
<1>10. NoLostWakeup'
  <2>1. ASSUME NEW r \in Sems, queue'[r] # <<>>
        PROVE  value'[r] <= Cardinality(Contenders(r)')
    <3>1. CASE r = s
      <4>1. Contenders(r)' \subseteq Threads
        BY DEF Contenders
      <4>2. Cardinality(Contenders(r)') \in Nat
        BY <4>1, SemsAssumption, FS_Subset, FS_CardinalityType
      <4> QED  BY <3>1, <4>2
    <3>2. CASE r # s
      <4>1. Contenders(r)' = Contenders(r)
        BY <1>1, <1>5, <3>2, SemsAssumption DEF Contenders
      <4> QED  BY <1>5, <2>1, <3>2, <4>1 DEF SemInv, NoLostWakeup
    <3> QED  BY <3>1, <3>2
  <2> QED  BY <2>1 DEF NoLostWakeup
<1> QED  BY <1>7, <1>8, <1>9, <1>10

(* P with a positive value: the caller takes it and leaves.                *)
LEMMA PTakesInv ==
    ASSUME SemInv, NEW s \in Sems, value[s] > 0,
           value' = [value EXCEPT ![s] = @ - 1],
           waitingFor' = [waitingFor EXCEPT ![currentThread] = NULL],
           queue' = queue,
           \/ Resume /\ waitingFor[currentThread] = s
           \/ Running /\ UNCHANGED schedVars
    PROVE  TypeOK' /\ InsideP' /\ BlockedExactlyOnce' /\ NoLostWakeup'
<1> DEFINE self == currentThread
<1>1. /\ self \in Threads
      /\ value \in [Sems -> Nat]
      /\ queue \in [Sems -> Seq(Threads)]
      /\ waitingFor \in [Threads -> Sems \cup {NULL}]
      /\ pc \in [Threads -> Places]
      /\ status \in [Threads -> Statuses]
  BY DEF SemInv, TypeOK, SchedTypeOK
<1>2. SchedTypeOK'
  <2>1. [SchedNext]_schedVars
    BY DEF SchedNext
  <2> QED  BY <2>1, SchedNextInv DEF SemInv, SchedInv
<1>3. status[self] = "RUNNING"
  BY DEF SemInv, SchedInv, OneThreadRuns, Running, Resume
<1>4. /\ status' = status
      /\ pc'[self] = "body"
      /\ \A t \in Threads : t # self => pc'[t] = pc[t]
  BY <1>1 DEF Running, Resume, schedVars
<1>5. \A t \in Threads : Asleep(t)' <=> Asleep(t)
  BY <1>3, <1>4 DEF Asleep
<1>6. TypeOK'
  BY <1>1, <1>2 DEF TypeOK
<1>7. InsideP'
  BY <1>1, <1>4 DEF SemInv, InsideP
<1>8. \A t \in Threads : Asleep(t) => waitingFor'[t] = waitingFor[t]
  BY <1>1, <1>3 DEF Asleep
<1>9. BlockedExactlyOnce'
  <2>1. ASSUME NEW r \in Sems, NEW t \in Threads
        PROVE  t \in ToSet(queue'[r]) <=> Asleep(t)' /\ waitingFor'[t] = r
    BY <1>5, <1>8 DEF SemInv, BlockedExactlyOnce, Asleep
  <2> QED  BY <2>1 DEF SemInv, BlockedExactlyOnce, Asleep
<1>10. NoLostWakeup'
  <2>1. ASSUME NEW r \in Sems, queue'[r] # <<>>
        PROVE  value'[r] <= Cardinality(Contenders(r)')
    <3>1. /\ value[r] <= Cardinality(Contenders(r))
          /\ IsFiniteSet(Contenders(r))
          /\ Cardinality(Contenders(r)) \in Nat
      BY <2>1, ContendersFinite DEF SemInv, NoLostWakeup
    <3>2. CASE waitingFor[self] = r
      <4>1. self \in Contenders(r)
        BY <1>1, <1>3, <3>2 DEF Contenders, SemInv, BlockedExactlyOnce
      <4>2. Contenders(r)' = Contenders(r) \ {self}
        BY <1>1, SemsAssumption DEF Contenders
      <4>3. Cardinality(Contenders(r)') = Cardinality(Contenders(r)) - 1
        BY <3>1, <4>1, <4>2, FS_RemoveElement
      <4>4. r = s
        BY <1>1, <3>2, SemsAssumption
           DEF SemInv, InsideP, Running
      <4> QED  BY <1>1, <3>1, <4>3, <4>4
    <3>3. CASE waitingFor[self] # r
      <4>1. Contenders(r)' = Contenders(r)
        BY <1>1, <3>3, SemsAssumption DEF Contenders
      <4>2. value'[r] <= value[r] /\ value'[r] \in Nat /\ value[r] \in Nat
        BY <1>1
      <4> QED  BY <3>1, <4>1, <4>2
    <3> QED  BY <3>2, <3>3
  <2> QED  BY <2>1 DEF NoLostWakeup
<1> QED  BY <1>6, <1>7, <1>9, <1>10

(* V: the first waiter becomes a contender for the value V adds.           *)
LEMMA VInv ==
    ASSUME SemInv, NEW s \in Sems, V(s)
    PROVE  TypeOK' /\ InsideP' /\ BlockedExactlyOnce' /\ NoLostWakeup'
<1>1. /\ value \in [Sems -> Nat]
      /\ queue \in [Sems -> Seq(Threads)]
      /\ waitingFor \in [Threads -> Sems \cup {NULL}]
      /\ status \in [Threads -> Statuses]
      /\ SchedTypeOK
      /\ value' = [value EXCEPT ![s] = @ + 1]
      /\ waitingFor' = waitingFor
  BY DEF SemInv, TypeOK, SchedTypeOK, V
<1>2. SchedTypeOK'
  <2>1. Next
    BY DEF Next
  <2> QED  BY <2>1, SemNextUsesScheduler, SchedNextInv DEF SemInv, SchedInv
<1>3. CASE queue[s] = <<>>
  <2>1. UNCHANGED <<schedVars, queue>>
    BY <1>3 DEF V
  <2>2. TypeOK'
    BY <1>1, <1>2, <2>1 DEF TypeOK
  <2>3. InsideP'
    BY <1>1, <2>1 DEF SemInv, InsideP, schedVars
  <2>4. BlockedExactlyOnce'
    BY <1>1, <2>1 DEF SemInv, BlockedExactlyOnce, schedVars
  <2>5. NoLostWakeup'
    <3>1. ASSUME NEW r \in Sems, queue'[r] # <<>>
          PROVE  value'[r] <= Cardinality(Contenders(r)')
      <4>1. r # s /\ value'[r] = value[r]
        BY <1>1, <1>3, <2>1, <3>1
      <4>2. Contenders(r)' = Contenders(r)
        BY <1>1, <2>1 DEF Contenders
      <4> QED  BY <2>1, <3>1, <4>1, <4>2 DEF SemInv, NoLostWakeup
    <3> QED  BY <3>1 DEF NoLostWakeup
  <2> QED  BY <2>2, <2>3, <2>4, <2>5
<1>4. CASE queue[s] # <<>>
  <2> DEFINE h == Head(queue[s])
  <2>1. /\ status' = [status EXCEPT ![h] = "READY"]
        /\ pc' = pc
        /\ queue' = [queue EXCEPT ![s] = Tail(@)]
    BY <1>4 DEF V, Wake, IdleWake, ReadyToRun
  <2>2. /\ h \in Threads
        /\ h \in ToSet(queue[s])
        /\ Tail(queue[s]) \in Seq(Threads)
        /\ ToSet(Tail(queue[s])) = ToSet(queue[s]) \ {h}
        /\ IsInjective(Tail(queue[s]))
    BY <1>1, <1>4, RemoveFrontFacts DEF SemInv, BlockedExactlyOnce
  <2>3. /\ queue'[s] = Tail(queue[s])
        /\ \A r \in Sems : r # s => queue'[r] = queue[r]
    BY <1>1, <2>1
  <2>4. /\ waitingFor[h] = s
        /\ \A t \in Threads : Asleep(t)' <=> (t # h /\ Asleep(t))
    BY <1>1, <2>1, <2>2 DEF SemInv, BlockedExactlyOnce, Asleep
  <2> HIDE DEF h
  <2>5. TypeOK'
    BY <1>1, <1>2, <2>1, <2>2 DEF TypeOK
  <2>6. InsideP'
    BY <1>1, <2>1 DEF SemInv, InsideP
  <2>7. BlockedExactlyOnce'
    <3>1. \A r \in Sems : IsInjective(queue'[r])
      BY <2>2, <2>3 DEF SemInv, BlockedExactlyOnce
    <3>2. ASSUME NEW r \in Sems, NEW t \in Threads
          PROVE  t \in ToSet(queue'[r]) <=> Asleep(t)' /\ waitingFor'[t] = r
      <4>1. t \in ToSet(queue[r]) <=> Asleep(t) /\ waitingFor[t] = r
        BY DEF SemInv, BlockedExactlyOnce, Asleep
      <4> QED  BY <1>1, <2>2, <2>3, <2>4, <4>1
    <3> QED  BY <3>1, <3>2 DEF BlockedExactlyOnce, Asleep
  <2>8. NoLostWakeup'
    <3>1. ASSUME NEW r \in Sems, queue'[r] # <<>>
          PROVE  value'[r] <= Cardinality(Contenders(r)')
      <4>1. CASE r = s
        <5>1. /\ value[s] <= Cardinality(Contenders(s))
              /\ IsFiniteSet(Contenders(s))
              /\ Cardinality(Contenders(s)) \in Nat
          BY <1>4, ContendersFinite DEF SemInv, NoLostWakeup
        <5>2. Contenders(s)' = Contenders(s) \cup {h}
          BY <1>1, <2>2, <2>3, <2>4 DEF Contenders
        <5>3. h \notin Contenders(s)
          BY <2>2 DEF Contenders
        <5>4. Cardinality(Contenders(s)') = Cardinality(Contenders(s)) + 1
          BY <5>1, <5>2, <5>3, FS_AddElement
        <5> QED  BY <1>1, <4>1, <5>1, <5>4
      <4>2. CASE r # s
        <5>1. Contenders(r)' = Contenders(r)
          BY <1>1, <2>3, <4>2 DEF Contenders
        <5>2. value'[r] = value[r] /\ queue[r] # <<>>
          BY <1>1, <2>3, <3>1, <4>2
        <5> QED  BY <5>1, <5>2 DEF SemInv, NoLostWakeup
      <4> QED  BY <4>1, <4>2
    <3> QED  BY <3>1 DEF NoLostWakeup
  <2> QED  BY <2>5, <2>6, <2>7, <2>8
<1> QED  BY <1>3, <1>4

(* One step of threads and semaphores keeps the invariant.                 *)
THEOREM SemNextInv == SemInv /\ [Next]_vars => SemInv'
<1> SUFFICES ASSUME SemInv, [Next]_vars PROVE SemInv'
  OBVIOUS
<1> DEFINE Kept == TypeOK' /\ InsideP' /\ BlockedExactlyOnce' /\ NoLostWakeup'
<1>1. SchedInv'
  <2>1. [SchedNext]_schedVars
    BY SemNextUsesScheduler DEF SemInv, vars
  <2> QED  BY <2>1, SchedNextInv DEF SemInv
<1>2. ASSUME NEW s \in Sems, P(s) PROVE Kept
  <2>1. waitingFor[currentThread] = NULL
    BY <1>2 DEF P, Running, SemInv, InsideP, TypeOK, SchedTypeOK
  <2>2. CASE value[s] = 0
    BY <1>2, <2>1, <2>2, PBlocksInv DEF P, PTest
  <2>3. CASE value[s] # 0
    <3>1. value[s] > 0 /\ ~Resume
      BY <1>2, <2>3 DEF SemInv, TypeOK, P, Running, Resume
    <3> QED  BY <1>2, <2>1, <2>3, <3>1, PTakesInv DEF P, PTest
  <2> QED  BY <2>2, <2>3
<1>3. ASSUME PAgain PROVE Kept
  <2> DEFINE s == waitingFor[currentThread]
  <2>1. s \in Sems
    BY <1>3 DEF PAgain, SemInv, InsideP, TypeOK, SchedTypeOK
  <2>2. PTest(s)
    BY <1>3 DEF PAgain
  <2>3. CASE value[s] = 0
    BY <2>1, <2>2, <2>3, PBlocksInv DEF PTest
  <2>4. CASE value[s] # 0
    <3>1. value[s] > 0
      BY <2>1, <2>4 DEF SemInv, TypeOK
    <3> QED  BY <2>1, <2>2, <2>4, <3>1, PTakesInv DEF PTest
  <2> QED  BY <2>3, <2>4
<1>4. ASSUME NEW s \in Sems, V(s) PROVE Kept
  BY <1>4, VInv
<1>5. ASSUME \/ ThreadStep
             \/ UNCHANGED vars
      PROVE  Kept
  <2>1. UNCHANGED semVars
    BY <1>5 DEF ThreadStep, vars
  <2>2. \A t \in Threads :
          (Asleep(t)' <=> Asleep(t)) /\ (AtP(t)' <=> AtP(t))
    BY <1>5, ThreadStepFacts DEF SemInv, vars, schedVars, Asleep, AtP
  <2>3. TypeOK'
    BY <1>1, <2>1 DEF SchedInv, SemInv, TypeOK, semVars
  <2>4. InsideP'
    BY <2>1, <2>2 DEF SemInv, InsideP, AtP, semVars
  <2>5. BlockedExactlyOnce'
    BY <2>1, <2>2 DEF SemInv, BlockedExactlyOnce, Asleep, semVars
  <2>6. NoLostWakeup'
    BY <2>1 DEF SemInv, NoLostWakeup, Contenders, semVars
  <2> QED  BY <2>3, <2>4, <2>5, <2>6
<1> QED
  <2>1. Kept
    BY <1>2, <1>3, <1>4, <1>5 DEF Next
  <2> QED  BY <1>1, <2>1 DEF SemInv

(* No wake-up is lost and no blocked thread is out of reach, whatever the  *)
(* number of threads and semaphores, their initial values and schedule.    *)
THEOREM SemaphoresSafe ==
    Safety => [](TypeOK /\ NoLostWakeup /\ BlockedExactlyOnce)
<1>1. SemInv => TypeOK /\ NoLostWakeup /\ BlockedExactlyOnce
  BY DEF SemInv
<1> QED  BY <1>1, SemInitInv, SemNextInv, PTL DEF Safety

(* The semaphores implement the scheduler's specification, so that all its *)
(* invariants hold of the threads that use semaphores.                     *)
THEOREM SemaphoresUseScheduler == Safety => UsesScheduler
<1>1. SemInv /\ [Next]_vars => [SchedNext]_schedVars
  BY SemNextUsesScheduler DEF SemInv, vars
<1>2. Init => SchedInit
  BY DEF Init
<1> QED
  BY <1>1, <1>2, SemInitInv, SemNextInv, PTL
     DEF Safety, UsesScheduler, SchedSafety

=============================================================================
