----------------------------- MODULE SynchList -----------------------------
(***************************************************************************)
(* The synchronized list (class SynchList<T> of threads/synchlist.cc): a   *)
(* list, its lock, and the condition variable listEmpty.  It is the queue  *)
(* between threads that the post office's mailboxes are made of.           *)
(*                                                                         *)
(* pc[t]: "idle"; "append", "remove", "apply": called, in lock->Acquire(); *)
(* "appending", "removing", "applying": the lock is held; "signalled":     *)
(* Append is past its Signal.  A thread inside listEmpty->Wait() stays at  *)
(* "removing".  The list has no use for Broadcast, and so broadcaster      *)
(* stays NULL.                                                             *)
(***************************************************************************)
EXTENDS Monitor, FiniteSets

CONSTANTS
    Items,    \* what is put on the list
    MaxLen    \* bound: Append is not called once this many items are, or
              \* are about to be, on the list

ASSUME SynchListAssumption == MaxLen \in Nat

VARIABLES
    list,   \* SynchList::list
    pc

listVars == <<vars, list, pc>>

ListInit ==
    /\ Init
    /\ list = <<>>
    /\ pc = [t \in Threads |-> "idle"]

Goto(t, from, to) == pc[t] = from /\ pc' = [pc EXCEPT ![t] = to]

Appenders == {t \in Threads : pc[t] \in {"append", "appending"}}

----------------------------------------------------------------------------
(* A thread calls Append, RemoveFront or Apply.                            *)
CallAppend(t) ==
    /\ Len(list) + Cardinality(Appenders) < MaxLen
    /\ Goto(t, "idle", "append")
    /\ UNCHANGED <<vars, list>>

CallOther(t) ==
    /\ Goto(t, "idle", "remove") \/ Goto(t, "idle", "apply")
    /\ UNCHANGED <<vars, list>>

(* lock->Acquire(), the first statement of all three.                      *)
AcquireLock(t) ==
    /\ \/ Goto(t, "append", "appending")
       \/ Goto(t, "remove", "removing")
       \/ Goto(t, "apply", "applying")
    /\ Enter(t)
    /\ UNCHANGED <<waitQueue, value, asleep, inWait, broadcaster, list>>

(* Mutant: Append signals only when the list was empty.                    *)
AppendSignalsIfEmpty(t, item) ==
    /\ Goto(t, "appending", "signalled")
    /\ list' = Append(list, item)
    /\ \/ list = <<>> /\ Signal(t)
       \/ list # <<>> /\ UNCHANGED condVars
    /\ UNCHANGED broadcaster

(* Mutant: Append changes the list and signals without the lock.           *)
AppendWithoutLock(t, item) ==
    /\ Goto(t, "append", "idle")
    /\ list' = Append(list, item)
    /\ waitQueue # <<>>
    /\ value' = [value EXCEPT ![Head(waitQueue)] = @ + 1]
    /\ asleep' = asleep \ {Head(waitQueue)}
    /\ waitQueue' = Tail(waitQueue)
    /\ UNCHANGED <<holders, inWait, broadcaster>>

(* SynchList::Append: list->Append(item); listEmpty->Signal(lock).         *)
AppendItem(t, item) ==
    /\ Goto(t, "appending", "signalled")
    /\ list' = Append(list, item)
    /\ Signal(t)
    /\ UNCHANGED broadcaster

(* lock->Release() of Append, and of Apply, which has read the list.       *)
ReleaseLock(t) ==
    /\ Goto(t, "signalled", "idle") \/ Goto(t, "applying", "idle")
    /\ Leave(t)
    /\ UNCHANGED <<waitQueue, value, asleep, inWait, broadcaster, list>>

(* SynchList::RemoveFront with the lock held: it waits on listEmpty while  *)
(* the list is empty, then takes the first item and releases the lock.     *)
RemoveWaits(t) ==
    /\ pc[t] = "removing"
    /\ \/ list = <<>> /\ inWait[t] = "no" /\ WaitReleases(t)
       \/ WaitSleeps(t) \/ WaitWakes(t) \/ WaitReturns(t)
    /\ UNCHANGED <<broadcaster, list, pc>>

RemoveItem(t) ==
    /\ Goto(t, "removing", "idle")
    /\ list # <<>>
    /\ list' = Tail(list)
    /\ Leave(t)
    /\ UNCHANGED <<waitQueue, value, asleep, inWait, broadcaster>>

ListNext ==
    \E t \in Threads :
        \/ CallAppend(t) \/ CallOther(t) \/ AcquireLock(t) \/ ReleaseLock(t)
        \/ \E item \in Items : AppendItem(t, item)
        \/ RemoveWaits(t) \/ RemoveItem(t)

(* A thread that is not asleep gets the processor; a lock that is wanted   *)
(* is taken by one of the threads that want it (WantedLockIsTaken of       *)
(* Lock), not by every one of them.  Nobody has to call anything.          *)
ListFairness ==
    /\ WF_listVars(\E t \in Threads :
                      \/ AcquireLock(t)
                      \/ inWait[t] = "acquire" /\ RemoveWaits(t))
    /\ \A t \in Threads :
          /\ WF_listVars(\E item \in Items : AppendItem(t, item))
          /\ WF_listVars(ReleaseLock(t))
          /\ WF_listVars(RemoveItem(t))
          /\ WF_listVars(inWait[t] # "acquire" /\ RemoveWaits(t))

ListSafety == ListInit /\ [][ListNext]_listVars
ListSpec == ListSafety /\ ListFairness

----------------------------------------------------------------------------
(* The list uses its lock and condition variable only as their assertions  *)
(* allow, so that all that holds of Monitor holds of them here.            *)
UsesMonitor == Safety

(* Once no new calls come, items and waiting threads do not stay side by   *)
(* side.  (The lock is not fair, so that a stream of calls can keep a      *)
(* signalled thread from its item.)                                        *)
CallsStop == <>[][~ \E t \in Threads : CallAppend(t) \/ CallOther(t)]_listVars

ItemGetsTaken ==
    CallsStop => ((list # <<>> /\ waitQueue # <<>>)
                     ~> (list = <<>> \/ waitQueue = <<>>))

=============================================================================
