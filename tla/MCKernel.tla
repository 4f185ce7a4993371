------------------------------ MODULE MCKernel ------------------------------
(***************************************************************************)
(* The kernel around the threads, for TLC: a run is about one of           *)
(*   "kernel"  starting and stopping Nachos, with options of every kind,   *)
(*             of which the parameter may look like another one;           *)
(*   "switch"  context switches between the main thread and two forked     *)
(*             ones, with different arguments;                             *)
(*   "list"    a List or SortedList of items of which two compare equal;   *)
(*   "hash"    a hash table that grows.                                    *)
(* The variables of the others keep their initial values.                  *)
(***************************************************************************)
EXTENDS Kernel, Switch

CONSTANTS
    Things, Rank(_),                                        \* of List
    Keys, InitialBuckets, ResizeRatio, IncreaseSizeBy       \* of HashTable

VARIABLES
    part,
    heap, first, last, numInList, sorted, result, call,
    buckets, numItems, table

L == INSTANCE List
H == INSTANCE HashTable

ASSUME H!HashTableAssumption

listVars == <<heap, first, last, numInList, sorted, result, call>>
hashVars == <<buckets, numItems, table>>

----------------------------------------------------------------------------
Group(option, params) == [option |-> option, params |-> params]

MCGroups ==
    {Group(o, <<>>) : o \in {"-z", "-K", "-C", "-N", "-u", "-l", "-s", "-f"}}
    \cup {Group(o, <<p>>) : o \in {"-d", "-x", "-p", "-r"}, p \in {"b", "-l"}}
    \cup {Group("-cp", <<"a", p>>) : p \in {"b", "-l"}}
    \cup {Group(o, <<"1">>) : o \in {"-rs", "-m"}}

MCThreads == {"main thread", "first", "second"}
MCMain == "main thread"
MCFunc == [t \in MCThreads |-> "SimpleThread"]
MCArg == [t \in MCThreads |-> IF t = "first" THEN "arg 1" ELSE "arg 2"]

MCRank(i) == i \div 2

----------------------------------------------------------------------------
KernelIdle ==
    /\ stub = TRUE /\ request = <<>> /\ argv = <<>> /\ flags = <<>> /\ settings = <<>>
    /\ todo = <<>> /\ made = {} /\ deleted = <<>> /\ armed = {} /\ used = {}
    /\ performed = <<>> /\ state = "idle"

MCInit ==
    /\ SwitchInit /\ H!Init
    /\ \/ part = "kernel" /\ KernelInit /\ L!Init /\ ~ sorted
       \/ part \in {"switch", "hash"} /\ KernelIdle /\ L!Init /\ ~ sorted
       \/ part = "list" /\ KernelIdle /\ L!Init

(* Nachos has been left.                                                   *)
KernelStops == state \in {"aborted", "exit"} /\ UNCHANGED kernelVars

MCNext ==
    /\ UNCHANGED part
    /\ \/ /\ part = "kernel" /\ (KernelNext \/ KernelStops)
          /\ UNCHANGED <<switchVars, listVars, hashVars>>
       \/ part = "switch" /\ SwitchNext /\ UNCHANGED <<kernelVars, listVars, hashVars>>
       \/ part = "list" /\ L!Next /\ UNCHANGED <<kernelVars, switchVars, hashVars>>
       \/ part = "hash" /\ H!Next /\ UNCHANGED <<kernelVars, switchVars, listVars>>

MCSpec == MCInit /\ [][MCNext]_<<part, kernelVars, switchVars, listVars, hashVars>>

----------------------------------------------------------------------------
(* A List is a sequence of its items, whatever the order of the calls: no  *)
(* operation loses, repeats or reorders items, and SortedList::Insert      *)
(* keeps them in order, the earlier first among those that compare equal,  *)
(* so that the interrupts that are due at the same time happen in the      *)
(* order in which they were scheduled.                                     *)
ImplementsItems ==
    L!Abstract!ItemsInit /\ [][part = "list" => L!Abstract!ItemsNext]_(L!Abstract!itemsVars)

(* TableIsSet of HashTable: Insert, Remove and ReHash keep every key where *)
(* Find looks for it, and an iterator meets each of them once.             *)
TableIsSet == part = "hash" => H!TableIsSet

=============================================================================
