-------------------------------- MODULE List --------------------------------
(***************************************************************************)
(* The singly linked lists of the kernel (lib/list.cc): List and           *)
(* SortedList, with their elements in the heap.                            *)
(*                                                                         *)
(* An element is an address with an item and the address of the next; 0 is *)
(* NULL.  An address that is not in the heap was never allocated or has    *)
(* been deleted.  The ASSERTs on what a caller may do (an item is not put  *)
(* on a list twice, only what is there is removed) are guards.             *)
(***************************************************************************)
EXTENDS Integers, Sequences, FiniteSets

CONSTANTS
    Things, Rank(_)     \* see module Items

NULL == 0
Addresses == 1..Cardinality(Things)

VARIABLES
    heap,               \* the elements that are allocated
    first, last, numInList,
    sorted,             \* a SortedList?
    result,             \* what RemoveFront returned last
    call                \* the last operation and its item

vars == <<heap, first, last, numInList, sorted, result, call>>

----------------------------------------------------------------------------
(* The elements met on the way along the list and their items, as Apply,   *)
(* IsInList and a ListIterator meet them.  The way ends where the heap     *)
(* does, and should the list have become a cycle.                          *)
RECURSIVE Path(_, _)
Path(element, most) ==
    IF element \notin DOMAIN heap \/ most = 0 THEN <<>>
    ELSE <<element>> \o Path(heap[element].next, most - 1)

Walk == Path(first, Cardinality(Things))

Contents ==
    LET path == Walk IN [n \in DOMAIN path |-> heap[path[n]].item]

IsInList(i) ==
    LET items == Contents IN \E n \in DOMAIN items : items[n] = i

IsEmpty == numInList = 0

(* new ListElement.                                                        *)
New == CHOOSE a \in Addresses : a \notin DOMAIN heap
Allocated(i, next) ==
    [a \in DOMAIN heap \cup {New} |-> IF a = New THEN [item |-> i, next |-> next]
                                      ELSE heap[a]]
Deleted(h, e) == [a \in DOMAIN h \ {e} |-> h[a]]

Init ==
    /\ heap = [a \in {} |-> NULL]
    /\ first = NULL /\ last = NULL /\ numInList = 0
    /\ sorted \in BOOLEAN
    /\ result = 0 /\ call = <<"new", 0>>

----------------------------------------------------------------------------
(* The three ways to put element New into the list.                        *)
PutFirst(i) ==
    /\ heap' = Allocated(i, first)
    /\ first' = New
    /\ last' = IF IsEmpty THEN New ELSE last

PutLast(i) ==
    /\ IF IsEmpty
       THEN first' = New /\ heap' = Allocated(i, NULL)
       ELSE first' = first /\ heap' = [Allocated(i, NULL) EXCEPT ![last].next = New]
    /\ last' = New

PutBehind(i, ptr) ==
    /\ heap' = [Allocated(i, heap[ptr].next) EXCEPT ![ptr].next = New]
    /\ UNCHANGED <<first, last>>

ListAppend(i) ==
    /\ call' = <<"append", i>>
    /\ ~ sorted /\ ~ IsInList(i)
    /\ PutLast(i)
    /\ numInList' = numInList + 1
    /\ UNCHANGED <<sorted, result>>

Prepend(i) ==
    /\ call' = <<"prepend", i>>
    /\ ~ sorted /\ ~ IsInList(i)
    /\ PutFirst(i)
    /\ numInList' = numInList + 1
    /\ UNCHANGED <<sorted, result>>

compare(i, j) == Rank(i) - Rank(j)

(* Mutant: an item goes in front of those it compares equal to.            *)
BiggerAtOnce(i, n) == compare(i, Contents[n]) <= 0

(* Does the item belong in front of the n-th?                              *)
Bigger(i, n) == compare(i, Contents[n]) < 0

(* SortedList::Insert: in front of the first element that is bigger.       *)
Insert(i) ==
    /\ call' = <<"insert", i>>
    /\ sorted /\ ~ IsInList(i)
    /\ IF IsEmpty THEN PutLast(i)
       ELSE IF Bigger(i, 1) THEN PutFirst(i)
       ELSE LET bigger == {n \in 2..Len(Walk) : Bigger(i, n)}
            IN IF bigger = {} THEN PutLast(i)
               ELSE PutBehind(i, Walk[(CHOOSE n \in bigger : \A k \in bigger : n <= k) - 1])
    /\ numInList' = numInList + 1
    /\ UNCHANGED <<sorted, result>>

RemoveFront ==
    /\ call' = <<"remove front", 0>>
    /\ ~ IsEmpty
    /\ result' = heap[first].item
    /\ IF first = last THEN first' = NULL /\ last' = NULL
       ELSE first' = heap[first].next /\ UNCHANGED last
    /\ numInList' = numInList - 1
    /\ heap' = Deleted(heap, first)
    /\ UNCHANGED sorted

(* List::Remove: the first element as in RemoveFront, another by the       *)
(* pointer of the one in front of it.                                      *)
Remove(i) ==
    /\ call' = <<"remove", i>>
    /\ IsInList(i)
    /\ IF heap[first].item = i
       THEN /\ IF first = last THEN first' = NULL /\ last' = NULL
               ELSE first' = heap[first].next /\ UNCHANGED last
            /\ heap' = Deleted(heap, first)
       ELSE LET n == CHOOSE n \in 2..Len(Walk) : Contents[n] = i
                next == heap[Walk[n]].next
            IN /\ heap' = Deleted([heap EXCEPT ![Walk[n - 1]].next = next], Walk[n])
               /\ last' = IF next = NULL THEN Walk[n - 1] ELSE last
               /\ UNCHANGED first
    /\ numInList' = numInList - 1
    /\ UNCHANGED <<sorted, result>>

Next ==
    \/ \E i \in Things : ListAppend(i) \/ Prepend(i) \/ Insert(i) \/ Remove(i)
    \/ RemoveFront

Spec == Init /\ [][Next]_vars

----------------------------------------------------------------------------
(* What a List is: the sequence of the items met on the way along it.      *)
Abstract == INSTANCE Items WITH items <- Contents

=============================================================================
