------------------------------- MODULE Items --------------------------------
(***************************************************************************)
(* What a List promises (lib/list.h): a sequence of different items that   *)
(* can be extended at both ends, or, for a SortedList, at the place where  *)
(* the item belongs, behind the items that compare equal.                  *)
(***************************************************************************)
EXTENDS Integers, Sequences

CONSTANTS
    Things,         \* items that can be put on a list
    Rank(_)         \* what the comparison function of a SortedList compares

VARIABLES
    items,
    sorted,         \* a SortedList?
    result,         \* what was taken from the front last
    call            \* the last operation and its item

IsIn(i) == \E k \in DOMAIN items : items[k] = i
Without(k) == SubSeq(items, 1, k - 1) \o SubSeq(items, k + 1, Len(items))

ItemsInit == items = <<>> /\ sorted \in BOOLEAN /\ result = 0 /\ call = <<"new", 0>>

PutLast(i) ==
    /\ call' = <<"append", i>>
    /\ ~ sorted /\ ~ IsIn(i)
    /\ items' = Append(items, i) /\ UNCHANGED <<sorted, result>>

PutFirst(i) ==
    /\ call' = <<"prepend", i>>
    /\ ~ sorted /\ ~ IsIn(i)
    /\ items' = <<i>> \o items /\ UNCHANGED <<sorted, result>>

PutInOrder(i) ==
    /\ call' = <<"insert", i>>
    /\ sorted /\ ~ IsIn(i)
    /\ \E k \in 0..Len(items) :
         /\ \A n \in 1..k : Rank(items[n]) <= Rank(i)
         /\ \A n \in (k + 1)..Len(items) : Rank(items[n]) > Rank(i)
         /\ items' = SubSeq(items, 1, k) \o <<i>> \o SubSeq(items, k + 1, Len(items))
    /\ UNCHANGED <<sorted, result>>

TakeFirst ==
    /\ call' = <<"remove front", 0>>
    /\ items # <<>>
    /\ result' = items[1] /\ items' = Tail(items) /\ UNCHANGED sorted

Take(i) ==
    /\ call' = <<"remove", i>>
    /\ \E k \in DOMAIN items : items[k] = i /\ items' = Without(k)
    /\ UNCHANGED <<sorted, result>>

ItemsNext ==
    \/ \E i \in Things : PutLast(i) \/ PutFirst(i) \/ PutInOrder(i) \/ Take(i)
    \/ TakeFirst

itemsVars == <<items, sorted, result, call>>

ItemsSpec == ItemsInit /\ [][ItemsNext]_itemsVars

=============================================================================
