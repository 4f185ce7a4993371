----------------------------- MODULE HashTable ------------------------------
(***************************************************************************)
(* The self-expanding hash table of lib/hash.cc.  Its buckets are Lists,   *)
(* which are sequences of items (module List).  An item is the key that    *)
(* getKey returns for it; a key is a number and its own hash, as in the    *)
(* test of the library (lib/libtest.cc).                                   *)
(***************************************************************************)
EXTENDS Integers, Sequences, FiniteSets

CONSTANTS
    Keys,
    InitialBuckets, ResizeRatio, IncreaseSizeBy     \* 4, 3 and 4 in the code

HashTableAssumption ==
    /\ Keys \subseteq Nat
    /\ {InitialBuckets, ResizeRatio, IncreaseSizeBy} \subseteq Nat \ {0}

VARIABLES
    buckets,    \* the lists 0 to numBuckets - 1
    numItems,
    table       \* what the caller has put in and not taken out

vars == <<buckets, numItems, table>>

numBuckets == Cardinality(DOMAIN buckets)

----------------------------------------------------------------------------
InitBuckets(sz) == [b \in 0..(sz - 1) |-> <<>>]

Init == buckets = InitBuckets(InitialBuckets) /\ numItems = 0 /\ table = {}

HashValue(key, size) == key % size

(* FindInBucket and Find.                                                  *)
FindInBucket(bucket, key) ==
    \E n \in DOMAIN buckets[bucket] : buckets[bucket][n] = key

Find(key) == FindInBucket(HashValue(key, numBuckets), key)

(* Mutant: the items of a bucket that is moved keep the number of their    *)
(* bucket.                                                                 *)
ReHashInPlace ==
    [b \in 0..(numBuckets * IncreaseSizeBy - 1) |->
        IF b \in DOMAIN buckets THEN buckets[b] ELSE <<>>]

(* The items in the order in which ReHash takes them out, bucket by        *)
(* bucket; Apply goes over them in the same order.                         *)
RECURSIVE ItemsFrom(_)
ItemsFrom(bucket) ==
    IF bucket = numBuckets THEN <<>> ELSE buckets[bucket] \o ItemsFrom(bucket + 1)

(* ReHash: every item is appended to its bucket of a larger table.         *)
ReHash ==
    LET size == numBuckets * IncreaseSizeBy
        items == ItemsFrom(0)
    IN [b \in 0..(size - 1) |-> SelectSeq(items, LAMBDA key : HashValue(key, size) = b)]

(* Insert: the table grows first, when it is full.                         *)
Insert(key) ==
    LET grown == IF numItems \div numBuckets >= ResizeRatio THEN ReHash ELSE buckets
    IN /\ ~ Find(key)
       /\ buckets' = [grown EXCEPT ![HashValue(key, Cardinality(DOMAIN grown))] =
                         Append(@, key)]
       /\ numItems' = numItems + 1
       /\ table' = table \cup {key}

Remove(key) ==
    LET bucket == HashValue(key, numBuckets)
    IN /\ FindInBucket(bucket, key)
       /\ buckets' = [buckets EXCEPT ![bucket] = SelectSeq(@, LAMBDA k : k # key)]
       /\ numItems' = numItems - 1
       /\ table' = table \ {key}

Next == \E key \in Keys : Insert(key) \/ Remove(key)

Spec == Init /\ [][Next]_vars

----------------------------------------------------------------------------
(* HashTable::FindNextFullBucket and the two functions of HashIterator: an *)
(* iterator is a bucket and a place in it.                                 *)
FindNextFullBucket(bucket) ==
    LET full == {b \in DOMAIN buckets : b >= bucket /\ buckets[b] # <<>>}
    IN IF full = {} THEN numBuckets ELSE CHOOSE b \in full : \A c \in full : b <= c

NewIterator == [bucket |-> FindNextFullBucket(0), place |-> 1]

IteratorNext(i) ==
    IF i.place < Len(buckets[i.bucket]) THEN [i EXCEPT !.place = @ + 1]
    ELSE [bucket |-> FindNextFullBucket(i.bucket + 1), place |-> 1]

(* The items that the loop over an iterator meets.                         *)
RECURSIVE MeetFrom(_)
MeetFrom(i) ==
    IF i.bucket >= numBuckets THEN <<>>
    ELSE <<buckets[i.bucket][i.place]>> \o MeetFrom(IteratorNext(i))

(* A hash table is a set: every key that was put in and not taken out is   *)
(* found, and no other, and the number of items is theirs, although the    *)
(* table grows under way and every key then belongs into another bucket;   *)
(* and the loop over an iterator meets every item exactly once, over empty *)
(* buckets and in buckets with several items.                              *)
TableIsSet ==
    LET met == MeetFrom(NewIterator)
    IN  /\ \A key \in Keys : Find(key) <=> key \in table
        /\ numItems = Cardinality(table)
        /\ Len(met) = Cardinality(table)
        /\ {met[n] : n \in DOMAIN met} = table

=============================================================================
