----------------------------- MODULE ListFacts -----------------------------
(***************************************************************************)
(* What List<T>::Append and List<T>::RemoveFront of lib/list.cc do to a    *)
(* list without duplicates.  The lists of the kernel are modelled as       *)
(* sequences: Append is the sequence operator of that name, RemoveFront    *)
(* returns Head and leaves Tail.                                           *)
(***************************************************************************)
EXTENDS Naturals, SequencesExt, TLAPS

(* What List::Append does to a list.                               *)
LEMMA AppendFacts ==
    ASSUME NEW S, NEW s \in Seq(S), NEW x \in S
    PROVE  /\ Append(s, x) \in Seq(S)
           /\ ToSet(Append(s, x)) = ToSet(s) \cup {x}
           /\ IsInjective(s) /\ x \notin ToSet(s) => IsInjective(Append(s, x))
<1> DEFINE a == Append(s, x)
<1>1. /\ a \in Seq(S)
      /\ Len(a) = Len(s) + 1
      /\ \A i \in 1..Len(s) : a[i] = s[i]
      /\ a[Len(s) + 1] = x
      /\ Len(s) \in Nat
      /\ DOMAIN s = 1..Len(s)
      /\ DOMAIN a = 1..(Len(s) + 1)
  OBVIOUS
<1> HIDE DEF a
<1>2. ToSet(a) = ToSet(s) \cup {x}
  <2>1. ASSUME NEW y \in ToSet(a) PROVE y \in ToSet(s) \cup {x}
    BY <2>1, <1>1 DEF ToSet
  <2>2. ASSUME NEW y \in ToSet(s) PROVE y \in ToSet(a)
    <3>1. PICK i \in 1..Len(s) : y = s[i]
      BY <1>1 DEF ToSet
    <3>2. i \in DOMAIN a /\ a[i] = y
      BY <3>1, <1>1
    <3> QED  BY <3>2 DEF ToSet
  <2>3. x \in ToSet(a)
    <3>1. Len(s) + 1 \in DOMAIN a
      BY <1>1
    <3> QED  BY <3>1, <1>1 DEF ToSet
  <2> QED  BY <2>1, <2>2, <2>3
<1>3. ASSUME IsInjective(s), x \notin ToSet(s) PROVE IsInjective(a)
  <2>1. \A i \in 1..Len(s) : s[i] # x
    BY <1>1, <1>3 DEF ToSet
  <2> QED  BY <1>1, <1>3, <2>1 DEF IsInjective
<1> QED  BY <1>1, <1>2, <1>3 DEF a

(* What List::RemoveFront does to a list.                          *)
LEMMA RemoveFrontFacts ==
    ASSUME NEW S, NEW s \in Seq(S), s # <<>>, IsInjective(s)
    PROVE  /\ Tail(s) \in Seq(S)
           /\ Head(s) \in S
           /\ Head(s) \in ToSet(s)
           /\ ToSet(Tail(s)) = ToSet(s) \ {Head(s)}
           /\ IsInjective(Tail(s))
<1> DEFINE r == Tail(s)
           h == Head(s)
<1>1. /\ r \in Seq(S)
      /\ Len(s) \in Nat /\ Len(s) > 0
      /\ Len(r) = Len(s) - 1
      /\ \A i \in 1..Len(r) : r[i] = s[i + 1]
      /\ h = s[1]
      /\ DOMAIN s = 1..Len(s)
      /\ DOMAIN r = 1..Len(r)
      /\ h \in S
  OBVIOUS
<1> HIDE DEF r, h
<1>2. h \in ToSet(s)
  BY <1>1 DEF ToSet
<1>3. \A i \in 1..Len(r) : s[i + 1] # h
  BY <1>1 DEF IsInjective
<1>4. ToSet(r) = ToSet(s) \ {h}
  <2>1. ASSUME NEW y \in ToSet(r) PROVE y \in ToSet(s) \ {h}
    <3>1. PICK i \in 1..Len(r) : y = r[i]
      BY <1>1 DEF ToSet
    <3>2. i + 1 \in DOMAIN s /\ s[i + 1] = y /\ y # h
      BY <3>1, <1>1, <1>3
    <3> QED  BY <3>2 DEF ToSet
  <2>2. ASSUME NEW y \in ToSet(s), y # h PROVE y \in ToSet(r)
    <3>1. PICK i \in 1..Len(s) : y = s[i]
      BY <1>1 DEF ToSet
    <3>2. i - 1 \in 1..Len(r) /\ r[i - 1] = y
      BY <3>1, <2>2, <1>1
    <3> QED  BY <3>2, <1>1 DEF ToSet
  <2> QED  BY <2>1, <2>2
<1>5. IsInjective(r)
  <2>1. ASSUME NEW i \in 1..Len(r), NEW j \in 1..Len(r), r[i] = r[j]
        PROVE  i = j
    <3>1. i + 1 \in DOMAIN s /\ j + 1 \in DOMAIN s /\ s[i + 1] = s[j + 1]
      BY <2>1, <1>1
    <3>2. i + 1 = j + 1
      BY <3>1 DEF IsInjective
    <3> QED  BY <3>2, <1>1
  <2> QED  BY <2>1, <1>1 DEF IsInjective
<1> QED  BY <1>1, <1>2, <1>4, <1>5 DEF r, h

=============================================================================
