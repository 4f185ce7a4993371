--------------------------- MODULE InterruptProofs ---------------------------
(***************************************************************************)
(* Handlers run on time and the machine status is that of the code which   *)
(* runs, for any threads, devices and ticks.                               *)
(*                                                                         *)
(* HandlersOnTime needs that pending is sorted, which Schedule keeps, and  *)
(* that only OneTick and Idle call handlers.  StatusOfCurrent needs to     *)
(* know of every thread that does not run where it stands and what status  *)
(* the outermost OneTick it is inside of will put back: what SWITCH hands  *)
(* the processor to is a thread inside Yield or Sleep or a new one, and    *)
(* the oldStatus of the first OneTick is that of the thread's own code.    *)
(***************************************************************************)
EXTENDS Interrupt, FiniteSetTheorems, SequenceTheorems, WellFoundedInduction,
        TLAPS


Devices == Pollers \cup Shots \cup {Timer}
Interrupts == [who : Devices, left : Int]
Statuses == {"SystemMode", "UserMode"}

Sorted(p) == \A i, j \in DOMAIN p : i < j => p[i].left <= p[j].left

PendingInv ==
    /\ pending \in Seq(Interrupts)
    /\ Sorted(pending)
    /\ HandlersOnTime

ThreadTypeOK ==
    /\ current \in Threads /\ ready \subseteq Threads /\ blocked \subseteq Threads
    /\ at \in [Threads -> {"code", "off", "fire", "yield", "asleep", "idle",
                           "none", "new"}]
    /\ frames \in [Threads -> Seq(Statuses)]
    /\ mode \in [Threads -> {"kernel", "user", "trap"}]

OwnStatus(t) == IF mode[t] = "user" THEN "UserMode" ELSE "SystemMode"

(* The first OneTick that a thread is inside of has the status of its own  *)
(* code to put back; elsewhere than in its code, in a OneTick or in Yield  *)
(* a thread is inside none, and in the kernel.                             *)
FramesOfOwnCode ==
    \A t \in Threads :
        \/ /\ frames[t] = <<>> /\ at[t] # "fire"
           /\ at[t] # "code" => mode[t] # "user"
        \/ /\ frames[t] # <<>> /\ at[t] \in {"fire", "yield"}
           /\ frames[t][1] = OwnStatus(t)

(* Where the threads on the ready list, asleep and in the processor stand. *)
PlacesOfThreads ==
    /\ \A t \in Threads :
          t # current => at[t] \in {"none", "new", "yield", "asleep"}
    /\ \A t \in ready : at[t] \in {"new", "yield", "asleep", "idle"}
    /\ \A t \in blocked : at[t] \in {"asleep", "idle"}
    /\ at[current] # "none"
    /\ current \in ready => at[current] \in {"asleep", "idle"}
    /\ at[current] = "fire" => status = frames[current][Len(frames[current])]

(* Only OneTick and Idle call handlers.                                    *)
HandlersInTick == inHandler => at[current] \in {"fire", "idle"}

ThreadInv ==
    /\ ThreadTypeOK /\ FramesOfOwnCode /\ PlacesOfThreads
    /\ HandlersInTick /\ StatusOfCurrent

----------------------------------------------------------------------------
(* Schedule: what SortedList::Insert does to a sorted list.                *)

(* In a sorted list the interrupts that are due no later than "delay" are  *)
(* the first k, where k is their number.                                   *)
LEMMA DueNoLaterIsPrefix ==
    ASSUME NEW p \in Seq(Interrupts), Sorted(p), NEW delay \in Int
    PROVE  LET k == Cardinality({i \in DOMAIN p : p[i].left <= delay})
           IN  /\ k \in 0..Len(p)
               /\ \A i \in 1..Len(p) : p[i].left <= delay <=> i <= k
<1> DEFINE early == {i \in DOMAIN p : p[i].left <= delay}
           late == {i \in 1..Len(p) : p[i].left > delay}
<1>1. /\ Len(p) \in Nat /\ DOMAIN p = 1..Len(p)
      /\ \A i \in 1..Len(p) : p[i].left \in Int
  <2>1. Len(p) \in Nat /\ DOMAIN p = 1..Len(p) /\ \A i \in 1..Len(p) : p[i] \in Interrupts
    OBVIOUS
  <2> QED  BY <2>1 DEF Interrupts
<1>2. PICK k \in 0..Len(p) : \A i \in 1..Len(p) : p[i].left <= delay <=> i <= k
  <2>1. CASE late = {}
    <3>1. \A i \in 1..Len(p) : p[i].left <= delay <=> i <= Len(p)
      BY <1>1, <2>1
    <3>2. Len(p) \in 0..Len(p)
      BY <1>1
    <3> QED  BY <3>1, <3>2
  <2>2. CASE late # {}
    <3>1. late \subseteq Nat
      BY <1>1
    <3>2. PICK n \in late : \A i \in late : ~(i < n)
      <4>1. IsWellFoundedOn(OpToRel(<, Nat), Nat)
        BY NatLessThanWellFounded
      <4>2. PICK n \in late : \A i \in late : ~(<<i, n>> \in OpToRel(<, Nat))
        BY <2>2, <3>1, <4>1, WFMin
      <4> QED  BY <3>1, <4>2 DEF OpToRel
    <3>3. n \in 1..Len(p) /\ p[n].left > delay
      BY <3>2
    <3>4. ASSUME NEW i \in 1..Len(p) PROVE p[i].left <= delay <=> i <= n - 1
      <4>1. CASE i < n
        <5>1. i \notin late
          BY <3>2, <4>1
        <5> QED  BY <5>1, <1>1, <3>3, <4>1
      <4>2. CASE i >= n
        <5>1. p[n].left <= p[i].left
          BY <1>1, <3>3, <4>2 DEF Sorted
        <5> QED  BY <5>1, <1>1, <3>3, <4>2
      <4> QED  BY <4>1, <4>2, <1>1, <3>3
    <3>5. n - 1 \in 0..Len(p)
      BY <1>1, <3>3
    <3> QED  BY <3>4, <3>5
  <2> QED  BY <2>1, <2>2
<1>3. early = 1..k
  BY <1>1, <1>2
<1> HIDE DEF early
<1>4. Cardinality(early) = k
  <2>1. k \in Int /\ 1 \in Int /\ Cardinality(1..k) = IF 1 > k THEN 0 ELSE k - 1 + 1
    BY <1>1, <1>2, FS_Interval
  <2> QED  BY <2>1, <1>1, <1>2, <1>3
<1> QED  BY <1>2, <1>4 DEF early

(* Schedule keeps a sorted list sorted.  It adds the interrupt, keeps the  *)
(* others, and leaves the first one first unless the new one is earlier.   *)
LEMMA ScheduleFacts ==
    ASSUME NEW p \in Seq(Interrupts), Sorted(p),
           NEW d \in Devices, NEW delay \in Nat \ {0}
    PROVE  /\ Schedule(p, d, delay) \in Seq(Interrupts)
           /\ Sorted(Schedule(p, d, delay))
           /\ Due(p) => Due(Schedule(p, d, delay))
           /\ \A low \in Int :
                 (low < delay /\ \A i \in DOMAIN p : p[i].left > low) =>
                     \A i \in DOMAIN Schedule(p, d, delay) :
                         Schedule(p, d, delay)[i].left > low
<1> DEFINE n == Len(p)
           x == [who |-> d, left |-> delay]
           k == Cardinality({i \in DOMAIN p : p[i].left <= delay})
           q == Schedule(p, d, delay)
<1>1. /\ n \in Nat /\ DOMAIN p = 1..n
      /\ x \in Interrupts /\ x.left = delay /\ delay \in Int
      /\ \A i \in 1..n : p[i] \in Interrupts /\ p[i].left \in Int
  <2>1. n \in Nat /\ DOMAIN p = 1..n /\ \A i \in 1..n : p[i] \in Interrupts
    OBVIOUS
  <2> QED  BY <2>1 DEF Interrupts
<1>2. k \in 0..n /\ \A i \in 1..n : p[i].left <= delay <=> i <= k
  BY <1>1, DueNoLaterIsPrefix
<1>3. q = SubSeq(p, 1, k) \o <<x>> \o SubSeq(p, k + 1, n)
  BY DEF Schedule
<1> HIDE DEF k, x, q
<1>4. /\ q \in Seq(Interrupts) /\ Len(q) = n + 1
      /\ \A i \in 1..k : q[i] = p[i]
      /\ q[k + 1] = x
      /\ \A i \in (k + 1)..n : q[i + 1] = p[i]
  <2> DEFINE a == SubSeq(p, 1, k)
             b == SubSeq(p, k + 1, n)
             c == a \o <<x>>
  <2>1. a \in Seq(Interrupts) /\ Len(a) = k /\ \A i \in 1..k : a[i] = p[i]
    BY <1>1, <1>2, SubSeqProperties
  <2>2. /\ b \in Seq(Interrupts) /\ Len(b) = n - k
        /\ \A i \in 1..(n - k) : b[i] = p[k + i]
    <3>1. k + 1 \in Int /\ n \in Int /\ \A i \in (k + 1)..n : p[i] \in Interrupts
      BY <1>1, <1>2
    <3>2. /\ b \in Seq(Interrupts)
          /\ Len(b) = IF k + 1 <= n THEN n - (k + 1) + 1 ELSE 0
          /\ \A i \in 1..(n - (k + 1) + 1) : b[i] = p[k + 1 + i - 1]
      BY <3>1, SubSeqProperties
    <3> HIDE DEF b
    <3>3. Len(b) = n - k
      <4>1. k \in Nat /\ n \in Nat /\ (k + 1 <= n \/ n = k)
        BY <1>1, <1>2
      <4> HIDE DEF n
      <4> QED  BY <3>2, <4>1
    <3>4. ASSUME NEW i \in 1..(n - k) PROVE b[i] = p[k + i]
      <4>1. i \in 1..(n - (k + 1) + 1) /\ k + 1 + i - 1 = k + i
        BY <1>1, <1>2
      <4> QED  BY <3>2, <4>1
    <3> QED  BY <3>2, <3>3, <3>4
  <2> HIDE DEF a, b
  <2>3. /\ c \in Seq(Interrupts) /\ Len(c) = k + 1
        /\ \A i \in 1..k : c[i] = p[i]
        /\ c[k + 1] = x
    <3>1. <<x>> \in Seq(Interrupts) /\ Len(<<x>>) = 1 /\ <<x>>[1] = x
      BY <1>1
    <3>2. /\ c \in Seq(Interrupts) /\ Len(c) = k + 1
          /\ \A i \in 1..(k + 1) : c[i] = IF i <= k THEN a[i] ELSE <<x>>[i - k]
      <4> DEFINE y == <<x>>
      <4>1. y \in Seq(Interrupts) /\ Len(y) = 1
        BY <3>1
      <4> HIDE DEF y
      <4>2. /\ a \o y \in Seq(Interrupts) /\ Len(a \o y) = Len(a) + Len(y)
            /\ \A i \in 1..(Len(a) + Len(y)) :
                  (a \o y)[i] = IF i <= Len(a) THEN a[i] ELSE y[i - Len(a)]
        BY <2>1, <4>1, ConcatProperties
      <4> QED  BY <2>1, <4>1, <4>2 DEF y
    <3> HIDE DEF c
    <3>3. k + 1 \in 1..(k + 1) /\ ~(k + 1 <= k) /\ (k + 1) - k = 1
      BY <1>1, <1>2
    <3>4. c[k + 1] = x
      BY <3>1, <3>2, <3>3
    <3>5. \A i \in 1..k : c[i] = p[i]
      BY <1>1, <1>2, <2>1, <3>2
    <3> QED  BY <3>2, <3>4, <3>5
  <2> HIDE DEF c
  <2>4. q = c \o b
    BY <1>3 DEF a, b, c
  <2>5. /\ q \in Seq(Interrupts) /\ Len(q) = k + 1 + (n - k)
        /\ \A i \in 1..(k + 1 + (n - k)) :
              q[i] = IF i <= k + 1 THEN c[i] ELSE b[i - (k + 1)]
    <3>1. /\ c \o b \in Seq(Interrupts) /\ Len(c \o b) = Len(c) + Len(b)
          /\ \A i \in 1..(Len(c) + Len(b)) :
                (c \o b)[i] = IF i <= Len(c) THEN c[i] ELSE b[i - Len(c)]
      BY <2>2, <2>3, ConcatProperties
    <3> QED  BY <2>2, <2>3, <2>4, <3>1
  <2>6. ASSUME NEW i \in (k + 1)..n PROVE q[i + 1] = p[i]
    <3>1. i - k \in 1..(n - k) /\ i + 1 \in 1..(k + 1 + (n - k))
      BY <1>1, <1>2
    <3>2. q[i + 1] = b[i - k] /\ b[i - k] = p[i]
      BY <1>1, <1>2, <2>2, <2>5, <3>1
    <3> QED  BY <3>2
  <2> QED  BY <1>1, <1>2, <2>3, <2>5, <2>6
<1>5. /\ DOMAIN q = 1..(n + 1)
      /\ \A i \in DOMAIN q : \/ i \in 1..k /\ q[i] = p[i]
                             \/ i = k + 1 /\ q[i] = x
                             \/ i - 1 \in (k + 1)..n /\ q[i] = p[i - 1]
  BY <1>1, <1>2, <1>4
<1>6. Sorted(q)
  <2> SUFFICES ASSUME NEW i \in DOMAIN q, NEW j \in DOMAIN q, i < j
               PROVE  q[i].left <= q[j].left
    BY DEF Sorted
  <2>1. \A a, b \in 1..n : a < b => p[a].left <= p[b].left
    BY <1>1 DEF Sorted
  <2>2. CASE i \in 1..k /\ q[i] = p[i]
    BY <1>1, <1>2, <1>5, <2>1, <2>2
  <2>3. CASE i = k + 1 /\ q[i] = x
    BY <1>1, <1>2, <1>5, <2>3
  <2>4. CASE i - 1 \in (k + 1)..n /\ q[i] = p[i - 1]
    <3>1. j - 1 \in (k + 1)..n /\ q[j] = p[j - 1] /\ i - 1 < j - 1
      BY <1>1, <1>2, <1>5, <2>4
    <3>2. i - 1 \in 1..n /\ j - 1 \in 1..n
      BY <1>1, <1>2, <2>4, <3>1
    <3> QED  BY <2>1, <2>4, <3>1, <3>2
  <2> QED  BY <1>5, <2>2, <2>3, <2>4
<1>7. ASSUME Due(p) PROVE Due(q)
  <2>1. n >= 1 /\ p[1].left <= 0
    BY <1>1, <1>7 DEF Due
  <2>2. k >= 1
    BY <1>1, <1>2, <2>1
  <2>3. q[1] = p[1] /\ q # <<>>
    BY <1>1, <1>2, <1>4, <2>1, <2>2
  <2> QED  BY <1>4, <2>1, <2>3 DEF Due
<1>8. ASSUME NEW low \in Int, low < delay, \A i \in DOMAIN p : p[i].left > low
      PROVE  \A i \in DOMAIN q : q[i].left > low
  <2> SUFFICES ASSUME NEW i \in DOMAIN q PROVE q[i].left > low
    OBVIOUS
  <2>1. CASE i \in 1..k /\ q[i] = p[i]
    BY <1>1, <1>2, <1>8, <2>1
  <2>2. CASE i = k + 1 /\ q[i] = x
    BY <1>1, <1>8, <2>2
  <2>3. CASE i - 1 \in (k + 1)..n /\ q[i] = p[i - 1]
    <3>1. i - 1 \in 1..n
      BY <1>1, <1>2, <2>3
    <3> QED  BY <1>1, <1>8, <2>3, <3>1
  <2> QED  BY <1>5, <2>1, <2>2, <2>3
<1> QED  BY <1>4, <1>6, <1>7, <1>8 DEF q

----------------------------------------------------------------------------
(* The threads and the status.                                             *)

(* OneTick, entered with the status of the thread's own code, or inside    *)
(* another OneTick.                                                        *)
LEMMA OneTickInv ==
    ASSUME ThreadInv, NEW s \in Statuses, OneTick(s),
           UNCHANGED <<current, ready, blocked>>,
           at[current] \in {"code", "off", "yield", "new"},
           mode' \in [Threads -> {"kernel", "user", "trap"}],
           \A t \in Threads : t # current => mode'[t] = mode[t],
           IF frames[current] = <<>> THEN s = OwnStatus(current)'
                                     ELSE mode' = mode
    PROVE  ThreadInv'
<1> DEFINE old == frames[current]
           new == Append(old, s)
<1>1. /\ current \in Threads /\ ready \subseteq Threads /\ blocked \subseteq Threads
      /\ at \in [Threads -> {"code", "off", "fire", "yield", "asleep", "idle",
                             "none", "new"}]
      /\ frames \in [Threads -> Seq(Statuses)]
      /\ mode \in [Threads -> {"kernel", "user", "trap"}]
      /\ old \in Seq(Statuses)
  BY DEF ThreadInv, ThreadTypeOK
<1>2. /\ status' = s
      /\ at' = [at EXCEPT ![current] = "fire"]
      /\ frames' = [frames EXCEPT ![current] = new]
      /\ inHandler' = Due(pending')
      /\ current' = current /\ ready' = ready /\ blocked' = blocked
  BY DEF OneTick
<1>3. /\ new \in Seq(Statuses) /\ new # <<>>
      /\ new[Len(new)] = s
      /\ new[1] = IF old = <<>> THEN s ELSE old[1]
  <2>1. old \in Seq(Statuses)
    BY <1>1
  <2> HIDE DEF old
  <2>2. /\ new \in Seq(Statuses) /\ Len(new) = Len(old) + 1 /\ Len(old) \in Nat
        /\ \A i \in 1..Len(old) : new[i] = old[i]
        /\ new[Len(old) + 1] = s
        /\ old = <<>> <=> Len(old) = 0
    BY <2>1
  <2> HIDE DEF new
  <2>3. new # <<>>
    BY <2>2
  <2> QED  BY <2>2, <2>3
<1> HIDE DEF old, new
<1>4. ThreadTypeOK'
  BY <1>1, <1>2, <1>3 DEF ThreadTypeOK
<1>5. FramesOfOwnCode'
  <2> SUFFICES ASSUME NEW t \in Threads
               PROVE  \/ /\ frames'[t] = <<>> /\ at'[t] # "fire"
                         /\ at'[t] # "code" => mode'[t] # "user"
                      \/ /\ frames'[t] # <<>> /\ at'[t] \in {"fire", "yield"}
                         /\ frames'[t][1] = OwnStatus(t)'
    BY DEF FramesOfOwnCode
  <2>1. CASE t = current
    <3>1. old # <<>> => old[1] = OwnStatus(current)
      BY <1>1 DEF ThreadInv, FramesOfOwnCode, old
    <3>2. new[1] = OwnStatus(current)'
      BY <1>3, <3>1 DEF OwnStatus, old
    <3> QED  BY <1>1, <1>2, <1>3, <2>1, <3>2
  <2>2. CASE t # current
    BY <1>1, <1>2, <2>2 DEF ThreadInv, FramesOfOwnCode, OwnStatus
  <2> QED  BY <2>1, <2>2
<1>6. PlacesOfThreads'
  <2>1. current \notin ready /\ current \notin blocked
    BY DEF ThreadInv, PlacesOfThreads
  <2>2. \A t \in Threads : at'[t] = IF t = current THEN "fire" ELSE at[t]
    BY <1>1, <1>2
  <2>3. frames'[current] = new
    BY <1>1, <1>2
  <2> QED  BY <1>1, <1>2, <1>3, <2>1, <2>2, <2>3 DEF ThreadInv, PlacesOfThreads
<1>7. HandlersInTick' /\ StatusOfCurrent'
  BY <1>1, <1>2 DEF HandlersInTick, StatusOfCurrent
<1> QED  BY <1>4, <1>5, <1>6, <1>7 DEF ThreadInv

(* SWITCH to a thread of the ready list, from inside Yield or Sleep.       *)
LEMMA SwitchInv ==
    ASSUME ThreadInv, ~inHandler,
           NEW next \in Threads, NEW where \in {"yield", "asleep"},
           SwitchTo(next, where), status' = "SystemMode",
           next \in ready \/ (next = current /\ ready = {}),
           at[current] \in {"code", "off", "fire", "asleep"},
           frames[current] = <<>> => mode[current] # "user",
           frames[current] # <<>> => where = "yield",
           ready' \in {ready \ {next}, (ready \cup {current}) \ {next}},
           current \in ready' => next # current,
           blocked' = blocked \/ (where = "asleep" /\ blocked' = blocked \cup {current}),
           current \in blocked => where = "asleep",
           UNCHANGED <<inHandler, frames, mode>>
    PROVE  ThreadInv'
<1>1. /\ current \in Threads /\ ready \subseteq Threads /\ blocked \subseteq Threads
      /\ at \in [Threads -> {"code", "off", "fire", "yield", "asleep", "idle",
                             "none", "new"}]
  BY DEF ThreadInv, ThreadTypeOK
<1>2. /\ current' = next
      /\ \A t \in Threads : at'[t] = IF t = current THEN where ELSE at[t]
  BY <1>1 DEF SwitchTo
<1>3. next # current => at[next] \in {"new", "yield", "asleep"}
  BY DEF ThreadInv, PlacesOfThreads
<1>4. ThreadTypeOK'
  BY <1>1, <1>2 DEF SwitchTo, ThreadInv, ThreadTypeOK
<1>5. FramesOfOwnCode'
  BY <1>1, <1>2 DEF ThreadInv, FramesOfOwnCode, OwnStatus
<1>6. PlacesOfThreads'
  BY <1>1, <1>2, <1>3 DEF ThreadInv, PlacesOfThreads
<1>7. StatusOfCurrent'
  BY <1>1, <1>2, <1>3 DEF StatusOfCurrent
<1>8. HandlersInTick'
  BY Zenon DEF HandlersInTick
<1> QED  BY <1>4, <1>5, <1>6, <1>7, <1>8 DEF ThreadInv

(* The thread that runs, on no list, goes on to another place.             *)
LEMMA MovedPlaces ==
    ASSUME ThreadTypeOK, PlacesOfThreads, NEW where, where \notin {"none", "fire"},
           \A t \in Threads : at'[t] = IF t = current THEN where ELSE at[t],
           current \notin ready, current \notin blocked,
           current' = current, ready' = ready, blocked' = blocked
    PROVE  PlacesOfThreads'
<1>1. current \in Threads /\ ready \subseteq Threads /\ blocked \subseteq Threads
  BY DEF ThreadTypeOK
<1>2. /\ \A t \in Threads :
            t # current => at'[t] \in {"none", "new", "yield", "asleep"}
      /\ \A t \in ready : at'[t] \in {"new", "yield", "asleep", "idle"}
      /\ \A t \in blocked : at'[t] \in {"asleep", "idle"}
  BY <1>1 DEF PlacesOfThreads
<1>3. at'[current] = where
  BY <1>1
<1> QED  BY <1>2, <1>3 DEF PlacesOfThreads

(* Kernel::Initialize leaves the main thread in the kernel, and no other.  *)
LEMMA ThreadInitInv == Init => ThreadInv
<1> SUFFICES ASSUME Init PROVE ThreadInv
  OBVIOUS
<1>1. ThreadTypeOK
  BY InterruptAssumption DEF Init, ThreadTypeOK
<1>2. FramesOfOwnCode
  BY DEF Init, FramesOfOwnCode
<1>3. PlacesOfThreads /\ HandlersInTick /\ StatusOfCurrent
  BY InterruptAssumption
     DEF Init, PlacesOfThreads, HandlersInTick, StatusOfCurrent
<1> QED  BY <1>1, <1>2, <1>3 DEF ThreadInv

(* Every step keeps the threads and the status in order.                   *)
LEMMA ThreadNextInv == ThreadInv /\ [Next]_vars => ThreadInv'
<1> SUFFICES ASSUME ThreadInv, [Next]_vars PROVE ThreadInv'
  OBVIOUS
<1>1. /\ current \in Threads /\ ready \subseteq Threads /\ blocked \subseteq Threads
      /\ at \in [Threads -> {"code", "off", "fire", "yield", "asleep", "idle",
                             "none", "new"}]
      /\ frames \in [Threads -> Seq(Statuses)]
      /\ mode \in [Threads -> {"kernel", "user", "trap"}]
  BY DEF ThreadInv, ThreadTypeOK
<1>2. /\ FramesOfOwnCode /\ PlacesOfThreads
      /\ HandlersInTick /\ StatusOfCurrent
  BY DEF ThreadInv
<1>3. CASE Disable
  <2>1. /\ \A t \in Threads : at'[t] = IF t = current THEN "off" ELSE at[t]
        /\ at[current] = "code" /\ mode[current] # "user"
        /\ UNCHANGED <<inHandler, status, current, ready, blocked, frames, mode>>
    BY <1>1, <1>3 DEF Disable, InKernel, intVars
  <2>2. ThreadTypeOK'
    BY <1>1, <1>3 DEF Disable, intVars, ThreadTypeOK
  <2>3. FramesOfOwnCode'
    BY <1>1, <1>2, <2>1 DEF FramesOfOwnCode, OwnStatus
  <2>4. PlacesOfThreads'
    <3>1. current \notin ready /\ current \notin blocked
      BY <1>2, <2>1 DEF PlacesOfThreads
    <3> QED  BY <1>2, <2>1, <3>1, MovedPlaces DEF ThreadInv
  <2>5. StatusOfCurrent'
    BY <1>1, <1>2, <2>1 DEF StatusOfCurrent
  <2>6. HandlersInTick'
    BY <1>2, <2>1, Zenon DEF HandlersInTick
  <2> QED  BY <2>2, <2>3, <2>4, <2>5, <2>6 DEF ThreadInv
<1>4. CASE Enable
  <2>1. /\ at[current] \in {"off", "yield", "new"} /\ OneTick(status)
        /\ UNCHANGED <<current, ready, blocked, mode>>
    BY <1>4 DEF Enable
  <2>2. status = "SystemMode" /\ status \in Statuses
    BY <1>2, <2>1 DEF StatusOfCurrent, Statuses
  <2>3. frames[current] = <<>> => status = OwnStatus(current)'
    BY <1>1, <1>2, <2>1, <2>2 DEF FramesOfOwnCode, OwnStatus
  <2> QED  BY <1>1, <2>1, <2>2, <2>3, OneTickInv
<1>5. CASE UserInstruction
  <2>1. /\ at[current] = "code" /\ mode[current] = "user" /\ OneTick(status)
        /\ UNCHANGED <<current, ready, blocked, mode>>
    BY <1>5 DEF UserInstruction
  <2>2. status = "UserMode" /\ status \in Statuses
    BY <1>2, <2>1 DEF StatusOfCurrent, Statuses
  <2>3. status = OwnStatus(current)'
    BY <1>1, <2>1, <2>2 DEF OwnStatus
  <2> QED  BY <1>1, <2>1, <2>2, <2>3, OneTickInv
<1>6. CASE TrapReturns
  <2>1. /\ at[current] = "code" /\ mode[current] = "trap" /\ OneTick("UserMode")
        /\ mode' = [mode EXCEPT ![current] = "user"]
        /\ UNCHANGED <<current, ready, blocked>>
    BY <1>6 DEF TrapReturns, InKernel
  <2>2. frames[current] = <<>> /\ "UserMode" \in Statuses
    BY <1>1, <1>2, <2>1 DEF FramesOfOwnCode, Statuses
  <2>3. "UserMode" = OwnStatus(current)'
    BY <1>1, <2>1 DEF OwnStatus
  <2>4. /\ mode' \in [Threads -> {"kernel", "user", "trap"}]
        /\ \A t \in Threads : t # current => mode'[t] = mode[t]
    BY <1>1, <2>1
  <2> QED  BY <2>1, <2>2, <2>3, <2>4, OneTickInv
<1>7. CASE RunUser \/ Trap
  <2>1. /\ mode' \in [Threads -> {"kernel", "user", "trap"}]
        /\ \A t \in Threads : t # current => mode'[t] = mode[t]
        /\ status' = OwnStatus(current)'
        /\ at[current] = "code"
        /\ UNCHANGED <<inHandler, current, ready, blocked, at, frames>>
    BY <1>1, <1>7 DEF RunUser, Trap, InKernel, OwnStatus
  <2>2. ThreadTypeOK'
    BY <1>1, <2>1 DEF ThreadTypeOK
  <2>3. FramesOfOwnCode'
    BY <1>1, <1>2, <2>1 DEF FramesOfOwnCode, OwnStatus
  <2>4. PlacesOfThreads'
    BY <1>1, <1>2, <2>1 DEF PlacesOfThreads
  <2>5. StatusOfCurrent'
    BY <1>1, <2>1 DEF StatusOfCurrent, OwnStatus
  <2>6. HandlersInTick'
    BY <1>2, <2>1, Zenon DEF HandlersInTick
  <2> QED  BY <2>2, <2>3, <2>4, <2>5, <2>6 DEF ThreadInv
<1>8. ASSUME NEW u \in Threads, Fork(u) PROVE ThreadInv'
  <2>1. /\ \A t \in Threads : at'[t] = IF t = u THEN "new" ELSE at[t]
        /\ at[u] = "none" /\ u # current
        /\ ready' = ready \cup {u}
        /\ UNCHANGED <<inHandler, status, current, blocked, frames, mode>>
    BY <1>1, <1>2, <1>8 DEF Fork, intVars, PlacesOfThreads
  <2>2. ThreadTypeOK'
    BY <1>1, <1>8, <2>1 DEF Fork, ThreadTypeOK
  <2>3. FramesOfOwnCode'
    BY <1>1, <1>2, <2>1 DEF FramesOfOwnCode, OwnStatus
  <2>4. PlacesOfThreads'
    <3>1. u \notin blocked
      BY <1>2, <2>1 DEF PlacesOfThreads
    <3>2. at'[current] = at[current]
      BY <1>1, <2>1
    <3>3. /\ \A t \in ready : at'[t] \in {"new", "yield", "asleep", "idle"}
          /\ at'[u] = "new"
      BY <1>1, <1>2, <2>1 DEF PlacesOfThreads
    <3>4. \A t \in blocked : at'[t] \in {"asleep", "idle"}
      BY <1>1, <1>2, <2>1, <3>1 DEF PlacesOfThreads
    <3>5. \A t \in Threads :
             t # current => at'[t] \in {"none", "new", "yield", "asleep"}
      BY <1>1, <1>2, <2>1 DEF PlacesOfThreads
    <3> QED  BY <1>2, <2>1, <3>2, <3>3, <3>4, <3>5 DEF PlacesOfThreads
  <2>5. StatusOfCurrent'
    BY <1>1, <1>2, <2>1 DEF StatusOfCurrent
  <2>6. HandlersInTick'
    BY <1>2, <1>8, <2>1, Zenon DEF HandlersInTick, Fork
  <2> QED  BY <2>2, <2>3, <2>4, <2>5, <2>6 DEF ThreadInv
<1>9. CASE Fire
  <2>1. /\ \A t \in ready' : t \in ready \/ t \in blocked
        /\ blocked' \subseteq blocked
        /\ inHandler
        /\ UNCHANGED <<status, current, at, frames, mode>>
    BY <1>9 DEF Fire, TimerCallBack, DeviceCallBack, Due
  <2>2. ThreadTypeOK'
    BY <1>1, <2>1 DEF ThreadTypeOK
  <2>3. FramesOfOwnCode'
    BY <1>2, <2>1 DEF FramesOfOwnCode, OwnStatus
  <2>4. PlacesOfThreads'
    BY <1>1, <1>2, <2>1 DEF PlacesOfThreads
  <2>5. StatusOfCurrent'
    BY <1>2, <2>1 DEF StatusOfCurrent
  <2>6. HandlersInTick'
    BY <1>2, <2>1 DEF HandlersInTick
  <2> QED  BY <2>2, <2>3, <2>4, <2>5, <2>6 DEF ThreadInv
<1>10. CASE TickReturns
  <2> DEFINE old == frames[current]
  <2>1. /\ at[current] = "fire"
        /\ \A t \in Threads : at'[t] = IF t = current THEN "code" ELSE at[t]
        /\ \A t \in Threads : frames'[t] = IF t = current THEN <<>> ELSE frames[t]
        /\ status' = IF Len(old) > 1 THEN Head(old) ELSE status
        /\ ~inHandler
        /\ UNCHANGED <<inHandler, current, ready, blocked, mode>>
    BY <1>1, <1>10 DEF TickReturns
  <2>2. old \in Seq(Statuses) /\ old # <<>> /\ old[1] = OwnStatus(current)
    BY <1>1, <1>2, <2>1 DEF FramesOfOwnCode
  <2>3. status = old[Len(old)]
    BY <1>2, <2>1 DEF PlacesOfThreads
  <2> HIDE DEF old
  <2>4. status' = old[1]
    BY <2>1, <2>2, <2>3
  <2>5. ThreadTypeOK'
    BY <1>1, <1>10, <2>1 DEF TickReturns, ThreadTypeOK
  <2>6. FramesOfOwnCode'
    BY <1>1, <1>2, <2>1 DEF FramesOfOwnCode, OwnStatus
  <2>7. PlacesOfThreads'
    <3>1. current \notin ready /\ current \notin blocked
      BY <1>2, <2>1 DEF PlacesOfThreads
    <3> QED  BY <1>2, <2>1, <3>1, MovedPlaces DEF ThreadInv
  <2>8. StatusOfCurrent'
    BY <1>1, <2>1, <2>2, <2>4 DEF StatusOfCurrent, OwnStatus
  <2>9. HandlersInTick'
    BY <2>1, Zenon DEF HandlersInTick
  <2> QED  BY <2>5, <2>6, <2>7, <2>8, <2>9 DEF ThreadInv
<1>11. CASE TickYields
  <2>1. /\ at[current] = "fire" /\ ~inHandler /\ status' = "SystemMode"
        /\ UNCHANGED <<inHandler, blocked, frames, mode>>
        /\ current \notin ready /\ current \notin blocked
        /\ frames[current] # <<>>
    BY <1>1, <1>2, <1>11 DEF TickYields, PlacesOfThreads, FramesOfOwnCode
  <2>2. \/ \E next \in ready : /\ SwitchTo(next, "yield")
                               /\ ready' = (ready \cup {current}) \ {next}
        \/ ready = {} /\ SwitchTo(current, "yield") /\ ready' = ready \ {current}
    BY <1>11 DEF TickYields
  <2> QED  BY <1>1, <2>1, <2>2, SwitchInv
<1>12. CASE Yield
  <2>1. /\ at[current] = "code" /\ mode[current] # "user"
        /\ UNCHANGED <<inHandler, status, blocked, frames, mode>>
    BY <1>12 DEF Yield, InKernel, intVars
  <2>2. /\ status = "SystemMode" /\ frames[current] = <<>> /\ ~inHandler
        /\ current \notin ready /\ current \notin blocked
    BY <1>1, <1>2, <2>1 DEF StatusOfCurrent, FramesOfOwnCode, PlacesOfThreads,
       HandlersInTick
  <2>3. PICK next \in ready : /\ SwitchTo(next, "yield")
                              /\ ready' = (ready \cup {current}) \ {next}
    BY <1>12 DEF Yield
  <2> QED  BY <1>1, <2>1, <2>2, <2>3, SwitchInv
<1>13. CASE Sleep
  <2>1. /\ at[current] = "off" /\ blocked' = blocked \cup {current}
        /\ UNCHANGED <<inHandler, status, frames, mode>>
    BY <1>13 DEF Sleep, intVars
  <2>2. /\ status = "SystemMode" /\ frames[current] = <<>> /\ ~inHandler
        /\ mode[current] # "user"
        /\ current \notin ready /\ current \notin blocked
    BY <1>1, <1>2, <2>1 DEF StatusOfCurrent, FramesOfOwnCode, PlacesOfThreads,
       HandlersInTick
  <2>3. \/ \E next \in ready : SwitchTo(next, "asleep") /\ ready' = ready \ {next}
        \/ ready = {} /\ SwitchTo(current, "asleep") /\ ready' = ready \ {current}
    BY <1>13 DEF Sleep
  <2> QED  BY <1>1, <2>1, <2>2, <2>3, SwitchInv
<1>14. CASE Dispatch
  <2>1. /\ at[current] = "asleep"
        /\ UNCHANGED <<inHandler, status, blocked, frames, mode>>
    BY <1>14 DEF Dispatch, Idling, intVars
  <2>2. /\ status = "SystemMode" /\ frames[current] = <<>> /\ ~inHandler
        /\ mode[current] # "user"
    BY <1>1, <1>2, <2>1 DEF StatusOfCurrent, FramesOfOwnCode, PlacesOfThreads,
       HandlersInTick
  <2>3. PICK next \in ready : SwitchTo(next, "asleep") /\ ready' = ready \ {next}
    BY <1>14 DEF Dispatch
  <2> QED  BY <1>1, <2>1, <2>2, <2>3, SwitchInv
<1>15. CASE SleepReturns
  <2>1. /\ \A t \in Threads : at'[t] = IF t = current THEN "off" ELSE at[t]
        /\ at[current] = "asleep" /\ current \notin ready /\ current \notin blocked
        /\ UNCHANGED <<inHandler, status, current, ready, blocked, frames, mode>>
    BY <1>1, <1>15 DEF SleepReturns, Idling, intVars
  <2>2. ThreadTypeOK'
    BY <1>1, <1>15, <2>1 DEF SleepReturns, ThreadTypeOK
  <2>3. FramesOfOwnCode'
    BY <1>1, <1>2, <2>1 DEF FramesOfOwnCode, OwnStatus
  <2>4. PlacesOfThreads'
    BY <1>2, <2>1, MovedPlaces DEF ThreadInv
  <2>5. StatusOfCurrent'
    BY <1>1, <1>2, <2>1 DEF StatusOfCurrent
  <2>6. HandlersInTick'
    BY <1>2, <2>1, Zenon DEF HandlersInTick
  <2> QED  BY <2>2, <2>3, <2>4, <2>5, <2>6 DEF ThreadInv
<1>16. CASE Idle \/ IdleReturns
  <2>1. PICK where \in {"idle", "asleep"} :
           /\ \A t \in Threads : at'[t] = IF t = current THEN where ELSE at[t]
           /\ at' = [at EXCEPT ![current] = where]
           /\ where = "asleep" => status' = "SystemMode" /\ ~inHandler'
    BY <1>1, <1>16 DEF Idle, IdleReturns
  <2>2. /\ at[current] \in {"idle", "asleep"}
        /\ UNCHANGED <<current, ready, blocked, frames, mode>>
    BY <1>1, <1>16 DEF Idle, Idling, IdleReturns
  <2>3. ThreadTypeOK'
    BY <1>1, <2>1, <2>2 DEF ThreadTypeOK
  <2>4. FramesOfOwnCode'
    BY <1>1, <1>2, <2>1, <2>2 DEF FramesOfOwnCode, OwnStatus
  <2>5. PlacesOfThreads'
    BY <1>1, <1>2, <2>1, <2>2 DEF PlacesOfThreads
  <2>6. StatusOfCurrent'
    BY <1>1, <2>1, <2>2 DEF StatusOfCurrent
  <2>7. HandlersInTick'
    BY <1>1, <2>1, <2>2 DEF HandlersInTick
  <2> QED  BY <2>3, <2>4, <2>5, <2>6, <2>7 DEF ThreadInv
<1>17. CASE (\E d \in Shots : Request(d)) \/ UNCHANGED vars
  <2>1. UNCHANGED <<inHandler, status, current, ready, blocked, at, frames, mode>>
    BY <1>17 DEF Request, vars, intVars, threadVars
  <2> QED  BY <1>1, <1>2, <2>1 DEF ThreadInv, ThreadTypeOK, FramesOfOwnCode,
              OwnStatus, PlacesOfThreads, HandlersInTick, StatusOfCurrent
<1> QED
  BY <1>3, <1>4, <1>5, <1>6, <1>7, <1>8, <1>9, <1>10, <1>11, <1>12, <1>13,
     <1>14, <1>15, <1>16, <1>17 DEF Next, Proceed

(* Interrupt::status is that of the code which runs, for any threads.      *)
THEOREM StatusSafe == Spec => []StatusOfCurrent
<1>1. ThreadInv => StatusOfCurrent
  BY DEF ThreadInv
<1> QED  BY <1>1, ThreadInitInv, ThreadNextInv, PTL DEF Spec

----------------------------------------------------------------------------
(* The pending interrupts.                                                 *)

(* Time passes for all pending interrupts alike.                           *)
LEMMA ElapseFacts ==
    ASSUME NEW p \in Seq(Interrupts), Sorted(p), NEW n \in Int
    PROVE  /\ Elapse(p, n) \in Seq(Interrupts)
           /\ Sorted(Elapse(p, n))
           /\ DOMAIN Elapse(p, n) = DOMAIN p
           /\ \A i \in DOMAIN p : Elapse(p, n)[i].left = p[i].left - n
<1> DEFINE q == Elapse(p, n)
<1>1. Len(p) \in Nat /\ DOMAIN p = 1..Len(p) /\ \A i \in DOMAIN p : p[i] \in Interrupts
  OBVIOUS
<1>2. \A i \in DOMAIN p : /\ [p[i] EXCEPT !.left = p[i].left - n] \in Interrupts
                          /\ [p[i] EXCEPT !.left = p[i].left - n].left = p[i].left - n
                          /\ p[i].left \in Int
  BY <1>1 DEF Interrupts
<1>3. q = [i \in 1..Len(p) |-> [p[i] EXCEPT !.left = p[i].left - n]]
  BY <1>1 DEF Elapse
<1> HIDE DEF q
<1>4. q \in Seq(Interrupts) /\ DOMAIN q = DOMAIN p
  BY <1>1, <1>2, <1>3
<1>5. ASSUME NEW i \in DOMAIN p PROVE q[i].left = p[i].left - n
  <2>1. q[i] = [p[i] EXCEPT !.left = p[i].left - n]
    BY <1>1, <1>3
  <2> QED  BY <1>2, <2>1
<1>6. Sorted(q)
  <2> SUFFICES ASSUME NEW i \in DOMAIN p, NEW j \in DOMAIN p, i < j
               PROVE  q[i].left <= q[j].left
    BY <1>4 DEF Sorted
  <2>1. p[i].left <= p[j].left /\ p[i].left \in Int /\ p[j].left \in Int
    <3>1. p[i].left <= p[j].left
      BY Zenon DEF Sorted
    <3> QED  BY <1>2, <3>1
  <2>2. q[i].left = p[i].left - n /\ q[j].left = p[j].left - n
    BY <1>5
  <2> QED  BY <2>1, <2>2
<1> QED  BY <1>4, <1>5, <1>6 DEF q

(* SortedList::RemoveFront.                                                *)
LEMMA RestFacts ==
    ASSUME NEW p \in Seq(Interrupts), Sorted(p), p # <<>>
    PROVE  /\ Head(p) \in Interrupts
           /\ Tail(p) \in Seq(Interrupts)
           /\ Sorted(Tail(p))
           /\ \A i \in DOMAIN Tail(p) : \E j \in DOMAIN p : Tail(p)[i] = p[j]
<1> DEFINE q == Tail(p)
<1>1. /\ Len(p) \in Nat /\ DOMAIN p = 1..Len(p) /\ Len(p) > 0
      /\ Head(p) \in Interrupts
      /\ q \in Seq(Interrupts) /\ Len(q) = Len(p) - 1 /\ DOMAIN q = 1..Len(q)
      /\ \A i \in 1..Len(q) : q[i] = p[i + 1]
  OBVIOUS
<1> HIDE DEF q
<1>2. \A i \in DOMAIN q : i + 1 \in DOMAIN p /\ q[i] = p[i + 1]
  BY <1>1
<1>3. Sorted(q)
  BY <1>1, <1>2 DEF Sorted
<1> QED  BY <1>1, <1>2, <1>3 DEF q

(* When the first interrupt of a sorted list is not due, none is.          *)
LEMMA NoneDue ==
    ASSUME NEW p \in Seq(Interrupts), Sorted(p), ~Due(p)
    PROVE  \A i \in DOMAIN p : p[i].left > 0
<1>1. /\ Len(p) \in Nat /\ DOMAIN p = 1..Len(p)
      /\ \A i \in DOMAIN p : p[i] \in Interrupts
  OBVIOUS
<1>2. \A i \in DOMAIN p : p[i].left \in Int
  BY <1>1 DEF Interrupts
<1> SUFFICES ASSUME NEW i \in DOMAIN p PROVE p[i].left > 0
  OBVIOUS
<1>3. 1 \in DOMAIN p /\ p # <<>> /\ Head(p) = p[1]
  BY <1>1
<1>4. p[1].left > 0
  BY <1>2, <1>3 DEF Due
<1>5. p[1].left <= p[i].left
  BY <1>1, <1>2, <1>3 DEF Sorted
<1> QED  BY <1>2, <1>3, <1>4, <1>5

(* Initially the timer and the polling devices are scheduled.              *)
LEMMA PendingInitInv == Init => PendingInv
<1> SUFFICES ASSUME Init PROVE PendingInv
  OBVIOUS
<1>1. PICK s \in SetToSeqs(Pollers) :
         pending = Schedule([i \in 1..Len(s) |-> [who |-> s[i], left |-> PollTicks]],
                            Timer, TimerTicks)
  BY Zenon DEF Init
<1> DEFINE p == [i \in 1..Len(s) |-> [who |-> s[i], left |-> PollTicks]]
<1>2. PollTicks \in Nat \ {0} /\ TimerTicks \in Nat \ {0} /\ PollTicks \in Int
  BY InterruptAssumption
<1>3. s \in Seq(Pollers)
  <2>1. Cardinality(Pollers) \in Nat
    BY InterruptAssumption, FS_CardinalityType
  <2>2. s \in [1..Cardinality(Pollers) -> Pollers]
    BY DEF SetToSeqs
  <2> QED  BY <2>1, <2>2
<1>4. Len(s) \in Nat /\ \A i \in 1..Len(s) : s[i] \in Devices
  BY <1>3 DEF Devices
<1>5. /\ p \in Seq(Interrupts) /\ DOMAIN p = 1..Len(s)
      /\ \A i \in DOMAIN p : p[i].left = PollTicks
  BY <1>2, <1>4 DEF Interrupts
<1> HIDE DEF p
<1>6. Sorted(p)
  BY <1>2, <1>5 DEF Sorted
<1>7. Timer \in Devices
  BY DEF Devices
<1>8. pending = Schedule(p, Timer, TimerTicks)
  BY <1>1 DEF p
<1>9. pending \in Seq(Interrupts) /\ Sorted(pending)
  BY <1>2, <1>5, <1>6, <1>7, <1>8, ScheduleFacts
<1>10. \A i \in DOMAIN pending : pending[i].left > 0
  <2>1. 0 \in Int /\ 0 < TimerTicks /\ \A i \in DOMAIN p : p[i].left > 0
    BY <1>2, <1>5
  <2>2. (0 < TimerTicks /\ \A i \in DOMAIN p : p[i].left > 0) =>
            \A i \in DOMAIN Schedule(p, Timer, TimerTicks) :
                Schedule(p, Timer, TimerTicks)[i].left > 0
    BY <1>2, <1>5, <1>6, <1>7, <2>1, ScheduleFacts, Zenon
  <2> QED  BY <1>8, <2>1, <2>2
<1>11. ~inHandler
  BY DEF Init
<1> QED  BY <1>9, <1>10, <1>11 DEF PendingInv, HandlersOnTime

(* OneTick or Idle with a clock that advances by n.                        *)
LEMMA AdvanceInv ==
    ASSUME PendingInv, ~inHandler, NEW n \in Int,
           pending' = Elapse(pending, n), inHandler' = Due(pending'),
           \A i \in DOMAIN pending : pending[i].left - n > -SystemTick
    PROVE  PendingInv'
<1>1. pending \in Seq(Interrupts) /\ Sorted(pending)
  BY DEF PendingInv
<1>2. /\ pending' \in Seq(Interrupts) /\ Sorted(pending')
      /\ \A i \in DOMAIN pending' : pending'[i].left > -SystemTick
  <2> DEFINE q == Elapse(pending, n)
  <2>1. /\ q \in Seq(Interrupts) /\ Sorted(q) /\ DOMAIN q = DOMAIN pending
        /\ \A i \in DOMAIN pending : q[i].left = pending[i].left - n
    BY <1>1, ElapseFacts
  <2> HIDE DEF q
  <2>2. pending' = q
    BY DEF q
  <2> QED  BY <2>1, <2>2
<1>3. CASE Due(pending')
  BY <1>2, <1>3 DEF PendingInv, HandlersOnTime
<1>4. CASE ~Due(pending')
  <2>1. \A i \in DOMAIN pending' : pending'[i].left > 0
    BY <1>2, <1>4, NoneDue
  <2> QED  BY <1>2, <1>4, <2>1 DEF PendingInv, HandlersOnTime
<1> QED  BY <1>3, <1>4

(* Every step keeps the pending interrupts in order and on time.           *)
LEMMA PendingNextInv == ThreadInv /\ PendingInv /\ [Next]_vars => PendingInv'
<1> SUFFICES ASSUME ThreadInv, PendingInv, [Next]_vars PROVE PendingInv'
  OBVIOUS
<1>1. /\ pending \in Seq(Interrupts) /\ Sorted(pending) /\ HandlersOnTime
      /\ HandlersInTick /\ StatusOfCurrent
  BY DEF PendingInv, ThreadInv
<1>2. /\ UserTick \in Nat \ {0} /\ SystemTick \in Nat \ {0}
      /\ UserTick <= SystemTick
      /\ PollTicks \in Nat \ {0} /\ TimerTicks \in Nat \ {0}
      /\ Delays \subseteq Nat \ {0}
  BY InterruptAssumption
<1>3. \A i \in DOMAIN pending : pending[i].left \in Int
  <2>1. \A i \in DOMAIN pending : pending[i] \in Interrupts
    BY <1>1
  <2> QED  BY <2>1 DEF Interrupts
<1>4. ASSUME NEW s, OneTick(s), ~inHandler PROVE PendingInv'
  <2> DEFINE n == IF s = "SystemMode" THEN SystemTick ELSE UserTick
  <2>1. n \in Nat \ {0} /\ n <= SystemTick
    BY <1>2
  <2>2. pending' = Elapse(pending, n) /\ inHandler' = Due(pending')
    BY <1>4 DEF OneTick
  <2>3. \A i \in DOMAIN pending : pending[i].left > 0
    BY <1>1, <1>4 DEF HandlersOnTime
  <2> HIDE DEF n
  <2>4. \A i \in DOMAIN pending : pending[i].left - n > -SystemTick
    BY <1>2, <1>3, <2>1, <2>3
  <2> QED  BY <1>4, <2>1, <2>2, <2>4, AdvanceInv
<1>5. ASSUME Enable \/ UserInstruction \/ TrapReturns PROVE PendingInv'
  <2>1. ~inHandler
    BY <1>1, <1>5 DEF Enable, UserInstruction, TrapReturns, InKernel, HandlersInTick
  <2> QED  BY <1>4, <1>5, <2>1 DEF Enable, UserInstruction, TrapReturns
<1>6. ASSUME Idle PROVE PendingInv'
  <2> DEFINE n == Head(pending).left
  <2>1. ~inHandler
    BY <1>1, <1>6 DEF Idle, Idling, HandlersInTick
  <2>2. /\ pending # <<>> /\ 1 \in DOMAIN pending /\ Head(pending) = pending[1]
        /\ DOMAIN pending = 1..Len(pending) /\ Len(pending) \in Nat
    BY <1>1, <1>6 DEF Idle
  <2>3. n = pending[1].left /\ n \in Int /\ pending' = Elapse(pending, n)
    BY <1>3, <1>6, <2>2 DEF Idle
  <2> HIDE DEF n
  <2>4. \A i \in DOMAIN pending : n <= pending[i].left
    BY <1>1, <1>3, <2>2, <2>3 DEF Sorted
  <2>5. /\ pending' \in Seq(Interrupts) /\ Sorted(pending')
        /\ DOMAIN pending' = DOMAIN pending
        /\ \A i \in DOMAIN pending : pending'[i].left = pending[i].left - n
    <3> DEFINE q == Elapse(pending, n)
    <3>1. /\ q \in Seq(Interrupts) /\ Sorted(q) /\ DOMAIN q = DOMAIN pending
          /\ \A i \in DOMAIN pending : q[i].left = pending[i].left - n
      BY <1>1, <2>3, ElapseFacts, Zenon
    <3> HIDE DEF q
    <3>2. pending' = q
      BY <2>3 DEF q
    <3> QED  BY <3>1, <3>2
  <2>6. Due(pending')
    <3>1. pending' # <<>> /\ Head(pending') = pending'[1]
      BY <2>2, <2>5
    <3>2. pending'[1].left = 0
      BY <2>2, <2>3, <2>5
    <3> QED  BY <3>1, <3>2 DEF Due
  <2>7. \A i \in DOMAIN pending' : pending'[i].left > -SystemTick
    BY <1>2, <1>3, <2>3, <2>4, <2>5
  <2>8. inHandler'
    BY <1>6 DEF Idle
  <2> QED  BY <2>5, <2>6, <2>7, <2>8 DEF PendingInv, HandlersOnTime
<1>7. ASSUME NEW d \in Shots, Request(d) PROVE PendingInv'
  <2>1. PICK delay \in Delays : pending' = Schedule(pending, d, delay)
    BY <1>7 DEF Request
  <2>2. delay \in Nat \ {0} /\ d \in Devices
    BY <1>2 DEF Devices
  <2>3. /\ pending' \in Seq(Interrupts) /\ Sorted(pending')
        /\ \A low \in Int :
              (low < delay /\ \A i \in DOMAIN pending : pending[i].left > low) =>
                  \A i \in DOMAIN pending' : pending'[i].left > low
    <3> DEFINE q == Schedule(pending, d, delay)
    <3>1. /\ q \in Seq(Interrupts) /\ Sorted(q)
          /\ \A low \in Int :
                (low < delay /\ \A i \in DOMAIN pending : pending[i].left > low) =>
                    \A i \in DOMAIN q : q[i].left > low
      BY <1>1, <2>2, ScheduleFacts, Zenon
    <3> HIDE DEF q
    <3>2. pending' = q
      BY <2>1 DEF q
    <3> QED  BY <3>1, <3>2
  <2>4. ~inHandler
    BY <1>1, <1>7 DEF Request, InKernel, HandlersInTick
  <2>5. ~inHandler'
    BY <1>7, <2>4 DEF Request
  <2>6. 0 \in Int /\ 0 < delay /\ \A i \in DOMAIN pending : pending[i].left > 0
    BY <1>1, <2>2, <2>4 DEF HandlersOnTime
  <2>7. \A i \in DOMAIN pending' : pending'[i].left > 0
    BY <2>3, <2>6
  <2> QED  BY <2>3, <2>5, <2>7 DEF PendingInv, HandlersOnTime
<1>8. ASSUME Fire PROVE PendingInv'
  <2> DEFINE d == Head(pending).who
             rest == Tail(pending)
  <2>1. inHandler /\ inHandler' = Due(pending')
    BY <1>8 DEF Fire
  <2>2. /\ pending # <<>>
        /\ \A i \in DOMAIN pending : pending[i].left > -SystemTick
    BY <1>1, <2>1 DEF HandlersOnTime, Due
  <2>3. /\ Head(pending) \in Interrupts
        /\ rest \in Seq(Interrupts) /\ Sorted(rest)
        /\ \A i \in DOMAIN rest : \E j \in DOMAIN pending : rest[i] = pending[j]
    BY <1>1, <2>2, RestFacts
  <2>4. \A i \in DOMAIN rest : rest[i].left > -SystemTick
    BY <2>2, <2>3
  <2>5. \/ pending' = rest
        \/ \E e \in Devices, delay \in {TimerTicks, PollTicks} :
              pending' = Schedule(rest, e, delay)
    BY <1>8 DEF Fire, TimerCallBack, DeviceCallBack, Devices
  <2> HIDE DEF rest
  <2>6. -SystemTick \in Int /\ -SystemTick < 0
    BY <1>2
  <2>7. /\ pending' \in Seq(Interrupts) /\ Sorted(pending')
        /\ \A i \in DOMAIN pending' : pending'[i].left > -SystemTick
    <3>1. CASE pending' = rest
      BY <2>3, <2>4, <3>1
    <3>2. ASSUME NEW e \in Devices, NEW delay \in {TimerTicks, PollTicks},
                 pending' = Schedule(rest, e, delay)
          PROVE  /\ pending' \in Seq(Interrupts) /\ Sorted(pending')
                 /\ \A i \in DOMAIN pending' : pending'[i].left > -SystemTick
      <4>1. delay \in Nat \ {0} /\ -SystemTick < delay
        BY <1>2
      <4> QED  BY <2>3, <2>4, <2>6, <3>2, <4>1, ScheduleFacts
    <3> QED  BY <2>5, <3>1, <3>2
  <2>8. CASE Due(pending')
    BY <2>1, <2>7, <2>8 DEF PendingInv, HandlersOnTime
  <2>9. CASE ~Due(pending')
    <3>1. \A i \in DOMAIN pending' : pending'[i].left > 0
      BY <2>7, <2>9, NoneDue
    <3> QED  BY <2>1, <2>7, <2>9, <3>1 DEF PendingInv, HandlersOnTime
  <2> QED  BY <2>8, <2>9
<1>9. ASSUME UNCHANGED <<pending, inHandler>> PROVE PendingInv'
  BY <1>1, <1>9 DEF PendingInv, HandlersOnTime
<1>10. ASSUME \/ Disable \/ RunUser \/ Trap \/ TickReturns \/ TickYields \/ Yield
              \/ Sleep \/ Dispatch \/ SleepReturns \/ IdleReturns
              \/ (\E t \in Threads : Fork(t)) \/ UNCHANGED vars
       PROVE  UNCHANGED <<pending, inHandler>>
  BY <1>10 DEF Disable, RunUser, Trap, TickReturns, TickYields, Yield, Sleep,
     Dispatch, SleepReturns, IdleReturns, Fork, vars, intVars
<1> QED  BY <1>5, <1>6, <1>7, <1>8, <1>9, <1>10 DEF Next, Proceed

(* Handlers are called in time and in order, for any devices and ticks.    *)
THEOREM HandlersSafe == Spec => []HandlersOnTime
<1>1. PendingInv => HandlersOnTime
  BY DEF PendingInv
<1> QED
  BY <1>1, ThreadInitInv, ThreadNextInv, PendingInitInv, PendingNextInv, PTL
     DEF Spec

=============================================================================
