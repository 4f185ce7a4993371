---------------------------- MODULE KernelProofs ----------------------------
(***************************************************************************)
(* Proofs about Kernel and about Lock.  Kernel: from main to ~Kernel, no   *)
(* step and no handler uses an object that is not made yet or is deleted.  *)
(* Lock: the lock excludes, lockHolder is right, no sleeper is left behind *)
(* by a free lock, and the lock implements Mutex.                          *)
(***************************************************************************)
EXTENDS Kernel, Lock, ListFacts

(* The objects of the kernel: no step ahead uses one that no earlier step  *)
(* makes, no handler that is armed uses one that is not made.              *)
FirstObjects ==
    {"currentThread", "stats", "interrupt", "scheduler", "alarm", "machine",
     "synchConsoleIn", "synchConsoleOut", "synchDisk"}
AllObjects == FirstObjects \cup {"fileSystem", "postOfficeIn", "postOfficeOut"}
Handlers == {"timer", "console", "disk", "network"}
CommandNames == {"-K", "-C", "-N", "-r", "-cp", "-D", "-l", "-p", "-x"}

Steps == [op : {"new", "wait", "command", "halt", "delete"},
          of : AllObjects \cup CommandNames \cup {""},
          uses : SUBSET AllObjects, arms : SUBSET Handlers]

MadeBy(steps, n) == {steps[j].of : j \in {j \in 1..n : steps[j].op = "new"}}

Covered(steps, objects) ==
    \A i \in 1..Len(steps) :
       /\ steps[i].op # "delete"
       /\ steps[i].uses \subseteq objects \cup MadeBy(steps, i - 1)
       /\ \A h \in steps[i].arms : HandlerUses(h) \subseteq objects \cup MadeBy(steps, i)

OnlyDeletions(steps) ==
    \A i \in 1..Len(steps) : steps[i].op = "delete" /\ steps[i].uses = {} /\ steps[i].arms = {}

ObjectsInv ==
    /\ UsesExisting
    /\ todo \in Seq(Steps)
    /\ state \in {"scan", "new Kernel"} => deleted = <<>>
    /\ \A h \in armed : HandlerUses(h) \subseteq made
    /\ \/ deleted = <<>> /\ Covered(todo, made)
       \/ OnlyDeletions(todo) /\ (deleted = <<>> \/ used = {})

(* The first of the steps ahead, and those after it.                       *)
LEMMA TailCovered ==
    ASSUME NEW s \in Seq(Steps), s # <<>>, NEW m, Covered(s, m),
           NEW n, n = m \cup (IF Head(s).op = "new" THEN {Head(s).of} ELSE {})
    PROVE  /\ Head(s).op # "delete" /\ Head(s).uses \subseteq m
           /\ \A h \in Head(s).arms : HandlerUses(h) \subseteq n
           /\ Covered(Tail(s), n)
<1>1. /\ Tail(s) \in Seq(Steps) /\ Len(Tail(s)) = Len(s) - 1 /\ Len(s) \in Nat \ {0}
      /\ Head(s) = s[1] /\ \A i \in 1..Len(Tail(s)) : Tail(s)[i] = s[i + 1]
  OBVIOUS
<1>2. MadeBy(s, 0) = {} /\ m \cup MadeBy(s, 1) = n
  BY <1>1 DEF MadeBy
<1>3. 1 \in 1..Len(s) /\ 1 - 1 = 0
  BY <1>1
<1>4. /\ Head(s).op # "delete" /\ Head(s).uses \subseteq m
      /\ \A h \in Head(s).arms : HandlerUses(h) \subseteq n
  BY <1>1, <1>2, <1>3 DEF Covered
<1>5. ASSUME NEW k \in 0..Len(Tail(s))
      PROVE  m \cup MadeBy(s, k + 1) \subseteq n \cup MadeBy(Tail(s), k)
  <2> SUFFICES ASSUME NEW j \in 1..(k + 1), s[j].op = "new", s[j].of \notin n
               PROVE  s[j].of \in MadeBy(Tail(s), k)
    BY DEF MadeBy
  <2>1. j # 1
    BY <1>1
  <2>2. j - 1 \in 1..k /\ j - 1 \in 1..Len(Tail(s)) /\ (j - 1) + 1 = j
    BY <1>1, <2>1
  <2>3. Tail(s)[j - 1] = s[j]
    BY <1>1, <2>2
  <2> QED  BY <2>2, <2>3, Zenon DEF MadeBy
<1>6. ASSUME NEW i \in 1..Len(Tail(s))
      PROVE  /\ Tail(s)[i].op # "delete"
             /\ Tail(s)[i].uses \subseteq n \cup MadeBy(Tail(s), i - 1)
             /\ \A h \in Tail(s)[i].arms :
                   HandlerUses(h) \subseteq n \cup MadeBy(Tail(s), i)
  <2>1. /\ i + 1 \in 1..Len(s) /\ (i + 1) - 1 = (i - 1) + 1
        /\ i - 1 \in 0..Len(Tail(s)) /\ i \in 0..Len(Tail(s))
    BY <1>1
  <2>2. /\ s[i + 1].op # "delete"
        /\ s[i + 1].uses \subseteq m \cup MadeBy(s, (i - 1) + 1)
        /\ \A h \in s[i + 1].arms : HandlerUses(h) \subseteq m \cup MadeBy(s, i + 1)
    BY <2>1 DEF Covered
  <2>3. Tail(s)[i] = s[i + 1]
    BY <1>1
  <2>4. /\ m \cup MadeBy(s, (i - 1) + 1) \subseteq n \cup MadeBy(Tail(s), i - 1)
        /\ m \cup MadeBy(s, i + 1) \subseteq n \cup MadeBy(Tail(s), i)
    BY <1>5, <2>1
  <2> QED  BY <2>2, <2>3, <2>4
<1> QED  BY <1>4, <1>6 DEF Covered

(* Steps that are covered by some objects and leave others made.           *)
Provides(s, m, n) ==
    s \in Seq(Steps) /\ Covered(s, m) /\ n \subseteq m \cup MadeBy(s, Len(s))

LEMMA ProvidesThen ==
    ASSUME NEW s, NEW r, NEW m, NEW n, NEW o, Provides(s, m, n), Provides(r, n, o)
    PROVE  Provides(s \o r, m, o)
<1>1. s \in Seq(Steps) /\ r \in Seq(Steps) /\ Covered(s, m) /\ Covered(r, n)
      /\ n \subseteq m \cup MadeBy(s, Len(s)) /\ o \subseteq n \cup MadeBy(r, Len(r))
  BY DEF Provides
<1>2. PICK k \in Nat, l \in Nat : k = Len(s) /\ l = Len(r)
  BY <1>1
<1>3. PICK u \in Seq(Steps) : /\ u = s \o r /\ Len(u) = k + l
                              /\ \A i \in 1..k : u[i] = s[i]
                              /\ \A i \in 1..l : u[k + i] = r[i]
  <2>1. /\ s \o r \in Seq(Steps) /\ Len(s \o r) = Len(s) + Len(r)
        /\ \A i \in 1..Len(s) : (s \o r)[i] = s[i]
        /\ \A i \in 1..Len(r) : (s \o r)[Len(s) + i] = r[i]
    BY <1>1
  <2> QED  BY <1>2, <2>1, Zenon
<1>4. ASSUME NEW i \in 0..k PROVE MadeBy(u, i) = MadeBy(s, i)
  <2>1. \A j \in 1..i : u[j] = s[j]
    BY <1>3
  <2> QED  BY <2>1 DEF MadeBy
<1>5. ASSUME NEW i \in 0..l PROVE n \cup MadeBy(r, i) \subseteq m \cup MadeBy(u, k + i)
  <2>1. n \subseteq m \cup MadeBy(s, k)
    BY <1>1, <1>2
  <2>2. ASSUME NEW x \in MadeBy(s, k) PROVE x \in MadeBy(u, k + i)
    <3>1. PICK j \in 1..k : s[j].op = "new" /\ x = s[j].of
      BY <2>2 DEF MadeBy
    <3>2. u[j] = s[j] /\ j \in 1..(k + i)
      BY <1>3
    <3> QED  BY <3>1, <3>2 DEF MadeBy
  <2>3. ASSUME NEW x \in MadeBy(r, i) PROVE x \in MadeBy(u, k + i)
    <3>1. PICK j \in 1..i : r[j].op = "new" /\ x = r[j].of
      BY <2>3 DEF MadeBy
    <3>2. u[k + j] = r[j] /\ k + j \in 1..(k + i)
      BY <1>3
    <3> QED  BY <3>1, <3>2 DEF MadeBy
  <2> QED  BY <2>1, <2>2, <2>3
<1>6. ASSUME NEW i \in 1..Len(u)
      PROVE  /\ u[i].op # "delete"
             /\ u[i].uses \subseteq m \cup MadeBy(u, i - 1)
             /\ \A h \in u[i].arms : HandlerUses(h) \subseteq m \cup MadeBy(u, i)
  <2>1. CASE i <= k
    <3>1. i \in 1..k /\ i \in 0..k /\ i - 1 \in 0..k
      BY <2>1
    <3>2. u[i] = s[i] /\ MadeBy(u, i) = MadeBy(s, i) /\ MadeBy(u, i - 1) = MadeBy(s, i - 1)
      BY <1>3, <1>4, <3>1
    <3> QED  BY <1>1, <1>2, <3>1, <3>2 DEF Covered
  <2>2. CASE i > k
    <3>1. PICK j \in 1..l : i = k + j
      <4>1. i - k \in 1..l /\ i = k + (i - k)
        BY <1>3, <2>2
      <4> QED  BY <4>1
    <3>2. j \in 0..l /\ j - 1 \in 0..l /\ i - 1 = k + (j - 1)
      BY <3>1
    <3>3. u[i] = r[j]
      BY <1>3, <3>1
    <3>4. /\ n \cup MadeBy(r, j) \subseteq m \cup MadeBy(u, i)
          /\ n \cup MadeBy(r, j - 1) \subseteq m \cup MadeBy(u, i - 1)
      BY <1>5, <3>1, <3>2, Zenon
    <3>5. /\ r[j].op # "delete" /\ r[j].uses \subseteq n \cup MadeBy(r, j - 1)
          /\ \A h \in r[j].arms : HandlerUses(h) \subseteq n \cup MadeBy(r, j)
      BY <1>1, <1>2 DEF Covered
    <3> QED  BY <3>3, <3>4, <3>5
  <2> QED  BY <1>2, <1>3, <2>1, <2>2
<1>7. o \subseteq m \cup MadeBy(u, Len(u))
  <2>1. l \in 0..l /\ Len(u) = k + l
    BY <1>3
  <2>2. n \cup MadeBy(r, l) \subseteq m \cup MadeBy(u, k + l)
    BY <1>5, <2>1
  <2> QED  BY <1>1, <1>2, <2>1, <2>2
<1> QED  BY <1>3, <1>6, <1>7 DEF Provides, Covered

Makes(x, object, uses, arms) ==
    x \in Steps /\ x.op = "new" /\ x.of = object /\ x.uses = uses /\ x.arms = arms

LEMMA NewStep ==
    ASSUME NEW object \in AllObjects, NEW uses \in SUBSET AllObjects,
           NEW arms \in SUBSET Handlers
    PROVE  Makes(New(object, uses, arms), object, uses, arms)
<1>1. New(object, uses, arms) \in Steps
  BY Zenon DEF New, Steps
<1>2. /\ New(object, uses, arms).op = "new" /\ New(object, uses, arms).of = object
      /\ New(object, uses, arms).uses = uses /\ New(object, uses, arms).arms = arms
  BY DEF New
<1> QED  BY <1>1, <1>2 DEF Makes

LEMMA WaitStep ==
    ASSUME NEW uses \in SUBSET AllObjects, NEW arms \in SUBSET Handlers
    PROVE  /\ Wait(uses, arms) \in Steps /\ Wait(uses, arms).op = "wait"
           /\ Wait(uses, arms).uses = uses /\ Wait(uses, arms).arms = arms
<1>1. Wait(uses, arms) \in Steps
  BY DEF Wait, Steps
<1>2. /\ Wait(uses, arms).op = "wait"
      /\ Wait(uses, arms).uses = uses /\ Wait(uses, arms).arms = arms
  BY DEF Wait
<1> QED  BY <1>1, <1>2

LEMMA FirstProvided ==
    Provides(<<NewMainThread, NewStatistics, NewInterrupt, NewScheduler, NewAlarm,
               NewMachine, NewSynchConsoleInput, NewSynchConsoleOutput, NewSynchDisk>>,
             {}, FirstObjects)
<1> DEFINE s == <<NewMainThread, NewStatistics, NewInterrupt, NewScheduler, NewAlarm,
                  NewMachine, NewSynchConsoleInput, NewSynchConsoleOutput, NewSynchDisk>>
<1>1. /\ {} \in SUBSET AllObjects /\ Schedules \in SUBSET AllObjects
      /\ {} \in SUBSET Handlers /\ {"timer"} \in SUBSET Handlers
      /\ {"console"} \in SUBSET Handlers
      /\ \A o \in FirstObjects : o \in AllObjects
  BY DEF Schedules, AllObjects, FirstObjects, Handlers
<1>2. Makes(NewMainThread, "currentThread", {}, {})
  BY <1>1, NewStep DEF FirstObjects, NewMainThread
<1>3. Makes(NewStatistics, "stats", {}, {})
  BY <1>1, NewStep DEF FirstObjects, NewStatistics
<1>4. Makes(NewInterrupt, "interrupt", {}, {})
  BY <1>1, NewStep DEF FirstObjects, NewInterrupt
<1>5. Makes(NewScheduler, "scheduler", {}, {})
  BY <1>1, NewStep DEF FirstObjects, NewScheduler
<1>6. Makes(NewAlarm, "alarm", Schedules, {"timer"})
  BY <1>1, NewStep DEF FirstObjects, NewAlarm, NewTimer
<1>7. Makes(NewMachine, "machine", {}, {})
  BY <1>1, NewStep DEF FirstObjects, NewMachine
<1>8. Makes(NewSynchConsoleInput, "synchConsoleIn", Schedules, {"console"})
  BY <1>1, NewStep DEF FirstObjects, NewSynchConsoleInput, NewConsoleInput
<1>9. Makes(NewSynchConsoleOutput, "synchConsoleOut", {}, {})
  BY <1>1, NewStep DEF FirstObjects, NewSynchConsoleOutput
<1>10. Makes(NewSynchDisk, "synchDisk", {}, {})
  BY <1>1, NewStep DEF FirstObjects, NewSynchDisk
<1>11. s \in Seq(Steps) /\ Len(s) = 9
  BY <1>2, <1>3, <1>4, <1>5, <1>6, <1>7, <1>8, <1>9, <1>10 DEF Makes
<1>12. /\ Makes(s[1], "currentThread", {}, {}) /\ Makes(s[2], "stats", {}, {})
       /\ Makes(s[3], "interrupt", {}, {}) /\ Makes(s[4], "scheduler", {}, {})
       /\ Makes(s[5], "alarm", Schedules, {"timer"}) /\ Makes(s[6], "machine", {}, {})
       /\ Makes(s[7], "synchConsoleIn", Schedules, {"console"})
       /\ Makes(s[8], "synchConsoleOut", {}, {}) /\ Makes(s[9], "synchDisk", {}, {})
  BY <1>2, <1>3, <1>4, <1>5, <1>6, <1>7, <1>8, <1>9, <1>10
<1> HIDE DEF s
<1>13. ASSUME NEW n \in Nat, NEW j \in 1..n, s[j].op = "new" PROVE s[j].of \in MadeBy(s, n)
  BY <1>13 DEF MadeBy
<1>14. /\ Schedules \subseteq MadeBy(s, 4) /\ Schedules \subseteq MadeBy(s, 6)
       /\ Schedules \cup {"alarm"} \subseteq MadeBy(s, 5)
       /\ Schedules \cup {"synchConsoleIn", "scheduler"} \subseteq MadeBy(s, 7)
  BY <1>12, <1>13 DEF Makes, Schedules
<1>15. FirstObjects \subseteq MadeBy(s, 9)
  BY <1>12, <1>13 DEF Makes, FirstObjects
<1>16. /\ HandlerUses("timer") = Schedules \cup {"alarm"}
       /\ HandlerUses("console") = Schedules \cup {"synchConsoleIn", "scheduler"}
  BY DEF HandlerUses
<1>17. ASSUME NEW i \in 1..9
       PROVE  /\ s[i].op # "delete" /\ s[i].uses \subseteq {} \cup MadeBy(s, i - 1)
              /\ \A h \in s[i].arms : HandlerUses(h) \subseteq {} \cup MadeBy(s, i)
  <2>1. CASE i \in {1, 2, 3, 4, 6, 8, 9}
    BY <1>12, <2>1 DEF Makes
  <2>2. CASE i = 5
    BY <1>12, <1>14, <1>16, <2>2 DEF Makes
  <2>3. CASE i = 7
    BY <1>12, <1>14, <1>16, <2>3 DEF Makes
  <2> QED  BY <2>1, <2>2, <2>3
<1> QED  BY <1>11, <1>15, <1>17 DEF Provides, Covered, s

LEMMA UsesKnown ==
    /\ Waits \in SUBSET FirstObjects /\ Schedules \in SUBSET FirstObjects
    /\ FirstObjects \in SUBSET AllObjects
    /\ HandlerUses("disk") \in SUBSET FirstObjects
    /\ HandlerUses("network") = Schedules \cup {"postOfficeIn", "scheduler"}
  BY DEF Waits, Schedules, FirstObjects, AllObjects, HandlerUses

(* The constructor of the file system.                                     *)
LEMMA FileSystemProvided ==
    Provides(NewFileSystem, FirstObjects, FirstObjects \cup {"fileSystem"})
<1>1. "fileSystem" \in AllObjects /\ {} \in SUBSET AllObjects /\ {} \in SUBSET Handlers
      /\ {"disk"} \in SUBSET Handlers
  BY DEF AllObjects, Handlers
<1>2. PICK uses \in SUBSET AllObjects : uses = {"synchDisk"} \cup Waits
                                        /\ uses \subseteq FirstObjects
  <2>1. "synchDisk" \in FirstObjects
    BY DEF FirstObjects
  <2> QED  BY <2>1, UsesKnown, Zenon
<1>3. CASE stub
  <2>1. PICK x : x = New("fileSystem", {}, {}) /\ Makes(x, "fileSystem", {}, {})
    BY <1>1, NewStep
  <2>2. NewFileSystem = <<x>>
    BY <1>3, <2>1 DEF NewFileSystem
  <2>3. <<x>> \in Seq(Steps) /\ Len(<<x>>) = 1 /\ <<x>>[1] = x
    BY <2>1 DEF Makes
  <2>4. "fileSystem" \in MadeBy(<<x>>, 1)
    BY <2>1, <2>3 DEF MadeBy, Makes
  <2>5. Covered(<<x>>, FirstObjects)
    BY <2>1, <2>3 DEF Covered, Makes
  <2> QED  BY <2>2, <2>3, <2>4, <2>5 DEF Provides
<1>4. CASE ~ stub
  <2>1. PICK w : /\ w = Wait(uses, {"disk"}) /\ w \in Steps /\ w.op = "wait"
                 /\ w.uses = uses /\ w.arms = {"disk"}
    BY <1>1, WaitStep
  <2>2. PICK x : x = New("fileSystem", uses, {}) /\ Makes(x, "fileSystem", uses, {})
    BY <1>1, NewStep
  <2>3. NewFileSystem = <<w, x>>
    BY <1>2, <1>4, <2>1, <2>2 DEF NewFileSystem
  <2>4. <<w, x>> \in Seq(Steps) /\ Len(<<w, x>>) = 2 /\ <<w, x>>[1] = w /\ <<w, x>>[2] = x
    BY <2>1, <2>2 DEF Makes
  <2>5. "fileSystem" \in MadeBy(<<w, x>>, 2)
    BY <2>2, <2>4 DEF MadeBy, Makes
  <2>6. Covered(<<w, x>>, FirstObjects)
    <3>1. PICK s : s = <<w, x>> /\ Len(s) = 2 /\ s[1] = w /\ s[2] = x
      BY <2>4, Zenon
    <3>2. ASSUME NEW i \in 1..2
          PROVE  /\ s[i].op # "delete" /\ s[i].uses \subseteq FirstObjects
                 /\ \A h \in s[i].arms : HandlerUses(h) \subseteq FirstObjects
      <4>1. CASE i = 1
        BY <1>2, <2>1, <3>1, <4>1, UsesKnown, Zenon
      <4>2. CASE i = 2
        BY <1>2, <2>2, <3>1, <4>2 DEF Makes
      <4> QED  BY <4>1, <4>2
    <3> QED  BY <3>1, <3>2 DEF Covered
  <2> QED  BY <2>3, <2>4, <2>5, <2>6 DEF Provides
<1> QED  BY <1>3, <1>4

(* The post office, and the interrupts enabled.                            *)
LEMMA PostOfficeProvided ==
    Provides(<<NewPostOfficeInput, NewPostOfficeOutput, Enable>>,
             FirstObjects \cup {"fileSystem"}, AllObjects)
<1>1. /\ "postOfficeIn" \in AllObjects /\ "postOfficeOut" \in AllObjects
      /\ {} \in SUBSET AllObjects /\ {} \in SUBSET Handlers /\ {"network"} \in SUBSET Handlers
      /\ "scheduler" \in FirstObjects
  BY DEF AllObjects, FirstObjects, Handlers
<1>2. PICK uses \in SUBSET AllObjects : uses = {"scheduler"} \cup Schedules
                                        /\ uses \subseteq FirstObjects
  BY <1>1, UsesKnown, Zenon
<1>3. PICK a : a = NewPostOfficeInput /\ Makes(a, "postOfficeIn", uses, {"network"})
  BY <1>1, <1>2, NewStep DEF NewPostOfficeInput
<1>4. PICK b : b = NewPostOfficeOutput /\ Makes(b, "postOfficeOut", {}, {})
  BY <1>1, NewStep DEF NewPostOfficeOutput
<1>5. PICK c : /\ c = Enable /\ c \in Steps /\ c.op = "wait"
               /\ c.uses = Waits /\ c.arms = {}
  BY <1>1, UsesKnown, WaitStep DEF Enable
<1>6. PICK s : s = <<a, b, c>>
  BY Zenon
<1>7. s \in Seq(Steps) /\ Len(s) = 3 /\ s[1] = a /\ s[2] = b /\ s[3] = c
  BY <1>3, <1>4, <1>5, <1>6 DEF Makes
<1>8. /\ "postOfficeIn" \in MadeBy(s, 1)
      /\ "postOfficeIn" \in MadeBy(s, 3) /\ "postOfficeOut" \in MadeBy(s, 3)
  BY <1>3, <1>4, <1>7 DEF MadeBy, Makes
<1>9. Covered(s, FirstObjects \cup {"fileSystem"})
  <2>1. HandlerUses("network") \subseteq FirstObjects \cup MadeBy(s, 1)
    BY <1>1, <1>8, UsesKnown
  <2>2. ASSUME NEW i \in 1..3
        PROVE  /\ s[i].op # "delete" /\ s[i].uses \subseteq FirstObjects
               /\ \A h \in s[i].arms : HandlerUses(h) \subseteq FirstObjects \cup MadeBy(s, i)
    <3>1. CASE i = 1
      BY <1>2, <1>3, <1>7, <2>1, <3>1 DEF Makes
    <3>2. CASE i = 2
      BY <1>4, <1>7, <3>2 DEF Makes
    <3>3. CASE i = 3
      BY <1>5, <1>7, <3>3, UsesKnown
    <3> QED  BY <3>1, <3>2, <3>3
  <2> QED  BY <1>7, <2>2 DEF Covered
<1> QED  BY <1>3, <1>4, <1>5, <1>6, <1>7, <1>8, <1>9 DEF Provides, AllObjects

(* The commands, and Halt.                                                 *)
LEMMA CommandsProvided ==
    Provides([i \in DOMAIN Commands |-> Command(Commands[i])], AllObjects, AllObjects)
<1>1. DOMAIN Commands = 1..9 /\ \A i \in 1..9 : Commands[i] \in CommandNames
  BY DEF Commands, CommandNames
<1>2. ASSUME NEW o \in CommandNames PROVE CommandUses(o) \in SUBSET AllObjects
  <2>1. {"currentThread", "scheduler", "interrupt", "stats"} \subseteq AllObjects
    BY DEF AllObjects, FirstObjects
  <2>2. {"synchConsoleIn", "synchConsoleOut", "postOfficeIn", "postOfficeOut",
         "fileSystem", "machine", "synchDisk"} \subseteq AllObjects
    BY DEF AllObjects, FirstObjects
  <2> QED  BY <2>1, <2>2 DEF CommandUses, Waits, Schedules
<1>3. ASSUME NEW o \in CommandNames
      PROVE  /\ Command(o) \in Steps /\ Command(o).op = "command"
             /\ Command(o).uses \subseteq AllObjects /\ Command(o).arms = {}
  <2>1. PICK uses \in SUBSET AllObjects : uses = CommandUses(o)
    BY <1>2
  <2>2. Command(o) = [op |-> "command", of |-> o, uses |-> uses, arms |-> {}]
    BY <2>1 DEF Command
  <2>3. [op |-> "command", of |-> o, uses |-> uses, arms |-> {}] \in Steps
    BY Zenon DEF Steps
  <2> QED  BY <2>2, <2>3
<1>4. PICK s : s = [i \in 1..9 |-> Command(Commands[i])]
  BY Zenon
<1>5. s \in Seq(Steps) /\ Len(s) = 9 /\ \A i \in 1..9 : s[i] = Command(Commands[i])
  BY <1>1, <1>3, <1>4
<1>6. Covered(s, AllObjects)
  BY <1>1, <1>3, <1>5 DEF Covered
<1> QED  BY <1>1, <1>4, <1>5, <1>6 DEF Provides

HaltStep == [op |-> "halt", of |-> "machine", uses |-> {"interrupt", "stats"}, arms |-> {}]

LEMMA HaltProvided == Provides(<<HaltStep>>, AllObjects, AllObjects)
<1>1. {"interrupt", "stats"} \in SUBSET AllObjects /\ "machine" \in AllObjects
  BY DEF AllObjects, FirstObjects
<1>2. HaltStep \in Steps
  BY <1>1 DEF HaltStep, Steps
<1>3. HaltStep.op = "halt" /\ HaltStep.uses \subseteq AllObjects /\ HaltStep.arms = {}
  BY <1>1 DEF HaltStep
<1>4. PICK x \in Steps : x = HaltStep
  BY <1>2
<1>5. <<x>> \in Seq(Steps) /\ Len(<<x>>) = 1 /\ <<x>>[1] = x
  OBVIOUS
<1>6. Covered(<<x>>, AllObjects)
  BY <1>3, <1>4, <1>5 DEF Covered
<1> QED  BY <1>4, <1>5, <1>6 DEF Provides

(* Kernel::~Kernel.                                                        *)
LEMMA DeletionsOnly == Deletions \in Seq(Steps) /\ OnlyDeletions(Deletions)
<1>1. PICK names : names = <<"stats", "interrupt", "scheduler", "alarm", "machine",
                             "synchConsoleIn", "synchConsoleOut", "synchDisk",
                             "fileSystem", "postOfficeIn", "postOfficeOut">>
  BY Zenon
<1>2. \A i \in 1..11 : names[i] \in AllObjects
  <2>1. \A i \in 1..11 : names[i] \in
            {"stats", "interrupt", "scheduler", "alarm", "machine", "synchConsoleIn",
             "synchConsoleOut", "synchDisk", "fileSystem", "postOfficeIn", "postOfficeOut"}
    BY <1>1
  <2> QED  BY <2>1 DEF AllObjects, FirstObjects
<1>3. PICK s : s = [i \in 1..11 |-> [op |-> "delete", of |-> names[i],
                                     uses |-> {}, arms |-> {}]]
  BY Zenon
<1>4. \A i \in 1..11 : [op |-> "delete", of |-> names[i], uses |-> {}, arms |-> {}] \in Steps
  BY <1>2, Zenon DEF Steps
<1>5. s \in Seq(Steps) /\ Len(s) = 11
  BY <1>3, <1>4
<1>6. \A i \in 1..11 : s[i].op = "delete" /\ s[i].uses = {} /\ s[i].arms = {}
  BY <1>3
<1>7. Deletions = s
  BY <1>1, <1>3 DEF Deletions
<1> QED  BY <1>5, <1>6, <1>7, Zenon DEF OnlyDeletions

LEMMA ObjectsInitInv == KernelInit => ObjectsInv
<1> SUFFICES ASSUME KernelInit PROVE ObjectsInv
  OBVIOUS
<1>1. todo = <<>> /\ deleted = <<>> /\ armed = {} /\ used = {}
  BY DEF KernelInit
<1>2. <<>> \in Seq(Steps) /\ Len(<<>>) = 0
  OBVIOUS
<1>3. OnlyDeletions(todo)
  BY <1>1, <1>2 DEF OnlyDeletions
<1>4. UsesExisting
  BY <1>1 DEF UsesExisting
<1> QED  BY <1>1, <1>2, <1>3, <1>4 DEF ObjectsInv

(* Nothing is deleted yet.                                                 *)
LEMMA NothingDeleted ==
    ASSUME NEW d, d = <<>>, NEW u, NEW m, u \subseteq m PROVE u \subseteq m \ ToSet(d)
<1>1. ToSet(<<>>) = {}
  BY DEF ToSet
<1> QED  BY <1>1

(* A step that leaves what is made: more objects cover the steps ahead as  *)
(* well.                                                                   *)
LEMMA MoreCovered ==
    ASSUME NEW s, NEW m, Covered(s, {}) PROVE Covered(s, m)
  BY DEF Covered

LEMMA NewKernelObjects ==
    ASSUME ObjectsInv, NewKernel PROVE ObjectsInv'
<1>1. PICK a, b, c, d, e :
          /\ a = <<NewMainThread, NewStatistics, NewInterrupt, NewScheduler, NewAlarm,
                   NewMachine, NewSynchConsoleInput, NewSynchConsoleOutput, NewSynchDisk>>
          /\ b = NewFileSystem
          /\ c = <<NewPostOfficeInput, NewPostOfficeOutput, Enable>>
          /\ d = [i \in DOMAIN Commands |-> Command(Commands[i])]
          /\ e = <<HaltStep>>
  BY Zenon
<1>2. todo' = (((a \o b) \o c) \o d) \o e
  BY <1>1, Zenon DEF NewKernel, Initialize, HaltStep
<1>3. /\ Provides(a, {}, FirstObjects) /\ Provides(b, FirstObjects, FirstObjects \cup {"fileSystem"})
      /\ Provides(c, FirstObjects \cup {"fileSystem"}, AllObjects)
      /\ Provides(d, AllObjects, AllObjects) /\ Provides(e, AllObjects, AllObjects)
  BY <1>1, FirstProvided, FileSystemProvided, PostOfficeProvided, CommandsProvided, HaltProvided
<1>4. Provides(a \o b, {}, FirstObjects \cup {"fileSystem"})
  BY <1>3, ProvidesThen
<1>5. Provides((a \o b) \o c, {}, AllObjects)
  BY <1>3, <1>4, ProvidesThen
<1>6. Provides(((a \o b) \o c) \o d, {}, AllObjects)
  BY <1>3, <1>5, ProvidesThen
<1>7. Provides((((a \o b) \o c) \o d) \o e, {}, AllObjects)
  BY <1>3, <1>6, ProvidesThen
<1>8. todo' \in Seq(Steps) /\ Covered(todo', {})
  BY <1>2, <1>7 DEF Provides
<1>9. Covered(todo', made')
  BY <1>8, MoreCovered
<1>10. UNCHANGED <<made, deleted, armed, used>> /\ deleted = <<>>
       /\ state' \notin {"scan", "new Kernel"}
  BY Zenon DEF NewKernel, ObjectsInv
<1> QED  BY <1>8, <1>9, <1>10, Zenon DEF ObjectsInv, UsesExisting

(* The step ahead, while objects are made and commands performed.          *)
LEMMA StepAhead ==
    ASSUME ObjectsInv, Ahead \in {"new", "wait", "command", "halt"}
    PROVE  /\ todo # <<>> /\ Ahead = Head(todo).op
           /\ deleted = <<>> /\ Covered(todo, made)
<1>1. todo # <<>> /\ Ahead = Head(todo).op
  BY DEF Ahead
<1>2. Head(todo) = todo[1] /\ 1 \in 1..Len(todo)
  <2>1. todo \in Seq(Steps)
    BY Zenon DEF ObjectsInv
  <2> QED  BY <1>1, <2>1
<1>3. ~ OnlyDeletions(todo)
  BY <1>1, <1>2 DEF OnlyDeletions
<1> QED  BY <1>1, <1>3, Zenon DEF ObjectsInv

(* It is taken.                                                            *)
LEMMA StepTaken ==
    ASSUME ObjectsInv, Ahead \in {"new", "wait", "command", "halt"}, Takes(Head(todo)),
           made' = made \cup (IF Ahead = "new" THEN {Head(todo).of} ELSE {}),
           UNCHANGED <<deleted, state>>
    PROVE  ObjectsInv'
<1>1. /\ todo # <<>> /\ Ahead = Head(todo).op /\ deleted = <<>> /\ Covered(todo, made)
      /\ todo \in Seq(Steps)
  BY StepAhead, Zenon DEF ObjectsInv
<1>2. PICK s, m, n :
          s \in Seq(Steps) /\ s = todo /\ m = made
          /\ n = made \cup (IF Head(todo).op = "new" THEN {Head(todo).of} ELSE {})
  BY <1>1, Zenon
<1>3. /\ Head(s).uses \subseteq m /\ \A h \in Head(s).arms : HandlerUses(h) \subseteq n
      /\ Covered(Tail(s), n)
  BY <1>1, <1>2, TailCovered, Zenon
<1>4. made' = n /\ m \subseteq n /\ todo' = Tail(s) /\ used' = Head(s).uses
      /\ armed' = armed \cup Head(s).arms /\ UNCHANGED <<deleted, state>>
  BY <1>1, <1>2 DEF Takes
<1>5. Tail(s) \in Seq(Steps)
  BY <1>1, <1>2
<1>6. UsesExisting'
  <2>1. used' \subseteq made' /\ deleted' = <<>>
    BY <1>1, <1>3, <1>4
  <2> QED  BY <2>1, NothingDeleted DEF UsesExisting
<1>7. \A h \in armed' : HandlerUses(h) \subseteq made'
  BY <1>2, <1>3, <1>4, Zenon DEF ObjectsInv
<1> QED  BY <1>1, <1>3, <1>4, <1>5, <1>6, <1>7, Zenon DEF ObjectsInv

LEMMA DoCommandObjects ==
    ASSUME ObjectsInv, DoCommand PROVE ObjectsInv'
<1>1. CASE Head(todo).of \in DOMAIN flags
  <2>1. /\ Ahead = "command" /\ Takes(Head(todo)) /\ UNCHANGED <<deleted, state>>
        /\ made' = made \cup {}
    BY <1>1 DEF DoCommand
  <2>2. made' = made \cup (IF Ahead = "new" THEN {Head(todo).of} ELSE {})
    BY <2>1
  <2> QED  BY <2>1, <2>2, StepTaken
<1>2. CASE Head(todo).of \notin DOMAIN flags
  <2>1. /\ Ahead = "command" /\ todo' = Tail(todo) /\ used' = {}
        /\ UNCHANGED <<armed, made, deleted, state>>
    BY <1>2 DEF DoCommand
  <2>2. /\ todo # <<>> /\ Head(todo).op = "command" /\ deleted = <<>>
        /\ Covered(todo, made) /\ todo \in Seq(Steps)
    BY <2>1, StepAhead, Zenon DEF ObjectsInv
  <2>3. PICK s, m, n :
            s \in Seq(Steps) /\ s = todo /\ m = made
            /\ n = made \cup (IF Head(todo).op = "new" THEN {Head(todo).of} ELSE {})
    BY <2>2
  <2>4. n = made
    BY <2>2, <2>3
  <2>5. Covered(Tail(s), n)
    BY <2>2, <2>3, TailCovered
  <2>6. Tail(s) \in Seq(Steps)
    BY <2>2, <2>3
  <2>7. UsesExisting'
    BY <2>1 DEF UsesExisting
  <2> QED  BY <2>1, <2>2, <2>3, <2>4, <2>5, <2>6, <2>7, Zenon DEF ObjectsInv
<1> QED  BY <1>1, <1>2

LEMMA HaltObjects ==
    ASSUME ObjectsInv, Halt PROVE ObjectsInv'
<1>1. /\ todo # <<>> /\ deleted = <<>> /\ Covered(todo, made) /\ todo \in Seq(Steps)
  BY StepAhead DEF ObjectsInv, Halt
<1>2. Head(todo) = todo[1] /\ 1 \in 1..Len(todo)
  BY <1>1
<1>3. MadeBy(todo, 1 - 1) = {}
  BY DEF MadeBy
<1>4. used' \subseteq made
  BY <1>1, <1>2, <1>3 DEF Covered, Halt
<1>5. UNCHANGED <<made, deleted, armed, state>> /\ todo' = Deletions
  BY DEF Halt
<1>6. UsesExisting'
  BY <1>1, <1>4, <1>5, NothingDeleted DEF UsesExisting
<1> QED  BY <1>1, <1>5, <1>6, DeletionsOnly DEF ObjectsInv

LEMMA DeleteObjects ==
    ASSUME ObjectsInv, Delete PROVE ObjectsInv'
<1>1. todo # <<>> /\ Head(todo).op = "delete" /\ todo \in Seq(Steps)
  BY Zenon DEF ObjectsInv, Delete, Ahead
<1>2. /\ Head(todo) = todo[1] /\ 1 \in 1..Len(todo)
      /\ Tail(todo) \in Seq(Steps) /\ Len(Tail(todo)) = Len(todo) - 1
      /\ \A i \in 1..Len(Tail(todo)) : Tail(todo)[i] = todo[i + 1] /\ i + 1 \in 1..Len(todo)
  BY <1>1
<1>3. OnlyDeletions(todo)
  BY <1>1, <1>2, Zenon DEF ObjectsInv, Covered
<1>4. Head(todo).uses = {} /\ Head(todo).arms = {} /\ OnlyDeletions(Tail(todo))
  BY <1>2, <1>3 DEF OnlyDeletions
<1>5. /\ todo' = Tail(todo) /\ used' = {} /\ armed' = armed
      /\ UNCHANGED <<made, state>>
  BY <1>4 DEF Delete, Takes
<1>6. UsesExisting'
  BY <1>5 DEF UsesExisting
<1>7. state' \notin {"scan", "new Kernel"}
  BY <1>5, Zenon DEF Delete
<1> QED  BY <1>2, <1>4, <1>5, <1>6, <1>7, Zenon DEF ObjectsInv

LEMMA RunHandlerObjects ==
    ASSUME ObjectsInv, NEW handler, RunHandler(handler) PROVE ObjectsInv'
<1>1. deleted = <<>> /\ Covered(todo, made)
  BY StepAhead DEF RunHandler
<1>2. used' \subseteq made /\ UNCHANGED <<todo, made, deleted, armed, state>>
  BY DEF RunHandler, ObjectsInv
<1>3. UsesExisting'
  BY <1>1, <1>2, NothingDeleted DEF UsesExisting
<1> QED  BY <1>1, <1>2, <1>3 DEF ObjectsInv

LEMMA CleanupObjects ==
    ASSUME ObjectsInv, Cleanup PROVE ObjectsInv'
<1>1. /\ todo' = Deletions /\ state' = "cleanup" /\ UNCHANGED <<made, deleted, armed, used>>
  BY DEF Cleanup
<1>2. deleted = <<>> \/ used = {}
  BY Zenon DEF ObjectsInv
<1>3. UsesExisting'
  BY <1>1, Zenon DEF ObjectsInv, UsesExisting
<1> QED  BY <1>1, <1>2, <1>3, DeletionsOnly, Zenon DEF ObjectsInv

LEMMA ObjectsNextInv == ObjectsInv /\ [KernelNext]_kernelVars => ObjectsInv'
<1>1. ASSUME ObjectsInv, ScanArguments PROVE ObjectsInv'
  BY <1>1, Zenon DEF ScanArguments, ObjectsInv, UsesExisting
<1>2. ASSUME ObjectsInv, Construct PROVE ObjectsInv'
  BY <1>2, StepTaken DEF Construct
<1>3. ASSUME ObjectsInv, Exit PROVE ObjectsInv'
  BY <1>3, Zenon DEF Exit, ObjectsInv, UsesExisting
<1>4. ASSUME ObjectsInv, UNCHANGED kernelVars PROVE ObjectsInv'
  BY <1>4, Zenon DEF kernelVars, ObjectsInv, UsesExisting
<1> QED
  BY <1>1, <1>2, <1>3, <1>4, NewKernelObjects, DoCommandObjects, HaltObjects,
     DeleteObjects, RunHandlerObjects, CleanupObjects DEF KernelNext

(* No constructor, command or handler uses an object that is not made yet  *)
(* or that is deleted, for every command line and wherever interrupts and  *)
(* ctl-C come.                                                             *)
THEOREM KernelUsesExisting == KernelSpec => []UsesExisting
<1>1. ObjectsInv => UsesExisting
  BY Zenon DEF ObjectsInv
<1> QED  BY <1>1, ObjectsInitInv, ObjectsNextInv, PTL DEF KernelSpec

----------------------------------------------------------------------------
(* The inductive invariant of the lock.  Beyond the properties themselves  *)
(* it says that the semaphore's queue holds each thread once, and only     *)
(* threads that are inside P.                                              *)
LockInv ==
    /\ TypeOK
    /\ MutualExclusion
    /\ HolderIsKnown
    /\ FreeLockHasTaker
    /\ IsInjective(queue)
    /\ \A t \in ToSet(queue) : at[t] = "acquire"

LEMMA LockInitInv == Init => LockInv
<1>1. ASSUME Init PROVE ToSet(queue) = {} /\ IsInjective(queue)
    BY <1>1 DEF Init, ToSet, IsInjective
<1> QED BY <1>1, LockAssumption DEF Init, LockInv, TypeOK, MutualExclusion,
        HolderIsKnown, FreeLockHasTaker, Owners, Places

(* Each of the four steps of a thread keeps the invariant.                 *)
LEMMA LockNextInv == LockInv /\ [Next]_vars => LockInv'
<1> SUFFICES ASSUME LockInv, [Next]_vars PROVE LockInv'
    OBVIOUS
<1> USE LockAssumption
<1>1. ASSUME NEW t \in Threads, AcquireWaits(t) PROVE LockInv'
  <2>1. /\ queue' \in Seq(Threads) /\ IsInjective(queue')
        /\ ToSet(queue') = ToSet(queue) \cup {t}
    BY <1>1, AppendFacts DEF AcquireWaits, LockInv, TypeOK
  <2>2. Owners' = Owners
    BY <1>1 DEF AcquireWaits, LockInv, TypeOK, Owners
  <2>3. TypeOK'
    BY <1>1, <2>1 DEF AcquireWaits, LockInv, TypeOK, Places
  <2>4. MutualExclusion'
    BY <1>1, <2>2 DEF AcquireWaits, LockInv, MutualExclusion
  <2>5. HolderIsKnown'
    BY <1>1 DEF AcquireWaits, LockInv, TypeOK, HolderIsKnown
  <2>6. FreeLockHasTaker'
    BY <1>1 DEF AcquireWaits, FreeLockHasTaker
  <2>7. \A u \in ToSet(queue') : at'[u] = "acquire"
    BY <1>1, <2>1 DEF AcquireWaits, LockInv, TypeOK
  <2> QED BY <2>1, <2>3, <2>4, <2>5, <2>6, <2>7 DEF LockInv
<1>2. ASSUME NEW t \in Threads, AcquireTakes(t) PROVE LockInv'
  <2>1. value = 1 /\ value' = 0 /\ Owners = {} /\ Owners' = {t}
    BY <1>2 DEF AcquireTakes, LockInv, TypeOK, MutualExclusion, Owners
  <2>2. TypeOK'
    BY <1>2, <2>1 DEF AcquireTakes, LockInv, TypeOK, Places
  <2>3. MutualExclusion'
    BY <2>1 DEF MutualExclusion
  <2>4. HolderIsKnown'
    BY <1>2 DEF AcquireTakes, LockInv, TypeOK, HolderIsKnown
  <2>5. FreeLockHasTaker'
    BY <2>1 DEF FreeLockHasTaker
  <2>6. \A u \in ToSet(queue') : at'[u] = "acquire"
    BY <1>2 DEF AcquireTakes, LockInv, TypeOK
  <2>7. IsInjective(queue')
    BY <1>2 DEF AcquireTakes, LockInv
  <2> QED BY <2>2, <2>3, <2>4, <2>5, <2>6, <2>7 DEF LockInv
<1>3. ASSUME NEW t \in Threads, AcquireReturns(t) PROVE LockInv'
  <2>1. Owners' = Owners /\ Owners = {t}
    BY <1>3 DEF AcquireReturns, LockInv, TypeOK, MutualExclusion, Owners
  <2>2. TypeOK'
    BY <1>3 DEF AcquireReturns, LockInv, TypeOK, Places
  <2>3. MutualExclusion'
    BY <1>3, <2>1 DEF AcquireReturns, LockInv, MutualExclusion
  <2>4. HolderIsKnown'
    BY <1>3, <2>1 DEF AcquireReturns, LockInv, TypeOK, HolderIsKnown, Owners
  <2>5. FreeLockHasTaker'
    BY <1>3, <2>1 DEF AcquireReturns, LockInv, MutualExclusion,
       FreeLockHasTaker
  <2>6. \A u \in ToSet(queue') : at'[u] = "acquire"
    BY <1>3 DEF AcquireReturns, LockInv, TypeOK
  <2>7. IsInjective(queue')
    BY <1>3 DEF AcquireReturns, LockInv
  <2> QED BY <2>2, <2>3, <2>4, <2>5, <2>6, <2>7 DEF LockInv
<1>4. ASSUME NEW t \in Threads, Release(t) PROVE LockInv'
  <2>1. /\ Owners = {t} /\ Owners' = {}
        /\ value = 0 /\ value' = 1
    BY <1>4 DEF Release, LockInv, TypeOK, MutualExclusion, Owners
  <2>2. /\ queue' \in Seq(Threads) /\ IsInjective(queue')
        /\ ToSet(queue') \subseteq ToSet(queue)
        /\ queue # <<>> => /\ Head(queue) \in ToSet(queue)
                           /\ Head(queue) \notin ToSet(queue')
    <3>1. CASE queue = <<>>
      BY <1>4, <3>1 DEF Release, LockInv, TypeOK
    <3>2. CASE queue # <<>>
      BY <1>4, <3>2, RemoveFrontFacts DEF Release, LockInv, TypeOK
    <3> QED BY <3>1, <3>2
  <2>3. TypeOK'
    BY <1>4, <2>1, <2>2 DEF Release, LockInv, TypeOK, Places
  <2>4. MutualExclusion'
    BY <2>1 DEF MutualExclusion
  <2>5. HolderIsKnown'
    BY <1>4, <2>1 DEF Release, LockInv, TypeOK, HolderIsKnown, Owners
  <2>6. ToSet(queue) \subseteq Threads
    BY DEF LockInv, TypeOK, ToSet
  <2>7. FreeLockHasTaker'
    <3> SUFFICES ASSUME queue' # <<>>
                 PROVE \E u \in Threads : /\ at'[u] = "acquire"
                                          /\ u \notin ToSet(queue')
      BY DEF FreeLockHasTaker
    <3>1. queue # <<>>
      BY <1>4 DEF Release
    <3>2. Head(queue) \in Threads /\ at'[Head(queue)] = "acquire"
      BY <1>4, <2>2, <2>6, <3>1 DEF Release, LockInv, TypeOK
    <3> QED BY <2>2, <3>1, <3>2
  <2>8. \A u \in ToSet(queue') : at'[u] = "acquire"
    BY <1>4, <2>2, <2>6 DEF Release, LockInv, TypeOK
  <2> QED BY <2>2, <2>3, <2>4, <2>5, <2>7, <2>8 DEF LockInv
<1>5. CASE UNCHANGED vars
  BY <1>5 DEF vars, LockInv, TypeOK, MutualExclusion, HolderIsKnown,
     FreeLockHasTaker, Owners
<1> QED BY <1>1, <1>2, <1>3, <1>4, <1>5 DEF Next, Step

----------------------------------------------------------------------------
(* For every number of threads: the lock excludes, lockHolder is the       *)
(* thread whose Acquire has returned, and a free lock with sleepers has a  *)
(* thread awake to take it.                                                *)
THEOREM LockSafe ==
    Safety => [](/\ TypeOK /\ MutualExclusion
                 /\ HolderIsKnown /\ FreeLockHasTaker)
<1>1. LockInv => TypeOK /\ MutualExclusion /\ HolderIsKnown /\ FreeLockHasTaker
    BY DEF LockInv
<1> QED BY <1>1, LockInitInv, LockNextInv, PTL DEF Safety

(* Every step of the lock is a step of Mutex, or does not concern it.      *)
LEMMA LockStepIsMutexStep ==
    LockInv /\ [Next]_vars => [Promise!MutexNext]_Owners
<1> SUFFICES ASSUME LockInv, [Next]_vars PROVE [Promise!MutexNext]_Owners
    OBVIOUS
<1>1. ASSUME NEW t \in Threads, AcquireWaits(t) PROVE Owners' = Owners
    BY <1>1 DEF AcquireWaits, LockInv, TypeOK, Owners
<1>2. ASSUME NEW t \in Threads, AcquireTakes(t)
      PROVE Owners = {} /\ Owners' = {t}
    BY <1>2 DEF AcquireTakes, LockInv, TypeOK, MutualExclusion, Owners
<1>3. ASSUME NEW t \in Threads, AcquireReturns(t) PROVE Owners' = Owners
    BY <1>3 DEF AcquireReturns, LockInv, TypeOK, Owners
<1>4. ASSUME NEW t \in Threads, Release(t)
      PROVE t \in Owners /\ Owners' = {}
    BY <1>4 DEF Release, LockInv, TypeOK, MutualExclusion, Owners
<1>5. CASE UNCHANGED vars
    BY <1>5 DEF vars, Owners
<1> QED BY <1>1, <1>2, <1>3, <1>4, <1>5 DEF Next, Step, Promise!MutexNext,
       Promise!Enter, Promise!Leave

(* The lock made of a semaphore and lockHolder does what Mutex promises:   *)
(* Acquire takes effect when P succeeds, Release when V does.              *)
THEOREM LockImplementsMutex == Safety => ImplementsMutex
<1>1. Init => Promise!MutexInit
    BY DEF Init, Promise!MutexInit, Owners
<1> QED BY <1>1, LockInitInv, LockNextInv, LockStepIsMutexStep, PTL
       DEF Safety, ImplementsMutex, Promise!MutexSpec

=============================================================================
