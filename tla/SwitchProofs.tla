---------------------------- MODULE SwitchProofs ----------------------------
(***************************************************************************)
(* Proofs about Switch: a thread that SWITCH returns to finds what it      *)
(* left, and a forked thread calls its function once, between ThreadBegin  *)
(* and ThreadFinish, for any number of threads that switch to one another  *)
(* anywhere.  The inductive invariant says, for every place in the code,   *)
(* how deep the stack is and which words and registers still hold what     *)
(* ThreadRoot will need, for the thread that runs and for those that are   *)
(* switched out.                                                           *)
(***************************************************************************)
EXTENDS Switch, SequenceTheorems, TLAPS

Places == {"main", "main+", "Begin", "Begin+", "func", "func+", "Finish", "Finish+"}

(* What words of stacks and registers hold.                                *)
Cells ==
    Threads \cup Values \cup Places \cup {Func[t] : t \in Threads}
        \cup {Arg[t] : t \in Threads}
        \cup {"NULL", "safe", "host", "frame", "ThreadBegin", "ThreadFinish",
              "ThreadRoot", "ThreadRoot2", "ThreadRoot3", "ThreadRoot4"}

CalledNone == <<>>
CalledBegin == << <<"ThreadBegin">> >>
CalledFunc(t) == << <<"ThreadBegin">>, <<Func[t], Arg[t]>> >>
CalledAll(t) == << <<"ThreadBegin">>, <<Func[t], Arg[t]>>, <<"ThreadFinish">> >>
Scripts == {CalledNone, CalledBegin} \cup {CalledFunc(t) : t \in Threads}
               \cup {CalledAll(t) : t \in Threads}

(* A thread at a place of the code, with these registers, with a stack of  *)
(* that depth and with these calls made by its ThreadRoot.                 *)
Frame(t, place, regs, words, depth, called) ==
    \/ /\ t = Main /\ called = CalledNone
       /\ \/ place = "main" /\ depth = 1
          \/ place = "main+" /\ depth = 5
    \/ /\ t # Main
       /\ \/ /\ place = "ThreadRoot" /\ depth = 4 /\ called = CalledNone
             /\ regs["ecx"] = "ThreadBegin" /\ regs["edx"] = Arg[t]
             /\ regs["esi"] = Func[t] /\ regs["edi"] = "ThreadFinish"
          \/ /\ place = "Begin" /\ depth = 7 /\ called = CalledBegin
             /\ words[6] = Arg[t] /\ words[7] = "ThreadRoot2"
             /\ regs["esi"] = Func[t] /\ regs["edi"] = "ThreadFinish"
          \/ /\ place = "Begin+" /\ depth = 11 /\ called = CalledBegin
             /\ words[6] = Arg[t] /\ words[7] = "ThreadRoot2"
             /\ words[10] = Func[t] /\ words[11] = "ThreadFinish"
          \/ /\ place = "ThreadRoot2" /\ depth = 6 /\ called = CalledBegin
             /\ words[6] = Arg[t]
             /\ regs["esi"] = Func[t] /\ regs["edi"] = "ThreadFinish"
          \/ /\ place = "func" /\ depth = 7 /\ called = CalledFunc(t)
             /\ words[7] = "ThreadRoot3" /\ regs["edi"] = "ThreadFinish"
          \/ /\ place = "func+" /\ depth = 11 /\ called = CalledFunc(t)
             /\ words[7] = "ThreadRoot3" /\ words[11] = "ThreadFinish"
          \/ /\ place = "ThreadRoot3" /\ depth = 6 /\ called = CalledFunc(t)
             /\ regs["edi"] = "ThreadFinish"
          \/ place = "Finish" /\ depth = 7 /\ called = CalledAll(t)
          \/ place = "Finish+" /\ depth = 11 /\ called = CalledAll(t)

(* What a thread left that called SWITCH, and what of it is kept.          *)
Left(regs, place, words, depth, was) ==
    /\ \A r \in Preserved : regs[r] = was.regs[r]
    /\ place = was.pc
    /\ depth = Len(was.stack)
    /\ SubSeq(words, 1, depth) = was.stack

(* A thread that is switched out: one that has not run yet has the frame   *)
(* of StackAllocate, another one that of its call of SWITCH.               *)
SwitchedOut(t, saved, words, called, was) ==
    /\ saved.regs \in [Registers -> Cells]
    /\ saved.esp = [of |-> t, depth |-> saved.esp.depth]
    /\ saved.esp.depth \in 1..Len(words)
    /\ saved.pc \in Places \cup {"ThreadRoot"}
    /\ words[saved.esp.depth] = saved.pc
    /\ IF saved.pc = "ThreadRoot"
       THEN saved.esp.depth = 5 /\ Frame(t, saved.pc, saved.regs, words, 4, called)
       ELSE /\ Frame(t, saved.pc, saved.regs, words, saved.esp.depth - 3, called)
            /\ Left(saved.regs, saved.pc, words, saved.esp.depth - 3, was)

SwitchTypeOK ==
    /\ cpu \in [Registers -> Cells]
    /\ esp = [of |-> currentThread, depth |-> esp.depth]
    /\ stacks \in [Threads -> Seq(Cells)]
    /\ esp.depth \in 1..Len(stacks[currentThread])
    /\ machineState = [t \in Threads |-> machineState[t]]
    /\ status \in [Threads -> {"new", "live", "finishing", "deleted"}]
    /\ currentThread \in Threads
    /\ toBeDestroyed \subseteq {t \in Threads : status[t] = "finishing"}
    /\ userRegisters = [t \in Threads |-> userRegisters[t]]
    /\ returning \in BOOLEAN
    /\ calls = [t \in Threads |-> calls[t]]
    /\ expect = [t \in Threads |-> expect[t]]

(* Where the user program's registers are.                                 *)
UserKept ==
    IF currentThread = Main /\ ~ returning THEN machine = user
    ELSE userRegisters[Main] = user

SwitchInv ==
    /\ SwitchTypeOK
    /\ UserKept
    /\ status[currentThread] = "live" /\ status[Main] # "new"
    /\ \A t \in Threads : calls[t] \in {CalledNone, CalledBegin, CalledFunc(t), CalledAll(t)}
    /\ \A t \in Threads : status[t] = "new" => calls[t] = CalledNone
    /\ ~ returning => Frame(currentThread, pc, cpu, stacks[currentThread], esp.depth,
                            calls[currentThread])
    /\ returning => /\ pc \in Places
                    /\ Frame(currentThread, pc, cpu, stacks[currentThread],
                             esp.depth - 2, calls[currentThread])
                    /\ Left(cpu, pc, stacks[currentThread], esp.depth - 2,
                            expect[currentThread])
    /\ \A t \in Threads : status[t] = "live" /\ t # currentThread =>
          SwitchedOut(t, machineState[t], stacks[t], calls[t], expect[t])

----------------------------------------------------------------------------
(* The words of a stack after a push.                                      *)
LEMMA PushFacts ==
    ASSUME NEW C, NEW s \in Seq(C), NEW d \in 0..Len(s), NEW w \in Seq(C)
    PROVE  LET r == SubSeq(s, 1, d) \o w
           IN  /\ r \in Seq(C) /\ Len(r) = d + Len(w)
               /\ \A i \in 1..d : r[i] = s[i]
               /\ \A i \in 1..Len(w) : r[d + i] = w[i]
<1>1. /\ SubSeq(s, 1, d) \in Seq(C) /\ Len(SubSeq(s, 1, d)) = d
      /\ \A i \in 1..d : SubSeq(s, 1, d)[i] = s[i]
  OBVIOUS
<1> QED  BY <1>1

LEMMA PushWord ==
    ASSUME NEW C, NEW s \in Seq(C), NEW d \in 0..Len(s), NEW x \in C
    PROVE  LET r == SubSeq(s, 1, d) \o <<x>>
           IN  r \in Seq(C) /\ Len(r) = d + 1 /\ r[d + 1] = x
<1>1. <<x>> \in Seq(C) /\ Len(<<x>>) = 1 /\ <<x>>[1] = x
  OBVIOUS
<1>2. PICK w \in Seq(C) : w = <<x>>
  BY <1>1, Zenon
<1>3. LET r == SubSeq(s, 1, d) \o w
      IN  /\ r \in Seq(C) /\ Len(r) = d + Len(w)
          /\ \A i \in 1..Len(w) : r[d + i] = w[i]
  BY PushFacts
<1> QED  BY <1>1, <1>2, <1>3

LEMMA AppendSecond ==
    ASSUME NEW a, NEW b PROVE Append(<<a>>, b) = <<a, b>>
<1>1. PICK C : a \in C /\ b \in C
  <2>1. a \in {a, b} /\ b \in {a, b}
    OBVIOUS
  <2> QED  BY <2>1, Zenon
<1>2. <<a>> \in Seq(C) /\ Len(<<a>>) = 1
      /\ <<a>>[1] = a
  BY <1>1
<1>3. <<a, b>> \in Seq(C) /\ Len(<<a, b>>) = 2
      /\ <<a, b>>[1] = a /\ <<a, b>>[2] = b
  BY <1>1
<1>4. PICK s \in Seq(C) : s = <<a>>
  BY <1>2, Zenon
<1>5. PICK r \in Seq(C) : r = <<a, b>>
  BY <1>3, Zenon
<1>6. PICK u \in Seq(C) : u = Append(s, b)
  BY <1>1, AppendProperties, Zenon
<1>7. Len(u) = 2 /\ u[1] = a /\ u[2] = b
  BY <1>1, <1>2, <1>4, <1>6, AppendProperties
<1>8. \A i \in 1..2 : u[i] = r[i]
  BY <1>3, <1>5, <1>7
<1>9. u = r
  BY <1>3, <1>5, <1>7, <1>8, SeqEqual
<1> QED  BY <1>4, <1>5, <1>6, <1>9, Zenon

LEMMA AppendThird ==
    ASSUME NEW a, NEW b, NEW c PROVE Append(<<a, b>>, c) = <<a, b, c>>
<1>1. PICK C : a \in C /\ b \in C /\ c \in C
  <2>1. a \in {a, b, c} /\ b \in {a, b, c} /\ c \in {a, b, c}
    OBVIOUS
  <2> QED  BY <2>1, Zenon
<1>2. <<a, b>> \in Seq(C) /\ Len(<<a, b>>) = 2
      /\ <<a, b>>[1] = a /\ <<a, b>>[2] = b
  BY <1>1
<1>3. <<a, b, c>> \in Seq(C) /\ Len(<<a, b, c>>) = 3
      /\ <<a, b, c>>[1] = a /\ <<a, b, c>>[2] = b /\ <<a, b, c>>[3] = c
  BY <1>1
<1>4. PICK s \in Seq(C) : s = <<a, b>>
  BY <1>2, Zenon
<1>5. PICK r \in Seq(C) : r = <<a, b, c>>
  BY <1>3, Zenon
<1>6. PICK u \in Seq(C) : u = Append(s, c)
  BY <1>1, AppendProperties, Zenon
<1>7. Len(u) = 3 /\ u[1] = a /\ u[2] = b /\ u[3] = c
  BY <1>1, <1>2, <1>4, <1>6, AppendProperties
<1>8. \A i \in 1..3 : u[i] = r[i]
  BY <1>3, <1>5, <1>7
<1>9. u = r
  BY <1>3, <1>5, <1>7, <1>8, SeqEqual
<1> QED  BY <1>4, <1>5, <1>6, <1>9, Zenon

(* Two stacks that agree up to a depth have the same words up to there.    *)
LEMMA SubSeqAgrees ==
    ASSUME NEW C, NEW s \in Seq(C), NEW r \in Seq(C), NEW d \in Nat,
           d <= Len(s), d <= Len(r), \A i \in 1..d : r[i] = s[i]
    PROVE  SubSeq(r, 1, d) = SubSeq(s, 1, d)
<1>1. /\ SubSeq(s, 1, d) \in Seq(C) /\ Len(SubSeq(s, 1, d)) = d
      /\ \A i \in 1..d : SubSeq(s, 1, d)[i] = s[i]
  OBVIOUS
<1>2. /\ SubSeq(r, 1, d) \in Seq(C) /\ Len(SubSeq(r, 1, d)) = d
      /\ \A i \in 1..d : SubSeq(r, 1, d)[i] = r[i]
  OBVIOUS
<1> QED  BY <1>1, <1>2

(* A store into a word of a stack.                                         *)
LEMMA StoreFacts ==
    ASSUME NEW C, NEW s \in Seq(C), NEW k \in 1..Len(s), NEW x \in C
    PROVE  LET r == [s EXCEPT ![k] = x]
           IN  /\ r \in Seq(C) /\ Len(r) = Len(s)
               /\ \A i \in 1..Len(s) : i # k => r[i] = s[i]
  OBVIOUS

(* A frame is about the words up to its depth only.                        *)
LEMMA FrameAgrees ==
    ASSUME NEW t, NEW place, NEW regs, NEW words, NEW depth, NEW called,
           Frame(t, place, regs, words, depth, called),
           NEW others, \A i \in 1..depth : others[i] = words[i]
    PROVE  Frame(t, place, regs, others, depth, called)
  BY DEF Frame

LEMMA LeftAgrees ==
    ASSUME NEW regs, NEW place, NEW words \in Seq(Cells), NEW depth \in Nat, NEW was,
           Left(regs, place, words, depth, was), depth <= Len(words),
           NEW others \in Seq(Cells), depth <= Len(others),
           \A i \in 1..depth : others[i] = words[i]
    PROVE  Left(regs, place, others, depth, was)
  BY SubSeqAgrees DEF Left

(* The frame of each place fixes the depth.                                *)
LEMMA FrameDepth ==
    ASSUME NEW t, NEW place, NEW regs, NEW words, NEW depth, NEW called,
           Frame(t, place, regs, words, depth, called)
    PROVE  depth \in {1, 4, 5, 6, 7, 11}
  BY DEF Frame

(* A step of the running thread that leaves the others alone: it keeps the *)
(* invariant if it leads from a frame to a frame.                          *)
LEMMA OwnStepKeeps ==
    ASSUME SwitchInv, returning' = FALSE,
           UNCHANGED <<machineState, currentThread, userRegisters, expect>>,
           cpu' \in [Registers -> Cells],
           NEW words \in Seq(Cells), NEW depth \in 1..Len(words), NEW called,
           esp' = [of |-> currentThread, depth |-> depth],
           \/ /\ stacks' = [stacks EXCEPT ![currentThread] = words]
              /\ UNCHANGED <<status, toBeDestroyed>>
           \/ CheckToBeDestroyed([stacks EXCEPT ![currentThread] = words]),
           calls' = [calls EXCEPT ![currentThread] = called],
           called \in {CalledNone, CalledBegin, CalledFunc(currentThread),
                       CalledAll(currentThread)},
           Frame(currentThread, pc', cpu', words, depth, called),
           UserKept'
    PROVE  SwitchInv'
<1>1. /\ currentThread \in Threads /\ status[currentThread] = "live"
      /\ currentThread \notin toBeDestroyed
  BY DEF SwitchInv, SwitchTypeOK
<1>2. /\ status' \in [Threads -> {"new", "live", "finishing", "deleted"}]
      /\ \A t \in Threads : status'[t] = status[t] \/ status'[t] = "deleted"
      /\ status'[currentThread] = "live"
      /\ toBeDestroyed' \subseteq {t \in Threads : status'[t] = "finishing"}
  BY <1>1 DEF SwitchInv, SwitchTypeOK, CheckToBeDestroyed
<1>3. stacks' \in [Threads -> Seq(Cells)] /\ stacks'[currentThread] = words
  <2> DEFINE new == [stacks EXCEPT ![currentThread] = words]
  <2>1. new \in [Threads -> Seq(Cells)] /\ new[currentThread] = words
    BY <1>1 DEF SwitchInv, SwitchTypeOK
  <2> HIDE DEF new
  <2>2. CASE stacks' = new
    BY <2>1, <2>2
  <2>3. CASE CheckToBeDestroyed(new)
    <3>1. <<>> \in Seq(Cells)
      OBVIOUS
    <3> QED  BY <1>1, <2>1, <2>3, <3>1 DEF CheckToBeDestroyed
  <2> QED  BY <2>2, <2>3 DEF new
<1>4. \A t \in Threads : status'[t] = "live" /\ t # currentThread => stacks'[t] = stacks[t]
  BY <1>1 DEF SwitchInv, SwitchTypeOK, CheckToBeDestroyed
<1>5. /\ calls' = [t \in Threads |-> calls'[t]] /\ calls'[currentThread] = called
      /\ \A t \in Threads \ {currentThread} : calls'[t] = calls[t]
  BY <1>1, Zenon DEF SwitchInv, SwitchTypeOK
<1>6. SwitchTypeOK'
  <2>1. returning' \in BOOLEAN
    BY Zenon
  <2> QED  BY <1>1, <1>2, <1>3, <1>5, <2>1 DEF SwitchInv, SwitchTypeOK
<1>7. ASSUME NEW t \in Threads, status'[t] = "live", t # currentThread
      PROVE  SwitchedOut(t, machineState[t], stacks'[t], calls'[t], expect[t])
  BY <1>2, <1>4, <1>5, <1>7 DEF SwitchInv
<1>8. ASSUME NEW t \in Threads
      PROVE  /\ calls'[t] \in {CalledNone, CalledBegin, CalledFunc(t), CalledAll(t)}
             /\ status'[t] = "new" => calls'[t] = CalledNone
  BY <1>1, <1>2, <1>5 DEF SwitchInv
<1>9. status'[Main] # "new"
  BY <1>2, SwitchAssumption DEF SwitchInv
<1> QED
  BY <1>2, <1>3, <1>5, <1>6, <1>7, <1>8, <1>9 DEF SwitchInv

(* The running thread, which is not just back from SWITCH, and its stack.  *)
Running(t, words, depth, called) ==
    /\ t = currentThread /\ words = stacks[t] /\ depth = esp.depth /\ called = calls[t]
    /\ esp = [of |-> t, depth |-> depth]
    /\ depth \in 1..Len(words) /\ status[t] = "live"
    /\ cpu \in [Registers -> Cells]
    /\ stacks = [stacks EXCEPT ![t] = words]
    /\ calls = [calls EXCEPT ![t] = called]
    /\ called \in {CalledNone, CalledBegin, CalledFunc(t), CalledAll(t)}
    /\ Frame(t, pc, cpu, words, depth, called)

LEMMA RunningFacts ==
    ASSUME SwitchInv, ~ returning
    PROVE  \E t \in Threads, words \in Seq(Cells), depth \in Nat, called \in Scripts :
          Running(t, words, depth, called)
<1>1. currentThread \in Threads /\ stacks[currentThread] \in Seq(Cells) /\ esp.depth \in Nat
  BY DEF SwitchInv, SwitchTypeOK
<1>2. esp.depth \in 1..Len(stacks[currentThread]) /\ cpu \in [Registers -> Cells]
      /\ esp = [of |-> currentThread, depth |-> esp.depth]
  BY DEF SwitchInv, SwitchTypeOK
<1>3. stacks = [stacks EXCEPT ![currentThread] = stacks[currentThread]]
  BY DEF SwitchInv, SwitchTypeOK
<1>4. calls = [calls EXCEPT ![currentThread] = calls[currentThread]]
  BY Zenon DEF SwitchInv, SwitchTypeOK
<1>5. Frame(currentThread, pc, cpu, stacks[currentThread], esp.depth, calls[currentThread])
      /\ calls[currentThread] \in {CalledNone, CalledBegin, CalledFunc(currentThread),
                                   CalledAll(currentThread)}
      /\ status[currentThread] = "live"
  BY <1>1 DEF SwitchInv
<1>6. calls[currentThread] \in Scripts
  BY <1>1, <1>5 DEF Scripts
<1> QED  BY <1>1, <1>2, <1>3, <1>4, <1>5, <1>6 DEF Running

(* ThreadRoot is not a place where SWITCH returns to a thread that called  *)
(* it.                                                                     *)
LEMMA RootIsNoReturn ==
    ASSUME SwitchInv, pc \in {"ThreadRoot", "ThreadRoot2", "ThreadRoot3"}
    PROVE  returning = FALSE
  BY DEF SwitchInv, SwitchTypeOK, Places

(* A function saves registers on its stack.                                *)
LEMMA PrologueKeeps ==
    ASSUME SwitchInv, NEW v \in Values, Prologue(v) PROVE SwitchInv'
<1>1. PICK t \in Threads, words \in Seq(Cells), depth \in Nat, called \in Scripts :
          Running(t, words, depth, called)
  BY RunningFacts DEF Prologue
<1>2. PICK a \in Cells, b \in Cells, c \in Cells, d \in Cells :
          a = cpu["ebp"] /\ b = cpu["ebx"] /\ c = cpu["esi"] /\ d = cpu["edi"]
  <2>1. {"ebp", "ebx", "esi", "edi"} \subseteq Registers
    BY DEF Registers, Preserved
  <2>2. cpu["ebp"] \in Cells /\ cpu["ebx"] \in Cells /\ cpu["esi"] \in Cells
        /\ cpu["edi"] \in Cells
    BY <1>1, <2>1 DEF Running
  <2> QED  BY <2>2
<1>3. PICK new : new = SubSeq(words, 1, depth) \o <<a, b, c, d>>
  BY Zenon
<1>4. /\ new \in Seq(Cells) /\ Len(new) = depth + 4
      /\ \A i \in 1..depth : new[i] = words[i]
      /\ new[depth + 3] = c /\ new[depth + 4] = d
  <2>1. <<a, b, c, d>> \in Seq(Cells) /\ Len(<<a, b, c, d>>) = 4
        /\ <<a, b, c, d>>[3] = c /\ <<a, b, c, d>>[4] = d
    OBVIOUS
  <2>2. depth \in 0..Len(words)
    BY <1>1 DEF Running
  <2>3. PICK w \in Seq(Cells) : w = <<a, b, c, d>>
    BY <2>1, Zenon
  <2>4. /\ new \in Seq(Cells) /\ Len(new) = depth + Len(w)
        /\ \A i \in 1..depth : new[i] = words[i]
        /\ \A i \in 1..Len(w) : new[depth + i] = w[i]
    <3>1. PICK k \in 0..Len(words) : k = depth
      BY <2>2
    <3>2. LET r == SubSeq(words, 1, k) \o w
          IN  /\ r \in Seq(Cells) /\ Len(r) = k + Len(w)
              /\ \A i \in 1..k : r[i] = words[i]
              /\ \A i \in 1..Len(w) : r[k + i] = w[i]
      BY PushFacts, SMTT(20)
    <3>3. new = SubSeq(words, 1, k) \o w
      BY <1>3, <2>3, <3>1, Zenon
    <3> QED  BY <3>1, <3>2, <3>3, Zenon
  <2>5. Len(w) = 4 /\ w[3] = c /\ w[4] = d
    BY <2>1, <2>3
  <2> QED  BY <2>4, <2>5
<1>5. Frame(t, pc, cpu, words, depth, called)
  BY <1>1 DEF Running
<1>6. Frame(t, pc', cpu', new, depth + 4, called)
  <2>1. pc \in Bodies /\ pc' = Framed[pc]
    BY DEF Prologue
  <2>2. Framed["main"] = "main+" /\ Framed["Begin"] = "Begin+"
        /\ Framed["func"] = "func+" /\ Framed["Finish"] = "Finish+"
    BY DEF Framed, Bodies
  <2>3. CASE pc = "main"
    BY <1>5, <2>1, <2>2, <2>3 DEF Frame
  <2>4. CASE pc = "Begin"
    <3>1. /\ t # Main /\ depth = 7 /\ called = CalledBegin
          /\ words[6] = Arg[t] /\ words[7] = "ThreadRoot2"
          /\ cpu["esi"] = Func[t] /\ cpu["edi"] = "ThreadFinish"
      BY <1>5, <2>4 DEF Frame
    <3>2. new[6] = words[6] /\ new[7] = words[7] /\ new[10] = c /\ new[11] = d
      BY <1>4, <3>1
    <3> QED  BY <1>2, <2>1, <2>2, <2>4, <3>1, <3>2 DEF Frame
  <2>5. CASE pc = "func"
    <3>1. /\ t # Main /\ depth = 7 /\ called = CalledFunc(t)
          /\ words[7] = "ThreadRoot3" /\ cpu["edi"] = "ThreadFinish"
      BY <1>5, <2>5 DEF Frame
    <3>2. new[7] = words[7] /\ new[11] = d
      BY <1>4, <3>1
    <3> QED  BY <1>2, <2>1, <2>2, <2>5, <3>1, <3>2 DEF Frame
  <2>6. CASE pc = "Finish"
    BY <1>5, <2>1, <2>2, <2>6 DEF Frame
  <2> QED  BY <2>1, <2>3, <2>4, <2>5, <2>6 DEF Bodies
<1>7. cpu' \in [Registers -> Cells]
  BY DEF Prologue, Cells
<1>8. /\ stacks' = [stacks EXCEPT ![t] = new]
      /\ esp' = [of |-> t, depth |-> depth + 4]
  BY <1>1, <1>2, <1>3 DEF Prologue, Pushed, Moved, Running
<1>9. UserKept' /\ returning' = FALSE
  BY DEF Prologue, UserKept, SwitchInv, SwitchTypeOK, ghosts
<1>10. UNCHANGED <<machineState, status, currentThread, toBeDestroyed, userRegisters,
                   expect, calls>>
  BY DEF Prologue, ghosts
<1>11. depth + 4 \in 1..Len(new)
  BY <1>4
<1>12. /\ t = currentThread /\ calls' = [calls EXCEPT ![t] = called]
       /\ called \in {CalledNone, CalledBegin, CalledFunc(t), CalledAll(t)}
  BY <1>1, <1>10 DEF Running
<1> QED  BY <1>4, <1>6, <1>7, <1>8, <1>9, <1>10, <1>11, <1>12, OwnStepKeeps, Zenon

(* It restores them.                                                       *)
LEMMA EpilogueKeeps ==
    ASSUME SwitchInv, Epilogue PROVE SwitchInv'
<1>1. PICK t \in Threads, words \in Seq(Cells), depth \in Nat, called \in Scripts :
          Running(t, words, depth, called)
  BY RunningFacts DEF Epilogue
<1>2. Frame(t, pc, cpu, words, depth, called)
  BY <1>1 DEF Running
<1>3. Framed["main"] = "main+" /\ Framed["Begin"] = "Begin+"
      /\ Framed["func"] = "func+" /\ Framed["Finish"] = "Finish+"
  BY DEF Framed, Bodies
<1>4. \/ pc = "main+" /\ pc' = "main"
      \/ pc = "Begin+" /\ pc' = "Begin"
      \/ pc = "func+" /\ pc' = "func"
      \/ pc = "Finish+" /\ pc' = "Finish"
  <2>1. PICK b \in Bodies : pc = Framed[b] /\ pc' = b
    BY DEF Epilogue
  <2>2. b \in {"main", "Begin", "func", "Finish"}
    BY DEF Bodies
  <2> QED  BY <1>3, <2>1, <2>2
<1>5. depth \in {5, 11}
  BY <1>2, <1>4 DEF Frame
<1>6. /\ Word(0) = words[depth] /\ Word(1) = words[depth - 1]
      /\ Word(2) = words[depth - 2] /\ Word(3) = words[depth - 3]
  BY <1>1 DEF Running, Word, Stack
<1>7. /\ words[depth] \in Cells /\ words[depth - 1] \in Cells
      /\ words[depth - 2] \in Cells /\ words[depth - 3] \in Cells
  BY <1>1, <1>5 DEF Running
<1>8. /\ cpu' \in [Registers -> Cells]
      /\ cpu'["edi"] = words[depth] /\ cpu'["esi"] = words[depth - 1]
  <2>1. {"edi", "esi", "ebx", "ebp"} \subseteq Registers /\ cpu \in [Registers -> Cells]
    BY <1>1 DEF Running, Registers, Preserved
  <2>2. cpu' = [cpu EXCEPT !["edi"] = words[depth], !["esi"] = words[depth - 1],
                           !["ebx"] = words[depth - 2], !["ebp"] = words[depth - 3]]
    BY <1>6, Zenon DEF Epilogue
  <2>3. PICK a \in Cells, b \in Cells, c \in Cells, d \in Cells :
            /\ a = words[depth] /\ b = words[depth - 1]
            /\ c = words[depth - 2] /\ d = words[depth - 3]
    BY <1>7
  <2> QED  BY <2>1, <2>2, <2>3
<1>9. Frame(t, pc', cpu', words, depth - 4, called)
  <2>1. CASE pc = "main+" /\ pc' = "main"
    BY <1>2, <2>1 DEF Frame
  <2>2. CASE pc = "Begin+" /\ pc' = "Begin"
    <3>1. /\ t # Main /\ depth = 11 /\ called = CalledBegin
          /\ words[6] = Arg[t] /\ words[7] = "ThreadRoot2"
          /\ words[10] = Func[t] /\ words[11] = "ThreadFinish"
      BY <1>2, <2>2 DEF Frame
    <3> QED  BY <1>8, <2>2, <3>1 DEF Frame
  <2>3. CASE pc = "func+" /\ pc' = "func"
    <3>1. /\ t # Main /\ depth = 11 /\ called = CalledFunc(t)
          /\ words[7] = "ThreadRoot3" /\ words[11] = "ThreadFinish"
      BY <1>2, <2>3 DEF Frame
    <3> QED  BY <1>8, <2>3, <3>1 DEF Frame
  <2>4. CASE pc = "Finish+" /\ pc' = "Finish"
    BY <1>2, <2>4 DEF Frame
  <2> QED  BY <1>4, <2>1, <2>2, <2>3, <2>4
<1>10. esp' = [of |-> t, depth |-> depth - 4]
  BY <1>1 DEF Epilogue, Moved, Running
<1>11. UserKept' /\ returning' = FALSE
  BY DEF Epilogue, UserKept, SwitchInv, SwitchTypeOK, ghosts
<1>12. UNCHANGED <<stacks, machineState, status, currentThread, toBeDestroyed,
                   userRegisters, expect, calls>>
  BY DEF Epilogue, ghosts
<1>13. depth - 4 \in 1..Len(words)
  BY <1>1, <1>5 DEF Running
<1>14. /\ t = currentThread /\ calls' = [calls EXCEPT ![t] = called]
       /\ stacks' = [stacks EXCEPT ![t] = words]
       /\ called \in {CalledNone, CalledBegin, CalledFunc(t), CalledAll(t)}
  BY <1>1, <1>12 DEF Running
<1> QED  BY <1>8, <1>9, <1>10, <1>11, <1>12, <1>13, <1>14, OwnStepKeeps, Zenon

(* The user program takes a step.                                          *)
LEMMA UserStepKeeps ==
    ASSUME SwitchInv, UserStep PROVE SwitchInv'
<1>1. currentThread = Main
  BY DEF SwitchInv, UserStep, Frame
<1>2. UserKept'
  BY <1>1 DEF SwitchInv, UserStep, UserKept, host
<1> QED  BY <1>2 DEF SwitchInv, SwitchTypeOK, UserStep, host

(* ThreadRoot calls ThreadBegin.                                           *)
LEMMA CallStartupKeeps ==
    ASSUME SwitchInv, CallStartup PROVE SwitchInv'
<1>1. returning = FALSE
  BY RootIsNoReturn DEF CallStartup
<1>2. PICK t \in Threads, words \in Seq(Cells), depth \in Nat, called \in Scripts :
          Running(t, words, depth, called)
  BY <1>1, RunningFacts
<1>3. /\ t # Main /\ depth = 4 /\ called = CalledNone
      /\ cpu["ecx"] = "ThreadBegin" /\ cpu["edx"] = Arg[t]
      /\ cpu["esi"] = Func[t] /\ cpu["edi"] = "ThreadFinish"
  BY <1>2 DEF Running, Frame, CallStartup
<1>4. PICK a \in Cells, b \in Cells : a = cpu["ebp"] /\ b = Arg[t]
  BY <1>2 DEF Running, Registers, Preserved, Cells
<1>5. PICK new : new = SubSeq(words, 1, depth) \o <<a, b, "ThreadRoot2">>
  BY Zenon
<1>6. /\ new \in Seq(Cells) /\ Len(new) = 7
      /\ new[6] = Arg[t] /\ new[7] = "ThreadRoot2"
  <2>1. "ThreadRoot2" \in Cells
    BY DEF Cells
  <2>2. /\ <<a, b, "ThreadRoot2">> \in Seq(Cells) /\ Len(<<a, b, "ThreadRoot2">>) = 3
        /\ <<a, b, "ThreadRoot2">>[2] = b /\ <<a, b, "ThreadRoot2">>[3] = "ThreadRoot2"
    BY <2>1
  <2>3. PICK w \in Seq(Cells) : w = <<a, b, "ThreadRoot2">>
    BY <2>2, Zenon
  <2>4. depth \in 0..Len(words)
    BY <1>2 DEF Running
  <2>5. /\ new \in Seq(Cells) /\ Len(new) = depth + Len(w)
        /\ \A i \in 1..Len(w) : new[depth + i] = w[i]
    <3>1. PICK k \in 0..Len(words) : k = depth
      BY <2>4
    <3>2. LET r == SubSeq(words, 1, k) \o w
          IN  /\ r \in Seq(Cells) /\ Len(r) = k + Len(w)
              /\ \A i \in 1..k : r[i] = words[i]
              /\ \A i \in 1..Len(w) : r[k + i] = w[i]
      BY PushFacts, SMTT(20)
    <3>3. new = SubSeq(words, 1, k) \o w
      BY <1>5, <2>3, <3>1, Zenon
    <3> QED  BY <3>1, <3>2, <3>3, Zenon
  <2>6. Len(w) = 3 /\ w[2] = Arg[t] /\ w[3] = "ThreadRoot2" /\ depth = 4
    BY <1>3, <1>4, <2>2, <2>3
  <2>7. Len(new) = 7 /\ new[4 + 2] = w[2] /\ new[4 + 3] = w[3]
    BY <2>5, <2>6
  <2> QED  BY <2>5, <2>6, <2>7
<1>7. PICK after : after = CalledBegin
  OBVIOUS
<1>8. calls' = [calls EXCEPT ![t] = after]
  <2>1. Append(CalledNone, <<"ThreadBegin">>) = CalledBegin
    BY DEF CalledNone, CalledBegin
  <2>2. t = currentThread /\ calls[t] = CalledNone
    BY <1>2, <1>3 DEF Running
  <2> QED  BY <1>3, <1>7, <2>1, <2>2, Zenon DEF CallStartup
<1>9. pc' = "Begin"
  BY <1>3 DEF CallStartup, Called
<1>10. /\ cpu' \in [Registers -> Cells]
       /\ cpu'["esi"] = Func[t] /\ cpu'["edi"] = "ThreadFinish"
  <2>1. "frame" \in Cells
    BY DEF Cells
  <2> QED  BY <1>2, <1>3, <2>1 DEF Running, CallStartup, Registers, Preserved
<1>11. Frame(t, pc', cpu', new, 7, after)
  BY <1>3, <1>6, <1>7, <1>9, <1>10 DEF Frame
<1>12. esp' = [of |-> t, depth |-> 7]
  BY <1>2, <1>3 DEF CallStartup, Moved, Running
<1>13. CheckToBeDestroyed([stacks EXCEPT ![t] = new])
  <2>1. Pushed(<<cpu["ebp"], cpu["edx"], "ThreadRoot2">>) = [stacks EXCEPT ![t] = new]
    BY <1>2, <1>3, <1>4, <1>5 DEF Running, Pushed
  <2> QED  BY <2>1 DEF CallStartup
<1>14. UserKept' /\ returning' = FALSE
  BY <1>1 DEF CallStartup, UserKept, SwitchInv
<1>15. /\ t = currentThread /\ after \in {CalledNone, CalledBegin, CalledFunc(t), CalledAll(t)}
       /\ UNCHANGED <<machineState, currentThread, userRegisters, expect>>
       /\ 7 \in 1..Len(new)
  BY <1>2, <1>6, <1>7 DEF Running, CallStartup
<1> QED  BY <1>6, <1>8, <1>10, <1>11, <1>12, <1>13, <1>14, <1>15, OwnStepKeeps, Zenon

(* ThreadRoot calls the function the thread was forked with.               *)
LEMMA CallInitialKeeps ==
    ASSUME SwitchInv, CallInitial PROVE SwitchInv'
<1>1. returning = FALSE
  BY RootIsNoReturn DEF CallInitial
<1>2. PICK t \in Threads, words \in Seq(Cells), depth \in Nat, called \in Scripts :
          Running(t, words, depth, called)
  BY <1>1, RunningFacts
<1>3. /\ t # Main /\ depth = 6 /\ called = CalledBegin /\ words[6] = Arg[t]
      /\ cpu["esi"] = Func[t] /\ cpu["edi"] = "ThreadFinish"
  BY <1>2 DEF Running, Frame, CallInitial
<1>4. PICK new : new = SubSeq(words, 1, depth) \o <<"ThreadRoot3">>
  BY Zenon
<1>5. new \in Seq(Cells) /\ Len(new) = 7 /\ new[7] = "ThreadRoot3"
  <2>1. "ThreadRoot3" \in Cells
    BY DEF Cells
  <2>2. depth \in 0..Len(words)
    BY <1>2 DEF Running
  <2>3. new \in Seq(Cells) /\ Len(new) = depth + 1 /\ new[depth + 1] = "ThreadRoot3"
    BY <1>4, <2>1, <2>2, PushWord
  <2> QED  BY <1>3, <2>3
<1>6. PICK after : after = CalledFunc(t)
  OBVIOUS
<1>7. calls' = [calls EXCEPT ![t] = after]
  <2>1. Append(CalledBegin, <<Func[t], Arg[t]>>) = CalledFunc(t)
    BY AppendSecond DEF CalledBegin, CalledFunc
  <2>2. t = currentThread /\ calls[t] = CalledBegin /\ Word(0) = Arg[t]
    BY <1>2, <1>3 DEF Running, Word, Stack
  <2> QED  BY <1>3, <1>6, <2>1, <2>2, Zenon DEF CallInitial
<1>8. pc' = "func"
  BY <1>3, SwitchAssumption DEF CallInitial, Called
<1>9. cpu' = cpu /\ cpu \in [Registers -> Cells]
  BY <1>2 DEF CallInitial, Running
<1>10. Frame(t, pc', cpu', new, 7, after)
  BY <1>3, <1>5, <1>6, <1>8, <1>9 DEF Frame
<1>11. /\ esp' = [of |-> t, depth |-> 7]
       /\ stacks' = [stacks EXCEPT ![t] = new]
  BY <1>2, <1>3, <1>4 DEF CallInitial, Moved, Pushed, Running
<1>12. UserKept' /\ returning' = FALSE
  BY <1>1 DEF CallInitial, UserKept, SwitchInv
<1>13. /\ t = currentThread /\ after \in {CalledNone, CalledBegin, CalledFunc(t), CalledAll(t)}
       /\ UNCHANGED <<machineState, currentThread, userRegisters, expect, status, toBeDestroyed>>
       /\ 7 \in 1..Len(new)
  BY <1>2, <1>5, <1>6 DEF Running, CallInitial
<1> QED  BY <1>5, <1>7, <1>9, <1>10, <1>11, <1>12, <1>13, OwnStepKeeps, Zenon

(* ThreadRoot calls ThreadFinish.                                          *)
LEMMA CallWhenDoneKeeps ==
    ASSUME SwitchInv, CallWhenDone PROVE SwitchInv'
<1>1. returning = FALSE
  BY RootIsNoReturn DEF CallWhenDone
<1>2. PICK t \in Threads, words \in Seq(Cells), depth \in Nat, called \in Scripts :
          Running(t, words, depth, called)
  BY <1>1, RunningFacts
<1>3. /\ t # Main /\ depth = 6 /\ called = CalledFunc(t) /\ cpu["edi"] = "ThreadFinish"
  BY <1>2 DEF Running, Frame, CallWhenDone
<1>4. PICK new : new = SubSeq(words, 1, depth) \o <<"ThreadRoot4">>
  BY Zenon
<1>5. new \in Seq(Cells) /\ Len(new) = 7
  <2>1. "ThreadRoot4" \in Cells
    BY DEF Cells
  <2>2. depth \in 0..Len(words)
    BY <1>2 DEF Running
  <2>3. new \in Seq(Cells) /\ Len(new) = depth + 1
    BY <1>4, <2>1, <2>2, PushWord
  <2> QED  BY <1>3, <2>3
<1>6. PICK after : after = CalledAll(t)
  OBVIOUS
<1>7. calls' = [calls EXCEPT ![t] = after]
  <2>1. Append(CalledFunc(t), <<"ThreadFinish">>) = CalledAll(t)
    BY AppendThird DEF CalledFunc, CalledAll
  <2>2. t = currentThread /\ calls[t] = CalledFunc(t)
    BY <1>2, <1>3 DEF Running
  <2> QED  BY <1>3, <1>6, <2>1, <2>2, Zenon DEF CallWhenDone
<1>8. pc' = "Finish"
  BY <1>3 DEF CallWhenDone, Called
<1>9. cpu' = cpu /\ cpu \in [Registers -> Cells]
  BY <1>2 DEF CallWhenDone, Running
<1>10. Frame(t, pc', cpu', new, 7, after)
  BY <1>3, <1>6, <1>8 DEF Frame
<1>11. /\ esp' = [of |-> t, depth |-> 7]
       /\ stacks' = [stacks EXCEPT ![t] = new]
  BY <1>2, <1>3, <1>4 DEF CallWhenDone, Moved, Pushed, Running
<1>12. UserKept' /\ returning' = FALSE
  BY <1>1 DEF CallWhenDone, UserKept, SwitchInv
<1>13. /\ t = currentThread /\ after \in {CalledNone, CalledBegin, CalledFunc(t), CalledAll(t)}
       /\ UNCHANGED <<machineState, currentThread, userRegisters, expect, status, toBeDestroyed>>
       /\ 7 \in 1..Len(new)
  BY <1>2, <1>5, <1>6 DEF Running, CallWhenDone
<1> QED  BY <1>5, <1>7, <1>9, <1>10, <1>11, <1>12, <1>13, OwnStepKeeps, Zenon

(* A function returns to ThreadRoot.                                       *)
LEMMA ReturnKeeps ==
    ASSUME SwitchInv, Return PROVE SwitchInv'
<1>1. PICK t \in Threads, words \in Seq(Cells), depth \in Nat, called \in Scripts :
          Running(t, words, depth, called)
  BY RunningFacts DEF Return
<1>2. Frame(t, pc, cpu, words, depth, called)
  BY <1>1 DEF Running
<1>3. t # Main /\ depth = 7
  BY <1>2 DEF Frame, Return
<1>4. pc' = words[7] /\ esp' = [of |-> t, depth |-> 6]
  BY <1>1, <1>3 DEF Return, Running, Word, Stack, Moved
<1>5. cpu' = cpu /\ cpu \in [Registers -> Cells]
  BY <1>1 DEF Return, Running
<1>6. Frame(t, pc', cpu', words, 6, called)
  <2>1. CASE pc = "Begin"
    BY <1>2, <1>4, <1>5, <2>1 DEF Frame
  <2>2. CASE pc = "func"
    BY <1>2, <1>4, <1>5, <2>2 DEF Frame
  <2> QED  BY <2>1, <2>2 DEF Return
<1>7. UserKept' /\ returning' = FALSE
  BY DEF Return, UserKept, SwitchInv, SwitchTypeOK, ghosts
<1>8. UNCHANGED <<stacks, machineState, status, currentThread, toBeDestroyed,
                  userRegisters, expect, calls>>
  BY DEF Return, ghosts
<1>9. /\ t = currentThread /\ calls' = [calls EXCEPT ![t] = called]
      /\ stacks' = [stacks EXCEPT ![t] = words] /\ 6 \in 1..Len(words)
      /\ called \in {CalledNone, CalledBegin, CalledFunc(t), CalledAll(t)}
  BY <1>1, <1>3, <1>8 DEF Running
<1> QED  BY <1>4, <1>5, <1>6, <1>7, <1>8, <1>9, OwnStepKeeps, Zenon

(* A thread that is back from SWITCH goes on in Scheduler::Run.            *)
LEMMA BackInRunKeeps ==
    ASSUME SwitchInv, BackInRun PROVE SwitchInv'
<1>1. PICK t \in Threads, words \in Seq(Cells), depth \in Nat :
          t = currentThread /\ words = stacks[t] /\ depth = esp.depth
  BY DEF SwitchInv, SwitchTypeOK
<1>2. PICK called : called = calls[t]
  OBVIOUS
<1>3. /\ esp = [of |-> t, depth |-> depth] /\ depth \in 1..Len(words)
      /\ cpu \in [Registers -> Cells]
      /\ stacks = [stacks EXCEPT ![t] = words]
      /\ calls = [calls EXCEPT ![t] = called]
  BY <1>1, <1>2, Zenon DEF SwitchInv, SwitchTypeOK
<1>4. Frame(t, pc, cpu, words, depth - 2, called)
  BY <1>1, <1>2, Zenon DEF SwitchInv, BackInRun
<1>5. depth - 2 \in 1..Len(words)
  <2>1. depth - 2 \in {1, 4, 5, 6, 7, 11}
    BY <1>4, FrameDepth
  <2> QED  BY <1>3, <2>1
<1>6. UserKept'
  BY DEF SwitchInv, BackInRun, UserKept, RestoreUserState, ghosts
<1>7. /\ UNCHANGED <<cpu, pc, machineState, currentThread, userRegisters, expect, calls>>
      /\ returning' = FALSE
  BY DEF BackInRun, ghosts
<1>8. Frame(t, pc', cpu', words, depth - 2, called)
  BY <1>4, <1>7
<1>9. esp' = [of |-> t, depth |-> depth - 2]
  BY <1>3 DEF BackInRun, Moved
<1>10. CheckToBeDestroyed([stacks EXCEPT ![t] = words])
  BY <1>3 DEF BackInRun
<1>11. called \in {CalledNone, CalledBegin, CalledFunc(t), CalledAll(t)}
  BY <1>2 DEF SwitchInv
<1> QED
  BY <1>1, <1>3, <1>5, <1>6, <1>7, <1>8, <1>9, <1>10, <1>11, OwnStepKeeps, Zenon

LEMMA SwitchInitInv == SwitchInit => SwitchInv
<1> SUFFICES ASSUME SwitchInit PROVE SwitchInv
  OBVIOUS
<1>1. Main \in Threads
  BY SwitchAssumption
<1>2. stacks \in [Threads -> Seq(Cells)] /\ Len(stacks[Main]) = 1
  <2>1. "host" \in Cells
    BY DEF Cells
  <2>2. <<"host">> \in Seq(Cells) /\ <<>> \in Seq(Cells) /\ Len(<<"host">>) = 1
    BY <2>1
  <2> QED  BY <1>1, <2>2 DEF SwitchInit
<1>3. cpu \in [Registers -> Cells]
  <2>1. "NULL" \in Cells
    BY DEF Cells
  <2> QED  BY <2>1 DEF SwitchInit, Nulls
<1>4. /\ currentThread = Main /\ esp = [of |-> Main, depth |-> 1] /\ pc = "main"
      /\ returning = FALSE /\ toBeDestroyed = {} /\ machine = 0 /\ user = 0
      /\ calls = [t \in Threads |-> CalledNone]
      /\ status = [t \in Threads |-> IF t = Main THEN "live" ELSE "new"]
  BY DEF SwitchInit, CalledNone
<1>5. /\ machineState = [t \in Threads |-> machineState[t]]
      /\ userRegisters = [t \in Threads |-> userRegisters[t]]
      /\ expect = [t \in Threads |-> expect[t]]
  BY DEF SwitchInit
<1>6. SwitchTypeOK
  <2>1. status \in [Threads -> {"new", "live", "finishing", "deleted"}]
    BY <1>4
  <2>2. calls = [t \in Threads |-> calls[t]]
    BY <1>4
  <2>3. esp = [of |-> currentThread, depth |-> esp.depth] /\ esp.depth = 1
    BY <1>4
  <2>4. 1 \in 1..Len(stacks[currentThread])
    <3>1. Len(stacks[currentThread]) = 1
      BY <1>2, <1>4
    <3> QED  BY <3>1
  <2> QED  BY <1>1, <1>2, <1>3, <1>4, <1>5, <2>1, <2>2, <2>3, <2>4, Zenon DEF SwitchTypeOK
<1>7. Frame(Main, pc, cpu, stacks[Main], 1, CalledNone)
  BY <1>4 DEF Frame
<1>8. UserKept
  BY <1>4 DEF UserKept
<1> QED  BY <1>1, <1>4, <1>6, <1>7, <1>8 DEF SwitchInv

(* A new thread is ready to start in ThreadRoot.                           *)
LEMMA ForkKeeps ==
    ASSUME SwitchInv, NEW t \in Threads, Fork(t) PROVE SwitchInv'
<1>1. /\ t # currentThread /\ t # Main /\ calls[t] = CalledNone
      /\ currentThread \in Threads /\ t \notin toBeDestroyed
  BY DEF SwitchInv, SwitchTypeOK, Fork
<1>2. PICK words \in Seq(Cells) : /\ words = StackAllocate(t).stack
                                  /\ Len(words) = 5 /\ words[5] = "ThreadRoot"
  <2>1. "safe" \in Cells /\ "ThreadRoot" \in Cells
    BY DEF Cells
  <2>2. StackAllocate(t).stack = <<"safe", "safe", "safe", "safe", "ThreadRoot">>
    BY DEF StackAllocate
  <2>3. /\ <<"safe", "safe", "safe", "safe", "ThreadRoot">> \in Seq(Cells)
        /\ Len(<<"safe", "safe", "safe", "safe", "ThreadRoot">>) = 5
        /\ <<"safe", "safe", "safe", "safe", "ThreadRoot">>[5] = "ThreadRoot"
    BY <2>1
  <2> QED  BY <2>2, <2>3, Zenon
<1>3. PICK regs \in [Registers -> Cells] :
          /\ regs = StackAllocate(t).state.regs
          /\ regs["ecx"] = "ThreadBegin" /\ regs["edx"] = Arg[t]
          /\ regs["esi"] = Func[t] /\ regs["edi"] = "ThreadFinish"
  <2>1. /\ "NULL" \in Cells /\ "ThreadBegin" \in Cells /\ Func[t] \in Cells
        /\ Arg[t] \in Cells /\ "ThreadFinish" \in Cells
    BY DEF Cells
  <2>2. {"ecx", "edx", "esi", "edi"} \subseteq Registers
    BY DEF Registers, Preserved, Scratch
  <2>3. StackAllocate(t).state.regs
            = [Nulls EXCEPT !["ecx"] = "ThreadBegin", !["esi"] = Func[t],
                            !["edx"] = Arg[t], !["edi"] = "ThreadFinish"]
    BY DEF StackAllocate
  <2>4. Nulls \in [Registers -> Cells]
    BY <2>1 DEF Nulls
  <2> QED  BY <2>1, <2>2, <2>3, <2>4, Zenon
<1>4. PICK saved : /\ saved = StackAllocate(t).state /\ saved.regs = regs
                   /\ saved.pc = "ThreadRoot"
                   /\ saved.esp = [of |-> t, depth |-> 5] /\ saved.esp.depth = 5
  BY <1>3 DEF StackAllocate
<1>5. SwitchedOut(t, saved, words, calls[t], expect[t])
  <2>1. Frame(t, saved.pc, saved.regs, words, 4, calls[t])
    BY <1>1, <1>3, <1>4 DEF Frame
  <2> QED  BY <1>2, <1>4, <2>1 DEF SwitchedOut
<1>6. /\ stacks' = [stacks EXCEPT ![t] = words] /\ stacks' \in [Threads -> Seq(Cells)]
      /\ stacks'[t] = words /\ \A u \in Threads \ {t} : stacks'[u] = stacks[u]
  BY <1>2 DEF Fork, SwitchInv, SwitchTypeOK
<1>7. /\ machineState' = [u \in Threads |-> machineState'[u]] /\ machineState'[t] = saved
      /\ \A u \in Threads \ {t} : machineState'[u] = machineState[u]
  BY <1>4, Zenon DEF Fork, SwitchInv, SwitchTypeOK
<1>8. /\ status' \in [Threads -> {"new", "live", "finishing", "deleted"}]
      /\ status'[t] = "live" /\ \A u \in Threads \ {t} : status'[u] = status[u]
  BY DEF Fork, SwitchInv, SwitchTypeOK
<1>9. UNCHANGED <<cpu, esp, pc, currentThread, toBeDestroyed, machine, userRegisters,
                  returning, calls, expect, user>>
  BY DEF Fork, ghosts
<1>10. SwitchTypeOK'
  BY <1>1, <1>6, <1>7, <1>8, <1>9, Zenon DEF SwitchInv, SwitchTypeOK
<1>11. ASSUME NEW u \in Threads, status'[u] = "live", u # currentThread
       PROVE  SwitchedOut(u, machineState'[u], stacks'[u], calls[u], expect[u])
  <2>1. CASE u = t
    BY <1>5, <1>6, <1>7, <2>1
  <2>2. CASE u # t
    BY <1>6, <1>7, <1>8, <1>11, <2>2 DEF SwitchInv
  <2> QED  BY <2>1, <2>2
<1>12. stacks'[currentThread] = stacks[currentThread] /\ status'[currentThread] = "live"
       /\ status'[Main] # "new"
  BY <1>1, <1>6, <1>8, SwitchAssumption, Zenon DEF SwitchInv
<1>13. UserKept'
  BY <1>9 DEF SwitchInv, UserKept
<1>14. \A u \in Threads : status'[u] = "new" => calls[u] = CalledNone
  BY <1>8 DEF SwitchInv
<1> QED  BY <1>9, <1>10, <1>11, <1>12, <1>13, <1>14, Zenon DEF SwitchInv

(* SWITCH stores the running thread, which can then be switched to.        *)
LEMMA OldIsOut ==
    ASSUME NEW t, NEW words \in Seq(Cells), NEW depth \in 1..Len(words),
           NEW called, NEW place \in Places, NEW regs \in [Registers -> Cells],
           Frame(t, place, regs, words, depth, called),
           NEW new \in Seq(Cells), Len(new) = depth + 3, new[depth + 3] = place,
           \A i \in 1..depth : new[i] = words[i],
           NEW saved, saved.regs = regs, saved.pc = place,
           saved.esp = [of |-> t, depth |-> depth + 3], saved.esp.depth = depth + 3,
           NEW was, \A r \in Preserved : was.regs[r] = regs[r], was.pc = place,
           was.stack = SubSeq(words, 1, depth)
    PROVE  SwitchedOut(t, saved, new, called, was)
<1>1. Frame(t, place, regs, new, depth, called)
  BY FrameAgrees, SMT
<1>2. Left(regs, place, new, depth, was)
  <2>1. depth \in Nat /\ depth <= Len(words) /\ depth <= Len(new)
    OBVIOUS
  <2>2. SubSeq(new, 1, depth) = SubSeq(words, 1, depth)
    BY <2>1, SubSeqAgrees, Zenon
  <2>3. Len(SubSeq(words, 1, depth)) = depth
    BY <2>1
  <2> QED  BY <2>2, <2>3 DEF Left
<1>3. place # "ThreadRoot"
  BY DEF Places
<1>4. depth + 3 \in 1..Len(new) /\ (depth + 3) - 3 = depth
  OBVIOUS
<1> QED  BY <1>1, <1>2, <1>3, <1>4 DEF SwitchedOut

(* SWITCH loads a thread that is switched out.  The word that its last     *)
(* store destroys is above what the thread left.                           *)
LEMMA NextIsBack ==
    ASSUME NEW t, NEW words \in Seq(Cells), NEW called, NEW place, NEW regs, NEW was,
           NEW d, Frame(t, place, regs, words, d, called), Left(regs, place, words, d, was),
           d + 3 <= Len(words),
           NEW new \in Seq(Cells), Len(new) = Len(words),
           \A i \in 1..Len(words) : i # d + 2 => new[i] = words[i]
    PROVE  Frame(t, place, regs, new, d, called) /\ Left(regs, place, new, d, was)
<1>1. d \in Nat
  BY FrameDepth
<1>2. /\ d <= Len(words) /\ d <= Len(new) /\ \A i \in 1..d : new[i] = words[i]
  BY <1>1
<1>3. Frame(t, place, regs, new, d, called)
  BY <1>2, FrameAgrees
<1>4. Left(regs, place, new, d, was)
  BY <1>1, <1>2, LeftAgrees, Zenon
<1> QED  BY <1>3, <1>4

(* Scheduler::Run up to the return of SWITCH in another thread.  What it   *)
(* does with the thread that calls it ...                                  *)
Leaves(t, n, new, after, was) ==
    /\ t = currentThread
    /\ Pushed(<<n, t, pc>>) = [stacks EXCEPT ![t] = new]
    /\ after = Saved(pc)
    /\ was = [regs |-> [r \in Preserved |-> cpu[r]], pc |-> pc,
              stack |-> SubSeq(Stack, 1, esp.depth)]
    /\ SwitchedOut(t, after, new, calls[t], was)

LEMMA RunLeaves ==
    ASSUME SwitchInv, NEW n \in Threads, NEW finishing \in BOOLEAN, Run(n, finishing)
    PROVE  \E t \in Threads, new \in Seq(Cells) :
              \E after, was : Leaves(t, n, new, after, was)
<1>1. PICK t \in Threads, words \in Seq(Cells), depth \in Nat, called \in Scripts :
          Running(t, words, depth, called)
  BY RunningFacts, Zenon DEF Run
<1>2. /\ t = currentThread /\ n # t /\ status[n] = "live" /\ status[t] = "live"
      /\ depth \in 1..Len(words) /\ cpu \in [Registers -> Cells]
      /\ Frame(t, pc, cpu, words, depth, called) /\ called = calls[t]
  BY <1>1, Zenon DEF Run, Running
<1>3. PICK place \in Places : place = pc
  BY Zenon DEF Run, InBody, Bodies, Framed, Places
<1>4. PICK a \in Cells, b \in Cells, c \in Cells : a = n /\ b = t /\ c = place
  BY DEF Cells
<1>5. PICK new : new = SubSeq(words, 1, depth) \o <<a, b, c>>
  BY Zenon
<1>6. /\ new \in Seq(Cells) /\ Len(new) = depth + 3 /\ new[depth + 3] = place
      /\ \A i \in 1..depth : new[i] = words[i]
  <2>1. <<a, b, c>> \in Seq(Cells) /\ Len(<<a, b, c>>) = 3 /\ <<a, b, c>>[3] = c
    OBVIOUS
  <2>2. PICK w \in Seq(Cells) : w = <<a, b, c>>
    BY <2>1, Zenon
  <2>3. depth \in 0..Len(words)
    BY <1>2
  <2>4. /\ new \in Seq(Cells) /\ Len(new) = depth + Len(w)
        /\ \A i \in 1..depth : new[i] = words[i]
        /\ \A i \in 1..Len(w) : new[depth + i] = w[i]
    <3>1. PICK k \in 0..Len(words) : k = depth
      BY <2>3
    <3>2. LET r == SubSeq(words, 1, k) \o w
          IN  /\ r \in Seq(Cells) /\ Len(r) = k + Len(w)
              /\ \A i \in 1..k : r[i] = words[i]
              /\ \A i \in 1..Len(w) : r[k + i] = w[i]
      BY PushFacts, SMTT(20)
    <3>3. new = SubSeq(words, 1, k) \o w
      BY <1>5, <2>2, <3>1, Zenon
    <3> QED  BY <3>1, <3>2, <3>3, Zenon
  <2>5. Len(w) = 3 /\ w[3] = place
    BY <1>4, <2>1, <2>2
  <2> QED  BY <2>4, <2>5
<1>7. PICK pushed : /\ pushed = [stacks EXCEPT ![t] = new]
                     /\ pushed = Pushed(<<n, t, pc>>)
  <2>1. esp.of = t /\ esp.depth = depth /\ stacks[t] = words
    BY <1>1 DEF Running
  <2>2. new = SubSeq(words, 1, depth) \o <<n, t, pc>>
    BY <1>3, <1>4, <1>5
  <2>3. Pushed(<<n, t, pc>>) = [stacks EXCEPT ![t] = SubSeq(stacks[t], 1, depth) \o <<n, t, pc>>]
    BY <2>1 DEF Pushed
  <2> QED  BY <2>1, <2>2, <2>3, Zenon
<1>8. PICK after : /\ after = Saved(pc) /\ after.regs = cpu /\ after.pc = place
                    /\ after.esp = [of |-> t, depth |-> depth + 3]
                    /\ after.esp.depth = depth + 3
  <2>1. Moved(3) = [of |-> t, depth |-> depth + 3]
    BY <1>1 DEF Moved, Running
  <2>2. /\ Saved(pc).regs = cpu /\ Saved(pc).pc = place
        /\ Saved(pc).esp = [of |-> t, depth |-> depth + 3]
    BY <1>3, <2>1 DEF Saved
  <2> QED  BY <2>2
<1>9. PICK kept : kept = [r \in Preserved |-> cpu[r]]
  BY Zenon
<1>10. PICK part : part = SubSeq(words, 1, depth)
  BY Zenon
<1>11. PICK was : was = [regs |-> kept, pc |-> place, stack |-> part]
  BY Zenon
<1>12. (\A r \in Preserved : was.regs[r] = cpu[r]) /\ was.pc = place /\ was.stack = part
  <2>1. \A r \in Preserved : kept[r] = cpu[r]
    BY <1>9
  <2>2. was.regs = kept /\ was.pc = place /\ was.stack = part
    BY <1>11
  <2> QED  BY <2>1, <2>2, Zenon
<1>13. SwitchedOut(t, after, new, called, was)
  <2>1. PICK regs \in [Registers -> Cells] : regs = cpu
    BY <1>2
  <2>2. Frame(t, place, regs, words, depth, called)
    BY <1>2, <1>3, <2>1
  <2>3. after.regs = regs /\ \A r \in Preserved : was.regs[r] = regs[r]
    BY <1>8, <1>12, <2>1, Zenon
  <2>4. /\ depth \in 1..Len(words) /\ new \in Seq(Cells) /\ Len(new) = depth + 3
        /\ new[depth + 3] = place /\ \A i \in 1..depth : new[i] = words[i]
    BY <1>2, <1>6, Zenon
  <2>5. /\ after.pc = place /\ after.esp = [of |-> t, depth |-> depth + 3]
        /\ after.esp.depth = depth + 3
    BY <1>8
  <2>6. was.pc = place /\ was.stack = SubSeq(words, 1, depth)
    BY <1>10, <1>12, Zenon
  <2> QED  BY <2>2, <2>3, <2>4, <2>5, <2>6, OldIsOut, ZenonT(60)
<1>14. Stack = words /\ esp.depth = depth
  BY <1>1 DEF Running, Stack
<1>15. Pushed(<<n, t, pc>>) = [stacks EXCEPT ![t] = new]
  BY <1>7
<1>16. was = [regs |-> [r \in Preserved |-> cpu[r]], pc |-> pc,
              stack |-> SubSeq(Stack, 1, esp.depth)]
  BY <1>3, <1>9, <1>10, <1>11, <1>14, Zenon
<1>17. after = Saved(pc) /\ SwitchedOut(t, after, new, calls[t], was)
  BY <1>2, <1>8, <1>13, Zenon
<1> QED  BY <1>2, <1>6, <1>15, <1>16, <1>17, Zenon DEF Leaves

(* ... and what with the one that it switches to.                          *)
Enters(n, saved, others, stored, top) ==
    /\ saved = machineState[n] /\ others = stacks[n]
    /\ saved.esp.of = n /\ saved.esp.depth = top /\ saved.regs \in [Registers -> Cells]
    /\ others[top] = saved.pc
    /\ stored = [others EXCEPT ![top - 1] = saved.pc]
    /\ top - 1 \in 1..Len(stored)
    /\ IF saved.pc = "ThreadRoot"
       THEN top = 5 /\ n # Main /\ Frame(n, saved.pc, saved.regs, stored, 4, calls[n])
       ELSE /\ saved.pc \in Places
            /\ Frame(n, saved.pc, saved.regs, stored, top - 3, calls[n])
            /\ Left(saved.regs, saved.pc, stored, top - 3, expect[n])

LEMMA RunEnters ==
    ASSUME SwitchInv, NEW n \in Threads, NEW finishing \in BOOLEAN, Run(n, finishing)
    PROVE  \E others \in Seq(Cells), stored \in Seq(Cells), top \in Nat :
              \E saved : Enters(n, saved, others, stored, top)
<1>1. n # currentThread /\ status[n] = "live"
  BY Zenon DEF Run
<1>2. PICK saved : saved = machineState[n]
  OBVIOUS
<1>3. PICK others \in Seq(Cells) : others = stacks[n]
  BY DEF SwitchInv, SwitchTypeOK
<1>4. SwitchedOut(n, saved, others, calls[n], expect[n])
  BY <1>1, <1>2, <1>3 DEF SwitchInv
<1>5. PICK top \in Nat : /\ top = saved.esp.depth /\ top \in 1..Len(others)
                          /\ saved.esp.of = n /\ saved.regs \in [Registers -> Cells]
                          /\ others[top] = saved.pc /\ saved.pc \in Places \cup {"ThreadRoot"}
  <2>1. /\ saved.esp.depth \in 1..Len(others) /\ saved.esp = [of |-> n, depth |-> saved.esp.depth]
        /\ others[saved.esp.depth] = saved.pc /\ saved.pc \in Places \cup {"ThreadRoot"}
        /\ saved.regs \in [Registers -> Cells]
    BY <1>4 DEF SwitchedOut
  <2>2. saved.esp.of = n /\ saved.esp.depth \in Nat
    BY <2>1
  <2> QED  BY <2>1, <2>2
<1>6. top >= 4
  <2>1. CASE saved.pc = "ThreadRoot"
    <3>1. top = 5
      BY <1>4, <1>5, <2>1, Zenon DEF SwitchedOut
    <3> QED  BY <3>1
  <2>2. CASE saved.pc # "ThreadRoot"
    <3>1. Frame(n, saved.pc, saved.regs, others, top - 3, calls[n])
      BY <1>4, <1>5, <2>2 DEF SwitchedOut
    <3>2. top - 3 \in {1, 4, 5, 6, 7, 11}
      BY <3>1, FrameDepth
    <3> QED  BY <3>2
  <2> QED  BY <2>1, <2>2
<1>7. PICK stored \in Seq(Cells) :
           /\ stored = [others EXCEPT ![top - 1] = saved.pc]
           /\ Len(stored) = Len(others)
           /\ \A i \in 1..Len(others) : i # top - 1 => stored[i] = others[i]
  <2>1. top - 1 \in 1..Len(others)
    BY <1>5, <1>6
  <2>2. saved.pc \in Cells
    BY <1>5 DEF Cells
  <2>3. PICK k \in 1..Len(others), x \in Cells : k = top - 1 /\ x = saved.pc
    BY <2>1, <2>2
  <2>4. /\ [others EXCEPT ![k] = x] \in Seq(Cells)
        /\ Len([others EXCEPT ![k] = x]) = Len(others)
        /\ \A i \in 1..Len(others) : i # k => [others EXCEPT ![k] = x][i] = others[i]
    BY StoreFacts
  <2> QED  BY <2>3, <2>4, Zenon
<1>8. IF saved.pc = "ThreadRoot"
       THEN top = 5 /\ n # Main /\ Frame(n, saved.pc, saved.regs, stored, 4, calls[n])
       ELSE /\ saved.pc \in Places
            /\ Frame(n, saved.pc, saved.regs, stored, top - 3, calls[n])
            /\ Left(saved.regs, saved.pc, stored, top - 3, expect[n])
  <2>1. CASE saved.pc = "ThreadRoot"
    BY <1>4, <1>5, <2>1, Zenon DEF SwitchedOut, Frame
  <2>2. CASE saved.pc # "ThreadRoot"
    <3>1. PICK d : d = top - 3 /\ d + 3 = top /\ d + 2 = top - 1
      BY <1>6
    <3>2. /\ Frame(n, saved.pc, saved.regs, others, d, calls[n])
          /\ Left(saved.regs, saved.pc, others, d, expect[n])
      BY <1>4, <1>5, <2>2, <3>1 DEF SwitchedOut
    <3>3. /\ d + 3 <= Len(others) /\ Len(stored) = Len(others)
          /\ \A i \in 1..Len(others) : i # d + 2 => stored[i] = others[i]
      BY <1>5, <1>7, <3>1
    <3>4. /\ Frame(n, saved.pc, saved.regs, stored, d, calls[n])
          /\ Left(saved.regs, saved.pc, stored, d, expect[n])
      BY <3>2, <3>3, NextIsBack
    <3> QED  BY <1>5, <2>2, <3>1, <3>4, Zenon
  <2> QED  BY <2>1, <2>2
<1>9. /\ saved.esp.depth = top /\ top - 1 \in 1..Len(stored)
      /\ stored = [others EXCEPT ![top - 1] = saved.pc]
  BY <1>5, <1>6, <1>7
<1> QED  BY <1>2, <1>3, <1>5, <1>8, <1>9, Zenon DEF Enters

LEMMA RunKeeps ==
    ASSUME SwitchInv, NEW n \in Threads, NEW finishing \in BOOLEAN, Run(n, finishing)
    PROVE  SwitchInv'
<1>1. PICK t \in Threads, new \in Seq(Cells) : \E after, was : Leaves(t, n, new, after, was)
  BY RunLeaves
<1>2. PICK after, was : Leaves(t, n, new, after, was)
  BY <1>1
<1>3. PICK others \in Seq(Cells), stored \in Seq(Cells), top \in Nat :
          \E saved : Enters(n, saved, others, stored, top)
  BY RunEnters
<1>4. PICK saved : Enters(n, saved, others, stored, top)
  BY <1>3
<1>5. /\ t = currentThread /\ n # t /\ after = Saved(pc)
      /\ status[n] = "live" /\ status[t] = "live"
  BY <1>2, Zenon DEF Run, SwitchInv, Leaves
<1>6. /\ saved = machineState[n] /\ saved.esp.of = n /\ saved.esp.depth = top
      /\ saved.regs \in [Registers -> Cells]
  BY <1>4, Zenon DEF Enters
<1>7. others = stacks[n] /\ others[top] = saved.pc
  BY <1>4, Zenon DEF Enters
<1>8. stored = [others EXCEPT ![top - 1] = saved.pc]
  BY <1>4, Zenon DEF Enters
<1>9. SwitchedOut(t, after, new, calls[t], was) /\ top - 1 \in 1..Len(stored)
  BY <1>2, <1>4, Zenon DEF Enters, Leaves
<1>10. IF saved.pc = "ThreadRoot"
      THEN top = 5 /\ n # Main /\ Frame(n, saved.pc, saved.regs, stored, 4, calls[n])
      ELSE /\ saved.pc \in Places
           /\ Frame(n, saved.pc, saved.regs, stored, top - 3, calls[n])
           /\ Left(saved.regs, saved.pc, stored, top - 3, expect[n])
  BY <1>4, Zenon DEF Enters
<1>11. /\ machineState' = [machineState EXCEPT ![t] = after]
       /\ machineState' = [u \in Threads |-> machineState'[u]]
       /\ machineState'[t] = after
       /\ \A u \in Threads \ {t} : machineState'[u] = machineState[u]
  BY <1>5, Zenon DEF Run, SwitchInv, SwitchTypeOK
<1>12. PICK pushed : /\ pushed = [stacks EXCEPT ![t] = new]
                     /\ pushed = Pushed(<<n, t, pc>>)
  BY <1>2 DEF Leaves
<1>13. /\ stacks' = [pushed EXCEPT ![n][top - 1] = saved.pc]
       /\ pc' = pushed[n][top]
       /\ cpu' = saved.regs /\ esp' = [of |-> n, depth |-> top - 1]
       /\ returning' = (pc' # "ThreadRoot")
  BY <1>5, <1>6, <1>12, Zenon DEF Run, SwitchInv, SwitchTypeOK
<1>14. /\ stacks' \in [Threads -> Seq(Cells)]
       /\ stacks'[t] = new /\ stacks'[n] = stored
       /\ \A u \in Threads \ {t, n} : stacks'[u] = stacks[u]
       /\ pc' = saved.pc
  <2>1. /\ pushed \in [Threads -> Seq(Cells)] /\ pushed[t] = new /\ pushed[n] = others
        /\ \A u \in Threads \ {t} : pushed[u] = stacks[u]
    BY <1>5, <1>7, <1>12, Zenon DEF SwitchInv, SwitchTypeOK
  <2>2. stacks' = [pushed EXCEPT ![n] = stored]
    BY <1>8, <1>13, <2>1, Zenon
  <2>3. /\ stacks' \in [Threads -> Seq(Cells)] /\ stacks'[t] = new /\ stacks'[n] = stored
        /\ \A u \in Threads \ {n} : stacks'[u] = pushed[u]
    BY <1>5, <2>1, <2>2
  <2>4. pc' = saved.pc
    BY <1>7, <1>13, <2>1
  <2> QED  BY <2>1, <2>3, <2>4
<1>15. /\ status' = IF finishing THEN [status EXCEPT ![t] = "finishing"] ELSE status
       /\ toBeDestroyed' = IF finishing THEN {t} ELSE toBeDestroyed
       /\ currentThread' = n /\ UNCHANGED <<machine, calls, user>>
       /\ userRegisters' = SaveUserState(t)
  BY <1>5, Zenon DEF Run
<1>16. /\ status' \in [Threads -> {"new", "live", "finishing", "deleted"}]
       /\ status'[n] = "live" /\ status'[Main] # "new"
       /\ \A u \in Threads : status'[u] \in {"new", "live"} => status'[u] = status[u]
       /\ toBeDestroyed' \subseteq {u \in Threads : status'[u] = "finishing"}
  <2>1. CASE finishing = TRUE
    BY <1>5, <1>15, <2>1, SwitchAssumption DEF SwitchInv, SwitchTypeOK
  <2>2. CASE finishing = FALSE
    BY <1>5, <1>15, <2>2, SwitchAssumption DEF SwitchInv, SwitchTypeOK
  <2> QED  BY <2>1, <2>2, Zenon
<1>17. /\ expect' = [u \in Threads |-> expect'[u]] /\ expect'[t] = was
       /\ \A u \in Threads \ {t} : expect'[u] = expect[u]
  <2>1. expect' = [expect EXCEPT ![t] = was]
    <3>1. expect' = [expect EXCEPT ![currentThread] =
                        [regs |-> [r \in Preserved |-> cpu[r]], pc |-> pc,
                         stack |-> SubSeq(Stack, 1, esp.depth)]]
      BY Zenon DEF Run
    <3>2. /\ currentThread = t
          /\ was = [regs |-> [r \in Preserved |-> cpu[r]], pc |-> pc,
                    stack |-> SubSeq(Stack, 1, esp.depth)]
      BY <1>2, Zenon DEF Leaves
    <3> QED  BY <3>1, <3>2, Zenon
  <2> QED  BY <2>1, Zenon DEF SwitchInv, SwitchTypeOK
<1>18. /\ cpu' \in [Registers -> Cells] /\ esp'.depth \in 1..Len(stored)
       /\ esp' = [of |-> n, depth |-> esp'.depth] /\ esp'.depth = top - 1
  BY <1>6, <1>9, <1>13
<1>19. userRegisters' = [u \in Threads |-> userRegisters'[u]] /\ UserKept'
  <2>1. n = Main => returning' = TRUE
    BY <1>10, <1>13, <1>14, Zenon
  <2>2. CASE t = Main
    <3>1. machine = user /\ currentThread' # Main
      BY <1>5, <1>15, <2>2, Zenon DEF SwitchInv, UserKept, Run
    <3>2. userRegisters' = [userRegisters EXCEPT ![Main] = machine]
      BY <1>15, <2>2 DEF SaveUserState
    <3> QED  BY <1>15, <2>2, <3>1, <3>2 DEF SwitchInv, SwitchTypeOK, UserKept
  <2>3. CASE t # Main
    <3>1. userRegisters[Main] = user /\ userRegisters' = userRegisters
      BY <1>5, <1>15, <2>3, Zenon DEF SwitchInv, UserKept, SaveUserState
    <3> QED  BY <1>15, <2>1, <3>1 DEF SwitchInv, SwitchTypeOK, UserKept
  <2> QED  BY <2>2, <2>3
<1>20. returning' \in BOOLEAN
  BY <1>13
<1>21. SwitchTypeOK'
  BY <1>11, <1>14, <1>15, <1>16, <1>17, <1>18, <1>19, <1>20 DEF SwitchInv, SwitchTypeOK
<1>22. ASSUME NEW u \in Threads, status'[u] = "live", u # n
       PROVE  SwitchedOut(u, machineState'[u], stacks'[u], calls[u], expect'[u])
  <2>1. CASE u = t
    BY <1>9, <1>11, <1>14, <1>17, <2>1
  <2>2. CASE u # t
    <3>1. status[u] = "live" /\ u # currentThread
      BY <1>5, <1>16, <1>22, <2>2
    <3>2. SwitchedOut(u, machineState[u], stacks[u], calls[u], expect[u])
      BY <3>1, Zenon DEF SwitchInv
    <3> QED  BY <1>11, <1>14, <1>17, <1>22, <2>2, <3>2
  <2> QED  BY <2>1, <2>2, Zenon
<1>23. returning' = FALSE => Frame(n, pc', cpu', stored, esp'.depth, calls[n])
  <2> SUFFICES ASSUME returning' = FALSE
               PROVE  Frame(n, pc', cpu', stored, esp'.depth, calls[n])
    BY Zenon
  <2>1. saved.pc = "ThreadRoot"
    BY <1>13, <1>14, Zenon
  <2>2. esp'.depth = 4 /\ Frame(n, saved.pc, saved.regs, stored, 4, calls[n])
    BY <1>10, <1>18, <2>1
  <2> QED  BY <1>13, <1>14, <2>2
<1>24. returning' = TRUE => /\ pc' \in Places
                            /\ Frame(n, pc', cpu', stored, esp'.depth - 2, calls[n])
                            /\ Left(cpu', pc', stored, esp'.depth - 2, expect'[n])
  <2>1. ASSUME returning' = TRUE PROVE saved.pc # "ThreadRoot"
    BY <1>13, <1>14, <2>1, Zenon
  <2>2. esp'.depth - 2 = top - 3 /\ expect'[n] = expect[n]
    BY <1>5, <1>17, <1>18
  <2> QED  BY <1>10, <1>13, <1>14, <2>1, <2>2, Zenon
<1>25. \A u \in Threads : status'[u] = "new" => calls[u] = CalledNone
  BY <1>16, Zenon DEF SwitchInv
<1> QED
  BY <1>14, <1>15, <1>16, <1>19, <1>20, <1>21, <1>22, <1>23, <1>24, <1>25 DEF SwitchInv

(* Every step keeps the invariant.                                         *)
LEMMA SwitchNextInv == SwitchInv /\ [SwitchNext]_switchVars => SwitchInv'
<1>1. ASSUME SwitchInv, SwitchNext PROVE SwitchInv'
  BY <1>1, ForkKeeps, PrologueKeeps, EpilogueKeeps, UserStepKeeps, CallStartupKeeps,
     CallInitialKeeps, CallWhenDoneKeeps, ReturnKeeps, RunKeeps, BackInRunKeeps
     DEF SwitchNext
<1>2. ASSUME SwitchInv, UNCHANGED switchVars PROVE SwitchInv'
  BY <1>2 DEF SwitchInv, SwitchTypeOK, UserKept, switchVars, host, ghosts
<1> QED  BY <1>1, <1>2

(* A thread that SWITCH returns to finds its registers, its place and its  *)
(* stack as it left them, and the user program its registers, for any      *)
(* number of threads and whichever of them run in between.                 *)
THEOREM SwitchResumes == SwitchSpec => []ResumesUnchanged
<1>1. ASSUME SwitchInv PROVE ResumesUnchanged
  <2>1. ASSUME returning
        PROVE  LET was == expect[currentThread]
               IN  /\ \A r \in Preserved : cpu[r] = was.regs[r]
                   /\ pc = was.pc
                   /\ esp = [of |-> currentThread, depth |-> Len(was.stack) + 2]
                   /\ SubSeq(Stack, 1, Len(was.stack)) = was.stack
    <3>1. Left(cpu, pc, stacks[currentThread], esp.depth - 2, expect[currentThread])
      BY <1>1, <2>1, Zenon DEF SwitchInv
    <3>2. PICK depth \in Nat : depth = esp.depth /\ esp = [of |-> currentThread, depth |-> depth]
      BY <1>1 DEF SwitchInv, SwitchTypeOK
    <3>3. depth - 2 = Len(expect[currentThread].stack)
      BY <3>1, <3>2, Zenon DEF Left
    <3>4. PICK kept : kept = Len(expect[currentThread].stack)
      BY Zenon
    <3>5. depth = kept + 2
      BY <3>3, <3>4
    <3>6. Stack = stacks[currentThread]
      BY <3>2 DEF Stack
    <3>7. SubSeq(stacks[currentThread], 1, kept) = expect[currentThread].stack
      BY <3>1, <3>2, <3>3, <3>4, Zenon DEF Left
    <3>8. (\A r \in Preserved : cpu[r] = expect[currentThread].regs[r]) /\ pc = expect[currentThread].pc
      BY <3>1, Zenon DEF Left
    <3> QED  BY <3>2, <3>4, <3>5, <3>6, <3>7, <3>8
  <2>2. currentThread = Main /\ ~ returning => machine = user
    BY <1>1, Zenon DEF SwitchInv, UserKept
  <2> QED  BY <2>1, <2>2 DEF ResumesUnchanged
<1> QED  BY <1>1, SwitchInitInv, SwitchNextInv, PTL DEF SwitchSpec

(* What ThreadRoot has called is a prefix of the three calls.              *)
LEMMA CalledInOrder ==
    ASSUME NEW t, NEW called \in {CalledNone, CalledBegin, CalledFunc(t), CalledAll(t)}
    PROVE  called = SubSeq(CalledAll(t), 1, Len(called))
<1>1. PICK a, b, c : a = <<"ThreadBegin">> /\ b = <<Func[t], Arg[t]>> /\ c = <<"ThreadFinish">>
  BY Zenon
<1>2. PICK C : a \in C /\ b \in C /\ c \in C
  <2>1. a \in {a, b, c} /\ b \in {a, b, c} /\ c \in {a, b, c}
    OBVIOUS
  <2> QED  BY <2>1, Zenon
<1>3. PICK all \in Seq(C) : all = CalledAll(t) /\ Len(all) = 3
                            /\ all[1] = a /\ all[2] = b /\ all[3] = c
  <2>1. <<a, b, c>> \in Seq(C) /\ Len(<<a, b, c>>) = 3
        /\ <<a, b, c>>[1] = a /\ <<a, b, c>>[2] = b /\ <<a, b, c>>[3] = c
    BY <1>2
  <2>2. <<a, b, c>> = CalledAll(t)
    BY <1>1 DEF CalledAll
  <2> QED  BY <2>1, <2>2
<1>4. /\ called \in Seq(C) /\ Len(called) \in 0..3
      /\ \A i \in 1..Len(called) : called[i] = all[i]
  <2>1. CASE called = CalledNone
    <3>1. <<>> \in Seq(C) /\ Len(<<>>) = 0
      OBVIOUS
    <3> QED  BY <2>1, <3>1 DEF CalledNone
  <2>2. CASE called = CalledBegin
    <3>1. <<a>> \in Seq(C) /\ Len(<<a>>) = 1 /\ <<a>>[1] = a
      BY <1>2
    <3>2. called = <<a>>
      BY <1>1, <2>2 DEF CalledBegin
    <3> QED  BY <1>3, <3>1, <3>2
  <2>3. CASE called = CalledFunc(t)
    <3>1. <<a, b>> \in Seq(C) /\ Len(<<a, b>>) = 2 /\ <<a, b>>[1] = a /\ <<a, b>>[2] = b
      BY <1>2
    <3>2. called = <<a, b>>
      BY <1>1, <2>3 DEF CalledFunc
    <3> QED  BY <1>3, <3>1, <3>2
  <2>4. CASE called = CalledAll(t)
    BY <1>3, <2>4
  <2> QED  BY <2>1, <2>2, <2>3, <2>4
<1>5. PICK k \in 0..3 : k = Len(called)
  BY <1>4
<1>6. /\ SubSeq(all, 1, k) \in Seq(C) /\ Len(SubSeq(all, 1, k)) = k
      /\ \A i \in 1..k : SubSeq(all, 1, k)[i] = all[i]
  BY <1>3
<1>7. called = SubSeq(all, 1, k)
  BY <1>4, <1>5, <1>6, SeqEqual
<1> QED  BY <1>3, <1>5, <1>7

(* A forked thread calls ThreadBegin, its function on its argument and     *)
(* ThreadFinish, in this order and once each, and runs on its own stack,   *)
(* for any number of threads.                                              *)
THEOREM ThreadRunsFunction == SwitchSpec => []RunsItsFunction
<1>1. ASSUME SwitchInv PROVE RunsItsFunction
  <2>1. \A t \in Threads : calls[t] = SubSeq(CalledAll(t), 1, Len(calls[t]))
    BY <1>1, CalledInOrder, Zenon DEF SwitchInv
  <2>2. esp.of = currentThread /\ status[currentThread] = "live"
    BY <1>1 DEF SwitchInv, SwitchTypeOK
  <2> QED  BY <2>1, <2>2 DEF RunsItsFunction, CalledAll
<1> QED  BY <1>1, SwitchInitInv, SwitchNextInv, PTL DEF SwitchSpec

=============================================================================
