-------------------------- MODULE PostOfficeProofs --------------------------
(***************************************************************************)
(* The post office, for any machines, boxes, threads, programs and         *)
(* reliability, also when machines are stopped and started.                *)
(*                                                                         *)
(* PostOfficeOutput sends one packet at a time.  OneSendAtATime is not     *)
(* inductive: nothing in it keeps a thread without the lock from waiting   *)
(* for the interrupt.  SendInv adds that a thread inside                   *)
(* PostOfficeOutput::Send runs on a machine that is up and holds the lock  *)
(* of that machine, and only such a thread does.                           *)
(*                                                                         *)
(* Mail is delivered in order and exactly once.  MailKept is not inductive *)
(* either: that the worker finds a packet in the buffer rests on what the  *)
(* semaphore counts.  MailInv adds this, and splits what went to a machine *)
(* into the packets that have been put into boxes and those on their way.  *)
(* What ForBox selects of a sequence is shown by induction on its length.  *)
(***************************************************************************)
EXTENDS PostOffice, WellFoundedInduction, TLAPS

Places == {"calls", "sends", "transmits", "sent", "releases"}
Awaits == {"transmits", "sent"}

SendTypeOK ==
    /\ pc \in [Threads -> Places]
    /\ up \in [Machines -> BOOLEAN]
    /\ sendLock \in [Machines -> Threads \cup {None}]
    /\ sendInt \in [Machines -> Nat]
    /\ messageSent \in [Machines -> Nat]

SenderHasLock ==
    /\ \A t \in Threads : pc[t] # "calls" => sendLock[Host(t)] = t /\ up[Host(t)] = TRUE
    /\ \A m \in Machines : sendLock[m] # None =>
          Host(sendLock[m]) = m /\ pc[sendLock[m]] # "calls"

InterruptOfHolder ==
    \A m \in Machines :
        sendInt[m] + messageSent[m] =
            IF sendLock[m] # None /\ pc[sendLock[m]] \in Awaits THEN 1 ELSE 0

SendInv == SendTypeOK /\ SenderHasLock /\ InterruptOfHolder

(* At first no machine sends.                                              *)
LEMMA SendInitInv == Init => SendInv
  BY PostOfficeAssumption
  DEF Init, SendInv, SendTypeOK, SenderHasLock, InterruptOfHolder, Places, Awaits, None

(* The constructors: a machine that is not up has no thread inside Send.   *)
LEMMA StartKeeps ==
    ASSUME SendInv, NEW m \in Machines, Start(m) PROVE SendInv'
<1> USE PostOfficeAssumption DEF SendInv, SendTypeOK
<1>1. /\ pc' = pc /\ up[m] # TRUE /\ up' = [up EXCEPT ![m] = TRUE]
      /\ sendLock' = [sendLock EXCEPT ![m] = None]
      /\ sendInt' = [sendInt EXCEPT ![m] = 0]
      /\ messageSent' = [messageSent EXCEPT ![m] = 0]
  BY DEF Start, NewPostOfficeInput, NewNetworkInput, AssignNameToSocket,
         NewPostOfficeOutput, NewNetworkOutput, threads
<1>2. SendTypeOK'
  BY <1>1
<1>3. \A t \in Threads : Host(t) = m => pc[t] = "calls"
  BY <1>1 DEF SenderHasLock
<1>4. SenderHasLock'
  BY <1>1, <1>3 DEF SenderHasLock
<1>5. InterruptOfHolder'
  BY <1>1 DEF InterruptOfHolder
<1> QED  BY <1>2, <1>4, <1>5

(* The destructors: the threads of the machine are gone, with its lock,    *)
(* its interrupts and its semaphores.                                      *)
LEMMA StopKeeps ==
    ASSUME SendInv, NEW m \in Machines, Stop(m) PROVE SendInv'
<1> USE PostOfficeAssumption DEF SendInv, SendTypeOK
<1>1. /\ pc' = [t \in Threads |-> IF Host(t) = m THEN "calls" ELSE pc[t]]
      /\ up' = [up EXCEPT ![m] = FALSE]
      /\ sendLock' = [sendLock EXCEPT ![m] = None]
      /\ sendInt' = [sendInt EXCEPT ![m] = 0]
      /\ messageSent' = [messageSent EXCEPT ![m] = 0]
  BY DEF Stop, DeletePostOfficeInput, DeleteNetworkInput, DeAssignNameToSocket,
         DeletePostOfficeOutput, NewPostOfficeOutput, NewNetworkOutput
<1>2. SendTypeOK'
  BY <1>1 DEF Places
<1>3. \A t \in Threads : Host(t) # m => pc'[t] = pc[t]
  BY <1>1
<1>4. \A n \in Machines : sendLock'[n] # None =>
          /\ n # m /\ sendLock'[n] = sendLock[n] /\ Host(sendLock[n]) = n
          /\ sendLock[n] \in Threads /\ pc'[sendLock[n]] = pc[sendLock[n]]
  BY <1>1 DEF SenderHasLock
<1>5. SenderHasLock'
  <2>1. ASSUME NEW t \in Threads, pc'[t] # "calls"
        PROVE  sendLock'[Host(t)] = t /\ up'[Host(t)] = TRUE
    <3>1. Host(t) # m /\ pc[t] # "calls"
      BY <1>1, <2>1
    <3>2. sendLock[Host(t)] = t /\ up[Host(t)] = TRUE /\ Host(t) \in Machines
      BY <3>1 DEF SenderHasLock
    <3> QED  BY <1>1, <3>1, <3>2
  <2>2. ASSUME NEW n \in Machines, sendLock'[n] # None
        PROVE  Host(sendLock'[n]) = n /\ pc'[sendLock'[n]] # "calls"
    BY <1>4, <2>2 DEF SenderHasLock
  <2> QED  BY <2>1, <2>2 DEF SenderHasLock
<1>6. InterruptOfHolder'
  <2> SUFFICES ASSUME NEW n \in Machines
               PROVE  sendInt'[n] + messageSent'[n] =
                         IF sendLock'[n] # None /\ pc'[sendLock'[n]] \in Awaits
                         THEN 1 ELSE 0
    BY DEF InterruptOfHolder
  <2>1. CASE n = m
    BY <1>1, <2>1
  <2>2. CASE n # m
    <3>1. sendInt'[n] = sendInt[n] /\ messageSent'[n] = messageSent[n]
          /\ sendLock'[n] = sendLock[n]
      BY <1>1, <2>2
    <3> QED  BY <1>4, <3>1 DEF InterruptOfHolder
  <2> QED  BY <2>1, <2>2
<1> QED  BY <1>2, <1>5, <1>6

(* A thread inside Send only moves: what it changes is its own place and   *)
(* what belongs to its machine, so that nothing but its machine has to be  *)
(* looked at.                                                              *)
LEMMA SenderMoves ==
    ASSUME SendInv, NEW t \in Threads,
           pc[t] # "calls" \/ (sendLock[Host(t)] = None /\ up[Host(t)] = TRUE),
           pc' = [pc EXCEPT ![t] = pc'[t]], pc'[t] \in Places \ {"calls"}, up' = up,
           sendLock' = [sendLock EXCEPT ![Host(t)] = t],
           sendInt' = [sendInt EXCEPT ![Host(t)] = sendInt'[Host(t)]],
           messageSent' = [messageSent EXCEPT ![Host(t)] = messageSent'[Host(t)]],
           sendInt'[Host(t)] \in Nat, messageSent'[Host(t)] \in Nat,
           sendInt'[Host(t)] + messageSent'[Host(t)] =
               IF pc'[t] \in Awaits THEN 1 ELSE 0
    PROVE  SendInv'
<1> USE PostOfficeAssumption DEF SendInv, SendTypeOK
<1>1. SendTypeOK'
  OBVIOUS
<1>2. \A n \in Machines : n # Host(t) /\ sendLock[n] # None =>
          /\ sendLock'[n] = sendLock[n] /\ sendLock[n] \in Threads
          /\ sendLock[n] # t /\ pc'[sendLock[n]] = pc[sendLock[n]]
  BY DEF SenderHasLock
<1>3. \A u \in Threads \ {t} : pc[u] # "calls" => Host(u) # Host(t)
  BY DEF SenderHasLock
<1>4. SenderHasLock'
  BY <1>2, <1>3 DEF SenderHasLock
<1>5. InterruptOfHolder'
  BY <1>2 DEF InterruptOfHolder
<1> QED  BY <1>1, <1>4, <1>5

(* Every step: the steps of Send by the lemma above, the interrupt, and    *)
(* everything else, which leaves the sender's side alone.                  *)
THEOREM SendNextInv == SendInv /\ [Next]_vars => SendInv'
<1> SUFFICES ASSUME SendInv, [Next]_vars PROVE SendInv'
  OBVIOUS
<1> USE PostOfficeAssumption
<1>1. ASSUME UNCHANGED <<pc, up, sendLock, sendInt, messageSent>> PROVE SendInv'
  BY <1>1 DEF SendInv, SendTypeOK, SenderHasLock, InterruptOfHolder
<1>2. ASSUME NEW t \in Threads, ThreadStep(t) PROVE SendInv'
  <2> DEFINE m == Host(t)
  <2>1. m \in Machines /\ pc \in [Threads -> Places] /\ sendInt[m] \in Nat
        /\ messageSent[m] \in Nat /\ up[m] \in BOOLEAN
        /\ sendLock \in [Machines -> Threads \cup {None}]
        /\ sendInt \in [Machines -> Nat] /\ messageSent \in [Machines -> Nat]
    BY DEF SendInv, SendTypeOK
  <2>2. pc[t] # "calls" => /\ sendLock[m] = t /\ sendLock[m] # None
                           /\ sendInt[m] + messageSent[m] =
                                 IF pc[t] \in Awaits THEN 1 ELSE 0
    BY <2>1 DEF SendInv, SenderHasLock, InterruptOfHolder
  <2>3. sendLock[m] = None => sendInt[m] + messageSent[m] = 0
    BY <2>1 DEF SendInv, InterruptOfHolder
  <2>4. CASE Send(t)
    <3>1. up[m] = TRUE /\ sendLock[m] = None /\ up' = up
          /\ pc' = [pc EXCEPT ![t] = "sends"] /\ sendLock' = [sendLock EXCEPT ![m] = t]
          /\ sendInt' = sendInt /\ messageSent' = messageSent
      BY <2>1, <2>4 DEF Send, Runs
    <3>2. pc'[t] = "sends" /\ pc' = [pc EXCEPT ![t] = pc'[t]]
          /\ sendInt' = [sendInt EXCEPT ![m] = sendInt'[m]]
          /\ messageSent' = [messageSent EXCEPT ![m] = messageSent'[m]]
          /\ sendInt'[m] \in Nat /\ messageSent'[m] \in Nat
          /\ sendInt'[m] + messageSent'[m] = 0
      BY <2>1, <2>3, <3>1
    <3> QED  BY <3>1, <3>2, SenderMoves DEF Places, Awaits
  <2>5. ASSUME NEW r \in {0, 50, 99}, NetworkSend(t, r) PROVE SendInv'
    <3>1. PICK p \in Awaits : pc' = [pc EXCEPT ![t] = p]
      BY <2>5 DEF NetworkSend, Awaits
    <3>2. pc[t] = "sends" /\ up' = up /\ sendLock' = sendLock
          /\ sendInt' = [sendInt EXCEPT ![m] = sendInt[m] + 1]
          /\ messageSent' = messageSent
      BY <2>5 DEF NetworkSend
    <3>3. sendLock' = [sendLock EXCEPT ![m] = t]
          /\ sendInt' = [sendInt EXCEPT ![m] = sendInt'[m]]
          /\ messageSent' = [messageSent EXCEPT ![m] = messageSent'[m]]
          /\ sendInt'[m] \in Nat /\ messageSent'[m] \in Nat
          /\ sendInt'[m] + messageSent'[m] = 1
      BY <2>1, <2>2, <3>2 DEF Awaits
    <3>4. pc'[t] \in Awaits /\ pc' = [pc EXCEPT ![t] = pc'[t]]
      BY <2>1, <3>1
    <3>5. pc'[t] \in Places \ {"calls"}
      BY <3>4 DEF Places, Awaits
    <3>6. sendInt'[m] + messageSent'[m] = IF pc'[t] \in Awaits THEN 1 ELSE 0
      BY <3>3, <3>4
    <3>7. pc[t] # "calls" /\ up' = up
      BY <3>2
    <3> QED  BY <3>3, <3>4, <3>5, <3>6, <3>7, SenderMoves
  <2>6. CASE Transmit(t) \/ TransmitFails(t)
    <3>1. pc[t] = "transmits" /\ up' = up /\ UNCHANGED output
          /\ (pc' = pc \/ pc' = [pc EXCEPT ![t] = "sent"])
      BY <2>6 DEF Transmit, TransmitFails
    <3>2. CASE pc' = pc
      BY <1>1, <3>1, <3>2 DEF output
    <3>3. CASE pc' = [pc EXCEPT ![t] = "sent"]
      <4>1. sendLock' = [sendLock EXCEPT ![m] = t]
            /\ sendInt' = [sendInt EXCEPT ![m] = sendInt'[m]]
            /\ messageSent' = [messageSent EXCEPT ![m] = messageSent'[m]]
            /\ sendInt'[m] \in Nat /\ messageSent'[m] \in Nat
            /\ sendInt'[m] + messageSent'[m] = 1
        BY <2>1, <2>2, <3>1 DEF output, Awaits
      <4>2. pc'[t] = "sent" /\ pc' = [pc EXCEPT ![t] = pc'[t]]
        BY <2>1, <3>3
      <4>3. sendInt'[m] + messageSent'[m] = IF pc'[t] \in Awaits THEN 1 ELSE 0
        BY <4>1, <4>2 DEF Awaits
      <4>4. pc'[t] \in Places \ {"calls"} /\ pc[t] # "calls" /\ up' = up
        BY <3>1, <4>2 DEF Places
      <4> QED  BY <4>1, <4>2, <4>3, <4>4, SenderMoves
    <3> QED  BY <3>1, <3>2, <3>3
  <2>7. CASE WaitSent(t)
    <3>1. pc[t] = "sent" /\ up' = up /\ sendLock' = sendLock /\ sendInt' = sendInt
          /\ messageSent[m] > 0 /\ pc' = [pc EXCEPT ![t] = "releases"]
          /\ messageSent' = [messageSent EXCEPT ![m] = messageSent[m] - 1]
      BY <2>7 DEF WaitSent
    <3>2. sendLock' = [sendLock EXCEPT ![m] = t]
          /\ sendInt' = [sendInt EXCEPT ![m] = sendInt'[m]]
          /\ messageSent' = [messageSent EXCEPT ![m] = messageSent'[m]]
          /\ sendInt'[m] \in Nat /\ messageSent'[m] \in Nat
          /\ sendInt'[m] + messageSent'[m] = 0
      BY <2>1, <2>2, <3>1 DEF Awaits
    <3>3. pc'[t] = "releases" /\ pc' = [pc EXCEPT ![t] = pc'[t]]
      BY <2>1, <3>1
    <3>4. sendInt'[m] + messageSent'[m] = IF pc'[t] \in Awaits THEN 1 ELSE 0
      BY <3>2, <3>3 DEF Awaits
    <3>5. pc'[t] \in Places \ {"calls"} /\ pc[t] # "calls" /\ up' = up
      BY <3>1, <3>3 DEF Places
    <3> QED  BY <3>2, <3>3, <3>4, <3>5, SenderMoves
  <2>8. CASE SendReturns(t)
    <3>1. pc[t] = "releases" /\ up' = up /\ sendInt' = sendInt
          /\ messageSent' = messageSent /\ pc' = [pc EXCEPT ![t] = "calls"]
          /\ sendLock' = [sendLock EXCEPT ![m] = None]
      BY <2>8 DEF SendReturns
    <3>2. SendTypeOK'
      BY <2>1, <3>1 DEF SendInv, SendTypeOK, Places
    <3>3. \A u \in Threads \ {t} : pc[u] # "calls" => Host(u) # m
      BY <2>1, <2>2, <3>1 DEF SendInv, SenderHasLock
    <3>4. \A n \in Machines : sendLock'[n] # None =>
              /\ n # m /\ sendLock'[n] = sendLock[n] /\ sendLock[n] \in Threads
              /\ sendLock[n] # t /\ pc'[sendLock[n]] = pc[sendLock[n]]
      BY <2>1, <3>1 DEF SendInv, SenderHasLock
    <3>5. SenderHasLock'
      BY <2>1, <3>1, <3>3, <3>4 DEF SendInv, SenderHasLock
    <3>6. sendInt[m] + messageSent[m] = 0
      BY <2>2, <3>1 DEF Awaits
    <3>7. InterruptOfHolder'
      BY <2>1, <3>1, <3>4, <3>6 DEF SendInv, InterruptOfHolder
    <3> QED  BY <3>2, <3>5, <3>7 DEF SendInv
  <2>9. CASE Receive(t)
    BY <1>1, <2>9 DEF Receive, output
  <2> QED  BY <1>2, <2>4, <2>5, <2>6, <2>7, <2>8, <2>9 DEF ThreadStep
<1>3. ASSUME NEW m \in Machines, SendDone(m) PROVE SendInv'
  <2>1. UNCHANGED <<pc, up, sendLock>> /\ sendInt[m] > 0
        /\ sendInt' = [sendInt EXCEPT ![m] = sendInt[m] - 1]
        /\ messageSent' = [messageSent EXCEPT ![m] = messageSent[m] + 1]
    BY <1>3 DEF SendDone, PostOfficeOutputCallBack, threads
  <2> QED  BY <2>1 DEF SendInv, SendTypeOK, SenderHasLock, InterruptOfHolder
<1>4. ASSUME NEW m \in Machines, Poll(m) \/ WorkerStep(m) PROVE SendInv'
  BY <1>1, <1>4 DEF Poll, WorkerStep, WorkerWakes, NetworkReceive, Put, output, threads
<1>5. CASE Next
  BY <1>2, <1>3, <1>4, <1>5, StartKeeps, StopKeeps DEF Next
<1>6. CASE UNCHANGED vars
  BY <1>1, <1>6 DEF vars, output, threads
<1> QED  BY <1>5, <1>6

(* For every network: an interrupt of NetworkOutput::Send is outstanding,  *)
(* or its V not yet consumed, exactly while the holder of sendLock waits   *)
(* for it, so that messageSent never lets a sender through that was not    *)
(* told about its own packet.                                              *)
THEOREM PostOfficeSafe == Spec => []OneSendAtATime
<1>1. SendInv => OneSendAtATime
  <2> SUFFICES ASSUME SendInv, NEW m \in Machines
               PROVE  sendInt[m] + messageSent[m] =
                         IF \E t \in Threads : sendLock[m] = t /\ pc[t] \in Awaits
                         THEN 1 ELSE 0
    BY DEF OneSendAtATime, Awaits
  <2>1. (\E t \in Threads : sendLock[m] = t /\ pc[t] \in Awaits)
            <=> sendLock[m] # None /\ pc[sendLock[m]] \in Awaits
    BY PostOfficeAssumption DEF SendInv, SendTypeOK
  <2> QED  BY <2>1 DEF SendInv, InterruptOfHolder
<1> QED  BY SendInitInv, SendNextInv, <1>1, PTL DEF Spec

----------------------------------------------------------------------------
(* The mail.  A packet names a machine and a box that exist.               *)
Mails ==
    [to : Machines, box : Boxes, from : Machines, reply : Boxes,
     mail : Threads \X Nat]

(* f[i] is what the first i packets of s leave for the box b.              *)
Selects(f, s, b) ==
    /\ f \in [0..Len(s) -> Seq(Mails)]
    /\ f[0] = <<>>
    /\ \A i \in 1..Len(s) :
          f[i] = IF s[i].box = b THEN Append(f[i - 1], s[i]) ELSE f[i - 1]

(* A property that 0 has and that i has when i - 1 has it.                 *)
LEMMA UpTo ==
    ASSUME NEW n \in Nat, NEW S, 0 \in S,
           \A i \in 1..n : i - 1 \in S => i \in S
    PROVE  0..n \subseteq S
<1> SUFFICES ASSUME NEW k \in 0..n, k \notin S PROVE FALSE
  OBVIOUS
<1> DEFINE R == OpToRel(<, Nat)
           Bad == {i \in 0..n : i \notin S}
<1>1. \A i, j \in Nat : i < j => <<i, j>> \in R
  BY DEF OpToRel
<1>2. IsWellFoundedOn(R, Nat)
  BY NatLessThanWellFounded
<1>3. Bad # {} /\ Bad \subseteq Nat
  OBVIOUS
<1> HIDE DEF R
<1>4. PICK i \in Bad : \A j \in Bad : ~ (<<j, i>> \in R)
  <2> HIDE DEF Bad
  <2> QED  BY <1>2, <1>3, WFMin
<1>5. i \in 1..n /\ i \notin S
  BY <1>4
<1>6. i - 1 \in 0..n /\ <<i - 1, i>> \in R
  BY <1>1, <1>5
<1>7. i - 1 \in S
  BY <1>4, <1>6
<1> QED  BY <1>5, <1>7

LEMMA SelectsExtends ==
    ASSUME NEW s \in Seq(Mails), NEW p \in Mails, NEW b, NEW f, Selects(f, s, b)
    PROVE  \E g :
              /\ Selects(g, Append(s, p), b)
              /\ g[Len(s) + 1] = IF p.box = b THEN Append(f[Len(s)], p) ELSE f[Len(s)]
<1> DEFINE n == Len(s) + 1
           q == Append(s, p)
           x == IF p.box = b THEN Append(f[Len(s)], p) ELSE f[Len(s)]
           g == [i \in 0..n |-> IF i = n THEN x ELSE f[i]]
<1>1. Len(s) \in Nat /\ Len(q) = n /\ q[n] = p /\ \A i \in 1..Len(s) : q[i] = s[i]
  OBVIOUS
<1>2. f \in [0..Len(s) -> Seq(Mails)] /\ x \in Seq(Mails)
  BY <1>1 DEF Selects
<1>3. g \in [0..n -> Seq(Mails)] /\ g[n] = x
  BY <1>1, <1>2
<1>4. g \in [0..Len(q) -> Seq(Mails)]
  BY <1>1, <1>3
<1>5. g[0] = <<>>
  BY <1>1 DEF Selects
<1>6. ASSUME NEW i \in 1..Len(q)
      PROVE  g[i] = IF q[i].box = b THEN Append(g[i - 1], q[i]) ELSE g[i - 1]
  <2>1. CASE i = n
    BY <1>1, <2>1
  <2>2. CASE i # n
    <3>1. i \in 1..Len(s) /\ g[i] = f[i] /\ g[i - 1] = f[i - 1] /\ q[i] = s[i]
      BY <1>1, <2>2
    <3> HIDE DEF g, q
    <3> QED  BY <3>1 DEF Selects
  <2> QED  BY <2>1, <2>2
<1>7. Selects(g, q, b)
  <2> HIDE DEF g, q
  <2> QED  BY <1>4, <1>5, <1>6 DEF Selects
<1> HIDE DEF g
<1> QED  BY <1>3, <1>7

LEMMA ForBoxSelects ==
    ASSUME NEW s \in Seq(Mails), NEW b, NEW f, Selects(f, s, b)
    PROVE  ForBox(s, b) = f[Len(s)]
<1> DEFINE step(g) == [i \in 0..Len(s) |->
                          IF i = 0 THEN <<>>
                          ELSE IF s[i].box = b THEN Append(g[i - 1], s[i])
                          ELSE g[i - 1]]
           F == CHOOSE g : g = step(g)
<1>1. ForBox(s, b) = F[Len(s)]
  BY DEF ForBox
<1>2. Len(s) \in Nat /\ f = step(f)
  <2>1. Len(s) \in Nat /\ f = [i \in 0..Len(s) |-> f[i]]
    BY DEF Selects
  <2>2. ASSUME NEW i \in 0..Len(s) PROVE f[i] = step(f)[i]
    <3>1. CASE i = 0
      BY <3>1 DEF Selects
    <3>2. CASE i # 0
      <4>1. i \in 1..Len(s)
        BY <2>1, <3>2
      <4>2. f[i] = IF s[i].box = b THEN Append(f[i - 1], s[i]) ELSE f[i - 1]
        BY <4>1 DEF Selects
      <4> QED  BY <3>2, <4>2
    <3> QED  BY <3>1, <3>2
  <2>3. step(f) = [i \in 0..Len(s) |-> step(f)[i]]
    OBVIOUS
  <2> HIDE DEF step
  <2> QED  BY <2>1, <2>2, <2>3
<1>3. F = step(F)
  BY <1>2
<1> HIDE DEF F
<1>4. F[0] = <<>> /\ \A i \in 1..Len(s) :
          F[i] = IF s[i].box = b THEN Append(F[i - 1], s[i]) ELSE F[i - 1]
  <2>1. \A i \in 0..Len(s) : F[i] = step(F)[i]
    BY <1>3
  <2> QED  BY <1>2, <2>1
<1> HIDE DEF step
<1> DEFINE S == {i \in 0..Len(s) : F[i] = f[i]}
<1>5. 0 \in S /\ \A i \in 1..Len(s) : i - 1 \in S => i \in S
  <2>1. 0 \in S
    BY <1>2, <1>4 DEF Selects
  <2>2. ASSUME NEW i \in 1..Len(s), i - 1 \in S PROVE i \in S
    <3>1. F[i - 1] = f[i - 1] /\ i \in 0..Len(s)
      BY <2>2
    <3>2. f[i] = IF s[i].box = b THEN Append(f[i - 1], s[i]) ELSE f[i - 1]
      BY DEF Selects
    <3> QED  BY <1>4, <3>1, <3>2
  <2> QED  BY <2>1, <2>2
<1> HIDE DEF S
<1>6. 0..Len(s) \subseteq S
  BY <1>2, <1>5, UpTo
<1>7. Len(s) \in S
  BY <1>2, <1>6
<1> QED  BY <1>1, <1>7 DEF S

(* Every sequence has such a function.                                     *)
LEMMA SelectsExists ==
    ASSUME NEW s \in Seq(Mails), NEW b
    PROVE  \E f : Selects(f, s, b)
<1> DEFINE S == {n \in 0..Len(s) : \E f : Selects(f, SubSeq(s, 1, n), b)}
<1>1. Len(s) \in Nat
  OBVIOUS
<1>2. 0 \in S
  <2> DEFINE e == [i \in 0..0 |-> <<>>]
  <2>1. SubSeq(s, 1, 0) = <<>>
    BY <1>1
  <2>2. Selects(e, <<>>, b)
    BY DEF Selects
  <2> QED  BY <1>1, <2>1, <2>2
<1>3. ASSUME NEW n \in 1..Len(s), n - 1 \in S PROVE n \in S
  <2> DEFINE q == SubSeq(s, 1, n - 1)
  <2>1. q \in Seq(Mails) /\ s[n] \in Mails
    BY <1>1
  <2>2. SubSeq(s, 1, n) = Append(q, s[n])
    BY <1>1
  <2>3. PICK f : Selects(f, q, b)
    BY <1>3
  <2> HIDE DEF q
  <2>4. \E g : Selects(g, Append(q, s[n]), b)
    BY <2>1, <2>3, SelectsExtends
  <2>5. \E g : Selects(g, SubSeq(s, 1, n), b)
    BY <2>2, <2>4
  <2> QED  BY <1>1, <2>5
<1>4. SubSeq(s, 1, Len(s)) = s
  BY <1>1
<1> HIDE DEF S
<1>5. 0..Len(s) \subseteq S
  BY <1>1, <1>2, <1>3, UpTo
<1>6. Len(s) \in S
  BY <1>1, <1>5
<1> QED  BY <1>4, <1>6 DEF S

(* A packet more.                                                          *)
LEMMA ForBoxAppend ==
    ASSUME NEW s \in Seq(Mails), NEW p \in Mails, NEW b
    PROVE  /\ ForBox(s, b) \in Seq(Mails)
           /\ ForBox(Append(s, p), b) = IF p.box = b THEN Append(ForBox(s, b), p)
                                        ELSE ForBox(s, b)
<1>1. PICK f : Selects(f, s, b)
  BY SelectsExists
<1>2. PICK g : /\ Selects(g, Append(s, p), b)
               /\ g[Len(s) + 1] = IF p.box = b THEN Append(f[Len(s)], p) ELSE f[Len(s)]
  BY <1>1, SelectsExtends
<1>3. ForBox(s, b) = f[Len(s)] /\ f[Len(s)] \in Seq(Mails)
  <2>1. Len(s) \in 0..Len(s)
    OBVIOUS
  <2> QED  BY <1>1, <2>1, ForBoxSelects DEF Selects
<1>4. Append(s, p) \in Seq(Mails) /\ Len(Append(s, p)) = Len(s) + 1
  OBVIOUS
<1>5. ForBox(Append(s, p), b) = g[Len(s) + 1]
  BY <1>2, <1>4, ForBoxSelects
<1> QED  BY <1>2, <1>3, <1>5

LEMMA ForBoxEmpty == \A b : ForBox(<<>>, b) = <<>>
<1> SUFFICES ASSUME NEW b PROVE ForBox(<<>>, b) = <<>>
  OBVIOUS
<1>1. PICK f : Selects(f, <<>>, b)
  <2>1. <<>> \in Seq(Mails)
    OBVIOUS
  <2> QED  BY <2>1, SelectsExists
<1> QED  BY <1>1, ForBoxSelects DEF Selects

(* Packets one after the other.                                            *)
LEMMA ForBoxConcat ==
    ASSUME NEW s \in Seq(Mails), NEW r \in Seq(Mails), NEW b
    PROVE  /\ ForBox(s \o r, b) = ForBox(s, b) \o ForBox(r, b)
           /\ ForBox(s, b) \in Seq(Mails)
<1> DEFINE S == {n \in 0..Len(r) : ForBox(s \o SubSeq(r, 1, n), b) =
                                      ForBox(s, b) \o ForBox(SubSeq(r, 1, n), b)}
<1>1. Len(r) \in Nat /\ \A q \in Seq(Mails) : ForBox(q, b) \in Seq(Mails)
  <2>1. ASSUME NEW q \in Seq(Mails) PROVE ForBox(q, b) \in Seq(Mails)
    <3>1. PICK f : Selects(f, q, b)
      BY SelectsExists
    <3> QED  BY <3>1, ForBoxSelects DEF Selects
  <2> QED  BY <2>1
<1>2. 0 \in S
  <2>1. SubSeq(r, 1, 0) = <<>> /\ s \o <<>> = s /\ ForBox(s, b) \o <<>> = ForBox(s, b)
    BY <1>1
  <2>2. ForBox(s \o SubSeq(r, 1, 0), b) = ForBox(s, b) \o ForBox(SubSeq(r, 1, 0), b)
    BY <2>1, ForBoxEmpty
  <2> QED  BY <1>1, <2>2
<1>3. ASSUME NEW n \in 1..Len(r), n - 1 \in S PROVE n \in S
  <2> DEFINE q == SubSeq(r, 1, n - 1)
  <2>1. q \in Seq(Mails) /\ r[n] \in Mails /\ s \o q \in Seq(Mails)
    BY <1>1
  <2>2. SubSeq(r, 1, n) = Append(q, r[n])
    BY <1>1
  <2>3. ForBox(s \o q, b) = ForBox(s, b) \o ForBox(q, b)
    BY <1>3
  <2> HIDE DEF q
  <2>4. s \o Append(q, r[n]) = Append(s \o q, r[n])
    BY <2>1
  <2>5. ForBox(Append(s \o q, r[n]), b) = IF r[n].box = b
                                         THEN Append(ForBox(s \o q, b), r[n])
                                         ELSE ForBox(s \o q, b)
    BY <2>1, ForBoxAppend
  <2>6. ForBox(Append(q, r[n]), b) = IF r[n].box = b
                                     THEN Append(ForBox(q, b), r[n])
                                     ELSE ForBox(q, b)
    BY <2>1, ForBoxAppend
  <2>7. \A u, v \in Seq(Mails) : u \o Append(v, r[n]) = Append(u \o v, r[n])
    BY <2>1
  <2>8. ForBox(Append(s \o q, r[n]), b) = ForBox(s, b) \o ForBox(Append(q, r[n]), b)
    <3> DEFINE u == ForBox(s, b)
               v == ForBox(q, b)
    <3>1. u \in Seq(Mails) /\ v \in Seq(Mails) /\ ForBox(s \o q, b) = u \o v
      BY <1>1, <2>1, <2>3
    <3>2. u \o Append(v, r[n]) = Append(u \o v, r[n])
      BY <2>7, <3>1
    <3> HIDE DEF u, v
    <3>3. CASE r[n].box = b
      BY <2>5, <2>6, <3>1, <3>2, <3>3 DEF u, v
    <3>4. CASE r[n].box # b
      BY <2>5, <2>6, <3>1, <3>4 DEF u, v
    <3> QED  BY <3>3, <3>4
  <2>9. ForBox(s \o SubSeq(r, 1, n), b) = ForBox(s, b) \o ForBox(SubSeq(r, 1, n), b)
    BY <2>2, <2>4, <2>8
  <2> QED  BY <1>1, <2>9
<1>4. SubSeq(r, 1, Len(r)) = r
  BY <1>1
<1> HIDE DEF S
<1>5. 0..Len(r) \subseteq S
  BY <1>1, <1>2, <1>3, UpTo
<1>6. Len(r) \in S
  BY <1>1, <1>5
<1> QED  BY <1>1, <1>4, <1>6 DEF S

----------------------------------------------------------------------------
(* The inductive invariant.  A thread inside Send is at a call that sends, *)
(* and one that has received something has an address to reply to.         *)
ThreadsOK ==
    /\ ip \in [Threads -> Nat \ {0}] /\ pc \in [Threads -> Places]
    /\ last = [t \in Threads |-> last[t]]
    /\ \A t \in Threads : pc[t] # "calls" => Sends(t)
    /\ \A t \in Threads :
          (\E j \in 1..(ip[t] - 1) : Program(t)[j].op = "receive") => last[t] \in Mails

MailTypeOK ==
    /\ up \in [Machines -> BOOLEAN]
    /\ worker \in [Machines -> {"waits", "woken", "delivers"}]
    /\ messageAvailable \in [Machines -> Nat]
    /\ socket \in [Machines -> Seq(Mails)] /\ inbox \in [Machines -> Seq(Mails)]
    /\ held \in [Machines -> Seq(Mails)] /\ carried \in [Machines -> Seq(Mails)]
    /\ received \in [Machines -> Seq(Mails)]
    /\ boxes \in [Machines -> [Boxes -> Seq(Mails)]]

(* The semaphore counts the packet in the buffer until the worker has been *)
(* told of it, so that the worker finds one; and of what went to the       *)
(* machine, d has been put into the boxes, and the rest is on its way.     *)
Buffered(m) ==
    /\ Len(inbox[m]) <= 1
    /\ Len(inbox[m]) = messageAvailable[m] + (IF worker[m] = "woken" THEN 1 ELSE 0)
    /\ Len(held[m]) = IF worker[m] = "delivers" THEN 1 ELSE 0

Sorted(m) ==
    \A b \in Boxes : \A i \in DOMAIN boxes[m][b] : boxes[m][b][i].box = b

Delivered(m, d) ==
    /\ carried[m] = d \o (held[m] \o inbox[m] \o socket[m])
    /\ \A b \in Boxes : ForBox(received[m], b) \o boxes[m][b] = ForBox(d, b)

MachineOK(m) ==
    /\ Buffered(m) /\ Sorted(m)
    /\ \E d \in Seq(Mails) : Delivered(m, d)
    /\ up[m] = TRUE \/ (carried[m] = <<>> /\ received[m] = <<>>)

MailInv == ThreadsOK /\ MailTypeOK /\ \A m \in Machines : MachineOK(m)

(* How packets move along: one more on the wire; from the wire into the    *)
(* buffer; from the buffer to the worker; from the worker into a box; and  *)
(* out of a box.                                                           *)
LEMMA OntoWire ==
    \A d, x, s \in Seq(Mails) : \A p \in Mails :
        d \o (x \o Append(s, p)) = Append(d \o (x \o s), p)
<1>1. \A p \in Mails : \A y, z \in Seq(Mails) : y \o Append(z, p) = Append(y \o z, p)
  OBVIOUS
<1>2. \A x, s \in Seq(Mails) : x \o s \in Seq(Mails)
  OBVIOUS
<1> QED  BY <1>1, <1>2

LEMMA IntoBuffer ==
    \A x, s \in Seq(Mails) : s # <<>> =>
        /\ Head(s) \in Mails /\ Tail(s) \in Seq(Mails)
        /\ x \o <<>> \o s = x \o <<Head(s)>> \o Tail(s)
  OBVIOUS

LEMMA ToWorker == \A x, s \in Seq(Mails) : <<>> \o x \o s = x \o <<>> \o s
  OBVIOUS

LEMMA IntoBox ==
    \A d, x, s \in Seq(Mails) : \A p \in Mails :
        d \o (<<p>> \o x \o s) = Append(d, p) \o (<<>> \o x \o s)
<1> TAKE d, x, s \in Seq(Mails)
<1> TAKE p \in Mails
<1> QED  OBVIOUS

LEMMA OutOfBox ==
    \A d, s \in Seq(Mails) : s # <<>> => Append(d, Head(s)) \o Tail(s) = d \o s
  OBVIOUS

(* What Send sends.                                                        *)
LEMMA PacketIsMail ==
    ASSUME ThreadsOK, NEW t \in Threads, pc[t] # "calls"
    PROVE  Packet(t) \in Mails
<1> USE PostOfficeAssumption, ProgramAssumption
<1>1. /\ Program(t) \in Seq(Orders) /\ ip[t] \in 1..Len(Program(t))
      /\ Call(t) = Program(t)[ip[t]] /\ Call(t) \in Orders
      /\ Call(t).op \in {"send", "reply"}
  BY DEF ThreadsOK, Sends, Calls, Call
<1>2. /\ Host(t) \in Machines /\ 1 \in Boxes /\ <<t, ip[t]>> \in Threads \X Nat
  BY <1>1
<1>3. CASE Call(t).op = "reply"
  <2>1. last[t] \in Mails
    BY <1>1, <1>3 DEF ThreadsOK
  <2>2. last[t].from \in Machines /\ last[t].reply \in Boxes
    BY <2>1 DEF Mails
  <2> QED  BY <1>2, <1>3, <2>2 DEF Packet, Mails
<1>4. CASE Call(t).op = "send"
  <2>1. Call(t).to \in Machines /\ Call(t).box \in Boxes
    BY <1>1, <1>4 DEF Orders
  <2> QED  BY <1>2, <1>4, <2>1 DEF Packet, Mails
<1> QED  BY <1>1, <1>3, <1>4

(* A machine that a step leaves alone.                                     *)
LEMMA MachineStays ==
    ASSUME NEW m, MachineOK(m),
           UNCHANGED <<up[m], socket[m], inbox[m], messageAvailable[m], worker[m],
                       held[m], boxes[m], carried[m], received[m]>>
    PROVE  MachineOK(m)'
  BY DEF MachineOK, Buffered, Sorted, Delivered

(* A machine with nothing in it.                                           *)
LEMMA NothingSent ==
    /\ <<>> \in Seq(Mails) /\ <<>> \o (<<>> \o <<>> \o <<>>) = <<>>
    /\ \A b : ForBox(<<>>, b) \o <<>> = ForBox(<<>>, b)
  BY ForBoxEmpty

(* At first nothing has been sent.                                         *)
LEMMA MailInitInv == Init => MailInv
<1> SUFFICES ASSUME Init PROVE MailInv
  OBVIOUS
<1>1. ThreadsOK
  BY DEF Init, ThreadsOK, Places
<1>2. MailTypeOK
  BY DEF Init, MailTypeOK
<1>3. ASSUME NEW m \in Machines PROVE MachineOK(m)
  <2>1. /\ carried[m] = <<>> /\ received[m] = <<>> /\ held[m] = <<>>
        /\ inbox[m] = <<>> /\ socket[m] = <<>> /\ messageAvailable[m] = 0
        /\ worker[m] = "waits" /\ \A b \in Boxes : boxes[m][b] = <<>>
    BY DEF Init
  <2>2. Delivered(m, <<>>)
    BY <2>1, NothingSent DEF Delivered
  <2>3. Buffered(m) /\ Sorted(m)
    BY <2>1 DEF Buffered, Sorted
  <2> QED  BY <2>1, <2>2, <2>3, NothingSent DEF MachineOK
<1> QED  BY <1>1, <1>2, <1>3 DEF MailInv

(* The constructors: the socket is new, and nothing has been carried yet.  *)
LEMMA StartKeepsMail ==
    ASSUME MailInv, NEW m \in Machines, Start(m) PROVE MailInv'
<1>1. /\ UNCHANGED <<threads, carried, received>> /\ up[m] # TRUE
      /\ up' = [up EXCEPT ![m] = TRUE] /\ socket' = [socket EXCEPT ![m] = <<>>]
      /\ inbox' = [inbox EXCEPT ![m] = <<>>] /\ held' = [held EXCEPT ![m] = <<>>]
      /\ messageAvailable' = [messageAvailable EXCEPT ![m] = 0]
      /\ worker' = [worker EXCEPT ![m] = "waits"]
      /\ boxes' = [boxes EXCEPT ![m] = [b \in Boxes |-> <<>>]]
  BY DEF Start, NewPostOfficeInput, NewNetworkInput, OpenSocket, AssignNameToSocket,
         NewMailBox
<1>2. ThreadsOK'
  BY <1>1 DEF MailInv, ThreadsOK, threads, Sends, Calls, Call
<1>3. MailTypeOK'
  BY <1>1 DEF MailInv, MailTypeOK
<1>4. ASSUME NEW n \in Machines PROVE MachineOK(n)'
  <2>1. MachineOK(n) /\ MailTypeOK
    BY DEF MailInv
  <2>2. CASE n = m
    <3>1. /\ carried'[m] = <<>> /\ received'[m] = <<>> /\ held'[m] = <<>>
          /\ inbox'[m] = <<>> /\ socket'[m] = <<>> /\ messageAvailable'[m] = 0
          /\ worker'[m] = "waits" /\ \A b \in Boxes : boxes'[m][b] = <<>>
      BY <1>1, <2>1, <2>2 DEF MailTypeOK, MachineOK
    <3>2. Delivered(m, <<>>)'
      BY <3>1, NothingSent DEF Delivered
    <3>3. Buffered(m)' /\ Sorted(m)'
      BY <3>1 DEF Buffered, Sorted
    <3> QED  BY <2>2, <3>1, <3>2, <3>3, NothingSent DEF MachineOK
  <2>3. CASE n # m
    BY <1>1, <2>1, <2>3, MachineStays DEF MailTypeOK
  <2> QED  BY <2>2, <2>3
<1> QED  BY <1>2, <1>3, <1>4 DEF MailInv

(* The destructors: everything that the machine had is gone, its threads   *)
(* begin anew.                                                             *)
LEMMA StopKeepsMail ==
    ASSUME MailInv, NEW m \in Machines, Stop(m) PROVE MailInv'
<1>1. /\ up' = [up EXCEPT ![m] = FALSE] /\ socket' = [socket EXCEPT ![m] = <<>>]
      /\ inbox' = [inbox EXCEPT ![m] = <<>>] /\ held' = [held EXCEPT ![m] = <<>>]
      /\ messageAvailable' = [messageAvailable EXCEPT ![m] = 0]
      /\ worker' = [worker EXCEPT ![m] = "waits"]
      /\ boxes' = [boxes EXCEPT ![m] = [b \in Boxes |-> <<>>]]
      /\ carried' = [carried EXCEPT ![m] = <<>>]
      /\ received' = [received EXCEPT ![m] = <<>>]
      /\ ip' = [t \in Threads |-> IF Host(t) = m THEN 1 ELSE ip[t]]
      /\ pc' = [t \in Threads |-> IF Host(t) = m THEN "calls" ELSE pc[t]]
      /\ last' = [t \in Threads |-> IF Host(t) = m THEN NoMail ELSE last[t]]
  BY DEF Stop, DeletePostOfficeInput, DeleteNetworkInput, CloseSocket,
         DeAssignNameToSocket, NewMailBox
<1>2. ThreadsOK'
  <2>1. /\ ip' \in [Threads -> Nat \ {0}] /\ pc' \in [Threads -> Places]
        /\ last' = [t \in Threads |-> last'[t]]
    BY <1>1 DEF MailInv, ThreadsOK, Places
  <2>2. ASSUME NEW t \in Threads
        PROVE  /\ pc'[t] # "calls" => Sends(t)'
               /\ (\E j \in 1..(ip'[t] - 1) : Program(t)[j].op = "receive")
                      => last'[t] \in Mails
    <3>1. CASE Host(t) = m
      BY <1>1, <3>1
    <3>2. CASE Host(t) # m
      <4>1. ip'[t] = ip[t] /\ pc'[t] = pc[t] /\ last'[t] = last[t]
        BY <1>1, <3>2
      <4> QED  BY <4>1 DEF MailInv, ThreadsOK, Sends, Calls, Call
    <3> QED  BY <3>1, <3>2
  <2> QED  BY <2>1, <2>2 DEF ThreadsOK
<1>3. MailTypeOK'
  BY <1>1 DEF MailInv, MailTypeOK
<1>4. ASSUME NEW n \in Machines PROVE MachineOK(n)'
  <2>1. MachineOK(n) /\ MailTypeOK
    BY DEF MailInv
  <2>2. CASE n = m
    <3>1. /\ carried'[m] = <<>> /\ received'[m] = <<>> /\ held'[m] = <<>>
          /\ inbox'[m] = <<>> /\ socket'[m] = <<>> /\ messageAvailable'[m] = 0
          /\ worker'[m] = "waits" /\ \A b \in Boxes : boxes'[m][b] = <<>>
      BY <1>1, <2>1 DEF MailTypeOK
    <3>2. Delivered(m, <<>>)'
      BY <3>1, NothingSent DEF Delivered
    <3>3. Buffered(m)' /\ Sorted(m)'
      BY <3>1 DEF Buffered, Sorted
    <3> QED  BY <2>2, <3>1, <3>2, <3>3, NothingSent DEF MachineOK
  <2>3. CASE n # m
    BY <1>1, <2>1, <2>3, MachineStays DEF MailTypeOK
  <2> QED  BY <2>2, <2>3
<1> QED  BY <1>2, <1>3, <1>4 DEF MailInv

(* SendToSocket puts a packet at the end of what is on the wire.           *)
LEMMA TransmitKeepsMail ==
    ASSUME MailInv, NEW t \in Threads, Transmit(t) PROVE MailInv'
<1>0. PICK p \in Mails : p = Packet(t)
  BY PacketIsMail DEF Transmit, MailInv
<1> DEFINE m == p.to
<1>1. /\ pc[t] = "transmits" /\ pc' = [pc EXCEPT ![t] = "sent"] /\ up[m]
      /\ socket' = [socket EXCEPT ![m] = Append(socket[m], p)]
      /\ carried' = [carried EXCEPT ![m] = Append(carried[m], p)]
      /\ UNCHANGED <<up, input, ip, last, received>>
  BY <1>0 DEF Transmit
<1>2. m \in Machines
  BY DEF Mails
<1> HIDE DEF m
<1>3. ThreadsOK'
  BY <1>1 DEF MailInv, ThreadsOK, Sends, Calls, Call, Places
<1>4. MailTypeOK'
  BY <1>1, <1>2 DEF MailInv, MailTypeOK, input
<1>5. ASSUME NEW n \in Machines PROVE MachineOK(n)'
  <2>1. MachineOK(n) /\ MailTypeOK
    BY DEF MailInv
  <2>2. CASE n = m
    <3>1. PICK d \in Seq(Mails) : Delivered(m, d)
      BY <2>1, <2>2 DEF MachineOK
    <3> DEFINE x == held[m] \o inbox[m]
    <3>2. /\ x \in Seq(Mails) /\ socket[m] \in Seq(Mails)
          /\ socket'[m] = Append(socket[m], p) /\ carried'[m] = Append(carried[m], p)
          /\ UNCHANGED <<up[m], inbox[m], messageAvailable[m], worker[m], held[m],
                         boxes[m], received[m]>>
      BY <1>1, <1>2, <2>1 DEF MailTypeOK, input
    <3> HIDE DEF x
    <3>3. d \o (x \o Append(socket[m], p)) = Append(d \o (x \o socket[m]), p)
      BY <3>2, OntoWire
    <3>4. carried[m] = d \o (x \o socket[m])
      BY <3>1 DEF Delivered, x
    <3>5. carried'[m] = d \o (held'[m] \o inbox'[m] \o socket'[m])
      BY <3>2, <3>3, <3>4 DEF x
    <3>6. Delivered(m, d)'
      BY <3>1, <3>2, <3>5 DEF Delivered
    <3>7. up'[m] = TRUE
      BY <1>1, <1>2, <2>1 DEF MailTypeOK
    <3>8. Buffered(m)' /\ Sorted(m)'
      BY <2>1, <2>2, <3>2 DEF MachineOK, Buffered, Sorted
    <3> QED  BY <2>2, <3>6, <3>7, <3>8 DEF MachineOK
  <2>3. CASE n # m
    BY <1>1, <2>1, <2>3, MachineStays DEF MailTypeOK, input
  <2> QED  BY <2>2, <2>3
<1> QED  BY <1>3, <1>4, <1>5 DEF MailInv

(* NetworkInput::CallBack takes the first packet from the wire only when   *)
(* the buffer is empty.                                                    *)
LEMMA PollKeepsMail ==
    ASSUME MailInv, NEW m \in Machines, Poll(m) PROVE MailInv'
<1>1. CASE UNCHANGED <<inbox, socket, messageAvailable>>
  <2>1. UNCHANGED <<up, worker, held, boxes, threads, carried, received>>
    BY DEF Poll
  <2>2. ThreadsOK' /\ MailTypeOK'
    BY <1>1, <2>1 DEF MailInv, ThreadsOK, MailTypeOK, threads, Sends, Calls, Call
  <2> QED  BY <1>1, <2>1, <2>2, MachineStays DEF MailInv
<1>2. CASE inbox[m] = <<>> /\ socket[m] # <<>>
  <2>1. /\ inbox' = [inbox EXCEPT ![m] = <<Head(socket[m])>>]
        /\ socket' = [socket EXCEPT ![m] = Tail(socket[m])]
        /\ messageAvailable' = [messageAvailable EXCEPT ![m] = messageAvailable[m] + 1]
        /\ UNCHANGED <<up, worker, held, boxes, threads, carried, received>>
    BY <1>2 DEF Poll, PollSocket, ReadFromSocket, PostOfficeInputCallBack
  <2>2. MailTypeOK /\ socket[m] \in Seq(Mails) /\ held[m] \in Seq(Mails)
    BY DEF MailInv, MailTypeOK
  <2>3. /\ Head(socket[m]) \in Mails /\ Tail(socket[m]) \in Seq(Mails)
        /\ held[m] \o <<>> \o socket[m] = held[m] \o <<Head(socket[m])>> \o Tail(socket[m])
    BY <1>2, <2>2, IntoBuffer
  <2>4. ThreadsOK'
    BY <2>1 DEF MailInv, ThreadsOK, threads, Sends, Calls, Call
  <2>5. MailTypeOK'
    BY <2>1, <2>2, <2>3 DEF MailTypeOK
  <2>6. ASSUME NEW n \in Machines PROVE MachineOK(n)'
    <3>1. MachineOK(n)
      BY DEF MailInv
    <3>2. CASE n = m
      <4>1. /\ inbox'[m] = <<Head(socket[m])>> /\ socket'[m] = Tail(socket[m])
            /\ messageAvailable'[m] = messageAvailable[m] + 1
            /\ UNCHANGED <<up[m], worker[m], held[m], boxes[m], carried[m], received[m]>>
            /\ messageAvailable[m] \in Nat
        BY <2>1, <2>2 DEF MailTypeOK
      <4>2. PICK d \in Seq(Mails) : Delivered(m, d)
        BY <3>1, <3>2 DEF MachineOK
      <4>3. Delivered(m, d)'
        BY <1>2, <2>3, <4>1, <4>2 DEF Delivered
      <4>4. Buffered(m)'
        BY <1>2, <3>1, <3>2, <4>1 DEF MachineOK, Buffered
      <4>5. Sorted(m)'
        BY <3>1, <3>2, <4>1 DEF MachineOK, Sorted
      <4> QED  BY <3>1, <3>2, <4>1, <4>3, <4>4, <4>5 DEF MachineOK
    <3>3. CASE n # m
      BY <2>1, <2>2, <3>1, <3>3, MachineStays DEF MailTypeOK
    <3> QED  BY <3>2, <3>3
  <2> QED  BY <2>4, <2>5, <2>6 DEF MailInv
<1> QED  BY <1>1, <1>2 DEF Poll, PollSocket

(* PostalDelivery: the worker is woken, takes the packet from the buffer,  *)
(* which the semaphore says is there, and puts it into its box.            *)
LEMMA WorkerKeepsMail ==
    ASSUME MailInv, NEW m \in Machines, WorkerStep(m) PROVE MailInv'
<1>1. UNCHANGED <<up, socket, threads, carried, received>>
  BY DEF WorkerStep, WorkerWakes, NetworkReceive, Put
<1>2. ThreadsOK'
  BY <1>1 DEF MailInv, ThreadsOK, threads, Sends, Calls, Call
<1>3. /\ MailTypeOK /\ MachineOK(m) /\ socket[m] \in Seq(Mails)
      /\ inbox[m] \in Seq(Mails) /\ held[m] \in Seq(Mails)
      /\ messageAvailable[m] \in Nat
  BY DEF MailInv, MailTypeOK
<1>4. PICK d \in Seq(Mails) : Delivered(m, d)
  BY <1>3 DEF MachineOK
<1>5. SUFFICES /\ MailTypeOK' /\ Buffered(m)' /\ Sorted(m)'
               /\ \E e \in Seq(Mails) : Delivered(m, e)'
               /\ \A n \in Machines \ {m} :
                     UNCHANGED <<inbox[n], messageAvailable[n], worker[n], held[n],
                                 boxes[n]>>
  <2>1. up'[m] = up[m] /\ carried'[m] = carried[m] /\ received'[m] = received[m]
    BY <1>1
  <2>2. MachineOK(m)'
    BY <1>3, <1>5, <2>1 DEF MachineOK
  <2>3. ASSUME NEW n \in Machines, n # m PROVE MachineOK(n)'
    <3>1. MachineOK(n)
      BY DEF MailInv
    <3> QED  BY <1>1, <1>5, <2>3, <3>1, MachineStays
  <2> QED  BY <1>2, <1>5, <2>2, <2>3 DEF MailInv
<1>6. CASE WorkerWakes(m)
  <2>1. /\ messageAvailable' = [messageAvailable EXCEPT ![m] = messageAvailable[m] - 1]
        /\ worker' = [worker EXCEPT ![m] = "woken"]
        /\ UNCHANGED <<inbox, held, boxes>>
        /\ messageAvailable[m] > 0 /\ worker[m] = "waits"
    BY <1>6 DEF WorkerWakes
  <2>2. MailTypeOK'
    BY <1>1, <1>3, <2>1 DEF MailTypeOK
  <2>3. Buffered(m)'
    BY <1>3, <2>1 DEF MachineOK, Buffered, MailTypeOK
  <2>4. Sorted(m)' /\ Delivered(m, d)'
    BY <1>1, <1>3, <1>4, <2>1 DEF MachineOK, Sorted, Delivered
  <2>5. \A n \in Machines \ {m} :
           messageAvailable'[n] = messageAvailable[n] /\ worker'[n] = worker[n]
    BY <1>3, <2>1 DEF MailTypeOK
  <2> QED  BY <2>1, <2>2, <2>3, <2>4, <2>5
<1>7. CASE NetworkReceive(m)
  <2>1. /\ worker' = [worker EXCEPT ![m] = "delivers"]
        /\ held' = [held EXCEPT ![m] = inbox[m]]
        /\ inbox' = [inbox EXCEPT ![m] = <<>>]
        /\ UNCHANGED <<messageAvailable, boxes>> /\ worker[m] = "woken"
    BY <1>7 DEF NetworkReceive
  <2>2. MailTypeOK'
    BY <1>1, <1>3, <2>1 DEF MailTypeOK
  <2>3. /\ held'[m] = inbox[m] /\ inbox'[m] = <<>> /\ worker'[m] = "delivers"
        /\ \A n \in Machines \ {m} : /\ worker'[n] = worker[n]
                                      /\ inbox'[n] = inbox[n] /\ held'[n] = held[n]
    BY <1>3, <2>1 DEF MailTypeOK
  <2>4. held[m] = <<>> /\ Len(inbox[m]) = 1 /\ messageAvailable[m] = 0
    BY <1>3, <2>1 DEF MachineOK, Buffered
  <2>5. Buffered(m)'
    BY <2>1, <2>3, <2>4 DEF Buffered
  <2>6. held[m] \o inbox[m] \o socket[m] = held'[m] \o inbox'[m] \o socket'[m]
    BY <1>1, <1>3, <2>3, <2>4, ToWorker
  <2>7. Sorted(m)' /\ Delivered(m, d)'
    BY <1>1, <1>3, <1>4, <2>1, <2>6 DEF MachineOK, Sorted, Delivered
  <2> QED  BY <2>1, <2>2, <2>3, <2>5, <2>7
<1>8. CASE Put(m)
  <2>1. worker[m] = "delivers" /\ UNCHANGED <<inbox, messageAvailable>>
    BY <1>8 DEF Put
  <2>2. Len(held[m]) = 1
    BY <1>3, <2>1 DEF MachineOK, Buffered
  <2>3. PICK p \in Mails : p = held[m][1]
    BY <1>3, <2>2
  <2>4. held[m] = <<p>> /\ p.box \in Boxes
    BY <1>3, <2>2, <2>3 DEF Mails
  <2>5. /\ boxes' = [boxes EXCEPT ![m] =
                       [boxes[m] EXCEPT ![p.box] = Append(boxes[m][p.box], p)]]
        /\ worker' = [worker EXCEPT ![m] = "waits"]
        /\ held' = [held EXCEPT ![m] = <<>>]
    BY <1>3, <1>8, <2>3, <2>4 DEF Put, MailBoxPut, MailTypeOK
  <2>6. /\ boxes[m] \in [Boxes -> Seq(Mails)]
        /\ boxes'[m] = [boxes[m] EXCEPT ![p.box] = Append(boxes[m][p.box], p)]
        /\ worker'[m] = "waits" /\ held'[m] = <<>>
        /\ \A n \in Machines \ {m} : /\ boxes'[n] = boxes[n] /\ worker'[n] = worker[n]
                                      /\ held'[n] = held[n]
    BY <1>3, <2>5 DEF MailTypeOK
  <2>7. MailTypeOK'
    <3>1. boxes'[m] \in [Boxes -> Seq(Mails)]
      BY <2>4, <2>6
    <3>2. boxes' \in [Machines -> [Boxes -> Seq(Mails)]]
      BY <1>3, <2>5, <2>6, <3>1 DEF MailTypeOK
    <3> QED  BY <1>1, <1>3, <2>1, <2>5, <3>2 DEF MailTypeOK
  <2>8. Buffered(m)'
    BY <1>3, <2>1, <2>6 DEF MachineOK, Buffered
  <2>9. Sorted(m)'
    <3> SUFFICES ASSUME NEW b \in Boxes, NEW i \in DOMAIN boxes'[m][b]
                 PROVE  boxes'[m][b][i].box = b
      BY DEF Sorted
    <3>1. CASE b # p.box
      BY <1>3, <2>6, <3>1 DEF MachineOK, Sorted
    <3>2. CASE b = p.box
      <4>1. boxes'[m][b] = Append(boxes[m][b], p) /\ boxes[m][b] \in Seq(Mails)
        BY <2>6, <3>2
      <4>2. \/ i \in DOMAIN boxes[m][b] /\ boxes'[m][b][i] = boxes[m][b][i]
            \/ boxes'[m][b][i] = p
        BY <4>1
      <4> QED  BY <1>3, <3>2, <4>2 DEF MachineOK, Sorted
    <3> QED  BY <3>1, <3>2
  <2>10. Delivered(m, Append(d, p))' /\ Append(d, p) \in Seq(Mails)
    <3>1. carried'[m] = Append(d, p) \o (held'[m] \o inbox'[m] \o socket'[m])
      <4>1. carried[m] = d \o (<<p>> \o inbox[m] \o socket[m])
        BY <1>4, <2>4 DEF Delivered
      <4>2. d \o (<<p>> \o inbox[m] \o socket[m])
               = Append(d, p) \o (<<>> \o inbox[m] \o socket[m])
        BY <1>3, IntoBox
      <4> QED  BY <1>1, <2>1, <2>6, <4>1, <4>2
    <3>2. ASSUME NEW b \in Boxes
          PROVE  ForBox(received[m], b) \o boxes'[m][b] = ForBox(Append(d, p), b)
      <4> DEFINE u == ForBox(received[m], b)
                 v == boxes[m][b]
      <4>1. u \in Seq(Mails) /\ v \in Seq(Mails) /\ u \o v = ForBox(d, b)
        <5>1. received[m] \in Seq(Mails)
          BY <1>3 DEF MailTypeOK
        <5> QED  BY <1>4, <2>4, <2>6, <5>1, ForBoxAppend DEF Delivered
      <4>2. ForBox(Append(d, p), b) = IF p.box = b THEN Append(u \o v, p) ELSE u \o v
        <5>1. ForBox(Append(d, p), b) = IF p.box = b THEN Append(ForBox(d, b), p)
                                        ELSE ForBox(d, b)
          BY ForBoxAppend
        <5> HIDE DEF u, v
        <5> QED  BY <4>1, <5>1
      <4>3. boxes'[m][b] = IF p.box = b THEN Append(v, p) ELSE v
        BY <2>6
      <4> HIDE DEF u, v
      <4>4. u \o Append(v, p) = Append(u \o v, p)
        BY <4>1
      <4>5. u \o boxes'[m][b] = ForBox(Append(d, p), b)
        BY <4>2, <4>3, <4>4
      <4> QED  BY <4>5 DEF u
    <3>3. \A b \in Boxes :
             ForBox(received'[m], b) \o boxes'[m][b] = ForBox(Append(d, p), b)
      BY <1>1, <3>2
    <3>4. Append(d, p) \in Seq(Mails)
      OBVIOUS
    <3> QED  BY <3>1, <3>3, <3>4 DEF Delivered
  <2> QED  BY <2>1, <2>6, <2>7, <2>8, <2>9, <2>10
<1> QED  BY <1>6, <1>7, <1>8 DEF WorkerStep

(* MailBox::Get: the first mail of the box is received next.               *)
LEMMA ReceiveKeepsMail ==
    ASSUME MailInv, NEW t \in Threads, Receive(t) PROVE MailInv'
<1> DEFINE m == Host(t)
<1>1. PICK b \in Boxes : b = Call(t).box
  <2>1. Call(t) \in Orders /\ Call(t).op = "receive"
    BY ProgramAssumption DEF Receive, Calls, Call, MailInv, ThreadsOK
  <2> QED  BY <2>1 DEF Orders
<1>2. /\ m \in Machines /\ ThreadsOK /\ MailTypeOK /\ MachineOK(m)
      /\ boxes[m][b] \in Seq(Mails) /\ boxes[m] \in [Boxes -> Seq(Mails)]
      /\ received[m] \in Seq(Mails)
  BY PostOfficeAssumption DEF MailInv, MailTypeOK
<1>3. /\ up[m] /\ pc[t] = "calls" /\ boxes[m][b] # <<>>
      /\ boxes' = [boxes EXCEPT ![m] = [boxes[m] EXCEPT ![b] = Tail(boxes[m][b])]]
      /\ last' = [last EXCEPT ![t] = Head(boxes[m][b])]
      /\ received' = [received EXCEPT ![m] = Append(received[m], Head(boxes[m][b]))]
      /\ ip' = [ip EXCEPT ![t] = ip[t] + 1]
      /\ UNCHANGED <<up, socket, inbox, messageAvailable, worker, held, pc, carried>>
  BY <1>1, <1>2 DEF Receive, Runs, MailBoxGet, MailTypeOK
<1> HIDE DEF m
<1>4. PICK h \in Mails : h = Head(boxes[m][b])
  BY <1>2, <1>3
<1>5. h.box = b /\ Tail(boxes[m][b]) \in Seq(Mails)
  <2>1. 1 \in DOMAIN boxes[m][b] /\ h = boxes[m][b][1]
    BY <1>2, <1>3, <1>4
  <2>2. Tail(boxes[m][b]) \in Seq(Mails)
    BY <1>2, <1>3
  <2> QED  BY <1>2, <2>1, <2>2 DEF MachineOK, Sorted
<1>6. ThreadsOK'
  <2>1. /\ ip' \in [Threads -> Nat \ {0}] /\ pc' \in [Threads -> Places]
        /\ last' = [u \in Threads |-> last'[u]]
    <3>1. ip \in [Threads -> Nat \ {0}] /\ pc \in [Threads -> Places]
          /\ last = [u \in Threads |-> last[u]]
      BY <1>2 DEF ThreadsOK
    <3>2. ip' \in [Threads -> Nat \ {0}] /\ pc' \in [Threads -> Places]
      BY <1>3, <3>1
    <3>3. last' = [last EXCEPT ![t] = h]
      BY <1>3, <1>4
    <3> QED  BY <3>1, <3>2, <3>3
  <2>2. ASSUME NEW u \in Threads
        PROVE  /\ pc'[u] # "calls" => Sends(u)'
               /\ (\E j \in 1..(ip'[u] - 1) : Program(u)[j].op = "receive")
                      => last'[u] \in Mails
    <3>1. CASE u = t
      BY <1>2, <1>3, <1>4, <3>1 DEF ThreadsOK
    <3>2. CASE u # t
      <4>1. ip'[u] = ip[u] /\ pc'[u] = pc[u] /\ last'[u] = last[u]
        BY <1>2, <1>3, <3>2 DEF ThreadsOK
      <4> QED  BY <1>2, <4>1 DEF ThreadsOK, Sends, Calls, Call
    <3> QED  BY <3>1, <3>2
  <2> QED  BY <2>1, <2>2 DEF ThreadsOK
<1>7. /\ received'[m] = Append(received[m], h)
      /\ boxes'[m] = [boxes[m] EXCEPT ![b] = Tail(boxes[m][b])]
      /\ \A n \in Machines \ {m} : boxes'[n] = boxes[n] /\ received'[n] = received[n]
  BY <1>2, <1>3, <1>4 DEF MailTypeOK
<1>8. MailTypeOK'
  <2>1. boxes'[m] \in [Boxes -> Seq(Mails)] /\ received'[m] \in Seq(Mails)
    <3>1. PICK rest \in Seq(Mails) : rest = Tail(boxes[m][b])
      BY <1>5
    <3>2. boxes[m] \in [Boxes -> Seq(Mails)] /\ received[m] \in Seq(Mails)
      BY <1>2
    <3>3. boxes'[m] = [boxes[m] EXCEPT ![b] = rest]
      BY <1>7, <3>1, Zenon
    <3>4. received'[m] \in Seq(Mails)
      BY <1>7, <3>2
    <3> QED  BY <3>2, <3>3, <3>4
  <2>2. boxes' \in [Machines -> [Boxes -> Seq(Mails)]]
    BY <1>2, <1>3, <1>7, <2>1 DEF MailTypeOK
  <2>3. received' \in [Machines -> Seq(Mails)]
    BY <1>2, <1>3, <1>7, <2>1 DEF MailTypeOK
  <2> QED  BY <1>2, <1>3, <2>2, <2>3 DEF MailTypeOK
<1>9. ASSUME NEW n \in Machines, n # m PROVE MachineOK(n)'
  <2>1. MachineOK(n)
    BY DEF MailInv
  <2> QED  BY <1>3, <1>7, <1>9, <2>1, MachineStays
<1>10. MachineOK(Host(t))'
  <2>1. PICK d \in Seq(Mails) : Delivered(m, d)
    BY <1>2 DEF MachineOK
  <2>2. ASSUME NEW c \in Boxes
        PROVE  ForBox(received'[m], c) \o boxes'[m][c] = ForBox(d, c)
    <3> DEFINE u == ForBox(received[m], c)
               v == boxes[m][c]
    <3>1. u \in Seq(Mails) /\ v \in Seq(Mails) /\ u \o v = ForBox(d, c)
      BY <1>2, <1>4, <2>1, ForBoxAppend DEF Delivered
    <3>2. ForBox(received'[m], c) = IF c = b THEN Append(u, h) ELSE u
      <4>1. ForBox(Append(received[m], h), c) =
               IF h.box = c THEN Append(ForBox(received[m], c), h)
               ELSE ForBox(received[m], c)
        BY <1>2, ForBoxAppend
      <4> QED  BY <1>5, <1>7, <4>1
    <3>3. boxes'[m][c] = IF c = b THEN Tail(v) ELSE v
      BY <1>2, <1>7
    <3>4. c = b => v # <<>> /\ h = Head(v)
      BY <1>3, <1>4
    <3> HIDE DEF u, v
    <3>5. c = b => Append(u, h) \o Tail(v) = u \o v
      BY <3>1, <3>4, OutOfBox
    <3> QED  BY <3>1, <3>2, <3>3, <3>5
  <2>3. Delivered(m, d)'
    BY <1>3, <2>1, <2>2 DEF Delivered, m
  <2>4. Sorted(m)'
    <3> SUFFICES ASSUME NEW c \in Boxes, NEW i \in DOMAIN boxes'[m][c]
                 PROVE  boxes'[m][c][i].box = c
      BY DEF Sorted, m
    <3>1. CASE c # b
      BY <1>2, <1>7, <3>1 DEF MachineOK, Sorted
    <3>2. CASE c = b
      <4>1. boxes'[m][c] = Tail(boxes[m][c]) /\ boxes[m][c] \in Seq(Mails)
            /\ boxes[m][c] # <<>>
        BY <1>2, <1>3, <1>7, <3>2
      <4>2. i + 1 \in DOMAIN boxes[m][c] /\ boxes'[m][c][i] = boxes[m][c][i + 1]
        BY <4>1
      <4> QED  BY <1>2, <4>2 DEF MachineOK, Sorted
    <3> QED  BY <3>1, <3>2
  <2>5. Buffered(m)'
    BY <1>2, <1>3 DEF MachineOK, Buffered, m
  <2>6. up'[m] = TRUE
    BY <1>2, <1>3 DEF MailTypeOK
  <2> QED  BY <2>1, <2>3, <2>4, <2>5, <2>6 DEF MachineOK, m
<1> QED  BY <1>6, <1>8, <1>9, <1>10 DEF MailInv, m

(* Every step.  What is left are the steps of Send beside the wire.        *)
LEMMA MailNextInv == MailInv /\ [Next]_vars => MailInv'
<1> SUFFICES ASSUME MailInv, [Next]_vars PROVE MailInv'
  OBVIOUS
<1>1. ASSUME UNCHANGED <<up, socket, inbox, messageAvailable, worker, held, boxes,
                         carried, received>>, ThreadsOK'
      PROVE  MailInv'
  <2>1. MailTypeOK'
    BY <1>1 DEF MailInv, MailTypeOK
  <2>2. ASSUME NEW n \in Machines PROVE MachineOK(n)'
    <3>1. MachineOK(n)
      BY DEF MailInv
    <3> QED  BY <1>1, <3>1, MachineStays
  <2> QED  BY <1>1, <2>1, <2>2 DEF MailInv
<1>2. ThreadsOK
  BY DEF MailInv
<1>3. ASSUME UNCHANGED <<ip, pc, last>> PROVE ThreadsOK'
  BY <1>2, <1>3 DEF ThreadsOK, Sends, Calls, Call
<1>4. ASSUME NEW t \in Threads, NEW q \in Places, pc' = [pc EXCEPT ![t] = q],
             pc[t] # "calls" \/ Sends(t), UNCHANGED <<ip, last>>
      PROVE  ThreadsOK'
  BY <1>2, <1>4 DEF ThreadsOK, Sends, Calls, Call
<1>5. ASSUME NEW t \in Threads, Send(t) PROVE MailInv'
  BY <1>1, <1>4, <1>5 DEF Send, input, Places
<1>6. ASSUME NEW t \in Threads, NEW r \in {0, 50, 99}, NetworkSend(t, r) PROVE MailInv'
  BY <1>1, <1>4, <1>6 DEF NetworkSend, input, Places
<1>7. ASSUME NEW t \in Threads, TransmitFails(t) PROVE MailInv'
  BY <1>1, <1>3, <1>4, <1>7 DEF TransmitFails, input, Places
<1>8. ASSUME NEW t \in Threads, WaitSent(t) PROVE MailInv'
  BY <1>1, <1>4, <1>8 DEF WaitSent, input, Places
<1>9. ASSUME NEW t \in Threads, SendReturns(t) PROVE MailInv'
  <2>1. /\ pc[t] = "releases" /\ pc' = [pc EXCEPT ![t] = "calls"]
        /\ ip' = [ip EXCEPT ![t] = ip[t] + 1] /\ UNCHANGED last
    BY <1>9 DEF SendReturns
  <2>2. /\ ip' \in [Threads -> Nat \ {0}] /\ pc' \in [Threads -> Places]
    BY <1>2, <2>1 DEF ThreadsOK, Places
  <2>3. ASSUME NEW u \in Threads
        PROVE  /\ pc'[u] # "calls" => Sends(u)'
               /\ (\E j \in 1..(ip'[u] - 1) : Program(u)[j].op = "receive")
                      => last'[u] \in Mails
    <3>1. CASE u = t
      <4>1. Program(t)[ip[t]].op # "receive" /\ ip[t] \in Nat
        BY <1>2, <2>1 DEF ThreadsOK, Sends, Calls, Call
      <4>2. pc'[t] = "calls" /\ ip'[t] = ip[t] + 1
        BY <1>2, <2>1 DEF ThreadsOK
      <4>3. \A j \in 1..(ip'[t] - 1) : j \in 1..(ip[t] - 1) \/ j = ip[t]
        BY <4>1, <4>2
      <4> QED  BY <1>2, <2>1, <3>1, <4>1, <4>2, <4>3 DEF ThreadsOK
    <3>2. CASE u # t
      <4>1. ip'[u] = ip[u] /\ pc'[u] = pc[u] /\ last'[u] = last[u]
        BY <1>2, <2>1, <3>2 DEF ThreadsOK
      <4> QED  BY <1>2, <4>1 DEF ThreadsOK, Sends, Calls, Call
    <3> QED  BY <3>1, <3>2
  <2>4. ThreadsOK'
    BY <1>2, <2>1, <2>2, <2>3 DEF ThreadsOK
  <2> QED  BY <1>1, <1>9, <2>4 DEF SendReturns, input
<1>10. ASSUME NEW m \in Machines, SendDone(m) PROVE MailInv'
  BY <1>1, <1>3, <1>10 DEF SendDone, input, threads
<1>11. CASE UNCHANGED vars
  BY <1>1, <1>3, <1>11 DEF vars, input, threads
<1>12. CASE Next
  BY <1>5, <1>6, <1>7, <1>8, <1>9, <1>10, <1>12, StartKeepsMail, StopKeepsMail,
     TransmitKeepsMail, PollKeepsMail, WorkerKeepsMail, ReceiveKeepsMail
     DEF Next, ThreadStep
<1> QED  BY <1>11, <1>12

(* For all machines, boxes, threads and programs, and however often        *)
(* machines are stopped: the mail that went to a machine for a box is what *)
(* was taken out of the box, what lies in it, and what is still on its     *)
(* way, in this order.  Nothing is lost, repeated or overtaken between     *)
(* NetworkInput, the postal worker and the box.                            *)
THEOREM MailSafe == Spec => []MailKept
<1>1. MailInv => MailKept
  <2> SUFFICES ASSUME MailInv, NEW m \in Machines, NEW b \in Boxes
               PROVE  ForBox(received[m], b) \o boxes[m][b]
                         \o ForBox(held[m] \o inbox[m] \o socket[m], b)
                      = ForBox(carried[m], b)
    BY DEF MailKept
  <2>1. PICK d \in Seq(Mails) : Delivered(m, d)
    BY DEF MailInv, MachineOK
  <2> DEFINE rest == held[m] \o inbox[m] \o socket[m]
  <2>2. rest \in Seq(Mails)
    BY DEF MailInv, MailTypeOK
  <2>3. carried[m] = d \o rest /\ ForBox(received[m], b) \o boxes[m][b] = ForBox(d, b)
    BY <2>1 DEF Delivered
  <2> HIDE DEF rest
  <2>4. ForBox(d \o rest, b) = ForBox(d, b) \o ForBox(rest, b)
    BY <2>2, ForBoxConcat
  <2>5. (ForBox(received[m], b) \o boxes[m][b]) \o ForBox(rest, b) = ForBox(carried[m], b)
    BY <2>3, <2>4
  <2> QED  BY <2>5 DEF rest
<1> QED  BY <1>1, MailInitInv, MailNextInv, PTL DEF Spec

=============================================================================
