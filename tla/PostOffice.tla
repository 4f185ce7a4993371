----------------------------- MODULE PostOffice -----------------------------
(***************************************************************************)
(* Mail between machines: the post office (network/post.cc) on the network *)
(* device (machine/network.cc) and the sockets of the host (lib/sysdep.cc),*)
(* with threads that send and receive as Kernel::NetworkTest does.         *)
(*                                                                         *)
(* Each machine is a process of the host with its own kernel, so machines  *)
(* interleave freely; within a machine a step is the code between two      *)
(* points at which an interrupt may come.  Lock, Semaphore and SynchList   *)
(* are what their modules show them to be: each call is one step.          *)
(***************************************************************************)
EXTENDS Integers, Sequences

CONSTANTS
    Machines,           \* the machines, by hostName
    Boxes,              \* the mail boxes of a post office
    Threads, Host(_),   \* the threads that use the post office
    Program(_),         \* what a thread does: its calls, one after the other
    Reliability,        \* the argument of PostOfficeOutput, in per cent
    MaxTries,           \* tries of SendToSocket (10)
    MaxStops            \* bound on how often machines are stopped

None == "none"

ASSUME PostOfficeAssumption ==
    /\ None \notin Threads /\ \A t \in Threads : Host(t) \in Machines
    /\ Reliability \in 0..100 /\ MaxTries \in Nat \ {0} /\ MaxStops \in Nat

(* A program names machines and boxes that exist, as the assertions of     *)
(* Receive and PostalDelivery demand; a reply comes after something was    *)
(* received, and is asked for at box 1.                                    *)
Orders ==
    [op : {"send"}, to : Machines, box : Boxes]
        \cup [op : {"receive"}, box : Boxes] \cup [op : {"reply"}]

ASSUME ProgramAssumption ==
    /\ 1 \in Boxes
    /\ \A t \in Threads :
          /\ Program(t) \in Seq(Orders)
          /\ \A i \in 1..Len(Program(t)) : Program(t)[i].op = "reply" =>
                \E j \in 1..(i - 1) : Program(t)[j].op = "receive"

VARIABLES
    up,             \* is the socket of the machine bound?
    socket,         \* packets on the wire to a machine
    inbox,          \* NetworkInput: the packet buffered, if any
    polling,        \* is the next look at the socket scheduled?
    messageAvailable,   \* the semaphore of PostOfficeInput
    worker,         \* the postal worker: "waits", "woken" or "delivers"
    held,           \* the packet that the worker delivers
    boxes,          \* the mail boxes
    sendLock,       \* the holder of the lock of PostOfficeOutput, or None
    sendBusy,       \* NetworkOutput::sendBusy
    sendInt,        \* interrupts scheduled by NetworkOutput::Send
    messageSent,    \* the semaphore of PostOfficeOutput
    ip, pc,         \* the call a thread is in, and how far it got
    last,           \* the mail a thread received last
    tries,          \* how often SendToSocket has failed so far
    lost,           \* mails that have been dropped
    carried,        \* every packet that went into the present socket
    received,       \* every mail that was taken out of a box
    stops           \* how often machines were stopped

input == <<inbox, polling, messageAvailable, worker, held, boxes>>
output == <<sendLock, sendBusy, sendInt, messageSent>>
threads == <<ip, pc, last, tries>>
vars == <<up, socket, input, output, threads, lost, carried, received, stops>>

(* The call that a thread is in.  A reply goes to the machine and the box  *)
(* that the mail received last names.                                      *)
Call(t) == Program(t)[ip[t]]
Calls(t, op) == ip[t] <= Len(Program(t)) /\ Call(t).op = op
Sends(t) == Calls(t, "send") \/ Calls(t, "reply")

Packet(t) ==
    [to |-> IF Call(t).op = "reply" THEN last[t].from ELSE Call(t).to,
     box |-> IF Call(t).op = "reply" THEN last[t].reply ELSE Call(t).box,
     from |-> Host(t), reply |-> 1, mail |-> <<t, ip[t]>>]

(* A machine that waits in SendToSocket does nothing else.                 *)
Runs(m) == up[m] /\ \A t \in Threads : Host(t) = m => pc[t] # "transmits"

NoMail == [from |-> None, reply |-> None]

----------------------------------------------------------------------------
Init ==
    /\ up = [m \in Machines |-> FALSE]
    /\ socket = [m \in Machines |-> <<>>]
    /\ inbox = [m \in Machines |-> <<>>]
    /\ polling = [m \in Machines |-> FALSE]
    /\ messageAvailable = [m \in Machines |-> 0]
    /\ worker = [m \in Machines |-> "waits"]
    /\ held = [m \in Machines |-> <<>>]
    /\ boxes = [m \in Machines |-> [b \in Boxes |-> <<>>]]
    /\ sendLock = [m \in Machines |-> None]
    /\ sendBusy = [m \in Machines |-> FALSE]
    /\ sendInt = [m \in Machines |-> 0]
    /\ messageSent = [m \in Machines |-> 0]
    /\ ip = [t \in Threads |-> 1]
    /\ pc = [t \in Threads |-> "calls"]
    /\ last = [t \in Threads |-> NoMail]
    /\ tries = [t \in Threads |-> 0]
    /\ lost = {}
    /\ carried = [m \in Machines |-> <<>>]
    /\ received = [m \in Machines |-> <<>>]
    /\ stops = 0

(* The sockets of the host.  What is sent to a name that no socket has     *)
(* fails, and a socket that is closed takes what is in it along.           *)
AssignNameToSocket(m) == up' = [up EXCEPT ![m] = TRUE]

DeAssignNameToSocket(m) == up' = [up EXCEPT ![m] = FALSE]

OpenSocket(m) == socket' = [socket EXCEPT ![m] = <<>>]

CloseSocket(m) == socket' = [socket EXCEPT ![m] = <<>>]

PollSocket(m) == socket[m] # <<>>

ReadFromSocket(m) == Head(socket[m])

(* The constructors: the socket gets its name and is polled from now on.   *)
NewMailBox == <<>>

NewNetworkInput(m) ==
    /\ inbox' = [inbox EXCEPT ![m] = <<>>]
    /\ OpenSocket(m)
    /\ AssignNameToSocket(m)
    /\ polling' = [polling EXCEPT ![m] = TRUE]

NewPostOfficeInput(m) ==
    /\ messageAvailable' = [messageAvailable EXCEPT ![m] = 0]
    /\ boxes' = [boxes EXCEPT ![m] = [b \in Boxes |-> NewMailBox]]
    /\ NewNetworkInput(m)
    /\ worker' = [worker EXCEPT ![m] = "waits"] /\ held' = [held EXCEPT ![m] = <<>>]

NewNetworkOutput(m) ==
    sendBusy' = [sendBusy EXCEPT ![m] = FALSE] /\ sendInt' = [sendInt EXCEPT ![m] = 0]

NewPostOfficeOutput(m) ==
    /\ messageSent' = [messageSent EXCEPT ![m] = 0]
    /\ sendLock' = [sendLock EXCEPT ![m] = None]
    /\ NewNetworkOutput(m)

Start(m) ==
    /\ ~ up[m]
    /\ NewPostOfficeInput(m)
    /\ NewPostOfficeOutput(m)
    /\ UNCHANGED <<threads, lost, carried, received, stops>>

(* The destructors, when a machine is stopped from outside: its socket and *)
(* everything in it goes.  When it is started again it begins anew.        *)
DeleteNetworkInput(m) ==
    /\ CloseSocket(m) /\ DeAssignNameToSocket(m)
    /\ inbox' = [inbox EXCEPT ![m] = <<>>]
    /\ polling' = [polling EXCEPT ![m] = FALSE]

DeletePostOfficeInput(m) ==
    /\ DeleteNetworkInput(m)
    /\ boxes' = [boxes EXCEPT ![m] = [b \in Boxes |-> NewMailBox]]
    /\ messageAvailable' = [messageAvailable EXCEPT ![m] = 0]
    /\ worker' = [worker EXCEPT ![m] = "waits"] /\ held' = [held EXCEPT ![m] = <<>>]

DeletePostOfficeOutput(m) == NewPostOfficeOutput(m)

Stop(m) ==
    /\ Runs(m) /\ stops < MaxStops /\ stops' = stops + 1
    /\ DeletePostOfficeInput(m)
    /\ DeletePostOfficeOutput(m)
    /\ ip' = [t \in Threads |-> IF Host(t) = m THEN 1 ELSE ip[t]]
    /\ pc' = [t \in Threads |-> IF Host(t) = m THEN "calls" ELSE pc[t]]
    /\ last' = [t \in Threads |-> IF Host(t) = m THEN NoMail ELSE last[t]]
    /\ carried' = [carried EXCEPT ![m] = <<>>]
    /\ received' = [received EXCEPT ![m] = <<>>]
    /\ UNCHANGED <<tries, lost>>

----------------------------------------------------------------------------
(* PostOfficeOutput::Send: the lock.                                       *)
Send(t) ==
    /\ Runs(Host(t)) /\ pc[t] = "calls" /\ Sends(t)
    /\ sendLock[Host(t)] = None
    /\ sendLock' = [sendLock EXCEPT ![Host(t)] = t]
    /\ pc' = [pc EXCEPT ![t] = "sends"]
    /\ UNCHANGED <<up, socket, input, sendBusy, sendInt, messageSent, ip, last, tries,
                   lost, carried, received, stops>>

(* NetworkOutput::Send: the interrupt is scheduled whether or not the      *)
(* packet is dropped.  The ASSERT on sendBusy does not fail, as nothing    *)
(* ever sets it.                                                           *)
NetworkSend(t, RandomNumber) ==
    /\ Runs(Host(t)) /\ pc[t] = "sends" /\ ~ sendBusy[Host(t)]
    /\ sendInt' = [sendInt EXCEPT ![Host(t)] = @ + 1]
    /\ IF RandomNumber >= Reliability
       THEN /\ pc' = [pc EXCEPT ![t] = "sent"]
            /\ lost' = lost \cup {Packet(t).mail}
       ELSE pc' = [pc EXCEPT ![t] = "transmits"] /\ UNCHANGED lost
    /\ UNCHANGED <<up, socket, input, sendLock, sendBusy, messageSent, ip, last, tries,
                   carried, received, stops>>

(* SendToSocket: a try that succeeds, and one that fails because nobody    *)
(* has bound the name; after the last one the packet is dropped.           *)
Transmit(t) ==
    LET to == Packet(t).to
    IN /\ pc[t] = "transmits" /\ up[to]
       /\ socket' = [socket EXCEPT ![to] = Append(@, Packet(t))]
       /\ carried' = [carried EXCEPT ![to] = Append(@, Packet(t))]
       /\ tries' = [tries EXCEPT ![t] = 0]
       /\ pc' = [pc EXCEPT ![t] = "sent"]
       /\ UNCHANGED <<up, input, output, ip, last, lost, received, stops>>

TransmitFails(t) ==
    /\ pc[t] = "transmits" /\ ~ up[Packet(t).to]
    /\ IF tries[t] + 1 < MaxTries
       THEN tries' = [tries EXCEPT ![t] = @ + 1] /\ UNCHANGED <<pc, lost>>
       ELSE /\ tries' = [tries EXCEPT ![t] = 0]
            /\ pc' = [pc EXCEPT ![t] = "sent"]
            /\ lost' = lost \cup {Packet(t).mail}
    /\ UNCHANGED <<up, socket, input, output, ip, last, carried, received, stops>>

PostOfficeOutputCallBack(m) == messageSent' = [messageSent EXCEPT ![m] = @ + 1]

(* NetworkOutput::CallBack.                                                *)
SendDone(m) ==
    /\ Runs(m) /\ sendInt[m] > 0
    /\ sendInt' = [sendInt EXCEPT ![m] = @ - 1]
    /\ sendBusy' = [sendBusy EXCEPT ![m] = FALSE]
    /\ PostOfficeOutputCallBack(m)
    /\ UNCHANGED <<up, socket, input, sendLock, threads, lost, carried, received, stops>>

(* Mutant: the lock is released without waiting for the interrupt.         *)
WaitSentSkipped(t) ==
    /\ Runs(Host(t)) /\ pc[t] = "sent"
    /\ pc' = [pc EXCEPT ![t] = "releases"]
    /\ UNCHANGED <<up, socket, input, output, ip, last, tries, lost, carried, received,
                   stops>>

(* PostOfficeOutput::Send: messageSent->P() and sendLock->Release().       *)
WaitSent(t) ==
    /\ Runs(Host(t)) /\ pc[t] = "sent" /\ messageSent[Host(t)] > 0
    /\ messageSent' = [messageSent EXCEPT ![Host(t)] = @ - 1]
    /\ pc' = [pc EXCEPT ![t] = "releases"]
    /\ UNCHANGED <<up, socket, input, sendLock, sendBusy, sendInt, ip, last, tries,
                   lost, carried, received, stops>>

SendReturns(t) ==
    /\ Runs(Host(t)) /\ pc[t] = "releases"
    /\ sendLock' = [sendLock EXCEPT ![Host(t)] = None]
    /\ pc' = [pc EXCEPT ![t] = "calls"]
    /\ ip' = [ip EXCEPT ![t] = @ + 1]
    /\ UNCHANGED <<up, socket, input, sendBusy, sendInt, messageSent, last, tries,
                   lost, carried, received, stops>>

----------------------------------------------------------------------------
(* Mutant: a packet that is still buffered is overwritten.                 *)
PollOverwrites(m) ==
    /\ Runs(m) /\ polling[m] /\ socket[m] # <<>>
    /\ inbox' = [inbox EXCEPT ![m] = <<Head(socket[m])>>]
    /\ socket' = [socket EXCEPT ![m] = Tail(@)]
    /\ messageAvailable' = [messageAvailable EXCEPT ![m] = @ + 1]
    /\ UNCHANGED <<up, polling, worker, held, boxes, output, threads, lost, carried,
                   received, stops>>

(* Mutant: a packet is read, and dropped, while another one is buffered.   *)
PollDiscards(m) ==
    /\ Runs(m) /\ polling[m]
    /\ IF socket[m] # <<>>
       THEN /\ socket' = [socket EXCEPT ![m] = Tail(@)]
            /\ IF inbox[m] = <<>>
               THEN /\ inbox' = [inbox EXCEPT ![m] = <<Head(socket[m])>>]
                    /\ messageAvailable' = [messageAvailable EXCEPT ![m] = @ + 1]
               ELSE UNCHANGED <<inbox, messageAvailable>>
       ELSE UNCHANGED <<inbox, socket, messageAvailable>>
    /\ UNCHANGED <<up, polling, worker, held, boxes, output, threads, lost, carried,
                   received, stops>>

PostOfficeInputCallBack(m) == messageAvailable' = [messageAvailable EXCEPT ![m] = @ + 1]

(* NetworkInput::CallBack: the next look is scheduled; a packet is read    *)
(* when none is buffered, and PostOfficeInput::CallBack told.              *)
Poll(m) ==
    /\ Runs(m) /\ polling[m]
    /\ polling' = [polling EXCEPT ![m] = TRUE]
    /\ IF inbox[m] = <<>> /\ PollSocket(m)
       THEN /\ inbox' = [inbox EXCEPT ![m] = <<ReadFromSocket(m)>>]
            /\ socket' = [socket EXCEPT ![m] = Tail(@)]
            /\ PostOfficeInputCallBack(m)
       ELSE UNCHANGED <<inbox, socket, messageAvailable>>
    /\ UNCHANGED <<up, worker, held, boxes, output, threads, lost, carried, received,
                   stops>>

(* PostalDelivery: P, NetworkInput::Receive and MailBox::Put, again and    *)
(* again.                                                                  *)
WorkerWakes(m) ==
    /\ Runs(m) /\ worker[m] = "waits" /\ messageAvailable[m] > 0
    /\ messageAvailable' = [messageAvailable EXCEPT ![m] = @ - 1]
    /\ worker' = [worker EXCEPT ![m] = "woken"]
    /\ UNCHANGED <<up, socket, inbox, polling, held, boxes, output, threads, lost,
                   carried, received, stops>>

NetworkReceive(m) ==
    /\ Runs(m) /\ worker[m] = "woken"
    /\ worker' = [worker EXCEPT ![m] = "delivers"]
    /\ held' = [held EXCEPT ![m] = inbox[m]]
    /\ inbox' = [inbox EXCEPT ![m] = <<>>]
    /\ UNCHANGED <<up, socket, polling, messageAvailable, boxes, output, threads, lost,
                   carried, received, stops>>

MailBoxPut(box, mail) == Append(box, mail)

Put(m) ==
    /\ Runs(m) /\ worker[m] = "delivers"
    /\ boxes' = [boxes EXCEPT ![m][held[m][1].box] = MailBoxPut(@, held[m][1])]
    /\ worker' = [worker EXCEPT ![m] = "waits"]
    /\ held' = [held EXCEPT ![m] = <<>>]
    /\ UNCHANGED <<up, socket, inbox, polling, messageAvailable, output, threads, lost,
                   carried, received, stops>>

(* PostOfficeInput::Receive and MailBox::Get, which waits for a mail.      *)
MailBoxGet(m, b) ==
    /\ boxes[m][b] # <<>>
    /\ boxes' = [boxes EXCEPT ![m][b] = Tail(@)]

Receive(t) ==
    LET m == Host(t)
        b == Call(t).box
    IN /\ Runs(m) /\ pc[t] = "calls" /\ Calls(t, "receive")
       /\ MailBoxGet(m, b)
       /\ last' = [last EXCEPT ![t] = Head(boxes[m][b])]
       /\ received' = [received EXCEPT ![m] = Append(@, Head(boxes[m][b]))]
       /\ ip' = [ip EXCEPT ![t] = @ + 1]
       /\ UNCHANGED <<up, socket, inbox, polling, messageAvailable, worker, held,
                      output, pc, tries, lost, carried, stops>>

----------------------------------------------------------------------------
ThreadStep(t) ==
    \/ Send(t)
    \/ \E RandomNumber \in {0, 50, 99} : NetworkSend(t, RandomNumber)
    \/ Transmit(t)
    \/ TransmitFails(t)
    \/ WaitSent(t)
    \/ SendReturns(t)
    \/ Receive(t)

WorkerStep(m) == WorkerWakes(m) \/ NetworkReceive(m) \/ Put(m)

Next ==
    \/ \E m \in Machines : Start(m) \/ Stop(m) \/ Poll(m) \/ SendDone(m) \/ WorkerStep(m)
    \/ \E t \in Threads : ThreadStep(t)

(* Nobody has to stop a machine; all else happens: the scheduler gives     *)
(* every ready thread the processor, and the idle loop advances the clock  *)
(* to the next interrupt.                                                  *)
Fairness ==
    /\ \A m \in Machines : WF_vars(Start(m)) /\ WF_vars(Poll(m)) /\ WF_vars(SendDone(m))
                           /\ WF_vars(WorkerStep(m))
    /\ \A t \in Threads : WF_vars(ThreadStep(t))

Spec == Init /\ [][Next]_vars /\ Fairness

----------------------------------------------------------------------------
(* The mail for a box, from the oldest to the newest.                      *)
ForBox(packets, b) ==
    LET For[i \in 0..Len(packets)] ==
            IF i = 0 THEN <<>>
            ELSE IF packets[i].box = b THEN Append(For[i - 1], packets[i])
            ELSE For[i - 1]
    IN  For[Len(packets)]

(* Mail is delivered in order and exactly once: what was taken out of a    *)
(* box, what lies in it, what the postal worker holds, the one packet the  *)
(* device buffers and what is on the wire are together, in this order, all *)
(* that ever went to this machine and box.  The network loses packets only *)
(* before they are on the wire; the interrupt handler, the worker and the  *)
(* box, which meet at one buffer and one semaphore, lose none.             *)
MailKept ==
    \A m \in Machines, b \in Boxes :
        ForBox(received[m], b) \o boxes[m][b]
            \o ForBox(held[m] \o inbox[m] \o socket[m], b)
        = ForBox(carried[m], b)

(* One packet is sent at a time, and the semaphore counts no interrupt     *)
(* twice: an interrupt is scheduled, or has come and is not consumed,      *)
(* exactly while the holder of the lock waits for it.                      *)
OneSendAtATime ==
    \A m \in Machines :
        sendInt[m] + messageSent[m] =
            IF \E t \in Threads : sendLock[m] = t /\ pc[t] \in {"transmits", "sent"}
            THEN 1 ELSE 0

=============================================================================
