---------------------------- MODULE MCPostOffice ----------------------------
(* Machines 0 and 1 with the main threads that run Kernel::NetworkTest, and *)
(* a second thread of machine 0 that sends to the same box.  In the part    *)
(* "threads" the three run and no machine is stopped; in "restarts" the     *)
(* second thread has nothing to do and machines are stopped and started.    *)
EXTENDS PostOffice

VARIABLE part

MCHost(t) == IF t = "main1" THEN 1 ELSE 0

SendTo(m, b) == [op |-> "send", to |-> m, box |-> b]
ReceiveFrom(b) == [op |-> "receive", box |-> b]

(* Kernel::NetworkTest.                                                    *)
NetworkTest(farHost) ==
    <<SendTo(farHost, 0), ReceiveFrom(0), [op |-> "reply"], ReceiveFrom(1)>>

MCProgram(t) ==
    IF t = "other" THEN <<SendTo(1, 0)>> ELSE NetworkTest(1 - MCHost(t))

MCInit == Init /\ part \in {"threads", "restarts"}

MCNext ==
    /\ Next /\ UNCHANGED part
    /\ part = "threads" => stops' = 0
    /\ part = "restarts" => pc'["other"] = "calls"

(* Nothing is asked of the thread that has nothing to do.                  *)
MCFairness ==
    /\ \A m \in Machines : WF_vars(Start(m)) /\ WF_vars(Poll(m)) /\ WF_vars(SendDone(m))
                           /\ WF_vars(WorkerStep(m))
    /\ \A t \in Threads : WF_vars(ThreadStep(t) /\ (t = "other" => part = "threads"))

MCSpec == MCInit /\ [][MCNext]_<<vars, part>> /\ MCFairness

----------------------------------------------------------------------------
(* As long as no packet is lost and no machine stopped, every thread gets  *)
(* through its calls: both sides of Kernel::NetworkTest end, whichever     *)
(* machine started first and whatever else is sent in between.             *)
TestEnds ==
    [](lost = {} /\ part = "threads")
        => <>(\A t \in Threads : ip[t] = Len(Program(t)) + 1)

=============================================================================
