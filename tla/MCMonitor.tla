----------------------------- MODULE MCMonitor -----------------------------
(***************************************************************************)
(* Condition variables for TLC: either any use of one, or the synchronized *)
(* list that is made of one.                                               *)
(***************************************************************************)
EXTENDS SynchList

VARIABLE part    \* what is explored

MCInit == part \in {"any use", "list"} /\ ListInit

AnyUse == part = "any use" /\ Next /\ UNCHANGED <<part, list, pc>>

ListUse == part = "list" /\ ListNext /\ UNCHANGED part

MCSpec ==
    /\ MCInit /\ [][AnyUse \/ ListUse]_<<part, listVars>>
    /\ Fairness /\ ListFairness

=============================================================================
