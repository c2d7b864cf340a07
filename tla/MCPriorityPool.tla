---------------------------- MODULE MCPriorityPool ----------------------------
(* Instances of PriorityPool for TLC. *)
EXTENDS PriorityPool

(* Messages in the three topics. *)
Backlog == [pr \in Priorities |->
              IF pr = "normal" THEN 2 ELSE 1]

SmallBacklog == [pr \in Priorities |-> 1]
=============================================================================
