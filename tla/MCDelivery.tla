------------------------------ MODULE MCDelivery ------------------------------
(* Instances of Delivery for TLC. *)
EXTENDS Delivery, TLC

CONSTANTS s1, s2, s3

(* Notifications, senders, requests and pollers of one kind are            *)
(* interchangeable; used for safety properties only.                       *)
Symmetry == Permutations(Notifications) \cup Permutations(Senders)

-----------------------------------------------------------------------------
(* Idle senders hold nothing that tells them apart, so it cannot matter    *)
(* which of them takes a job: the first one does (an action constraint of  *)
(* the one-row instance).  The topic supplies finitely many jobs, so the   *)
(* fairness of the others, who may be kept from taking one, excludes no    *)
(* behaviour.                                                              *)
Before == [s \in Senders |-> CASE s = s1 -> {} [] s = s2 -> {s1} [] s = s3 -> {s1, s2}]

FirstIdleTakes ==
    \A s \in Senders :
      pc[s] = "idle" /\ pc'[s] # "idle" => \A t \in Before[s] : pc[t] # "idle"
=============================================================================
