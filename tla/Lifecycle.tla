------------------------------ MODULE Lifecycle ------------------------------
(***************************************************************************)
(* What the pipeline promises a client about one notification, without     *)
(* saying how: the status column follows the state machine documented on   *)
(* domain.Status, the provider is only called for a notification that is   *)
(* 'processing', and a final status is backed by what it stands for.       *)
(***************************************************************************)
EXTENDS Naturals

CONSTANT Notifications

VARIABLES row, accepted, dlq

lifecycleVars == <<row, accepted, dlq>>

Init ==
    /\ row = [n \in Notifications |-> "absent"]
    /\ accepted = [n \in Notifications |-> 0]
    /\ dlq = [n \in Notifications |-> 0]

Become(ids, status) ==
    row' = [n \in Notifications |-> IF n \in ids THEN status ELSE row[n]]

(* A request stores new rows, due now or later. *)
Create(ids, future) ==
    /\ \A n \in ids : row[n] = "absent"
    /\ row' = [n \in Notifications |->
                 IF n \notin ids THEN row[n]
                 ELSE IF n \in future THEN "scheduled" ELSE "pending"]
    /\ UNCHANGED <<accepted, dlq>>

(* Rows that await delivery are handed to the queue, again if need be. *)
Enqueue(ids) ==
    /\ \A n \in ids : row[n] \in {"pending", "scheduled", "queued", "processing"}
    /\ Become(ids, "queued")
    /\ UNCHANGED <<accepted, dlq>>

Claim(n) ==
    /\ row[n] \in {"pending", "queued"}
    /\ Become({n}, "processing")
    /\ UNCHANGED <<accepted, dlq>>

Accept(n) ==
    /\ row[n] = "processing"
    /\ accepted' = [accepted EXCEPT ![n] = @ + 1]
    /\ UNCHANGED <<row, dlq>>

DeadLetter(n) ==
    /\ row[n] = "processing"
    /\ dlq' = [dlq EXCEPT ![n] = @ + 1]
    /\ UNCHANGED <<row, accepted>>

Settle(n) ==
    /\ row[n] = "processing"
    /\ \/ accepted[n] > 0 /\ Become({n}, "sent")
       \/ dlq[n] > 0 /\ Become({n}, "dead")
    /\ UNCHANGED <<accepted, dlq>>

Cancel(n) ==
    /\ row[n] \in {"pending", "queued", "scheduled"}
    /\ Become({n}, "cancelled")
    /\ UNCHANGED <<accepted, dlq>>

Next ==
    \/ \E ids, future \in SUBSET Notifications : Create(ids, future)
    \/ \E ids \in SUBSET Notifications : Enqueue(ids)
    \/ \E n \in Notifications :
         Claim(n) \/ Accept(n) \/ DeadLetter(n) \/ Settle(n) \/ Cancel(n)

Spec == Init /\ [][Next]_lifecycleVars
=============================================================================
