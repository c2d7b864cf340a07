------------------------------ MODULE ApiHandler ------------------------------
(***************************************************************************)
(* The write path of internal/api/handlers.go: a request inserts its rows, *)
(* publishes the pending ones and marks them queued, in three calls with   *)
(* nothing that makes them one.  Idempotency-key replays change no state   *)
(* and have no action here.                                                *)
(***************************************************************************)
EXTENDS NotificationStore, WorkTopic

VARIABLE batch  \* batch[h]: rows request h is publishing and will mark queued

apiVars == <<batch>>

ApiTypeOK == batch \in [Handlers -> SUBSET Notifications]

ApiInit == batch = [h \in Handlers |-> {}]

Idle(h) == batch[h] = {} /\ outbox[h] = {}

(* Create or CreateBatch commits the rows; publishAndQueue then takes the  *)
(* pending ones, and scheduled rows wait for the scheduler.                *)
CreateNotifications(h, ids, future) ==
    /\ Idle(h)
    /\ Insert(ids, future)
    /\ batch' = [batch EXCEPT ![h] = ids \ future]
    /\ StartPublish(h, ids \ future)
    /\ NoFault

(* One message of PublishNotifications lands in the topic. *)
ApiWrite(h, n) ==
    /\ WriteMessage(h, n)
    /\ NoFault
    /\ UNCHANGED <<storeVars, apiVars>>

(* WriteMessages returned: the rows become queued. *)
ApiMarkQueued(h) ==
    /\ batch[h] # {}
    /\ outbox[h] = {}
    /\ MarkQueued(batch[h])
    /\ batch' = [batch EXCEPT ![h] = {}]
    /\ NoFault
    /\ UNCHANGED topicVars

(* The publish or the update fails, the client goes away or the process    *)
(* dies: the request is over and its rows keep their status.               *)
ApiAbort(h) ==
    /\ batch[h] # {}
    /\ batch' = [batch EXCEPT ![h] = {}]
    /\ AbandonPublish(h)
    /\ Fault
    /\ UNCHANGED storeVars

(* Cancel, the other request that changes a row. *)
ApiCancel(n) ==
    /\ CancelRow(n)
    /\ NoFault
    /\ UNCHANGED <<topicVars, apiVars>>
=============================================================================
