------------------------------ MODULE WorkerPool ------------------------------
(***************************************************************************)
(* One worker process of internal/worker/pool.go on one work topic: a      *)
(* fetcher feeds an in-memory channel, senders take jobs from it, claim    *)
(* the row, deliver with in-memory retries and record the outcome in three *)
(* places (provider or DLQ, row, offset) one after the other.              *)
(***************************************************************************)
EXTENDS NotificationStore, WorkTopic

CONSTANTS
    Senders,       \* sender goroutines
    MaxAttempts,   \* Deps.MaxAttempts
    BufferSize,    \* capacity of the in-memory channel
    NoId           \* the id in the job of an idle sender

VARIABLES
    buffer,    \* offsets of the jobs the fetcher has handed over, oldest first
    pc,        \* pc[s]: where sender s is in process()
    job,       \* job[s]: the job of sender s
    accepted,  \* accepted[n]: requests for n the provider has accepted
    dlq        \* dlq[n]: envelopes for n in the dead-letter topic

workerVars == <<buffer, pc, job, accepted, dlq>>
outcomeVars == <<accepted, dlq>>

ASSUME WorkerAssumption ==
    /\ MaxAttempts \in Nat \ {0}
    /\ BufferSize \in Nat
    /\ NoId \notin Notifications

Steps == {"idle", "claim", "deliver", "sent", "offload", "dead", "commit"}

Job == [offset : Nat, id : Notifications \cup {NoId}, attempt : 1..MaxAttempts]
NoJob == [offset |-> 0, id |-> NoId, attempt |-> 1]

WorkerTypeOK ==
    /\ buffer \in Seq(Nat)
    /\ pc \in [Senders -> Steps]
    /\ job \in [Senders -> Job]
    /\ accepted \in [Notifications -> Nat]
    /\ dlq \in [Notifications -> Nat]
    /\ \A s \in Senders : pc[s] # "idle" => job[s].id \in Notifications

WorkerInit ==
    /\ buffer = <<>>
    /\ pc = [s \in Senders |-> "idle"]
    /\ job = [s \in Senders |-> NoJob]
    /\ accepted = [n \in Notifications |-> 0]
    /\ dlq = [n \in Notifications |-> 0]

-----------------------------------------------------------------------------
(* The fetcher holds one job more than the channel while it is blocked on  *)
(* the send, so it fetches as long as the channel is not over its capacity.*)
FetcherFree == Len(buffer) <= BufferSize

Fetch ==
    /\ FetcherFree
    /\ FetchMessage
    /\ log[position'] # Poison
    /\ buffer' = Append(buffer, position')
    /\ NoFault
    /\ UNCHANGED <<committed, storeVars, pc, job, outcomeVars>>

(* A poison pill is committed at once, whatever is in flight before it. *)
FetchPoison ==
    /\ FetcherFree
    /\ FetchMessage
    /\ log[position'] = Poison
    /\ committed' = position'
    /\ NoFault
    /\ UNCHANGED <<storeVars, workerVars>>

-----------------------------------------------------------------------------
Goto(s, step) == pc' = [pc EXCEPT ![s] = step]

(* process() returns; the sender is free for the next job. *)
Finish(s) ==
    /\ Goto(s, "idle")
    /\ job' = [job EXCEPT ![s] = NoJob]

(* next() *)
TakeJob(s) ==
    /\ pc[s] = "idle"
    /\ buffer # <<>>
    /\ job' = [job EXCEPT ![s] = [offset |-> Head(buffer), id |-> log[Head(buffer)],
                                  attempt |-> 1]]
    /\ Goto(s, "claim")
    /\ buffer' = Tail(buffer)
    /\ NoFault
    /\ UNCHANGED <<storeVars, topicVars, outcomeVars>>

(* Claim the row; a job whose row is not claimable is only committed. *)
Claim(s, claimed) ==
    /\ pc[s] = "claim"
    /\ MarkProcessing(job[s].id, claimed)
    /\ Goto(s, IF claimed THEN "deliver" ELSE "commit")
    /\ NoFault
    /\ UNCHANGED <<topicVars, buffer, job, outcomeVars>>

(* The claim returns an error, with or without effect: nothing is          *)
(* committed and the job is dropped.                                       *)
ClaimFails(s) ==
    /\ pc[s] = "claim"
    /\ MarkProcessing(job[s].id, TRUE) \/ UNCHANGED storeVars
    /\ Finish(s)
    /\ Fault
    /\ UNCHANGED <<topicVars, buffer, outcomeVars>>

-----------------------------------------------------------------------------
(* deliver(): attempts until one is accepted, one fails for good, or       *)
(* MaxAttempts are used up.                                                *)
ProviderAccepts(n) == accepted' = [accepted EXCEPT ![n] = @ + 1] /\ UNCHANGED dlq

(* The attempt counter is a variable of the loop. *)
LeaveLoop(s, next) ==
    /\ Goto(s, next)
    /\ job' = [job EXCEPT ![s].attempt = 1]

RetryOrGiveUp(s) ==
    \/ /\ job[s].attempt < MaxAttempts
       /\ job' = [job EXCEPT ![s].attempt = @ + 1]
       /\ UNCHANGED pc
    \/ /\ job[s].attempt = MaxAttempts
       /\ LeaveLoop(s, "offload")

AttemptAccepted(s) ==
    /\ pc[s] = "deliver"
    /\ ProviderAccepts(job[s].id)
    /\ LeaveLoop(s, "sent")
    /\ NoFault
    /\ UNCHANGED <<storeVars, topicVars, buffer>>

(* 5xx, 429 or a request that never reached the provider. *)
AttemptRetryable(s) ==
    /\ pc[s] = "deliver"
    /\ RetryOrGiveUp(s)
    /\ NoFault
    /\ UNCHANGED <<storeVars, topicVars, buffer, outcomeVars>>

(* The provider accepted, but its answer did not arrive in time: the       *)
(* client reports a transport error, which is retryable.                   *)
AttemptAnswerLost(s) ==
    /\ pc[s] = "deliver"
    /\ ProviderAccepts(job[s].id)
    /\ RetryOrGiveUp(s)
    /\ Fault
    /\ UNCHANGED <<storeVars, topicVars, buffer>>

(* A 4xx, or a backoff cut short by a stop: deliver returns an error       *)
(* whatever attempts are left (SendPacing tells the two apart).            *)
AttemptPermanent(s) ==
    /\ pc[s] = "deliver"
    /\ LeaveLoop(s, "offload")
    /\ NoFault
    /\ UNCHANGED <<storeVars, topicVars, buffer, outcomeVars>>

-----------------------------------------------------------------------------
RecordSentForgotten(s) ==  \* wrong variant: commits without MarkSent
    /\ pc[s] = "sent"
    /\ Goto(s, "commit")
    /\ NoFault
    /\ UNCHANGED <<storeVars, topicVars, buffer, job, outcomeVars>>

RecordSent(s) ==
    /\ pc[s] = "sent"
    /\ MarkSent(job[s].id)
    /\ Goto(s, "commit")
    /\ NoFault
    /\ UNCHANGED <<topicVars, buffer, job, outcomeVars>>

(* An error of MarkSent is logged and the offset is committed anyway. *)
RecordSentFails(s) ==
    /\ pc[s] = "sent"
    /\ Goto(s, "commit")
    /\ Fault
    /\ UNCHANGED <<storeVars, topicVars, buffer, job, outcomeVars>>

Offload(s) ==
    /\ pc[s] = "offload"
    /\ dlq' = [dlq EXCEPT ![job[s].id] = @ + 1]
    /\ Goto(s, "dead")
    /\ NoFault
    /\ UNCHANGED <<storeVars, topicVars, buffer, job, accepted>>

(* The DLQ write returns an error, landed or not: nothing is committed. *)
OffloadFails(s) ==
    /\ pc[s] = "offload"
    /\ \/ dlq' = [dlq EXCEPT ![job[s].id] = @ + 1]
       \/ UNCHANGED dlq
    /\ Finish(s)
    /\ Fault
    /\ UNCHANGED <<storeVars, topicVars, buffer, accepted>>

RecordDead(s) ==
    /\ pc[s] = "dead"
    /\ MarkDead(job[s].id)
    /\ Goto(s, "commit")
    /\ NoFault
    /\ UNCHANGED <<topicVars, buffer, job, outcomeVars>>

(* An error of MarkDead is logged and the offset is committed anyway. *)
RecordDeadFails(s) ==
    /\ pc[s] = "dead"
    /\ Goto(s, "commit")
    /\ Fault
    /\ UNCHANGED <<storeVars, topicVars, buffer, job, outcomeVars>>

CommitOffset(s) ==
    /\ pc[s] = "commit"
    /\ CommitMessage(job[s].offset)
    /\ Finish(s)
    /\ NoFault
    /\ UNCHANGED <<storeVars, buffer, outcomeVars>>

(* An error of the commit is logged. *)
CommitFails(s) ==
    /\ pc[s] = "commit"
    /\ Finish(s)
    /\ Fault
    /\ UNCHANGED <<storeVars, topicVars, buffer, outcomeVars>>

-----------------------------------------------------------------------------
(* The process dies, or has stopped: a new one resumes from the committed  *)
(* offset.  A stop by signal is first some failures of the senders, each   *)
(* with or without effect, because their calls run under a cancelled       *)
(* context and Run closes the readers before they are done: a DLQ write    *)
(* may still land (OffloadFails), an outcome not be recorded               *)
(* (RecordSentFails, RecordDeadFails), a commit fail (CommitFails).        *)
Crash ==
    /\ Fault
    /\ buffer' = <<>>
    /\ pc' = [s \in Senders |-> "idle"]
    /\ job' = [s \in Senders |-> NoJob]
    /\ position' = committed
    /\ UNCHANGED <<storeVars, log, committed, outbox, outcomeVars>>

(* The broker takes the partition away and gives it back, or another       *)
(* worker's senders continue from the committed offset; jobs in memory     *)
(* stay.                                                                   *)
Reassign ==
    /\ Fault
    /\ Rebalance
    /\ UNCHANGED <<storeVars, workerVars>>
=============================================================================
