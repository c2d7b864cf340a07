------------------------------- MODULE Delivery -------------------------------
(***************************************************************************)
(* The pipeline of one work topic: requests, scheduler, reaper and worker  *)
(* running concurrently over one table and one topic, as composed by       *)
(* cmd/api, cmd/scheduler and cmd/worker.                                  *)
(***************************************************************************)
EXTENDS ApiHandler, Poller, WorkerPool

(* TRUE: REAPER_INFLIGHT_AFTER is longer than any delivery takes, which    *)
(* cmd/scheduler tries to ensure by raising it to its worst-case estimate. *)
CONSTANT LeaseHolds

ASSUME LeaseAssumption == LeaseHolds \in BOOLEAN

vars == <<envVars, storeVars, topicVars, apiVars, workerVars>>

TypeOK ==
    /\ EnvTypeOK
    /\ StoreTypeOK
    /\ TopicTypeOK
    /\ ApiTypeOK
    /\ WorkerTypeOK

Init == EnvInit /\ StoreInit /\ TopicInit /\ ApiInit /\ WorkerInit

-----------------------------------------------------------------------------
(* Between the claim and the record of the outcome. *)
InFlight(s) == pc[s] \in {"deliver", "sent", "offload", "dead"}

InDelivery(n) == \E s \in Senders : InFlight(s) /\ job[s].id = n

(* Someone is still going to do something about n. *)
Attended(n) ==
    \/ \E h \in Handlers : n \in batch[h]
    \/ \E c \in Publishers : n \in outbox[c]
    \/ \E i \in (position + 1)..Len(log) : log[i] = n
    \/ \E i \in 1..Len(buffer) : log[buffer[i]] = n
    \/ \E s \in Senders : job[s].id = n

HasDeadline(n) == row[n] \in Unfinished \cup {"scheduled"} /\ ~overdue[n]

(* scheduled_at, pendingAfter or inflightAfter passes for a row nobody     *)
(* attends to.                                                             *)
TimePasses(n) ==
    /\ HasDeadline(n)
    /\ ~Attended(n)
    /\ overdue' = [overdue EXCEPT ![n] = TRUE]
    /\ NoFault
    /\ UNCHANGED <<row, locks, topicVars, apiVars, workerVars>>

(* It passes although a request, a message or a sender is only slow. *)
TimePassesEarly(n) ==
    /\ HasDeadline(n)
    /\ Attended(n)
    /\ LeaseHolds => ~InDelivery(n)
    /\ overdue' = [overdue EXCEPT ![n] = TRUE]
    /\ Late
    /\ UNCHANGED <<row, locks, topicVars, apiVars, workerVars>>

-----------------------------------------------------------------------------
ApiStep(h) ==
    \/ \E ids, future \in SUBSET Notifications :
         ids # {} /\ future \subseteq ids /\ CreateNotifications(h, ids, future)
    \/ \E n \in Notifications : ApiWrite(h, n)
    \/ ApiMarkQueued(h)
    \/ ApiAbort(h)

PollerStep(p) ==
    \/ p \in Schedulers /\ SelectDue(p)
    \/ p \in Reapers /\ SelectStuck(p)
    \/ \E n \in Notifications : PollerWrite(p, n)
    \/ PollerCommit(p)
    \/ PollerAbort(p)

(* What sender s does when nothing fails. *)
SenderProgress(s) ==
    \/ TakeJob(s)
    \/ \E claimed \in BOOLEAN : Claim(s, claimed)
    \/ AttemptAccepted(s)
    \/ AttemptRetryable(s)
    \/ AttemptPermanent(s)
    \/ RecordSent(s)
    \/ Offload(s)
    \/ RecordDead(s)
    \/ CommitOffset(s)

SenderFailure(s) ==
    \/ ClaimFails(s)
    \/ AttemptAnswerLost(s)
    \/ RecordSentFails(s)
    \/ OffloadFails(s)
    \/ RecordDeadFails(s)
    \/ CommitFails(s)

FetcherStep == Fetch \/ FetchPoison

Next ==
    \/ \E h \in Handlers : ApiStep(h) /\ UNCHANGED workerVars
    \/ \E n \in Notifications : ApiCancel(n) /\ UNCHANGED workerVars
    \/ \E p \in Pollers : PollerStep(p) /\ UNCHANGED <<apiVars, workerVars>>
    \/ WritePoison /\ UNCHANGED <<storeVars, apiVars, workerVars>>
    \/ FetcherStep /\ UNCHANGED apiVars
    \/ \E s \in Senders : (SenderProgress(s) \/ SenderFailure(s)) /\ UNCHANGED apiVars
    \/ (Crash \/ Reassign) /\ UNCHANGED apiVars
    \/ \E n \in Notifications : TimePasses(n) \/ TimePassesEarly(n)

Spec == Init /\ [][Next]_vars

(* Goroutines that can run do run, tickers tick and clocks advance; nobody *)
(* has to create or cancel notifications, and nothing has to fail.         *)
Fairness ==
    /\ \A h \in Handlers :
         /\ WF_vars((\E n \in Notifications : ApiWrite(h, n)) /\ UNCHANGED workerVars)
         /\ WF_vars(ApiMarkQueued(h) /\ UNCHANGED workerVars)
    /\ \A p \in Pollers :
         WF_vars(/\ \/ p \in Schedulers /\ SelectDue(p)
                    \/ p \in Reapers /\ SelectStuck(p)
                    \/ \E n \in Notifications : PollerWrite(p, n)
                    \/ PollerCommit(p)
                 /\ UNCHANGED <<apiVars, workerVars>>)
    /\ WF_vars(FetcherStep /\ UNCHANGED apiVars)
    /\ \A s \in Senders : WF_vars(SenderProgress(s) /\ UNCHANGED apiVars)
    /\ \A n \in Notifications : WF_vars(TimePasses(n))

FairSpec == Spec /\ Fairness

-----------------------------------------------------------------------------
(* How often a threshold that passed too early may have taken a row from   *)
(* under its sender.                                                       *)
PrematureReaps == IF LeaseHolds THEN 0 ELSE late

(* Claim before send: as long as no threshold has passed before its        *)
(* delivery was over, a notification between claim and outcome is          *)
(* 'processing' in the table and in the hands of one sender only           *)
(* (MarkProcessing, ReapStuck).                                            *)
ClaimExclusive ==
    PrematureReaps = 0 =>
      \A s \in Senders : InFlight(s) =>
        /\ row[job[s].id] = "processing"
        /\ \A t \in Senders \ {s} : InFlight(t) => job[t].id # job[s].id

(* As long, 'sent', 'dead' and 'cancelled' are final, although MarkSent    *)
(* and MarkDead overwrite any status: they only meet 'processing'.         *)
FinalUntilPremature ==
    [][PrematureReaps = 0 =>
         \A n \in Notifications : row[n] \in Terminal => row'[n] = row[n]]_vars

SendersAt(n) == {s \in Senders : InFlight(s) /\ job[s].id = n}

(* How a window that is too short degrades: each premature threshold costs *)
(* at most one more sender at the same notification, however often it is   *)
(* published, redelivered or claimed (ReapStuck, MarkProcessing).          *)
SendersBounded ==
    \A n \in Notifications : Cardinality(SendersAt(n)) <= 1 + PrematureReaps

(* An outcome for n is on record, or its sender is about to record it. *)
Resolved(n) ==
    \/ row[n] \in {"sent", "dead"}
    \/ \E s \in Senders : pc[s] \in {"sent", "dead"} /\ job[s].id = n

(* Every outcome beyond the recorded one - a second delivery, a dead       *)
(* letter for a delivered message, a delivery of a cancelled notification  *)
(* - costs a failure or a premature reap: redeliveries, duplicate          *)
(* publishes, cancels and reaps of abandoned rows alone never cause one    *)
(* (process, MarkProcessing, ReapStuck).                                   *)
ExtraOutcomesNeedFaults ==
    \A n \in Notifications :
      accepted[n] + dlq[n] <=
        faults + PrematureReaps + (IF Resolved(n) THEN 1 ELSE 0)

InLog(n) == \E i \in 1..Len(log) : log[i] = n

(* A row is never 'queued' or beyond without having reached the topic      *)
(* (DispatchDue and publishAndQueue publish first, and a worker can only   *)
(* claim what it has read), whatever fails in between.                     *)
QueuedReachedTopic ==
    \A n \in Notifications :
      row[n] \in {"queued", "processing", "sent", "dead"} => InLog(n)

(* A scheduled notification whose time has not come is in no one's hands:  *)
(* not in the topic, not on its way there, not delivered (publishAndQueue  *)
(* skips it, DispatchDue selects by scheduled_at).                         *)
NotBeforeDue ==
    \A n \in Notifications :
      row[n] = "scheduled" /\ ~overdue[n] =>
        /\ ~InLog(n)
        /\ \A c \in Publishers : n \notin outbox[c]
        /\ accepted[n] = 0 /\ dlq[n] = 0

(* Until something fails, a worker skips a message only if its row is      *)
(* final, another sender is delivering it, or the scheduler that has       *)
(* published it is about to commit: never a row that nobody looks after    *)
(* (process commits the offset of a job whose claim fails).                *)
SkipsAreCovered ==
    [][\A s \in Senders :
         LET n == job[s].id
         IN  pc[s] = "claim" /\ pc'[s] = "commit" /\ faults = 0 =>
               \/ row[n] \in Terminal
               \/ InDelivery(n)
               \/ \E p \in Schedulers : n \in locks[p]]_vars

L == INSTANCE Lifecycle

(* The pipeline implements the lifecycle the client is promised, under the *)
(* assumption LeaseHolds.                                                  *)
LifecycleSpec == L!Spec

LifecycleStep == L!Next \/ UNCHANGED <<row, accepted, dlq>>

(* A sender that has lost the row of n goes on as if it had it. *)
LateOutcome(n) ==
    /\ row[n] # "processing"
    /\ \/ accepted' = [accepted EXCEPT ![n] = @ + 1] /\ UNCHANGED <<row, dlq>>
       \/ dlq' = [dlq EXCEPT ![n] = @ + 1] /\ UNCHANGED <<row, accepted>>
       \/ accepted[n] > 0 /\ L!Become({n}, "sent") /\ UNCHANGED <<accepted, dlq>>
       \/ dlq[n] > 0 /\ L!Become({n}, "dead") /\ UNCHANGED <<accepted, dlq>>

(* Whatever the window, nothing but a late outcome ever departs from the   *)
(* lifecycle, and only after a threshold has passed before a delivery was  *)
(* over (MarkSent, MarkDead, deliver, Cancel, DispatchDue, ReapStuck).     *)
OnlyLateOutcomesDepart ==
    [][\/ LifecycleStep
       \/ PrematureReaps > 0 /\ \E n \in Notifications : LateOutcome(n)]_vars

(* Every stored notification is sent, dead-lettered or cancelled in the    *)
(* end, however the failures, skipped messages and lost offsets fall: the  *)
(* reaper finds what Kafka will not redeliver.                             *)
EventuallySettled ==
    \A n \in Notifications : (row[n] # "absent") ~> (row[n] \in Terminal)

-----------------------------------------------------------------------------
(* Statements of the documentation that the code does not keep. *)

(* A claim fails only for a notification that is settled (the comment on   *)
(* MarkProcessing: "already sent/dead, or cancelled by the client").       *)
SkipOnlySettled ==
    [][\A s \in Senders :
         pc[s] = "claim" /\ pc'[s] = "commit" => row[job[s].id] \in Terminal]_vars

(* No transition leaves a final status (README: "every transition is a     *)
(* conditional UPDATE guarded by the current status").                     *)
FinalStatusStays ==
    [][\A n \in Notifications : row[n] \in Terminal => row'[n] = row[n]]_vars
=============================================================================
