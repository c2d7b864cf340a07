--------------------------- MODULE Refinement_proofs ---------------------------
(***************************************************************************)
(* Every step of Delivery is a step of Lifecycle or changes neither a      *)
(* status nor an outcome, but for late outcomes after a threshold that     *)
(* passed too early.  While the reaper's window outlasts every delivery    *)
(* there are none, and the pipeline implements Lifecycle.                  *)
(***************************************************************************)
EXTENDS Delivery_proofs

(* A sender about to record an outcome has seen it. *)
OutcomeSeen ==
    \A s \in Senders :
      /\ pc[s] = "sent" => accepted[job[s].id] > 0
      /\ pc[s] = "dead" => dlq[job[s].id] > 0

-----------------------------------------------------------------------------
LEMMA SetStatusIsBecome ==
  ASSUME NEW ids, NEW status, SetStatus(ids, status)
  PROVE  L!Become(ids, status)
BY DEF SetStatus, L!Become

LEMMA InitOutcomeSeen == Init => OutcomeSeen
BY DEF Init, WorkerInit, OutcomeSeen

Departure == PrematureReaps > 0 /\ \E n \in Notifications : LateOutcome(n)

(* What a sender does, in terms of Lifecycle: with its row in hand an      *)
(* outcome is one of Lifecycle's actions, without it a late one, and then  *)
(* a threshold has passed too early.                                       *)
LEMMA SenderStepRefines ==
  ASSUME SafetyInv, OutcomeSeen, SenderStep
  PROVE  LifecycleStep \/ Departure
<1>0. PICK s \in Senders : SenderProgress(s) \/ SenderFailure(s)
  BY DEF SenderStep
<1> DEFINE n == job[s].id
<1>1. /\ InFlight(s) /\ row[n] # "processing" => PrematureReaps > 0
      /\ pc[s] # "idle" => n \in Notifications
      /\ accepted \in [Notifications -> Nat] /\ dlq \in [Notifications -> Nat]
      /\ pc[s] = "sent" => accepted[n] > 0
      /\ pc[s] = "dead" => dlq[n] > 0
  <2>1. InFlight(s) /\ row[n] # "processing" => PrematureReaps # 0
    BY DEF SafetyInv, ExclusiveInv
  <2>2. PrematureReaps \in Nat
    BY DEF SafetyInv, TypeInv, TypeOK, EnvTypeOK, PrematureReaps
  <2>3. /\ pc[s] # "idle" => n \in Notifications
        /\ accepted \in [Notifications -> Nat] /\ dlq \in [Notifications -> Nat]
        /\ pc[s] = "sent" => accepted[n] > 0
        /\ pc[s] = "dead" => dlq[n] > 0
    BY DEF SafetyInv, TypeInv, TypeOK, WorkerTypeOK, OutcomeSeen
  <2> QED BY <2>1, <2>2, <2>3
<1>2. ASSUME pc[s] = "claim", row[n] \in Claimable, SetStatus({n}, "processing"),
             UNCHANGED outcomeVars
      PROVE  LifecycleStep
  <2>1. L!Claim(n)
    BY <1>2, SetStatusIsBecome DEF L!Claim, Claimable, outcomeVars
  <2> QED BY <1>1, <1>2, <2>1 DEF LifecycleStep, L!Next
<1>3. ASSUME pc[s] = "deliver", ProviderAccepts(n), UNCHANGED storeVars
      PROVE  LifecycleStep \/ Departure
  <2>1. /\ InFlight(s) /\ n \in Notifications /\ UNCHANGED <<row, dlq>>
        /\ accepted' = [accepted EXCEPT ![n] = @ + 1]
    BY <1>1, <1>3 DEF InFlight, ProviderAccepts, storeVars
  <2>2. row[n] = "processing" => L!Accept(n)
    BY <2>1 DEF L!Accept
  <2>3. row[n] # "processing" => LateOutcome(n)
    BY <2>1 DEF LateOutcome
  <2> QED BY <1>1, <2>1, <2>2, <2>3 DEF LifecycleStep, L!Next, Departure
<1>4. ASSUME pc[s] = "offload", dlq' = [dlq EXCEPT ![n] = @ + 1], UNCHANGED <<storeVars, accepted>>
      PROVE  LifecycleStep \/ Departure
  <2>1. InFlight(s) /\ n \in Notifications /\ UNCHANGED <<row, accepted>>
    BY <1>1, <1>4 DEF InFlight, storeVars
  <2>2. row[n] = "processing" => L!DeadLetter(n)
    BY <1>4, <2>1 DEF L!DeadLetter
  <2>3. row[n] # "processing" => LateOutcome(n)
    BY <1>4, <2>1 DEF LateOutcome
  <2> QED BY <1>1, <2>1, <2>2, <2>3 DEF LifecycleStep, L!Next, Departure
<1>5. ASSUME UNCHANGED outcomeVars,
             \/ pc[s] = "sent" /\ SetStatus({n}, "sent")
             \/ pc[s] = "dead" /\ SetStatus({n}, "dead")
      PROVE  LifecycleStep \/ Departure
  <2>1. /\ InFlight(s) /\ n \in Notifications /\ UNCHANGED <<accepted, dlq>>
        /\ \/ accepted[n] > 0 /\ L!Become({n}, "sent")
           \/ dlq[n] > 0 /\ L!Become({n}, "dead")
    BY <1>1, <1>5, SetStatusIsBecome DEF InFlight, outcomeVars
  <2>2. row[n] = "processing" => L!Settle(n)
    BY <2>1 DEF L!Settle
  <2>3. row[n] # "processing" => LateOutcome(n)
    BY <2>1 DEF LateOutcome
  <2> QED BY <1>1, <2>1, <2>2, <2>3 DEF LifecycleStep, L!Next, Departure
<1>6. UNCHANGED <<storeVars, outcomeVars>> => LifecycleStep
  BY DEF LifecycleStep, storeVars, outcomeVars
<1>7. CASE SenderProgress(s)
  <2>1. CASE \E claimed \in BOOLEAN : Claim(s, claimed)
    BY <1>2, <1>6, <2>1 DEF Claim, MarkProcessing
  <2>2. CASE AttemptAccepted(s)
    BY <1>3, <2>2 DEF AttemptAccepted
  <2>3. CASE RecordSent(s) \/ RecordDead(s)
    BY <1>5, <2>3 DEF RecordSent, RecordDead, MarkSent, MarkDead
  <2>4. CASE Offload(s)
    BY <1>4, <2>4 DEF Offload
  <2>5. CASE TakeJob(s) \/ AttemptRetryable(s) \/ AttemptPermanent(s) \/ CommitOffset(s)
    BY <1>6, <2>5 DEF TakeJob, AttemptRetryable, AttemptPermanent, CommitOffset
  <2> QED BY <1>7, <2>1, <2>2, <2>3, <2>4, <2>5 DEF SenderProgress
<1>8. CASE SenderFailure(s)
  <2>1. CASE ClaimFails(s)
    BY <1>2, <1>6, <2>1 DEF ClaimFails, MarkProcessing
  <2>2. CASE AttemptAnswerLost(s)
    BY <1>3, <2>2 DEF AttemptAnswerLost
  <2>3. CASE OffloadFails(s)
    BY <1>4, <1>6, <2>3 DEF OffloadFails, outcomeVars
  <2>4. CASE RecordSentFails(s) \/ RecordDeadFails(s) \/ CommitFails(s)
    BY <1>6, <2>4 DEF RecordSentFails, RecordDeadFails, CommitFails
  <2> QED BY <1>8, <2>1, <2>2, <2>3, <2>4 DEF SenderFailure
<1> QED BY <1>0, <1>7, <1>8

LEMMA OtherStepRefines ==
  ASSUME SafetyInv, OtherStep
  PROVE  LifecycleStep
<1>0. /\ UNCHANGED <<accepted, dlq>>
      /\ batch \in [Handlers -> SUBSET Notifications]
      /\ locks \in [Pollers -> SUBSET Notifications]
  BY OtherStepFrame DEF SafetyInv, TypeInv, TypeOK, ApiTypeOK, StoreTypeOK
<1>1. ASSUME row' = row PROVE LifecycleStep
  BY <1>0, <1>1 DEF LifecycleStep
<1>2. ASSUME NEW ids \in SUBSET Notifications, SetStatus(ids, "queued"),
             \A n \in ids : row[n] \in {"pending", "scheduled", "queued", "processing"}
      PROVE  LifecycleStep
  <2>1. L!Enqueue(ids)
    BY <1>0, <1>2, SetStatusIsBecome DEF L!Enqueue
  <2> QED BY <2>1 DEF LifecycleStep, L!Next
<1>3. ASSUME NEW h \in Handlers, ApiStep(h) PROVE LifecycleStep
  <2>1. ASSUME NEW ids \in SUBSET Notifications, NEW future \in SUBSET Notifications,
               CreateNotifications(h, ids, future)
        PROVE  LifecycleStep
    <3>1. L!Create(ids, future)
      BY <1>0, <2>1 DEF CreateNotifications, Insert, L!Create
    <3> QED BY <3>1 DEF LifecycleStep, L!Next
  <2>2. CASE ApiMarkQueued(h)
    BY <1>0, <1>2, <2>2 DEF ApiMarkQueued, MarkQueued
  <2>3. CASE ApiAbort(h) \/ \E n \in Notifications : ApiWrite(h, n)
    BY <1>1, <2>3 DEF ApiAbort, ApiWrite, storeVars
  <2> QED BY <1>3, <2>1, <2>2, <2>3 DEF ApiStep
<1>4. ASSUME NEW n \in Notifications, ApiCancel(n) PROVE LifecycleStep
  <2>1. L!Cancel(n)
    BY <1>0, <1>4, SetStatusIsBecome DEF ApiCancel, CancelRow, Cancellable, L!Cancel
  <2> QED BY <2>1 DEF LifecycleStep, L!Next
<1>5. ASSUME NEW p \in Pollers, PollerStep(p) PROVE LifecycleStep
  <2>1. CASE PollerCommit(p)
    <3>1. \A n \in locks[p] : row[n] \in {"pending", "scheduled", "queued", "processing"}
      BY <1>5 DEF SafetyInv, LockInv, Unfinished, Pollers
    <3> QED BY <1>0, <1>2, <1>5, <2>1, <3>1 DEF PollerCommit, CommitQueued
  <2>2. CASE SelectDue(p) \/ SelectStuck(p) \/ PollerAbort(p) \/ \E n \in Notifications : PollerWrite(p, n)
    BY <1>1, <2>2 DEF SelectDue, SelectStuck, SelectSkipLocked, PollerAbort, Rollback, PollerWrite,
                storeVars
  <2> QED BY <1>5, <2>1, <2>2 DEF PollerStep
<1>6. CASE \/ WritePoison /\ UNCHANGED <<storeVars, apiVars, workerVars>>
           \/ FetcherStep \/ Reassign
           \/ \E n \in Notifications : TimePasses(n) \/ TimePassesEarly(n)
           \/ UNCHANGED vars
  BY <1>1, <1>6 DEF FetcherStep, Fetch, FetchPoison, Reassign, TimePasses, TimePassesEarly, vars,
         storeVars
<1> QED BY <1>3, <1>4, <1>5, <1>6 DEF OtherStep

-----------------------------------------------------------------------------
LEMMA NextOutcomeSeen == SafetyInv /\ OutcomeSeen /\ [Next]_vars => OutcomeSeen'
<1> SUFFICES ASSUME SafetyInv, OutcomeSeen, [Next]_vars PROVE OutcomeSeen'
  OBVIOUS
<1>0. /\ TypeInv
      /\ pc \in [Senders -> Steps] /\ job \in [Senders -> Job]
      /\ accepted \in [Notifications -> Nat] /\ dlq \in [Notifications -> Nat]
      /\ \A s \in Senders : pc[s] # "idle" => job[s].id \in Notifications
  BY DEF SafetyInv, TypeInv, TypeOK, WorkerTypeOK
<1>1. CASE SenderStep
  <2>1. PICK s \in Senders : SenderProgress(s) \/ SenderFailure(s)
    BY <1>1 DEF SenderStep
  <2> DEFINE n == job[s].id
  <2>2. /\ \A t \in Senders \ {s} : pc'[t] = pc[t] /\ job'[t] = job[t]
        /\ pc'[s] \in {"sent", "dead"} => job'[s].id = n
    BY <1>0, <2>1, SenderStepShape
  <2>3. \A m \in Notifications :
          /\ accepted'[m] \in {accepted[m], accepted[m] + 1}
          /\ dlq'[m] \in {dlq[m], dlq[m] + 1}
    <3>1. /\ accepted' = accepted \/ accepted' = [accepted EXCEPT ![n] = @ + 1]
          /\ dlq' = dlq \/ dlq' = [dlq EXCEPT ![n] = @ + 1]
      BY <2>1 DEF SenderProgress, SenderFailure, TakeJob, Claim, AttemptAccepted,
             AttemptRetryable, AttemptPermanent, RecordSent, Offload, RecordDead, CommitOffset,
             ClaimFails, AttemptAnswerLost, RecordSentFails, OffloadFails, RecordDeadFails,
             CommitFails, ProviderAccepts, outcomeVars
    <3> QED BY <1>0, <3>1
  <2>4. /\ pc'[s] = "sent" => AttemptAccepted(s)
        /\ pc'[s] = "dead" => Offload(s)
    BY <1>0, <2>1 DEF SenderProgress, SenderFailure, TakeJob, Claim, AttemptRetryable,
           AttemptPermanent, RecordSent, RecordDead, CommitOffset, ClaimFails,
           AttemptAnswerLost, RecordSentFails, OffloadFails, RecordDeadFails, CommitFails,
           RetryOrGiveUp, LeaveLoop, Goto, Finish, AttemptAccepted, Offload
  <2>5. pc'[s] = "sent" => accepted'[n] > 0
    BY <1>0, <2>4 DEF AttemptAccepted, ProviderAccepts
  <2>6. pc'[s] = "dead" => dlq'[n] > 0
    BY <1>0, <2>4 DEF Offload
  <2> SUFFICES ASSUME NEW t \in Senders
               PROVE  /\ pc'[t] = "sent" => accepted'[job'[t].id] > 0
                      /\ pc'[t] = "dead" => dlq'[job'[t].id] > 0
    BY DEF OutcomeSeen
  <2>7. CASE t = s
    BY <2>2, <2>5, <2>6, <2>7
  <2>8. CASE t # s
    <3>1. pc'[t] = pc[t] /\ job'[t] = job[t]
      BY <2>2, <2>8
    <3>2. CASE pc[t] \in {"sent", "dead"}
      <4>1. job[t].id \in Notifications
        BY <1>0, <3>2
      <4>2. /\ accepted'[job[t].id] \in {accepted[job[t].id], accepted[job[t].id] + 1}
            /\ dlq'[job[t].id] \in {dlq[job[t].id], dlq[job[t].id] + 1}
            /\ accepted[job[t].id] \in Nat /\ dlq[job[t].id] \in Nat
        BY <1>0, <2>3, <4>1
      <4> QED BY <3>1, <4>2 DEF OutcomeSeen
    <3> QED BY <3>1, <3>2
  <2> QED BY <2>7, <2>8
<1>2. CASE Crash
  BY <1>2 DEF Crash, OutcomeSeen
<1>3. CASE OtherStep
  BY <1>0, <1>3, OtherStepFrame DEF OutcomeSeen
<1> QED BY <1>1, <1>2, <1>3, NextCases

LEMMA StepDeparts ==
  ASSUME SafetyInv, OutcomeSeen, [Next]_vars
  PROVE  LifecycleStep \/ Departure
<1>1. Crash => LifecycleStep
  BY DEF Crash, storeVars, outcomeVars, LifecycleStep
<1> QED BY <1>1, SenderStepRefines, OtherStepRefines, NextCases

LEMMA OutcomeSeenInvariant == Spec => []OutcomeSeen
BY InitOutcomeSeen, NextOutcomeSeen, SafetyInvariant, PTL DEF Spec

(* Whatever window is configured, and whatever fails, the pipeline leaves  *)
(* the documented state machine only by the late outcome of a sender that  *)
(* a premature reap has deprived of its row (all of cmd/api, cmd/scheduler *)
(* and cmd/worker against domain.Status; MarkSent, MarkDead).              *)
THEOREM OnlyLateDepartures == Spec => OnlyLateOutcomesDepart
<1> DEFINE Step == \/ LifecycleStep
                   \/ PrematureReaps > 0 /\ \E n \in Notifications : LateOutcome(n)
<1>1. SafetyInv /\ OutcomeSeen /\ [Next]_vars => [Step]_vars
  BY StepDeparts DEF Departure
<1> QED BY <1>1, SafetyInvariant, OutcomeSeenInvariant, PTL DEF Spec, OnlyLateOutcomesDepart

(* The pipeline implements the lifecycle the client is promised, for any   *)
(* number of notifications, processes and failures, when the reaper's      *)
(* window outlasts every delivery (all of cmd/api, cmd/scheduler and       *)
(* cmd/worker against the state machine documented on domain.Status).      *)
THEOREM PipelineImplementsLifecycle ==
  ASSUME LeaseHolds
  PROVE  Spec => LifecycleSpec
<1>1. Init => L!Init
  BY DEF Init, StoreInit, WorkerInit, L!Init
<1>2. SafetyInv /\ OutcomeSeen /\ [Next]_vars => [L!Next]_(L!lifecycleVars)
  <2> SUFFICES ASSUME SafetyInv, OutcomeSeen, [Next]_vars
               PROVE  [L!Next]_(L!lifecycleVars)
    OBVIOUS
  <2>1. ~Departure
    BY DEF Departure, PrematureReaps
  <2>2. LifecycleStep
    BY <2>1, StepDeparts
  <2> QED BY <2>2 DEF LifecycleStep, L!lifecycleVars
<1> QED BY <1>1, <1>2, SafetyInvariant, OutcomeSeenInvariant, PTL DEF Spec, LifecycleSpec, L!Spec
=============================================================================
