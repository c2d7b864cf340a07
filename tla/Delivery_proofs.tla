---------------------------- MODULE Delivery_proofs ----------------------------
(***************************************************************************)
(* Theorems about Delivery and their proofs.                               *)
(***************************************************************************)
EXTENDS Delivery, FiniteSetTheorems, TLAPS

(* What the senders and the fetcher hold in memory points into the log. *)
MemoryOK ==
    /\ \A i \in 1..Len(buffer) : buffer[i] \in 1..Len(log) /\ log[buffer[i]] \in Notifications
    /\ \A s \in Senders : job[s].offset \in 0..Len(log)

TypeInv == TypeOK /\ MemoryOK

LEMMA InitTypeInv == Init => TypeInv
BY BudgetAssumption, WorkerAssumption
   DEF Init, TypeInv, TypeOK, MemoryOK, EnvInit, StoreInit, TopicInit, ApiInit, WorkerInit,
       EnvTypeOK, StoreTypeOK, TopicTypeOK, ApiTypeOK, WorkerTypeOK, RowState, Status,
       Job, NoJob, Steps

-----------------------------------------------------------------------------
(* The operations of each component keep that component's part of the type *)
(* invariant.                                                              *)

LEMMA EnvType ==
  ASSUME EnvTypeOK
  PROVE  /\ NoFault => EnvTypeOK'
         /\ Fault => EnvTypeOK'
         /\ Late => EnvTypeOK'
BY BudgetAssumption DEF EnvTypeOK, NoFault, Fault, Late, envVars

LEMMA SetStatusType ==
  ASSUME StoreTypeOK, NEW ids, NEW status \in RowState, SetStatus(ids, status)
  PROVE  row' \in [Notifications -> RowState] /\ overdue' \in [Notifications -> BOOLEAN]
BY DEF StoreTypeOK, SetStatus

LEMMA StoreType ==
  ASSUME StoreTypeOK
  PROVE  /\ UNCHANGED storeVars => StoreTypeOK'
         /\ \A ids, future : Insert(ids, future) => StoreTypeOK'
         /\ \A ids : MarkQueued(ids) => StoreTypeOK'
         /\ \A n, claimed : MarkProcessing(n, claimed) => StoreTypeOK'
         /\ \A n : MarkSent(n) \/ MarkDead(n) \/ CancelRow(n) => StoreTypeOK'
         /\ \A p \in Pollers :
              /\ \A S \in SUBSET Notifications : SelectSkipLocked(p, S) => StoreTypeOK'
              /\ CommitQueued(p) \/ Rollback(p) => StoreTypeOK'
<1>0. Status \subseteq RowState
  BY DEF RowState
<1>1. UNCHANGED storeVars => StoreTypeOK'
  BY DEF StoreTypeOK, storeVars
<1>2. ASSUME NEW ids, NEW future, Insert(ids, future) PROVE StoreTypeOK'
  BY <1>2 DEF StoreTypeOK, Insert, RowState, Status
<1>3. ASSUME NEW ids, MarkQueued(ids) PROVE StoreTypeOK'
  BY <1>3, SetStatusType DEF StoreTypeOK, MarkQueued, RowState, Status
<1>4. ASSUME NEW n, NEW claimed, MarkProcessing(n, claimed) PROVE StoreTypeOK'
  BY <1>1, <1>4, SetStatusType DEF StoreTypeOK, MarkProcessing, RowState, Status
<1>5. ASSUME NEW n, MarkSent(n) \/ MarkDead(n) \/ CancelRow(n) PROVE StoreTypeOK'
  BY <1>5, SetStatusType DEF StoreTypeOK, MarkSent, MarkDead, CancelRow, RowState, Status
<1>6. ASSUME NEW p \in Pollers, NEW S \in SUBSET Notifications, SelectSkipLocked(p, S)
      PROVE  StoreTypeOK'
  BY <1>6 DEF StoreTypeOK, SelectSkipLocked
<1>7. ASSUME NEW p \in Pollers, CommitQueued(p) \/ Rollback(p) PROVE StoreTypeOK'
  BY <1>7, SetStatusType DEF StoreTypeOK, CommitQueued, Rollback, RowState, Status
<1> QED BY <1>1, <1>2, <1>3, <1>4, <1>5, <1>6, <1>7

LEMMA TopicType ==
  ASSUME TopicTypeOK
  PROVE  /\ UNCHANGED topicVars => TopicTypeOK'
         /\ \A c \in Publishers :
              /\ \A ids \in SUBSET Notifications : StartPublish(c, ids) => TopicTypeOK'
              /\ \A n \in Notifications : WriteMessage(c, n) => TopicTypeOK'
              /\ AbandonPublish(c) => TopicTypeOK'
         /\ WritePoison => TopicTypeOK'
         /\ FetchMessage /\ (committed' = committed \/ committed' = position') => TopicTypeOK'
         /\ \A o \in 0..Len(log) : CommitMessage(o) => TopicTypeOK'
         /\ Rebalance => TopicTypeOK'
<1> USE DEF TopicTypeOK
<1>1. UNCHANGED topicVars => TopicTypeOK'
  BY DEF topicVars
<1>2. ASSUME NEW c \in Publishers, NEW ids \in SUBSET Notifications, StartPublish(c, ids)
      PROVE  TopicTypeOK'
  BY <1>2 DEF StartPublish
<1>3. ASSUME NEW c \in Publishers, NEW n \in Notifications, WriteMessage(c, n)
      PROVE  TopicTypeOK'
  BY <1>3 DEF WriteMessage
<1>4. ASSUME NEW c \in Publishers, AbandonPublish(c) PROVE TopicTypeOK'
  BY <1>4 DEF AbandonPublish
<1>5. WritePoison => TopicTypeOK'
  BY DEF WritePoison
<1>6. FetchMessage /\ (committed' = committed \/ committed' = position') => TopicTypeOK'
  BY DEF FetchMessage
<1>7. \A o \in 0..Len(log) : CommitMessage(o) => TopicTypeOK'
  BY DEF CommitMessage
<1>8. Rebalance => TopicTypeOK'
  BY DEF Rebalance
<1> QED BY <1>1, <1>2, <1>3, <1>4, <1>5, <1>6, <1>7, <1>8

(* Appending to the log leaves what memory points to in place. *)
LEMMA MemoryStays ==
  ASSUME TopicTypeOK, WorkerTypeOK, MemoryOK, UNCHANGED workerVars,
         \/ log' = log
         \/ \E m \in Notifications \cup {Poison} : log' = Append(log, m)
  PROVE  WorkerTypeOK' /\ MemoryOK'
<1>1. WorkerTypeOK'
  BY DEF WorkerTypeOK, workerVars
<1>2. \A i \in 1..Len(log) : i \in 1..Len(log') /\ log'[i] = log[i]
  BY DEF TopicTypeOK
<1>3. Len(log) \in Nat /\ Len(log') \in Nat /\ Len(log) <= Len(log')
  BY DEF TopicTypeOK
<1>4. \A s \in Senders : job[s].offset \in 0..Len(log')
  BY <1>3 DEF MemoryOK
<1> QED BY <1>1, <1>2, <1>4 DEF MemoryOK, workerVars

(* The state of one sender changes to a typed one. *)
LEMMA SenderMoves ==
  ASSUME WorkerTypeOK, NEW s \in Senders, NEW step \in Steps, NEW j \in Job,
         step # "idle" => j.id \in Notifications,
         pc' = [pc EXCEPT ![s] = step], job' = [job EXCEPT ![s] = j]
  PROVE  /\ pc' \in [Senders -> Steps]
         /\ job' \in [Senders -> Job]
         /\ \A t \in Senders : pc'[t] # "idle" => job'[t].id \in Notifications
BY DEF WorkerTypeOK

LEMMA SenderStepType ==
  ASSUME TypeInv, NEW s \in Senders, SenderProgress(s) \/ SenderFailure(s)
  PROVE  WorkerTypeOK' /\ MemoryOK'
<1> DEFINE n == job[s].id
<1>0. /\ WorkerTypeOK /\ MemoryOK /\ TopicTypeOK /\ NoJob \in Job
      /\ pc[s] # "idle" => n \in Notifications
      /\ pc \in [Senders -> Steps] /\ job \in [Senders -> Job]
      /\ accepted \in [Notifications -> Nat] /\ dlq \in [Notifications -> Nat]
      /\ log \in Seq(Notifications \cup {Poison}) /\ buffer \in Seq(Nat)
  BY WorkerAssumption DEF TypeInv, TypeOK, NoJob, Job, WorkerTypeOK, TopicTypeOK
<1>1. ASSUME NEW step \in Steps, step # "idle" => n \in Notifications, Goto(s, step),
             UNCHANGED job,
             UNCHANGED <<buffer, log>>,
             accepted' \in [Notifications -> Nat], dlq' \in [Notifications -> Nat]
      PROVE  WorkerTypeOK' /\ MemoryOK'
  BY <1>0, <1>1 DEF Goto, WorkerTypeOK, MemoryOK
<1>2. ASSUME Finish(s), UNCHANGED <<buffer, log>>,
             accepted' \in [Notifications -> Nat], dlq' \in [Notifications -> Nat]
      PROVE  WorkerTypeOK' /\ MemoryOK'
  <2>1. pc' = [pc EXCEPT ![s] = "idle"] /\ job' = [job EXCEPT ![s] = NoJob]
    BY <1>2 DEF Finish, Goto
  <2>2. WorkerTypeOK'
    BY <1>0, <1>2, <2>1, SenderMoves DEF WorkerTypeOK, Steps
  <2>3. NoJob.offset \in 0..Len(log)
    BY <1>0 DEF NoJob
  <2>4. MemoryOK'
    BY <1>0, <1>2, <2>1, <2>3 DEF MemoryOK
  <2> QED BY <2>2, <2>4
<1>3. CASE TakeJob(s)
  <2>1. Head(buffer) = buffer[1] /\ 1 \in 1..Len(buffer)
    BY <1>0, <1>3 DEF TakeJob
  <2>2. /\ Head(buffer) \in 1..Len(log) /\ log[Head(buffer)] \in Notifications
    BY <1>0, <2>1 DEF MemoryOK
  <2> DEFINE j == [offset |-> Head(buffer), id |-> log[Head(buffer)], attempt |-> 1]
  <2>3. j \in Job /\ j.id \in Notifications /\ j.offset \in 0..Len(log)
    BY <1>0, <2>2, WorkerAssumption DEF Job
  <2>4. /\ Tail(buffer) \in Seq(Nat)
        /\ Len(Tail(buffer)) = Len(buffer) - 1
        /\ \A i \in 1..Len(Tail(buffer)) : Tail(buffer)[i] = buffer[i+1] /\ i+1 \in 1..Len(buffer)
    BY <1>0, <1>3 DEF TakeJob
  <2>5. "claim" \in Steps /\ "claim" # "idle"
    BY DEF Steps
  <2>6. pc' = [pc EXCEPT ![s] = "claim"] /\ job' = [job EXCEPT ![s] = j]
        /\ buffer' = Tail(buffer) /\ log' = log /\ UNCHANGED <<accepted, dlq>>
    BY <1>3 DEF TakeJob, Goto, topicVars, outcomeVars
  <2>7. WorkerTypeOK'
    BY <1>0, <2>3, <2>4, <2>5, <2>6, SenderMoves DEF WorkerTypeOK
  <2>8. MemoryOK'
    <3>1. \A i \in 1..Len(buffer') : buffer'[i] \in 1..Len(log') /\ log'[buffer'[i]] \in Notifications
      BY <1>0, <2>4, <2>6 DEF MemoryOK
    <3>2. \A t \in Senders : job'[t].offset \in 0..Len(log')
      BY <1>0, <2>3, <2>6 DEF MemoryOK
    <3> QED BY <3>1, <3>2 DEF MemoryOK
  <2> QED BY <2>7, <2>8
<1>4. CASE \E claimed \in BOOLEAN : Claim(s, claimed)
  BY <1>0, <1>1, <1>4 DEF Claim, topicVars, outcomeVars, Steps
<1>2a. ASSUME NEW next \in Steps, pc[s] = "deliver", LeaveLoop(s, next), UNCHANGED <<buffer, log>>,
              accepted' \in [Notifications -> Nat], dlq' \in [Notifications -> Nat]
       PROVE  WorkerTypeOK' /\ MemoryOK'
  <2> DEFINE j == [job[s] EXCEPT !.attempt = 1]
  <2>1. job[s] \in Job /\ 1 \in 1..MaxAttempts
    BY <1>0, WorkerAssumption
  <2>2. j \in Job /\ j.id = n /\ j.offset = job[s].offset
    BY <2>1 DEF Job
  <2>3. job' = [job EXCEPT ![s] = j] /\ pc' = [pc EXCEPT ![s] = next]
    BY <1>0, <1>2a DEF LeaveLoop, Goto
  <2> QED BY <1>0, <1>2a, <2>2, <2>3 DEF WorkerTypeOK, MemoryOK
<1>5. CASE AttemptAccepted(s)
  BY <1>0, <1>5, <1>2a DEF AttemptAccepted, ProviderAccepts, topicVars, Steps
<1>6. ASSUME pc[s] = "deliver", RetryOrGiveUp(s), UNCHANGED <<buffer, log>>,
             accepted' \in [Notifications -> Nat], dlq' \in [Notifications -> Nat]
      PROVE  WorkerTypeOK' /\ MemoryOK'
  <2>1. CASE /\ job[s].attempt < MaxAttempts
             /\ job' = [job EXCEPT ![s].attempt = @ + 1]
             /\ UNCHANGED pc
    <3> DEFINE j == [job[s] EXCEPT !.attempt = @ + 1]
    <3>0. job[s] \in Job /\ job[s].attempt + 1 \in 1..MaxAttempts
      BY <1>0, <2>1, WorkerAssumption DEF Job
    <3>1. j \in Job /\ j.id = n /\ j.offset = job[s].offset
      BY <3>0 DEF Job
    <3>2. job' = [job EXCEPT ![s] = j]
      BY <1>0, <2>1
    <3> QED BY <1>0, <1>6, <2>1, <3>1, <3>2 DEF WorkerTypeOK, MemoryOK
  <2>2. CASE LeaveLoop(s, "offload")
    BY <1>6, <1>2a, <2>2 DEF Steps
  <2> QED BY <1>6, <2>1, <2>2 DEF RetryOrGiveUp
<1>7. CASE AttemptRetryable(s) \/ AttemptAnswerLost(s)
  BY <1>0, <1>6, <1>7
     DEF AttemptRetryable, AttemptAnswerLost, ProviderAccepts, topicVars, outcomeVars
<1>8. CASE AttemptPermanent(s)
  BY <1>0, <1>8, <1>2a DEF AttemptPermanent, topicVars, outcomeVars, Steps
<1>9. CASE RecordSent(s) \/ RecordSentFails(s) \/ RecordDead(s) \/ RecordDeadFails(s)
  BY <1>0, <1>1, <1>9
     DEF RecordSent, RecordSentFails, RecordDead, RecordDeadFails, topicVars, outcomeVars, Steps
<1>10. CASE Offload(s)
  BY <1>0, <1>1, <1>10 DEF Offload, topicVars, Steps
<1>11. CASE OffloadFails(s)
  <2>1. dlq' \in [Notifications -> Nat] /\ accepted' \in [Notifications -> Nat]
    BY <1>0, <1>11 DEF OffloadFails
  <2> QED BY <1>2, <1>11, <2>1 DEF OffloadFails, topicVars
<1>12. CASE CommitOffset(s) \/ CommitFails(s) \/ ClaimFails(s)
  BY <1>0, <1>2, <1>12
     DEF CommitOffset, CommitMessage, CommitFails, ClaimFails, topicVars, outcomeVars
<1> QED
  BY <1>3, <1>4, <1>5, <1>7, <1>8, <1>9, <1>10, <1>11, <1>12 DEF SenderProgress, SenderFailure

LEMMA ApiStepType ==
  ASSUME TypeInv, NEW h \in Handlers, ApiStep(h), UNCHANGED workerVars
  PROVE  TypeInv'
<1>0. /\ EnvTypeOK /\ StoreTypeOK /\ TopicTypeOK /\ ApiTypeOK /\ WorkerTypeOK /\ MemoryOK
      /\ h \in Publishers
  BY DEF TypeInv, TypeOK, Publishers
<1>1. CASE \E ids, future \in SUBSET Notifications :
              ids # {} /\ future \subseteq ids /\ CreateNotifications(h, ids, future)
  <2>1. PICK ids \in SUBSET Notifications, future \in SUBSET Notifications :
               CreateNotifications(h, ids, future)
    BY <1>1
  <2>2. ids \ future \in SUBSET Notifications
    OBVIOUS
  <2>3. EnvTypeOK' /\ StoreTypeOK' /\ TopicTypeOK'
    BY <1>0, <2>1, <2>2, EnvType, StoreType, TopicType DEF CreateNotifications
  <2>4. ApiTypeOK'
    BY <1>0, <2>1, <2>2 DEF CreateNotifications, ApiTypeOK
  <2>5. log' = log
    BY <2>1 DEF CreateNotifications, StartPublish
  <2> QED BY <1>0, <2>3, <2>4, <2>5, MemoryStays DEF TypeInv, TypeOK
<1>2. CASE \E n \in Notifications : ApiWrite(h, n)
  <2>1. PICK n \in Notifications : ApiWrite(h, n)
    BY <1>2
  <2>2. EnvTypeOK' /\ StoreTypeOK' /\ TopicTypeOK' /\ ApiTypeOK'
    BY <1>0, <2>1, EnvType, StoreType, TopicType DEF ApiWrite, ApiTypeOK, apiVars
  <2>3. log' = Append(log, n)
    BY <2>1 DEF ApiWrite, WriteMessage
  <2> QED BY <1>0, <2>2, <2>3, MemoryStays DEF TypeInv, TypeOK
<1>3. CASE ApiMarkQueued(h)
  <2>1. EnvTypeOK' /\ StoreTypeOK' /\ TopicTypeOK' /\ log' = log
    BY <1>0, <1>3, EnvType, StoreType, TopicType DEF ApiMarkQueued, topicVars
  <2>2. ApiTypeOK'
    BY <1>0, <1>3 DEF ApiMarkQueued, ApiTypeOK
  <2> QED BY <1>0, <2>1, <2>2, MemoryStays DEF TypeInv, TypeOK
<1>4. CASE ApiAbort(h)
  <2>1. EnvTypeOK' /\ StoreTypeOK' /\ TopicTypeOK' /\ log' = log
    BY <1>0, <1>4, EnvType, StoreType, TopicType DEF ApiAbort, AbandonPublish
  <2>2. ApiTypeOK'
    BY <1>0, <1>4 DEF ApiAbort, ApiTypeOK
  <2> QED BY <1>0, <2>1, <2>2, MemoryStays DEF TypeInv, TypeOK
<1> QED BY <1>1, <1>2, <1>3, <1>4 DEF ApiStep

LEMMA PollerStepType ==
  ASSUME TypeInv, NEW p \in Pollers, PollerStep(p), UNCHANGED <<apiVars, workerVars>>
  PROVE  TypeInv'
<1>0. /\ EnvTypeOK /\ StoreTypeOK /\ TopicTypeOK /\ WorkerTypeOK /\ MemoryOK /\ ApiTypeOK'
      /\ p \in Publishers
  BY DEF TypeInv, TypeOK, Publishers, ApiTypeOK, apiVars
<1>1. ASSUME NEW S \in SUBSET Notifications, SelectSkipLocked(p, S), StartPublish(p, locks'[p]),
             NoFault
      PROVE  TypeInv'
  <2>1. locks'[p] \in SUBSET Notifications
    BY <1>0, <1>1, StoreType DEF StoreTypeOK
  <2>2. EnvTypeOK' /\ StoreTypeOK' /\ TopicTypeOK' /\ log' = log
    BY <1>0, <1>1, <2>1, EnvType, StoreType, TopicType DEF StartPublish
  <2> QED BY <1>0, <2>2, MemoryStays DEF TypeInv, TypeOK
<1>2. CASE SelectDue(p) \/ SelectStuck(p)
  <2>1. Due \in SUBSET Notifications /\ Stuck \in SUBSET Notifications
    BY DEF Due, Stuck
  <2> QED BY <1>1, <1>2, <2>1 DEF SelectDue, SelectStuck
<1>3. CASE \E n \in Notifications : PollerWrite(p, n)
  <2>1. PICK n \in Notifications : PollerWrite(p, n)
    BY <1>3
  <2>2. EnvTypeOK' /\ StoreTypeOK' /\ TopicTypeOK'
    BY <1>0, <2>1, EnvType, StoreType, TopicType DEF PollerWrite
  <2>3. log' = Append(log, n)
    BY <2>1 DEF PollerWrite, WriteMessage
  <2> QED BY <1>0, <2>2, <2>3, MemoryStays DEF TypeInv, TypeOK
<1>4. CASE PollerCommit(p)
  <2>1. EnvTypeOK' /\ StoreTypeOK' /\ TopicTypeOK' /\ log' = log
    BY <1>0, <1>4, EnvType, StoreType, TopicType DEF PollerCommit, topicVars
  <2> QED BY <1>0, <2>1, MemoryStays DEF TypeInv, TypeOK
<1>5. CASE PollerAbort(p)
  <2>1. EnvTypeOK' /\ StoreTypeOK' /\ TopicTypeOK' /\ log' = log
    BY <1>0, <1>5, EnvType, StoreType, TopicType DEF PollerAbort, AbandonPublish
  <2> QED BY <1>0, <2>1, MemoryStays DEF TypeInv, TypeOK
<1> QED BY <1>2, <1>3, <1>4, <1>5 DEF PollerStep

LEMMA SenderEnvType ==
  ASSUME TypeInv, NEW s \in Senders, SenderProgress(s) \/ SenderFailure(s)
  PROVE  EnvTypeOK' /\ StoreTypeOK' /\ TopicTypeOK'
<1>0. EnvTypeOK /\ StoreTypeOK /\ TopicTypeOK
  BY DEF TypeInv, TypeOK
<1>1. EnvTypeOK'
  <2>1. NoFault \/ Fault
    BY DEF SenderProgress, SenderFailure, TakeJob, Claim, AttemptAccepted, AttemptRetryable,
           AttemptPermanent, RecordSent, Offload, RecordDead, CommitOffset, ClaimFails,
           AttemptAnswerLost, RecordSentFails, OffloadFails, RecordDeadFails, CommitFails
  <2> QED BY <1>0, <2>1, EnvType
<1>2. StoreTypeOK'
  BY <1>0, StoreType
     DEF SenderProgress, SenderFailure, TakeJob, Claim, AttemptAccepted, AttemptRetryable,
         AttemptPermanent, RecordSent, Offload, RecordDead, CommitOffset, ClaimFails,
         AttemptAnswerLost, RecordSentFails, OffloadFails, RecordDeadFails, CommitFails
<1>3. TopicTypeOK'
  <2>1. UNCHANGED topicVars \/ CommitMessage(job[s].offset)
    BY DEF SenderProgress, SenderFailure, TakeJob, Claim, AttemptAccepted, AttemptRetryable,
           AttemptPermanent, RecordSent, Offload, RecordDead, CommitOffset, ClaimFails,
           AttemptAnswerLost, RecordSentFails, OffloadFails, RecordDeadFails, CommitFails
  <2>2. job[s].offset \in 0..Len(log)
    BY DEF TypeInv, MemoryOK
  <2> QED BY <1>0, <2>1, <2>2, TopicType
<1> QED BY <1>1, <1>2, <1>3

LEMMA FetcherStepType ==
  ASSUME TypeInv, FetcherStep, UNCHANGED apiVars
  PROVE  TypeInv'
<1>0. /\ EnvTypeOK /\ StoreTypeOK /\ TopicTypeOK /\ WorkerTypeOK /\ MemoryOK /\ ApiTypeOK'
  BY DEF TypeInv, TypeOK, ApiTypeOK, apiVars
<1>1. EnvTypeOK' /\ StoreTypeOK' /\ TopicTypeOK' /\ log' = log
  BY <1>0, EnvType, StoreType, TopicType DEF FetcherStep, Fetch, FetchPoison, FetchMessage
<1>2. CASE FetchPoison
  BY <1>0, <1>1, <1>2, MemoryStays DEF FetchPoison, TypeInv, TypeOK
<1>3. CASE Fetch
  <2>1. position' \in 1..Len(log) /\ position' \in Nat /\ log[position'] \in Notifications
    BY <1>0, <1>3 DEF Fetch, FetchMessage, TopicTypeOK
  <2>2. buffer' = Append(buffer, position') /\ UNCHANGED <<pc, job, accepted, dlq>>
    BY <1>3 DEF Fetch, outcomeVars
  <2>3. WorkerTypeOK'
    BY <1>0, <2>1, <2>2 DEF WorkerTypeOK
  <2>4. ASSUME NEW i \in 1..Len(buffer')
        PROVE  buffer'[i] \in 1..Len(log) /\ log[buffer'[i]] \in Notifications
    BY <1>0, <2>1, <2>2 DEF WorkerTypeOK, MemoryOK
  <2>5. MemoryOK'
    BY <1>0, <1>1, <2>2, <2>4 DEF MemoryOK
  <2> QED BY <1>0, <1>1, <2>3, <2>5 DEF TypeInv, TypeOK
<1> QED BY <1>2, <1>3 DEF FetcherStep

LEMMA NextTypeInv == TypeInv /\ [Next]_vars => TypeInv'
<1> SUFFICES ASSUME TypeInv, [Next]_vars PROVE TypeInv'
  OBVIOUS
<1>0. EnvTypeOK /\ StoreTypeOK /\ TopicTypeOK /\ ApiTypeOK /\ WorkerTypeOK /\ MemoryOK
  BY DEF TypeInv, TypeOK
<1>1. CASE \E h \in Handlers : ApiStep(h) /\ UNCHANGED workerVars
  BY <1>1, ApiStepType
<1>2. CASE \E n \in Notifications : ApiCancel(n) /\ UNCHANGED workerVars
  <2>1. EnvTypeOK' /\ StoreTypeOK' /\ TopicTypeOK' /\ ApiTypeOK' /\ log' = log
    BY <1>0, <1>2, EnvType, StoreType, TopicType DEF ApiCancel, topicVars, apiVars, ApiTypeOK
  <2> QED BY <1>0, <1>2, <2>1, MemoryStays DEF TypeInv, TypeOK
<1>3. CASE \E p \in Pollers : PollerStep(p) /\ UNCHANGED <<apiVars, workerVars>>
  BY <1>3, PollerStepType
<1>4. CASE WritePoison /\ UNCHANGED <<storeVars, apiVars, workerVars>>
  <2>1. EnvTypeOK' /\ StoreTypeOK' /\ TopicTypeOK' /\ ApiTypeOK' /\ log' = Append(log, Poison)
    BY <1>0, <1>4, EnvType, StoreType, TopicType DEF WritePoison, apiVars, ApiTypeOK
  <2> QED BY <1>0, <1>4, <2>1, MemoryStays DEF TypeInv, TypeOK
<1>5. CASE FetcherStep /\ UNCHANGED apiVars
  BY <1>5, FetcherStepType
<1>6. CASE \E s \in Senders : (SenderProgress(s) \/ SenderFailure(s)) /\ UNCHANGED apiVars
  <2>1. EnvTypeOK' /\ StoreTypeOK' /\ TopicTypeOK' /\ WorkerTypeOK' /\ MemoryOK'
    BY <1>6, SenderStepType, SenderEnvType
  <2>2. ApiTypeOK'
    BY <1>0, <1>6 DEF apiVars, ApiTypeOK
  <2> QED BY <2>1, <2>2 DEF TypeInv, TypeOK
<1>7. CASE Crash /\ UNCHANGED apiVars
  <2>1. EnvTypeOK' /\ StoreTypeOK' /\ TopicTypeOK' /\ ApiTypeOK' /\ log' = log
    BY <1>0, <1>7, EnvType, StoreType DEF Crash, TopicTypeOK, apiVars, ApiTypeOK
  <2>2. WorkerTypeOK' /\ MemoryOK'
    BY <1>0, <1>7, <2>1, WorkerAssumption
       DEF Crash, WorkerTypeOK, MemoryOK, TopicTypeOK, outcomeVars, Job, NoJob, Steps
  <2> QED BY <2>1, <2>2 DEF TypeInv, TypeOK
<1>8. CASE Reassign /\ UNCHANGED apiVars
  <2>1. EnvTypeOK' /\ StoreTypeOK' /\ TopicTypeOK' /\ ApiTypeOK' /\ log' = log
    BY <1>0, <1>8, EnvType, StoreType, TopicType DEF Reassign, Rebalance, apiVars, ApiTypeOK
  <2> QED BY <1>0, <1>8, <2>1, MemoryStays DEF Reassign, TypeInv, TypeOK
<1>9. CASE \E n \in Notifications : TimePasses(n) \/ TimePassesEarly(n)
  <2>1. EnvTypeOK' /\ StoreTypeOK' /\ TopicTypeOK' /\ ApiTypeOK' /\ log' = log
    BY <1>0, <1>9, EnvType, TopicType
       DEF TimePasses, TimePassesEarly, StoreTypeOK, topicVars, apiVars, ApiTypeOK
  <2> QED BY <1>0, <1>9, <2>1, MemoryStays DEF TimePasses, TimePassesEarly, TypeInv, TypeOK
<1>10. CASE UNCHANGED vars
  <2>1. EnvTypeOK' /\ StoreTypeOK' /\ TopicTypeOK' /\ ApiTypeOK' /\ log' = log
    BY <1>0, <1>10, StoreType, TopicType
       DEF vars, EnvTypeOK, envVars, topicVars, apiVars, ApiTypeOK
  <2> QED BY <1>0, <1>10, <2>1, MemoryStays DEF vars, TypeInv, TypeOK
<1> QED BY <1>1, <1>2, <1>3, <1>4, <1>5, <1>6, <1>7, <1>8, <1>9, <1>10 DEF Next

LEMMA TypeInvariant == Spec => []TypeInv
BY InitTypeInv, NextTypeInv, PTL DEF Spec

(* Every variable keeps its type, whatever the numbers of rows, processes, *)
(* senders and failures; by TypeInvariant the offsets in the worker's      *)
(* memory name messages of the topic.                                      *)
THEOREM TypeCorrect == Spec => []TypeOK
<1>1. TypeInv => TypeOK
  BY DEF TypeInv
<1> QED BY <1>1, TypeInvariant, PTL

-----------------------------------------------------------------------------
(* Rows a poller holds FOR UPDATE: held by one poller, past their age      *)
(* threshold, and still in a status its SELECT looks for.                  *)
LockInv ==
    /\ \A p, q \in Pollers : p # q => locks[p] \cap locks[q] = {}
    /\ \A p \in Pollers : \A n \in locks[p] :
         /\ overdue[n]
         /\ p \in Schedulers => row[n] = "scheduled"
         /\ p \in Reapers => row[n] \in Unfinished

LEMMA InitLockInv == Init => LockInv
BY DEF Init, StoreInit, LockInv

(* An UPDATE of rows nobody holds. *)
LEMMA UpdateKeepsLocks ==
  ASSUME StoreTypeOK, LockInv, NEW ids \in SUBSET Notifications, NEW status,
         \A n \in ids : ~Locked(n), SetStatus(ids, status), UNCHANGED locks
  PROVE  LockInv'
BY DEF StoreTypeOK, LockInv, SetStatus, Locked

LEMMA StoreLocks ==
  ASSUME StoreTypeOK, LockInv
  PROVE  /\ UNCHANGED storeVars => LockInv'
         /\ \A ids \in SUBSET Notifications : \A future :
              Insert(ids, future) => LockInv'
         /\ \A ids \in SUBSET Notifications : MarkQueued(ids) => LockInv'
         /\ \A n \in Notifications : \A claimed : MarkProcessing(n, claimed) => LockInv'
         /\ \A n \in Notifications : MarkSent(n) \/ MarkDead(n) \/ CancelRow(n) => LockInv'
         /\ \A s \in Schedulers : SelectSkipLocked(s, Due) => LockInv'
         /\ \A r \in Reapers : SelectSkipLocked(r, Stuck) => LockInv'
         /\ \A p \in Pollers : CommitQueued(p) \/ Rollback(p) => LockInv'
<1>1. UNCHANGED storeVars => LockInv'
  BY DEF LockInv, storeVars
<1>2. ASSUME NEW ids \in SUBSET Notifications, NEW future, Insert(ids, future)
      PROVE  LockInv'
  <2>1. \A p \in Pollers : \A n \in locks[p] : n \in Notifications /\ row[n] # "absent"
    BY ActorAssumption DEF StoreTypeOK, LockInv, Pollers, Unfinished
  <2>2. \A p \in Pollers : \A n \in locks[p] : row'[n] = row[n]
    BY <1>2, <2>1 DEF Insert
  <2> QED BY <1>2, <2>2 DEF Insert, LockInv
<1>3. ASSUME NEW ids \in SUBSET Notifications, MarkQueued(ids)
      PROVE  LockInv'
  BY <1>3, UpdateKeepsLocks DEF MarkQueued
<1>4. ASSUME NEW n \in Notifications, NEW claimed, MarkProcessing(n, claimed)
      PROVE  LockInv'
  BY <1>1, <1>4, UpdateKeepsLocks DEF MarkProcessing
<1>5. ASSUME NEW n \in Notifications, MarkSent(n) \/ MarkDead(n) \/ CancelRow(n)
      PROVE  LockInv'
  BY <1>5, UpdateKeepsLocks DEF MarkSent, MarkDead, CancelRow
<1>6. ASSUME NEW p \in Pollers, NEW S \in SUBSET Notifications, SelectSkipLocked(p, S),
             \A n \in S : overdue[n],
             p \in Schedulers => \A n \in S : row[n] = "scheduled",
             p \in Reapers => \A n \in S : row[n] \in Unfinished
      PROVE  LockInv'
  <2>1. PICK ids \in SUBSET S : /\ \A n \in ids : ~Locked(n)
                                /\ locks' = [locks EXCEPT ![p] = ids]
                                /\ UNCHANGED <<row, overdue>>
    BY <1>6 DEF SelectSkipLocked
  <2>2. /\ locks'[p] = ids
        /\ \A q \in Pollers \ {p} : locks'[q] = locks[q]
    BY <2>1 DEF StoreTypeOK
  <2>3. \A q \in Pollers : locks[q] \cap ids = {}
    BY <2>1 DEF Locked
  <2>4. \A q, u \in Pollers : q # u => locks'[q] \cap locks'[u] = {}
    BY <2>2, <2>3 DEF LockInv
  <2>5. ASSUME NEW q \in Pollers, NEW n \in locks'[q]
        PROVE  /\ overdue'[n]
               /\ q \in Schedulers => row'[n] = "scheduled"
               /\ q \in Reapers => row'[n] \in Unfinished
    BY <1>6, <2>1, <2>2, <2>5 DEF LockInv
  <2> QED BY <2>4, <2>5 DEF LockInv
<1>7. ASSUME NEW s \in Schedulers, SelectSkipLocked(s, Due) PROVE LockInv'
  BY <1>6, <1>7, ActorAssumption DEF Due, Pollers
<1>8. ASSUME NEW r \in Reapers, SelectSkipLocked(r, Stuck) PROVE LockInv'
  BY <1>6, <1>8, ActorAssumption DEF Stuck, Pollers
<1>9. ASSUME NEW p \in Pollers, CommitQueued(p) \/ Rollback(p) PROVE LockInv'
  <2>1. locks' = [locks EXCEPT ![p] = {}]
    BY <1>9 DEF CommitQueued, Rollback
  <2>2. /\ locks'[p] = {}
        /\ \A q \in Pollers \ {p} : locks'[q] = locks[q]
    BY <2>1 DEF StoreTypeOK
  <2>3. ASSUME NEW q \in Pollers, NEW n \in locks'[q]
        PROVE  row'[n] = row[n] /\ overdue'[n]
    <3>1. q # p /\ n \in locks[q] /\ n \in Notifications /\ n \notin locks[p]
      BY <2>2, <2>3 DEF LockInv, StoreTypeOK
    <3>2. overdue[n]
      BY <3>1 DEF LockInv
    <3> QED BY <1>9, <3>1, <3>2 DEF CommitQueued, Rollback, SetStatus
  <2> QED BY <2>2, <2>3 DEF LockInv
<1> QED BY <1>1, <1>2, <1>3, <1>4, <1>5, <1>7, <1>8, <1>9

LEMMA NextLockInv == TypeInv /\ LockInv /\ [Next]_vars => LockInv'
<1> SUFFICES ASSUME TypeInv, LockInv, [Next]_vars PROVE LockInv'
  OBVIOUS
<1>0. StoreTypeOK /\ WorkerTypeOK /\ ApiTypeOK
  BY DEF TypeInv, TypeOK
<1>1. ASSUME NEW h \in Handlers, ApiStep(h) PROVE LockInv'
  <2>1. CASE \E ids, future \in SUBSET Notifications : CreateNotifications(h, ids, future)
    BY <1>0, <2>1, StoreLocks DEF CreateNotifications
  <2>2. CASE ApiMarkQueued(h)
    BY <1>0, <2>2, StoreLocks DEF ApiMarkQueued, ApiTypeOK
  <2>3. CASE ApiAbort(h) \/ \E n \in Notifications : ApiWrite(h, n)
    BY <1>0, <2>3, StoreLocks DEF ApiAbort, ApiWrite
  <2> QED BY <1>1, <2>1, <2>2, <2>3 DEF ApiStep
<1>2. CASE \E n \in Notifications : ApiCancel(n)
  BY <1>0, <1>2, StoreLocks DEF ApiCancel
<1>3. ASSUME NEW p \in Pollers, PollerStep(p) PROVE LockInv'
  BY <1>0, <1>3, StoreLocks
     DEF PollerStep, SelectDue, SelectStuck, PollerWrite, PollerCommit, PollerAbort
<1>4. CASE UNCHANGED storeVars
  BY <1>0, <1>4, StoreLocks
<1>5. ASSUME NEW s \in Senders, SenderProgress(s) \/ SenderFailure(s) PROVE LockInv'
  <2>1. pc[s] # "idle" => job[s].id \in Notifications
    BY <1>0 DEF WorkerTypeOK
  <2> QED BY <1>0, <1>4, <1>5, <2>1, StoreLocks
     DEF SenderProgress, SenderFailure, TakeJob, Claim, AttemptAccepted, AttemptRetryable,
         AttemptPermanent, RecordSent, Offload, RecordDead, CommitOffset, ClaimFails,
         AttemptAnswerLost, RecordSentFails, OffloadFails, RecordDeadFails, CommitFails
<1>6. CASE \E n \in Notifications : TimePasses(n) \/ TimePassesEarly(n)
  BY <1>0, <1>6 DEF TimePasses, TimePassesEarly, LockInv, StoreTypeOK
<1>7. CASE WritePoison /\ UNCHANGED <<storeVars, apiVars, workerVars>>
  BY <1>4, <1>7
<1>8. CASE FetcherStep \/ Crash \/ Reassign \/ UNCHANGED vars
  BY <1>4, <1>8 DEF FetcherStep, Fetch, FetchPoison, Crash, Reassign, vars
<1> QED BY <1>1, <1>2, <1>3, <1>5, <1>6, <1>7, <1>8 DEF Next

-----------------------------------------------------------------------------
(* ClaimExclusive is inductive once it says that the row of a notification *)
(* in flight is younger than its age threshold: a reaper cannot lock it.   *)
ExclusiveInv ==
    PrematureReaps = 0 =>
      \A s \in Senders : InFlight(s) =>
        /\ row[job[s].id] = "processing"
        /\ ~overdue[job[s].id]
        /\ \A t \in Senders \ {s} : InFlight(t) => job[t].id # job[s].id

SenderStep == \E s \in Senders : (SenderProgress(s) \/ SenderFailure(s)) /\ UNCHANGED apiVars

(* The steps that leave the senders and the outcomes alone. *)
OtherStep ==
    \/ \E h \in Handlers : ApiStep(h) /\ UNCHANGED workerVars
    \/ \E n \in Notifications : ApiCancel(n) /\ UNCHANGED workerVars
    \/ \E p \in Pollers : PollerStep(p) /\ UNCHANGED <<apiVars, workerVars>>
    \/ WritePoison /\ UNCHANGED <<storeVars, apiVars, workerVars>>
    \/ FetcherStep /\ UNCHANGED apiVars
    \/ Reassign /\ UNCHANGED apiVars
    \/ \E n \in Notifications : TimePasses(n) \/ TimePassesEarly(n)
    \/ UNCHANGED vars

LEMMA NextCases == [Next]_vars => SenderStep \/ Crash \/ OtherStep
BY DEF Next, SenderStep, OtherStep

LEMMA OtherStepFrame ==
  ASSUME TypeInv, OtherStep
  PROVE  /\ UNCHANGED <<pc, job, accepted, dlq>>
         /\ faults' \in Nat /\ faults' >= faults
         /\ late' \in Nat /\ late' >= late
<1>1. UNCHANGED <<pc, job, accepted, dlq>>
  BY DEF OtherStep, workerVars, outcomeVars, vars, FetcherStep, Fetch, FetchPoison, Reassign,
         TimePasses, TimePassesEarly
<1>2. faults' \in {faults, faults + 1} /\ late' \in {late, late + 1}
  BY DEF OtherStep, ApiStep, CreateNotifications, ApiWrite, ApiMarkQueued, ApiAbort, ApiCancel,
         PollerStep, SelectDue, SelectStuck, PollerWrite, PollerCommit, PollerAbort,
         WritePoison, FetcherStep, Fetch, FetchPoison, Reassign, TimePasses, TimePassesEarly,
         Fault, NoFault, Late, envVars, vars
<1> QED BY <1>1, <1>2 DEF TypeInv, TypeOK, EnvTypeOK

(* No request, poller or clock moves a row out of 'processing' before its  *)
(* threshold has passed, or out of a final status.                         *)
LEMMA OtherStepKeepsRow ==
  ASSUME TypeInv, LockInv, OtherStep, NEW n \in Notifications
  PROVE  /\ row[n] \in Terminal => row'[n] = row[n]
         /\ row[n] = "processing" /\ ~overdue[n] /\ ~TimePasses(n) /\ ~TimePassesEarly(n)
              => row'[n] = "processing" /\ ~overdue'[n]
<1> DEFINE Settled == row[n] \in Terminal
           Young == row[n] = "processing" /\ ~overdue[n]
           Kept == /\ row'[n] = row[n]
                   /\ ~overdue[n] => ~overdue'[n]
<1>0. StoreTypeOK /\ ApiTypeOK
  BY DEF TypeInv, TypeOK
<1>1. ASSUME Settled \/ Young, NEW p \in Pollers PROVE n \notin locks[p]
  BY <1>1, ActorAssumption DEF LockInv, Pollers, Unfinished, Terminal
<1>2. ASSUME Settled \/ Young, NEW h \in Handlers, ApiStep(h) PROVE Kept
  <2>1. CASE \E ids, future \in SUBSET Notifications : CreateNotifications(h, ids, future)
    BY <1>2, <2>1 DEF CreateNotifications, Insert, Terminal
  <2>2. CASE ApiMarkQueued(h)
    BY <1>0, <1>2, <2>2 DEF ApiMarkQueued, MarkQueued, SetStatus, ApiTypeOK, Terminal
  <2>3. CASE ApiAbort(h) \/ \E m \in Notifications : ApiWrite(h, m)
    BY <2>3 DEF ApiAbort, ApiWrite, storeVars
  <2> QED BY <1>2, <2>1, <2>2, <2>3 DEF ApiStep
<1>3. ASSUME Settled \/ Young, NEW m \in Notifications, ApiCancel(m) PROVE Kept
  BY <1>3 DEF ApiCancel, CancelRow, Cancellable, SetStatus, Terminal
<1>4. ASSUME Settled \/ Young, NEW p \in Pollers, PollerStep(p) PROVE Kept
  <2>1. CASE PollerCommit(p)
    BY <1>1, <1>4, <2>1 DEF PollerCommit, CommitQueued, SetStatus
  <2>2. CASE SelectDue(p) \/ SelectStuck(p) \/ PollerAbort(p) \/ \E m \in Notifications : PollerWrite(p, m)
    BY <2>2 DEF SelectDue, SelectStuck, SelectSkipLocked, PollerAbort, Rollback, PollerWrite,
                storeVars
  <2> QED BY <1>4, <2>1, <2>2 DEF PollerStep
<1>5. ASSUME NEW m \in Notifications, TimePasses(m) \/ TimePassesEarly(m)
      PROVE  row' = row /\ (~overdue[n] /\ n # m => ~overdue'[n])
  BY <1>0, <1>5 DEF TimePasses, TimePassesEarly, StoreTypeOK
<1>6. CASE UNCHANGED storeVars
  BY <1>6 DEF storeVars
<1>7. CASE FetcherStep \/ Reassign \/ UNCHANGED vars
  BY <1>6, <1>7 DEF FetcherStep, Fetch, FetchPoison, Reassign, vars
<1>8. CASE WritePoison /\ UNCHANGED <<storeVars, apiVars, workerVars>>
  BY <1>6, <1>8
<1> QED BY <1>2, <1>3, <1>4, <1>5, <1>7, <1>8 DEF OtherStep

LEMMA InitExclusive == Init => ExclusiveInv
BY DEF Init, WorkerInit, ExclusiveInv, InFlight

LEMMA OtherStepExclusive ==
  ASSUME TypeInv, LockInv, ExclusiveInv, OtherStep
  PROVE  ExclusiveInv'
<1> SUFFICES ASSUME PrematureReaps' = 0, NEW s \in Senders, InFlight(s)'
             PROVE  /\ row'[job'[s].id] = "processing"
                    /\ ~overdue'[job'[s].id]
                    /\ \A t \in Senders \ {s} : InFlight(t)' => job'[t].id # job'[s].id
  BY DEF ExclusiveInv
<1>1. UNCHANGED <<pc, job>>
  BY OtherStepFrame
<1>2. InFlight(s) /\ \A t \in Senders : InFlight(t)' => InFlight(t)
  BY <1>1 DEF InFlight
<1>3. job[s].id \in Notifications
  BY <1>2 DEF InFlight, TypeInv, TypeOK, WorkerTypeOK
<1>4. late \in Nat /\ late' \in Nat /\ late' >= late
  BY OtherStepFrame DEF TypeInv, TypeOK, EnvTypeOK
<1>5. PrematureReaps = 0
  BY <1>4 DEF PrematureReaps
<1>6. ~TimePasses(job[s].id)
  BY <1>2 DEF TimePasses, Attended
<1>7. ~TimePassesEarly(job[s].id)
  BY <1>2, <1>4 DEF TimePassesEarly, InDelivery, Late, PrematureReaps
<1>8. row[job[s].id] = "processing" /\ ~overdue[job[s].id]
  BY <1>2, <1>5 DEF ExclusiveInv
<1>9. row'[job[s].id] = "processing" /\ ~overdue'[job[s].id]
  BY <1>3, <1>6, <1>7, <1>8, OtherStepKeepsRow
<1> QED BY <1>1, <1>2, <1>5, <1>9 DEF ExclusiveInv

(* What a step of sender s does to the senders and to the table. *)
LEMMA SenderStepShape ==
  ASSUME TypeInv, NEW s \in Senders, SenderProgress(s) \/ SenderFailure(s)
  PROVE  /\ late' = late /\ faults' \in {faults, faults + 1}
         /\ \A t \in Senders \ {s} : pc'[t] = pc[t] /\ job'[t] = job[t]
         /\ pc'[s] \in {"deliver", "sent", "offload", "dead"} => job'[s].id = job[s].id
         /\ job'[s].id = job[s].id \/ pc'[s] \in {"idle", "claim"}
         /\ \/ UNCHANGED storeVars /\ (pc'[s] \in {"deliver", "sent", "offload", "dead"} => InFlight(s))
            \/ /\ \E status \in {"sent", "dead"} : SetStatus({job[s].id}, status)
               /\ InFlight(s) /\ pc'[s] = "commit"
            \/ /\ row[job[s].id] \in Claimable
               /\ SetStatus({job[s].id}, "processing")
               /\ pc[s] = "claim" /\ pc'[s] \in {"deliver", "idle"}
<1>0. pc \in [Senders -> Steps] /\ job \in [Senders -> Job]
  BY DEF TypeInv, TypeOK, WorkerTypeOK
<1>1. late' = late /\ faults' \in {faults, faults + 1}
  BY DEF SenderProgress, SenderFailure, TakeJob, Claim, AttemptAccepted, AttemptRetryable,
         AttemptPermanent, RecordSent, Offload, RecordDead, CommitOffset, ClaimFails,
         AttemptAnswerLost, RecordSentFails, OffloadFails, RecordDeadFails, CommitFails,
         NoFault, Fault, envVars
<1>2. ASSUME NEW step, Goto(s, step), UNCHANGED job
      PROVE  /\ pc'[s] = step /\ job'[s] = job[s]
             /\ \A t \in Senders \ {s} : pc'[t] = pc[t] /\ job'[t] = job[t]
  BY <1>0, <1>2 DEF Goto
<1>3. ASSUME Finish(s)
      PROVE  /\ pc'[s] = "idle"
             /\ \A t \in Senders \ {s} : pc'[t] = pc[t] /\ job'[t] = job[t]
  BY <1>0, <1>3 DEF Finish, Goto
<1>4. ASSUME RetryOrGiveUp(s)
      PROVE  /\ pc'[s] \in {pc[s], "offload"} /\ job'[s].id = job[s].id
             /\ \A t \in Senders \ {s} : pc'[t] = pc[t] /\ job'[t] = job[t]
  BY <1>0, <1>4 DEF RetryOrGiveUp, LeaveLoop, Goto, Job
<1>4a. ASSUME NEW next, LeaveLoop(s, next)
       PROVE  /\ pc'[s] = next /\ job'[s].id = job[s].id
              /\ \A t \in Senders \ {s} : pc'[t] = pc[t] /\ job'[t] = job[t]
  BY <1>0, <1>4a DEF LeaveLoop, Goto, Job
<1>5. CASE TakeJob(s)
  BY <1>0, <1>1, <1>5 DEF TakeJob, Goto
<1>6. CASE \E claimed \in BOOLEAN : Claim(s, claimed)
  <2>1. PICK claimed \in BOOLEAN : Claim(s, claimed)
    BY <1>6
  <2>2. CASE claimed
    BY <1>1, <1>2, <2>1, <2>2 DEF Claim, MarkProcessing
  <2>3. CASE ~claimed
    BY <1>1, <1>2, <2>1, <2>3 DEF Claim, MarkProcessing
  <2> QED BY <2>2, <2>3
<1>7. CASE ClaimFails(s)
  BY <1>1, <1>3, <1>7 DEF ClaimFails, MarkProcessing
<1>8. CASE AttemptRetryable(s) \/ AttemptAnswerLost(s)
  BY <1>1, <1>4, <1>8 DEF AttemptRetryable, AttemptAnswerLost, InFlight
<1>9. CASE AttemptAccepted(s) \/ AttemptPermanent(s) \/ Offload(s)
  BY <1>1, <1>2, <1>9, <1>4a DEF AttemptAccepted, AttemptPermanent, Offload, InFlight
<1>10. CASE RecordSent(s) \/ RecordDead(s)
  BY <1>1, <1>2, <1>10 DEF RecordSent, RecordDead, MarkSent, MarkDead, InFlight
<1>11. CASE RecordSentFails(s) \/ RecordDeadFails(s)
  BY <1>1, <1>2, <1>11 DEF RecordSentFails, RecordDeadFails
<1>12. CASE OffloadFails(s) \/ CommitOffset(s) \/ CommitFails(s)
  BY <1>1, <1>3, <1>12 DEF OffloadFails, CommitOffset, CommitFails
<1> QED
  BY <1>5, <1>6, <1>7, <1>8, <1>9, <1>10, <1>11, <1>12 DEF SenderProgress, SenderFailure

LEMMA SenderStepExclusive ==
  ASSUME TypeInv, ExclusiveInv, NEW s \in Senders, SenderProgress(s) \/ SenderFailure(s)
  PROVE  ExclusiveInv'
<1> DEFINE Flying(t) == pc'[t] \in {"deliver", "sent", "offload", "dead"}
<1>0. late' = late
  BY SenderStepShape
<1> SUFFICES ASSUME PrematureReaps = 0, NEW t \in Senders, Flying(t)
             PROVE  /\ row'[job'[t].id] = "processing"
                    /\ ~overdue'[job'[t].id]
                    /\ \A u \in Senders \ {t} : Flying(u) => job'[u].id # job'[t].id
  BY <1>0 DEF ExclusiveInv, InFlight, PrematureReaps
<1>1. /\ \A u \in Senders \ {s} : pc'[u] = pc[u] /\ job'[u] = job[u]
      /\ Flying(s) => job'[s].id = job[s].id
  BY SenderStepShape
<1>2. \A u \in Senders \ {s} : Flying(u) => InFlight(u)
  BY <1>1 DEF InFlight
<1>3. \A u \in Senders : InFlight(u) =>
        /\ job[u].id \in Notifications
        /\ row[job[u].id] = "processing" /\ ~overdue[job[u].id]
        /\ \A v \in Senders \ {u} : InFlight(v) => job[v].id # job[u].id
  BY DEF ExclusiveInv, InFlight, TypeInv, TypeOK, WorkerTypeOK
<1>4. CASE UNCHANGED storeVars /\ (Flying(s) => InFlight(s))
  <2>1. \A u \in Senders : Flying(u) => InFlight(u) /\ job'[u].id = job[u].id
    BY <1>1, <1>2, <1>4
  <2> QED BY <1>3, <1>4, <2>1 DEF storeVars
<1>5. CASE /\ \E status \in {"sent", "dead"} : SetStatus({job[s].id}, status)
           /\ InFlight(s) /\ pc'[s] = "commit"
  <2>1. \A u \in Senders : Flying(u) => u # s /\ InFlight(u) /\ job'[u].id = job[u].id
    BY <1>1, <1>2, <1>5
  <2>2. job[t].id # job[s].id /\ job[t].id \in Notifications
    BY <1>3, <1>5, <2>1
  <2>3. /\ job'[t].id = job[t].id
        /\ row[job[t].id] = "processing" /\ ~overdue[job[t].id]
    BY <1>3, <2>1
  <2>4. row'[job'[t].id] = "processing" /\ ~overdue'[job'[t].id]
    BY <1>5, <2>2, <2>3 DEF SetStatus
  <2>5. \A u \in Senders \ {t} : Flying(u) => job'[u].id # job'[t].id
    BY <1>3, <2>1
  <2> QED BY <2>4, <2>5
<1>6. CASE /\ row[job[s].id] \in Claimable
           /\ SetStatus({job[s].id}, "processing")
           /\ pc[s] = "claim" /\ pc'[s] \in {"deliver", "idle"}
  <2>1. job[s].id \in Notifications
    BY <1>6 DEF TypeInv, TypeOK, WorkerTypeOK
  <2>2. \A u \in Senders \ {s} : Flying(u) => job[u].id # job[s].id
    BY <1>2, <1>3, <1>6 DEF Claimable
  <2>3. CASE t = s
    BY <1>1, <1>6, <2>1, <2>2, <2>3 DEF SetStatus
  <2>4. CASE t # s
    <3>1. /\ job'[t].id = job[t].id /\ job[t].id # job[s].id /\ job[t].id \in Notifications
          /\ row[job[t].id] = "processing" /\ ~overdue[job[t].id]
      BY <1>1, <1>2, <1>3, <2>2, <2>4
    <3>2. row'[job'[t].id] = "processing" /\ ~overdue'[job'[t].id]
      BY <1>6, <3>1 DEF SetStatus
    <3>3. \A u \in Senders \ {t} : Flying(u) => job'[u].id # job'[t].id
      BY <1>1, <1>2, <1>3, <2>2, <2>4
    <3> QED BY <3>2, <3>3
  <2> QED BY <2>3, <2>4
<1> QED BY <1>4, <1>5, <1>6, SenderStepShape

LEMMA NextExclusive == TypeInv /\ LockInv /\ ExclusiveInv /\ [Next]_vars => ExclusiveInv'
<1> SUFFICES ASSUME TypeInv, LockInv, ExclusiveInv, [Next]_vars PROVE ExclusiveInv'
  OBVIOUS
<1>1. CASE SenderStep
  BY <1>1, SenderStepExclusive DEF SenderStep
<1>2. CASE Crash
  BY <1>2 DEF Crash, ExclusiveInv, InFlight
<1>3. CASE OtherStep
  BY <1>3, OtherStepExclusive
<1> QED BY <1>1, <1>2, <1>3, NextCases

SafetyInv == TypeInv /\ LockInv /\ ExclusiveInv

LEMMA SafetyInvariant == Spec => []SafetyInv
<1>1. Init => SafetyInv
  BY InitTypeInv, InitLockInv, InitExclusive DEF SafetyInv
<1>2. SafetyInv /\ [Next]_vars => SafetyInv'
  BY NextTypeInv, NextLockInv, NextExclusive DEF SafetyInv
<1> QED BY <1>1, <1>2, PTL DEF Spec

(* Claim before send, for any number of senders, rows, pollers and         *)
(* failures: until a threshold passes before its delivery is over, a       *)
(* notification between claim and outcome is in one sender's hands, and    *)
(* its row says 'processing'.                                              *)
THEOREM ClaimsAreExclusive == Spec => []ClaimExclusive
<1>1. SafetyInv => ClaimExclusive
  BY DEF SafetyInv, ExclusiveInv, ClaimExclusive
<1> QED BY <1>1, SafetyInvariant, PTL

(* As long, no row leaves a final status, although MarkSent and MarkDead   *)
(* would overwrite it and the README's guard by the current status is not  *)
(* there: the sender that records is the only one, and its row is not      *)
(* settled yet.                                                            *)
THEOREM FinalStatusKept == Spec => FinalUntilPremature
<1> DEFINE Final(n) == row[n] \in Terminal => row'[n] = row[n]
           FinalStep == PrematureReaps = 0 => \A n \in Notifications : Final(n)
<1>1. SafetyInv /\ [Next]_vars => [FinalStep]_vars
  <2> SUFFICES ASSUME SafetyInv, [Next]_vars, PrematureReaps = 0, NEW n \in Notifications
               PROVE  Final(n)
    OBVIOUS
  <2>1. CASE SenderStep
    <3>1. PICK s \in Senders : SenderProgress(s) \/ SenderFailure(s)
      BY <2>1 DEF SenderStep
    <3>2. row[n] \in Terminal /\ (InFlight(s) \/ row[job[s].id] \in Claimable) => n # job[s].id
      BY DEF SafetyInv, ExclusiveInv, Terminal, Claimable
    <3>3. \/ UNCHANGED storeVars
          \/ /\ \E status : SetStatus({job[s].id}, status)
             /\ InFlight(s) \/ row[job[s].id] \in Claimable
      BY <3>1, SenderStepShape DEF SafetyInv
    <3> QED BY <3>2, <3>3 DEF SetStatus, storeVars
  <2>2. CASE Crash
    BY <2>2 DEF Crash, storeVars
  <2>3. CASE OtherStep
    BY <2>3, OtherStepKeepsRow DEF SafetyInv
  <2> QED BY <2>1, <2>2, <2>3, NextCases
<1> QED BY <1>1, SafetyInvariant, PTL DEF Spec, FinalUntilPremature

-----------------------------------------------------------------------------
(* What a short window may cost.  Whether LeaseHolds or not, the senders   *)
(* at a notification and its outcomes are counted against the thresholds   *)
(* and failures that have paid for them.                                   *)

(* A row that may yet come into the hands of one more sender: it is not    *)
(* settled, nor is it young, 'processing' and in a sender's hands.         *)
Unclaimed(n) ==
    /\ row[n] \notin {"sent", "dead"}
    /\ ~(row[n] = "processing" /\ ~overdue[n] /\ SendersAt(n) # {})

(* Senders whose delivery has not ended yet. *)
Undecided(n) == {s \in SendersAt(n) : pc[s] \in {"deliver", "offload"}}

Toll(n) == IF Unclaimed(n) THEN 1 ELSE 0

CountsFinite ==
    \A n \in Notifications : IsFiniteSet(SendersAt(n)) /\ IsFiniteSet(Undecided(n))

SendersPaid ==
    \A n \in Notifications :
      SendersAt(n) # {} => Cardinality(SendersAt(n)) + Toll(n) <= 1 + PrematureReaps

OutcomesPaid ==
    \A n \in Notifications :
      accepted[n] + dlq[n] + Cardinality(Undecided(n)) + Toll(n)
        <= 1 + faults + PrematureReaps

AccountInv == CountsFinite /\ SendersPaid /\ OutcomesPaid

-----------------------------------------------------------------------------
LEMMA InitAccount == Init => AccountInv
<1> SUFFICES ASSUME Init, NEW n \in Notifications
             PROVE  /\ IsFiniteSet(SendersAt(n)) /\ IsFiniteSet(Undecided(n))
                    /\ SendersAt(n) = {}
                    /\ accepted[n] + dlq[n] + Cardinality(Undecided(n)) + Toll(n)
                         <= 1 + faults + PrematureReaps
  BY DEF AccountInv, CountsFinite, SendersPaid, OutcomesPaid
<1>1. SendersAt(n) = {} /\ Undecided(n) = {}
  BY DEF Init, WorkerInit, SendersAt, Undecided, InFlight
<1>2. PrematureReaps = 0 /\ faults = 0 /\ accepted[n] = 0 /\ dlq[n] = 0
  BY DEF Init, EnvInit, WorkerInit, PrematureReaps
<1>3. Toll(n) \in {0, 1}
  BY DEF Toll
<1> QED BY <1>1, <1>2, <1>3, FS_EmptySet

(* The terms of the account. *)
LEMMA AccountTerms ==
  ASSUME TypeInv, AccountInv, NEW n \in Notifications
  PROVE  /\ Cardinality(SendersAt(n)) \in Nat /\ Cardinality(Undecided(n)) \in Nat
         /\ accepted[n] \in Nat /\ dlq[n] \in Nat /\ faults \in Nat
         /\ late \in Nat /\ PrematureReaps \in Nat
         /\ Toll(n) \in {0, 1}
         /\ SendersAt(n) = {} <=> Cardinality(SendersAt(n)) = 0
<1>1. IsFiniteSet(SendersAt(n)) /\ IsFiniteSet(Undecided(n))
  BY DEF AccountInv, CountsFinite
<1>2. accepted[n] \in Nat /\ dlq[n] \in Nat /\ faults \in Nat /\ late \in Nat
  BY DEF TypeInv, TypeOK, WorkerTypeOK, EnvTypeOK
<1>3. PrematureReaps \in Nat /\ Toll(n) \in {0, 1}
  BY <1>2 DEF PrematureReaps, Toll
<1> QED BY <1>1, <1>2, <1>3, FS_CardinalityType, FS_EmptySet

(* A member comes, stays or goes. *)
LEMMA CountMove ==
  ASSUME NEW S, IsFiniteSet(S), NEW x, NEW T,
         T = IF x \in T THEN S \cup {x} ELSE S \ {x}
  PROVE  /\ IsFiniteSet(T)
         /\ Cardinality(T) = Cardinality(S) + (IF x \in T THEN 1 ELSE 0)
                                            - (IF x \in S THEN 1 ELSE 0)
<1>1. Cardinality(S) \in Nat
  BY FS_CardinalityType
<1>2. CASE x \in T
  BY <1>1, <1>2, FS_AddElement
<1>3. CASE x \notin T
  BY <1>1, <1>3, FS_RemoveElement
<1> QED BY <1>2, <1>3

(* A step of sender s moves nobody but s. *)
LEMMA SenderStepSets ==
  ASSUME TypeInv, NEW s \in Senders, SenderProgress(s) \/ SenderFailure(s), NEW n
  PROVE  /\ SendersAt(n)' = IF s \in SendersAt(n)' THEN SendersAt(n) \cup {s}
                                                   ELSE SendersAt(n) \ {s}
         /\ Undecided(n)' = IF s \in Undecided(n)' THEN Undecided(n) \cup {s}
                                                   ELSE Undecided(n) \ {s}
<1>1. \A t \in Senders \ {s} : pc'[t] = pc[t] /\ job'[t] = job[t]
  BY SenderStepShape
<1>2. \A t \in Senders \ {s} : t \in SendersAt(n)' <=> t \in SendersAt(n)
  BY <1>1 DEF SendersAt, InFlight
<1>3. \A t \in Senders \ {s} : t \in Undecided(n)' <=> t \in Undecided(n)
  BY <1>1, <1>2 DEF Undecided
<1>4. SendersAt(n) \subseteq Senders /\ SendersAt(n)' \subseteq Senders
  BY DEF SendersAt
<1>5. Undecided(n) \subseteq Senders /\ Undecided(n)' \subseteq Senders
  BY <1>4 DEF Undecided
<1> QED BY <1>2, <1>3, <1>4, <1>5

(* What a step of sender s does to the account of n. *)
LEMMA SenderStepEffect ==
  ASSUME TypeInv, NEW s \in Senders, SenderProgress(s) \/ SenderFailure(s),
         NEW n \in Notifications
  PROVE  LET at == s \in SendersAt(n)
             stays == s \in SendersAt(n)'
             tried == s \in Undecided(n)
             tries == s \in Undecided(n)'
             rowKept == row'[n] = row[n] /\ overdue'[n] = overdue[n]
             rowTaken == /\ row[n] \in Claimable
                         /\ row'[n] = "processing" /\ ~overdue'[n]
             none == accepted'[n] + dlq'[n] = accepted[n] + dlq[n]
             one == accepted'[n] + dlq'[n] = accepted[n] + dlq[n] + 1
             failed == faults' = faults + 1
         IN  /\ late' = late /\ faults' \in {faults, faults + 1}
             /\ \/ rowKept /\ none /\ (stays <=> at) /\ (tries <=> tried)
                \/ rowTaken /\ none /\ ~at /\ ~tried /\ (tries <=> stays) /\ (stays \/ failed)
                \/ rowKept /\ one /\ at /\ stays /\ tried /\ ~tries
                \/ rowKept /\ one /\ failed /\ at /\ stays /\ tried /\ tries
                \/ row'[n] \in {"sent", "dead"} /\ none /\ at /\ ~tried /\ ~stays /\ ~tries
                \/ rowKept /\ none /\ failed /\ at /\ ~stays /\ ~tries
                \/ rowKept /\ one /\ failed /\ at /\ tried /\ ~stays /\ ~tries
<1> DEFINE at == s \in SendersAt(n)
           stays == s \in SendersAt(n)'
           tried == s \in Undecided(n)
           tries == s \in Undecided(n)'
           rowKept == row'[n] = row[n] /\ overdue'[n] = overdue[n]
           none == accepted'[n] + dlq'[n] = accepted[n] + dlq[n]
           one == accepted'[n] + dlq'[n] = accepted[n] + dlq[n] + 1
           failed == faults' = faults + 1
<1>0. /\ pc \in [Senders -> Steps] /\ job \in [Senders -> Job]
      /\ accepted \in [Notifications -> Nat] /\ dlq \in [Notifications -> Nat]
      /\ accepted[n] \in Nat /\ dlq[n] \in Nat /\ faults \in Nat
      /\ pc[s] # "idle" => job[s].id \in Notifications
  BY DEF TypeInv, TypeOK, WorkerTypeOK, EnvTypeOK
<1>1. /\ at <=> pc[s] \in {"deliver", "sent", "offload", "dead"} /\ job[s].id = n
      /\ tried <=> pc[s] \in {"deliver", "offload"} /\ job[s].id = n
      /\ stays <=> pc'[s] \in {"deliver", "sent", "offload", "dead"} /\ job'[s].id = n
      /\ tries <=> pc'[s] \in {"deliver", "offload"} /\ job'[s].id = n
  BY DEF SendersAt, Undecided, InFlight
<1>2. late' = late /\ faults' \in {faults, faults + 1}
  BY SenderStepShape
<1>3. ASSUME NEW step, Goto(s, step), UNCHANGED job
      PROVE  pc'[s] = step /\ job'[s] = job[s]
  BY <1>0, <1>3 DEF Goto
<1>4. ASSUME Finish(s) PROVE pc'[s] = "idle"
  BY <1>0, <1>4 DEF Finish, Goto
<1>5. ASSUME RetryOrGiveUp(s) PROVE pc'[s] \in {pc[s], "offload"} /\ job'[s].id = job[s].id
  BY <1>0, <1>5 DEF RetryOrGiveUp, LeaveLoop, Goto, Job
<1>2a. ASSUME NEW next, LeaveLoop(s, next) PROVE pc'[s] = next /\ job'[s].id = job[s].id
  BY <1>0, <1>2a DEF LeaveLoop, Goto, Job
<1>6. /\ UNCHANGED storeVars => rowKept
      /\ \A m, status : SetStatus({m}, status) /\ m # n => rowKept
      /\ \A status : SetStatus({n}, status) => row'[n] = status /\ ~overdue'[n]
  BY DEF storeVars, SetStatus, TypeInv, TypeOK, StoreTypeOK
<1>7. UNCHANGED outcomeVars => none
  BY <1>0 DEF outcomeVars
<1>8. CASE TakeJob(s)
  <2>1. pc[s] = "idle" /\ pc'[s] = "claim"
    BY <1>0, <1>8 DEF TakeJob, Goto
  <2> QED BY <1>1, <1>2, <1>6, <1>7, <1>8, <2>1 DEF TakeJob
<1>9. CASE \E claimed \in BOOLEAN : Claim(s, claimed)
  <2>1. PICK claimed \in BOOLEAN : Claim(s, claimed)
    BY <1>9
  <2>2. CASE claimed
    <3>1. /\ pc[s] = "claim" /\ pc'[s] = "deliver" /\ job'[s] = job[s] /\ none
          /\ row[job[s].id] \in Claimable /\ SetStatus({job[s].id}, "processing")
      BY <1>3, <1>7, <2>1, <2>2 DEF Claim, MarkProcessing
    <3> QED BY <1>1, <1>2, <1>6, <3>1
  <2>3. CASE ~claimed
    <3>1. pc[s] = "claim" /\ pc'[s] = "commit" /\ none /\ UNCHANGED storeVars
      BY <1>3, <1>7, <2>1, <2>3 DEF Claim, MarkProcessing
    <3> QED BY <1>1, <1>2, <1>6, <3>1
  <2> QED BY <2>2, <2>3
<1>10. CASE ClaimFails(s)
  <2>1. pc[s] = "claim" /\ pc'[s] = "idle" /\ none /\ failed
    BY <1>4, <1>7, <1>10 DEF ClaimFails, Fault
  <2>2. \/ UNCHANGED storeVars
        \/ row[job[s].id] \in Claimable /\ SetStatus({job[s].id}, "processing")
    BY <1>10 DEF ClaimFails, MarkProcessing
  <2> QED BY <1>1, <1>2, <1>6, <2>1, <2>2
<1>11. CASE AttemptAccepted(s) \/ Offload(s)
  <2>1. /\ pc[s] \in {"deliver", "offload"} /\ pc'[s] \in {"sent", "dead"}
        /\ job'[s].id = job[s].id /\ rowKept
    BY <1>3, <1>6, <1>11, <1>2a DEF AttemptAccepted, Offload
  <2>2. IF job[s].id = n THEN one ELSE none
    BY <1>0, <1>11 DEF AttemptAccepted, Offload, ProviderAccepts
  <2> QED BY <1>1, <1>2, <2>1, <2>2
<1>12. CASE AttemptAnswerLost(s)
  <2>1. /\ pc[s] = "deliver" /\ pc'[s] \in {"deliver", "offload"} /\ job'[s].id = job[s].id
        /\ rowKept /\ failed
    BY <1>5, <1>6, <1>12 DEF AttemptAnswerLost, Fault
  <2>2. IF job[s].id = n THEN one ELSE none
    BY <1>0, <1>12 DEF AttemptAnswerLost, ProviderAccepts
  <2> QED BY <1>1, <1>2, <2>1, <2>2
<1>13. CASE AttemptRetryable(s) \/ AttemptPermanent(s)
  <2>1. /\ pc[s] = "deliver" /\ pc'[s] \in {"deliver", "offload"} /\ job'[s].id = job[s].id
        /\ rowKept /\ none
    BY <1>5, <1>6, <1>7, <1>13, <1>2a DEF AttemptRetryable, AttemptPermanent
  <2> QED BY <1>1, <1>2, <2>1
<1>14. CASE RecordSent(s) \/ RecordDead(s)
  <2>1. /\ pc[s] \in {"sent", "dead"} /\ pc'[s] = "commit" /\ none
        /\ \E status \in {"sent", "dead"} : SetStatus({job[s].id}, status)
    BY <1>3, <1>7, <1>14 DEF RecordSent, RecordDead, MarkSent, MarkDead
  <2> QED BY <1>1, <1>2, <1>6, <2>1
<1>15. CASE RecordSentFails(s) \/ RecordDeadFails(s)
  <2>1. /\ pc[s] \in {"sent", "dead"} /\ pc'[s] = "commit" /\ none /\ rowKept /\ failed
    BY <1>3, <1>6, <1>7, <1>15 DEF RecordSentFails, RecordDeadFails, Fault
  <2> QED BY <1>1, <1>2, <2>1
<1>16. CASE OffloadFails(s)
  <2>1. pc[s] = "offload" /\ pc'[s] = "idle" /\ rowKept /\ failed
    BY <1>4, <1>6, <1>16 DEF OffloadFails, Fault
  <2>2. IF job[s].id = n THEN one \/ none ELSE none
    BY <1>0, <1>16 DEF OffloadFails
  <2> QED BY <1>1, <1>2, <2>1, <2>2
<1>17. CASE CommitOffset(s) \/ CommitFails(s)
  <2>1. pc[s] = "commit" /\ pc'[s] = "idle" /\ none /\ rowKept
    BY <1>4, <1>6, <1>7, <1>17 DEF CommitOffset, CommitFails
  <2> QED BY <1>1, <1>2, <2>1
<1> QED
  BY <1>8, <1>9, <1>10, <1>11, <1>12, <1>13, <1>14, <1>15, <1>16, <1>17
     DEF SenderProgress, SenderFailure

LEMMA SenderStepAccount ==
  ASSUME TypeInv, AccountInv, NEW s \in Senders, SenderProgress(s) \/ SenderFailure(s)
  PROVE  AccountInv'
<1> SUFFICES ASSUME NEW n \in Notifications
             PROVE  /\ IsFiniteSet(SendersAt(n)') /\ IsFiniteSet(Undecided(n)')
                    /\ SendersAt(n)' # {} =>
                         Cardinality(SendersAt(n)') + Toll(n)' <= 1 + PrematureReaps'
                    /\ accepted'[n] + dlq'[n] + Cardinality(Undecided(n)') + Toll(n)'
                         <= 1 + faults' + PrematureReaps'
  BY DEF AccountInv, CountsFinite, SendersPaid, OutcomesPaid
<1> DEFINE S == SendersAt(n)
           U == Undecided(n)
           at == s \in SendersAt(n)
           stays == s \in SendersAt(n)'
           tried == s \in Undecided(n)
           tries == s \in Undecided(n)'
           a == accepted[n] + dlq[n]
           aa == accepted'[n] + dlq'[n]
           reaps == PrematureReaps
<1>1. /\ Cardinality(S) \in Nat /\ Cardinality(U) \in Nat /\ a \in Nat /\ faults \in Nat
      /\ reaps \in Nat /\ Toll(n) \in {0, 1} /\ (S = {} <=> Cardinality(S) = 0)
      /\ IsFiniteSet(S) /\ IsFiniteSet(U)
  BY AccountTerms DEF AccountInv, CountsFinite
<1>2. /\ S # {} => Cardinality(S) + Toll(n) <= 1 + reaps
      /\ a + Cardinality(U) + Toll(n) <= 1 + faults + reaps
  BY DEF AccountInv, SendersPaid, OutcomesPaid
<1>3. /\ IsFiniteSet(S')
      /\ Cardinality(S') = Cardinality(S) + (IF stays THEN 1 ELSE 0) - (IF at THEN 1 ELSE 0)
      /\ IsFiniteSet(U')
      /\ Cardinality(U') = Cardinality(U) + (IF tries THEN 1 ELSE 0) - (IF tried THEN 1 ELSE 0)
  BY <1>1, SenderStepSets, CountMove
<1>4. S' = {} <=> Cardinality(S') = 0
  BY <1>3, FS_EmptySet
<1>5. /\ Toll(n)' \in {0, 1}
      /\ row'[n] \in {"sent", "dead"} => Toll(n)' = 0
      /\ row[n] \in Claimable => Toll(n) = 1
      /\ row'[n] = "processing" /\ ~overdue'[n] /\ S' # {} => Toll(n)' = 0
      /\ row'[n] = row[n] /\ overdue'[n] = overdue[n] /\ (S' = {} <=> S = {}) => Toll(n)' = Toll(n)
      /\ row'[n] = row[n] /\ overdue'[n] = overdue[n] /\ S = {} => Toll(n)' <= Toll(n)
  BY DEF Toll, Unclaimed, Claimable
<1>6. /\ at => S # {}
      /\ stays => S' # {}
  OBVIOUS
<1>7. late' = late /\ faults' \in {faults, faults + 1}
  BY SenderStepEffect
<1>8. reaps' = reaps
  BY <1>7 DEF PrematureReaps
<1> DEFINE rowKept == row'[n] = row[n] /\ overdue'[n] = overdue[n]
           rowTaken == row[n] \in Claimable /\ row'[n] = "processing" /\ ~overdue'[n]
           Goal == /\ S' # {} => Cardinality(S') + Toll(n)' <= 1 + reaps
                   /\ aa + Cardinality(U') + Toll(n)' <= 1 + faults' + reaps
<1> SUFFICES Goal
  BY <1>3, <1>8
<1> HIDE DEF S, U, at, stays, tried, tries, a, aa, reaps
<1>10. CASE rowKept /\ aa = a /\ (stays <=> at) /\ (tries <=> tried)
  BY <1>1, <1>2, <1>3, <1>4, <1>5, <1>7, <1>10
<1>11. CASE rowTaken /\ aa = a /\ ~at /\ ~tried /\ (tries <=> stays)
  BY <1>1, <1>2, <1>3, <1>4, <1>5, <1>6, <1>7, <1>11
<1>12. CASE rowKept /\ aa = a + 1 /\ at /\ stays /\ tried /\ ~tries
  BY <1>1, <1>2, <1>3, <1>4, <1>5, <1>7, <1>12
<1>13. CASE rowKept /\ aa = a + 1 /\ faults' = faults + 1 /\ at /\ stays /\ tried /\ tries
  BY <1>1, <1>2, <1>3, <1>4, <1>5, <1>13
<1>14. CASE row'[n] \in {"sent", "dead"} /\ aa = a /\ at /\ ~tried /\ ~stays /\ ~tries
  BY <1>1, <1>2, <1>3, <1>4, <1>5, <1>6, <1>7, <1>14
<1>15. CASE rowKept /\ aa = a /\ faults' = faults + 1 /\ at /\ ~stays /\ ~tries
  BY <1>1, <1>2, <1>3, <1>4, <1>5, <1>6, <1>15
<1>16. CASE rowKept /\ aa = a + 1 /\ faults' = faults + 1 /\ at /\ tried /\ ~stays /\ ~tries
  BY <1>1, <1>2, <1>3, <1>4, <1>5, <1>6, <1>16
<1> QED
  BY <1>10, <1>11, <1>12, <1>13, <1>14, <1>15, <1>16, SenderStepEffect
     DEF at, stays, tried, tries, a, aa

LEMMA CrashAccount ==
  ASSUME TypeInv, AccountInv, Crash
  PROVE  AccountInv'
<1> SUFFICES ASSUME NEW n \in Notifications
             PROVE  /\ IsFiniteSet(SendersAt(n)') /\ IsFiniteSet(Undecided(n)')
                    /\ SendersAt(n)' = {}
                    /\ accepted'[n] + dlq'[n] + Cardinality(Undecided(n)') + Toll(n)'
                         <= 1 + faults' + PrematureReaps'
  BY DEF AccountInv, CountsFinite, SendersPaid, OutcomesPaid
<1>1. SendersAt(n)' = {} /\ Undecided(n)' = {}
  BY DEF Crash, SendersAt, Undecided, InFlight
<1>2. UNCHANGED <<accepted, dlq, late>> /\ faults' = faults + 1
  BY DEF Crash, Fault, outcomeVars
<1>3. PrematureReaps' = PrematureReaps /\ Toll(n)' \in {0, 1}
  BY <1>2 DEF PrematureReaps, Toll
<1>4. /\ accepted[n] + dlq[n] \in Nat /\ Cardinality(Undecided(n)) \in Nat
      /\ faults \in Nat /\ PrematureReaps \in Nat /\ Toll(n) \in {0, 1}
  BY AccountTerms
<1>5. accepted[n] + dlq[n] + Cardinality(Undecided(n)) + Toll(n) <= 1 + faults + PrematureReaps
  BY DEF AccountInv, OutcomesPaid
<1> QED BY <1>1, <1>2, <1>3, <1>4, <1>5, FS_EmptySet

(* Requests, pollers and clocks make a claimed row claimable again only by *)
(* a premature threshold, which pays for it.                               *)
LEMMA OtherStepToll ==
  ASSUME TypeInv, LockInv, OtherStep, NEW n \in Notifications
  PROVE  /\ PrematureReaps' \in Nat /\ PrematureReaps' >= PrematureReaps
         /\ Toll(n)' - Toll(n) <= PrematureReaps' - PrematureReaps
<1>1. UNCHANGED <<pc, job>> /\ late \in Nat /\ late' \in Nat /\ late' >= late
  BY OtherStepFrame DEF TypeInv, TypeOK, EnvTypeOK
<1>2. SendersAt(n)' = SendersAt(n)
  BY <1>1 DEF SendersAt, InFlight
<1>3. /\ PrematureReaps \in Nat /\ PrematureReaps' \in Nat /\ PrematureReaps' >= PrematureReaps
      /\ Toll(n) \in {0, 1} /\ Toll(n)' \in {0, 1}
  BY <1>1 DEF PrematureReaps, Toll
<1>4. CASE Unclaimed(n)
  <2>1. Toll(n) = 1
    BY <1>4 DEF Toll
  <2> QED BY <1>3, <2>1
<1>5. CASE row[n] \in {"sent", "dead"}
  <2>1. row'[n] = row[n]
    BY <1>5, OtherStepKeepsRow DEF Terminal
  <2>2. Toll(n)' = Toll(n)
    BY <1>5, <2>1 DEF Toll, Unclaimed
  <2> QED BY <1>3, <2>2
<1>6. CASE row[n] = "processing" /\ ~overdue[n] /\ SendersAt(n) # {}
  <2>1. InDelivery(n) /\ Attended(n)
    BY <1>6 DEF SendersAt, InDelivery, Attended
  <2>2. ~TimePasses(n)
    BY <2>1 DEF TimePasses
  <2>3. CASE TimePassesEarly(n)
    <3>1. PrematureReaps' = PrematureReaps + 1
      BY <1>1, <2>1, <2>3 DEF TimePassesEarly, Late, PrematureReaps
    <3> QED BY <1>3, <3>1
  <2>4. CASE ~TimePassesEarly(n)
    <3>1. row'[n] = "processing" /\ ~overdue'[n]
      BY <1>6, <2>2, <2>4, OtherStepKeepsRow
    <3>2. Toll(n)' = 0
      BY <1>2, <1>6, <3>1 DEF Toll, Unclaimed
    <3> QED BY <1>3, <3>2
  <2> QED BY <2>3, <2>4
<1> QED BY <1>4, <1>5, <1>6 DEF Unclaimed

LEMMA OtherStepAccount ==
  ASSUME TypeInv, LockInv, AccountInv, OtherStep
  PROVE  AccountInv'
<1> SUFFICES ASSUME NEW n \in Notifications
             PROVE  /\ IsFiniteSet(SendersAt(n)') /\ IsFiniteSet(Undecided(n)')
                    /\ SendersAt(n)' # {} =>
                         Cardinality(SendersAt(n)') + Toll(n)' <= 1 + PrematureReaps'
                    /\ accepted'[n] + dlq'[n] + Cardinality(Undecided(n)') + Toll(n)'
                         <= 1 + faults' + PrematureReaps'
  BY DEF AccountInv, CountsFinite, SendersPaid, OutcomesPaid
<1>1. UNCHANGED <<pc, job, accepted, dlq>> /\ faults' \in Nat /\ faults' >= faults
  BY OtherStepFrame
<1>2. SendersAt(n)' = SendersAt(n) /\ Undecided(n)' = Undecided(n)
  BY <1>1 DEF SendersAt, Undecided, InFlight
<1>3. /\ PrematureReaps' \in Nat /\ PrematureReaps' >= PrematureReaps
      /\ Toll(n)' - Toll(n) <= PrematureReaps' - PrematureReaps
      /\ Toll(n)' \in {0, 1}
  BY OtherStepToll DEF Toll
<1>4. /\ Cardinality(SendersAt(n)) \in Nat /\ Cardinality(Undecided(n)) \in Nat
      /\ accepted[n] \in Nat /\ dlq[n] \in Nat /\ faults \in Nat
      /\ PrematureReaps \in Nat /\ Toll(n) \in {0, 1}
  BY AccountTerms
<1>5. /\ IsFiniteSet(SendersAt(n)) /\ IsFiniteSet(Undecided(n))
      /\ SendersAt(n) # {} => Cardinality(SendersAt(n)) + Toll(n) <= 1 + PrematureReaps
      /\ accepted[n] + dlq[n] + Cardinality(Undecided(n)) + Toll(n)
           <= 1 + faults + PrematureReaps
  BY DEF AccountInv, CountsFinite, SendersPaid, OutcomesPaid
<1> QED BY <1>1, <1>2, <1>3, <1>4, <1>5

LEMMA AccountInvariant == Spec => []AccountInv
<1>1. TypeInv /\ LockInv /\ AccountInv /\ [Next]_vars => AccountInv'
  <2> SUFFICES ASSUME TypeInv, LockInv, AccountInv, [Next]_vars PROVE AccountInv'
    OBVIOUS
  <2>1. CASE SenderStep
    BY <2>1, SenderStepAccount DEF SenderStep
  <2>2. CASE Crash
    BY <2>2, CrashAccount
  <2>3. CASE OtherStep
    BY <2>3, OtherStepAccount
  <2> QED BY <2>1, <2>2, <2>3, NextCases
<1>2. SafetyInv => TypeInv /\ LockInv
  BY DEF SafetyInv
<1> QED BY <1>1, <1>2, InitAccount, SafetyInvariant, PTL DEF Spec

(* Whatever window is configured: there are never more senders at one      *)
(* notification than one, plus one for each threshold that passed before   *)
(* its delivery was over (ReapStuck, MarkProcessing).                      *)
THEOREM SendersAreBounded == Spec => []SendersBounded
<1>1. TypeInv /\ AccountInv => SendersBounded
  <2> SUFFICES ASSUME TypeInv, AccountInv, NEW n \in Notifications
               PROVE  Cardinality(SendersAt(n)) <= 1 + PrematureReaps
    BY DEF SendersBounded
  <2>1. SendersAt(n) # {} => Cardinality(SendersAt(n)) + Toll(n) <= 1 + PrematureReaps
    BY DEF AccountInv, SendersPaid
  <2> QED BY <2>1, AccountTerms
<1> QED BY <1>1, TypeInvariant, AccountInvariant, PTL

(* No notification has more outcomes - acceptances by the provider and     *)
(* dead letters - than one, plus one per failure and premature threshold:  *)
(* redeliveries, duplicate publishes and the reaper by themselves never    *)
(* cause a double send, and nothing but those two ever resolves an outcome *)
(* of a cancelled notification.                                            *)
THEOREM ExtraOutcomesAreFaults == Spec => []ExtraOutcomesNeedFaults
<1>1. TypeInv /\ AccountInv => ExtraOutcomesNeedFaults
  <2> SUFFICES ASSUME TypeInv, AccountInv, NEW n \in Notifications
               PROVE  accepted[n] + dlq[n] <=
                        faults + PrematureReaps + (IF Resolved(n) THEN 1 ELSE 0)
    BY DEF ExtraOutcomesNeedFaults
  <2>1. /\ accepted[n] + dlq[n] + Cardinality(Undecided(n)) + Toll(n)
             <= 1 + faults + PrematureReaps
        /\ IsFiniteSet(Undecided(n))
    BY DEF AccountInv, OutcomesPaid, CountsFinite
  <2>2. ~Resolved(n) => Toll(n) = 1 \/ Undecided(n) # {}
    BY DEF Resolved, Toll, Unclaimed, Undecided, SendersAt, InFlight
  <2>3. Undecided(n) # {} => Cardinality(Undecided(n)) # 0
    BY <2>1, FS_EmptySet
  <2> QED BY <2>1, <2>2, <2>3, AccountTerms
<1> QED BY <1>1, TypeInvariant, AccountInvariant, PTL
=============================================================================
