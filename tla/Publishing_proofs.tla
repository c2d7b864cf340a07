--------------------------- MODULE Publishing_proofs ---------------------------
(***************************************************************************)
(* Theorems about Delivery: what the status of a row says about the topic. *)
(***************************************************************************)
EXTENDS Delivery_proofs

(* What a request or a poller is about to mark 'queued' is in the topic or *)
(* still to be written by it.                                              *)
BatchesReachTopic ==
    \A n \in Notifications :
      /\ \A h \in Handlers : n \in batch[h] => n \in outbox[h] \/ InLog(n)
      /\ \A p \in Pollers : n \in locks[p] => n \in outbox[p] \/ InLog(n)

(* A sender only works on what it has read. *)
JobsFromTopic == \A s \in Senders : pc[s] # "idle" => InLog(job[s].id)

(* Not stored yet, or scheduled for later. *)
Early(n) == row[n] = "absent" \/ (row[n] = "scheduled" /\ ~overdue[n])

EarlyUntouched ==
    \A n \in Notifications :
      Early(n) =>
        /\ ~InLog(n)
        /\ \A c \in Publishers : n \notin outbox[c]
        /\ accepted[n] = 0 /\ dlq[n] = 0

TopicInv == BatchesReachTopic /\ JobsFromTopic /\ QueuedReachedTopic /\ EarlyUntouched
-----------------------------------------------------------------------------
LEMMA InLogAppend ==
  ASSUME TopicTypeOK, NEW m \in Notifications \cup {Poison}, log' = Append(log, m),
         NEW n \in Notifications
  PROVE  InLog(n)' <=> InLog(n) \/ n = m
<1>1. log \in Seq(Notifications \cup {Poison})
  BY DEF TopicTypeOK
<1>2. /\ Len(log') = Len(log) + 1 /\ Len(log) \in Nat
      /\ \A i \in 1..Len(log) : log'[i] = log[i]
      /\ log'[Len(log) + 1] = m
  BY <1>1
<1>3. \A i \in 1..Len(log') : i \in 1..Len(log) \/ i = Len(log) + 1
  BY <1>2
<1>4. \A i \in 1..Len(log) : i \in 1..Len(log')
  BY <1>2
<1>5. Len(log) + 1 \in 1..Len(log')
  BY <1>2
<1> QED BY <1>2, <1>3, <1>4, <1>5 DEF InLog

LEMMA InLogSame == ASSUME log' = log, NEW n PROVE InLog(n)' <=> InLog(n)
BY DEF InLog

LEMMA InitTopicInv == Init => TopicInv
BY DEF Init, StoreInit, TopicInit, ApiInit, WorkerInit, TopicInv, BatchesReachTopic, JobsFromTopic,
       QueuedReachedTopic, EarlyUntouched, InLog

(* The parts of the invariant hold after a step that leaves the senders    *)
(* and the outcomes alone if the log grows and, for each row, the batches  *)
(* and the status are as before or backed by the topic.                    *)
LEMMA TopicStep ==
  ASSUME TypeInv, TopicInv, UNCHANGED <<pc, job, accepted, dlq>>,
         \A n \in Notifications :
           /\ InLog(n) => InLog(n)'
           /\ \A h \in Handlers : n \in batch'[h] => n \in outbox'[h] \/ InLog(n)'
           /\ \A p \in Pollers : n \in locks'[p] => n \in outbox'[p] \/ InLog(n)'
           /\ row'[n] \in {"queued", "processing", "sent", "dead"} =>
                row'[n] = row[n] \/ InLog(n)
           /\ Early(n)' =>
                Early(n) /\ ~InLog(n)' /\ \A c \in Publishers : n \notin outbox'[c]
  PROVE  TopicInv'
<1>1. BatchesReachTopic'
  BY DEF BatchesReachTopic
<1>2. JobsFromTopic'
  BY DEF TopicInv, JobsFromTopic, TypeInv, TypeOK, WorkerTypeOK
<1>3. QueuedReachedTopic'
  BY DEF TopicInv, QueuedReachedTopic
<1>4. EarlyUntouched'
  BY DEF TopicInv, EarlyUntouched
<1> QED BY <1>1, <1>2, <1>3, <1>4 DEF TopicInv

-----------------------------------------------------------------------------
LEMMA ApiStepTopic ==
  ASSUME TypeInv, TopicInv, NEW h \in Handlers, ApiStep(h), UNCHANGED workerVars
  PROVE  TopicInv'
<1>0. /\ TopicTypeOK /\ ApiTypeOK /\ StoreTypeOK
      /\ outbox \in [Publishers -> SUBSET Notifications]
      /\ batch \in [Handlers -> SUBSET Notifications]
      /\ row \in [Notifications -> RowState]
      /\ h \in Publishers /\ Handlers \subseteq Publishers /\ Pollers \subseteq Publishers
      /\ h \notin Pollers
      /\ UNCHANGED <<pc, job, accepted, dlq>>
  BY ActorAssumption
     DEF TypeInv, TypeOK, TopicTypeOK, ApiTypeOK, StoreTypeOK, Publishers, workerVars, outcomeVars
<1>1. ASSUME NEW ids \in SUBSET Notifications, NEW future \in SUBSET ids,
             CreateNotifications(h, ids, future)
      PROVE  TopicInv'
  <2>1. /\ log' = log /\ locks' = locks /\ overdue' = overdue
        /\ batch' = [batch EXCEPT ![h] = ids \ future]
        /\ outbox' = [outbox EXCEPT ![h] = ids \ future]
        /\ \A n \in ids : row[n] = "absent"
        /\ row' = [n \in Notifications |->
                     IF n \notin ids THEN row[n]
                     ELSE IF n \in future THEN "scheduled" ELSE "pending"]
    BY <1>1 DEF CreateNotifications, Insert, StartPublish
  <2> SUFFICES ASSUME NEW n \in Notifications
               PROVE  /\ InLog(n) => InLog(n)'
                      /\ \A g \in Handlers : n \in batch'[g] => n \in outbox'[g] \/ InLog(n)'
                      /\ \A p \in Pollers : n \in locks'[p] => n \in outbox'[p] \/ InLog(n)'
                      /\ row'[n] \in {"queued", "processing", "sent", "dead"} =>
                           row'[n] = row[n] \/ InLog(n)
                      /\ Early(n)' =>
                           Early(n) /\ ~InLog(n)' /\ \A c \in Publishers : n \notin outbox'[c]
    BY <1>0, TopicStep
  <2>2. InLog(n)' <=> InLog(n)
    BY <2>1, InLogSame
  <2>3. \A g \in Handlers : n \in batch'[g] => n \in outbox'[g] \/ InLog(n)'
    BY <1>0, <2>1, <2>2 DEF TopicInv, BatchesReachTopic
  <2>4. \A p \in Pollers : n \in locks'[p] => n \in outbox'[p] \/ InLog(n)'
    BY <1>0, <2>1, <2>2 DEF TopicInv, BatchesReachTopic
  <2>5. Early(n)' => Early(n) /\ n \notin ids \ future
    BY <2>1 DEF Early
  <2>6. Early(n) => ~InLog(n) /\ \A c \in Publishers : n \notin outbox[c]
    BY DEF TopicInv, EarlyUntouched
  <2>7. n \notin ids \ future => \A c \in Publishers : n \in outbox'[c] => n \in outbox[c]
    BY <1>0, <2>1
  <2> QED BY <2>1, <2>2, <2>3, <2>4, <2>5, <2>6, <2>7
<1>2. ASSUME NEW m \in Notifications, ApiWrite(h, m) PROVE TopicInv'
  <2>1. /\ m \in outbox[h] /\ log' = Append(log, m)
        /\ outbox' = [outbox EXCEPT ![h] = @ \ {m}]
        /\ UNCHANGED <<row, overdue, locks, batch>>
    BY <1>2 DEF ApiWrite, WriteMessage, storeVars, apiVars
  <2>2. \A n \in Notifications : InLog(n)' <=> InLog(n) \/ n = m
    BY <1>0, <2>1, InLogAppend
  <2>3. \A n \in Notifications :
          /\ \A g \in Handlers : n \in batch'[g] => n \in outbox'[g] \/ InLog(n)'
          /\ \A p \in Pollers : n \in locks'[p] => n \in outbox'[p] \/ InLog(n)'
    BY <1>0, <2>1, <2>2 DEF TopicInv, BatchesReachTopic
  <2>4. \A n \in Notifications :
          Early(n)' =>
            Early(n) /\ n # m /\ ~InLog(n) /\ \A c \in Publishers : n \notin outbox'[c]
    BY <1>0, <2>1 DEF TopicInv, EarlyUntouched, Early
  <2> QED BY <1>0, <2>1, <2>2, <2>3, <2>4, TopicStep
<1>3. CASE ApiMarkQueued(h)
  <2>1. /\ outbox[h] = {} /\ UNCHANGED <<log, outbox, locks>>
        /\ batch' = [batch EXCEPT ![h] = {}]
        /\ SetStatus({n \in batch[h] : row[n] = "pending"}, "queued")
    BY <1>3 DEF ApiMarkQueued, MarkQueued, topicVars
  <2>2. \A n \in batch[h] : InLog(n)
    BY <1>0, <2>1 DEF TopicInv, BatchesReachTopic
  <2>3. \A n \in Notifications : InLog(n)' <=> InLog(n)
    BY <2>1, InLogSame
  <2>4. \A n \in Notifications :
          \/ row'[n] = row[n] /\ overdue'[n] = overdue[n]
          \/ row'[n] = "queued" /\ n \in batch[h]
    BY <1>0, <2>1 DEF SetStatus, StoreTypeOK
  <2>5. \A n \in Notifications :
          /\ \A g \in Handlers : n \in batch'[g] => n \in outbox'[g] \/ InLog(n)'
          /\ \A p \in Pollers : n \in locks'[p] => n \in outbox'[p] \/ InLog(n)'
    BY <1>0, <2>1, <2>3 DEF TopicInv, BatchesReachTopic
  <2>6. \A n \in Notifications : Early(n)' => Early(n)
    BY <2>4 DEF Early
  <2>7. \A n \in Notifications :
          Early(n) => ~InLog(n) /\ \A c \in Publishers : n \notin outbox[c]
    BY DEF TopicInv, EarlyUntouched
  <2> QED BY <1>0, <2>1, <2>2, <2>3, <2>4, <2>5, <2>6, <2>7, TopicStep
<1>4. CASE ApiAbort(h)
  <2>1. /\ UNCHANGED <<log, row, overdue, locks>>
        /\ batch' = [batch EXCEPT ![h] = {}]
        /\ outbox' = outbox \/ outbox' = [outbox EXCEPT ![h] = {}]
    BY <1>4 DEF ApiAbort, AbandonPublish, storeVars
  <2>2. \A n \in Notifications : InLog(n)' <=> InLog(n)
    BY <2>1, InLogSame
  <2>3. \A n \in Notifications :
          /\ \A g \in Handlers : n \in batch'[g] => n \in outbox'[g] \/ InLog(n)'
          /\ \A p \in Pollers : n \in locks'[p] => n \in outbox'[p] \/ InLog(n)'
    BY <1>0, <2>1, <2>2 DEF TopicInv, BatchesReachTopic
  <2>4. \A n \in Notifications :
          Early(n)' => Early(n) /\ ~InLog(n) /\ \A c \in Publishers : n \notin outbox'[c]
    BY <1>0, <2>1 DEF TopicInv, EarlyUntouched, Early
  <2> QED BY <1>0, <2>1, <2>2, <2>3, <2>4, TopicStep
<1> QED BY <1>1, <1>2, <1>3, <1>4 DEF ApiStep

LEMMA PollerStepTopic ==
  ASSUME TypeInv, TopicInv, NEW p \in Pollers, PollerStep(p), UNCHANGED <<apiVars, workerVars>>
  PROVE  TopicInv'
<1>0. /\ TopicTypeOK /\ StoreTypeOK
      /\ outbox \in [Publishers -> SUBSET Notifications]
      /\ locks \in [Pollers -> SUBSET Notifications]
      /\ row \in [Notifications -> RowState]
      /\ p \in Publishers /\ Handlers \subseteq Publishers /\ Pollers \subseteq Publishers
      /\ p \notin Handlers
      /\ UNCHANGED <<pc, job, accepted, dlq, batch>>
  BY ActorAssumption
     DEF TypeInv, TypeOK, TopicTypeOK, StoreTypeOK, Publishers, workerVars, outcomeVars, apiVars
<1>1. ASSUME NEW S \in SUBSET {n \in Notifications : ~Early(n)}, SelectSkipLocked(p, S),
             StartPublish(p, locks'[p])
      PROVE  TopicInv'
  <2>1. PICK ids \in SUBSET S : locks' = [locks EXCEPT ![p] = ids]
    BY <1>1 DEF SelectSkipLocked
  <2>2. /\ UNCHANGED <<log, row, overdue>>
        /\ outbox' = [outbox EXCEPT ![p] = ids]
    BY <1>0, <1>1, <2>1 DEF SelectSkipLocked, StartPublish
  <2>3. \A n \in Notifications : InLog(n)' <=> InLog(n)
    BY <2>2, InLogSame
  <2>4. \A n \in Notifications :
          /\ \A h \in Handlers : n \in batch'[h] => n \in outbox'[h] \/ InLog(n)'
          /\ \A q \in Pollers : n \in locks'[q] => n \in outbox'[q] \/ InLog(n)'
    BY <1>0, <2>1, <2>2, <2>3 DEF TopicInv, BatchesReachTopic
  <2>5. \A n \in Notifications :
          Early(n)' => Early(n) /\ ~InLog(n) /\ \A c \in Publishers : n \notin outbox'[c]
    <3>1. \A n \in Notifications : Early(n) => n \notin ids
      BY <1>1, <2>1
    <3>2. \A n \in Notifications : Early(n)' => Early(n)
      BY <2>2 DEF Early
    <3> QED BY <1>0, <2>2, <3>1, <3>2 DEF TopicInv, EarlyUntouched
  <2> QED BY <1>0, <2>2, <2>3, <2>4, <2>5, TopicStep
<1>2. CASE p \in Schedulers /\ SelectDue(p)
  <2>1. Due \in SUBSET {n \in Notifications : ~Early(n)}
    BY DEF Due, Early
  <2> QED BY <1>1, <1>2, <2>1 DEF SelectDue
<1>3. CASE p \in Reapers /\ SelectStuck(p)
  <2>1. Stuck \in SUBSET {n \in Notifications : ~Early(n)}
    BY DEF Stuck, Early, Unfinished
  <2> QED BY <1>1, <1>3, <2>1 DEF SelectStuck
<1>4. ASSUME NEW m \in Notifications, PollerWrite(p, m) PROVE TopicInv'
  <2>1. /\ m \in outbox[p] /\ log' = Append(log, m)
        /\ outbox' = [outbox EXCEPT ![p] = @ \ {m}]
        /\ UNCHANGED <<row, overdue, locks>>
    BY <1>4 DEF PollerWrite, WriteMessage, storeVars
  <2>2. \A n \in Notifications : InLog(n)' <=> InLog(n) \/ n = m
    BY <1>0, <2>1, InLogAppend
  <2>3. \A n \in Notifications :
          /\ \A h \in Handlers : n \in batch'[h] => n \in outbox'[h] \/ InLog(n)'
          /\ \A q \in Pollers : n \in locks'[q] => n \in outbox'[q] \/ InLog(n)'
    BY <1>0, <2>1, <2>2 DEF TopicInv, BatchesReachTopic
  <2>4. \A n \in Notifications :
          Early(n)' =>
            Early(n) /\ n # m /\ ~InLog(n) /\ \A c \in Publishers : n \notin outbox'[c]
    BY <1>0, <2>1 DEF TopicInv, EarlyUntouched, Early
  <2> QED BY <1>0, <2>1, <2>2, <2>3, <2>4, TopicStep
<1>5. CASE PollerCommit(p)
  <2>1. /\ outbox[p] = {} /\ UNCHANGED <<log, outbox>>
        /\ locks' = [locks EXCEPT ![p] = {}]
        /\ SetStatus(locks[p], "queued")
    BY <1>5 DEF PollerCommit, CommitQueued, topicVars
  <2>2. \A n \in locks[p] : InLog(n)
    BY <1>0, <2>1 DEF TopicInv, BatchesReachTopic
  <2>3. \A n \in Notifications : InLog(n)' <=> InLog(n)
    BY <2>1, InLogSame
  <2>4. \A n \in Notifications :
          \/ row'[n] = row[n] /\ overdue'[n] = overdue[n]
          \/ row'[n] = "queued" /\ n \in locks[p]
    BY <1>0, <2>1 DEF SetStatus, StoreTypeOK
  <2>5. \A n \in Notifications :
          /\ \A h \in Handlers : n \in batch'[h] => n \in outbox'[h] \/ InLog(n)'
          /\ \A q \in Pollers : n \in locks'[q] => n \in outbox'[q] \/ InLog(n)'
    BY <1>0, <2>1, <2>3 DEF TopicInv, BatchesReachTopic
  <2>6. \A n \in Notifications : Early(n)' => Early(n)
    BY <2>4 DEF Early
  <2>7. \A n \in Notifications :
          Early(n) => ~InLog(n) /\ \A c \in Publishers : n \notin outbox[c]
    BY DEF TopicInv, EarlyUntouched
  <2> QED BY <1>0, <2>1, <2>2, <2>3, <2>4, <2>5, <2>6, <2>7, TopicStep
<1>6. CASE PollerAbort(p)
  <2>1. /\ UNCHANGED <<log, row, overdue>>
        /\ locks' = [locks EXCEPT ![p] = {}]
        /\ outbox' = outbox \/ outbox' = [outbox EXCEPT ![p] = {}]
    BY <1>6 DEF PollerAbort, Rollback, AbandonPublish
  <2>2. \A n \in Notifications : InLog(n)' <=> InLog(n)
    BY <2>1, InLogSame
  <2>3. \A n \in Notifications :
          /\ \A h \in Handlers : n \in batch'[h] => n \in outbox'[h] \/ InLog(n)'
          /\ \A q \in Pollers : n \in locks'[q] => n \in outbox'[q] \/ InLog(n)'
    BY <1>0, <2>1, <2>2 DEF TopicInv, BatchesReachTopic
  <2>4. \A n \in Notifications :
          Early(n)' => Early(n) /\ ~InLog(n) /\ \A c \in Publishers : n \notin outbox'[c]
    BY <1>0, <2>1 DEF TopicInv, EarlyUntouched, Early
  <2> QED BY <1>0, <2>1, <2>2, <2>3, <2>4, TopicStep
<1> QED BY <1>2, <1>3, <1>4, <1>5, <1>6 DEF PollerStep

(* Steps that change neither batches, locks and outboxes nor any status    *)
(* except to 'cancelled'.                                                  *)
LEMMA QuietStepTopic ==
  ASSUME TypeInv, TopicInv, UNCHANGED <<pc, job, accepted, dlq, batch, locks, outbox>>,
         log' = log \/ log' = Append(log, Poison),
         \A n \in Notifications :
           \/ row'[n] = "cancelled"
           \/ row'[n] = row[n] /\ (overdue[n] => overdue'[n])
  PROVE  TopicInv'
<1>1. \A n \in Notifications : InLog(n)' <=> InLog(n)
  BY InLogAppend, InLogSame, PoisonAssumption DEF TypeInv, TypeOK
<1>2. \A n \in Notifications :
        Early(n)' => Early(n) /\ ~InLog(n) /\ \A c \in Publishers : n \notin outbox[c]
  BY DEF Early, TopicInv, EarlyUntouched
<1>3. \A n \in Notifications :
        /\ \A h \in Handlers : n \in batch'[h] => n \in outbox'[h] \/ InLog(n)'
        /\ \A q \in Pollers : n \in locks'[q] => n \in outbox'[q] \/ InLog(n)'
  BY <1>1 DEF TopicInv, BatchesReachTopic
<1> QED BY <1>1, <1>2, <1>3, TopicStep

LEMMA OtherStepTopic ==
  ASSUME TypeInv, TopicInv, OtherStep
  PROVE  TopicInv'
<1>0. UNCHANGED <<pc, job, accepted, dlq>> /\ StoreTypeOK
  BY OtherStepFrame DEF TypeInv, TypeOK
<1>1. CASE \E h \in Handlers : ApiStep(h) /\ UNCHANGED workerVars
  BY <1>1, ApiStepTopic
<1>2. CASE \E p \in Pollers : PollerStep(p) /\ UNCHANGED <<apiVars, workerVars>>
  BY <1>2, PollerStepTopic
<1>3. ASSUME NEW n \in Notifications, ApiCancel(n) PROVE TopicInv'
  <2>1. UNCHANGED <<log, outbox, locks, batch>> /\ SetStatus({n}, "cancelled")
    BY <1>3 DEF ApiCancel, CancelRow, topicVars, apiVars
  <2> QED BY <1>0, <2>1, QuietStepTopic DEF SetStatus, StoreTypeOK
<1>4. CASE WritePoison /\ UNCHANGED <<storeVars, apiVars, workerVars>>
  BY <1>0, <1>4, QuietStepTopic DEF WritePoison, storeVars, apiVars
<1>5. CASE (FetcherStep \/ Reassign) /\ UNCHANGED apiVars
  BY <1>0, <1>5, QuietStepTopic
     DEF FetcherStep, Fetch, FetchPoison, FetchMessage, Reassign, Rebalance, storeVars, apiVars
<1>6. ASSUME NEW n \in Notifications, TimePasses(n) \/ TimePassesEarly(n) PROVE TopicInv'
  <2>1. /\ UNCHANGED <<log, outbox, locks, batch, row>>
        /\ overdue' = [overdue EXCEPT ![n] = TRUE]
    BY <1>6 DEF TimePasses, TimePassesEarly, topicVars, apiVars
  <2> QED BY <1>0, <2>1, QuietStepTopic DEF StoreTypeOK
<1>7. CASE UNCHANGED vars
  BY <1>0, <1>7, QuietStepTopic DEF vars, storeVars, topicVars, apiVars
<1> QED BY <1>1, <1>2, <1>3, <1>4, <1>5, <1>6, <1>7 DEF OtherStep
-----------------------------------------------------------------------------
LEMMA SenderFrame ==
  ASSUME NEW s \in Senders, SenderProgress(s) \/ SenderFailure(s)
  PROVE  UNCHANGED <<log, outbox, locks>>
<1>1. /\ \A n, claimed : MarkProcessing(n, claimed) => UNCHANGED locks
      /\ \A n : MarkSent(n) \/ MarkDead(n) => UNCHANGED locks
      /\ UNCHANGED storeVars => UNCHANGED locks
      /\ UNCHANGED topicVars => UNCHANGED <<log, outbox>>
      /\ CommitMessage(job[s].offset) => UNCHANGED <<log, outbox>>
  BY DEF MarkProcessing, MarkSent, MarkDead, storeVars, topicVars, CommitMessage
<1>2. CASE SenderProgress(s)
  BY <1>1, <1>2
     DEF SenderProgress, TakeJob, Claim, AttemptAccepted, AttemptRetryable, AttemptPermanent,
         RecordSent, Offload, RecordDead, CommitOffset
<1>3. CASE SenderFailure(s)
  BY <1>1, <1>3
     DEF SenderFailure, ClaimFails, AttemptAnswerLost, RecordSentFails, OffloadFails,
         RecordDeadFails, CommitFails
<1> QED BY <1>2, <1>3

(* A sender's job is in the topic before and after its step, and outcomes  *)
(* are outcomes of its job.                                                *)
LEMMA SenderJob ==
  ASSUME TypeInv, TopicInv, NEW s \in Senders, SenderProgress(s) \/ SenderFailure(s)
  PROVE  /\ pc'[s] # "idle" => InLog(job'[s].id)
         /\ \A n \in Notifications :
              (accepted'[n] # accepted[n] \/ dlq'[n] # dlq[n]) => InLog(n)
<1>0. /\ pc \in [Senders -> Steps] /\ job \in [Senders -> Job] /\ buffer \in Seq(Nat)
      /\ accepted \in [Notifications -> Nat] /\ dlq \in [Notifications -> Nat]
      /\ pc[s] # "idle" => InLog(job[s].id)
  BY DEF TypeInv, TypeOK, WorkerTypeOK, TopicInv, JobsFromTopic
<1>1. CASE TakeJob(s)
  <2>1. /\ buffer # <<>> /\ job'[s].id = log[Head(buffer)]
        /\ UNCHANGED <<accepted, dlq>>
    BY <1>0, <1>1 DEF TakeJob, outcomeVars
  <2>2. Head(buffer) = buffer[1] /\ 1 \in 1..Len(buffer)
    BY <1>0, <2>1
  <2>3. Head(buffer) \in 1..Len(log)
    BY <2>2 DEF TypeInv, MemoryOK
  <2> QED BY <2>1, <2>3 DEF InLog
<1>2. CASE ~TakeJob(s)
  <2>1. pc[s] # "idle" /\ (pc'[s] # "idle" => job'[s].id = job[s].id)
    <3>1. pc[s] # "idle"
      BY <1>2 DEF SenderProgress, SenderFailure, Claim, AttemptAccepted, AttemptRetryable,
             AttemptPermanent, RecordSent, Offload, RecordDead, CommitOffset, ClaimFails,
             AttemptAnswerLost, RecordSentFails, OffloadFails, RecordDeadFails, CommitFails
    <3>2. Finish(s) => pc'[s] = "idle"
      BY <1>0 DEF Finish, Goto
    <3>3. RetryOrGiveUp(s) \/ (\E next \in Steps : LeaveLoop(s, next)) => job'[s].id = job[s].id
      BY <1>0 DEF RetryOrGiveUp, LeaveLoop, Job
    <3>4. Finish(s) \/ RetryOrGiveUp(s) \/ (\E next \in Steps : LeaveLoop(s, next)) \/ UNCHANGED job
      BY <1>2 DEF SenderProgress, SenderFailure, Claim, AttemptAccepted, AttemptRetryable,
             AttemptPermanent, RecordSent, Offload, RecordDead, CommitOffset, ClaimFails,
             AttemptAnswerLost, RecordSentFails, OffloadFails, RecordDeadFails, CommitFails, Steps
    <3> QED BY <3>1, <3>2, <3>3, <3>4
  <2>2. \A n \in Notifications :
          n # job[s].id => accepted'[n] = accepted[n] /\ dlq'[n] = dlq[n]
    BY <1>0, <1>2 DEF SenderProgress, SenderFailure, Claim, AttemptAccepted, AttemptRetryable,
           AttemptPermanent, RecordSent, Offload, RecordDead, CommitOffset, ClaimFails,
           AttemptAnswerLost, RecordSentFails, OffloadFails, RecordDeadFails, CommitFails,
           ProviderAccepts, outcomeVars
  <2> QED BY <1>0, <2>1, <2>2
<1> QED BY <1>1, <1>2

LEMMA SenderStepTopic ==
  ASSUME TypeInv, TopicInv, SenderStep
  PROVE  TopicInv'
<1>0. PICK s \in Senders : (SenderProgress(s) \/ SenderFailure(s)) /\ UNCHANGED apiVars
  BY DEF SenderStep
<1>1. /\ UNCHANGED <<log, outbox, locks, batch>>
      /\ \A t \in Senders \ {s} : pc'[t] = pc[t] /\ job'[t] = job[t]
      /\ pc'[s] # "idle" => InLog(job'[s].id)
      /\ \A n \in Notifications :
           (accepted'[n] # accepted[n] \/ dlq'[n] # dlq[n]) => InLog(n)
  BY <1>0, SenderFrame, SenderStepShape, SenderJob DEF apiVars
<1>2. \A n : InLog(n)' <=> InLog(n)
  BY <1>1, InLogSame
<1>3. \A n \in Notifications :
        \/ row'[n] = row[n] /\ overdue'[n] = overdue[n]
        \/ row'[n] \in {"processing", "sent", "dead"} /\ InLog(n)
  <2>1. \/ UNCHANGED storeVars
        \/ /\ \E status \in {"processing", "sent", "dead"} : SetStatus({job[s].id}, status)
           /\ pc[s] # "idle"
    BY <1>0, SenderStepShape DEF InFlight
  <2>2. pc[s] # "idle" => InLog(job[s].id)
    BY DEF TopicInv, JobsFromTopic
  <2>3. row \in [Notifications -> RowState] /\ overdue \in [Notifications -> BOOLEAN]
    BY DEF TypeInv, TypeOK, StoreTypeOK
  <2> QED BY <2>1, <2>2, <2>3 DEF SetStatus, storeVars
<1>4. BatchesReachTopic'
  BY <1>1, <1>2 DEF TopicInv, BatchesReachTopic
<1>5. JobsFromTopic'
  BY <1>1, <1>2 DEF TopicInv, JobsFromTopic
<1>6. QueuedReachedTopic'
  BY <1>2, <1>3 DEF TopicInv, QueuedReachedTopic
<1>7. EarlyUntouched'
  <2> SUFFICES ASSUME NEW n \in Notifications, Early(n)'
               PROVE  /\ ~InLog(n)'
                      /\ \A c \in Publishers : n \notin outbox'[c]
                      /\ accepted'[n] = 0 /\ dlq'[n] = 0
    BY DEF EarlyUntouched
  <2>1. Early(n)
    BY <1>3 DEF Early
  <2>2. ~InLog(n) /\ accepted[n] = 0 /\ dlq[n] = 0 /\ \A c \in Publishers : n \notin outbox[c]
    BY <2>1 DEF TopicInv, EarlyUntouched
  <2> QED BY <1>1, <1>2, <2>2
<1> QED BY <1>4, <1>5, <1>6, <1>7 DEF TopicInv

LEMMA CrashTopic ==
  ASSUME TypeInv, TopicInv, Crash, UNCHANGED apiVars
  PROVE  TopicInv'
<1>1. /\ UNCHANGED <<log, outbox, locks, row, overdue, batch, accepted, dlq>>
      /\ \A s \in Senders : pc'[s] = "idle"
  BY DEF Crash, storeVars, outcomeVars, apiVars
<1>2. \A n : InLog(n)' <=> InLog(n)
  BY <1>1, InLogSame
<1>3. BatchesReachTopic' /\ QueuedReachedTopic'
  BY <1>1, <1>2 DEF TopicInv, BatchesReachTopic, QueuedReachedTopic
<1>4. EarlyUntouched'
  BY <1>1, <1>2 DEF TopicInv, EarlyUntouched, Early
<1> QED BY <1>1, <1>3, <1>4 DEF TopicInv, JobsFromTopic

LEMMA TopicInvariant == Spec => []TopicInv
<1>1. TypeInv /\ TopicInv /\ [Next]_vars => TopicInv'
  <2> SUFFICES ASSUME TypeInv, TopicInv, [Next]_vars PROVE TopicInv'
    OBVIOUS
  <2>1. SenderStep \/ (Crash /\ UNCHANGED apiVars) \/ OtherStep
    BY DEF Next, SenderStep, OtherStep
  <2> QED BY <2>1, SenderStepTopic, CrashTopic, OtherStepTopic
<1> QED BY <1>1, InitTopicInv, TypeInvariant, PTL DEF Spec

(* However requests, pollers and workers fail between the publish and the  *)
(* UPDATE, a row that is 'queued' or beyond has been in the topic          *)
(* (DispatchDue, ReapStuck, publishAndQueue, MarkProcessing).              *)
THEOREM QueuedRowsReachedTopic == Spec => []QueuedReachedTopic
<1>1. TopicInv => QueuedReachedTopic
  BY DEF TopicInv
<1> QED BY <1>1, TopicInvariant, PTL

(* No process gets hold of a scheduled notification before its time, for   *)
(* any number of requests, pollers and senders (publishAndQueue,           *)
(* DispatchDue).                                                           *)
THEOREM NothingBeforeDue == Spec => []NotBeforeDue
<1>1. TopicInv => NotBeforeDue
  BY DEF TopicInv, EarlyUntouched, Early, NotBeforeDue
<1> QED BY <1>1, TopicInvariant, PTL
-----------------------------------------------------------------------------
(* SkipsAreCovered: until something fails, a row is 'processing' only      *)
(* while a sender delivers it, and a scheduled one that is on its way to   *)
(* the topic, or there, is held by the scheduler that publishes it.        *)
OnItsWay(n) == InLog(n) \/ \E c \in Publishers : n \in outbox[c]

HeldByScheduler(n) == \E p \in Schedulers : n \in locks[p]

CoverInv ==
    faults = 0 =>
      \A n \in Notifications :
        /\ row[n] = "processing" => SendersAt(n) # {}
        /\ row[n] = "scheduled" /\ OnItsWay(n) => HeldByScheduler(n)

LEMMA InitCover == Init => CoverInv
BY DEF Init, StoreInit, CoverInv

(* A step that fails nothing keeps the invariant if, for each row, only a  *)
(* row that was 'processing' or 'scheduled' before is so after it, or it   *)
(* is scheduled anew and not published, and locks are released only of     *)
(* rows that are no longer scheduled.                                      *)
LEMMA CoverStep ==
  ASSUME CoverInv, faults = 0, UNCHANGED <<pc, job>>,
         \A n \in Notifications :
           /\ row'[n] = "processing" => row[n] = "processing"
           /\ row'[n] = "scheduled" /\ OnItsWay(n)' =>
                \/ HeldByScheduler(n)'
                \/ row[n] = "scheduled" /\ OnItsWay(n) /\ (HeldByScheduler(n) => HeldByScheduler(n)')
  PROVE  CoverInv'
<1>1. \A n : SendersAt(n)' = SendersAt(n)
  BY DEF SendersAt, InFlight
<1> QED BY <1>1 DEF CoverInv

LEMMA OnItsWayStep ==
  ASSUME TopicTypeOK, NEW c \in Publishers, NEW m \in outbox[c],
         log' = Append(log, m), outbox' = [outbox EXCEPT ![c] = @ \ {m}],
         NEW n \in Notifications
  PROVE  OnItsWay(n)' => OnItsWay(n)
<1>1. m \in Notifications
  BY DEF TopicTypeOK
<1>2. InLog(n)' => InLog(n) \/ n = m
  BY <1>1, InLogAppend
<1>3. \A d \in Publishers : n \in outbox'[d] => n \in outbox[d]
  BY DEF TopicTypeOK
<1> QED BY <1>2, <1>3 DEF OnItsWay

LEMMA ApiStepCover ==
  ASSUME TypeInv, TopicInv, CoverInv, NEW h \in Handlers, ApiStep(h), UNCHANGED workerVars,
         faults = 0, faults' = 0
  PROVE  CoverInv'
<1>0. /\ TopicTypeOK /\ StoreTypeOK /\ h \in Publishers /\ UNCHANGED <<pc, job>>
      /\ outbox \in [Publishers -> SUBSET Notifications]
      /\ row \in [Notifications -> RowState]
  BY DEF TypeInv, TypeOK, TopicTypeOK, StoreTypeOK, Publishers, workerVars
<1>1. ASSUME NEW ids \in SUBSET Notifications, NEW future \in SUBSET ids,
             CreateNotifications(h, ids, future)
      PROVE  CoverInv'
  <2>1. /\ log' = log /\ locks' = locks
        /\ outbox' = [outbox EXCEPT ![h] = ids \ future]
        /\ \A n \in ids : row[n] = "absent"
        /\ row' = [n \in Notifications |->
                     IF n \notin ids THEN row[n]
                     ELSE IF n \in future THEN "scheduled" ELSE "pending"]
    BY <1>1 DEF CreateNotifications, Insert, StartPublish
  <2> SUFFICES ASSUME NEW n \in Notifications
               PROVE  /\ row'[n] = "processing" => row[n] = "processing"
                      /\ row'[n] = "scheduled" /\ OnItsWay(n)' =>
                           row[n] = "scheduled" /\ OnItsWay(n)
    BY <1>0, <2>1, CoverStep DEF HeldByScheduler
  <2>2. n \notin ids \ future /\ OnItsWay(n)' => OnItsWay(n)
    BY <1>0, <2>1, InLogSame DEF OnItsWay
  <2>3. row[n] = "absent" => ~OnItsWay(n)
    BY DEF TopicInv, EarlyUntouched, Early, OnItsWay
  <2> QED BY <2>1, <2>2, <2>3
<1>2. ASSUME NEW m \in Notifications, ApiWrite(h, m) PROVE CoverInv'
  <2>1. /\ m \in outbox[h] /\ log' = Append(log, m)
        /\ outbox' = [outbox EXCEPT ![h] = @ \ {m}]
        /\ UNCHANGED <<row, locks>>
    BY <1>2 DEF ApiWrite, WriteMessage, storeVars
  <2>2. \A n \in Notifications : OnItsWay(n)' => OnItsWay(n)
    BY <1>0, <2>1, OnItsWayStep
  <2> QED BY <1>0, <2>1, <2>2, CoverStep DEF HeldByScheduler
<1>3. CASE ApiMarkQueued(h)
  <2>1. /\ UNCHANGED <<log, outbox, locks>>
        /\ SetStatus({n \in batch[h] : row[n] = "pending"}, "queued")
    BY <1>3 DEF ApiMarkQueued, MarkQueued, topicVars
  <2>2. \A n \in Notifications : row'[n] \in {row[n], "queued"}
    BY <1>0, <2>1 DEF SetStatus
  <2> QED BY <1>0, <2>1, <2>2, CoverStep DEF HeldByScheduler, OnItsWay, InLog
<1>4. ~ApiAbort(h)
  BY DEF ApiAbort, Fault
<1> QED BY <1>1, <1>2, <1>3, <1>4 DEF ApiStep

LEMMA PollerStepCover ==
  ASSUME TypeInv, LockInv, CoverInv, NEW p \in Pollers, PollerStep(p),
         UNCHANGED workerVars, faults = 0, faults' = 0
  PROVE  CoverInv'
<1>0. /\ TopicTypeOK /\ StoreTypeOK /\ p \in Publishers /\ UNCHANGED <<pc, job>>
      /\ outbox \in [Publishers -> SUBSET Notifications]
      /\ locks \in [Pollers -> SUBSET Notifications]
      /\ row \in [Notifications -> RowState]
      /\ Schedulers \subseteq Pollers
  BY DEF TypeInv, TypeOK, TopicTypeOK, StoreTypeOK, Publishers, Pollers, workerVars
<1>1. ASSUME NEW S, SelectSkipLocked(p, S), NoTransaction(p), StartPublish(p, locks'[p])
      PROVE  \A n \in Notifications :
               /\ row'[n] = row[n]
               /\ OnItsWay(n)' => OnItsWay(n) \/ n \in locks'[p]
               /\ HeldByScheduler(n) => HeldByScheduler(n)'
               /\ n \in locks'[p] => n \in S
  <2>1. PICK ids \in SUBSET S : locks' = [locks EXCEPT ![p] = ids]
    BY <1>1 DEF SelectSkipLocked
  <2>2. /\ UNCHANGED <<log, row>> /\ locks[p] = {}
        /\ outbox' = [outbox EXCEPT ![p] = locks'[p]]
    BY <1>1 DEF SelectSkipLocked, StartPublish, NoTransaction
  <2>3. \A n \in Notifications : OnItsWay(n)' => OnItsWay(n) \/ n \in locks'[p]
    BY <1>0, <2>2, InLogSame DEF OnItsWay
  <2>4. \A n \in Notifications : HeldByScheduler(n) => HeldByScheduler(n)'
    BY <1>0, <2>1, <2>2 DEF HeldByScheduler
  <2> QED BY <1>0, <2>1, <2>2, <2>3, <2>4
<1>2. CASE p \in Schedulers /\ SelectDue(p)
  <2>1. SelectSkipLocked(p, Due) /\ NoTransaction(p) /\ StartPublish(p, locks'[p])
    BY <1>2 DEF SelectDue
  <2>2. \A n \in Notifications : n \in locks'[p] => HeldByScheduler(n)'
    BY <1>2 DEF HeldByScheduler
  <2> QED BY <1>0, <1>1, <2>1, <2>2, CoverStep
<1>3. CASE p \in Reapers /\ SelectStuck(p)
  <2>1. SelectSkipLocked(p, Stuck) /\ NoTransaction(p) /\ StartPublish(p, locks'[p])
    BY <1>3 DEF SelectStuck
  <2>2. \A n \in Stuck : row[n] # "scheduled"
    BY DEF Stuck, Unfinished
  <2> QED BY <1>0, <1>1, <2>1, <2>2, CoverStep
<1>4. ASSUME NEW m \in Notifications, PollerWrite(p, m) PROVE CoverInv'
  <2>1. /\ m \in outbox[p] /\ log' = Append(log, m)
        /\ outbox' = [outbox EXCEPT ![p] = @ \ {m}]
        /\ UNCHANGED <<row, locks>>
    BY <1>4 DEF PollerWrite, WriteMessage, storeVars
  <2>2. \A n \in Notifications : OnItsWay(n)' => OnItsWay(n)
    BY <1>0, <2>1, OnItsWayStep
  <2> QED BY <1>0, <2>1, <2>2, CoverStep DEF HeldByScheduler
<1>5. CASE PollerCommit(p)
  <2>1. /\ UNCHANGED <<log, outbox>>
        /\ locks' = [locks EXCEPT ![p] = {}]
        /\ SetStatus(locks[p], "queued")
    BY <1>5 DEF PollerCommit, CommitQueued, topicVars
  <2>2. \A n \in Notifications : n \in locks[p] => row'[n] = "queued"
    BY <2>1 DEF SetStatus
  <2>3. \A n \in Notifications : n \notin locks[p] => row'[n] = row[n]
    BY <1>0, <2>1 DEF SetStatus
  <2>4. \A n \in Notifications : n \notin locks[p] /\ HeldByScheduler(n) => HeldByScheduler(n)'
    BY <1>0, <2>1 DEF HeldByScheduler
  <2>5. \A n : OnItsWay(n)' <=> OnItsWay(n)
    BY <2>1 DEF OnItsWay, InLog
  <2> QED BY <1>0, <2>2, <2>3, <2>4, <2>5, CoverStep
<1>6. ~PollerAbort(p)
  BY DEF PollerAbort, Fault
<1> QED BY <1>2, <1>3, <1>4, <1>5, <1>6 DEF PollerStep

LEMMA OtherStepCover ==
  ASSUME TypeInv, LockInv, TopicInv, CoverInv, OtherStep, faults' = 0
  PROVE  CoverInv'
<1>0. /\ UNCHANGED <<pc, job>> /\ faults = 0
      /\ row \in [Notifications -> RowState]
  BY OtherStepFrame DEF TypeInv, TypeOK, EnvTypeOK, StoreTypeOK
<1>1. CASE \E h \in Handlers : ApiStep(h) /\ UNCHANGED workerVars
  BY <1>0, <1>1, ApiStepCover
<1>2. CASE \E p \in Pollers : PollerStep(p) /\ UNCHANGED <<apiVars, workerVars>>
  BY <1>0, <1>2, PollerStepCover
<1>3. ASSUME UNCHANGED <<log, outbox, locks>>,
             \A n \in Notifications : row'[n] \in {row[n], "cancelled"}
      PROVE  CoverInv'
  BY <1>0, <1>3, CoverStep DEF HeldByScheduler, OnItsWay, InLog
<1>4. CASE \E n \in Notifications : ApiCancel(n) /\ UNCHANGED workerVars
  BY <1>0, <1>3, <1>4 DEF ApiCancel, CancelRow, SetStatus, topicVars
<1>5. CASE FetcherStep \/ (\E n \in Notifications : TimePasses(n) \/ TimePassesEarly(n))
           \/ UNCHANGED vars
  BY <1>3, <1>5 DEF FetcherStep, Fetch, FetchPoison, FetchMessage, TimePasses, TimePassesEarly,
                    storeVars, topicVars, vars
<1>6. ~Reassign /\ ~WritePoison
  BY <1>0 DEF Reassign, WritePoison, Fault
<1> QED BY <1>1, <1>2, <1>4, <1>5, <1>6 DEF OtherStep

LEMMA SenderStepCover ==
  ASSUME TypeInv, CoverInv, SenderStep, faults' = 0
  PROVE  CoverInv'
<1>0. PICK s \in Senders : SenderProgress(s) \/ SenderFailure(s)
  BY DEF SenderStep
<1>1. UNCHANGED <<log, outbox, locks>>
  BY <1>0, SenderFrame
<1>2. faults = 0 /\ faults' # faults + 1
  <2>1. faults \in 0..MaxFaults /\ MaxFaults \in Nat
    BY BudgetAssumption DEF TypeInv, TypeOK, EnvTypeOK
  <2>2. faults' \in {faults, faults + 1}
    BY <1>0, SenderStepShape
  <2> QED BY <2>1, <2>2
<1> SUFFICES ASSUME NEW n \in Notifications
             PROVE  /\ row'[n] = "processing" => SendersAt(n)' # {}
                    /\ row'[n] = "scheduled" /\ OnItsWay(n)' => HeldByScheduler(n)'
  BY DEF CoverInv
<1>3. /\ OnItsWay(n)' <=> OnItsWay(n)
      /\ HeldByScheduler(n)' <=> HeldByScheduler(n)
  BY <1>1 DEF OnItsWay, InLog, HeldByScheduler
<1>4. /\ row[n] = "processing" => SendersAt(n) # {}
      /\ row[n] = "scheduled" /\ OnItsWay(n) => HeldByScheduler(n)
  BY <1>2 DEF CoverInv
<1>5. \/ row'[n] = row[n] /\ (s \in SendersAt(n)' <=> s \in SendersAt(n))
      \/ row'[n] = "processing" /\ s \in SendersAt(n)'
      \/ row'[n] = row[n] /\ s \in SendersAt(n)'
      \/ row'[n] \in {"sent", "dead"}
  BY <1>0, <1>2, SenderStepEffect
<1>6. SendersAt(n)' = IF s \in SendersAt(n)' THEN SendersAt(n) \cup {s}
                                             ELSE SendersAt(n) \ {s}
  BY <1>0, SenderStepSets
<1> QED BY <1>3, <1>4, <1>5, <1>6

LEMMA CoverInvariant == Spec => []CoverInv
<1>1. TypeInv /\ LockInv /\ TopicInv /\ CoverInv /\ [Next]_vars => CoverInv'
  <2> SUFFICES ASSUME TypeInv, LockInv, TopicInv, CoverInv, [Next]_vars, faults' = 0
               PROVE  CoverInv'
    BY DEF CoverInv
  <2>1. ~Crash
    BY DEF Crash, Fault, TypeInv, TypeOK, EnvTypeOK
  <2> QED BY <2>1, SenderStepCover, OtherStepCover, NextCases
<1>2. SafetyInv => TypeInv /\ LockInv
  BY DEF SafetyInv
<1> QED BY <1>1, <1>2, InitCover, SafetyInvariant, TopicInvariant, PTL DEF Spec

(* A worker that commits the message of a row it could not claim loses     *)
(* nothing until something fails: the row is final, being delivered, or    *)
(* about to be queued by the scheduler that published it (process,         *)
(* MarkProcessing, DispatchDue).                                           *)
THEOREM SkipsCovered == Spec => SkipsAreCovered
<1> DEFINE Covered(n) == row[n] \in Terminal \/ InDelivery(n) \/ HeldByScheduler(n)
           CoveredSkips ==
             \A s \in Senders :
               LET n == job[s].id
               IN  pc[s] = "claim" /\ pc'[s] = "commit" /\ faults = 0 =>
                     \/ row[n] \in Terminal
                     \/ InDelivery(n)
                     \/ \E p \in Schedulers : n \in locks[p]
<1>1. TypeInv /\ TopicInv /\ CoverInv /\ [Next]_vars => [CoveredSkips]_vars
  <2> SUFFICES ASSUME TypeInv, TopicInv, CoverInv, [Next]_vars, NEW s \in Senders,
                      pc[s] = "claim", pc'[s] = "commit", faults = 0
               PROVE  Covered(job[s].id)
    BY DEF HeldByScheduler
  <2> DEFINE n == job[s].id
  <2>1. n \in Notifications /\ InLog(n) /\ row[n] \in RowState
    BY DEF TypeInv, TypeOK, WorkerTypeOK, StoreTypeOK, TopicInv, JobsFromTopic
  <2>2. row[n] \notin Claimable
    <3>1. ~OtherStep /\ ~Crash
      BY OtherStepFrame DEF Crash
    <3>2. PICK t \in Senders : SenderProgress(t) \/ SenderFailure(t)
      BY <3>1, NextCases DEF SenderStep
    <3>3. t = s
      BY <3>2, SenderStepShape
    <3>4. \E claimed \in BOOLEAN : Claim(s, claimed)
      BY <3>2, <3>3 DEF SenderProgress, SenderFailure, TakeJob, AttemptAccepted, AttemptRetryable,
             AttemptPermanent, RecordSent, Offload, RecordDead, CommitOffset, ClaimFails,
             AttemptAnswerLost, RecordSentFails, OffloadFails, RecordDeadFails, CommitFails,
             Finish, Goto, TypeInv, TypeOK, WorkerTypeOK
    <3> QED BY <3>4 DEF Claim, MarkProcessing, Goto, TypeInv, TypeOK, WorkerTypeOK
  <2>3. row[n] \in Terminal \cup {"scheduled", "processing"}
    BY <2>1, <2>2 DEF RowState, Status, Terminal, Claimable, TopicInv, EarlyUntouched, Early
  <2>4. CASE row[n] = "processing"
    BY <2>1, <2>4 DEF CoverInv, SendersAt, InDelivery
  <2>5. CASE row[n] = "scheduled"
    BY <2>1, <2>5 DEF CoverInv, OnItsWay
  <2> QED BY <2>3, <2>4, <2>5
<1> QED BY <1>1, TypeInvariant, TopicInvariant, CoverInvariant, PTL
       DEF Spec, SkipsAreCovered
=============================================================================
