# go-notify in TLA+

go-notify accepts notifications over HTTP, stores them in PostgreSQL, hands them
to Kafka and delivers them to an external provider. What it has to get right is
spread over four kinds of process that share one table, a few topics and no
transaction: a notification must not be lost, must not be sent twice without
cause, must not run before its time, and must not come back once a client has
cancelled it. The modules here describe that machinery as the code performs it,
TLC checks it on small instances, and TLAPS proves the central safety
properties for all instances.

Contents: [inventory](#inventory) · [modules](#modules) ·
[runs](#runs) · [fairness](#fairness) · [proofs](#proofs) ·
[where code and documentation differ](#where-the-code-and-its-documentation-differ) ·
[not modelled](#what-is-not-modelled) · [plan](#plan).

## Inventory

### Components, their state and operations

| Component | Source | State | Operations |
|---|---|---|---|
| Notification store | `internal/storage/repository.go`, `migrations/` | table `notifications`: status, scheduled_at, updated_at, idempotency key (partial unique index); row locks of open transactions | `Create`, `CreateBatch`, `MarkQueued`, `MarkProcessing`, `MarkSent`, `MarkDead`, `Cancel`, `DispatchDue`, `ReapStuck`; queries `GetByID`, `List`, `BatchSummary` |
| Work topics | `internal/queue/` | nine logs (channel × priority), committed offset per consumer group, reader position | `PublishNotifications`, `Fetch`, `Commit` |
| Dead-letter topics | `internal/queue/dlq.go` | one log per channel | `Publish` |
| API | `internal/api/` | what a request has in hand between its calls | create, batch, cancel; reads; middleware |
| Scheduler | `internal/scheduler/scheduler.go` | one transaction at a time | tick: `DispatchDue` until nothing is due |
| Reaper | `internal/scheduler/reaper.go`, `cmd/scheduler` | one transaction at a time; its two age windows | tick: `ReapStuck` until nothing is stuck |
| Worker pool | `internal/worker/pool.go` | three bounded channels, the job of each sender, the rate limiter | `fetch`, `next`, `process`, `deliver`, `offload`, `commit`, `Run` |
| Provider client | `internal/provider/client.go` | none | `Send`: accepted, retryable, permanent |
| Rate limiter | `golang.org/x/time/rate`, one per pool | tokens, possibly negative | `Wait` |
| Domain | `internal/domain/` | none | statuses, priorities, `CanBeCancelled`, `NewNotification`, `SamePayload` |
| Configuration, entry points | `internal/config`, `cmd/*` | settings, signal context | wiring, shutdown, the floor under the reaper's window |

### How they interact

- **API → store → topic → store.** A request inserts rows (one transaction),
  publishes the ones that are due, then marks them `queued`. Three separate
  calls; a failure between any two leaves the rows for the reaper.
- **Scheduler, reaper → store and topic.** Inside one transaction they lock a
  batch with `FOR UPDATE SKIP LOCKED`, publish it from a callback, set it to
  `queued` and commit. The messages are visible before the commit is.
- **Topic → worker → store, provider, DLQ → topic.** A fetcher reads each
  topic into a channel; senders claim the row (`MarkProcessing`), call the
  provider, record the outcome in the table, then commit the offset.
- **Store ↔ clocks.** `scheduled_at` and `updated_at` against the scheduler's
  clock decide what is due and what is stuck. Nothing tells the reaper that a
  sender is alive; age stands in for it.

### What is hard here, and what has to be true

| Component | Hard behaviour | Properties that make it correct |
|---|---|---|
| Row lifecycle | cancels, claims, reaps and late outcomes race on one status column | the pipeline implements the documented state machine (`LifecycleSpec`); one sender per claimed row (`ClaimExclusive`); a final status stays (`FinalUntilPremature`) |
| Outcomes | provider, DLQ, row and offset are four systems written one after the other, and any write may fail with or without effect | every outcome beyond the recorded one costs a failure or a premature reap (`ExtraOutcomesNeedFaults`) |
| Recovery | crashes drop in-memory jobs, offsets are committed out of order, poison pills commit what is before them, failed claims commit too | what is skipped is looked after (`SkipsAreCovered`); everything stored is settled in the end (`EventuallySettled`) |
| Publishing | messages land one by one, before the row says so | a row is `queued` or further only if it has reached the topic (`QueuedReachedTopic`); nothing runs before its time (`NotBeforeDue`) |
| Reaper window | two clocks, an estimate of the worst case | the reaper takes abandoned rows only (`ReapsOnlyAbandoned`), and takes them (`AbandonedIsReaped`); a window that is too short costs a sender per premature threshold and no more (`SendersBounded`) |
| Priority channels | jobs arrive between the selects; full channels block fetchers; shutdown from any state | bounded overtaking, no starvation, no loop that survives the signal, `Run` returns (`OvertakingBounded`, `EverythingTaken`, `ShutdownAdvances`, `ShutdownCompletes`) |
| Idempotent create | uncommitted keys of other transactions, circles of waiting batches, a lookup after the commit | answers agree, are stored, agree with the batch summary, batches are atomic, nobody waits for ever (`NoGroupIsStuck`, `EveryRequestAnswered`); keys are a registry (`KeysAreRegistered`) |
| Validation | bytes here, characters there, limits by channel, one bad item in a batch | what is stored keeps the contract, what is refused has a reason (`ContractEnforced`) |
| Rate limiter and retries | senders in debt to one bucket, retries that it does not see, outcomes drawn from a nil error | pace of the starts, bounded waits, an outcome for every job and a cause for every outcome (`StartsBounded`, `WaitBounded`, `SleepBounded`, `EveryJobFinishes`, `OutcomeHasCause`) |
| List endpoint | pages are separate queries over a table that changes in between, anywhere in the order | `NothingMissed`, `RepeatsNeedArrivals` |

`PROJECT.json` lists each hazard with the line of code where it bites and the
properties that look at it.

## Modules

```
Environment               notifications, processes, budgets of failures
 ├─ NotificationStore     the table and its SQL statements
 └─ WorkTopic             one Kafka topic: log, offsets, writers
     ├─ ApiHandler        create, batch, cancel           (store + topic)
     ├─ Poller            scheduler and reaper            (store + topic)
     └─ WorkerPool        fetcher, senders, crash         (store + topic)
          └─ Delivery     all of them together  ──implements──▶  Lifecycle
                MCDelivery
                Delivery_proofs ◀── Publishing_proofs, Refinement_proofs

ReaperWindow              the lease of one row in explicit time
                MCReaperWindow, ReaperWindow_proofs
PriorityPool              fetchers, channels, next(), Run of one worker
                MCPriorityPool, PriorityPool_proofs
SendPacing                the senders' token bucket, retry loop, status codes
                MCSendPacing, SendPacing_proofs
Validation                NewNotification and the documented contract
 └─ IdempotentCreate      concurrent inserts under keys  ──implements──▶  KeyRegistry
                MCIdempotentCreate, IdempotentCreate_proofs
ListPaging                walks through GET /notifications
                MCListPaging, ListPaging_proofs
```

### The delivery pipeline

**Environment** declares the sets of notifications, requests, schedulers and
reapers, and two budgets. `Fault` is conjoined by every action in which
something fails; `Late` by the one in which an age threshold passes although
somebody is at work on the row. Both are bounds on a behaviour, nothing else.

**NotificationStore** is `repository.go`. `row[n]` is the status column and
`locks[p]` the rows a poller's open transaction holds. `updated_at` and
`scheduled_at` are reduced to what the queries ask of them: `overdue[n]` says
that the threshold for the row's present status has passed. Every `UPDATE` sets
`updated_at = now()`, so `SetStatus` makes the row young again. Statements are
atomic, and follow READ COMMITTED: an `UPDATE` that does not match the committed
version of a row does nothing at once; one that matches a held row waits.
`MarkSent` and `MarkDead` have no guard on the status because the SQL has none.

**WorkTopic** is `internal/queue` on one topic with one partition. A
`WriteMessages` call lands message by message (`outbox` is what is still to
come), and one that was given up may still be delivered by the writer's
background goroutine. `CommitMessage` sets the group's offset to exactly the one
it is given, which may skip unfinished jobs or move back, as `CommitMessages`
does. The nine topics share no state, so one is modelled.

**ApiHandler** is the write path after the insert; `batch[h]` is what a request
will mark `queued`. **Poller** is the dispatch transaction, the same for
scheduler and reaper except for the rows it selects. **WorkerPool** is `fetch`,
`process`, `deliver`, `offload` and `commit`, with one action per call that can
fail and one for each way it fails. `pc[s]` names the step of `process()`,
`job[s]` holds the offset, id and attempt. `Crash` loses everything in memory. A
stop by signal is not an action of its own: what it does to a sender is one of the
failures that are there anyway, and `Crash` is its end. Calls under the cancelled
context fail with or without effect (`AttemptAnswerLost`, `OffloadFails`,
`RecordSentFails`, `RecordDeadFails`), a backoff that is cut short sends the job to
the DLQ with attempts left (`AttemptPermanent`), where the envelope and `MarkDead` may
land or not, and commits fail because `Run` closes the readers first
(`CommitFails`). `Reassign` is a rebalance that rereads
from the committed offset while the old jobs go on.

**Delivery** is their composition, with the two clock actions. `LeaseHolds`
chooses between two of them: when TRUE the reaper's threshold does not pass while a
sender is between claim and outcome, which ReaperWindow derives from the
configuration; when FALSE it may. `PrematureReaps` counts the thresholds that have
passed early without an assumption to keep them harmless. All statements but
`LifecycleSpec` are about both cases: a property that needs the lease either speaks
of the time before the first premature threshold (`ClaimExclusive`,
`FinalUntilPremature`) or has the count in its bound (`SendersBounded`,
`ExtraOutcomesNeedFaults`).

**Lifecycle** is the specification of the promise: one status per notification
moving along the documented state machine, the provider and the DLQ only called
for a row that is `processing`, `sent` only after an acceptance and `dead` only
after a dead letter. `Delivery` implements it with the identity on `row`,
`accepted` and `dlq`: all the machinery in between has to stutter.
`OnlyLateOutcomesDepart` says what is left of it when the window is too short: each
step is still a step of `Lifecycle`, except for a `LateOutcome`, that of a sender whose
row has been taken from it.

### The reaper's window

**ReaperWindow** follows one row from the start of its claim: the claim itself,
which may wait for a lock on the row and whose `updated_at = now()` is the time its
transaction began (`MaxClaim`), the wait for the rate limiter, up to `MaxAttempts` attempts of `ProviderTimeout`, the linear backoffs
(`Backoff * attempt`), and the statements that record the outcome, against a
reaper that sees only the age of the row, on a clock that may be ahead of the
database's. `Window` is the computation of `cmd/scheduler/main.go`: the
configured value, floored at timeout × attempts + 30 s. `WindowFits` is the
condition under which it is enough; `LeaseIsKept` proves that it is. The default
settings satisfy it with room to spare (30 s of attempts and 1.5 s of backoff
against ten minutes, or against the floor of 60 s if the window is set lower).
Not every setting does; see below.

### Priorities and shutdown

**PriorityPool** is one `Pool` seen from `Run`. Jobs are counted, not named.
`waiting[pr]` is the length of a channel and `at[s]` the select of `next()` the
sender is in; a select with several ready cases takes any of them, and a select
that finds its channels empty moves on in a separate step, since a job may
arrive in between. `overtaken[pr]` is a history variable. `Remaining` is an upper
bound on the steps a cancelled pool may still take. After
`Signal`, `Run` closes the readers one after another while everything else goes
on. Capacity 0 (an unbuffered channel) is excluded by `PoolAssumption`; the
default is 256.

### The pace of the senders

**SendPacing** is the part of `process()` between claim and outcome, for the
senders of one pool in explicit time. A tick is the time of one token. `Wait` of
`golang.org/x/time/rate` takes its token at once and sleeps off the debt, so
`tokens` may be negative and `timer[s]` is how long sender s sleeps; a burst below
one makes `Wait` fail for everybody, and the job is abandoned with its row
`processing`. After `Signal` the context is cancelled: `Wait` refuses a sender that
asks and interrupts one that waits (`WaitInterrupted`; the limiter takes the
reservation back if it was the last), both abandon the job; a call fails before it
reaches the provider (`CallRefused`), one under way may end in any way; and a backoff
may be cut short (`BackoffInterrupted`), upon which `process` dead-letters the job with
attempts left. `Call`, `Answer` and `Exhausted` are the loop of `deliver`; the
latter keeps what the code does when the loop ends without an attempt, because
`process` decides by the error being nil. `Classify` is the table of status codes
in `client.go`. The settings go through `Getint`, where an unset or malformed value
falls back and any number is accepted. `first` and `calls` are histories of the
last second, `waited` of the time a sender has slept for its job.

What SendPacing bounds is what ReaperWindow assumes: `WaitBounded` gives its
`MaxWait` a value, one token per sender (with the defaults 16 senders at 100 per
second, 0.16 s), and `SleepBounded` shows that limiter and backoffs add up to that
wait and the triangular sum of the backoffs, which is what its margin counts.

### Validation and idempotent creation

**Validation** has the rules of `NewNotification` (`Valid`) beside the contract of
`openapi.yaml` (`WithinContract`), which is taken from the document alone: lengths in
characters, the enumerations, the required fields. The rules in which the program is
stricter without the document saying so - blank texts, a recipient of too many bytes
in few enough characters, a blank key, a time that is not in the future - are
`BeyondContract`. A text is reduced to value, bytes, characters and whether it is
blank. An absent priority and an empty one arrive alike, as do a missing text and an
empty one, and are taken as absent.

**IdempotentCreate** models both POST endpoints from the request to the answer:
`Validate` refuses before anything is stored, then come the transactions of
`Create` and `CreateBatch` statement by statement against the partial unique
index. `InsertDuplicate` waits for the holder of an uncommitted key; when
transactions wait in a circle PostgreSQL aborts one of them (`DeadlockAborts`),
which the handler answers with 500. Duplicates of a batch are looked up after its
commit. A row is identified with the item that made it. An empty
`Idempotency-Key` header is no key (`KeyOf`), an empty key of a batch item is
refused. The database is external; its behaviour here is that of the statements
the code issues.

**KeyRegistry** is what clients may rely on, without transactions: a key gets an
owner once and for good, a request claims several keys in one step, and an answer
names the owner. The refinement mapping takes as owner of a key the committed row
that has it and as told what an answered request was given. Waits, rollbacks,
deadlocks and lookups that fail stutter.

### Paging

**ListPaging** is a client that walks through `GET /notifications` while rows are
committed and change their status. Rows are the places of
`ORDER BY created_at DESC, id DESC`; since `created_at` is taken before the INSERT, a
row can become visible in any place. `Fetch` is one request: the page at
`(page - 1) * limit`, and one row more to know whether there is a next one.
Statements that change several rows are taken one row at a time, which gives the
client more to see and not less. `NextStatus` has the unguarded `MarkSent` and
`MarkDead` too: a sender that has lost its row to the reaper overwrites any status. `seen`, `steady`, `entered` and `left` are
histories of the walk.

Definitions marked *wrong variant* in the modules (`ClaimableTwice`,
`CommitPastMessage`, `ReapYoung`, ...) are not part of any specification. Each is
a plausible slip in the definition that follows it, and is there to show that
the property listed with it in `PROJECT.json` would notice.

## Runs

`tlc -config X.cfg M`, from this directory.

| Configuration | Instance | Shows |
|---|---|---|
| `MCDeliveryOneRow` | 1 notification, 1 request, 1 scheduler, 1 reaper, 3 senders, channel of 1, 2 attempts, 2 failures, `LeaseHolds` FALSE with 1 premature threshold | `TypeOK`, `SendersBounded`, `ExtraOutcomesNeedFaults`, `SkipsAreCovered`, `FinalUntilPremature`, `OnlyLateOutcomesDepart`, and `EventuallySettled` under fairness |
| `MCDeliveryTwoRows` | 2 notifications, 1 request, 1 scheduler, 2 reapers, 2 senders, poller batches of 2, 1 attempt, 1 failure, `LeaseHolds` TRUE | `ClaimExclusive`, `ExtraOutcomesNeedFaults`, `QueuedReachedTopic`, `NotBeforeDue`, and that `Delivery` implements `Lifecycle` |
| `MCReaperWindow` | timeout 10 s, 3 attempts, backoff 0.5 s, floor of 60 s in force, claim, wait, record and clock skew as large as `WindowFits` allows | `ReapsOnlyAbandoned`; and, since a delivery uses up the window exactly, that the reaper still takes every abandoned row |
| `MCPriorityPool` | jobs high 1, normal 2, low 1; 2 senders; channels of 1 | `OvertakingBounded`, `EverythingTaken`, `ShutdownAdvances`, `ShutdownCompletes` |
| `MCIdempotentCreate` | three batches and a single request over three keys: circles of two and three, a key twice in one batch, an item without key, a different payload, each channel at its limit, 2 failures; before them fifteen requests that are refused: each limit exceeded by one, an unknown channel and priority, blank texts and keys, a recipient of 321 bytes in 161 characters, a past time, an empty and an oversize batch, a bad item before a good one | `AnswersAgree`, `AnswersAreStored`, `BatchIsAtomic`, `SummaryMatchesAnswer`, `ContractEnforced`, `NoGroupIsStuck`, `EveryRequestAnswered`, and that creation implements `KeyRegistry` |
| `MCSendPacing` | 2 senders, rate 3, burst 2, 2 attempts, backoff of a tick, answers timeout, 202, 404, 503; one setting given, one unset, one malformed; a stop at any time | `StartsBounded`, `WaitBounded`, `SleepBounded`, `OutcomeHasCause`, and `EveryJobFinishes` under fairness |
| `MCListPaging` | 4 rows of two channels, two of one batch, any table to start from, pages of 1, 3 changes; no filter, by status, by channel and time | `NothingMissed`, `RepeatsNeedArrivals` |
| five `violation` configurations | the smallest instance that shows it | one documented statement each that the code does not keep, [below](#where-the-code-and-its-documentation-differ) |

**Why these bounds.** *One row, three senders:* a premature
threshold gives a row a second sender, which the bounds have to admit, and the third
is there so that `SendersBounded` could fail: with a window that resets no age
(`SetStatusKeepsAge`) it does. Senders are alike, so that the run lets the first idle
one take each job (`FirstIdleTakes`, an action constraint), which loses nothing but the names.
*Two failures* allow a failed record
followed by a crash during the recovery, and an answer lost twice; the invariant
relates outcomes to failures, so it is sensitive to each. *Two reapers* (with two rows) so that they can pass each other a row. *Two rows* share a request, a poller's batch and
the one committed offset, so that an offset committed by the one affects the
other, and a partly landed write exists. *A channel of one* is full after one
job, and with the job a blocked fetcher holds there are two in memory besides
those of the senders. *Two attempts* have a first and a last one. *Time in
half-seconds*, because the backoff is half a second. *Three keys* are what a
circle of three transactions needs; a longer circle is no different. *Texts*
sit on the limits and one beyond them; the requests that are refused go first, one
after the other (`RefusalsFirst`, an action
constraint), since nobody waits for them and a refusal changes
nothing else. *Two senders at one bucket* are a debt of two
and a queue with somebody in front; two attempts have a retry, and a rate of three
makes a second longer than both. *Four rows and pages of one* make a walk of up to
five requests, and three changes allow a row to enter and another to leave between
them. TLC stops
where it does by size: the safety theorems remove these bounds altogether.

**Deadlock.** Checking is off (`CHECK_DEADLOCK FALSE`) where the system really
comes to rest: a pipeline whose notifications are settled and whose log is read
has nothing to do, `Run` returns, requests are answered, and one delivery ends.
That it does not come to rest too early is what the liveness properties say.

**Symmetry** of notifications and senders is used in safety runs only.

## Fairness

*Delivery.* Weak fairness of each request's next call, of each poller, of the
fetcher, of each sender, and of the clock of each row: goroutines that can run
do run, tickers tick, calls return (each has a timeout). No fairness of anything
that fails, crashes, creates, cancels or is late. `EventuallySettled` needs none
of the failures to stop by assumption: the budget bounds them, which says that
the system is eventually left alone for long enough. Without failures a row can
still need the reaper: a worker may skip a message whose dispatch transaction is
not yet committed.

A sender is fair as a whole and not per outcome, so a provider may go on
failing; the attempts run out and the notification is dead-lettered.

*ReaperWindow.* Time passes and the reaper's ticker fires.

*PriorityPool.* Fairness of each fetcher and sender as a whole, and of `Run`. Go
promises no more about a select with several ready cases, and no more is
assumed: `EverythingTaken` holds with an adversarial select because the supply
is finite, so jobs of lower priority are not starved for good, only while higher
ones keep coming.

*IdempotentCreate.* Statements run, waits end with the transaction waited for,
and the deadlock check runs.

*SendPacing.* Time passes, and each sender with a job goes on (a call of the
provider returns by its timeout). Nobody promises that more jobs come, and which
answer the provider gives is free. `EveryJobFinishes` needs the tick, because a
limiter that is in debt is repaid by nothing else.

## Proofs

`tlapm M.tla` for each module `M` whose name ends in `_proofs`. The theorems hold
for every value of the constants that meets the named assumptions in the modules
(`BudgetAssumption`, `ActorAssumption`, `BatchSizeAssumption`,
`PoisonAssumption`, `WorkerAssumption`, `LeaseAssumption`; `TimeAssumption`;
`PoolAssumption`; `RequestAssumption`, `TextAssumption`, `NoRowAssumption`;
`PacingAssumption`; `ListAssumption`), whose instances TLC
evaluates in every run.

### The pipeline

**`TypeCorrect`**: `Spec => []TypeOK`. `TypeOK` is not inductive, because a
sender takes its id from the log at an offset held in memory; `TypeInv` adds
`MemoryOK`: whatever the fetcher and the senders hold points at a message of the
log, and buffered ones at parseable messages. The operations of each component
are handled in lemmas of their own (`StoreType`, `TopicType`, `SenderStepType`,
...) and combined in `NextTypeInv`.

**`ClaimsAreExclusive`**: `Spec => []ClaimExclusive`. The invariant is
`TypeInv /\ LockInv /\ ExclusiveInv`.
`ExclusiveInv` adds to `ClaimExclusive` that a row in delivery is young
(`~overdue`), which is what keeps the reaper away from it; `LockInv` says that
rows held by a poller are held by one poller only, are past their threshold and
still in a status it looks for. Without `LockInv` a poller's commit could hit
a row that somebody has claimed since. The step proof splits `Next` into
sender steps, the crash and all others: no other step touches the senders
or a young `processing` row (`OtherStepKeepsRow`), and a sender step either
leaves the table alone, records its own outcome, or claims a row that is
`pending` or `queued` and hence nobody's (`SenderStepShape`).

**`FinalStatusKept`**: `Spec => FinalUntilPremature`, from the same invariant. The guard
that `MarkSent` and `MarkDead` lack is supplied by exclusiveness: the row of a sender
in flight is `processing`, so what they overwrite is never final.

**`SendersAreBounded`, `ExtraOutcomesAreFaults`**: these hold for every window, so
`ExclusiveInv` is of no use. They share an account, `AccountInv`. A row that may yet come
into the hands of one more sender (`Unclaimed`) owes a toll of one; senders plus
toll never exceed one plus the premature thresholds (`SendersPaid`), and outcomes plus
senders that have not decided theirs plus toll never exceed one plus thresholds and
failures (`OutcomesPaid`). A claim pays the toll; a threshold that passes over a
delivery raises it and the right-hand side together; a failed record keeps the sender's
share as a failure. `SendersPaid` is stated only while somebody is at the row,
because an abandoned one may be claimed for nothing.

**`QueuedRowsReachedTopic`, `NothingBeforeDue`** (Publishing_proofs): the two
statements about rows and topic share one invariant, `TopicInv`. Neither is
inductive: a commit sets rows to `queued` on the strength of a publish that
has returned, so `BatchesReachTopic` says that what a request or a
transaction will mark is in the topic or still in its outbox; a claim turns on a
job, so `JobsFromTopic` says that senders work on what is in the topic; and
nobody may have a row that is not stored yet, so `EarlyUntouched` speaks of
those as well. Neither theorem needs `LeaseHolds`.

**`SkipsCovered`** (Publishing_proofs): `Spec => SkipsAreCovered`. A worker that skips a
message has seen a row that is not claimable. `CoverInv` says what that can mean
while nothing has failed: a `processing` row has a sender, and a `scheduled` one that is
in the topic or on its way there is locked by the scheduler that publishes it. The
first failure ends both, since it may leave a row behind that only the reaper will
find; that is why the property stops there.

**`OnlyLateDepartures`** (Refinement_proofs): `Spec => OnlyLateOutcomesDepart`, and with it
**`PipelineImplementsLifecycle`**: `ASSUME LeaseHolds PROVE Spec => LifecycleSpec`. The
mapping is the identity on `row`, `accepted` and `dlq`. A poller commits rows that still
await delivery (`LockInv`); what has to be added is `OutcomeSeen`, that a sender about to
record an outcome has seen it. Every action then is one action of `Lifecycle` or
changes none of the three, except for the four that produce or record an outcome: they
need a `processing` row, and by `ExclusiveInv` they have it unless a threshold
has passed early. With `LeaseHolds` none ever does.

### The reaper's window

**`LeaseIsKept`**: `ASSUME WindowFits PROVE Spec => []ReapsOnlyAbandoned`. The
invariant `WithinBudget` bounds, for every step of a delivery, the age of the row
plus the time this step may still take by the longest time up to the end of it.
The backoffs add up to `Backoff * a * (a - 1) / 2` before attempt `a`, so everything
is doubled and `BeforeNext` shows how the sum grows; `DeliveryBounded` that
stopping after any attempt stays within the total. This theorem is what stands
behind `LeaseHolds`.

**`FloorKeepsLease`**, **`DefaultsKeepLease`** say for which settings. The floor of
`cmd/scheduler` counts the timeouts of the attempts and adds 30 seconds; these have to
pay for everything else. `MarginCovers` is that condition, and `FloorFits` shows that it
implies `WindowFits` whatever the timeout and `REAPER_INFLIGHT_AFTER` are, and that a
window at the floor needs it. With the default attempts and backoff, at most 50
senders (the default is 16) and the wait that `WaitIsBounded` allows, one token of
1/100 s per sender, it is met as long as the claim, recording an outcome and the
difference of the clocks take no more than 28 seconds together. Those three are what the
code does not bound: its statements have no timeout, and a claim may wait for the lock
of a reaper that is publishing. The value of `MaxWait` is carried over from SendPacing by hand: the modules count
time in different units.

**`ReaperTypeCorrect`** needs no such assumption: that a backoff
is waited for only while an attempt is left is inductive by itself.

### The pace of the senders

**`TypeCorrect`**, **`StartsAreBounded`**, **`WaitIsBounded`**, **`EveryOutcomeHasCause`**
(SendPacing_proofs). `PacingInv` has two parts, before a stop (`OpenInv`) and after it.
Before, the waits of the senders in debt form a queue without a gap
(`QueueFilled`: for every unit of debt somebody waits exactly so long), so there
is never more debt than there are senders (`DebtIsWaiting`, by an injection), which
bounds the waits. After a stop an interrupted wait leaves a gap in the queue, but
nobody reserves any more and no first attempt is counted (`StoppedStep`,
`StoppedStarts`), so the bounds, once they hold, stay. **`SleepIsBounded`** takes `WaitBounded` as given and adds the
backoffs: `SleepPaid` says that what a sender has slept and still has to sleep is
paid for by one token per sender and the backoffs before the attempt it has
reached, and `AttemptsBounded` ends the sum. `StartsPaid` is the account of the
window: first attempts within the last j + 1 ticks, plus the tokens left, plus the
senders that have paid and not started, are covered by burst, refill and senders. The bounds assume
`RateBurst \in Nat`; a negative burst admits nobody and makes the bound itself
meaningless. `EveryOutcomeHasCause` assumes `MaxAttempts >= 1`, and
`MCSentWasAccepted` shows that it has to. It says of a stop that it may end a delivery
early, with a dead letter after fewer attempts, but never without one and never as
`sent`; what else the dead letter may do then is in `ExtraOutcomesNeedFaults`.

### Priorities

**`PoolTypeCorrect`**, **`OvertakingIsBounded`** (PriorityPool_proofs). `Past(q)` are
the senders that have found channel `q` empty in this round of `next()`. The
invariant is a debt: jobs that have overtaken `q` plus the senders that still may
never exceed the number of senders. A sender enters `Past(q)` only while
`q` is empty, when nothing is owed, and each job that overtakes `q` uses up one of
its members.

**`ShutdownAlwaysAdvances`**: `Spec => ShutdownAdvances`, the part of `ShutdownCompletes` that
needs no fairness: after the signal the natural number `Remaining` decreases in every
step. A job is worth more outside a channel than in it, and more in it than the
longest way of a sender that takes it. The senders' share is a sum over any finite
set, written as cardinalities of level sets, so that one sender's step changes each
by at most one (`OneSenderMoves`). What is left to TLC is that somebody can always
move until `Run` has returned.

### Idempotent creation

**`CreateTypeCorrect`**, **`AnswersAlwaysAgree`**, **`AnswersAlwaysStored`**,
**`BatchesAlwaysAtomic`**, **`SummariesMatchAnswers`** (IdempotentCreate_proofs) follow
from `CreateInv`: keys in the table are unique, each request knows exactly the rows
it has there (`FreshIsMine`), and every item it did not insert has a row with its
key that is committed or in its own transaction (`DuplicatesCovered`). The last is
why a lookup after the commit always finds something. `StepOfOne` shows once that
a request disturbs no other: it removes only its own rows, and only before it
commits.

**`ContractAlwaysEnforced`** adds `AdmissionInv`, that a request past its
validation has valid items only and one that is refused has not. What this says of
the document is `RulesAreContract`: the rules are exactly the contract of
`openapi.yaml` and the rules beyond it, none is missing and there is no other. It
rests on `TextAssumption`: no text has more characters than bytes, so that a limit of
320 bytes implies the documented one.

**`NoGroupIsEverStuck`**: `Spec => []NoGroupIsStuck`, the part of `EveryRequestAnswered`
that needs no fairness. `CanMove` is the guard of `RequestStep`: a request that waits
for nobody, or stands in a circle. `OpenInv` says that a request that ended without
a commit has left no row, so whoever is waited for is still running
(`HoldersAreOpen`). A group whose members all wait, and only for each other, holds a
circle (`GroupHoldsCircle`): the requests that a smallest such group waits for are
such a group themselves, hence all of it. That there is a smallest one takes the
finiteness of `Requests`, which `RequestAssumption` states.

**`CreationImplementsRegistry`**: `Spec => KeysAreRegistered`, for any requests. With
unique keys the owner of a key is determined; `OwnersStored` and `OwnersNamed`
say what mapping and table have to do with each other, and `RegistryStep` that a
step of one request moves only what that request may claim or be told. A commit
registers, a commit or lookup that answers tells, everything else stutters.

### Paging

**`ListTypeCorrect`**, **`NothingEverMissed`**, **`RepeatsAlwaysNeedArrivals`**
(ListPaging_proofs), for any rows, filters and page size. The number of rows listed
before a row decides on which page it still appears: one that was there all the
time and has not been seen is not before the offset, unless something before it has
left (`StillToCome`), and one that was seen is behind the offset but for what has
entered before it (`SeenIsBehind`). **`UndisturbedShownOnce`** combines the two: where
nothing moves in front of a row, a complete walk shows it exactly once.

**`PagesFilled`** justifies how the model cuts pages. The model counts the rows before a
row; the code asks for `limit + 1` rows at an offset and looks whether it got the last.
Because those counts number the rows without a gap (`RankedCount`), the two agree: a
page never has more than `limit` rows, is full when `has_more` is set, and `has_more` is
set exactly when the longer query is full.

### What is only model-checked

Liveness: `EventuallySettled`, `AbandonedIsReaped`, `EverythingTaken`,
`ShutdownCompletes`, `EveryRequestAnswered`, `EveryJobFinishes`. They rest on
fairness and `ENABLED`, which the prover does not support; of `ShutdownCompletes` and
`EveryRequestAnswered` the half that needs neither is proved (every step counts,
nobody is stuck). No module has a
recursive operator and nothing here needs induction over data.

## Where the code and its documentation differ

The first five are runs that end with a counterexample; `PROJECT.json` quotes the
lines.

1. **`SkipOnlySettled`** A failed claim is documented to mean "already sent/dead,
   or cancelled". `DispatchDue` publishes before it commits, so a worker can see
   the message while the row is still `scheduled`, fail the claim and commit the
   offset. The row becomes `queued` a moment later with no message left, and
   waits for the reaper's in-flight window (ten minutes by default). What does hold is
   `SkipsAreCovered`: until something fails, somebody still looks after the row.
2. **`FinalStatusStays`** "Every transition is a conditional UPDATE guarded by the
   current status". `MarkSent` and `MarkDead` are not: if a delivery outlasts the
   window, is reaped and then cancelled, the late outcome overwrites
   `cancelled`. `FinalUntilPremature` and `OnlyLateOutcomesDepart` are what does hold.
3. **`ReuseIsRejected`** "Reusing [a key] with a different payload is rejected with
   409", for items of a batch too. The batch endpoint does not compare payloads.
4. **`SentWasAccepted`** With `RETRY_MAX_ATTEMPTS=0` no attempt is made, `deliver`
   returns a nil error, and every notification is recorded as sent.
5. **`CallsWithinRate`** "A token bucket caps each channel at 100 deliveries/sec". It
   is asked once per job: retries are not counted, and a full bucket adds its burst
   (100 by default, whatever the rate) to the refill. `StartsBounded` is what does
   hold.

These are visible in the models or on reading the code, and have no run:

- "Offsets are committed only after the notification reached a terminal state (or
  the DLQ)" (README:183). After a crash mid-delivery the redelivered message finds
  the row `processing`, is skipped and committed (`Claim` of WorkerPool); the
  reaper, not the replay, is what saves the notification.
- `next` "always prefers high over normal over low" (pool.go:194). A sender past its
  first select may take a low job although a high one waits (`SecondSelect`,
  `BlockingSelect`); `OvertakingBounded` is what does hold.
- On shutdown "an offset we already finished processing is still recorded"
  (pool.go:356). `Run` closes the readers before the senders are done
  (`CloseReader` before `Commit`), and a closed reader refuses the commit.
- The floor under the reaper's window is called the worst-case delivery time
  (README:191) but leaves out the backoffs: with `RETRY_BACKOFF` = 20 s and three
  attempts `WindowFits` is false for a window at the floor. The defaults fit.
- `ReapStuck` describes `pending` rows as ones that never reached Kafka, but a
  request that dies between publish and `MarkQueued` leaves exactly such a row with
  its message in the topic. Claim-before-send makes the second message harmless.
- The recipient limit counts bytes where the message and `openapi.yaml` say
  characters, so a recipient of 161 characters may be refused.
- A past `scheduled_at` is refused with 422, where `openapi.yaml` (301-305) says "if set
  and in the future, the notification is scheduled rather than sent immediately", as if
  it were sent at once. Blank texts and blank keys are refused too, of which the
  document says nothing. These and the bytes are `BeyondContract`, and
  `ContractEnforced` says that there are no others. The other way round, an explicit
  empty priority is accepted as `normal` although the enumeration does not have it.
- A batch of nothing but duplicates is
  answered with a `batch_id` for which `GET /batches/:id` is a 404 (no row carries
  it); `SamePayload` ignores priority and time.
- An envelope in the DLQ has the configured number of attempts, also after a
  single 4xx or a stop (pool.go:301), where README:161 says "attempt count".
- "dead (retries exhausted → DLQ)" (README:130), and notification.go:50-51 adds "or
  permanent failure". A stop during a backoff is a third cause: `deliver` returns the
  error of the context (pool.go:345-349), `process` takes the branch to the DLQ, and the
  envelope or `MarkDead` may still land under the cancelled context. `OutcomeHasCause`
  names that case; `Attempts` of such an envelope claims attempts that were not made.
- `RATE_LIMIT_BURST` below 1 abandons every job after its claim.
- `(page - 1) * limit` may overflow; the query then fails with a negative offset
  and the answer is a 500.

## What is not modelled

- Columns other than the status, and payloads except whether two are the same.
- The refusal of malformed query parameters, `GET /notifications/:id` and
  `/healthz`: one read each. The batch summary is its total, not its counts by
  status.
- What PostgreSQL's planner does with offset queries: each is taken as one
  snapshot in the order the query states.
- The bucket of a rate of 0, and clocks within a tick.
- Several worker processes on one topic: a group member that joins or leaves is a
  `Reassign`, and the senders of all members are `Senders`; one offset per
  partition, and one partition. `Crash` ends all of them together.
- Loss or truncation of PostgreSQL or Kafka data: both are taken as durable.
- Router, middleware, OpenAPI document, metrics, tracing, migrations, start-up,
  mock provider and deployment files: wiring and static content.

## Plan

Done: the pipeline and its abstract specification, the window, priorities and
shutdown, creation with its validation and its abstract specification, the pace of
the senders, paging, and the safety theorems of all of them, with and without a window
that fits. Next, in this order:

1. *Prove:* that a row stays `processing` in ReaperWindow no longer than the sleep
   that SendPacing allows and the calls together, in one unit of time, so that
   `MaxWait` need not be carried over by hand.
2. *Prove:* that every step of a request of IdempotentCreate brings it closer to its
   answer, as `ShutdownAdvances` does for the pool; with `NoGroupIsStuck` that leaves
   only the fairness of `EveryRequestAnswered` to TLC.
3. *Model:* a rebalance between two workers with separate buckets, and the rate
   that the provider then sees.
4. *Model:* the counts by status of the batch summary while its rows move.
