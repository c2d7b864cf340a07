----------------------------- MODULE PriorityPool -----------------------------
(***************************************************************************)
(* The goroutines of worker.Pool for one channel, seen from Run: one       *)
(* fetcher per priority topic, the bounded in-memory channels between      *)
(* them and the senders, the three selects of next(), and the shutdown.    *)
(* What process() does to a job is WorkerPool; here it only ends with a    *)
(* commit or without one.  Jobs are counted, not named.                    *)
(***************************************************************************)
EXTENDS Naturals, FiniteSets

CONSTANTS
    Senders,   \* sender goroutines
    Supply,    \* Supply[pr]: messages in topic pr
    Capacity   \* capacity of each in-memory channel (Deps.BufferSize)

Priorities == {"high", "normal", "low"}

ASSUME PoolAssumption ==
    /\ IsFiniteSet(Senders)
    /\ Supply \in [Priorities -> Nat]
    /\ Capacity \in Nat \ {0}

VARIABLES
    unread,     \* unread[pr]: messages the fetcher of pr has not fetched
    fetcher,    \* fetcher[pr]: "fetch", "send" (holds a job) or "stopped"
    waiting,    \* waiting[pr]: jobs in highCh, normalCh, lowCh
    at,         \* at[s]: where sender s is
    working,    \* working[s]: the priority of the job s has, or "none"
    cancelled,  \* the context of Run is cancelled
    open,       \* priorities whose reader is open
    returned,   \* Run has returned
    overtaken   \* history: jobs of lower priority taken while one of pr waited,
                \* since the last one of pr was taken

vars == <<unread, fetcher, waiting, at, working, cancelled, open, returned, overtaken>>

Higher == [pr \in Priorities |->
             IF pr = "high" THEN {} ELSE IF pr = "normal" THEN {"high"} ELSE {"high", "normal"}]

TypeOK ==
    /\ unread \in [Priorities -> Nat]
    /\ fetcher \in [Priorities -> {"fetch", "send", "stopped"}]
    /\ waiting \in [Priorities -> 0..Capacity]
    /\ at \in [Senders -> {"first", "second", "block", "work", "commit", "stopped"}]
    /\ working \in [Senders -> Priorities \cup {"none"}]
    /\ cancelled \in BOOLEAN /\ returned \in BOOLEAN
    /\ open \subseteq Priorities
    /\ overtaken \in [Priorities -> Nat]

Init ==
    /\ unread = Supply
    /\ fetcher = [pr \in Priorities |-> "fetch"]
    /\ waiting = [pr \in Priorities |-> 0]
    /\ at = [s \in Senders |-> "first"]
    /\ working = [s \in Senders |-> "none"]
    /\ cancelled = FALSE /\ returned = FALSE
    /\ open = Priorities
    /\ overtaken = [pr \in Priorities |-> 0]

senderVars == <<at, working, overtaken>>
runVars == <<cancelled, open, returned>>

-----------------------------------------------------------------------------
(* fetch().  A cancelled context may still lose the race in either select, *)
(* so a fetcher can read or hand over one more job.                        *)
FetchMessage(pr) ==
    /\ fetcher[pr] = "fetch"
    /\ pr \in open
    /\ unread[pr] > 0
    /\ unread' = [unread EXCEPT ![pr] = @ - 1]
    /\ fetcher' = [fetcher EXCEPT ![pr] = "send"]
    /\ UNCHANGED <<waiting, senderVars, runVars>>

HandOverUnbounded(pr) ==  \* wrong variant: the channel has no capacity
    /\ fetcher[pr] = "send"
    /\ waiting' = [waiting EXCEPT ![pr] = @ + 1]
    /\ fetcher' = [fetcher EXCEPT ![pr] = "fetch"]
    /\ UNCHANGED <<unread, senderVars, runVars>>

HandOver(pr) ==
    /\ fetcher[pr] = "send"
    /\ waiting[pr] < Capacity
    /\ waiting' = [waiting EXCEPT ![pr] = @ + 1]
    /\ fetcher' = [fetcher EXCEPT ![pr] = "fetch"]
    /\ UNCHANGED <<unread, senderVars, runVars>>

FetcherStops(pr) ==
    /\ fetcher[pr] # "stopped"
    /\ cancelled
    /\ fetcher' = [fetcher EXCEPT ![pr] = "stopped"]
    /\ UNCHANGED <<unread, waiting, senderVars, runVars>>

-----------------------------------------------------------------------------
(* next() *)
Empty(pr) == waiting[pr] = 0

(* Taking a job of pr overtakes every job of a higher priority that waits. *)
Take(s, pr) ==
    /\ ~Empty(pr)
    /\ waiting' = [waiting EXCEPT ![pr] = @ - 1]
    /\ at' = [at EXCEPT ![s] = "work"]
    /\ working' = [working EXCEPT ![s] = pr]
    /\ overtaken' = [q \in Priorities |->
                       IF q = pr \/ Empty(q) THEN 0
                       ELSE overtaken[q] + (IF q \in Higher[pr] THEN 1 ELSE 0)]
    /\ UNCHANGED <<unread, fetcher, runVars>>

FallThrough(s, step) ==
    /\ at' = [at EXCEPT ![s] = step]
    /\ UNCHANGED <<unread, fetcher, waiting, working, overtaken, runVars>>

SkipFirstSelect(s) ==  \* wrong variant: no fast path for high
    /\ at[s] = "first"
    /\ FallThrough(s, "second")

FirstSelect(s) ==
    /\ at[s] = "first"
    /\ \/ Take(s, "high")
       \/ Empty("high") /\ FallThrough(s, "second")

(* Of two ready cases Go picks either. *)
SecondSelect(s) ==
    /\ at[s] = "second"
    /\ \/ Take(s, "high")
       \/ Take(s, "normal")
       \/ Empty("high") /\ Empty("normal") /\ FallThrough(s, "block")

BlockingSelectNoLow(s) ==  \* wrong variant: forgets the low channel
    /\ at[s] = "block"
    /\ \/ \E pr \in {"high", "normal"} : Take(s, pr)
       \/ cancelled /\ FallThrough(s, "stopped")

BlockingSelectDeaf(s) ==  \* wrong variant: does not listen to ctx.Done()
    /\ at[s] = "block"
    /\ \E pr \in Priorities : Take(s, pr)

BlockingSelectBreaks(s) ==  \* wrong variant: ctx.Done() leaves only the select
    /\ at[s] = "block"
    /\ \/ \E pr \in Priorities : Take(s, pr)
       \/ cancelled /\ FallThrough(s, "first")

BlockingSelect(s) ==
    /\ at[s] = "block"
    /\ \/ \E pr \in Priorities : Take(s, pr)
       \/ cancelled /\ FallThrough(s, "stopped")

(* process() is done with the job, with something to commit or not; under  *)
(* a cancelled context every call it still makes fails.                    *)
Process(s) ==
    /\ at[s] = "work"
    /\ \/ at' = [at EXCEPT ![s] = "commit"] /\ UNCHANGED working
       \/ at' = [at EXCEPT ![s] = "first"] /\ working' = [working EXCEPT ![s] = "none"]
    /\ UNCHANGED <<unread, fetcher, waiting, overtaken, runVars>>

(* A closed reader refuses the commit; the error is logged and the sender  *)
(* goes on all the same.                                                   *)
Commit(s) ==
    /\ at[s] = "commit"
    /\ at' = [at EXCEPT ![s] = "first"]
    /\ working' = [working EXCEPT ![s] = "none"]
    /\ UNCHANGED <<unread, fetcher, waiting, overtaken, runVars>>

-----------------------------------------------------------------------------
(* Run: after the signal it closes the readers one by one, then waits for  *)
(* every goroutine.                                                        *)
Signal ==
    /\ ~cancelled
    /\ cancelled' = TRUE
    /\ UNCHANGED <<unread, fetcher, waiting, senderVars, open, returned>>

CloseReader(pr) ==
    /\ cancelled
    /\ pr \in open
    /\ open' = open \ {pr}
    /\ UNCHANGED <<unread, fetcher, waiting, senderVars, cancelled, returned>>

Quiet ==
    /\ \A pr \in Priorities : fetcher[pr] = "stopped"
    /\ \A s \in Senders : at[s] = "stopped"

Return ==
    /\ open = {}
    /\ Quiet
    /\ ~returned
    /\ returned' = TRUE
    /\ UNCHANGED <<unread, fetcher, waiting, senderVars, cancelled, open>>

FetcherStep(pr) == FetchMessage(pr) \/ HandOver(pr) \/ FetcherStops(pr)

SenderStep(s) ==
    FirstSelect(s) \/ SecondSelect(s) \/ BlockingSelect(s) \/ Process(s) \/ Commit(s)

RunStep == (\E pr \in Priorities : CloseReader(pr)) \/ Return

Next ==
    \/ \E pr \in Priorities : FetcherStep(pr)
    \/ \E s \in Senders : SenderStep(s)
    \/ Signal
    \/ RunStep

Spec == Init /\ [][Next]_vars

(* The Go scheduler runs every goroutine that can run, and every call of   *)
(* process() has a timeout; nobody has to send a signal.                   *)
FairSpec ==
    /\ Spec
    /\ \A pr \in Priorities : WF_vars(FetcherStep(pr))
    /\ \A s \in Senders : WF_vars(SenderStep(s))
    /\ WF_vars(RunStep)

-----------------------------------------------------------------------------
(* Priority is strict up to the senders already past their check: while a  *)
(* job waits, each sender takes at most one job of lower priority before   *)
(* one of the waiting job's priority is taken (next).                      *)
OvertakingBounded ==
    \A pr \in Priorities : overtaken[pr] <= Cardinality(Senders)

(* A signal always ends Run, whatever the fetchers hold and the senders    *)
(* still have to drain (Run, fetch, next).                                 *)
ShutdownCompletes == cancelled ~> returned

(* What the pool may still do once it is cancelled, in steps: each sender  *)
(* its way to the end of send(), each job its way into a sender's hands,   *)
(* each fetcher its end, each reader its Close, and Run its return.        *)
StepsLeft == [work |-> 5, commit |-> 4, first |-> 3, second |-> 2, block |-> 1, stopped |-> 0]

Short(k) == {s \in Senders : StepsLeft[at[s]] >= k}

SenderSteps == Cardinality(Short(1)) + Cardinality(Short(2)) + Cardinality(Short(3))
               + Cardinality(Short(4)) + Cardinality(Short(5))

TopicSteps(pr) ==
    7 * unread[pr] + 5 * waiting[pr]
    + (CASE fetcher[pr] = "send" -> 7 [] fetcher[pr] = "fetch" -> 1 [] OTHER -> 0)

Remaining == TopicSteps("high") + TopicSteps("normal") + TopicSteps("low") + SenderSteps
             + Cardinality(open) + (IF returned THEN 0 ELSE 1)

(* A cancelled pool cannot go on for ever: whichever goroutine moves, less *)
(* is left to do.  In particular no select leads a sender back to the top  *)
(* of its loop without a job, although fetchers go on handing over jobs    *)
(* while readers are open (Run, fetch, next, send).                        *)
ShutdownAdvances == [][cancelled => Remaining' < Remaining]_vars

(* Every job of every priority is taken in the end as long as no signal    *)
(* comes, the finite supply of the others notwithstanding.                 *)
EverythingTaken ==
    <>(cancelled \/ \A pr \in Priorities :
                       unread[pr] = 0 /\ fetcher[pr] = "fetch" /\ Empty(pr))
=============================================================================
