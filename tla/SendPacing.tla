------------------------------ MODULE SendPacing ------------------------------
(***************************************************************************)
(* The senders of one worker pool in explicit time, from the claim of a    *)
(* job to its outcome: the token bucket they share (asked once per job),   *)
(* the retry loop of deliver(), the provider's status codes, and a stop    *)
(* by signal, which cancels the context of them all.                       *)
(*                                                                         *)
(* One tick is the time in which the bucket gains one token, 1/RatePerSec  *)
(* of a second.  The bucket is golang.org/x/time/rate, external: Wait      *)
(* takes a token at once, into debt if need be, and sleeps until the debt  *)
(* that it found and made is paid.                                         *)
(***************************************************************************)
EXTENDS Integers, FiniteSets

CONSTANTS
    Senders,             \* sender goroutines of the pool
    RATE_LIMIT_PER_SEC,  \* the environment: a number, or anything else when the
    RATE_LIMIT_BURST,    \*   variable is unset or malformed
    RETRY_MAX_ATTEMPTS,
    DefaultRate,         \* what Load falls back to: 100, 100 and 3
    DefaultBurst,
    DefaultAttempts,
    Backoff,             \* RETRY_BACKOFF in ticks
    Codes                \* what the provider may answer

Getint(value, fallback) == IF value \in Int THEN value ELSE fallback

RatePerSec == Getint(RATE_LIMIT_PER_SEC, DefaultRate)
RateBurst == Getint(RATE_LIMIT_BURST, DefaultBurst)
MaxAttempts == Getint(RETRY_MAX_ATTEMPTS, DefaultAttempts)

ASSUME PacingAssumption ==
    /\ IsFiniteSet(Senders)
    /\ RatePerSec \in Nat \ {0}
    /\ DefaultBurst \in Int
    /\ DefaultAttempts \in Int
    /\ Backoff \in Nat
    /\ Codes \subseteq Nat

VARIABLES
    cancelled,  \* the context of the pool is cancelled
    tokens,   \* tokens in the bucket, negative when reservations are waiting
    step,     \* step[s]: where the sender is; "loop" is the head of deliver's loop
    timer,    \* timer[s]: ticks until it may go on, limiter wait or backoff
    attempt,  \* attempt[s]: attempts made for its job
    verdict,  \* verdict[s]: what the last attempt came to
    waited,   \* history: ticks s has slept for its job, in the limiter and between attempts
    first,    \* first[j]: first attempts within the last j + 1 ticks
    calls     \* calls[j]: provider calls within the last j + 1 ticks

vars == <<cancelled, tokens, step, timer, attempt, verdict, waited, first, calls>>

Ages == 0..(RatePerSec - 1)  \* the ticks of one second
Free == {"ready", "sent", "dead", "abandoned"}
Verdicts == {"none", "accepted", "retryable", "permanent"}

TypeOK ==
    /\ cancelled \in BOOLEAN
    /\ tokens \in Int
    /\ tokens <= RateBurst
    /\ step \in [Senders -> Free \cup {"loop", "calling"}]
    /\ timer \in [Senders -> Nat]
    /\ attempt \in [Senders -> Nat]
    /\ verdict \in [Senders -> Verdicts]
    /\ waited \in [Senders -> Nat]
    /\ first \in [Ages -> Nat]
    /\ calls \in [Ages -> Nat]

(* rate.NewLimiter: a full bucket. *)
Init ==
    /\ cancelled = FALSE
    /\ tokens = RateBurst
    /\ step = [s \in Senders |-> "ready"]
    /\ timer = [s \in Senders |-> 0]
    /\ attempt = [s \in Senders |-> 0]
    /\ verdict = [s \in Senders |-> "none"]
    /\ waited = [s \in Senders |-> 0]
    /\ first = [j \in Ages |-> 0]
    /\ calls = [j \in Ages |-> 0]

-----------------------------------------------------------------------------
(* SIGTERM; senders finish the job they have (Run). *)
Signal ==
    /\ ~cancelled
    /\ cancelled' = TRUE
    /\ UNCHANGED <<tokens, step, timer, attempt, verdict, waited, first, calls>>

(* The sender has claimed a job and asks the limiter, which refuses every  *)
(* request when the burst is smaller than one or the context cancelled:    *)
(* the job is given up and its row stays 'processing'.                     *)
Reserve(s) ==
    LET refused == RateBurst < 1 \/ cancelled
    IN  /\ step[s] \in Free
        /\ tokens' = IF refused THEN tokens ELSE tokens - 1
        /\ timer' = [timer EXCEPT ![s] = IF refused \/ tokens >= 1 THEN 0 ELSE 1 - tokens]
        /\ step' = [step EXCEPT ![s] = IF refused THEN "abandoned" ELSE "loop"]
        /\ attempt' = [attempt EXCEPT ![s] = 0]
        /\ verdict' = [verdict EXCEPT ![s] = "none"]
        /\ waited' = [waited EXCEPT ![s] = 0]
        /\ UNCHANGED <<cancelled, first, calls>>

(* One more token, up to the burst. *)
Refilled == IF tokens < RateBurst THEN tokens + 1 ELSE tokens

(* The wait is cut short, also when its time has come (or the token was    *)
(* there at once) and the sender has not run yet.  The limiter takes a     *)
(* reservation back only if no later one counts on it, that is if it is    *)
(* the whole debt.                                                         *)
WaitInterrupted(s) ==
    /\ cancelled
    /\ step[s] = "loop"
    /\ attempt[s] = 0
    /\ tokens' = IF timer[s] > 0 /\ timer[s] = -tokens THEN Refilled ELSE tokens
    /\ step' = [step EXCEPT ![s] = "abandoned"]
    /\ timer' = [timer EXCEPT ![s] = 0]
    /\ UNCHANGED <<cancelled, attempt, verdict, waited, first, calls>>

AtHead(s) == step[s] = "loop" /\ timer[s] = 0

Counted(window, more) == [j \in Ages |-> window[j] + more]

CallTakesToken(s) ==  \* wrong variant: a retry takes a token too, without waiting for it
    /\ AtHead(s)
    /\ attempt[s] < MaxAttempts
    /\ ~cancelled
    /\ step' = [step EXCEPT ![s] = "calling"]
    /\ attempt' = [attempt EXCEPT ![s] = @ + 1]
    /\ calls' = Counted(calls, 1)
    /\ first' = Counted(first, IF attempt[s] = 0 THEN 1 ELSE 0)
    /\ tokens' = IF attempt[s] = 0 THEN tokens ELSE tokens - 1
    /\ UNCHANGED <<cancelled, timer, verdict, waited>>

Call(s) ==
    /\ AtHead(s)
    /\ attempt[s] < MaxAttempts
    /\ ~cancelled
    /\ step' = [step EXCEPT ![s] = "calling"]
    /\ attempt' = [attempt EXCEPT ![s] = @ + 1]
    /\ calls' = Counted(calls, 1)
    /\ first' = Counted(first, IF attempt[s] = 0 THEN 1 ELSE 0)
    /\ UNCHANGED <<cancelled, tokens, timer, verdict, waited>>

ExhaustedEarly(s) ==  \* wrong variant: leaves the loop one attempt too soon
    /\ AtHead(s)
    /\ attempt[s] >= MaxAttempts - 1
    /\ step' = [step EXCEPT ![s] = IF verdict[s] = "none" THEN "sent" ELSE "dead"]
    /\ UNCHANGED <<cancelled, tokens, timer, attempt, verdict, waited, first, calls>>

(* The loop ends by its condition: deliver returns lastErr, which is nil   *)
(* when there was no attempt, and process takes nil for a success.         *)
Exhausted(s) ==
    /\ AtHead(s)
    /\ attempt[s] >= MaxAttempts
    /\ step' = [step EXCEPT ![s] = IF verdict[s] = "none" THEN "sent" ELSE "dead"]
    /\ UNCHANGED <<cancelled, tokens, timer, attempt, verdict, waited, first, calls>>

NoResponse == 0  \* timeout or connection failure

Classify(code) ==
    IF code \in {200, 202} THEN "accepted"
    ELSE IF code = NoResponse \/ code = 429 \/ code >= 500 THEN "retryable"
    ELSE "permanent"

After == [accepted |-> "sent", permanent |-> "dead", retryable |-> "loop"]

(* A retryable error before the last attempt backs off, linearly. *)
AttemptEnds(s, result, attempts) ==
    /\ verdict' = [verdict EXCEPT ![s] = result]
    /\ step' = [step EXCEPT ![s] = After[result]]
    /\ timer' = [timer EXCEPT ![s] = IF result = "retryable" /\ attempts < MaxAttempts
                                     THEN Backoff * attempts ELSE 0]

AnswerForgetsCount(s, code) ==  \* wrong variant: starts counting again after a 5xx
    /\ step[s] = "calling"
    /\ verdict' = [verdict EXCEPT ![s] = Classify(code)]
    /\ step' = [step EXCEPT ![s] = After[Classify(code)]]
    /\ attempt' = [attempt EXCEPT ![s] = IF code >= 500 THEN 1 ELSE @]
    /\ timer' = [timer EXCEPT ![s] = IF Classify(code) = "retryable" /\ attempt[s] < MaxAttempts
                                     THEN Backoff * attempt[s] ELSE 0]
    /\ UNCHANGED <<cancelled, tokens, waited, first, calls>>

AnswerBacksOffLast(s, code) ==  \* wrong variant: sleeps after the last attempt as well
    /\ step[s] = "calling"
    /\ verdict' = [verdict EXCEPT ![s] = Classify(code)]
    /\ step' = [step EXCEPT ![s] = After[Classify(code)]]
    /\ timer' = [timer EXCEPT ![s] =
                    IF Classify(code) = "retryable" THEN Backoff * attempt[s] ELSE 0]
    /\ UNCHANGED <<cancelled, tokens, attempt, waited, first, calls>>

(* Send returns, with an error of the context if that is what ended it. *)
Answer(s, code) ==
    /\ step[s] = "calling"
    /\ AttemptEnds(s, Classify(code), attempt[s])
    /\ UNCHANGED <<cancelled, tokens, attempt, waited, first, calls>>

(* Under a cancelled context Send fails before it reaches the provider,    *)
(* with a transport error, which is retryable.                             *)
CallRefused(s) ==
    /\ AtHead(s)
    /\ attempt[s] < MaxAttempts
    /\ cancelled
    /\ attempt' = [attempt EXCEPT ![s] = @ + 1]
    /\ AttemptEnds(s, "retryable", attempt[s] + 1)
    /\ UNCHANGED <<cancelled, tokens, waited, first, calls>>

(* The backoff is cut short: deliver returns the error of the context and  *)
(* process dead-letters the job as if its attempts were used up.           *)
BackoffInterrupted(s) ==
    /\ cancelled
    /\ step[s] = "loop"
    /\ attempt[s] \in 1..(MaxAttempts - 1)
    /\ step' = [step EXCEPT ![s] = "dead"]
    /\ timer' = [timer EXCEPT ![s] = 0]
    /\ UNCHANGED <<cancelled, tokens, attempt, verdict, waited, first, calls>>

-----------------------------------------------------------------------------
Older(window) == [j \in Ages |-> IF j = 0 THEN 0 ELSE window[j - 1]]

TickUncapped ==  \* wrong variant: the bucket has no brim
    /\ tokens' = tokens + 1
    /\ timer' = [s \in Senders |-> IF timer[s] > 0 THEN timer[s] - 1 ELSE 0]
    /\ waited' = [s \in Senders |-> IF timer[s] > 0 THEN waited[s] + 1 ELSE waited[s]]
    /\ first' = Older(first)
    /\ calls' = Older(calls)
    /\ UNCHANGED <<cancelled, step, attempt, verdict>>

(* A goroutine whose time has come may still be late. *)
Tick ==
    /\ tokens' = Refilled
    /\ timer' = [s \in Senders |-> IF timer[s] > 0 THEN timer[s] - 1 ELSE 0]
    /\ waited' = [s \in Senders |-> IF timer[s] > 0 THEN waited[s] + 1 ELSE waited[s]]
    /\ first' = Older(first)
    /\ calls' = Older(calls)
    /\ UNCHANGED <<cancelled, step, attempt, verdict>>

Deliver(s) ==
    \/ WaitInterrupted(s)
    \/ Call(s)
    \/ CallRefused(s)
    \/ BackoffInterrupted(s)
    \/ Exhausted(s)
    \/ \E code \in Codes : Answer(s, code)

Next ==
    \/ \E s \in Senders : Reserve(s) \/ Deliver(s)
    \/ Tick
    \/ Signal

Spec == Init /\ [][Next]_vars

(* Time passes, and calls and senders go on.  Nobody promises more jobs. *)
FairSpec == Spec /\ WF_vars(Tick) /\ \A s \in Senders : WF_vars(Deliver(s))

-----------------------------------------------------------------------------
(* Jobs start at the rate of the bucket: within any second the number of   *)
(* first attempts is at most the burst plus what the bucket gains in it,   *)
(* plus one per sender whose turn came before and who is late              *)
(* (process, NewPool).                                                     *)
StartsBounded ==
    first[RatePerSec - 1] <= RateBurst + (RatePerSec - 1) + Cardinality(Senders)

(* A sender that holds a claimed row waits for the limiter no longer than  *)
(* the bucket needs for one token per sender, whatever the retries of the  *)
(* others cost.  This bounds MaxWait of ReaperWindow (process).            *)
Pending == {s \in Senders : step[s] = "loop" /\ attempt[s] = 0}

WaitBounded == \A s \in Pending : timer[s] <= Cardinality(Senders)

(* All the sleeping one delivery does, for the limiter and between its     *)
(* attempts, is one token per sender and the linear backoffs               *)
(* Backoff * (1 + ... + MaxAttempts-1), however many others compete for    *)
(* tokens and whatever the provider answers (process, deliver).            *)
SleepBounded ==
    \A s \in Senders :
      2 * waited[s] <= 2 * Cardinality(Senders) + Backoff * (MaxAttempts * (MaxAttempts - 1))

(* A notification becomes 'sent' because the provider accepted it (comment *)
(* on StatusSent).                                                         *)
SentWasAccepted == \A s \in Senders : step[s] = "sent" => verdict[s] = "accepted"

(* Every outcome has its cause: 'sent' an acceptance, the dead-letter      *)
(* queue a permanent error or as many retryable ones as configured; only a *)
(* stop makes it fewer, never none.  Nothing tells the causes apart but    *)
(* whether deliver's error is nil (deliver, process).                      *)
OutcomeHasCause ==
    /\ SentWasAccepted
    /\ \A s \in Senders :
         step[s] = "dead" =>
           \/ verdict[s] = "permanent"
           \/ verdict[s] = "retryable" /\ attempt[s] = MaxAttempts
           \/ verdict[s] = "retryable" /\ cancelled /\ attempt[s] \in 1..MaxAttempts

(* Every claimed job comes to an outcome, however the senders compete for  *)
(* tokens, whatever the provider answers and whenever the pool is stopped  *)
(* (process).                                                              *)
EveryJobFinishes == \A s \in Senders : step[s] = "loop" ~> step[s] \in Free

(* The documented cap: no more than RatePerSec calls of the provider in    *)
(* any second.                                                             *)
CallsWithinRate == calls[RatePerSec - 1] <= RatePerSec
=============================================================================
