----------------------------- MODULE ReaperWindow -----------------------------
(***************************************************************************)
(* The lease of one 'processing' row: the worker's delivery against the    *)
(* reaper's in-flight window, in explicit time.  Delivery only assumes     *)
(* that the window outlasts a delivery (LeaseHolds); this module says when *)
(* the configuration makes that true.                                      *)
(***************************************************************************)
EXTENDS Naturals

CONSTANTS
    ProviderTimeout,  \* PROVIDER_TIMEOUT, bounds one attempt
    MaxAttempts,      \* RETRY_MAX_ATTEMPTS
    Backoff,          \* RETRY_BACKOFF, base of the linear backoff
    InflightAfter,    \* REAPER_INFLIGHT_AFTER
    Margin,           \* the 30 seconds cmd/scheduler adds
    MaxClaim,         \* longest time of the claim, for a lock on the row and its reply
    MaxWait,          \* longest wait for the rate limiter
    MaxRecord,        \* longest time for MarkSent, or the DLQ write and MarkDead
    Skew,             \* how far the reaper's clock is ahead of the database's
    Horizon           \* bound on the age of a row

ASSUME TimeAssumption ==
    /\ ProviderTimeout \in Nat
    /\ MaxAttempts \in Nat \ {0}
    /\ Backoff \in Nat
    /\ InflightAfter \in Nat
    /\ Margin \in Nat
    /\ MaxClaim \in Nat
    /\ MaxWait \in Nat
    /\ MaxRecord \in Nat
    /\ Skew \in Nat
    /\ Horizon \in Nat

VARIABLES
    step,      \* where the sender is with the job it has claimed
    attempt,   \* current delivery attempt
    left,      \* time this step may still take; backoff takes all of it
    age,       \* time since the row's updated_at
    reclaimed  \* the reaper has taken the row

vars == <<step, attempt, left, age, reclaimed>>

WorstCase == ProviderTimeout * MaxAttempts + Margin

WindowUnfloored == InflightAfter  \* wrong variant: the configured value as it is

Window == IF InflightAfter < WorstCase THEN WorstCase ELSE InflightAfter

Busy == {"claim", "wait", "attempt", "backoff", "record"}

TypeOK ==
    /\ step \in Busy \cup {"over", "abandoned"}
    /\ attempt \in 1..MaxAttempts
    /\ left \in Nat
    /\ age \in Nat
    /\ reclaimed \in BOOLEAN

(* The claim has just begun: the updated_at it sets is the time at which   *)
(* its transaction starts, before it has the row.                          *)
Init ==
    /\ step = "claim"
    /\ attempt = 1
    /\ left = MaxClaim
    /\ age = 0
    /\ reclaimed = FALSE

Enter(next, limit) ==
    /\ step' = next
    /\ left' = limit
    /\ UNCHANGED <<age, reclaimed>>

-----------------------------------------------------------------------------
(* process() and deliver() *)
ClaimReturns ==
    /\ step = "claim"
    /\ Enter("wait", MaxWait)
    /\ UNCHANGED attempt

LimiterGrants ==
    /\ step = "wait"
    /\ Enter("attempt", ProviderTimeout)
    /\ UNCHANGED attempt

RetryForever ==  \* wrong variant: does not count the attempts
    /\ step = "attempt"
    /\ Enter("backoff", Backoff * attempt)
    /\ UNCHANGED attempt

(* A retryable error before the last attempt. *)
AttemptRetryable ==
    /\ step = "attempt"
    /\ attempt < MaxAttempts
    /\ Enter("backoff", Backoff * attempt)
    /\ UNCHANGED attempt

BackoffEnds ==
    /\ step = "backoff"
    /\ left = 0
    /\ Enter("attempt", ProviderTimeout)
    /\ attempt' = attempt + 1

(* Accepted, refused for good, or the last attempt has failed. *)
DeliverReturns ==
    /\ step = "attempt"
    /\ Enter("record", MaxRecord)
    /\ UNCHANGED attempt

(* MarkSent or MarkDead: the row is final. *)
Recorded ==
    /\ step = "record"
    /\ Enter("over", 0)
    /\ UNCHANGED attempt

(* The worker dies, its context ends, the claim's reply is lost or the     *)
(* record fails: the row stays 'processing' with nobody at work on it.     *)
Abandon ==
    /\ step \in Busy
    /\ Enter("abandoned", 0)
    /\ UNCHANGED attempt

-----------------------------------------------------------------------------
ReapYoung ==  \* wrong variant: the comparison of the SELECT is the wrong way
    /\ step # "over"
    /\ ~reclaimed
    /\ age + Skew < Window
    /\ reclaimed' = TRUE
    /\ UNCHANGED <<step, attempt, left, age>>

(* WHERE status = 'processing' AND updated_at < now - inflightAfter, with  *)
(* now taken from the reaper's clock and updated_at from the database's.   *)
Reap ==
    /\ step # "over"
    /\ ~reclaimed
    /\ age + Skew > Window
    /\ reclaimed' = TRUE
    /\ UNCHANGED <<step, attempt, left, age>>

Tick ==
    /\ age < Horizon
    /\ ~reclaimed
    /\ \/ step \in Busy /\ left > 0 /\ left' = left - 1
       \/ step = "abandoned" /\ UNCHANGED left
    /\ age' = age + 1
    /\ UNCHANGED <<step, attempt, reclaimed>>

Next ==
    \/ ClaimReturns \/ LimiterGrants \/ AttemptRetryable \/ BackoffEnds
    \/ DeliverReturns \/ Recorded \/ Abandon
    \/ Reap \/ Tick

Spec == Init /\ [][Next]_vars

(* Time passes and the reaper's ticker fires. *)
FairSpec == Spec /\ WF_vars(Tick) /\ WF_vars(Reap)

-----------------------------------------------------------------------------
(* The reaper takes a row only when no sender is at work on it (the        *)
(* "safety invariant" of cmd/scheduler).                                   *)
ReapsOnlyAbandoned == reclaimed => step = "abandoned"

(* A row whose sender is gone is taken by the reaper in the end, so that   *)
(* the floor under the window does not cost the recovery (ReapStuck).      *)
AbandonedIsReaped == step = "abandoned" ~> reclaimed

(* The longest delivery the configuration allows, doubled to stay within   *)
(* the naturals: the backoffs add up to Backoff * (1 + ... + MaxAttempts-1)*)
TwiceLongest ==
    2 * (MaxClaim + MaxWait + MaxAttempts * ProviderTimeout + MaxRecord)
      + Backoff * (MaxAttempts * (MaxAttempts - 1))

(* When the window is long enough. *)
WindowFits == TwiceLongest + 2 * Skew <= 2 * Window
=============================================================================
