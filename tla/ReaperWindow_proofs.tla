------------------------- MODULE ReaperWindow_proofs -------------------------
(* When the in-flight window fits the configured delivery, the reaper      *)
(* never takes a row from a live sender: proved for every configuration.   *)
EXTENDS ReaperWindow, Integers, TLAPS

(* Twice the longest time that can have passed when attempt a starts. *)
Before(a) == 2 * (MaxClaim + MaxWait + (a - 1) * ProviderTimeout) + Backoff * (a * (a - 1))

(* The age of the row and what the current step may still take never       *)
(* exceed the longest time up to the end of that step.                     *)
WithinBudget ==
    /\ step = "claim" => attempt = 1 /\ age + left <= MaxClaim
    /\ step = "wait" => attempt = 1 /\ 2 * (age + left) <= Before(1)
    /\ step = "attempt" => 2 * (age + left) <= Before(attempt) + 2 * ProviderTimeout
    /\ step = "backoff" =>
         attempt < MaxAttempts /\ 2 * (age + left) <= Before(attempt + 1)
    /\ step = "record" => 2 * (age + left) <= TwiceLongest

IInv == TypeOK /\ WithinBudget /\ ReapsOnlyAbandoned

-----------------------------------------------------------------------------
LEMMA WindowIsNat == Window \in Nat
  <1>1. ProviderTimeout * MaxAttempts \in Nat
    BY TimeAssumption
  <1> QED
    BY <1>1, TimeAssumption DEF Window, WorstCase

LEMMA BeforeIsNat ==
  ASSUME NEW a \in 1..MaxAttempts
  PROVE  Before(a) \in Nat
  <1>1. a \in Nat /\ a - 1 \in Nat /\ ProviderTimeout \in Nat /\ Backoff \in Nat
        /\ MaxClaim \in Nat /\ MaxWait \in Nat
    BY TimeAssumption
  <1>2. (a - 1) * ProviderTimeout \in Nat /\ a * (a - 1) \in Nat
    BY <1>1
  <1>3. Backoff * (a * (a - 1)) \in Nat
    BY <1>1, <1>2
  <1> QED
    BY <1>1, <1>2, <1>3 DEF Before

(* One more attempt costs its timeout and the backoff before it. *)
LEMMA BeforeNext ==
  ASSUME NEW a \in 1..MaxAttempts
  PROVE  Before(a + 1) = Before(a) + 2 * ProviderTimeout + 2 * (Backoff * a)
  <1>1. a \in Int /\ ProviderTimeout \in Int /\ Backoff \in Int
        /\ MaxClaim \in Int /\ MaxWait \in Int
    BY TimeAssumption
  <1>2. ((a + 1) - 1) * ProviderTimeout = (a - 1) * ProviderTimeout + ProviderTimeout
    BY <1>1
  <1>3. (a + 1) * ((a + 1) - 1) = a * (a - 1) + 2 * a
    BY <1>1
  <1>4. Backoff * (a * (a - 1) + 2 * a) = Backoff * (a * (a - 1)) + 2 * (Backoff * a)
    BY <1>1
  <1>5. /\ (a - 1) * ProviderTimeout \in Int
        /\ Backoff * (a * (a - 1)) \in Int
        /\ Backoff * a \in Int
    BY <1>1
  <1> QED
    BY <1>1, <1>2, <1>3, <1>4, <1>5 DEF Before

(* Whichever attempt is the last, the whole delivery stays within limits. *)
LEMMA DeliveryBounded ==
  ASSUME NEW a \in 1..MaxAttempts
  PROVE  Before(a) + 2 * ProviderTimeout + 2 * MaxRecord <= TwiceLongest
  <1>1. /\ a \in Nat /\ MaxAttempts \in Nat /\ a <= MaxAttempts /\ 1 <= a
        /\ ProviderTimeout \in Nat /\ Backoff \in Nat
        /\ MaxClaim \in Nat /\ MaxWait \in Nat /\ MaxRecord \in Nat
    BY TimeAssumption
  <1>2. (a - 1) * ProviderTimeout + ProviderTimeout <= MaxAttempts * ProviderTimeout
    <2>1. (MaxAttempts - a) * ProviderTimeout >= 0
      BY <1>1
    <2> QED
      BY <1>1, <2>1
  <1>3. a * (a - 1) <= MaxAttempts * (MaxAttempts - 1)
    <2>1. (MaxAttempts - a) * (MaxAttempts + a - 1) >= 0
      BY <1>1
    <2>2. (MaxAttempts - a) * (MaxAttempts + a - 1)
            = MaxAttempts * (MaxAttempts - 1) - a * (a - 1)
      BY <1>1
    <2> QED
      BY <1>1, <2>1, <2>2
  <1>4. Backoff * (a * (a - 1)) <= Backoff * (MaxAttempts * (MaxAttempts - 1))
    <2> DEFINE x == a * (a - 1)
               y == MaxAttempts * (MaxAttempts - 1)
    <2>1. x \in Int /\ y \in Int /\ x <= y
      BY <1>1, <1>3
    <2> HIDE DEF x, y
    <2>2. Backoff * (y - x) >= 0
      BY <1>1, <2>1
    <2>3. Backoff * x <= Backoff * y
      BY <1>1, <2>1, <2>2
    <2> QED
      BY <2>3 DEF x, y
  <1>5. /\ (a - 1) * ProviderTimeout \in Int
        /\ MaxAttempts * ProviderTimeout \in Int
        /\ Backoff * (a * (a - 1)) \in Int
        /\ Backoff * (MaxAttempts * (MaxAttempts - 1)) \in Int
    BY <1>1
  <1> QED
    BY <1>1, <1>2, <1>4, <1>5 DEF Before, TwiceLongest

-----------------------------------------------------------------------------
LEMMA InitIInv == Init => IInv
  <1> SUFFICES ASSUME Init PROVE IInv
    OBVIOUS
  <1>1. MaxAttempts \in Nat \ {0} /\ MaxClaim \in Nat
    BY TimeAssumption
  <1>2. TypeOK
    <2>1. 1 \in 1..MaxAttempts
      BY <1>1
    <2>2. step \in Busy
      BY DEF Init, Busy
    <2> QED
      BY <1>1, <2>1, <2>2 DEF Init, TypeOK
  <1>3. step = "claim" /\ attempt = 1 /\ ~reclaimed /\ age + left <= MaxClaim
    BY <1>1 DEF Init
  <1> QED
    BY <1>2, <1>3 DEF IInv, WithinBudget, ReapsOnlyAbandoned

(* Twice the longest time until the first attempt. *)
LEMMA BeforeFirst == Before(1) = 2 * (MaxClaim + MaxWait)
  <1>1. MaxClaim \in Nat /\ MaxWait \in Nat /\ ProviderTimeout \in Nat /\ Backoff \in Nat
    BY TimeAssumption
  <1>2. (1 - 1) * ProviderTimeout = 0 /\ 1 * (1 - 1) = 0 /\ Backoff * 0 = 0
    BY <1>1
  <1> QED
    BY <1>1, <1>2 DEF Before

LEMMA StepIInv ==
  ASSUME WindowFits, IInv, [Next]_vars
  PROVE  IInv'
  <1> USE DEF IInv
  <1>c. attempt \in 1..MaxAttempts /\ left \in Nat /\ age \in Nat
    BY DEF TypeOK
  <1>b. Before(attempt) \in Nat
    BY <1>c, BeforeIsNat
  <1>k. /\ MaxAttempts \in Nat /\ ProviderTimeout \in Nat /\ Backoff \in Nat /\ MaxRecord \in Nat
        /\ MaxClaim \in Nat /\ MaxWait \in Nat /\ Skew \in Nat /\ Window \in Nat /\ Backoff * attempt \in Nat
    BY <1>c, TimeAssumption, WindowIsNat
  <1>t. TwiceLongest \in Int
    BY <1>k DEF TwiceLongest
  <1>d. Before(attempt) + 2 * ProviderTimeout + 2 * MaxRecord <= TwiceLongest
    BY <1>c, DeliveryBounded
  <1>n. Before(attempt + 1) = Before(attempt) + 2 * ProviderTimeout + 2 * (Backoff * attempt)
    BY <1>c, BeforeNext
  <1>0. CASE ClaimReturns
    BY <1>0, <1>c, <1>k, BeforeFirst
       DEF ClaimReturns, Enter, TypeOK, Busy, WithinBudget, ReapsOnlyAbandoned
  <1>1. CASE LimiterGrants
    BY <1>1, <1>c, <1>b, <1>k
       DEF LimiterGrants, Enter, TypeOK, Busy, WithinBudget, ReapsOnlyAbandoned
  <1>2. CASE AttemptRetryable
    BY <1>2, <1>c, <1>b, <1>k, <1>n
       DEF AttemptRetryable, Enter, TypeOK, Busy, WithinBudget, ReapsOnlyAbandoned
  <1>3. CASE BackoffEnds
    <2>1. attempt + 1 \in 1..MaxAttempts
      BY <1>3, <1>c, <1>k DEF BackoffEnds, WithinBudget
    <2>2. Before(attempt + 1) \in Nat
      BY <2>1, BeforeIsNat
    <2> QED
      BY <1>3, <1>c, <1>k, <2>1, <2>2
         DEF BackoffEnds, Enter, TypeOK, Busy, WithinBudget, ReapsOnlyAbandoned
  <1>4. CASE DeliverReturns
    BY <1>4, <1>c, <1>b, <1>k, <1>d, <1>t
       DEF DeliverReturns, Enter, TypeOK, Busy, WithinBudget, ReapsOnlyAbandoned
  <1>5. CASE Recorded
    BY <1>5 DEF Recorded, Enter, TypeOK, Busy, WithinBudget, ReapsOnlyAbandoned
  <1>6. CASE Abandon
    BY <1>6 DEF Abandon, Enter, TypeOK, Busy, WithinBudget, ReapsOnlyAbandoned
  <1>7. CASE Reap
    <2>1. step \in Busy => 2 * (age + left) <= TwiceLongest
      <3>0. step = "claim" => 2 * (age + left) <= TwiceLongest
        BY <1>c, <1>k, <1>d, <1>t, BeforeFirst DEF WithinBudget
      <3>1. step = "wait" => 2 * (age + left) <= TwiceLongest
        BY <1>c, <1>b, <1>k, <1>d, <1>t DEF WithinBudget
      <3>2. step = "attempt" => 2 * (age + left) <= TwiceLongest
        BY <1>c, <1>b, <1>k, <1>d, <1>t DEF WithinBudget
      <3>3. step = "backoff" => 2 * (age + left) <= TwiceLongest
        <4> SUFFICES ASSUME step = "backoff"
                     PROVE  2 * (age + left) <= TwiceLongest
          OBVIOUS
        <4>1. attempt + 1 \in 1..MaxAttempts
          BY <1>c, <1>k DEF WithinBudget
        <4>2. /\ Before(attempt + 1) \in Nat
              /\ Before(attempt + 1) + 2 * ProviderTimeout + 2 * MaxRecord <= TwiceLongest
          BY <4>1, BeforeIsNat, DeliveryBounded
        <4> QED
          BY <4>2, <1>c, <1>k, <1>t DEF WithinBudget
      <3> QED
        BY <3>0, <3>1, <3>2, <3>3 DEF Busy, WithinBudget
    <2>2. step \notin Busy
      BY <1>7, <2>1, <1>c, <1>k, <1>t DEF Reap, WindowFits
    <2> QED
      BY <1>7, <2>2 DEF Reap, TypeOK, Busy, WithinBudget, ReapsOnlyAbandoned
  <1>8. CASE Tick
    <2>1. TypeOK' /\ ReapsOnlyAbandoned'
      BY <1>8, <1>c DEF Tick, TypeOK, Busy, ReapsOnlyAbandoned
    <2>2. step \in Busy => age' + left' = age + left
      BY <1>8, <1>c DEF Tick, Busy
    <2> QED
      BY <1>8, <2>1, <2>2 DEF Tick, Busy, WithinBudget, Before
  <1>9. CASE UNCHANGED vars
    BY <1>9 DEF vars, TypeOK, Busy, WithinBudget, Before, ReapsOnlyAbandoned
  <1> QED
    BY <1>0, <1>1, <1>2, <1>3, <1>4, <1>5, <1>6, <1>7, <1>8, <1>9 DEF Next

(* With a window that fits, the reaper takes a row only when no sender is  *)
(* at work on it, for every timeout, number of attempts, backoff, margin   *)
(* and clock skew (cmd/scheduler run, deliver, ReapStuck).                 *)
THEOREM LeaseIsKept ==
  ASSUME WindowFits
  PROVE  Spec => []ReapsOnlyAbandoned
  <1>1. IInv /\ [Next]_vars => IInv'
    BY StepIInv
  <1>2. IInv => ReapsOnlyAbandoned
    BY DEF IInv
  <1> QED
    BY InitIInv, <1>1, <1>2, PTL DEF Spec
-----------------------------------------------------------------------------
(* What the 30 seconds have to pay for: cmd/scheduler's worst case counts  *)
(* the timeouts of the attempts, not the backoffs between them, the claim, *)
(* the wait for the limiter, the record of the outcome or the clocks.      *)
MarginCovers ==
    2 * (MaxClaim + MaxWait + MaxRecord + Skew) + Backoff * (MaxAttempts * (MaxAttempts - 1))
      <= 2 * Margin

LEMMA FloorFits ==
  /\ MarginCovers => WindowFits
  /\ InflightAfter <= WorstCase /\ WindowFits => MarginCovers
  <1> DEFINE timeouts == MaxAttempts * ProviderTimeout
             backoffs == Backoff * (MaxAttempts * (MaxAttempts - 1))
  <1>1. /\ MaxAttempts \in Nat \ {0} /\ ProviderTimeout \in Nat /\ Backoff \in Nat
        /\ MaxClaim \in Nat /\ MaxWait \in Nat /\ MaxRecord \in Nat /\ Skew \in Nat
        /\ Margin \in Nat
        /\ InflightAfter \in Nat
    BY TimeAssumption
  <1>2. timeouts \in Nat /\ backoffs \in Nat
    BY <1>1
  <1>3. WorstCase = timeouts + Margin
    BY <1>1 DEF WorstCase
  <1>4. TwiceLongest = 2 * (MaxClaim + MaxWait + timeouts + MaxRecord) + backoffs
    BY DEF TwiceLongest
  <1>5. MarginCovers <=>
          2 * (MaxClaim + MaxWait + MaxRecord + Skew) + backoffs <= 2 * Margin
    BY DEF MarginCovers
  <1> HIDE DEF timeouts, backoffs
  <1>6. Window >= WorstCase /\ (InflightAfter <= WorstCase => Window = WorstCase)
    BY <1>1, <1>2, <1>3 DEF Window
  <1> QED
    BY <1>1, <1>2, <1>3, <1>4, <1>5, <1>6, WindowIsNat DEF WindowFits

(* The floor alone keeps the lease, however short REAPER_INFLIGHT_AFTER is *)
(* set and whatever the timeout, as long as the margin covers the rest     *)
(* (cmd/scheduler run).                                                    *)
THEOREM FloorKeepsLease ==
  ASSUME MarginCovers
  PROVE  Spec => []ReapsOnlyAbandoned
  <1>1. WindowFits
    BY FloorFits
  <1> QED
    BY <1>1, LeaseIsKept

(* With the defaults of internal/config, in hundredths of a second - three *)
(* attempts, half a second of backoff, the margin of 30 seconds - and the  *)
(* wait of SendPacing's WaitBounded, one token per sender, for up to 50    *)
(* senders (the default is 16): the floor holds as long as the claim, its  *)
(* wait for a lock on the row included, the record of the outcome and the  *)
(* clocks' difference take no more than 28 seconds together.               *)
THEOREM DefaultsKeepLease ==
  ASSUME MaxAttempts = 3, Backoff = 50, Margin = 3000,
         NEW senders \in 0..50, MaxWait = senders,
         MaxClaim + MaxRecord + Skew <= 2800
  PROVE  Spec => []ReapsOnlyAbandoned
  <1>1. MaxClaim \in Nat /\ MaxRecord \in Nat /\ Skew \in Nat
    BY TimeAssumption
  <1>2. Backoff * (MaxAttempts * (MaxAttempts - 1)) = 300
    OBVIOUS
  <1>3. MarginCovers
    BY <1>1, <1>2 DEF MarginCovers
  <1> QED
    BY <1>3, FloorKeepsLease
-----------------------------------------------------------------------------
(* A backoff is only ever waited for when an attempt is left. *)
TypeInv == TypeOK /\ (step = "backoff" => attempt < MaxAttempts)

LEMMA StepTypeInv == TypeInv /\ [Next]_vars => TypeInv'
  <1> SUFFICES ASSUME TypeInv, [Next]_vars PROVE TypeInv'
    OBVIOUS
  <1>k. /\ MaxAttempts \in Nat /\ ProviderTimeout \in Nat /\ Backoff \in Nat /\ MaxRecord \in Nat
        /\ MaxWait \in Nat /\ attempt \in 1..MaxAttempts /\ left \in Nat /\ age \in Nat
    BY TimeAssumption DEF TypeInv, TypeOK
  <1>b. Backoff * attempt \in Nat
    BY <1>k
  <1>0. CASE ClaimReturns
    BY <1>0, <1>k DEF ClaimReturns, Enter, TypeInv, TypeOK, Busy
  <1>1. CASE LimiterGrants
    BY <1>1, <1>k DEF LimiterGrants, Enter, TypeInv, TypeOK, Busy
  <1>2. CASE AttemptRetryable
    BY <1>2, <1>b DEF AttemptRetryable, Enter, TypeInv, TypeOK, Busy
  <1>3. CASE BackoffEnds
    BY <1>3, <1>k DEF BackoffEnds, Enter, TypeInv, TypeOK, Busy
  <1>4. CASE DeliverReturns
    BY <1>4, <1>k DEF DeliverReturns, Enter, TypeInv, TypeOK, Busy
  <1>5. CASE Recorded
    BY <1>5 DEF Recorded, Enter, TypeInv, TypeOK, Busy
  <1>6. CASE Abandon
    BY <1>6 DEF Abandon, Enter, TypeInv, TypeOK, Busy
  <1>7. CASE Reap
    BY <1>7 DEF Reap, TypeInv, TypeOK, Busy
  <1>8. CASE Tick
    BY <1>8, <1>k DEF Tick, TypeInv, TypeOK, Busy
  <1>9. CASE UNCHANGED vars
    BY <1>9 DEF vars, TypeInv, TypeOK, Busy
  <1> QED
    BY <1>0, <1>1, <1>2, <1>3, <1>4, <1>5, <1>6, <1>7, <1>8, <1>9 DEF Next

(* The sender's clock and count of attempts stay in range, whether or not  *)
(* the window fits: deliver never runs an attempt past RETRY_MAX_ATTEMPTS. *)
THEOREM ReaperTypeCorrect == Spec => []TypeOK
  <1>1. Init => TypeInv
    BY InitIInv DEF IInv, TypeInv, Init
  <1>2. TypeInv => TypeOK
    BY DEF TypeInv
  <1> QED
    BY <1>1, <1>2, StepTypeInv, PTL DEF Spec
=============================================================================
