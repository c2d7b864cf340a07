--------------------------- MODULE SendPacing_proofs ---------------------------
(* The pace of the senders, for every configuration: every debt of the     *)
(* bucket is the wait of some pending sender, so that there is never more  *)
(* debt than there are senders, and what a sender sleeps for one job is    *)
(* paid for by its wait and the backoffs before the attempt it is at.      *)
(* A stop may leave gaps in the debt, but nobody reserves after it.        *)
EXTENDS SendPacing, FiniteSetTheorems, TLAPS

Waiting == Cardinality(Pending)

WaitsCovered == \A s \in Pending : timer[s] = 0 \/ timer[s] <= -tokens

(* The reservations form a queue without a gap. *)
QueueFilled == \A i \in 1..(-tokens) : \E s \in Pending : timer[s] = i

StartsPaid ==
    \A j \in Ages : first[j] <= RateBurst + j + Cardinality(Senders) - tokens - Waiting

CallsAreAttempts == \A s \in Senders : step[s] = "calling" => attempt[s] >= 1

(* While the pool is not stopped. *)
OpenInv == TypeOK /\ CallsAreAttempts /\ WaitsCovered /\ QueueFilled /\ StartsPaid

(* All that is left of StartsPaid after a stop. *)
StartsKept == \A j \in Ages : first[j] <= RateBurst + j + Cardinality(Senders)

PacingInv ==
    /\ TypeOK
    /\ CallsAreAttempts
    /\ cancelled => WaitBounded /\ StartsKept
    /\ ~cancelled => OpenInv

-----------------------------------------------------------------------------
LEMMA ConstantTypes ==
    /\ RateBurst \in Int
    /\ MaxAttempts \in Int
    /\ Cardinality(Senders) \in Nat
    /\ RatePerSec - 1 \in Ages
    /\ Ages \subseteq Nat
  BY PacingAssumption, FS_CardinalityType DEF RateBurst, MaxAttempts, Getint, Ages

LEMMA PendingFinite ==
  /\ IsFiniteSet(Pending)
  /\ Waiting \in Nat
  /\ Waiting <= Cardinality(Senders)
  <1>1. Pending \in SUBSET Senders
    BY DEF Pending
  <1>2. IsFiniteSet(Pending) /\ Waiting <= Cardinality(Senders)
    BY <1>1, FS_Subset, PacingAssumption DEF Waiting
  <1> QED
    BY <1>2, FS_CardinalityType DEF Waiting

LEMMA PendingJoins ==
  ASSUME NEW s, s \notin Pending, Pending' = Pending \cup {s}
  PROVE  Waiting' = Waiting + 1
  BY PendingFinite, FS_AddElement DEF Waiting

LEMMA PendingLeaves ==
  ASSUME NEW s \in Pending, Pending' = Pending \ {s}
  PROVE  Waiting' = Waiting - 1
  BY PendingFinite, FS_RemoveElement DEF Waiting

LEMMA ClassifyType == \A code : Classify(code) \in Verdicts /\ Classify(code) # "none"
  BY DEF Classify, Verdicts

(* Every unit of debt has a pending sender of its own. *)
LEMMA DebtIsWaiting ==
  ASSUME TypeOK, QueueFilled
  PROVE  -tokens <= Waiting
  <1> DEFINE debt == 1..(-tokens)
             waits(i) == CHOOSE s \in Pending : timer[s] = i
             f == [i \in debt |-> waits(i)]
  <1>1. tokens \in Int
    BY DEF TypeOK
  <1>2. \A i \in debt : waits(i) \in Pending /\ timer[waits(i)] = i
    BY DEF QueueFilled
  <1>3. f \in Injection(debt, Pending)
    BY <1>2 DEF Injection, IsInjective
  <1>4. Cardinality(debt) <= Waiting
    BY <1>3, FS_Injection, PendingFinite DEF Waiting
  <1>5. Cardinality(debt) = IF 1 > -tokens THEN 0 ELSE -tokens
    BY <1>1, FS_Interval
  <1> QED
    BY <1>1, <1>4, <1>5, PendingFinite

-----------------------------------------------------------------------------
LEMMA InitType == Init => TypeOK
  <1> SUFFICES ASSUME Init PROVE TypeOK
    OBVIOUS
  <1>1. cancelled \in BOOLEAN
    BY DEF Init
  <1> QED
    BY <1>1, ConstantTypes DEF Init, TypeOK, Free, Verdicts

LEMMA NextType == TypeOK /\ [Next]_vars => TypeOK'
  <1> SUFFICES ASSUME TypeOK, [Next]_vars PROVE TypeOK'
    OBVIOUS
  <1> USE ConstantTypes DEF TypeOK, Free, Verdicts
  <1>1. ASSUME NEW s \in Senders, Reserve(s) PROVE TypeOK'
    BY <1>1 DEF Reserve
  <1>2. ASSUME NEW s \in Senders, Call(s) PROVE TypeOK'
    BY <1>2 DEF Call, Counted
  <1>7. ASSUME Signal PROVE TypeOK'
    BY <1>7 DEF Signal
  <1>8. ASSUME NEW s \in Senders, WaitInterrupted(s) \/ BackoffInterrupted(s) PROVE TypeOK'
    BY <1>8 DEF WaitInterrupted, BackoffInterrupted, Refilled
  <1>9. ASSUME NEW s \in Senders, NEW result \in {"accepted", "retryable", "permanent"},
               NEW n \in Nat, AttemptEnds(s, result, n)
        PROVE  /\ step' \in [Senders -> Free \cup {"loop", "calling"}]
               /\ timer' \in [Senders -> Nat]
               /\ verdict' \in [Senders -> Verdicts]
    <2>1. Backoff * n \in Nat
      BY PacingAssumption
    <2>2. After[result] \in Free \cup {"loop", "calling"}
      BY DEF After
    <2>3. timer' \in [Senders -> Nat]
      BY <1>9, <2>1 DEF AttemptEnds
    <2> QED
      BY <1>9, <2>2, <2>3 DEF AttemptEnds
  <1>3. ASSUME NEW s \in Senders, Exhausted(s) PROVE TypeOK'
    BY <1>3 DEF Exhausted
  <1>4. ASSUME NEW s \in Senders, NEW code \in Codes, Answer(s, code) PROVE TypeOK'
    <2>1. Classify(code) \in {"accepted", "retryable", "permanent"} /\ attempt[s] \in Nat
      BY DEF Classify
    <2> QED
      BY <1>4, <1>9, <2>1 DEF Answer
  <1>10. ASSUME NEW s \in Senders, CallRefused(s) PROVE TypeOK'
    <2>1. attempt[s] + 1 \in Nat
      OBVIOUS
    <2> QED
      BY <1>9, <1>10, <2>1 DEF CallRefused
  <1>5. ASSUME Tick PROVE TypeOK'
    <2>1. Older(first) \in [Ages -> Nat] /\ Older(calls) \in [Ages -> Nat]
      BY PacingAssumption DEF Older, Ages
    <2> QED
      BY <1>5, <2>1 DEF Tick, Refilled
  <1>6. CASE UNCHANGED vars
    BY <1>6 DEF vars
  <1> QED
    BY <1>1, <1>2, <1>3, <1>4, <1>5, <1>6, <1>7, <1>8, <1>10 DEF Next, Deliver

(* Buckets, senders and windows keep their types (NewPool, deliver). *)
THEOREM TypeCorrect == Spec => []TypeOK
  <1> QED
    BY InitType, NextType, PTL DEF Spec

-----------------------------------------------------------------------------
LEMMA InitOpen ==
  ASSUME RateBurst \in Nat
  PROVE  Init => OpenInv
  <1> SUFFICES ASSUME Init PROVE OpenInv
    OBVIOUS
  <1>1. TypeOK
    BY InitType
  <1>2. Pending = {}
    BY DEF Init, Pending
  <1>3. Waiting = 0
    BY <1>2, FS_EmptySet DEF Waiting
  <1>4. StartsPaid
    BY <1>3, ConstantTypes DEF Init, StartsPaid
  <1>5. QueueFilled
    <2>1. 1..(-tokens) = {}
      BY ConstantTypes DEF Init
    <2> QED
      BY <2>1 DEF QueueFilled
  <1> QED
    BY <1>1, <1>2, <1>4, <1>5 DEF OpenInv, WaitsCovered, CallsAreAttempts, Init

LEMMA ReserveOpen ==
  ASSUME OpenInv, RateBurst \in Nat, NEW s \in Senders, Reserve(s), TypeOK'
  PROVE  OpenInv'
  <1> USE DEF OpenInv
  <1>1. s \notin Pending /\ tokens \in Int /\ timer \in [Senders -> Nat]
    BY DEF Reserve, Pending, Free, TypeOK
  <1>2. CallsAreAttempts'
    BY DEF CallsAreAttempts, Reserve, TypeOK
  <1>3. CASE RateBurst < 1 \/ cancelled
    <2>1. Pending' = Pending
      BY <1>1, <1>3 DEF Pending, Reserve, TypeOK
    <2>2. tokens' = tokens /\ first' = first /\ \A t \in Pending : timer'[t] = timer[t]
      BY <1>1, <1>3 DEF Reserve, TypeOK, Pending
    <2>3. Waiting' = Waiting
      BY <2>1 DEF Waiting
    <2> QED
      BY <1>2, <2>1, <2>2, <2>3 DEF WaitsCovered, QueueFilled, StartsPaid
  <1>4. CASE ~(RateBurst < 1 \/ cancelled)
    <2>1. Pending' = Pending \cup {s}
      BY <1>4, ConstantTypes DEF Pending, Reserve, TypeOK
    <2>2. tokens' = tokens - 1 /\ first' = first /\ \A t \in Pending : timer'[t] = timer[t]
      BY <1>1, <1>4 DEF Reserve, TypeOK, Pending
    <2>3. timer'[s] = IF tokens >= 1 THEN 0 ELSE 1 - tokens
      BY <1>4 DEF Reserve, TypeOK
    <2>4. Waiting' = Waiting + 1
      BY <1>1, <2>1, PendingJoins
    <2>5. WaitsCovered'
      <3> SUFFICES ASSUME NEW t \in Pending' PROVE timer'[t] = 0 \/ timer'[t] <= -tokens'
        BY DEF WaitsCovered
      <3>1. CASE t = s
        BY <3>1, <2>2, <2>3, <1>1
      <3>2. CASE t \in Pending
        <4>1. timer[t] = 0 \/ timer[t] <= -tokens
          BY <3>2 DEF WaitsCovered
        <4>2. timer[t] \in Nat
          BY <3>2, <1>1 DEF Pending
        <4> QED
          BY <4>1, <4>2, <3>2, <2>2, <1>1
      <3> QED
        BY <3>1, <3>2, <2>1
    <2>6. QueueFilled'
      <3> SUFFICES ASSUME NEW i \in 1..(-tokens') PROVE \E t \in Pending' : timer'[t] = i
        BY DEF QueueFilled
      <3>1. CASE i = -tokens'
        <4>1. timer'[s] = i
          BY <3>1, <2>2, <2>3, <1>1
        <4> QED
          BY <4>1, <2>1
      <3>2. CASE i # -tokens'
        <4>1. i \in 1..(-tokens)
          BY <3>2, <2>2, <1>1
        <4>2. PICK t \in Pending : timer[t] = i
          BY <4>1 DEF QueueFilled
        <4> QED
          BY <4>2, <2>1, <2>2
      <3> QED
        BY <3>1, <3>2
    <2>7. StartsPaid'
      <3> SUFFICES ASSUME NEW j \in Ages
                   PROVE first'[j] <= RateBurst + j + Cardinality(Senders) - tokens' - Waiting'
        BY DEF StartsPaid
      <3>1. first[j] <= RateBurst + j + Cardinality(Senders) - tokens - Waiting
        BY DEF StartsPaid
      <3>2. first[j] \in Nat /\ j \in Nat /\ Waiting \in Nat
        BY ConstantTypes, PendingFinite DEF TypeOK
      <3> QED
        BY <3>1, <3>2, <2>2, <2>4, <1>1, ConstantTypes
    <2> QED
      BY <1>2, <2>5, <2>6, <2>7
  <1> QED
    BY <1>3, <1>4

(* A pending sender that leaves has waited long enough. *)
LEMMA LeaveOpen ==
  ASSUME OpenInv, NEW s \in Pending, timer[s] = 0, tokens' = tokens, timer' = timer,
         Pending' = Pending \ {s}, CallsAreAttempts', TypeOK',
         \A j \in Ages : first'[j] <= first[j] + 1
  PROVE  OpenInv'
  <1> USE DEF OpenInv
  <1>1. Waiting' = Waiting - 1
    BY PendingLeaves
  <1>2. WaitsCovered'
    BY DEF WaitsCovered
  <1>3. QueueFilled'
    <2> SUFFICES ASSUME NEW i \in 1..(-tokens) PROVE \E t \in Pending' : timer[t] = i
      BY DEF QueueFilled
    <2>1. PICK t \in Pending : timer[t] = i
      BY DEF QueueFilled
    <2>2. i # 0
      BY DEF TypeOK
    <2> QED
      BY <2>1, <2>2
  <1>4. StartsPaid'
    <2> SUFFICES ASSUME NEW j \in Ages
                 PROVE first'[j] <= RateBurst + j + Cardinality(Senders) - tokens' - Waiting'
      BY DEF StartsPaid
    <2>1. first[j] <= RateBurst + j + Cardinality(Senders) - tokens - Waiting
      BY DEF StartsPaid
    <2>2. first[j] \in Nat /\ j \in Nat /\ Waiting \in Nat /\ tokens \in Int /\ first'[j] \in Nat
      BY ConstantTypes, PendingFinite DEF TypeOK
    <2>3. first'[j] <= first[j] + 1
      OBVIOUS
    <2> QED
      BY <1>1, <2>1, <2>2, <2>3, ConstantTypes
  <1> QED
    BY <1>2, <1>3, <1>4

(* Nor does it matter what happens to the other senders. *)
LEMMA KeepOpen ==
  ASSUME OpenInv, tokens' = tokens, first' = first, Pending' = Pending,
         \A t \in Pending : timer'[t] = timer[t], CallsAreAttempts', TypeOK'
  PROVE  OpenInv'
  <1>1. Waiting' = Waiting
    BY DEF Waiting
  <1> QED
    BY <1>1 DEF OpenInv, WaitsCovered, QueueFilled, StartsPaid

LEMMA CallOpen ==
  ASSUME OpenInv, NEW s \in Senders, Call(s), TypeOK'
  PROVE  OpenInv'
  <1>1. CallsAreAttempts'
    BY DEF CallsAreAttempts, Call, TypeOK, OpenInv
  <1>2. CASE attempt[s] = 0
    <2>1. s \in Pending /\ timer[s] = 0
      BY <1>2 DEF Call, AtHead, Pending
    <2>2. Pending' = Pending \ {s}
      BY <1>2 DEF Call, Pending, TypeOK, OpenInv
    <2>3. \A j \in Ages : first'[j] <= first[j] + 1
      BY <1>2 DEF Call, Counted, TypeOK, OpenInv
    <2> QED
      BY <1>1, <2>1, <2>2, <2>3, LeaveOpen DEF Call
  <1>3. CASE attempt[s] # 0
    <2>1. Pending' = Pending
      BY <1>3 DEF Call, Pending, TypeOK, OpenInv, AtHead
    <2>2. first' = first
      BY <1>3 DEF Call, Counted, TypeOK, OpenInv
    <2> QED
      BY <1>1, <2>1, <2>2, KeepOpen DEF Call
  <1> QED
    BY <1>2, <1>3

LEMMA ExhaustedOpen ==
  ASSUME OpenInv, NEW s \in Senders, Exhausted(s), TypeOK'
  PROVE  OpenInv'
  <1>1. CallsAreAttempts'
    BY DEF CallsAreAttempts, Exhausted, TypeOK, OpenInv
  <1>2. CASE attempt[s] = 0
    <2>1. s \in Pending /\ timer[s] = 0
      BY <1>2 DEF Exhausted, AtHead, Pending
    <2>2. Pending' = Pending \ {s}
      BY <1>2 DEF Exhausted, Pending, TypeOK, OpenInv
    <2>3. \A j \in Ages : first'[j] <= first[j] + 1
      BY DEF Exhausted, TypeOK, OpenInv
    <2> QED
      BY <1>1, <2>1, <2>2, <2>3, LeaveOpen DEF Exhausted
  <1>3. CASE attempt[s] # 0
    <2>1. Pending' = Pending
      BY <1>3 DEF Exhausted, Pending, TypeOK, OpenInv, AtHead
    <2> QED
      BY <1>1, <2>1, KeepOpen DEF Exhausted
  <1> QED
    BY <1>2, <1>3

LEMMA AnswerOpen ==
  ASSUME OpenInv, NEW s \in Senders, NEW code \in Codes, Answer(s, code), TypeOK'
  PROVE  OpenInv'
  <1>1. CallsAreAttempts'
    BY DEF CallsAreAttempts, Answer, AttemptEnds, After, TypeOK, OpenInv
  <1>2. s \notin Pending /\ attempt[s] >= 1 /\ attempt[s] \in Nat
    BY DEF CallsAreAttempts, OpenInv, Answer, Pending, TypeOK
  <1>3. Pending' = Pending
    BY <1>2 DEF Answer, AttemptEnds, Pending, TypeOK, OpenInv
  <1>4. \A t \in Pending : timer'[t] = timer[t]
    BY <1>2 DEF Answer, AttemptEnds, Pending, TypeOK, OpenInv
  <1> QED
    BY <1>1, <1>3, <1>4, KeepOpen DEF Answer

LEMMA TickOpen ==
  ASSUME OpenInv, RateBurst \in Nat, Tick, TypeOK'
  PROVE  OpenInv'
  <1> USE DEF OpenInv
  <1>1. CallsAreAttempts'
    BY DEF CallsAreAttempts, Tick
  <1>2. Pending' = Pending /\ Waiting' = Waiting
    BY DEF Pending, Tick, Waiting
  <1>3. /\ tokens \in Int /\ tokens <= RateBurst
        /\ tokens' = IF tokens < RateBurst THEN tokens + 1 ELSE tokens
    BY DEF TypeOK, Tick, Refilled
  <1>4. \A t \in Pending : /\ timer[t] \in Nat
                           /\ timer'[t] = IF timer[t] > 0 THEN timer[t] - 1 ELSE 0
    BY DEF TypeOK, Tick, Pending
  <1>5. WaitsCovered'
    <2> SUFFICES ASSUME NEW t \in Pending PROVE timer'[t] = 0 \/ timer'[t] <= -tokens'
      BY <1>2 DEF WaitsCovered
    <2>1. timer[t] = 0 \/ timer[t] <= -tokens
      BY DEF WaitsCovered
    <2> QED
      BY <2>1, <1>3, <1>4, ConstantTypes
  <1>6. QueueFilled'
    <2> SUFFICES ASSUME NEW i \in 1..(-tokens') PROVE \E t \in Pending : timer'[t] = i
      BY <1>2 DEF QueueFilled
    <2>1. i + 1 \in 1..(-tokens)
      BY <1>3, ConstantTypes
    <2>2. PICK t \in Pending : timer[t] = i + 1
      BY <2>1 DEF QueueFilled
    <2> QED
      BY <2>2, <1>4
  <1>7. StartsPaid'
    <2> SUFFICES ASSUME NEW j \in Ages
                 PROVE first'[j] <= RateBurst + j + Cardinality(Senders) - tokens' - Waiting
      BY <1>2 DEF StartsPaid
    <2>1. /\ Waiting \in Nat /\ Waiting <= Cardinality(Senders)
          /\ j \in Nat
      BY PendingFinite, ConstantTypes
    <2>2. first'[j] = IF j = 0 THEN 0 ELSE first[j - 1]
      BY DEF Tick, Older
    <2>3. CASE j = 0
      BY <2>1, <2>2, <2>3, <1>3, ConstantTypes
    <2>4. CASE j # 0
      <3>1. j - 1 \in Ages
        BY <2>1, <2>4, PacingAssumption DEF Ages
      <3>2. /\ first[j - 1] <= RateBurst + (j - 1) + Cardinality(Senders) - tokens - Waiting
            /\ first[j - 1] \in Nat
        BY <3>1 DEF StartsPaid, TypeOK
      <3> QED
        BY <2>1, <2>2, <2>4, <3>2, <1>3, ConstantTypes
    <2> QED
      BY <2>3, <2>4
  <1> QED
    BY <1>1, <1>5, <1>6, <1>7

LEMMA OpenBounds ==
  ASSUME OpenInv, RateBurst \in Nat
  PROVE  StartsKept /\ WaitBounded
  <1> USE DEF OpenInv
  <1>1. -tokens <= Waiting /\ tokens \in Int
    BY DebtIsWaiting DEF TypeOK
  <1>2. Waiting \in Nat /\ Waiting <= Cardinality(Senders) /\ Cardinality(Senders) \in Nat
    BY PendingFinite, ConstantTypes
  <1>3. StartsKept
    <2> SUFFICES ASSUME NEW j \in Ages PROVE first[j] <= RateBurst + j + Cardinality(Senders)
      BY DEF StartsKept
    <2>1. first[j] <= RateBurst + j + Cardinality(Senders) - tokens - Waiting
      BY DEF StartsPaid
    <2>2. first[j] \in Nat /\ j \in Nat
      BY ConstantTypes DEF TypeOK
    <2> QED
      BY <1>1, <1>2, <2>1, <2>2
  <1>4. WaitBounded
    <2> SUFFICES ASSUME NEW s \in Pending PROVE timer[s] <= Cardinality(Senders)
      BY DEF WaitBounded
    <2>1. timer[s] = 0 \/ timer[s] <= -tokens
      BY DEF WaitsCovered
    <2>2. timer[s] \in Nat
      BY DEF TypeOK, Pending
    <2> QED
      BY <1>1, <1>2, <2>1, <2>2
  <1> QED
    BY <1>3, <1>4

-----------------------------------------------------------------------------
LEMMA CallsKept ==
  ASSUME TypeOK, CallsAreAttempts, [Next]_vars
  PROVE  CallsAreAttempts'
  <1> USE DEF TypeOK, CallsAreAttempts
  <1>1. ASSUME NEW s \in Senders, Reserve(s) PROVE CallsAreAttempts'
    BY <1>1 DEF Reserve
  <1>2. ASSUME NEW s \in Senders, NEW code \in Codes, Answer(s, code) PROVE CallsAreAttempts'
    <2>1. After[Classify(code)] # "calling"
      BY DEF Classify, After
    <2> QED
      BY <1>2, <2>1 DEF Answer, AttemptEnds
  <1>3. ASSUME NEW s \in Senders, CallRefused(s) PROVE CallsAreAttempts'
    BY <1>3 DEF CallRefused, AttemptEnds, After
  <1>4. ASSUME NEW s \in Senders,
               WaitInterrupted(s) \/ Call(s) \/ BackoffInterrupted(s) \/ Exhausted(s)
        PROVE  CallsAreAttempts'
    BY <1>4 DEF WaitInterrupted, Call, BackoffInterrupted, Exhausted
  <1>5. CASE Tick \/ Signal \/ UNCHANGED vars
    BY <1>5 DEF Tick, Signal, vars
  <1> QED
    BY <1>1, <1>2, <1>3, <1>4, <1>5 DEF Next, Deliver

(* While the pool is not stopped. *)
LEMMA NextOpen ==
  ASSUME RateBurst \in Nat, OpenInv, [Next]_vars, ~cancelled'
  PROVE  OpenInv'
  <1>1. TypeOK' /\ CallsAreAttempts'
    BY NextType, CallsKept DEF OpenInv
  <1>2. CASE UNCHANGED vars
    <2>1. Pending' = Pending
      BY <1>2 DEF vars, Pending
    <2> QED
      BY <1>1, <1>2, <2>1, KeepOpen DEF vars
  <1>3. CASE \E s \in Senders : WaitInterrupted(s) \/ CallRefused(s) \/ BackoffInterrupted(s)
    BY <1>3 DEF WaitInterrupted, CallRefused, BackoffInterrupted
  <1>4. CASE Signal
    BY <1>4 DEF Signal
  <1> QED
    BY <1>1, <1>2, <1>3, <1>4, ReserveOpen, CallOpen, ExhaustedOpen, AnswerOpen, TickOpen
    DEF Next, Deliver

(* After a stop nobody joins the pending senders and no attempt is counted.*)
LEMMA StoppedStep ==
  ASSUME TypeOK, CallsAreAttempts, [Next]_vars, cancelled', NEW t \in Pending'
  PROVE  t \in Pending /\ timer'[t] <= timer[t]
  <1>0. /\ t \in Senders /\ step'[t] = "loop" /\ attempt'[t] = 0 /\ timer[t] \in Nat
        /\ step \in [Senders -> Free \cup {"loop", "calling"}] /\ timer \in [Senders -> Nat]
        /\ attempt \in [Senders -> Nat]
    BY DEF Pending, TypeOK
  <1> USE DEF CallsAreAttempts, Pending
  <1>1. ASSUME NEW s \in Senders, Reserve(s) PROVE t \in Pending /\ timer'[t] <= timer[t]
    BY <1>0, <1>1 DEF Reserve
  <1>2. ASSUME NEW s \in Senders, NEW code \in Codes, Answer(s, code)
        PROVE  t \in Pending /\ timer'[t] <= timer[t]
    <2>1. t # s
      BY <1>0, <1>2 DEF Answer
    <2> QED
      BY <1>0, <1>2, <2>1 DEF Answer, AttemptEnds
  <1>3. ASSUME NEW s \in Senders, CallRefused(s) PROVE t \in Pending /\ timer'[t] <= timer[t]
    <2>1. t # s
      BY <1>0, <1>3 DEF CallRefused
    <2> QED
      BY <1>0, <1>3, <2>1 DEF CallRefused, AttemptEnds
  <1>4. ASSUME NEW s \in Senders, WaitInterrupted(s) \/ BackoffInterrupted(s)
        PROVE  t \in Pending /\ timer'[t] <= timer[t]
    <2>1. step'[s] # "loop"
      <3>1. CASE WaitInterrupted(s)
        BY <1>0, <3>1 DEF WaitInterrupted
      <3>2. CASE BackoffInterrupted(s)
        BY <1>0, <3>2 DEF BackoffInterrupted
      <3> QED
        BY <1>4, <3>1, <3>2
    <2>2. attempt' = attempt /\ timer' = [timer EXCEPT ![s] = 0]
      BY <1>4 DEF WaitInterrupted, BackoffInterrupted
    <2>3. \E x : step' = [step EXCEPT ![s] = x]
      BY <1>4 DEF WaitInterrupted, BackoffInterrupted
    <2>4. t # s
      BY <1>0, <2>1
    <2> QED
      BY <1>0, <2>2, <2>3, <2>4
  <1>5. ASSUME NEW s \in Senders, Call(s) \/ Exhausted(s)
        PROVE  t \in Pending /\ timer'[t] <= timer[t]
    <2>1. step'[s] # "loop"
      <3>1. CASE Call(s)
        BY <1>0, <3>1 DEF Call
      <3>2. CASE Exhausted(s)
        BY <1>0, <3>2 DEF Exhausted
      <3> QED
        BY <1>5, <3>1, <3>2
    <2>2. timer' = timer /\ \E x : attempt' = [attempt EXCEPT ![s] = x]
      <3>1. CASE Call(s)
        BY <3>1 DEF Call
      <3>2. CASE Exhausted(s)
        BY <1>0, <3>2 DEF Exhausted
      <3> QED
        BY <1>5, <3>1, <3>2
    <2>3. \E x : step' = [step EXCEPT ![s] = x]
      BY <1>5 DEF Call, Exhausted
    <2>4. t # s
      BY <1>0, <2>1
    <2> QED
      BY <1>0, <2>2, <2>3, <2>4
  <1>6. CASE Tick
    BY <1>0, <1>6 DEF Tick
  <1>7. CASE Signal \/ UNCHANGED vars
    <2>1. step' = step /\ attempt' = attempt /\ timer' = timer
      BY <1>7 DEF Signal, vars
    <2> QED
      BY <1>0, <2>1
  <1> QED
    BY <1>1, <1>2, <1>3, <1>4, <1>5, <1>6, <1>7 DEF Next, Deliver

LEMMA StoppedStarts ==
  ASSUME TypeOK, StartsKept, RateBurst \in Nat, [Next]_vars, cancelled'
  PROVE  StartsKept'
  <1>1. CASE Tick
    <2> SUFFICES ASSUME NEW j \in Ages PROVE first'[j] <= RateBurst + j + Cardinality(Senders)
      BY DEF StartsKept
    <2>1. j \in Nat /\ first'[j] = IF j = 0 THEN 0 ELSE first[j - 1]
      BY <1>1, ConstantTypes DEF Tick, Older
    <2>2. CASE j = 0
      BY <2>1, <2>2, ConstantTypes
    <2>3. CASE j # 0
      <3>1. j - 1 \in Ages
        BY <2>1, <2>3, PacingAssumption DEF Ages
      <3>2. first[j - 1] <= RateBurst + (j - 1) + Cardinality(Senders) /\ first[j - 1] \in Nat
        BY <3>1 DEF StartsKept, TypeOK
      <3> QED
        BY <2>1, <2>3, <3>2, ConstantTypes
    <2> QED
      BY <2>2, <2>3
  <1>2. CASE ~Tick
    <2>1. first' = first
      BY <1>2 DEF Next, Deliver, Reserve, WaitInterrupted, Call, CallRefused, BackoffInterrupted,
             Exhausted, Answer, Signal, vars
    <2> QED
      BY <2>1 DEF StartsKept
  <1> QED
    BY <1>1, <1>2

LEMMA InitPacing ==
  ASSUME RateBurst \in Nat
  PROVE  Init => PacingInv
  <1> SUFFICES ASSUME Init PROVE PacingInv
    OBVIOUS
  <1>1. OpenInv
    BY InitOpen
  <1> QED
    BY <1>1 DEF OpenInv, PacingInv, Init

LEMMA NextPacing ==
  ASSUME RateBurst \in Nat
  PROVE  PacingInv /\ [Next]_vars => PacingInv'
  <1> SUFFICES ASSUME PacingInv, [Next]_vars PROVE PacingInv'
    OBVIOUS
  <1>1. TypeOK' /\ CallsAreAttempts'
    BY NextType, CallsKept DEF PacingInv
  <1>2. WaitBounded /\ StartsKept
    BY OpenBounds DEF PacingInv
  <1>3. CASE cancelled'
    <2>1. StartsKept'
      BY <1>2, <1>3, StoppedStarts DEF PacingInv
    <2>2. WaitBounded'
      <3> SUFFICES ASSUME NEW t \in Pending' PROVE timer'[t] <= Cardinality(Senders)
        BY DEF WaitBounded
      <3>1. t \in Pending /\ timer'[t] <= timer[t]
        BY <1>3, StoppedStep DEF PacingInv
      <3>2. timer[t] <= Cardinality(Senders)
        BY <1>2, <3>1 DEF WaitBounded
      <3>3. timer'[t] \in Nat /\ timer[t] \in Nat /\ Cardinality(Senders) \in Nat
        BY <1>1, <3>1, ConstantTypes DEF PacingInv, TypeOK, Pending
      <3> QED
        BY <3>1, <3>2, <3>3
    <2> QED
      BY <1>1, <1>3, <2>1, <2>2 DEF PacingInv
  <1>4. CASE ~cancelled'
    <2>1. ~cancelled
      BY <1>4 DEF Next, Deliver, Reserve, WaitInterrupted, Call, CallRefused, BackoffInterrupted,
             Exhausted, Answer, Tick, Signal, vars
    <2>2. OpenInv'
      BY <1>4, <2>1, NextOpen DEF PacingInv
    <2> QED
      BY <1>1, <1>4, <2>2 DEF PacingInv
  <1>5. cancelled' \in BOOLEAN
    BY <1>1 DEF TypeOK
  <1> QED
    BY <1>3, <1>4, <1>5

LEMMA PacingBounds ==
  ASSUME PacingInv, RateBurst \in Nat
  PROVE  StartsBounded /\ WaitBounded
  <1>1. StartsKept /\ WaitBounded
    BY OpenBounds DEF PacingInv
  <1> DEFINE oldest == RatePerSec - 1
  <1>2. oldest \in Ages
    BY ConstantTypes
  <1> HIDE DEF oldest
  <1>3. first[oldest] <= RateBurst + oldest + Cardinality(Senders)
    BY <1>1, <1>2 DEF StartsKept
  <1> QED
    BY <1>1, <1>3 DEF StartsBounded, oldest

(* Whatever the rate, the burst and the number of senders: no second sees  *)
(* more first attempts than the burst, the refill and the late senders     *)
(* account for (process).                                                  *)
THEOREM StartsAreBounded ==
  ASSUME RateBurst \in Nat
  PROVE  Spec => []StartsBounded
  <1> QED
    BY InitPacing, NextPacing, PacingBounds, PTL DEF Spec

(* Nobody waits for the limiter longer than one token per sender takes     *)
(* (process).                                                              *)
THEOREM WaitIsBounded ==
  ASSUME RateBurst \in Nat
  PROVE  Spec => []WaitBounded
  <1> QED
    BY InitPacing, NextPacing, PacingBounds, PTL DEF Spec

-----------------------------------------------------------------------------
(* What the head of the loop knows of the attempts behind it. *)
LoopRemembers ==
    \A s \in Senders :
      /\ step[s] \in {"loop", "calling"} => attempt[s] <= MaxAttempts
      /\ step[s] = "loop" =>
           verdict[s] = IF attempt[s] = 0 THEN "none" ELSE "retryable"

CauseInv == TypeOK /\ CallsAreAttempts /\ LoopRemembers /\ OutcomeHasCause

LEMMA NextCause ==
  ASSUME MaxAttempts >= 1
  PROVE  CauseInv /\ [Next]_vars => CauseInv'
  <1> SUFFICES ASSUME CauseInv, [Next]_vars PROVE CauseInv'
    OBVIOUS
  <1> USE ConstantTypes
  <1>1. TypeOK' /\ TypeOK
    BY NextType DEF CauseInv
  <1>2. CallsAreAttempts /\ LoopRemembers /\ OutcomeHasCause
    BY DEF CauseInv
  <1> USE DEF CallsAreAttempts, LoopRemembers, OutcomeHasCause, SentWasAccepted, TypeOK
  <1>3. ASSUME NEW s \in Senders, Reserve(s)
        PROVE (CallsAreAttempts /\ LoopRemembers /\ OutcomeHasCause)'
    BY <1>1, <1>2, <1>3 DEF Reserve, Free
  <1>4. ASSUME NEW s \in Senders, Call(s)
        PROVE (CallsAreAttempts /\ LoopRemembers /\ OutcomeHasCause)'
    BY <1>1, <1>2, <1>4 DEF Call, AtHead
  <1>5. ASSUME NEW s \in Senders, Exhausted(s)
        PROVE (CallsAreAttempts /\ LoopRemembers /\ OutcomeHasCause)'
    BY <1>1, <1>2, <1>5 DEF Exhausted, AtHead
  <1>6. ASSUME NEW s \in Senders, NEW code \in Codes, Answer(s, code)
        PROVE (CallsAreAttempts /\ LoopRemembers /\ OutcomeHasCause)'
    <2>1. Classify(code) \in {"accepted", "retryable", "permanent"}
      BY DEF Classify
    <2> QED
      BY <1>1, <1>2, <1>6, <2>1 DEF Answer, AttemptEnds, After
  <1>10. ASSUME NEW s \in Senders, CallRefused(s)
         PROVE (CallsAreAttempts /\ LoopRemembers /\ OutcomeHasCause)'
    BY <1>1, <1>2, <1>10 DEF CallRefused, AttemptEnds, After, AtHead
  <1>11. ASSUME NEW s \in Senders, WaitInterrupted(s)
         PROVE (CallsAreAttempts /\ LoopRemembers /\ OutcomeHasCause)'
    BY <1>1, <1>2, <1>11 DEF WaitInterrupted
  <1>12. ASSUME NEW s \in Senders, BackoffInterrupted(s)
         PROVE (CallsAreAttempts /\ LoopRemembers /\ OutcomeHasCause)'
    BY <1>1, <1>2, <1>12 DEF BackoffInterrupted
  <1>13. ASSUME Signal PROVE (CallsAreAttempts /\ LoopRemembers /\ OutcomeHasCause)'
    BY <1>1, <1>2, <1>13 DEF Signal
  <1>7. ASSUME Tick PROVE (CallsAreAttempts /\ LoopRemembers /\ OutcomeHasCause)'
    BY <1>1, <1>2, <1>7 DEF Tick
  <1>8. ASSUME UNCHANGED vars PROVE (CallsAreAttempts /\ LoopRemembers /\ OutcomeHasCause)'
    BY <1>1, <1>2, <1>8 DEF vars
  <1>9. (CallsAreAttempts /\ LoopRemembers /\ OutcomeHasCause)'
    <2> HIDE DEF CallsAreAttempts, LoopRemembers, OutcomeHasCause
    <2> QED
      BY <1>3, <1>4, <1>5, <1>6, <1>7, <1>8, <1>10, <1>11, <1>12, <1>13 DEF Next, Deliver
  <1> QED
    BY <1>1, <1>9 DEF CauseInv

(* With at least one attempt configured, nothing counts as sent that the   *)
(* provider did not accept, nor as dead without its cause (deliver).       *)
THEOREM EveryOutcomeHasCause ==
  ASSUME MaxAttempts >= 1
  PROVE  Spec => []OutcomeHasCause
  <1>1. Init => CauseInv
    BY InitType, ConstantTypes
    DEF Init, CauseInv, CallsAreAttempts, LoopRemembers, OutcomeHasCause, SentWasAccepted
  <1>2. CauseInv => OutcomeHasCause
    BY DEF CauseInv
  <1> QED
    BY <1>1, <1>2, NextCause, PTL DEF Spec
-----------------------------------------------------------------------------
(* Twice the backoffs before attempt a. *)
Backoffs(a) == Backoff * (a * (a - 1))

(* The attempt that a sender's sleep leads to, or would have. *)
Reached(s) ==
    IF step[s] \in {"loop", "dead"} /\ attempt[s] < MaxAttempts THEN attempt[s] + 1 ELSE attempt[s]

AttemptsBounded == \A s \in Senders : attempt[s] > 0 => attempt[s] <= MaxAttempts

SleepPaid ==
    \A s \in Senders :
      2 * (waited[s] + timer[s]) <= 2 * Cardinality(Senders) + Backoffs(Reached(s))

SleepInv == TypeOK /\ CallsAreAttempts /\ AttemptsBounded /\ SleepPaid

LEMMA BackoffsGrow ==
  ASSUME NEW a \in Nat
  PROVE  /\ Backoffs(a) \in Nat
         /\ Backoffs(a + 1) = Backoffs(a) + 2 * (Backoff * a)
  <1>1. Backoff \in Nat
    BY PacingAssumption
  <1>2. a * (a - 1) \in Nat
    BY SMT
  <1>3. (a + 1) * ((a + 1) - 1) = a * (a - 1) + 2 * a
    BY SMT
  <1>4. Backoff * (a * (a - 1) + 2 * a) = Backoff * (a * (a - 1)) + 2 * (Backoff * a)
    BY <1>1
  <1>5. Backoff * (a * (a - 1)) \in Nat
    <2> DEFINE x == a * (a - 1)
    <2>1. x \in Nat
      BY <1>2
    <2> HIDE DEF x
    <2>2. Backoff * x \in Nat
      BY <1>1, <2>1
    <2> QED BY <2>2 DEF x
  <1> QED
    BY <1>3, <1>4, <1>5 DEF Backoffs

LEMMA BackoffsBounded ==
  ASSUME NEW a \in Nat, a = 0 \/ a <= MaxAttempts
  PROVE  Backoffs(a) <= Backoff * (MaxAttempts * (MaxAttempts - 1))
  <1>1. Backoff \in Nat /\ MaxAttempts \in Int
    BY PacingAssumption, ConstantTypes
  <1>2. a * (a - 1) <= MaxAttempts * (MaxAttempts - 1)
    <2>1. CASE a = 0
      BY <1>1, <2>1
    <2>2. CASE 1 <= a /\ a <= MaxAttempts
      <3>1. (MaxAttempts - a) * (MaxAttempts + a - 1) >= 0
        BY <1>1, <2>2
      <3>2. (MaxAttempts - a) * (MaxAttempts + a - 1)
              = MaxAttempts * (MaxAttempts - 1) - a * (a - 1)
        BY <1>1
      <3> QED
        BY <1>1, <3>1, <3>2
    <2> QED
      BY <2>1, <2>2
  <1> DEFINE x == a * (a - 1)
             y == MaxAttempts * (MaxAttempts - 1)
  <1>3. x \in Int /\ y \in Int /\ x <= y
    BY <1>1, <1>2
  <1> HIDE DEF x, y
  <1>4. Backoff * (y - x) >= 0
    BY <1>1, <1>3
  <1>5. Backoff * x <= Backoff * y
    BY <1>1, <1>3, <1>4
  <1> QED
    BY <1>5 DEF x, y, Backoffs

LEMMA SleepTypes ==
  ASSUME TypeOK, NEW s \in Senders
  PROVE  /\ waited[s] \in Nat /\ timer[s] \in Nat /\ attempt[s] \in Nat
         /\ Backoff * attempt[s] \in Nat
         /\ Backoffs(attempt[s]) \in Nat
         /\ Backoffs(attempt[s] + 1) = Backoffs(attempt[s]) + 2 * (Backoff * attempt[s])
         /\ MaxAttempts \in Int /\ Cardinality(Senders) \in Nat
  <1>1. attempt[s] \in Nat /\ Backoff \in Nat
    BY PacingAssumption DEF TypeOK
  <1> QED
    BY <1>1, BackoffsGrow, ConstantTypes DEF TypeOK

(* A step of sender s is paid for if it is for s. *)
LEMMA OneSleeps ==
  ASSUME SleepInv, TypeOK', CallsAreAttempts', NEW s \in Senders,
         \A t \in Senders \ {s} : /\ waited'[t] = waited[t] /\ timer'[t] = timer[t]
                                  /\ attempt'[t] = attempt[t] /\ step'[t] = step[t],
         attempt'[s] > 0 => attempt'[s] <= MaxAttempts,
         2 * (waited'[s] + timer'[s]) <= 2 * Cardinality(Senders) + Backoffs(Reached(s)')
  PROVE  SleepInv'
  <1>1. AttemptsBounded'
    BY DEF SleepInv, AttemptsBounded
  <1>2. SleepPaid'
    <2> SUFFICES ASSUME NEW t \in Senders
                 PROVE  2 * (waited'[t] + timer'[t])
                          <= 2 * Cardinality(Senders) + Backoffs(Reached(t)')
      BY DEF SleepPaid, Backoffs
    <2>1. CASE t = s
      BY <2>1
    <2>2. CASE t # s
      <3>1. Reached(t)' = Reached(t)
        BY <2>2 DEF Reached
      <3> QED
        BY <2>2, <3>1 DEF SleepInv, SleepPaid
    <2> QED
      BY <2>1, <2>2
  <1> QED
    BY <1>1, <1>2 DEF SleepInv

LEMMA ReserveSleeps ==
  ASSUME SleepInv, TypeOK', CallsAreAttempts', WaitBounded', NEW s \in Senders, Reserve(s)
  PROVE  SleepInv'
  <1>1. /\ waited'[s] = 0 /\ attempt'[s] = 0 /\ step'[s] \in {"loop", "abandoned"}
        /\ step'[s] = "abandoned" => timer'[s] = 0
    BY DEF Reserve, SleepInv, TypeOK
  <1>2. timer'[s] <= Cardinality(Senders)
    <2>1. CASE step'[s] = "loop"
      BY <1>1, <2>1 DEF WaitBounded, Pending
    <2>2. CASE step'[s] = "abandoned"
      BY <1>1, <2>2, ConstantTypes
    <2> QED
      BY <1>1, <2>1, <2>2
  <1>3. Reached(s)' \in {0, 1}
    BY <1>1 DEF Reached
  <1>4. Backoffs(0) = 0 /\ Backoffs(1) = 0
    BY PacingAssumption DEF Backoffs
  <1>5. timer'[s] \in Nat /\ Cardinality(Senders) \in Nat
    BY ConstantTypes DEF TypeOK
  <1>6. 2 * (waited'[s] + timer'[s]) <= 2 * Cardinality(Senders) + Backoffs(Reached(s)')
    BY <1>1, <1>2, <1>3, <1>4, <1>5
  <1>7. \A t \in Senders \ {s} : /\ waited'[t] = waited[t] /\ timer'[t] = timer[t]
                                 /\ attempt'[t] = attempt[t] /\ step'[t] = step[t]
    BY DEF Reserve, SleepInv, TypeOK
  <1> QED
    BY <1>1, <1>6, <1>7, OneSleeps

(* The sleep before the attempts that sender s has made or is about to.    *)
LEMMA SleepSoFar ==
  ASSUME SleepInv, NEW s \in Senders
  PROVE  /\ attempt[s] > 0 => attempt[s] <= MaxAttempts
         /\ 2 * (waited[s] + timer[s]) <= 2 * Cardinality(Senders) + Backoffs(Reached(s))
  BY DEF SleepInv, AttemptsBounded, SleepPaid

(* An attempt that ends is paid for as an attempt, and its backoff as one. *)
LEMMA AttemptSleeps ==
  ASSUME SleepInv, TypeOK', CallsAreAttempts', NEW s \in Senders,
         NEW result \in {"accepted", "retryable", "permanent"}, NEW n \in Nat, n <= MaxAttempts, AttemptEnds(s, result, n), attempt'[s] = n,
         \A t \in Senders \ {s} : attempt'[t] = attempt[t], waited' = waited,
         2 * waited[s] <= 2 * Cardinality(Senders) + Backoffs(n)
  PROVE  SleepInv'
  <1> DEFINE c == Cardinality(Senders)
  <1>1. /\ Backoffs(n) \in Nat /\ Backoffs(n + 1) = Backoffs(n) + 2 * (Backoff * n)
        /\ Backoff * n \in Nat
    BY BackoffsGrow, PacingAssumption
  <1>2. /\ waited[s] \in Nat /\ timer \in [Senders -> Nat] /\ c \in Nat /\ MaxAttempts \in Int
        /\ step \in [Senders -> Free \cup {"loop", "calling"}]
    BY ConstantTypes DEF SleepInv, TypeOK
  <1>3. \A t \in Senders \ {s} : /\ waited'[t] = waited[t] /\ timer'[t] = timer[t]
                                 /\ attempt'[t] = attempt[t] /\ step'[t] = step[t]
    BY <1>2 DEF AttemptEnds
  <1>4. CASE result = "retryable" /\ n < MaxAttempts
    <2>1. step'[s] = "loop" /\ timer'[s] = Backoff * n
      BY <1>2, <1>4 DEF AttemptEnds, After
    <2>2. Reached(s)' = n + 1
      BY <1>4, <2>1 DEF Reached
    <2>3. 2 * (waited'[s] + timer'[s]) <= 2 * c + Backoffs(n + 1)
      BY <1>1, <1>2, <2>1
    <2> QED
      BY <1>3, <2>2, <2>3, OneSleeps
  <1>5. CASE ~(result = "retryable" /\ n < MaxAttempts)
    <2>1. timer'[s] = 0
      BY <1>2, <1>5 DEF AttemptEnds
    <2>2. Reached(s)' \in {n, n + 1}
      BY DEF Reached
    <2>3. 2 * (waited'[s] + timer'[s]) <= 2 * c + Backoffs(Reached(s)')
      BY <1>1, <1>2, <2>1, <2>2
    <2> QED
      BY <1>3, <2>3, OneSleeps
  <1> QED
    BY <1>4, <1>5

LEMMA DeliverSleeps ==
  ASSUME SleepInv, TypeOK', CallsAreAttempts', NEW s \in Senders, Deliver(s)
  PROVE  SleepInv'
  <1> DEFINE c == Cardinality(Senders)
             a == attempt[s]
  <1>1. /\ waited[s] \in Nat /\ timer[s] \in Nat /\ a \in Nat /\ Backoff * a \in Nat
        /\ Backoffs(a) \in Nat /\ Backoffs(a + 1) = Backoffs(a) + 2 * (Backoff * a)
        /\ MaxAttempts \in Int /\ c \in Nat
    BY SleepTypes DEF SleepInv
  <1>2. /\ a > 0 => a <= MaxAttempts
        /\ 2 * (waited[s] + timer[s]) <= 2 * c + Backoffs(Reached(s))
    BY SleepSoFar
  <1>3. ASSUME WaitInterrupted(s) \/ Call(s) \/ BackoffInterrupted(s) \/ Exhausted(s)
        PROVE  \A t \in Senders \ {s} : /\ waited'[t] = waited[t] /\ timer'[t] = timer[t]
                                        /\ attempt'[t] = attempt[t] /\ step'[t] = step[t]
    BY <1>3 DEF WaitInterrupted, Call, BackoffInterrupted, Exhausted, SleepInv, TypeOK
  <1>4. CASE Call(s)
    <2>1. /\ step[s] = "loop" /\ a < MaxAttempts /\ step'[s] = "calling" /\ attempt'[s] = a + 1
          /\ waited'[s] = waited[s] /\ timer'[s] = timer[s]
      BY <1>4 DEF Call, AtHead, SleepInv, TypeOK
    <2>2. Reached(s) = a + 1 /\ Reached(s)' = a + 1
      BY <2>1 DEF Reached
    <2> QED
      BY <1>1, <1>2, <1>3, <1>4, <2>1, <2>2, OneSleeps
  <1>5. CASE Exhausted(s)
    <2>1. /\ step[s] = "loop" /\ a >= MaxAttempts /\ step'[s] \in {"sent", "dead"} /\ attempt'[s] = a
          /\ waited'[s] = waited[s] /\ timer'[s] = timer[s]
      BY <1>5 DEF Exhausted, AtHead, SleepInv, TypeOK
    <2>2. Reached(s) = a /\ Reached(s)' = a
      BY <1>1, <2>1 DEF Reached
    <2> QED
      BY <1>1, <1>2, <1>3, <1>5, <2>1, <2>2, OneSleeps
  <1>6. ASSUME NEW code \in Codes, Answer(s, code) PROVE SleepInv'
    <2>1. /\ step[s] = "calling" /\ attempt' = attempt /\ waited' = waited
          /\ AttemptEnds(s, Classify(code), a)
      BY <1>6 DEF Answer
    <2>2. Reached(s) = a
      BY <2>1 DEF Reached
    <2>3. Classify(code) \in {"accepted", "retryable", "permanent"}
      BY DEF Classify
    <2>4. 2 * waited[s] <= 2 * c + Backoffs(a)
      BY <1>1, <1>2, <2>2
    <2>5. CASE a > 0
      BY <1>1, <1>2, <2>1, <2>3, <2>4, <2>5, AttemptSleeps
    <2>6. a > 0
      BY <1>1, <2>1 DEF SleepInv, CallsAreAttempts
    <2> QED
      BY <2>5, <2>6
  <1>7. CASE CallRefused(s)
    <2>1. /\ step[s] = "loop" /\ timer[s] = 0 /\ a < MaxAttempts /\ attempt'[s] = a + 1
          /\ waited' = waited /\ AttemptEnds(s, "retryable", a + 1)
          /\ \A t \in Senders \ {s} : attempt'[t] = attempt[t]
      BY <1>7 DEF CallRefused, AtHead, SleepInv, TypeOK
    <2>2. Reached(s) = a + 1
      BY <2>1 DEF Reached
    <2>3. 2 * waited[s] <= 2 * c + Backoffs(a + 1)
      BY <1>1, <1>2, <2>1, <2>2
    <2>4. a + 1 \in Nat /\ a + 1 <= MaxAttempts
      BY <1>1, <2>1
    <2> QED
      BY <2>1, <2>3, <2>4, AttemptSleeps
  <1>8. CASE WaitInterrupted(s)
    <2>1. /\ step[s] = "loop" /\ a = 0 /\ step'[s] = "abandoned" /\ attempt'[s] = 0
          /\ waited'[s] = waited[s] /\ timer'[s] = 0
      BY <1>8 DEF WaitInterrupted, SleepInv, TypeOK
    <2>2. Reached(s) \in {0, 1} /\ Reached(s)' = 0
      BY <2>1 DEF Reached
    <2>3. Backoffs(Reached(s)) = 0
      <3>1. Backoffs(0) = 0 /\ Backoffs(1) = 0
        BY PacingAssumption DEF Backoffs
      <3> QED
        BY <2>2, <3>1
    <2>4. 2 * waited[s] <= 2 * c + 0
      BY <1>1, <1>2, <2>3
    <2>5. Backoffs(Reached(s)') = 0
      BY <2>2, PacingAssumption DEF Backoffs
    <2>6. 2 * (waited'[s] + timer'[s]) <= 2 * c + 0
      BY <1>1, <2>1, <2>4
    <2>7. 2 * (waited'[s] + timer'[s]) <= 2 * c + Backoffs(Reached(s)')
      BY <2>5, <2>6
    <2> QED
      BY <1>3, <1>8, <2>1, <2>7, OneSleeps
  <1>9. CASE BackoffInterrupted(s)
    <2>1. /\ step[s] = "loop" /\ a \in 1..(MaxAttempts - 1) /\ step'[s] = "dead" /\ attempt'[s] = a
          /\ waited'[s] = waited[s] /\ timer'[s] = 0
      BY <1>9 DEF BackoffInterrupted, SleepInv, TypeOK
    <2>2. Reached(s) = a + 1 /\ Reached(s)' = a + 1
      BY <1>1, <2>1 DEF Reached
    <2>3. 2 * (waited'[s] + timer'[s]) <= 2 * c + Backoffs(Reached(s)')
      BY <1>1, <1>2, <2>1, <2>2
    <2> QED
      BY <1>1, <1>2, <1>3, <1>9, <2>1, <2>3, OneSleeps
  <1> QED
    BY <1>4, <1>5, <1>6, <1>7, <1>8, <1>9 DEF Deliver

LEMMA SignalSleeps ==
  ASSUME SleepInv, TypeOK', CallsAreAttempts', Signal
  PROVE  SleepInv'
  <1>1. \A s \in Senders : Reached(s)' = Reached(s)
    BY DEF Signal, Reached
  <1> QED
    BY <1>1 DEF SleepInv, AttemptsBounded, SleepPaid, Backoffs, Signal

LEMMA TickSleeps ==
  ASSUME SleepInv, TypeOK', CallsAreAttempts', Tick
  PROVE  SleepInv'
  <1>1. AttemptsBounded'
    BY DEF SleepInv, AttemptsBounded, Tick
  <1>2. ASSUME NEW s \in Senders
        PROVE  waited'[s] + timer'[s] = waited[s] + timer[s] /\ Reached(s)' = Reached(s)
    <2>1. waited[s] \in Nat /\ timer[s] \in Nat
      BY DEF SleepInv, TypeOK
    <2> QED
      BY <2>1 DEF Tick, Reached
  <1>3. SleepPaid'
    BY <1>2 DEF SleepInv, SleepPaid, Backoffs
  <1> QED
    BY <1>1, <1>3 DEF SleepInv

(* Whatever the rate, the retries and the other senders: the time that a   *)
(* delivery sleeps is one token per sender and the configured backoffs, so *)
(* that the age of its row is this, the attempts' timeouts and the record  *)
(* (process, deliver).                                                     *)
THEOREM SleepIsBounded ==
  ASSUME RateBurst \in Nat
  PROVE  Spec => []SleepBounded
  <1>1. Init => SleepInv
    <2> SUFFICES ASSUME Init PROVE SleepInv
      OBVIOUS
    <2>1. \A s \in Senders : waited[s] = 0 /\ timer[s] = 0 /\ attempt[s] = 0 /\ Reached(s) = 0
      BY DEF Init, Reached
    <2>2. Backoffs(0) = 0 /\ Cardinality(Senders) \in Nat
      BY ConstantTypes, PacingAssumption DEF Backoffs
    <2>3. CallsAreAttempts
      BY DEF Init, CallsAreAttempts
    <2> QED
      BY <2>1, <2>2, <2>3, InitType DEF SleepInv, AttemptsBounded, SleepPaid
  <1>2. SleepInv /\ WaitBounded' /\ [Next]_vars => SleepInv'
    <2> SUFFICES ASSUME SleepInv, WaitBounded', [Next]_vars PROVE SleepInv'
      OBVIOUS
    <2>1. TypeOK' /\ CallsAreAttempts'
      BY NextType, CallsKept DEF SleepInv
    <2>2. CASE UNCHANGED vars
      BY <2>1, <2>2 DEF vars, SleepInv, AttemptsBounded, SleepPaid, Reached, Backoffs
    <2> QED
      BY <2>1, <2>2, ReserveSleeps, DeliverSleeps, TickSleeps, SignalSleeps DEF Next
  <1>3. SleepInv => SleepBounded
    <2> SUFFICES ASSUME SleepInv, NEW s \in Senders
                 PROVE  2 * waited[s] <= 2 * Cardinality(Senders)
                                           + Backoff * (MaxAttempts * (MaxAttempts - 1))
      BY DEF SleepBounded
    <2>1. /\ waited[s] \in Nat /\ timer[s] \in Nat /\ attempt[s] \in Nat
          /\ MaxAttempts \in Int /\ Cardinality(Senders) \in Nat
      BY SleepTypes DEF SleepInv
    <2>2. Reached(s) \in Nat /\ (Reached(s) = 0 \/ Reached(s) <= MaxAttempts)
      BY <2>1 DEF Reached, SleepInv, AttemptsBounded
    <2>3. Backoffs(Reached(s)) <= Backoff * (MaxAttempts * (MaxAttempts - 1))
      BY <2>2, BackoffsBounded
    <2>4. Backoffs(Reached(s)) \in Nat
      BY <2>2, BackoffsGrow
    <2>5. 2 * (waited[s] + timer[s]) <= 2 * Cardinality(Senders) + Backoffs(Reached(s))
      BY DEF SleepInv, SleepPaid
    <2> DEFINE most == Backoff * (MaxAttempts * (MaxAttempts - 1))
    <2>6. most \in Int
      BY <2>1, PacingAssumption
    <2> HIDE DEF most
    <2>7. 2 * waited[s] <= 2 * Cardinality(Senders) + most
      BY <2>1, <2>3, <2>4, <2>5, <2>6 DEF most
    <2> QED
      BY <2>7 DEF most
  <1> QED
    BY <1>1, <1>2, <1>3, WaitIsBounded, PTL DEF Spec
=============================================================================
