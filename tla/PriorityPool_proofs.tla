-------------------------- MODULE PriorityPool_proofs --------------------------
(***************************************************************************)
(* For every number of senders, every supply of messages and every         *)
(* capacity of the channels: overtaking between the priorities is bounded, *)
(* and a cancelled pool runs out of steps.                                 *)
(***************************************************************************)
EXTENDS PriorityPool, FiniteSetTheorems, TLAPS

(* Senders that have found channel q empty in this round of next() and may *)
(* still take a job of lower priority.                                     *)
Past(q) == {s \in Senders : \/ q = "high" /\ at[s] \in {"second", "block"}
                            \/ q = "normal" /\ at[s] = "block"}

(* Every job of lower priority taken while one of q waits uses up one of   *)
(* the senders that were past their check.                                 *)
OvertakingInv ==
    \A q \in Priorities :
      /\ Empty(q) => overtaken[q] = 0
      /\ overtaken[q] + Cardinality(Past(q)) <= Cardinality(Senders)

-----------------------------------------------------------------------------
LEMMA InitType == Init => TypeOK
<1> SUFFICES ASSUME Init PROVE TypeOK
  OBVIOUS
<1>1. unread \in [Priorities -> Nat]
  BY PoolAssumption DEF Init
<1>2. waiting \in [Priorities -> 0..Capacity]
  <2>1. 0 \in 0..Capacity
    BY PoolAssumption
  <2> QED BY <2>1 DEF Init
<1>3. /\ fetcher \in [Priorities -> {"fetch", "send", "stopped"}]
      /\ at \in [Senders -> {"first", "second", "block", "work", "commit", "stopped"}]
      /\ working \in [Senders -> Priorities \cup {"none"}]
      /\ overtaken \in [Priorities -> Nat]
  BY DEF Init
<1> QED BY <1>1, <1>2, <1>3 DEF Init, TypeOK

LEMMA TakeType ==
  ASSUME TypeOK, NEW s \in Senders, NEW pr \in Priorities, Take(s, pr)
  PROVE  TypeOK'
<1>1. waiting[pr] \in 0..Capacity /\ waiting[pr] # 0 /\ Capacity \in Nat
  BY PoolAssumption DEF TypeOK, Take, Empty
<1>2. waiting' \in [Priorities -> 0..Capacity]
  BY <1>1 DEF TypeOK, Take
<1>3. overtaken' \in [Priorities -> Nat]
  BY DEF TypeOK, Take
<1> QED BY <1>2, <1>3 DEF TypeOK, Take, runVars

LEMMA SenderStepType ==
  ASSUME TypeOK, NEW s \in Senders, SenderStep(s)
  PROVE  TypeOK'
<1>1. ASSUME NEW step \in {"second", "block", "stopped"}, FallThrough(s, step) PROVE TypeOK'
  BY <1>1 DEF TypeOK, FallThrough, runVars
<1>2. CASE FirstSelect(s)
  BY <1>1, <1>2, TakeType DEF FirstSelect, Priorities
<1>3. CASE SecondSelect(s)
  BY <1>1, <1>3, TakeType DEF SecondSelect, Priorities
<1>4. CASE BlockingSelect(s)
  BY <1>1, <1>4, TakeType DEF BlockingSelect
<1>5. CASE Process(s)
  BY <1>5 DEF TypeOK, Process, runVars
<1>6. CASE Commit(s)
  BY <1>6 DEF TypeOK, Commit, runVars
<1> QED BY <1>2, <1>3, <1>4, <1>5, <1>6 DEF SenderStep

LEMMA NextType == TypeOK /\ [Next]_vars => TypeOK'
<1> SUFFICES ASSUME TypeOK, [Next]_vars PROVE TypeOK'
  OBVIOUS
<1>1. ASSUME NEW pr \in Priorities, FetcherStep(pr) PROVE TypeOK'
  <2>1. CASE FetchMessage(pr)
    <3>1. unread[pr] \in Nat /\ unread[pr] > 0
      BY <2>1 DEF TypeOK, FetchMessage
    <3> QED BY <2>1, <3>1 DEF TypeOK, FetchMessage, senderVars, runVars
  <2>2. CASE HandOver(pr)
    <3>1. waiting[pr] \in 0..Capacity /\ waiting[pr] < Capacity /\ Capacity \in Nat
      BY <2>2, PoolAssumption DEF TypeOK, HandOver
    <3>2. waiting' \in [Priorities -> 0..Capacity]
      BY <2>2, <3>1 DEF TypeOK, HandOver
    <3> QED BY <2>2, <3>2 DEF TypeOK, HandOver, senderVars, runVars
  <2>3. CASE FetcherStops(pr)
    BY <2>3 DEF TypeOK, FetcherStops, senderVars, runVars
  <2> QED BY <1>1, <2>1, <2>2, <2>3 DEF FetcherStep
<1>2. CASE \E s \in Senders : SenderStep(s)
  BY <1>2, SenderStepType
<1>3. CASE Signal
  BY <1>3 DEF TypeOK, Signal, senderVars
<1>4. CASE RunStep
  BY <1>4 DEF TypeOK, RunStep, CloseReader, Return, senderVars
<1>5. CASE UNCHANGED vars
  BY <1>5 DEF TypeOK, vars
<1> QED BY <1>1, <1>2, <1>3, <1>4, <1>5 DEF Next

(* Every variable keeps its type; in particular no channel ever holds more *)
(* jobs than its capacity (fetch, next).                                   *)
THEOREM PoolTypeCorrect == Spec => []TypeOK
BY InitType, NextType, PTL DEF Spec

-----------------------------------------------------------------------------
LEMMA PastIsFinite ==
  ASSUME NEW q
  PROVE  /\ IsFiniteSet(Past(q)) /\ Cardinality(Past(q)) \in Nat
         /\ Cardinality(Senders) \in Nat
         /\ Cardinality(Past(q)) <= Cardinality(Senders)
<1>1. Past(q) \subseteq Senders
  BY DEF Past
<1> QED BY <1>1, PoolAssumption, FS_Subset, FS_CardinalityType

LEMMA PastIsFiniteNext ==
  ASSUME NEW q
  PROVE  /\ IsFiniteSet(Past(q)') /\ Cardinality(Past(q)') \in Nat
         /\ Cardinality(Past(q)') <= Cardinality(Senders)
<1>1. Past(q)' \subseteq Senders
  BY DEF Past
<1> QED BY <1>1, PoolAssumption, FS_Subset, FS_CardinalityType

LEMMA InitOvertaking == Init => OvertakingInv
<1> SUFFICES ASSUME Init, NEW q \in Priorities
             PROVE  overtaken[q] = 0 /\ overtaken[q] + Cardinality(Past(q)) <= Cardinality(Senders)
  BY DEF OvertakingInv
<1> QED BY PastIsFinite DEF Init

(* A step keeps the invariant for q if nobody joins Past(q) and nothing of *)
(* lower priority is taken, or if it leaves q without a debt.              *)
LEMMA KeepsOvertaking ==
  ASSUME TypeOK, OvertakingInv, NEW q \in Priorities,
         \/ overtaken'[q] = 0
         \/ /\ overtaken'[q] = overtaken[q] /\ Past(q)' \subseteq Past(q)
            /\ Empty(q)' => Empty(q)
  PROVE  /\ Empty(q)' => overtaken'[q] = 0
         /\ overtaken'[q] + Cardinality(Past(q)') <= Cardinality(Senders)
<1>1. overtaken[q] \in Nat
  BY DEF TypeOK
<1>2. CASE overtaken'[q] = 0
  BY <1>2, PastIsFiniteNext
<1>3. CASE /\ overtaken'[q] = overtaken[q] /\ Past(q)' \subseteq Past(q)
           /\ Empty(q)' => Empty(q)
  <2>1. Cardinality(Past(q)') <= Cardinality(Past(q))
    BY <1>3, PastIsFinite, FS_Subset
  <2> QED BY <1>1, <1>3, <2>1, PastIsFinite, PastIsFiniteNext DEF OvertakingInv
<1> QED BY <1>2, <1>3

LEMMA TakeOvertaking ==
  ASSUME TypeOK, OvertakingInv, NEW s \in Senders, NEW pr \in Priorities, Take(s, pr),
         \A q \in Higher[pr] : s \in Past(q)
  PROVE  OvertakingInv'
<1> SUFFICES ASSUME NEW q \in Priorities
             PROVE  /\ Empty(q)' => overtaken'[q] = 0
                    /\ overtaken'[q] + Cardinality(Past(q)') <= Cardinality(Senders)
  BY DEF OvertakingInv
<1>1. Past(q)' = Past(q) \ {s}
  BY DEF Past, Take, TypeOK
<1>2. CASE q = pr \/ Empty(q)
  BY <1>2, KeepsOvertaking DEF Take
<1>3. CASE q # pr /\ ~Empty(q) /\ q \notin Higher[pr]
  <2>1. overtaken'[q] = overtaken[q]
    BY <1>3 DEF Take, TypeOK
  <2>2. ~Empty(q)'
    BY <1>3 DEF Take, Empty, TypeOK
  <2> QED BY <1>1, <2>1, <2>2, KeepsOvertaking
<1>4. CASE q # pr /\ ~Empty(q) /\ q \in Higher[pr]
  <2>1. overtaken'[q] = overtaken[q] + 1 /\ overtaken[q] \in Nat
    BY <1>4 DEF Take, TypeOK
  <2>2. ~Empty(q)'
    BY <1>4 DEF Take, Empty, TypeOK
  <2>3. Cardinality(Past(q)') = Cardinality(Past(q)) - 1
    BY <1>1, <1>4, PastIsFinite, FS_RemoveElement
  <2> QED BY <2>1, <2>2, <2>3, PastIsFinite DEF OvertakingInv
<1> QED BY <1>2, <1>3, <1>4

(* Moving on to a select that lets jobs overtake q needs an empty channel. *)
LEMMA MoveOvertaking ==
  ASSUME TypeOK, OvertakingInv, UNCHANGED <<waiting, overtaken>>,
         \A q \in Priorities : Empty(q) \/ Past(q)' \subseteq Past(q)
  PROVE  OvertakingInv'
<1> SUFFICES ASSUME NEW q \in Priorities
             PROVE  /\ Empty(q)' => overtaken'[q] = 0
                    /\ overtaken'[q] + Cardinality(Past(q)') <= Cardinality(Senders)
  BY DEF OvertakingInv
<1>1. Empty(q) => overtaken'[q] = 0
  BY DEF OvertakingInv
<1>2. Empty(q)' <=> Empty(q)
  BY DEF Empty
<1> QED BY <1>1, <1>2, KeepsOvertaking

LEMMA SenderStepOvertaking ==
  ASSUME TypeOK, OvertakingInv, NEW s \in Senders, SenderStep(s)
  PROVE  OvertakingInv'
<1>1. CASE FirstSelect(s)
  <2>1. CASE Take(s, "high")
    BY <2>1, TakeOvertaking DEF Higher, Priorities
  <2>2. CASE Empty("high") /\ FallThrough(s, "second")
    <3>1. Past("normal")' \subseteq Past("normal") /\ Past("low")' \subseteq Past("low")
      BY <2>2 DEF Past, FallThrough, TypeOK
    <3> QED BY <2>2, <3>1, MoveOvertaking DEF FallThrough, Priorities
  <2> QED BY <1>1, <2>1, <2>2 DEF FirstSelect
<1>2. CASE SecondSelect(s)
  <2>1. CASE Take(s, "high")
    BY <2>1, TakeOvertaking DEF Higher, Priorities
  <2>2. CASE Take(s, "normal")
    <3>1. s \in Past("high")
      BY <1>2 DEF SecondSelect, Past
    <3> QED BY <2>2, <3>1, TakeOvertaking DEF Higher, Priorities
  <2>3. CASE Empty("high") /\ Empty("normal") /\ FallThrough(s, "block")
    <3>1. Past("low")' \subseteq Past("low")
      BY DEF Past
    <3> QED BY <2>3, <3>1, MoveOvertaking DEF FallThrough, Priorities
  <2> QED BY <1>2, <2>1, <2>2, <2>3 DEF SecondSelect
<1>3. CASE BlockingSelect(s)
  <2>1. ASSUME NEW pr \in Priorities, Take(s, pr) PROVE OvertakingInv'
    <3>1. s \in Past("high") /\ s \in Past("normal")
      BY <1>3 DEF BlockingSelect, Past
    <3>2. Higher[pr] \subseteq {"high", "normal"}
      BY DEF Higher
    <3> QED BY <2>1, <3>1, <3>2, TakeOvertaking
  <2>2. CASE FallThrough(s, "stopped")
    <3>1. \A q \in Priorities : Past(q)' \subseteq Past(q)
      BY <2>2 DEF Past, FallThrough, TypeOK
    <3> QED BY <2>2, <3>1, MoveOvertaking DEF FallThrough
  <2> QED BY <1>3, <2>1, <2>2 DEF BlockingSelect
<1>4. CASE Process(s) \/ Commit(s)
  <2>1. \A q \in Priorities : Past(q)' \subseteq Past(q)
    BY <1>4 DEF Past, Process, Commit, TypeOK
  <2> QED BY <1>4, <2>1, MoveOvertaking DEF Process, Commit
<1> QED BY <1>1, <1>2, <1>3, <1>4 DEF SenderStep

LEMMA NextOvertaking == TypeOK /\ OvertakingInv /\ [Next]_vars => OvertakingInv'
<1> SUFFICES ASSUME TypeOK, OvertakingInv, [Next]_vars PROVE OvertakingInv'
  OBVIOUS
<1>1. CASE \E s \in Senders : SenderStep(s)
  BY <1>1, SenderStepOvertaking
<1>2. ASSUME NEW pr \in Priorities, HandOver(pr) PROVE OvertakingInv'
  <2> SUFFICES ASSUME NEW q \in Priorities
               PROVE  /\ Empty(q)' => overtaken'[q] = 0
                      /\ overtaken'[q] + Cardinality(Past(q)') <= Cardinality(Senders)
    BY DEF OvertakingInv
  <2>1. Past(q)' = Past(q) /\ overtaken' = overtaken
    BY <1>2 DEF HandOver, senderVars, Past
  <2>2. Empty(q)' => Empty(q)
    BY <1>2 DEF HandOver, Empty, TypeOK
  <2> QED BY <2>1, <2>2, KeepsOvertaking
<1>3. CASE UNCHANGED <<at, waiting, overtaken>>
  <2>1. \A q \in Priorities : Past(q)' \subseteq Past(q)
    BY <1>3 DEF Past
  <2> QED BY <1>3, <2>1, MoveOvertaking
<1>4. ASSUME NEW pr \in Priorities, FetchMessage(pr) \/ FetcherStops(pr)
      PROVE  OvertakingInv'
  BY <1>3, <1>4 DEF FetchMessage, FetcherStops, senderVars
<1>5. CASE Signal \/ RunStep
  BY <1>3, <1>5 DEF Signal, RunStep, CloseReader, Return, senderVars
<1>6. CASE UNCHANGED vars
  BY <1>3, <1>6 DEF vars
<1> QED BY <1>1, <1>2, <1>4, <1>5, <1>6 DEF Next, FetcherStep

-----------------------------------------------------------------------------
(* What next() guarantees in place of strict priority: a waiting job sees  *)
(* at most one job of lower priority taken per sender before one of its    *)
(* own priority is.                                                        *)
THEOREM OvertakingIsBounded == Spec => []OvertakingBounded
<1>1. TypeOK /\ OvertakingInv => OvertakingBounded
  <2> SUFFICES ASSUME TypeOK, OvertakingInv, NEW q \in Priorities
               PROVE  overtaken[q] <= Cardinality(Senders)
    BY DEF OvertakingBounded
  <2>1. overtaken[q] \in Nat
    BY DEF TypeOK
  <2> QED BY <2>1, PastIsFinite DEF OvertakingInv
<1>2. Spec => [](TypeOK /\ OvertakingInv)
  BY InitType, NextType, InitOvertaking, NextOvertaking, PTL DEF Spec
<1> QED BY <1>1, <1>2, PTL
-----------------------------------------------------------------------------
Places == {"first", "second", "block", "work", "commit", "stopped"}

LEMMA ShortIsFinite ==
  ASSUME NEW k
  PROVE  /\ IsFiniteSet(Short(k)) /\ Cardinality(Short(k)) \in Nat
         /\ IsFiniteSet(Short(k)') /\ Cardinality(Short(k)') \in Nat
<1>1. Short(k) \subseteq Senders /\ Short(k)' \subseteq Senders
  BY DEF Short
<1> QED BY <1>1, PoolAssumption, FS_Subset, FS_CardinalityType

LEMMA SenderStepsNat == SenderSteps \in Nat /\ SenderSteps' \in Nat
<1>1. \A k \in 1..5 : Cardinality(Short(k)) \in Nat /\ Cardinality(Short(k)') \in Nat
  BY ShortIsFinite
<1> QED BY <1>1 DEF SenderSteps

(* A sender that moves changes what all have left by its own share.        *)
LEMMA OneSenderMoves ==
  ASSUME TypeOK, NEW s \in Senders, NEW v \in Places, at' = [at EXCEPT ![s] = v]
  PROVE  SenderSteps' = SenderSteps + StepsLeft[v] - StepsLeft[at[s]]
<1> DEFINE old == StepsLeft[at[s]]
           new == StepsLeft[v]
<1>1. /\ at \in [Senders -> Places]
      /\ old \in 0..5 /\ new \in 0..5
  BY DEF TypeOK, Places, StepsLeft
<1>2. \A t \in Senders : at'[t] = IF t = s THEN v ELSE at[t]
  BY <1>1
<1>3. ASSUME NEW k \in 1..5
      PROVE  Cardinality(Short(k)') = Cardinality(Short(k)) + (IF new >= k THEN 1 ELSE 0)
                                                            - (IF old >= k THEN 1 ELSE 0)
  <2>1. /\ \A t \in Senders : t # s => (t \in Short(k)' <=> t \in Short(k))
        /\ s \in Short(k)' <=> new >= k
        /\ s \in Short(k) <=> old >= k
        /\ Short(k) \subseteq Senders /\ Short(k)' \subseteq Senders
    BY <1>2 DEF Short
  <2> HIDE DEF old, new
  <2>2. IsFiniteSet(Short(k)) /\ Cardinality(Short(k)) \in Nat
    BY ShortIsFinite
  <2>3. CASE (new >= k) <=> (old >= k)
    <3>1. Short(k)' = Short(k)
      BY <2>1, <2>3
    <3> QED BY <2>2, <2>3, <3>1
  <2>4. CASE new >= k /\ ~(old >= k)
    <3>1. Short(k)' = Short(k) \cup {s} /\ s \notin Short(k)
      BY <2>1, <2>4
    <3>2. Cardinality(Short(k) \cup {s}) = Cardinality(Short(k)) + 1
      BY <2>2, <3>1, FS_AddElement
    <3> QED BY <2>2, <2>4, <3>1, <3>2
  <2>5. CASE ~(new >= k) /\ old >= k
    <3>1. Short(k)' = Short(k) \ {s} /\ s \in Short(k)
      BY <2>1, <2>5
    <3>2. Cardinality(Short(k) \ {s}) = Cardinality(Short(k)) - 1
      BY <2>2, <3>1, FS_RemoveElement
    <3> QED BY <2>2, <2>5, <3>1, <3>2
  <2> QED BY <2>3, <2>4, <2>5
<1>4. \A k \in 1..5 : Cardinality(Short(k)) \in Nat /\ Cardinality(Short(k)') \in Nat
  BY ShortIsFinite
<1> HIDE DEF old, new
<1>5. /\ new = (IF new >= 1 THEN 1 ELSE 0) + (IF new >= 2 THEN 1 ELSE 0)
               + (IF new >= 3 THEN 1 ELSE 0) + (IF new >= 4 THEN 1 ELSE 0)
               + (IF new >= 5 THEN 1 ELSE 0)
      /\ old = (IF old >= 1 THEN 1 ELSE 0) + (IF old >= 2 THEN 1 ELSE 0)
               + (IF old >= 3 THEN 1 ELSE 0) + (IF old >= 4 THEN 1 ELSE 0)
               + (IF old >= 5 THEN 1 ELSE 0)
  BY <1>1
<1>6. SenderSteps' = SenderSteps + new - old
  BY <1>3, <1>4, <1>5 DEF SenderSteps
<1> QED BY <1>6 DEF old, new

LEMMA TopicStepsNat ==
  ASSUME TypeOK, TypeOK', NEW pr \in Priorities
  PROVE  TopicSteps(pr) \in Nat /\ TopicSteps(pr)' \in Nat
<1>1. /\ unread[pr] \in Nat /\ unread'[pr] \in Nat
      /\ waiting[pr] \in 0..Capacity /\ waiting'[pr] \in 0..Capacity
  BY DEF TypeOK
<1>2. waiting[pr] \in Nat /\ waiting'[pr] \in Nat
  BY <1>1, PoolAssumption
<1> QED BY <1>1, <1>2 DEF TopicSteps

LEMMA OpenIsFinite ==
  ASSUME TypeOK
  PROVE  IsFiniteSet(open) /\ Cardinality(open) \in Nat
<1>1. IsFiniteSet({"high"} \cup {"normal"} \cup {"low"})
  BY FS_Singleton, FS_Union
<1>2. Priorities = {"high"} \cup {"normal"} \cup {"low"}
  BY DEF Priorities
<1> QED BY <1>1, <1>2, FS_Subset, FS_CardinalityType DEF TypeOK

(* A step that works on one topic or moves a sender only has to leave less *)
(* to do between the two.                                                  *)
LEMMA SumAdvances ==
  ASSUME TypeOK, TypeOK', NEW pr \in Priorities,
         \A q \in Priorities \ {pr} : TopicSteps(q)' = TopicSteps(q),
         TopicSteps(pr)' + SenderSteps' < TopicSteps(pr) + SenderSteps,
         open' = open, returned' = returned
  PROVE  Remaining' < Remaining
<1>1. /\ TopicSteps("high") \in Nat /\ TopicSteps("normal") \in Nat /\ TopicSteps("low") \in Nat
      /\ TopicSteps("high")' \in Nat /\ TopicSteps("normal")' \in Nat /\ TopicSteps("low")' \in Nat
  BY TopicStepsNat DEF Priorities
<1>2. Cardinality(open) \in Nat /\ Cardinality(open') = Cardinality(open)
  BY OpenIsFinite
<1>3. Remaining' = TopicSteps("high")' + TopicSteps("normal")' + TopicSteps("low")' + SenderSteps'
                   + Cardinality(open) + (IF returned THEN 0 ELSE 1)
  BY <1>2 DEF Remaining
<1>4. pr \in {"high", "normal", "low"}
  BY DEF Priorities
<1> QED BY <1>1, <1>2, <1>3, <1>4, SenderStepsNat DEF Remaining, Priorities

LEMMA FetcherAdvances ==
  ASSUME TypeOK, TypeOK', NEW pr \in Priorities, FetcherStep(pr)
  PROVE  Remaining' < Remaining
<1>1. /\ unread[pr] \in Nat /\ waiting[pr] \in Nat
      /\ fetcher[pr] \in {"fetch", "send", "stopped"}
  BY PoolAssumption DEF TypeOK
<1>2. /\ SenderSteps' = SenderSteps
      /\ \A q \in Priorities \ {pr} : TopicSteps(q)' = TopicSteps(q)
      /\ open' = open /\ returned' = returned
  <2>1. at' = at /\ open' = open /\ returned' = returned
    BY DEF FetcherStep, FetchMessage, HandOver, FetcherStops, senderVars, runVars
  <2>2. ASSUME NEW q \in Priorities \ {pr}
        PROVE  unread'[q] = unread[q] /\ fetcher'[q] = fetcher[q] /\ waiting'[q] = waiting[q]
    BY DEF FetcherStep, FetchMessage, HandOver, FetcherStops, TypeOK
  <2>3. SenderSteps' = SenderSteps
    BY <2>1 DEF SenderSteps, Short
  <2>4. ASSUME NEW q \in Priorities \ {pr} PROVE TopicSteps(q)' = TopicSteps(q)
    BY <2>2 DEF TopicSteps
  <2> QED BY <2>1, <2>3, <2>4
<1>3. TopicSteps(pr)' < TopicSteps(pr)
  <2>1. CASE FetchMessage(pr)
    <3>1. /\ unread'[pr] = unread[pr] - 1 /\ waiting'[pr] = waiting[pr]
          /\ fetcher[pr] = "fetch" /\ fetcher'[pr] = "send"
      BY <2>1 DEF FetchMessage, TypeOK
    <3> QED BY <1>1, <3>1 DEF TopicSteps
  <2>2. CASE HandOver(pr)
    <3>1. /\ unread'[pr] = unread[pr] /\ waiting'[pr] = waiting[pr] + 1
          /\ fetcher[pr] = "send" /\ fetcher'[pr] = "fetch"
      BY <2>2 DEF HandOver, TypeOK
    <3> QED BY <1>1, <3>1 DEF TopicSteps
  <2>3. CASE FetcherStops(pr)
    <3>1. /\ unread'[pr] = unread[pr] /\ waiting'[pr] = waiting[pr]
          /\ fetcher[pr] \in {"fetch", "send"} /\ fetcher'[pr] = "stopped"
      BY <2>3 DEF FetcherStops, TypeOK
    <3> QED BY <1>1, <3>1 DEF TopicSteps
  <2> QED BY <2>1, <2>2, <2>3 DEF FetcherStep
<1>4. TopicSteps(pr)' + SenderSteps' < TopicSteps(pr) + SenderSteps
  BY <1>2, <1>3, TopicStepsNat, SenderStepsNat
<1> QED BY <1>2, <1>4, SumAdvances

(* A job in hand is five steps at most, which its place in the channel was *)
(* worth; every other step of a sender leads to a place with fewer left.   *)
LEMMA SenderAdvances ==
  ASSUME TypeOK, TypeOK', NEW s \in Senders, SenderStep(s)
  PROVE  Remaining' < Remaining
<1>1. at[s] \in Places
  BY DEF TypeOK, Places
<1>2. ASSUME NEW pr \in Priorities, Take(s, pr), at[s] \in {"first", "second", "block"}
      PROVE  Remaining' < Remaining
  <2>1. /\ waiting[pr] \in Nat /\ unread[pr] \in Nat
        /\ fetcher[pr] \in {"fetch", "send", "stopped"}
    BY PoolAssumption DEF TypeOK
  <2>2. /\ waiting'[pr] = waiting[pr] - 1 /\ unread'[pr] = unread[pr]
        /\ fetcher'[pr] = fetcher[pr]
        /\ \A q \in Priorities \ {pr} : TopicSteps(q)' = TopicSteps(q)
        /\ at' = [at EXCEPT ![s] = "work"]
        /\ open' = open /\ returned' = returned
    BY <1>2 DEF Take, TypeOK, TopicSteps, runVars
  <2>3. TopicSteps(pr)' = TopicSteps(pr) - 5
    BY <2>1, <2>2 DEF TopicSteps
  <2>4. SenderSteps' = SenderSteps + 5 - StepsLeft[at[s]]
    BY <2>2, OneSenderMoves DEF Places, StepsLeft
  <2>5. StepsLeft[at[s]] \in 1..3
    BY <1>2 DEF StepsLeft
  <2>6. TopicSteps(pr)' + SenderSteps' < TopicSteps(pr) + SenderSteps
    BY <2>3, <2>4, <2>5, TopicStepsNat, SenderStepsNat
  <2> QED BY <2>2, <2>6, SumAdvances
<1>3. ASSUME NEW v \in Places, at' = [at EXCEPT ![s] = v],
             StepsLeft[v] < StepsLeft[at[s]],
             UNCHANGED <<unread, fetcher, waiting, runVars>>
      PROVE  Remaining' < Remaining
  <2>1. StepsLeft[v] \in 0..5 /\ StepsLeft[at[s]] \in 0..5
    BY <1>1 DEF StepsLeft, Places
  <2>2. SenderSteps' = SenderSteps + StepsLeft[v] - StepsLeft[at[s]]
    BY <1>3, OneSenderMoves
  <2>3. SenderSteps' < SenderSteps
    BY <1>3, <2>1, <2>2, SenderStepsNat
  <2>4. \A q \in Priorities : TopicSteps(q)' = TopicSteps(q)
    BY <1>3 DEF TopicSteps
  <2>5. TopicSteps("high")' + SenderSteps' < TopicSteps("high") + SenderSteps
    BY <2>3, <2>4, TopicStepsNat, SenderStepsNat DEF Priorities
  <2>6. "high" \in Priorities /\ open' = open /\ returned' = returned
    BY <1>3 DEF Priorities, runVars
  <2> QED BY <2>4, <2>5, <2>6, SumAdvances
<1>4. CASE FirstSelect(s)
  <2>1. CASE Take(s, "high")
    BY <1>2, <1>4, <2>1 DEF FirstSelect, Priorities
  <2>2. CASE FallThrough(s, "second")
    BY <1>3, <1>4, <2>2 DEF FirstSelect, FallThrough, StepsLeft, Places
  <2> QED BY <1>4, <2>1, <2>2 DEF FirstSelect
<1>5. CASE SecondSelect(s)
  <2>1. CASE Take(s, "high") \/ Take(s, "normal")
    BY <1>2, <1>5, <2>1 DEF SecondSelect, Priorities
  <2>2. CASE FallThrough(s, "block")
    BY <1>3, <1>5, <2>2 DEF SecondSelect, FallThrough, StepsLeft, Places
  <2> QED BY <1>5, <2>1, <2>2 DEF SecondSelect
<1>6. CASE BlockingSelect(s)
  <2>1. CASE \E pr \in Priorities : Take(s, pr)
    BY <1>2, <1>6, <2>1 DEF BlockingSelect
  <2>2. CASE FallThrough(s, "stopped")
    BY <1>3, <1>6, <2>2 DEF BlockingSelect, FallThrough, StepsLeft, Places
  <2> QED BY <1>6, <2>1, <2>2 DEF BlockingSelect
<1>7. CASE Process(s)
  <2>1. at[s] = "work" /\ UNCHANGED <<unread, fetcher, waiting, runVars>>
    BY <1>7 DEF Process
  <2>2. PICK v \in {"commit", "first"} : at' = [at EXCEPT ![s] = v]
    BY <1>7 DEF Process
  <2>3. v \in Places /\ StepsLeft[v] < StepsLeft[at[s]]
    BY <2>1 DEF Places, StepsLeft
  <2> QED BY <1>3, <2>1, <2>2, <2>3
<1>8. CASE Commit(s)
  <2>1. /\ at[s] = "commit" /\ at' = [at EXCEPT ![s] = "first"]
        /\ UNCHANGED <<unread, fetcher, waiting, runVars>>
    BY <1>8 DEF Commit
  <2>2. "first" \in Places /\ StepsLeft["first"] < StepsLeft[at[s]]
    BY <2>1 DEF Places, StepsLeft
  <2> QED BY <1>3, <2>1, <2>2
<1> QED BY <1>4, <1>5, <1>6, <1>7, <1>8 DEF SenderStep

LEMMA RunAdvances ==
  ASSUME TypeOK, TypeOK', RunStep
  PROVE  Remaining' < Remaining
<1>1. /\ TopicSteps("high") \in Nat /\ TopicSteps("normal") \in Nat /\ TopicSteps("low") \in Nat
      /\ TopicSteps("high")' = TopicSteps("high") /\ TopicSteps("normal")' = TopicSteps("normal")
      /\ TopicSteps("low")' = TopicSteps("low") /\ SenderSteps' = SenderSteps
  <2>1. /\ UNCHANGED <<unread, fetcher, waiting>>
        /\ at' = at
    BY DEF RunStep, CloseReader, Return, senderVars
  <2>2. SenderSteps' = SenderSteps
    BY <2>1 DEF SenderSteps, Short
  <2>3. \A pr \in Priorities : TopicSteps(pr)' = TopicSteps(pr)
    BY <2>1 DEF TopicSteps
  <2> QED BY <2>2, <2>3, TopicStepsNat DEF Priorities
<1>2. SenderSteps \in Nat /\ IsFiniteSet(open) /\ Cardinality(open) \in Nat
  BY SenderStepsNat, OpenIsFinite
<1>3. CASE \E pr \in Priorities : CloseReader(pr)
  <2>1. PICK pr \in Priorities : CloseReader(pr)
    BY <1>3
  <2>2. Cardinality(open') = Cardinality(open) - 1 /\ returned' = returned
    BY <1>2, <2>1, FS_RemoveElement DEF CloseReader
  <2> QED BY <1>1, <1>2, <2>2 DEF Remaining
<1>4. CASE Return
  <2>1. open' = open /\ ~returned /\ returned'
    BY <1>4 DEF Return
  <2> QED BY <1>1, <1>2, <2>1 DEF Remaining
<1> QED BY <1>3, <1>4 DEF RunStep

(* Once the context is cancelled every step of any goroutine leaves less   *)
(* to do, so Run's wait is over after finitely many, however large the     *)
(* pool, its channels and the backlog are (Run, fetch, next, send).        *)
THEOREM ShutdownAlwaysAdvances == Spec => ShutdownAdvances
<1>1. ASSUME TypeOK, TypeOK', Next, cancelled PROVE Remaining' < Remaining
  <2>1. CASE \E pr \in Priorities : FetcherStep(pr)
    BY <1>1, <2>1, FetcherAdvances
  <2>2. CASE \E s \in Senders : SenderStep(s)
    BY <1>1, <2>2, SenderAdvances
  <2>3. CASE Signal
    BY <1>1, <2>3 DEF Signal
  <2>4. CASE RunStep
    BY <1>1, <2>4, RunAdvances
  <2> QED BY <1>1, <2>1, <2>2, <2>3, <2>4 DEF Next
<1>2. TypeOK /\ TypeOK' /\ [Next]_vars => [cancelled => Remaining' < Remaining]_vars
  BY <1>1
<1> QED BY <1>2, PoolTypeCorrect, PTL DEF Spec, ShutdownAdvances
=============================================================================
