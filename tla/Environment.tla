---------------------------- MODULE Environment ----------------------------
(***************************************************************************)
(* What the notification pipeline runs on: the notifications of one        *)
(* channel and priority, the processes that publish them, and the budget   *)
(* of things that may go wrong around them.                                *)
(*                                                                         *)
(* Every component module extends this one.  A failed call, a crash, a     *)
(* partition rebalance or an unparseable message is an action that         *)
(* conjoins Fault, so a behaviour holds at most MaxFaults of them; an      *)
(* age threshold that passes although the work it waits for is still under *)
(* way is an action that conjoins Late.  Both bounds only keep TLC's state *)
(* space finite.                                                           *)
(***************************************************************************)
EXTENDS Naturals, FiniteSets, Sequences

CONSTANTS
    Notifications,  \* ids of the rows of one channel and priority
    Handlers,       \* HTTP requests that create notifications
    Schedulers,     \* instances of scheduler.Scheduler
    Reapers,        \* instances of scheduler.Reaper
    MaxFaults,      \* bound on failures in a behaviour
    MaxLate         \* bound on premature age thresholds in a behaviour

VARIABLES
    faults,         \* failures so far
    late            \* premature age thresholds so far

envVars == <<faults, late>>

(* Processes that publish rows inside a database transaction. *)
Pollers == Schedulers \cup Reapers

(* Processes that write to the work topic. *)
Publishers == Handlers \cup Pollers

ASSUME BudgetAssumption == MaxFaults \in Nat /\ MaxLate \in Nat

ASSUME ActorAssumption ==
    /\ Handlers \cap Pollers = {}
    /\ Schedulers \cap Reapers = {}

EnvTypeOK == faults \in 0..MaxFaults /\ late \in 0..MaxLate

EnvInit == faults = 0 /\ late = 0

NoFault == UNCHANGED envVars
Fault == faults < MaxFaults /\ faults' = faults + 1 /\ UNCHANGED late
Late == late < MaxLate /\ late' = late + 1 /\ UNCHANGED faults
=============================================================================
