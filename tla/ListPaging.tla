------------------------------ MODULE ListPaging ------------------------------
(***************************************************************************)
(* GET /notifications, the list endpoint: a client asks for page after     *)
(* page of a filtered list, newest first, and every request is a query of  *)
(* its own with LIMIT and OFFSET.  Between two requests rows are committed *)
(* and change their status.                                                *)
(*                                                                         *)
(* created_at is taken by the API before the INSERT, so a row may appear   *)
(* anywhere in the list, not only at its head.                             *)
(***************************************************************************)
EXTENDS Naturals, FiniteSets

CONSTANTS
    Rows,       \* notifications, as places in ORDER BY created_at, id
    CreatedAt,  \* CreatedAt[x]: the same for all rows of a batch
    ChannelOf,  \* ChannelOf[x]
    Filters,    \* filters that clients use, [status, channel, from, to]
    Any,        \* a parameter that is not given
    Limit,      \* rows on a page
    MaxChanges  \* bound on changes of rows in a behaviour

ASSUME ListAssumption ==
    /\ Rows \subseteq Nat
    /\ IsFiniteSet(Rows)
    /\ CreatedAt \in [Rows -> Nat]
    /\ \A x, y \in Rows : x < y => CreatedAt[x] <= CreatedAt[y]
    /\ Limit \in 1..100
    /\ MaxChanges \in Nat

VARIABLES
    status,   \* status[x], "absent" before x is committed
    filter,   \* the filter of the walk
    page,     \* the page that the client asks for next, 0 if there is no walk
    seen,     \* seen[x]: pages of the walk that had row x
    steady,   \* rows that have matched the filter since the walk began
    entered,  \* entered[x]: times that a row before x came to match the filter
    left,     \* left[x]: times that a row before x ceased to match it
    changes   \* changes so far

vars == <<status, filter, page, seen, steady, entered, left, changes>>

NextStatusMisnamed ==  \* wrong variant: a status that the CHECK constraint does not know
    [absent     |-> {"pending", "scheduled"},
     pending    |-> {"queued", "processing", "cancelled"},
     scheduled  |-> {"queued", "cancelled"},
     queued     |-> {"processing", "cancelled", "sent", "failed"},
     processing |-> {"sent", "failed", "queued"},
     sent       |-> {"failed"},
     dead       |-> {"sent"},
     cancelled  |-> {"sent", "failed"}]

(* What the statements of the store do to a row: insert, mark, claim,      *)
(* record, cancel, dispatch and reap.  The record of an outcome has no     *)
(* guard: a sender that has lost its row to the reaper still overwrites    *)
(* whatever has become of it.                                              *)
NextStatus ==
    [absent     |-> {"pending", "scheduled"},
     pending    |-> {"queued", "processing", "cancelled"},
     scheduled  |-> {"queued", "cancelled"},
     queued     |-> {"processing", "cancelled", "sent", "dead"},
     processing |-> {"sent", "dead", "queued"},
     sent       |-> {"dead"},
     dead       |-> {"sent"},
     cancelled  |-> {"sent", "dead"}]

Statuses == {"absent", "pending", "scheduled", "queued", "processing", "sent", "dead", "cancelled"}

TypeOK ==
    /\ status \in [Rows -> Statuses]
    /\ filter \in Filters
    /\ page \in Nat
    /\ seen \in [Rows -> Nat]
    /\ steady \subseteq Rows
    /\ entered \in [Rows -> Nat]
    /\ left \in [Rows -> Nat]
    /\ changes \in 0..MaxChanges

Zero == [x \in Rows |-> 0]

(* The table may hold anything by the time the client comes. *)
Init ==
    /\ status \in [Rows -> Statuses]
    /\ filter \in Filters
    /\ page = 0
    /\ seen = Zero
    /\ steady = {}
    /\ entered = Zero
    /\ left = Zero
    /\ changes = 0

-----------------------------------------------------------------------------
(* The WHERE clause for row x when its status is s. *)
Selects(f, x, s) ==
    /\ s # "absent"
    /\ f.status \in {Any, s}
    /\ f.channel \in {Any, ChannelOf[x]}
    /\ f.from = Any \/ f.from <= CreatedAt[x]
    /\ f.to = Any \/ CreatedAt[x] <= f.to

Matching == {x \in Rows : Selects(filter, x, status[x])}

Counted(count, x, more) ==
    [y \in Rows |-> IF y < x /\ page > 0 /\ more THEN count[y] + 1 ELSE count[y]]

(* A statement on row x takes effect.  Those on several rows are taken one *)
(* row at a time, which only lets the client see more.                     *)
Change(x, s) ==
    LET was == Selects(filter, x, status[x])
        is == Selects(filter, x, s)
    IN  /\ changes < MaxChanges
        /\ changes' = changes + 1
        /\ status' = [status EXCEPT ![x] = s]
        /\ steady' = IF page > 0 /\ ~is THEN steady \ {x} ELSE steady
        /\ entered' = Counted(entered, x, is /\ ~was)
        /\ left' = Counted(left, x, was /\ ~is)
        /\ UNCHANGED <<filter, page, seen>>

Begin(f) ==
    /\ page = 0
    /\ page' = 1
    /\ filter' = f
    /\ seen' = Zero
    /\ steady' = {x \in Rows : Selects(f, x, status[x])}
    /\ entered' = Zero
    /\ left' = Zero
    /\ UNCHANGED <<status, changes>>

-----------------------------------------------------------------------------
OffsetAfterExtra == (page - 1) * (Limit + 1)  \* wrong variant: computed after Limit++

Offset == (page - 1) * Limit

(* Rows that are listed before x. *)
Before(x) == {y \in Matching : y > x}
Ahead(x) == Cardinality(Before(x))

PageUntrimmed ==  \* wrong variant: the page keeps the extra row
    {x \in Matching : Offset <= Ahead(x) /\ Ahead(x) <= Offset + Limit}

Page == {x \in Matching : Offset <= Ahead(x) /\ Ahead(x) < Offset + Limit}

(* The query asks for one row more than the page has. *)
HasMore == \E x \in Matching : Ahead(x) >= Offset + Limit

Fetch ==
    /\ page > 0
    /\ seen' = [x \in Rows |-> IF x \in Page THEN seen[x] + 1 ELSE seen[x]]
    /\ page' = IF HasMore THEN page + 1 ELSE 0
    /\ UNCHANGED <<status, filter, steady, entered, left, changes>>

Next ==
    \/ \E x \in Rows : \E s \in NextStatus[status[x]] : Change(x, s)
    \/ \E f \in Filters : Begin(f)
    \/ Fetch

Spec == Init /\ [][Next]_vars

-----------------------------------------------------------------------------
(* A client that has walked to the last page has seen every notification   *)
(* that was in the list all the time, unless one before it left the list:  *)
(* offsets then skip it.  Without a status filter nothing leaves, and      *)
(* nothing is missed whatever is created (ListNotifications, List).        *)
NothingMissed ==
    page = 0 =>
      \A x \in steady : seen[x] > 0 \/ (filter.status # Any /\ left[x] > 0)

(* A walk shows a notification once, and once more at most for every time  *)
(* that one before it came into the list (ListNotifications, List).        *)
RepeatsNeedArrivals == \A x \in Rows : seen[x] <= 1 + entered[x]
=============================================================================
