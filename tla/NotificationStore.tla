------------------------- MODULE NotificationStore -------------------------
(***************************************************************************)
(* The notifications table and the SQL statements of                       *)
(* internal/storage/repository.go, which is the only code that touches it. *)
(*                                                                         *)
(* Statements are atomic.  PostgreSQL runs them at READ COMMITTED: an      *)
(* UPDATE whose WHERE clause rejects the committed version of a row is     *)
(* done with it at once, even if another transaction holds the row FOR     *)
(* UPDATE, while one that matches a held row waits for the holder.         *)
(***************************************************************************)
EXTENDS Environment

CONSTANT BatchSize  \* LIMIT of the pollers' SELECT

VARIABLES
    row,      \* row[n]: the status column, or "absent" before the INSERT
    overdue,  \* overdue[n]: the age threshold that applies to row n has passed
    locks     \* locks[p]: rows poller p holds FOR UPDATE

storeVars == <<row, overdue, locks>>

ASSUME BatchSizeAssumption == BatchSize \in Nat \ {0}

Status == {"pending", "queued", "processing", "sent", "dead", "scheduled", "cancelled"}
RowState == Status \cup {"absent"}
Terminal == {"sent", "dead", "cancelled"}

(* The status lists of the WHERE clauses, each after the wrong variants    *)
(* that the properties must tell from it.                                  *)
ClaimableTwice == {"queued", "pending", "processing"}
ClaimableQueuedOnly == {"queued"}
Claimable == {"queued", "pending"}
CancellableLate == {"pending", "queued", "scheduled", "processing"}
Cancellable == {"pending", "queued", "scheduled"}
Unfinished == {"pending", "queued", "processing"}

StoreTypeOK ==
    /\ row \in [Notifications -> RowState]
    /\ overdue \in [Notifications -> BOOLEAN]
    /\ locks \in [Pollers -> SUBSET Notifications]

StoreInit ==
    /\ row = [n \in Notifications |-> "absent"]
    /\ overdue = [n \in Notifications |-> FALSE]
    /\ locks = [p \in Pollers |-> {}]

Locked(n) == \E p \in Pollers : n \in locks[p]

SetStatusKeepsAge(ids, status) ==  \* wrong variant: no updated_at = now()
    /\ row' = [n \in Notifications |-> IF n \in ids THEN status ELSE row[n]]
    /\ UNCHANGED overdue

(* Every UPDATE also sets updated_at = now(), so the row is young again. *)
SetStatus(ids, status) ==
    /\ row' = [n \in Notifications |-> IF n \in ids THEN status ELSE row[n]]
    /\ overdue' = [n \in Notifications |-> n \notin ids /\ overdue[n]]

-----------------------------------------------------------------------------
(* INSERT of one request's notifications; the ones in future have a        *)
(* scheduled_at that lies ahead.                                           *)
Insert(ids, future) ==
    /\ \A n \in ids : row[n] = "absent"
    /\ row' = [n \in Notifications |->
                 IF n \notin ids THEN row[n]
                 ELSE IF n \in future THEN "scheduled" ELSE "pending"]
    /\ UNCHANGED <<overdue, locks>>

MarkQueuedUnguarded(ids) ==  \* wrong variant: WHERE id = ANY($1) alone
    /\ \A n \in ids : ~Locked(n)
    /\ SetStatus(ids, "queued")
    /\ UNCHANGED locks

(* The status guard leaves rows alone that moved on in the meantime. *)
MarkQueued(ids) ==
    LET pending == {n \in ids : row[n] = "pending"}
    IN  /\ \A n \in pending : ~Locked(n)
        /\ SetStatus(pending, "queued")
        /\ UNCHANGED locks

(* The worker's claim; claimed is the function's result. *)
MarkProcessing(n, claimed) ==
    /\ claimed = (row[n] \in Claimable)
    /\ \/ /\ claimed
          /\ ~Locked(n)
          /\ SetStatus({n}, "processing")
          /\ UNCHANGED locks
       \/ ~claimed /\ UNCHANGED storeVars

(* No status guard: WHERE id = $1. *)
MarkSent(n) == ~Locked(n) /\ SetStatus({n}, "sent") /\ UNCHANGED locks
MarkDead(n) == ~Locked(n) /\ SetStatus({n}, "dead") /\ UNCHANGED locks

(* The UPDATE of Cancel when it matches; otherwise Cancel only reads. *)
CancelRow(n) ==
    /\ row[n] \in Cancellable
    /\ ~Locked(n)
    /\ SetStatus({n}, "cancelled")
    /\ UNCHANGED locks

-----------------------------------------------------------------------------
(* DispatchDue and ReapStuck are transactions: SELECT ... LIMIT ... FOR    *)
(* UPDATE SKIP LOCKED, the publish callback, UPDATE to 'queued', COMMIT.   *)
(* DueAnyTime and StuckUnclaimed are wrong variants.                       *)
DueAnyTime == {n \in Notifications : row[n] = "scheduled"}
Due == {n \in Notifications : row[n] = "scheduled" /\ overdue[n]}
StuckUnclaimed == {n \in Notifications : row[n] \in {"pending", "queued"} /\ overdue[n]}
Stuck == {n \in Notifications : row[n] \in Unfinished /\ overdue[n]}

SelectSkipLocked(p, candidates) ==
    LET free == {n \in candidates : ~Locked(n)}
    IN  \E ids \in SUBSET free :
          /\ ids # {}
          /\ Cardinality(ids) <= BatchSize
          /\ ids = free \/ Cardinality(ids) = BatchSize
          /\ locks' = [locks EXCEPT ![p] = ids]
          /\ UNCHANGED <<row, overdue>>

CommitQueued(p) ==
    /\ SetStatus(locks[p], "queued")
    /\ locks' = [locks EXCEPT ![p] = {}]

Rollback(p) == locks' = [locks EXCEPT ![p] = {}] /\ UNCHANGED <<row, overdue>>
=============================================================================
