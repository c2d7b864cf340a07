--------------------------- MODULE IdempotentCreate ---------------------------
(***************************************************************************)
(* Concurrent requests that store notifications under idempotency keys:    *)
(* Create and CreateBatch of internal/storage/repository.go against the    *)
(* partial unique index, and the two POST handlers from the validation of  *)
(* the request to its answer.                                              *)
(*                                                                         *)
(* PostgreSQL's INSERT ... ON CONFLICT DO NOTHING sees a committed row of  *)
(* its key and rows of its own transaction; on the uncommitted row of      *)
(* another transaction it waits for that transaction to end.               *)
(***************************************************************************)
EXTENDS Validation, FiniteSets, Sequences

CONSTANTS
    Batches,       \* requests to POST /notifications/batch
    Singles,       \* requests to POST /notifications
    Items,         \* Items[r]: the items in the body of r, see Validation
    MaxBatchSize,  \* items that a batch may have
    NoRow,         \* no row
    MaxFaults      \* bound on failures in a behaviour

Requests == Batches \cup Singles

ASSUME RequestAssumption ==
    /\ IsFiniteSet(Requests)
    /\ Batches \cap Singles = {}
    /\ \A r \in Singles : Len(Items[r]) = 1
    /\ \A r \in Batches : Len(Items[r]) \in Nat
    /\ MaxFaults \in Nat
    /\ MaxBatchSize \in Nat \ {0}

(* No text has more characters than bytes. *)
ASSUME TextAssumption ==
    \A r \in Requests :
      \A i \in 1..Len(Items[r]) :
        LET p == Items[r][i]
        IN  /\ {p.recipient.bytes, p.recipient.chars, p.content.chars} \subseteq Nat
            /\ p.recipient.chars <= p.recipient.bytes

VARIABLES
    table,      \* the rows, committed or not; a row is the item that made it
    committed,  \* requests whose transaction has committed
    at,         \* at[r]: where request r is
    item,       \* item[r]: the next item r inserts
    fresh,      \* fresh[r]: indices of the items r has inserted itself
    answer,     \* answer[r]: answer[r][i] is the row the answer gives for item i
    faults      \* failures so far

vars == <<table, committed, at, item, fresh, answer, faults>>

Index(r) == 1..Len(Items[r])
Row == UNION {[req : {r}, item : Index(r)] : r \in Requests}

(* An empty header is no header; an empty key in a batch item stays one.   *)
KeyOf(r, i) ==
    IF r \in Singles /\ Items[r][i].key = EmptyKey THEN NoKey ELSE Items[r][i].key

Key(row) == KeyOf(row.req, row.item)
Payload(row) == PayloadOf(Items[row.req][row.item])

ASSUME NoRowAssumption == NoRow \notin Row

TypeOK ==
    /\ table \subseteq Row
    /\ committed \subseteq Requests
    /\ at \in [Requests -> {"received", "refused", "insert", "commit", "lookup", "answered",
                            "conflict", "failed"}]
    /\ \A r \in Requests : item[r] \in 1..(Len(Items[r]) + 1)
    /\ \A r \in Requests : fresh[r] \subseteq Index(r)
    /\ \A r \in Requests : answer[r] \in [Index(r) -> Row \cup {NoRow}]
    /\ faults \in 0..MaxFaults

Init ==
    /\ table = {}
    /\ committed = {}
    /\ at = [r \in Requests |-> "received"]
    /\ item = [r \in Requests |-> 1]
    /\ fresh = [r \in Requests |-> {}]
    /\ answer = [r \in Requests |-> [i \in Index(r) |-> NoRow]]
    /\ faults = 0

Fault == faults < MaxFaults /\ faults' = faults + 1

-----------------------------------------------------------------------------
ValidateLast(r) ==  \* wrong variant: the error of one item is lost in the next
    /\ at[r] = "received"
    /\ LET n == Len(Items[r])
       IN  at' = [at EXCEPT ![r] = IF n \in 1..MaxBatchSize /\ Valid(Items[r][n], KeyOf(r, n))
                                   THEN "insert" ELSE "refused"]
    /\ UNCHANGED <<table, committed, item, fresh, answer, faults>>

(* The handler refuses a request of the wrong size or with a broken rule,  *)
(* 400 or 422, before anything is stored.                                  *)
Validate(r) ==
    /\ at[r] = "received"
    /\ at' = [at EXCEPT ![r] =
                 IF /\ Len(Items[r]) \in 1..MaxBatchSize
                    /\ \A i \in Index(r) : Valid(Items[r][i], KeyOf(r, i))
                 THEN "insert" ELSE "refused"]
    /\ UNCHANGED <<table, committed, item, fresh, answer, faults>>

-----------------------------------------------------------------------------
(* The unique index holds the keys of all rows, committed or not. *)
Conflicting(r) ==
    LET k == KeyOf(r, item[r])
    IN  {row \in table : k # NoKey /\ Key(row) = k}

(* Transactions whose end r waits for. *)
Holders(r) ==
    IF at[r] = "insert"
    THEN {row.req : row \in Conflicting(r)} \ (committed \cup {r})
    ELSE {}

Advance(r) ==
    /\ item' = [item EXCEPT ![r] = @ + 1]
    /\ at' = [at EXCEPT ![r] = IF item[r] < Len(Items[r]) THEN "insert" ELSE "commit"]
    /\ UNCHANGED <<committed, answer, faults>>

InsertUnchecked(r) ==  \* wrong variant: looks for committed rows, no unique index
    /\ at[r] = "insert"
    /\ \A row \in Conflicting(r) : row.req \notin committed
    /\ table' = table \cup {[req |-> r, item |-> item[r]]}
    /\ fresh' = [fresh EXCEPT ![r] = @ \cup {item[r]}]
    /\ Advance(r)

InsertOffByOne(r) ==  \* wrong variant: counts the items from 0
    /\ at[r] = "insert"
    /\ Conflicting(r) = {}
    /\ table' = table \cup {[req |-> r, item |-> item[r] - 1]}
    /\ fresh' = [fresh EXCEPT ![r] = @ \cup {item[r] - 1}]
    /\ Advance(r)

InsertFresh(r) ==
    /\ at[r] = "insert"
    /\ Conflicting(r) = {}
    /\ table' = table \cup {[req |-> r, item |-> item[r]]}
    /\ fresh' = [fresh EXCEPT ![r] = @ \cup {item[r]}]
    /\ Advance(r)

InsertImpatient(r) ==  \* wrong variant: takes an uncommitted row for a duplicate
    /\ at[r] = "insert"
    /\ Conflicting(r) # {}
    /\ Advance(r)
    /\ UNCHANGED <<table, fresh>>

DuplicateForgotten(r) ==  \* wrong variant: the answer takes a duplicate for a new row
    /\ at[r] = "insert"
    /\ Conflicting(r) # {}
    /\ Holders(r) = {}
    /\ fresh' = [fresh EXCEPT ![r] = @ \cup {item[r]}]
    /\ Advance(r)
    /\ UNCHANGED table

(* DO NOTHING: the key is taken. *)
InsertDuplicate(r) ==
    /\ at[r] = "insert"
    /\ Conflicting(r) # {}
    /\ Holders(r) = {}
    /\ Advance(r)
    /\ UNCHANGED <<table, fresh>>

-----------------------------------------------------------------------------
(* The transaction of r rolls back and its answer is a 500. *)
RollbackForgotten(r) ==  \* wrong variant: no deferred Rollback, the transaction stays open
    /\ at' = [at EXCEPT ![r] = "failed"]
    /\ UNCHANGED <<table, fresh, committed, item, answer>>

RollbackKeepsRows(r) ==  \* wrong variant: every INSERT commits by itself
    /\ committed' = committed \cup {r}
    /\ at' = [at EXCEPT ![r] = "failed"]
    /\ UNCHANGED <<table, fresh, item, answer>>

Rollback(r) ==
    /\ table' = {row \in table : row.req # r}
    /\ fresh' = [fresh EXCEPT ![r] = {}]
    /\ at' = [at EXCEPT ![r] = "failed"]
    /\ UNCHANGED <<committed, item, answer>>

(* A statement fails, the client goes away or the process dies before the  *)
(* transaction ends.                                                       *)
InsertFails(r) ==
    /\ at[r] \in {"insert", "commit"}
    /\ Fault
    /\ Rollback(r)

(* Transactions that wait for each other in a circle: PostgreSQL's         *)
(* deadlock check aborts one of them.                                      *)
InCircle(r) ==
    LET held == [s \in Requests |-> Holders(s)]
        waiting == {s \in Requests : held[s] # {}}
    IN  r \in waiting /\ \E S \in SUBSET waiting : r \in S /\ S = UNION {held[s] : s \in S}

DeadlockAborts(r) ==
    /\ InCircle(r)
    /\ Rollback(r)
    /\ UNCHANGED faults

-----------------------------------------------------------------------------
(* With no duplicate to look up the request is answered at once. *)
Commit(r) ==
    /\ at[r] = "commit"
    /\ committed' = committed \cup {r}
    /\ answer' = [answer EXCEPT ![r] =
                     [i \in Index(r) |-> IF i \in fresh[r] THEN [req |-> r, item |-> i] ELSE NoRow]]
    /\ at' = [at EXCEPT ![r] = IF fresh[r] = Index(r) THEN "answered" ELSE "lookup"]
    /\ UNCHANGED <<table, item, fresh, faults>>

(* The COMMIT took effect but its reply is lost: the answer is a 500. *)
CommitUncertain(r) ==
    /\ at[r] = "commit"
    /\ Fault
    /\ committed' = committed \cup {r}
    /\ at' = [at EXCEPT ![r] = "failed"]
    /\ UNCHANGED <<table, item, fresh, answer>>

-----------------------------------------------------------------------------
(* The committed row with the key of item i of r. *)
Stored(r, i) ==
    LET found == {row \in table : row.req \in committed /\ Key(row) = KeyOf(r, i)}
    IN  IF found = {} THEN NoRow ELSE CHOOSE row \in found : TRUE

(* getByIdempotencyKey: a single request compares the payload and answers  *)
(* 409 when it differs.                                                    *)
LookupSingle(r) ==
    LET row == Stored(r, 1)
    IN  /\ r \in Singles
        /\ at[r] = "lookup"
        /\ answer' = [answer EXCEPT ![r][1] = row]
        /\ at' = [at EXCEPT ![r] =
                    IF row = NoRow THEN "failed"
                    ELSE IF Payload(row) # PayloadOf(Items[r][1]) THEN "conflict"
                    ELSE "answered"]
        /\ UNCHANGED <<table, committed, item, fresh, faults>>

(* getByIdempotencyKeys: a batch takes what it finds. *)
LookupBatch(r) ==
    /\ r \in Batches
    /\ at[r] = "lookup"
    /\ answer' = [answer EXCEPT ![r] =
                     [i \in Index(r) |-> IF i \in fresh[r] THEN @[i] ELSE Stored(r, i)]]
    /\ at' = [at EXCEPT ![r] = "answered"]
    /\ UNCHANGED <<table, committed, item, fresh, faults>>

(* The rows the request has inserted are committed all the same. *)
LookupFails(r) ==
    /\ at[r] = "lookup"
    /\ Fault
    /\ at' = [at EXCEPT ![r] = "failed"]
    /\ UNCHANGED <<table, committed, item, fresh, answer>>

-----------------------------------------------------------------------------
RequestStep(r) ==
    \/ Validate(r)
    \/ InsertFresh(r) \/ InsertDuplicate(r) \/ DeadlockAborts(r)
    \/ Commit(r) \/ LookupSingle(r) \/ LookupBatch(r)

RequestFails(r) == InsertFails(r) \/ CommitUncertain(r) \/ LookupFails(r)

Open == {r \in Requests : at[r] \in {"received", "insert", "commit", "lookup"}}
Over == Open = {}

Next == \E r \in Requests : RequestStep(r) \/ RequestFails(r)

Spec == Init /\ [][Next]_vars

(* Statements run, waits end with the transaction waited for, and the      *)
(* deadlock check runs after deadlock_timeout.                             *)
FairSpec == Spec /\ \A r \in Requests : WF_vars(RequestStep(r))

-----------------------------------------------------------------------------
Keyed(a) == Key(a) # NoKey

(* The items of successful answers, and the row given for one. *)
Answered == {a \in Row : at[a.req] = "answered"}
Given(a) == answer[a.req][a.item]
CalledNew(a) == a.item \in fresh[a.req]

(* What two answers say of one key agrees: they name the same row, and at  *)
(* most one of them, ever, calls it newly created and publishes it - also  *)
(* for two items of one batch (Create, CreateBatch).                       *)
AnswersAgree ==
    \A a, b \in Answered :
      a # b /\ Keyed(a) /\ Key(a) = Key(b) =>
        Given(a) = Given(b) /\ ~(CalledNew(a) /\ CalledNew(b))

(* Every row an answer names is committed in the table and has the key of  *)
(* its item, so no client holds the id of a notification that was rolled   *)
(* back (CreateBatch looks duplicates up after its commit).                *)
AnswersAreStored ==
    \A a \in Answered :
      /\ Given(a) \in table
      /\ Given(a).req \in committed
      /\ Key(Given(a)) = Key(a)

(* A batch is stored as a whole or not at all: whatever the answer, once   *)
(* a request is committed every item of it has a committed row, its own or *)
(* the one that had the key first (CreateBatch).                           *)
BatchIsAtomic ==
    \A a \in Row :
      a.req \in committed =>
        \/ a \in table
        \/ Keyed(a) /\ Stored(a.req, a.item) # NoRow

(* GET /batches/:id counts the rows that carry the batch's id, by status.  *)
BatchSummary(r) == Cardinality({row \in table : row.req = r /\ r \in committed})

(* The id in a batch's answer leads to exactly the notifications that the  *)
(* answer calls created: none is counted for the batch that another        *)
(* request stored, and a batch of duplicates is a 404 (GetBatch).          *)
SummaryMatchesAnswer ==
    \A r \in Batches : at[r] = "answered" => BatchSummary(r) = Cardinality(fresh[r])

(* Nothing is stored that the documented contract forbids, also when only  *)
(* one item of a batch breaks it; and a request is refused only for its    *)
(* size, for an item that breaks the contract or for one of the rules in   *)
(* which the program is stricter (NewNotification, CreateBatch).           *)
ContractEnforced ==
    /\ \A row \in table :
         \A i \in Index(row.req) : WithinContract(Items[row.req][i])
    /\ \A r \in Requests :
         at[r] = "refused" =>
           \/ Len(Items[r]) \notin 1..MaxBatchSize
           \/ \E i \in Index(r) :
                ~WithinContract(Items[r][i]) \/ BeyondContract(Items[r][i], KeyOf(r, i))

-----------------------------------------------------------------------------
(* The keys as their users see them: who owns a key, and who was told.     *)
KeyedRows == {a \in Row : Keyed(a)}

Owner ==
    [k \in {Key(a) : a \in KeyedRows} |->
       IF \E row \in table : row.req \in committed /\ Key(row) = k
       THEN CHOOSE row \in table : row.req \in committed /\ Key(row) = k
       ELSE NoRow]

Told == [a \in KeyedRows |-> IF at[a.req] = "answered" THEN Given(a) ELSE NoRow]

Registry ==
    INSTANCE KeyRegistry WITH
      Claims <- KeyedRows,
      KeyIn <- [a \in KeyedRows |-> Key(a)],
      By <- [a \in KeyedRows |-> a.req],
      Nobody <- NoRow,
      owner <- Owner,
      told <- Told

(* Transactions, waits, rollbacks and lookups add up to a registry of keys *)
(* that are assigned once, several at a time, and never taken back         *)
(* (Create, CreateBatch, the unique index).                                *)
KeysAreRegistered == Registry!Spec

(* Every request is answered although transactions wait for each other's   *)
(* keys in any order (CreateBatch).                                        *)
EveryRequestAnswered == <>Over

(* r has a step to take by itself: it waits for nobody, or PostgreSQL will *)
(* abort it.                                                               *)
CanMove(r) == r \in Open /\ (Holders(r) = {} \/ InCircle(r))

(* No group of waiting requests is ever stuck: if they wait for nobody     *)
(* outside it that is still running, one of them can go on. So every wait  *)
(* leads to a transaction that can end or to a circle of waits that the    *)
(* deadlock check breaks, whatever the order of the keys and whatever has  *)
(* failed before (CreateBatch and its deferred Rollback).                  *)
NoGroupIsStuck ==
    \A S \in SUBSET {r \in Open : Holders(r) # {}} :
      S # {} /\ (\A r \in S : Holders(r) \cap Open \subseteq S) => \E r \in S : CanMove(r)

-----------------------------------------------------------------------------
(* A key reused with another payload is rejected (README: "reusing a key   *)
(* with a different payload is rejected with 409"; the API contract says   *)
(* so of the header and of the items of a batch).                          *)
ReuseIsRejected ==
    \A a \in Answered : Given(a) # NoRow => Payload(Given(a)) = Payload(a)
=============================================================================
