------------------------ MODULE IdempotentCreate_proofs ------------------------
(***************************************************************************)
(* The guarantees of idempotent creation for any requests, items and keys. *)
(***************************************************************************)
EXTENDS IdempotentCreate, FiniteSetTheorems, TLAPS

Mine(r, i) == [req |-> r, item |-> i]

Stages ==
    {"received", "refused", "insert", "commit", "lookup", "answered", "conflict", "failed"}

(* What TypeOK leaves open about the shape of the functions. *)
Shapes ==
    /\ at \in [Requests -> Stages]
    /\ item \in [Requests -> Nat]
    /\ fresh \in [Requests -> SUBSET Nat]
    /\ answer = [r \in Requests |-> answer[r]]

TypeOf(r) ==
    /\ item[r] \in 1..(Len(Items[r]) + 1)
    /\ fresh[r] \subseteq Index(r)
    /\ answer[r] \in [Index(r) -> Row \cup {NoRow}]

(* The partial unique index. *)
KeysUnique == \A x, y \in table : Key(x) # NoKey /\ Key(x) = Key(y) => x = y

(* A request remembers exactly the rows it has in the table. *)
FreshIsMine(r) == \A i \in Index(r) : i \in fresh[r] <=> Mine(r, i) \in table

(* How far a request is, and whether its transaction has committed. *)
Progress(r) ==
    /\ at[r] \in {"received", "refused"} => item[r] = 1 /\ r \notin committed
    /\ at[r] = "insert" => item[r] \in Index(r)
    /\ at[r] = "commit" => item[r] = Len(Items[r]) + 1
    /\ at[r] \in {"insert", "commit"} => r \notin committed
    /\ at[r] \in {"lookup", "answered", "conflict"} => r \in committed
    /\ r \in committed => item[r] = Len(Items[r]) + 1
    /\ \A i \in fresh[r] : i < item[r]
    /\ at[r] = "lookup" => fresh[r] # Index(r)

(* Row x settles item i of r: it has its key and is there to stay, or is   *)
(* in the same transaction.                                                *)
Covers(x, r, i) ==
    /\ KeyOf(r, i) # NoKey
    /\ Key(x) = KeyOf(r, i)
    /\ x.req \in committed \cup {r}

(* An item that was not inserted was a duplicate. *)
DuplicatesCovered(r) ==
    at[r] # "failed" \/ r \in committed =>
      \A i \in Index(r) :
        i < item[r] /\ i \notin fresh[r] => \E x \in table : Covers(x, r, i)

AnswerRight(r) ==
    \A i \in Index(r) :
      /\ at[r] \in {"lookup", "answered"} /\ i \in fresh[r] => answer[r][i] = Mine(r, i)
      /\ at[r] = "answered" =>
           /\ answer[r][i] \in table
           /\ answer[r][i].req \in committed
           /\ Key(answer[r][i]) = KeyOf(r, i)

RequestInv(r) ==
    TypeOf(r) /\ FreshIsMine(r) /\ Progress(r) /\ DuplicatesCovered(r) /\ AnswerRight(r)

CreateInv ==
    /\ Shapes /\ table \subseteq Row /\ committed \subseteq Requests /\ faults \in 0..MaxFaults
    /\ KeysUnique
    /\ \A r \in Requests : RequestInv(r)

-----------------------------------------------------------------------------
LEMMA RowShape ==
  ASSUME NEW x \in Row
  PROVE  x.req \in Requests /\ x.item \in Index(x.req) /\ x = Mine(x.req, x.item)
BY DEF Row, Mine

LEMMA MineIsRow ==
  ASSUME NEW r \in Requests, NEW i \in Index(r)
  PROVE  /\ Mine(r, i) \in Row /\ Mine(r, i).req = r /\ Mine(r, i).item = i
         /\ Key(Mine(r, i)) = KeyOf(r, i)
BY DEF Row, Mine, Key

LEMMA LengthIsNat == ASSUME NEW r \in Requests PROVE Len(Items[r]) \in Nat
BY RequestAssumption DEF Requests

LEMMA FaultType == ASSUME CreateInv, Fault PROVE faults' \in 0..MaxFaults
BY RequestAssumption DEF Fault, CreateInv

LEMMA InitCreateInv == Init => CreateInv
<1> SUFFICES ASSUME Init PROVE CreateInv
  OBVIOUS
<1>1. Shapes
  BY DEF Init, Shapes, Stages
<1>2. ASSUME NEW r \in Requests PROVE RequestInv(r)
  <2>1. Len(Items[r]) \in Nat
    BY LengthIsNat
  <2>2. /\ at[r] = "received" /\ item[r] = 1 /\ fresh[r] = {}
        /\ answer[r] = [i \in Index(r) |-> NoRow]
        /\ table = {} /\ committed = {}
    BY DEF Init
  <2>3. TypeOf(r) /\ Progress(r)
    BY <2>1, <2>2 DEF TypeOf, Progress, Index
  <2> QED BY <2>1, <2>2, <2>3
          DEF RequestInv, FreshIsMine, DuplicatesCovered, AnswerRight, Index
<1> QED BY <1>1, <1>2, RequestAssumption DEF Init, CreateInv, KeysUnique

(* A step of request r disturbs no other request: it removes only rows of  *)
(* its own transaction, and those only before it commits.                  *)
LEMMA StepOfOne ==
  ASSUME CreateInv, NEW r \in Requests,
         Shapes', table' \subseteq Row, faults' \in 0..MaxFaults,
         committed' = committed \/ committed' = committed \cup {r},
         \A t \in Requests \ {r} :
           at'[t] = at[t] /\ item'[t] = item[t] /\ fresh'[t] = fresh[t] /\ answer'[t] = answer[t],
         \A x \in table \ table' : x.req = r /\ r \notin committed,
         \A x \in table' \ table : x.req = r,
         KeysUnique', RequestInv(r)'
  PROVE  CreateInv'
<1> SUFFICES ASSUME NEW t \in Requests \ {r} PROVE RequestInv(t)'
  BY DEF CreateInv
<1>1. /\ RequestInv(t) /\ table \subseteq Row
      /\ at'[t] = at[t] /\ item'[t] = item[t] /\ fresh'[t] = fresh[t] /\ answer'[t] = answer[t]
      /\ t \in committed' <=> t \in committed
  BY DEF CreateInv
<1>2. TypeOf(t)' /\ Progress(t)'
  BY <1>1 DEF RequestInv, TypeOf, Progress
<1>3. FreshIsMine(t)'
  BY <1>1, MineIsRow DEF RequestInv, FreshIsMine
<1>4. DuplicatesCovered(t)'
  <2> SUFFICES ASSUME at'[t] # "failed" \/ t \in committed', NEW i \in Index(t),
                      i < item'[t], i \notin fresh'[t]
               PROVE  \E x \in table' : Covers(x, t, i)'
    BY DEF DuplicatesCovered
  <2>1. PICK x \in table : Covers(x, t, i)
    BY <1>1 DEF RequestInv, DuplicatesCovered
  <2>2. x \in table' /\ Covers(x, t, i)'
    BY <2>1 DEF Covers
  <2> QED BY <2>2
<1>5. AnswerRight(t)'
  <2>1. \A x \in table : x.req \in committed => x \in table' /\ x.req \in committed'
    OBVIOUS
  <2> QED BY <1>1, <2>1 DEF RequestInv, AnswerRight
<1> QED BY <1>2, <1>3, <1>4, <1>5 DEF RequestInv

-----------------------------------------------------------------------------
LEMMA ValidateStep ==
  ASSUME CreateInv, NEW r \in Requests, Validate(r)
  PROVE  CreateInv'
<1>1. /\ at[r] = "received" /\ UNCHANGED <<table, committed, item, fresh, answer, faults>>
      /\ at' = [at EXCEPT ![r] = at'[r]] /\ at'[r] \in {"insert", "refused"}
      /\ at'[r] = "insert" => Len(Items[r]) \in 1..MaxBatchSize
  BY DEF Validate, CreateInv, Shapes
<1>2. /\ RequestInv(r) /\ Shapes /\ KeysUnique /\ table \subseteq Row /\ faults \in 0..MaxFaults
      /\ item[r] = 1 /\ r \notin committed
  BY <1>1 DEF CreateInv, RequestInv, Progress
<1>3. Shapes'
  BY <1>1, <1>2 DEF Shapes, Stages
<1>4. TypeOf(r)' /\ FreshIsMine(r)' /\ AnswerRight(r)' /\ DuplicatesCovered(r)'
  BY <1>1, <1>2, LengthIsNat
     DEF RequestInv, TypeOf, FreshIsMine, AnswerRight, DuplicatesCovered, Index
<1>5. Progress(r)'
  <2>1. at'[r] = "insert" => item[r] \in Index(r)
    BY <1>1, <1>2, RequestAssumption DEF Index
  <2> QED BY <1>1, <1>2, <2>1 DEF RequestInv, Progress
<1>6. \A t \in Requests \ {r} : at'[t] = at[t]
  BY <1>1, <1>2 DEF Shapes
<1>7. KeysUnique' /\ RequestInv(r)'
  BY <1>1, <1>2, <1>4, <1>5 DEF KeysUnique, Key, RequestInv
<1> QED BY <1>1, <1>2, <1>3, <1>6, <1>7, StepOfOne

-----------------------------------------------------------------------------
LEMMA AdvanceShapes ==
  ASSUME CreateInv, NEW r \in Requests, at[r] = "insert", Advance(r)
  PROVE  /\ item' = [item EXCEPT ![r] = item[r] + 1] /\ item' \in [Requests -> Nat]
         /\ at' \in [Requests -> Stages] /\ at'[r] \in {"insert", "commit"}
         /\ \A t \in Requests \ {r} : at'[t] = at[t] /\ item'[t] = item[t]
         /\ UNCHANGED <<committed, answer, faults>>
         /\ item[r] \in Index(r) /\ item'[r] = item[r] + 1
         /\ item'[r] \in 1..(Len(Items[r]) + 1)
         /\ at'[r] = "insert" => item'[r] \in Index(r)
         /\ at'[r] = "commit" => item'[r] = Len(Items[r]) + 1
         /\ r \notin committed
<1>1. /\ Len(Items[r]) \in Nat /\ item \in [Requests -> Nat] /\ at \in [Requests -> Stages]
      /\ item[r] \in Index(r) /\ r \notin committed
  BY LengthIsNat DEF CreateInv, Shapes, RequestInv, Progress
<1> QED BY <1>1 DEF Advance, Index, Stages

LEMMA InsertFreshStep ==
  ASSUME CreateInv, NEW r \in Requests, InsertFresh(r)
  PROVE  CreateInv'
<1> DEFINE i == item[r]
           me == Mine(r, i)
<1>1. /\ at[r] = "insert" /\ Conflicting(r) = {}
      /\ table' = table \cup {me} /\ fresh' = [fresh EXCEPT ![r] = @ \cup {i}] /\ Advance(r)
  BY DEF InsertFresh, Mine
<1>2. /\ i \in Index(r) /\ item'[r] = i + 1 /\ i \in Nat
      /\ at'[r] \in {"insert", "commit"} /\ r \notin committed
      /\ UNCHANGED <<committed, answer, faults>>
  BY <1>1, AdvanceShapes DEF Index
<1>3. /\ RequestInv(r) /\ Shapes /\ table \subseteq Row /\ KeysUnique
  BY DEF CreateInv
<1>4. /\ me \in Row /\ me.req = r /\ me.item = i /\ Key(me) = KeyOf(r, i)
      /\ fresh'[r] = fresh[r] \cup {i}
      /\ \A t \in Requests \ {r} : fresh'[t] = fresh[t]
      /\ fresh' \in [Requests -> SUBSET Nat]
  BY <1>1, <1>2, <1>3, MineIsRow DEF Shapes
<1>5. KeysUnique'
  <2>1. \A x \in table : ~(Key(me) # NoKey /\ Key(x) = Key(me))
    BY <1>1, <1>4 DEF Conflicting
  <2> QED BY <1>1, <1>3, <2>1 DEF KeysUnique, Key
<1>6. Shapes'
  BY <1>1, <1>2, <1>3, <1>4, AdvanceShapes DEF Shapes
<1>7. TypeOf(r)'
  BY <1>1, <1>2, <1>3, <1>4, AdvanceShapes DEF RequestInv, TypeOf
<1>8. FreshIsMine(r)'
  <2>1. \A j \in Index(r) : Mine(r, j) = me <=> j = i
    BY DEF Mine
  <2> QED BY <1>1, <1>3, <1>4, <2>1 DEF RequestInv, FreshIsMine
<1>9. Progress(r)'
  <2>1. \A j \in fresh'[r] : j < item'[r]
    <3>1. \A j \in fresh[r] : j < i /\ j \in Nat
      BY <1>3 DEF RequestInv, Progress, TypeOf, Index
    <3> QED BY <1>2, <1>4, <3>1
  <2> QED BY <1>1, <1>2, <2>1, AdvanceShapes DEF Progress
<1>10. DuplicatesCovered(r)'
  <2> SUFFICES ASSUME NEW j \in Index(r), j < item'[r], j \notin fresh'[r]
               PROVE  \E x \in table' : Covers(x, r, j)'
    BY DEF DuplicatesCovered
  <2>1. j < i /\ j \notin fresh[r]
    BY <1>2, <1>4 DEF Index
  <2>2. PICK x \in table : Covers(x, r, j)
    BY <1>1, <1>3, <2>1 DEF RequestInv, DuplicatesCovered
  <2> QED BY <1>1, <1>2, <2>2 DEF Covers
<1>11. AnswerRight(r)'
  BY <1>2 DEF AnswerRight
<1> QED
  <2>1. RequestInv(r)'
    BY <1>7, <1>8, <1>9, <1>10, <1>11 DEF RequestInv
  <2>2. \A t \in Requests \ {r} : at'[t] = at[t] /\ item'[t] = item[t] /\ answer'[t] = answer[t]
    BY <1>1, <1>2, AdvanceShapes
  <2>3. faults' \in 0..MaxFaults
    BY <1>2 DEF CreateInv
  <2> QED BY <1>1, <1>2, <1>3, <1>4, <1>5, <1>6, <2>1, <2>2, <2>3, StepOfOne

LEMMA InsertDuplicateStep ==
  ASSUME CreateInv, NEW r \in Requests, InsertDuplicate(r)
  PROVE  CreateInv'
<1> DEFINE i == item[r]
<1>1. /\ at[r] = "insert" /\ Conflicting(r) # {} /\ Holders(r) = {}
      /\ UNCHANGED <<table, fresh>> /\ Advance(r)
  BY DEF InsertDuplicate
<1>2. /\ i \in Index(r) /\ item'[r] = i + 1 /\ i \in Nat
      /\ at'[r] \in {"insert", "commit"} /\ r \notin committed
      /\ UNCHANGED <<committed, answer, faults>>
  BY <1>1, AdvanceShapes DEF Index
<1>3. /\ RequestInv(r) /\ Shapes /\ table \subseteq Row /\ KeysUnique
  BY DEF CreateInv
<1>4. \E x \in table : Covers(x, r, i)
  <2>1. PICK x \in table : KeyOf(r, i) # NoKey /\ Key(x) = KeyOf(r, i) /\ x \in Conflicting(r)
    BY <1>1 DEF Conflicting
  <2>2. x.req \in committed \cup {r}
    BY <1>1, <2>1 DEF Holders
  <2> QED BY <2>1, <2>2 DEF Covers
<1>5. KeysUnique'
  BY <1>1, <1>3 DEF KeysUnique, Key
<1>6. Shapes'
  BY <1>1, <1>2, <1>3, AdvanceShapes DEF Shapes
<1>7. TypeOf(r)' /\ FreshIsMine(r)'
  BY <1>1, <1>2, <1>3, AdvanceShapes DEF RequestInv, TypeOf, FreshIsMine
<1>9. Progress(r)'
  <2>1. \A j \in fresh'[r] : j < item'[r]
    <3>1. \A j \in fresh[r] : j < i /\ j \in Nat
      BY <1>3 DEF RequestInv, Progress, TypeOf, Index
    <3> QED BY <1>1, <1>2, <3>1
  <2> QED BY <1>1, <1>2, <2>1, AdvanceShapes DEF Progress
<1>10. DuplicatesCovered(r)'
  <2> SUFFICES ASSUME NEW j \in Index(r), j < item'[r], j \notin fresh'[r]
               PROVE  \E x \in table' : Covers(x, r, j)'
    BY DEF DuplicatesCovered
  <2>1. j = i \/ (j < i /\ j \notin fresh[r])
    BY <1>1, <1>2 DEF Index
  <2>2. PICK x \in table : Covers(x, r, j)
    BY <1>1, <1>3, <1>4, <2>1 DEF RequestInv, DuplicatesCovered
  <2> QED BY <1>1, <1>2, <2>2 DEF Covers
<1>11. AnswerRight(r)'
  BY <1>2 DEF AnswerRight
<1> QED
  <2>1. RequestInv(r)'
    BY <1>7, <1>9, <1>10, <1>11 DEF RequestInv
  <2>2. \A t \in Requests \ {r} : at'[t] = at[t] /\ item'[t] = item[t] /\ answer'[t] = answer[t]
    BY <1>1, <1>2, AdvanceShapes
  <2>3. faults' \in 0..MaxFaults
    BY <1>2 DEF CreateInv
  <2> QED BY <1>1, <1>2, <1>3, <1>5, <1>6, <2>1, <2>2, <2>3, StepOfOne
-----------------------------------------------------------------------------
LEMMA RollbackStep ==
  ASSUME CreateInv, NEW r \in Requests, at[r] \in {"insert", "commit"}, Rollback(r),
         faults' \in 0..MaxFaults
  PROVE  CreateInv'
<1>1. /\ RequestInv(r) /\ Shapes /\ table \subseteq Row /\ KeysUnique /\ r \notin committed
  BY DEF CreateInv, RequestInv, Progress
<1>2. /\ table' = {x \in table : x.req # r} /\ fresh' = [fresh EXCEPT ![r] = {}]
      /\ at' = [at EXCEPT ![r] = "failed"] /\ UNCHANGED <<committed, item, answer>>
  BY DEF Rollback
<1>3. /\ Shapes' /\ at'[r] = "failed" /\ fresh'[r] = {}
      /\ \A t \in Requests \ {r} : at'[t] = at[t] /\ fresh'[t] = fresh[t]
  BY <1>1, <1>2 DEF Shapes, Stages
<1>4. KeysUnique'
  BY <1>1, <1>2 DEF KeysUnique, Key
<1>5. TypeOf(r)' /\ Progress(r)' /\ DuplicatesCovered(r)' /\ AnswerRight(r)'
  BY <1>1, <1>2, <1>3
     DEF RequestInv, TypeOf, Progress, DuplicatesCovered, AnswerRight
<1>6. FreshIsMine(r)'
  BY <1>2, <1>3 DEF FreshIsMine, Mine
<1>7. RequestInv(r)'
  BY <1>5, <1>6 DEF RequestInv
<1> QED BY <1>1, <1>2, <1>3, <1>4, <1>7, StepOfOne

(* Steps after the last INSERT: the table and the requests' own rows stay. *)
LEMMA LaterStep ==
  ASSUME CreateInv, NEW r \in Requests, UNCHANGED <<table, item, fresh>>,
         faults' \in 0..MaxFaults, item[r] = Len(Items[r]) + 1,
         committed' = committed \cup {r},
         NEW stage \in {"lookup", "answered", "conflict", "failed"},
         at' = [at EXCEPT ![r] = stage],
         NEW rows \in [Index(r) -> Row \cup {NoRow}],
         answer' = [answer EXCEPT ![r] = rows],
         stage = "lookup" => fresh[r] # Index(r),
         DuplicatesCovered(r),
         at[r] # "failed",
         \A i \in Index(r) :
           /\ stage \in {"lookup", "answered"} /\ i \in fresh[r] => rows[i] = Mine(r, i)
           /\ stage = "answered" =>
                /\ rows[i] \in table
                /\ rows[i].req \in committed \cup {r}
                /\ Key(rows[i]) = KeyOf(r, i)
  PROVE  CreateInv'
<1>1. /\ RequestInv(r) /\ Shapes /\ table \subseteq Row /\ KeysUnique
  BY DEF CreateInv
<1>2. /\ Shapes' /\ at'[r] = stage /\ answer'[r] = rows
      /\ \A t \in Requests \ {r} : at'[t] = at[t] /\ answer'[t] = answer[t]
  BY <1>1 DEF Shapes, Stages
<1>3. KeysUnique'
  BY <1>1 DEF KeysUnique, Key
<1>4. TypeOf(r)' /\ FreshIsMine(r)' /\ Progress(r)'
  BY <1>1, <1>2 DEF RequestInv, TypeOf, FreshIsMine, Progress
<1>5. DuplicatesCovered(r)'
  BY DEF DuplicatesCovered, Covers, Key
<1>6. AnswerRight(r)'
  BY <1>2 DEF AnswerRight, Key
<1>7. RequestInv(r)'
  BY <1>4, <1>5, <1>6 DEF RequestInv
<1> QED BY <1>1, <1>2, <1>3, <1>7, StepOfOne

(* What the lookup of item i finds, once r is committed. *)
LEMMA StoredRow ==
  ASSUME CreateInv, NEW r \in Requests, NEW i \in Index(r)
  PROVE  /\ Stored(r, i) \in Row \cup {NoRow}
         /\ Stored(r, i) # NoRow =>
              /\ Stored(r, i) \in table
              /\ Stored(r, i).req \in committed
              /\ Key(Stored(r, i)) = KeyOf(r, i)
         /\ (\E x \in table : x.req \in committed /\ Key(x) = KeyOf(r, i))
              => Stored(r, i) # NoRow
<1> DEFINE found == {x \in table : x.req \in committed /\ Key(x) = KeyOf(r, i)}
<1>1. table \subseteq Row
  BY DEF CreateInv
<1>2. CASE found = {}
  BY <1>2 DEF Stored
<1>3. CASE found # {}
  <2>1. Stored(r, i) \in found
    BY <1>3 DEF Stored
  <2>2. Stored(r, i) # NoRow
    BY <1>1, <2>1, NoRowAssumption
  <2> QED BY <1>1, <2>1, <2>2
<1> QED BY <1>2, <1>3

LEMMA CommitStep ==
  ASSUME CreateInv, NEW r \in Requests, Commit(r)
  PROVE  CreateInv'
<1> DEFINE rows == [i \in Index(r) |-> IF i \in fresh[r] THEN Mine(r, i) ELSE NoRow]
           stage == IF fresh[r] = Index(r) THEN "answered" ELSE "lookup"
<1>1. /\ at[r] = "commit" /\ committed' = committed \cup {r}
      /\ answer' = [answer EXCEPT ![r] = rows] /\ at' = [at EXCEPT ![r] = stage]
      /\ UNCHANGED <<table, item, fresh, faults>>
  BY DEF Commit, Mine
<1>2. RequestInv(r) /\ item[r] = Len(Items[r]) + 1 /\ faults' \in 0..MaxFaults
  BY <1>1 DEF CreateInv, RequestInv, Progress
<1>3. rows \in [Index(r) -> Row \cup {NoRow}]
  BY MineIsRow
<1>4. \A i \in Index(r) : i \in fresh[r] => rows[i] = Mine(r, i) /\ Mine(r, i) \in table
  BY <1>2 DEF RequestInv, FreshIsMine
<1>5. \A i \in Index(r) :
        stage = "answered" => /\ rows[i] \in table
                              /\ rows[i].req \in committed \cup {r}
                              /\ Key(rows[i]) = KeyOf(r, i)
  BY <1>4, MineIsRow
<1>6. stage \in {"lookup", "answered", "conflict", "failed"} /\ (stage = "lookup" => fresh[r] # Index(r))
  OBVIOUS
<1>7. DuplicatesCovered(r)
  BY <1>2 DEF RequestInv
<1> HIDE DEF rows, stage
<1> QED BY <1>1, <1>2, <1>3, <1>4, <1>5, <1>6, <1>7, LaterStep

LEMMA CommitUncertainStep ==
  ASSUME CreateInv, NEW r \in Requests, CommitUncertain(r)
  PROVE  CreateInv'
<1>1. /\ at[r] = "commit" /\ committed' = committed \cup {r}
      /\ at' = [at EXCEPT ![r] = "failed"] /\ UNCHANGED <<table, item, fresh, answer>>
      /\ faults' \in 0..MaxFaults
  BY FaultType DEF CommitUncertain
<1>2. /\ RequestInv(r) /\ Shapes /\ item[r] = Len(Items[r]) + 1
      /\ answer[r] \in [Index(r) -> Row \cup {NoRow}] /\ DuplicatesCovered(r)
  BY <1>1 DEF CreateInv, RequestInv, Progress, TypeOf
<1>3. answer' = [answer EXCEPT ![r] = answer[r]]
  BY <1>1, <1>2 DEF Shapes
<1> QED BY <1>1, <1>2, <1>3, LaterStep

LEMMA LookupSingleStep ==
  ASSUME CreateInv, NEW r \in Requests, LookupSingle(r)
  PROVE  CreateInv'
<1> DEFINE row == Stored(r, 1)
           rows == [answer[r] EXCEPT ![1] = row]
           stage == IF row = NoRow THEN "failed"
                    ELSE IF Payload(row) # PayloadOf(Items[r][1]) THEN "conflict" ELSE "answered"
<1>1. /\ r \in Singles /\ at[r] = "lookup" /\ answer' = [answer EXCEPT ![r] = rows]
      /\ at' = [at EXCEPT ![r] = stage]
      /\ UNCHANGED <<table, committed, item, fresh, faults>>
  BY DEF LookupSingle
<1>2. /\ RequestInv(r) /\ r \in committed /\ item[r] = Len(Items[r]) + 1
      /\ faults' \in 0..MaxFaults /\ fresh[r] # Index(r)
      /\ answer[r] \in [Index(r) -> Row \cup {NoRow}] /\ fresh[r] \subseteq Index(r)
      /\ DuplicatesCovered(r)
  BY <1>1 DEF CreateInv, RequestInv, Progress, TypeOf
<1>3. Index(r) = {1} /\ fresh[r] = {}
  <2>1. Len(Items[r]) = 1
    BY <1>1, RequestAssumption
  <2> QED BY <1>2, <2>1 DEF Index
<1>4. /\ row \in Row \cup {NoRow}
      /\ row # NoRow => row \in table /\ row.req \in committed /\ Key(row) = KeyOf(r, 1)
  BY <1>3, StoredRow
<1>5. rows \in [Index(r) -> Row \cup {NoRow}] /\ rows[1] = row
  BY <1>2, <1>3, <1>4
<1>6. \A i \in Index(r) :
        /\ i \notin fresh[r]
        /\ stage = "answered" => /\ rows[i] \in table
                                 /\ rows[i].req \in committed \cup {r}
                                 /\ Key(rows[i]) = KeyOf(r, i)
  BY <1>3, <1>4, <1>5
<1>7. stage \in {"conflict", "failed", "answered"} /\ committed' = committed \cup {r}
  BY <1>1, <1>2
<1> HIDE DEF rows, stage, row
<1> QED BY <1>1, <1>2, <1>5, <1>6, <1>7, LaterStep

LEMMA LookupBatchStep ==
  ASSUME CreateInv, NEW r \in Requests, LookupBatch(r)
  PROVE  CreateInv'
<1> DEFINE rows == [i \in Index(r) |-> IF i \in fresh[r] THEN answer[r][i] ELSE Stored(r, i)]
<1>1. /\ at[r] = "lookup" /\ at' = [at EXCEPT ![r] = "answered"]
      /\ UNCHANGED <<table, committed, item, fresh, faults>>
  BY DEF LookupBatch
<1>2. /\ RequestInv(r) /\ Shapes /\ r \in committed /\ item[r] = Len(Items[r]) + 1
      /\ faults' \in 0..MaxFaults /\ DuplicatesCovered(r)
      /\ answer[r] \in [Index(r) -> Row \cup {NoRow}]
  BY <1>1 DEF CreateInv, RequestInv, Progress, TypeOf
<1>3. answer' = [answer EXCEPT ![r] = rows]
  BY <1>2 DEF LookupBatch, Shapes
<1>4. rows \in [Index(r) -> Row \cup {NoRow}]
  BY <1>2, StoredRow
<1>5. ASSUME NEW i \in Index(r)
      PROVE  /\ i \in fresh[r] => rows[i] = Mine(r, i)
             /\ rows[i] \in table
             /\ rows[i].req \in committed \cup {r}
             /\ Key(rows[i]) = KeyOf(r, i)
  <2>1. CASE i \in fresh[r]
    <3>1. answer[r][i] = Mine(r, i) /\ Mine(r, i) \in table
      BY <1>1, <1>2, <2>1 DEF RequestInv, AnswerRight, FreshIsMine
    <3> QED BY <2>1, <3>1, MineIsRow
  <2>2. CASE i \notin fresh[r]
    <3>1. i < item[r]
      BY <1>2, LengthIsNat DEF Index
    <3>2. PICK x \in table : Covers(x, r, i)
      BY <1>1, <1>2, <2>2, <3>1 DEF DuplicatesCovered
    <3>3. x.req \in committed /\ Key(x) = KeyOf(r, i)
      BY <1>2, <3>2 DEF Covers
    <3>4. Stored(r, i) # NoRow
      BY <3>3, StoredRow
    <3> QED BY <2>2, <3>4, StoredRow
  <2> QED BY <2>1, <2>2
<1>6. committed' = committed \cup {r}
  BY <1>1, <1>2
<1> HIDE DEF rows
<1> QED BY <1>1, <1>2, <1>3, <1>4, <1>5, <1>6, LaterStep

LEMMA LookupFailsStep ==
  ASSUME CreateInv, NEW r \in Requests, LookupFails(r)
  PROVE  CreateInv'
<1>1. /\ at[r] = "lookup" /\ at' = [at EXCEPT ![r] = "failed"]
      /\ UNCHANGED <<table, committed, item, fresh, answer>> /\ faults' \in 0..MaxFaults
  BY FaultType DEF LookupFails
<1>2. /\ RequestInv(r) /\ Shapes /\ r \in committed /\ item[r] = Len(Items[r]) + 1
      /\ answer[r] \in [Index(r) -> Row \cup {NoRow}] /\ DuplicatesCovered(r)
  BY <1>1 DEF CreateInv, RequestInv, Progress, TypeOf
<1>3. answer' = [answer EXCEPT ![r] = answer[r]] /\ committed' = committed \cup {r}
  BY <1>1, <1>2 DEF Shapes
<1> QED BY <1>1, <1>2, <1>3, LaterStep

-----------------------------------------------------------------------------
LEMMA NextCreateInv == CreateInv /\ [Next]_vars => CreateInv'
<1> SUFFICES ASSUME CreateInv, [Next]_vars PROVE CreateInv'
  OBVIOUS
<1>1. ASSUME NEW r \in Requests, RequestStep(r) PROVE CreateInv'
  <2>1. CASE DeadlockAborts(r)
    <3>1. Holders(r) # {}
      BY <2>1 DEF DeadlockAborts, InCircle
    <3> QED BY <2>1, <3>1, RollbackStep DEF DeadlockAborts, Holders, CreateInv
  <2> QED BY <1>1, <2>1, ValidateStep, InsertFreshStep, InsertDuplicateStep, CommitStep, LookupSingleStep,
             LookupBatchStep DEF RequestStep
<1>2. ASSUME NEW r \in Requests, RequestFails(r) PROVE CreateInv'
  <2>1. CASE InsertFails(r)
    BY <2>1, RollbackStep, FaultType DEF InsertFails
  <2> QED BY <1>2, <2>1, CommitUncertainStep, LookupFailsStep DEF RequestFails
<1>3. CASE UNCHANGED vars
  BY <1>3 DEF vars, CreateInv, Shapes, KeysUnique, RequestInv, TypeOf, FreshIsMine, Progress,
         DuplicatesCovered, Covers, AnswerRight, Key
<1> QED BY <1>1, <1>2, <1>3 DEF Next

LEMMA CreateInvariant == Spec => []CreateInv
BY InitCreateInv, NextCreateInv, PTL DEF Spec

(* Every variable keeps its type, whatever the requests and their items    *)
(* (Create, CreateBatch).                                                  *)
THEOREM CreateTypeCorrect == Spec => []TypeOK
<1>1. CreateInv => TypeOK
  BY DEF CreateInv, Shapes, Stages, RequestInv, TypeOf, TypeOK
<1> QED BY <1>1, CreateInvariant, PTL

(* What an answer says about one of its items. *)
LEMMA GivenRow ==
  ASSUME CreateInv, NEW a \in Answered
  PROVE  /\ Given(a) \in table /\ Given(a).req \in committed /\ Key(Given(a)) = Key(a)
         /\ CalledNew(a) => a \in table
         /\ a \in Row
<1>1. /\ a \in Row /\ a.req \in Requests /\ a.item \in Index(a.req) /\ a = Mine(a.req, a.item)
      /\ at[a.req] = "answered"
  BY RowShape DEF Answered
<1>2. RequestInv(a.req)
  BY <1>1 DEF CreateInv
<1> QED BY <1>1, <1>2 DEF RequestInv, AnswerRight, FreshIsMine, Given, CalledNew, Key

(* Two answers never disagree about a key, however the requests, their     *)
(* waits, deadlocks and failures fall (Create, CreateBatch).               *)
THEOREM AnswersAlwaysAgree == Spec => []AnswersAgree
<1>1. CreateInv => AnswersAgree
  <2> SUFFICES ASSUME CreateInv, NEW a \in Answered, NEW b \in Answered,
                      a # b, Keyed(a), Key(a) = Key(b)
               PROVE  Given(a) = Given(b) /\ ~(CalledNew(a) /\ CalledNew(b))
    BY DEF AnswersAgree
  <2>1. KeysUnique
    BY DEF CreateInv
  <2> QED BY <2>1, GivenRow DEF KeysUnique, Keyed
<1> QED BY <1>1, CreateInvariant, PTL

(* No client is ever given the id of a row that is not committed, or that  *)
(* has another key (CreateBatch, getByIdempotencyKeys).                    *)
THEOREM AnswersAlwaysStored == Spec => []AnswersAreStored
<1>1. CreateInv => AnswersAreStored
  BY GivenRow DEF AnswersAreStored
<1> QED BY <1>1, CreateInvariant, PTL

(* A committed request has a committed row for every one of its items      *)
(* (CreateBatch).                                                          *)
THEOREM BatchesAlwaysAtomic == Spec => []BatchIsAtomic
<1>1. CreateInv => BatchIsAtomic
  <2> SUFFICES ASSUME CreateInv, NEW a \in Row, a.req \in committed, a \notin table
               PROVE  Keyed(a) /\ Stored(a.req, a.item) # NoRow
    BY DEF BatchIsAtomic
  <2> DEFINE r == a.req
             i == a.item
  <2>1. r \in Requests /\ i \in Index(r) /\ a = Mine(r, i)
    BY RowShape
  <2>2. RequestInv(r) /\ i < item[r] /\ i \notin fresh[r]
    BY <2>1, LengthIsNat DEF CreateInv, RequestInv, Progress, FreshIsMine, Index
  <2>3. PICK x \in table : Covers(x, r, i)
    BY <2>1, <2>2 DEF RequestInv, DuplicatesCovered
  <2>4. KeyOf(r, i) # NoKey /\ Key(x) = KeyOf(r, i) /\ x.req \in committed
    BY <2>3 DEF Covers
  <2> QED BY <2>1, <2>4, StoredRow DEF Keyed, Key
<1> QED BY <1>1, CreateInvariant, PTL

(* The batch endpoint finds for an answered batch exactly the rows that    *)
(* the answer calls created (CreateBatch, GetBatch).                       *)
THEOREM SummariesMatchAnswers == Spec => []SummaryMatchesAnswer
<1>1. CreateInv => SummaryMatchesAnswer
  <2> SUFFICES ASSUME CreateInv, NEW r \in Batches, at[r] = "answered"
               PROVE  BatchSummary(r) = Cardinality(fresh[r])
    BY DEF SummaryMatchesAnswer
  <2> DEFINE mine == {row \in table : row.req = r /\ r \in committed}
             f == [i \in fresh[r] |-> Mine(r, i)]
  <2>1. /\ r \in Requests /\ RequestInv(r) /\ r \in committed /\ table \subseteq Row
        /\ fresh[r] \subseteq Index(r) /\ Len(Items[r]) \in Nat
    BY LengthIsNat DEF Requests, CreateInv, RequestInv, Progress, TypeOf
  <2>2. IsFiniteSet(fresh[r])
    <3>1. IsFiniteSet(1..Len(Items[r]))
      BY <2>1, FS_Interval
    <3> QED BY <2>1, <3>1, FS_Subset DEF Index
  <2>3. \A x \in mine : x.item \in fresh[r] /\ x = Mine(r, x.item)
    BY <2>1, RowShape DEF RequestInv, FreshIsMine
  <2>4. \A i \in fresh[r] : Mine(r, i) \in mine /\ Mine(r, i).item = i
    BY <2>1, MineIsRow DEF RequestInv, FreshIsMine
  <2>5. f \in Bijection(fresh[r], mine)
    BY <2>3, <2>4 DEF Bijection, Injection, Surjection, IsInjective
  <2>6. Cardinality(mine) = Cardinality(fresh[r])
    BY <2>2, <2>5, FS_Bijection DEF ExistsBijection
  <2> QED BY <2>6 DEF BatchSummary
<1> QED BY <1>1, CreateInvariant, PTL

-----------------------------------------------------------------------------
(* A request whose transaction is over without a commit has left no row    *)
(* behind.                                                                 *)
RowsAreOpen(r) == fresh[r] # {} /\ r \notin committed => at[r] \in {"insert", "commit"}

OpenInv == \A r \in Requests : RowsAreOpen(r)

LEMMA InitOpenInv == Init => OpenInv
BY DEF Init, OpenInv, RowsAreOpen

LEMMA NextOpenInv == CreateInv /\ CreateInv' /\ OpenInv /\ [Next]_vars => OpenInv'
<1> SUFFICES ASSUME CreateInv, CreateInv', OpenInv, [Next]_vars PROVE OpenInv'
  OBVIOUS
<1>1. CASE UNCHANGED vars
  BY <1>1 DEF OpenInv, RowsAreOpen, vars
<1>2. ASSUME NEW r \in Requests, RequestStep(r) \/ RequestFails(r)
      PROVE  OpenInv'
  <2>1. /\ at \in [Requests -> Stages] /\ fresh \in [Requests -> SUBSET Nat] /\ Progress(r)
        /\ TypeOf(r) /\ RowsAreOpen(r)
    BY DEF CreateInv, Shapes, RequestInv, OpenInv
  <2>2. /\ \A t \in Requests \ {r} : at'[t] = at[t] /\ fresh'[t] = fresh[t]
        /\ committed \subseteq committed'
    BY <1>2, <2>1
       DEF RequestStep, RequestFails, Validate, InsertFresh, InsertDuplicate, Advance,
           InsertFails, DeadlockAborts, Rollback, Commit, CommitUncertain,
           LookupSingle, LookupBatch, LookupFails
  <2>3. RowsAreOpen(r)'
    <3>1. CASE Validate(r)
      <4>1. fresh[r] = {}
        BY <2>1, <3>1 DEF Validate, Progress, TypeOf, Index
      <4> QED BY <3>1, <4>1 DEF Validate, RowsAreOpen
    <3>2. CASE InsertFresh(r) \/ InsertDuplicate(r)
      BY <2>1, <3>2 DEF InsertFresh, InsertDuplicate, Advance, RowsAreOpen
    <3>3. CASE InsertFails(r) \/ DeadlockAborts(r)
      BY <2>1, <3>3 DEF InsertFails, DeadlockAborts, Rollback, RowsAreOpen
    <3>4. CASE Commit(r) \/ CommitUncertain(r)
      BY <3>4 DEF Commit, CommitUncertain, RowsAreOpen
    <3>5. CASE LookupSingle(r) \/ LookupBatch(r) \/ LookupFails(r)
      BY <2>1, <2>2, <3>5 DEF LookupSingle, LookupBatch, LookupFails, Progress, RowsAreOpen
    <3> QED BY <1>2, <3>1, <3>2, <3>3, <3>4, <3>5 DEF RequestStep, RequestFails
  <2> QED BY <2>2, <2>3 DEF OpenInv, RowsAreOpen
<1> QED BY <1>1, <1>2 DEF Next

(* Whoever is waited for is still running. *)
LEMMA HoldersAreOpen ==
  ASSUME CreateInv, OpenInv, NEW r \in Requests
  PROVE  Holders(r) \subseteq Open
<1> SUFFICES ASSUME NEW x \in table, at[r] = "insert", x.req \notin committed
             PROVE  x.req \in Open
  BY DEF Holders, Conflicting
<1>1. x.req \in Requests /\ x.item \in Index(x.req) /\ x = Mine(x.req, x.item)
  BY RowShape DEF CreateInv
<1>2. x.item \in fresh[x.req]
  BY <1>1 DEF CreateInv, RequestInv, FreshIsMine
<1> QED BY <1>1, <1>2 DEF OpenInv, RowsAreOpen, Open

Circle(held, C) == C # {} /\ C = UNION {held[s] : s \in C}

(* A finite group whose members all wait, and only for each other, holds a *)
(* circle: the smallest such group is one, since those it waits for are    *)
(* such a group too.                                                       *)
LEMMA GroupHoldsCircle ==
  ASSUME NEW N, IsFiniteSet(N), NEW held \in [N -> SUBSET N], NEW S \in SUBSET N, S # {},
         \A s \in S : held[s] # {} /\ held[s] \subseteq S
  PROVE  \E C \in SUBSET S : Circle(held, C)
<1> DEFINE Groups == {C \in SUBSET S : C # {} /\ \A s \in C : held[s] \subseteq C}
<1>1. S \in Groups /\ Groups \subseteq FiniteSubsetsOf(N)
  BY FS_Subset DEF FiniteSubsetsOf
<1>2. PICK C \in Groups : \A D \in Groups : <<D, C>> \notin StrictSubsetOrdering(N)
  <2>1. IsWellFoundedOn(StrictSubsetOrdering(N), FiniteSubsetsOf(N))
    BY FS_StrictSubsetOrderingWellFounded
  <2> HIDE DEF Groups
  <2> QED BY <1>1, <2>1, WFMin
<1> DEFINE D == UNION {held[s] : s \in C}
<1>3. C \in SUBSET S /\ C # {} /\ \A s \in C : held[s] \subseteq C /\ held[s] # {}
  BY <1>2
<1>4. D \subseteq C /\ D # {}
  BY <1>3
<1>5. \A d \in D : held[d] \subseteq D
  BY <1>4
<1>6. D \in Groups
  BY <1>3, <1>4, <1>5
<1>7. D = C
  BY <1>2, <1>3, <1>4, <1>6 DEF StrictSubsetOrdering
<1> QED BY <1>3, <1>7 DEF Circle

(* However transactions wait for each other's keys, some request of any    *)
(* group that waits for nobody outside can go on: no finished request ever *)
(* holds a key back, and waits without an end close a circle (CreateBatch, *)
(* its deferred Rollback, the unique index).                               *)
THEOREM NoGroupIsEverStuck == Spec => []NoGroupIsStuck
<1>1. ASSUME CreateInv, OpenInv PROVE NoGroupIsStuck
  <2> SUFFICES ASSUME NEW S \in SUBSET Open, S # {}, \A r \in S : Holders(r) \cap Open \subseteq S,
                      \A r \in S : ~CanMove(r)
               PROVE  FALSE
    BY DEF NoGroupIsStuck
  <2> DEFINE held == [s \in Requests |-> Holders(s)]
             waiting == {s \in Requests : held[s] # {}}
  <2>1. S \subseteq Requests
    BY DEF Open
  <2>2. \A r \in Requests : Holders(r) \subseteq Open
    BY <1>1, HoldersAreOpen
  <2>3. held \in [Requests -> SUBSET Requests]
    BY <2>2 DEF Open
  <2>4. \A s \in S : held[s] # {} /\ held[s] \subseteq S
    BY <2>1, <2>2 DEF CanMove
  <2>5. IsFiniteSet(Requests)
    BY RequestAssumption
  <2>6. PICK C \in SUBSET S : Circle(held, C)
    <3> HIDE DEF held, waiting
    <3> QED BY <2>1, <2>3, <2>4, <2>5, GroupHoldsCircle
  <2>7. PICK r \in C : TRUE
    BY <2>6 DEF Circle
  <2>8. C \in SUBSET waiting /\ r \in waiting
    BY <2>1, <2>4, <2>6, <2>7
  <2>9. InCircle(r)
    BY <2>6, <2>7, <2>8 DEF InCircle, Circle
  <2> QED BY <2>7, <2>9 DEF CanMove
<1> QED BY <1>1, InitOpenInv, NextOpenInv, CreateInvariant, PTL DEF Spec

-----------------------------------------------------------------------------
(* The requests that pass are those that break no rule. *)
Admitted(r) ==
    Len(Items[r]) \in 1..MaxBatchSize /\ \A i \in Index(r) : Valid(Items[r][i], KeyOf(r, i))

AdmissionInv ==
    \A r \in Requests :
      /\ at[r] = "refused" => ~Admitted(r)
      /\ at[r] \notin {"received", "refused"} => Admitted(r)
      /\ \A row \in table : row.req = r => Admitted(r)

(* The rules are the contract and those beyond it. *)
LEMMA RulesAreContract ==
  ASSUME NEW p, NEW key,
         p.recipient.bytes \in Nat, p.recipient.chars \in Nat, p.content.chars \in Nat,
         p.recipient.chars <= p.recipient.bytes
  PROVE  Valid(p, key) <=> WithinContract(p) /\ ~BeyondContract(p, key)
<1> DEFINE chanOk == \/ p.channel = "sms" /\ p.content.chars <= 160
                     \/ p.channel = "push" /\ p.content.chars <= 512
                     \/ p.channel = "email" /\ p.content.chars <= 10000
           tooMany == p.recipient.chars <= 320 /\ p.recipient.bytes > 320
<1>1. /\ DOMAIN ContentLimits = {"sms", "push", "email"}
      /\ ContentLimits["sms"] = 160 /\ ContentLimits["push"] = 512
      /\ ContentLimits["email"] = 10000
  BY DEF ContentLimits
<1>2. p.channel \in DOMAIN ContentLimits /\ p.content.chars <= ContentLimits[p.channel] <=> chanOk
  BY <1>1
<1>3. p.recipient.bytes <= MaxRecipientLength <=> p.recipient.chars <= 320 /\ ~tooMany
  BY DEF MaxRecipientLength
<1>4. p.priority \in Priorities \cup {""} <=> p.priority \in {"high", "normal", "low", ""}
  BY DEF Priorities
<1> HIDE DEF chanOk, tooMany
<1>5. Valid(p, key) <=> /\ ~p.recipient.blank /\ ~p.content.blank
                        /\ p.recipient.chars <= 320 /\ ~tooMany /\ chanOk
                        /\ p.priority \in {"high", "normal", "low", ""}
                        /\ key \notin {EmptyKey, BlankKey} /\ p.scheduled_at # "past"
  BY <1>2, <1>3, <1>4, Zenon DEF Valid
<1>6. ~BeyondContract(p, key) <=> /\ ~p.recipient.blank /\ ~p.content.blank /\ ~tooMany
                                  /\ key \notin {EmptyKey, BlankKey} /\ p.scheduled_at # "past"
  BY Zenon DEF BeyondContract, tooMany
<1>7. WithinContract(p) <=> /\ p.recipient.chars <= 320 /\ chanOk
                            /\ p.priority \in {"high", "normal", "low", ""}
  BY DEF WithinContract, chanOk
<1> QED BY <1>5, <1>6, <1>7, Zenon

LEMMA ItemsAreContract ==
  ASSUME NEW r \in Requests, NEW i \in Index(r)
  PROVE  Valid(Items[r][i], KeyOf(r, i))
           <=> WithinContract(Items[r][i]) /\ ~BeyondContract(Items[r][i], KeyOf(r, i))
<1> DEFINE p == Items[r][i]
<1>1. /\ {p.recipient.bytes, p.recipient.chars, p.content.chars} \subseteq Nat
      /\ p.recipient.chars <= p.recipient.bytes
  BY TextAssumption DEF Index
<1> QED BY <1>1, RulesAreContract

(* For every request body and however the requests interleave: what is     *)
(* stored keeps the contract of openapi.yaml, all items of the request     *)
(* included, and what is refused breaks it or a rule beyond it             *)
(* (NewNotification, CreateBatch).                                         *)
THEOREM ContractAlwaysEnforced == Spec => []ContractEnforced
<1>1. Init => AdmissionInv
  BY DEF Init, AdmissionInv
<1>2. CreateInv /\ AdmissionInv /\ [Next]_vars => AdmissionInv'
  <2> SUFFICES ASSUME CreateInv, AdmissionInv, [Next]_vars PROVE AdmissionInv'
    OBVIOUS
  <2>1. at \in [Requests -> Stages]
    BY DEF CreateInv, Shapes
  <2>2. CASE UNCHANGED vars
    BY <2>2 DEF vars, AdmissionInv
  <2>3. ASSUME NEW r \in Requests, RequestStep(r) \/ RequestFails(r) PROVE AdmissionInv'
    <3>1. CASE Validate(r)
      BY <2>1, <3>1 DEF Validate, AdmissionInv, Admitted
    <3>2. ASSUME at[r] \notin {"received", "refused"},
                 at' = [at EXCEPT ![r] = at'[r]], at'[r] \notin {"received", "refused"},
                 \A x \in table' \ table : x.req = r
          PROVE  AdmissionInv'
      BY <2>1, <3>2 DEF AdmissionInv
    <3>3. CASE ~Validate(r)
      <4>1. CASE InsertFresh(r) \/ InsertDuplicate(r)
        BY <2>1, <3>2, <4>1 DEF InsertFresh, InsertDuplicate, Advance
      <4>2. CASE Commit(r) \/ LookupSingle(r) \/ LookupBatch(r)
        BY <2>1, <3>2, <4>2 DEF Commit, LookupSingle, LookupBatch
      <4>3. CASE DeadlockAborts(r)
        <5>1. at[r] = "insert"
          BY <4>3 DEF DeadlockAborts, InCircle, Holders
        <5> QED BY <2>1, <3>2, <4>3, <5>1 DEF DeadlockAborts, Rollback
      <4>4. CASE RequestFails(r)
        BY <2>1, <3>2, <4>4
           DEF RequestFails, InsertFails, Rollback, CommitUncertain, LookupFails
      <4> QED BY <2>3, <3>3, <4>1, <4>2, <4>3, <4>4 DEF RequestStep
    <3> QED BY <3>1, <3>3
  <2> QED BY <2>2, <2>3 DEF Next
<1>3. CreateInv /\ AdmissionInv => ContractEnforced
  <2> SUFFICES ASSUME CreateInv, AdmissionInv PROVE ContractEnforced
    OBVIOUS
  <2>1. ASSUME NEW row \in table, NEW i \in Index(row.req)
        PROVE  WithinContract(Items[row.req][i])
    BY <2>1, RowShape, ItemsAreContract DEF CreateInv, AdmissionInv, Admitted
  <2>2. ASSUME NEW r \in Requests, at[r] = "refused", Len(Items[r]) \in 1..MaxBatchSize
        PROVE  \E i \in Index(r) :
                 ~WithinContract(Items[r][i]) \/ BeyondContract(Items[r][i], KeyOf(r, i))
    BY <2>2, ItemsAreContract DEF AdmissionInv, Admitted
  <2> QED BY <2>1, <2>2 DEF ContractEnforced
<1> QED BY <1>1, <1>2, <1>3, CreateInvariant, PTL DEF Spec

-----------------------------------------------------------------------------
KeySet == {Key(a) : a \in KeyedRows}

(* A key belongs to the one committed row that has it. *)
OwnerIsStored ==
    /\ Owner \in [KeySet -> KeyedRows \cup {NoRow}]
    /\ \A k \in KeySet :
         Owner[k] # NoRow =>
           Owner[k] \in table /\ Owner[k].req \in committed /\ Key(Owner[k]) = k
    /\ \A x \in table :
         x.req \in committed /\ Key(x) # NoKey => Key(x) \in KeySet /\ Owner[Key(x)] = x

AnswersNameOwners ==
    /\ Told \in [KeyedRows -> KeyedRows \cup {NoRow}]
    /\ \A a \in KeyedRows :
         Told[a] = IF at[a.req] = "answered" THEN Owner[Key(a)] ELSE NoRow

LEMMA OwnersStored == CreateInv => OwnerIsStored
<1> SUFFICES ASSUME CreateInv PROVE OwnerIsStored
  OBVIOUS
<1>1. table \subseteq Row /\ KeysUnique
  BY DEF CreateInv
<1>2. ASSUME NEW k \in KeySet
      PROVE  /\ Owner[k] # NoRow =>
                  Owner[k] \in table /\ Owner[k].req \in committed /\ Key(Owner[k]) = k
             /\ (\E x \in table : x.req \in committed /\ Key(x) = k) => Owner[k] # NoRow
             /\ k # NoKey
  BY <1>1, NoRowAssumption DEF Owner, KeySet, KeyedRows, Keyed
<1>3. Owner \in [KeySet -> KeyedRows \cup {NoRow}]
  <2>1. \A k \in KeySet : Owner[k] \in KeyedRows \cup {NoRow}
    BY <1>1, <1>2 DEF KeyedRows, Keyed
  <2>2. Owner = [k \in KeySet |-> Owner[k]]
    BY DEF Owner, KeySet
  <2> QED BY <2>1, <2>2
<1>4. ASSUME NEW x \in table, x.req \in committed, Key(x) # NoKey
      PROVE  Key(x) \in KeySet /\ Owner[Key(x)] = x
  <2>1. Key(x) \in KeySet
    BY <1>1, <1>4 DEF KeySet, KeyedRows, Keyed
  <2> QED BY <1>1, <1>2, <1>4, <2>1 DEF KeysUnique
<1> QED BY <1>2, <1>3, <1>4 DEF OwnerIsStored

LEMMA OwnersNamed == CreateInv => AnswersNameOwners
<1> SUFFICES ASSUME CreateInv PROVE AnswersNameOwners
  OBVIOUS
<1>1. OwnerIsStored /\ table \subseteq Row
  BY OwnersStored DEF CreateInv
<1>2. ASSUME NEW a \in KeyedRows
      PROVE  /\ Told[a] = IF at[a.req] = "answered" THEN Owner[Key(a)] ELSE NoRow
             /\ Told[a] \in KeyedRows \cup {NoRow}
  <2>1. CASE at[a.req] = "answered"
    <3>1. a \in Answered /\ Told[a] = Given(a) /\ Key(a) # NoKey
      BY <2>1 DEF Answered, Told, KeyedRows, Keyed
    <3>2. Given(a) \in table /\ Given(a).req \in committed /\ Key(Given(a)) = Key(a)
      BY <3>1, GivenRow
    <3> QED BY <1>1, <2>1, <3>1, <3>2 DEF OwnerIsStored, KeyedRows, Keyed
  <2>2. CASE at[a.req] # "answered"
    BY <2>2 DEF Told
  <2> QED BY <2>1, <2>2
<1>3. Told = [a \in KeyedRows |-> Told[a]]
  BY DEF Told
<1> QED BY <1>2, <1>3 DEF AnswersNameOwners

(* A step of request r, seen through the registry. *)
LEMMA RegistryStep ==
  ASSUME CreateInv, CreateInv', NEW r \in Requests, at[r] # "answered",
         \A t \in Requests \ {r} : at'[t] = at[t] /\ answer'[t] = answer[t],
         \A x \in table : x.req \in committed => x \in table' /\ x.req \in committed',
         \A x \in table' : x.req \in committed' /\ ~(x \in table /\ x.req \in committed)
                              => x.req = r
  PROVE  [Registry!Next]_(Registry!registryVars)
<1>1. OwnerIsStored /\ AnswersNameOwners
  BY OwnersStored, OwnersNamed
<1>2. OwnerIsStored' /\ AnswersNameOwners'
  BY OwnersStored, OwnersNamed, PTL
<1>3. ASSUME NEW k \in KeySet, Owner'[k] # Owner[k]
      PROVE  /\ Owner[k] = NoRow
             /\ Owner'[k] \in KeyedRows /\ Owner'[k].req = r /\ Key(Owner'[k]) = k
  <2>1. Owner[k] = NoRow
    BY <1>1, <1>2, <1>3 DEF OwnerIsStored, KeySet, KeyedRows, Keyed
  <2>2. Owner'[k] \in KeyedRows /\ Owner'[k] # NoRow
    BY <1>2, <1>3, <2>1 DEF OwnerIsStored, KeySet, KeyedRows, Keyed
  <2> QED BY <1>1, <1>2, <1>3, <2>1, <2>2 DEF OwnerIsStored, KeySet, KeyedRows, Keyed
<1>4. ASSUME NEW a \in KeyedRows, Told'[a] # Told[a]
      PROVE  a.req = r /\ Told[a] = NoRow /\ Told'[a] = Owner'[Key(a)]
  <2>1. a \in Row /\ a.req \in Requests
    BY RowShape DEF KeyedRows
  <2>2. a.req = r
    BY <1>4, <2>1 DEF Told, Given
  <2> QED BY <1>1, <1>2, <1>4, <2>2 DEF AnswersNameOwners, KeyedRows, Keyed
<1>5. Registry!RegisteredKeys = KeySet
  BY DEF Registry!RegisteredKeys, KeySet
<1>6. Registry!Register(r)
  <2>1. ASSUME NEW k \in KeySet, Owner'[k] # Owner[k]
        PROVE  \E c \in KeyedRows :
                 [a \in KeyedRows |-> a.req][c] = r /\ [a \in KeyedRows |-> Key(a)][c] = k
                 /\ Owner'[k] = c
    BY <1>3, <2>1
  <2> QED BY <1>2, <1>3, <1>5, <2>1 DEF Registry!Register, OwnerIsStored
<1>7. Registry!Tell(r)
  BY <1>2, <1>4 DEF Registry!Tell, AnswersNameOwners
<1>8. CASE r \in {[a \in KeyedRows |-> a.req][c] : c \in KeyedRows}
  BY <1>6, <1>7, <1>8 DEF Registry!Next
<1>9. CASE r \notin {[a \in KeyedRows |-> a.req][c] : c \in KeyedRows}
  <2>1. \A a \in KeyedRows : a.req # r
    BY <1>9
  <2>2. \A k \in KeySet : Owner'[k] = Owner[k]
    BY <1>3, <2>1
  <2>3. \A a \in KeyedRows : Told'[a] = Told[a]
    BY <1>4, <2>1
  <2>4. Owner' = Owner /\ Told' = Told
    BY <1>1, <1>2, <2>2, <2>3 DEF OwnerIsStored, AnswersNameOwners
  <2> QED BY <2>4 DEF Registry!registryVars
<1> QED
  BY <1>8, <1>9

(* Every step of the requests is a step of the registry or invisible to it. *)
LEMMA NextRegistry == CreateInv /\ [Next]_vars => [Registry!Next]_(Registry!registryVars)
<1> SUFFICES ASSUME CreateInv, [Next]_vars PROVE [Registry!Next]_(Registry!registryVars)
  OBVIOUS
<1>1. CreateInv'
  BY NextCreateInv
<1>2. CASE UNCHANGED vars
  <2>1. Owner' = Owner /\ Told' = Told
    BY <1>2 DEF vars, Owner, Told, Given, Key, KeyedRows, Keyed
  <2> QED BY <2>1 DEF Registry!registryVars
<1>3. ASSUME NEW r \in Requests, RequestStep(r) \/ RequestFails(r)
      PROVE  [Registry!Next]_(Registry!registryVars)
  <2>1. /\ at \in [Requests -> Stages] /\ RequestInv(r) /\ table \subseteq Row
        /\ answer = [t \in Requests |-> answer[t]]
        /\ at[r] \in {"insert", "commit"} => r \notin committed
    BY DEF CreateInv, Shapes, RequestInv, Progress
  <2>2. CASE Validate(r)
    BY <1>1, <2>1, <2>2, RegistryStep DEF Validate
  <2>3. CASE InsertFresh(r) \/ InsertDuplicate(r)
    <3>1. /\ at[r] = "insert" /\ UNCHANGED <<committed, answer>>
          /\ \A t \in Requests \ {r} : at'[t] = at[t]
          /\ table \subseteq table' /\ \A x \in table' \ table : x.req = r
      BY <2>1, <2>3 DEF InsertFresh, InsertDuplicate, Advance
    <3> QED BY <1>1, <3>1, RegistryStep
  <2>4. ASSUME at[r] \in {"insert", "commit"}, Rollback(r)
        PROVE  [Registry!Next]_(Registry!registryVars)
    BY <1>1, <2>1, <2>4, RegistryStep DEF Rollback
  <2>5. CASE DeadlockAborts(r)
    <3>1. at[r] = "insert"
      BY <2>5 DEF DeadlockAborts, InCircle, Holders
    <3> QED BY <2>4, <2>5, <3>1 DEF DeadlockAborts
  <2>6. CASE Commit(r) \/ CommitUncertain(r)
    <3>1. /\ at[r] = "commit" /\ committed' = committed \cup {r} /\ table' = table
          /\ \A t \in Requests \ {r} : at'[t] = at[t] /\ answer'[t] = answer[t]
      BY <2>1, <2>6 DEF Commit, CommitUncertain
    <3> QED BY <1>1, <3>1, RegistryStep
  <2>7. CASE LookupSingle(r) \/ LookupBatch(r) \/ LookupFails(r)
    <3>1. /\ at[r] = "lookup" /\ UNCHANGED <<committed, table>>
          /\ \A t \in Requests \ {r} : at'[t] = at[t] /\ answer'[t] = answer[t]
      BY <2>1, <2>7 DEF LookupSingle, LookupBatch, LookupFails
    <3> QED BY <1>1, <3>1, RegistryStep
  <2>8. CASE InsertFails(r)
    BY <2>4, <2>8 DEF InsertFails
  <2> QED
    BY <1>3, <2>2, <2>3, <2>5, <2>6, <2>7, <2>8 DEF RequestStep, RequestFails
<1> QED BY <1>2, <1>3 DEF Next

(* Concurrent transactions on the unique index implement a registry of     *)
(* keys that knows neither transactions nor waits (Create, CreateBatch).   *)
THEOREM CreationImplementsRegistry == Spec => KeysAreRegistered
<1>1. Init => Registry!Init
  <2> SUFFICES ASSUME Init PROVE Registry!Init
    OBVIOUS
  <2>1. Owner = [k \in KeySet |-> NoRow]
    BY DEF Init, Owner, KeySet
  <2>2. Told = [a \in KeyedRows |-> NoRow]
    <3>1. \A a \in KeyedRows : at[a.req] = "received"
      BY RowShape DEF Init, KeyedRows
    <3> QED BY <3>1 DEF Told
  <2>3. Registry!RegisteredKeys = KeySet
    BY DEF Registry!RegisteredKeys, KeySet
  <2> QED BY <2>1, <2>2, <2>3 DEF Registry!Init
<1> QED BY <1>1, NextRegistry, CreateInvariant, PTL DEF Spec, KeysAreRegistered, Registry!Spec
=============================================================================
