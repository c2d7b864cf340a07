--------------------------- MODULE ListPaging_proofs ---------------------------
(***************************************************************************)
(* What paging by offset guarantees, for any table, filter, page size and  *)
(* course of events: the number of rows before a row tells which of the    *)
(* pages it is still to appear on.                                         *)
(***************************************************************************)
EXTENDS ListPaging, FiniteSetTheorems, TLAPS

(* A row that has been there all the time, unseen, is still to come. *)
StillToCome ==
    \A x \in steady : seen[x] = 0 /\ left[x] = 0 => Ahead(x) >= Offset

(* A row that was seen is behind the walk, but for those that entered. *)
SeenIsBehind ==
    \A x \in Rows : seen[x] >= 1 => Ahead(x) + seen[x] <= Offset + entered[x]

StatusesStay == filter.status = Any => \A x \in Rows : left[x] = 0

WalkInv ==
    /\ page > 0 => steady \subseteq Matching /\ StillToCome /\ SeenIsBehind
    /\ StatusesStay
    /\ NothingMissed
    /\ RepeatsNeedArrivals

-----------------------------------------------------------------------------
LEMMA BeforeFinite ==
  ASSUME NEW x \in Rows
  PROVE  IsFiniteSet(Before(x)) /\ Ahead(x) \in Nat
<1>1. Before(x) \in SUBSET Rows
  BY DEF Before, Matching
<1>2. IsFiniteSet(Before(x))
  BY <1>1, FS_Subset, ListAssumption
<1> QED BY <1>2, FS_CardinalityType DEF Ahead

LEMMA OffsetNat ==
  ASSUME NEW p \in Nat, p > 0
  PROVE  (p - 1) * Limit \in Nat /\ ((p + 1) - 1) * Limit = (p - 1) * Limit + Limit
<1>1. Limit \in Nat /\ p - 1 \in Nat
  BY ListAssumption
<1>2. (p - 1) * Limit \in Nat
  BY <1>1
<1>3. ((p - 1) + 1) * Limit = (p - 1) * Limit + Limit
  BY <1>1
<1> QED BY <1>2, <1>3

LEMMA FollowingStatus ==
  ASSUME NEW s \in Statuses, NEW t \in NextStatus[s]
  PROVE  t \in Statuses /\ t # "absent"
BY DEF NextStatus, Statuses

LEMMA NextType == TypeOK /\ [Next]_vars => TypeOK'
<1> SUFFICES ASSUME TypeOK, [Next]_vars PROVE TypeOK'
  OBVIOUS
<1> USE DEF TypeOK
<1>1. ASSUME NEW x \in Rows, NEW s \in NextStatus[status[x]], Change(x, s) PROVE TypeOK'
  <2>1. s \in Statuses
    BY <1>1, FollowingStatus
  <2>2. status' \in [Rows -> Statuses]
    BY <1>1, <2>1 DEF Change
  <2>3. entered' \in [Rows -> Nat] /\ left' \in [Rows -> Nat]
    BY <1>1 DEF Change, Counted
  <2>4. changes' \in 0..MaxChanges
    BY <1>1, ListAssumption DEF Change
  <2> QED BY <1>1, <2>2, <2>3, <2>4 DEF Change
<1>2. ASSUME NEW f \in Filters, Begin(f) PROVE TypeOK'
  BY <1>2 DEF Begin, Zero
<1>3. CASE Fetch
  BY <1>3 DEF Fetch
<1>4. CASE UNCHANGED vars
  BY <1>4 DEF vars
<1> QED BY <1>1, <1>2, <1>3, <1>4 DEF Next

(* The walk and its counts keep their types (ListNotifications).           *)
THEOREM ListTypeCorrect == Spec => []TypeOK
<1>1. Init => TypeOK
  BY ListAssumption DEF Init, TypeOK, Zero
<1> QED BY <1>1, NextType, PTL DEF Spec

-----------------------------------------------------------------------------
(* What one change does to the number of rows before y. *)
LEMMA ChangeMoves ==
  ASSUME TypeOK, NEW x \in Rows, NEW s \in Statuses, Change(x, s), NEW y \in Rows
  PROVE  LET was == Selects(filter, x, status[x])
             is == Selects(filter, x, s)
         IN  Ahead(y)' = IF y < x /\ is /\ ~was THEN Ahead(y) + 1
                         ELSE IF y < x /\ was /\ ~is THEN Ahead(y) - 1
                         ELSE Ahead(y)
<1> DEFINE was == Selects(filter, x, status[x])
           is == Selects(filter, x, s)
<1>1. /\ status' = [status EXCEPT ![x] = s] /\ filter' = filter
      /\ status \in [Rows -> Statuses] /\ Rows \subseteq Nat
  BY ListAssumption DEF Change, TypeOK
<1>2. \A z \in Rows : Selects(filter, z, status'[z]) <=> IF z = x THEN is ELSE z \in Matching
  BY <1>1 DEF Matching
<1>3. Matching' = {z \in Rows : IF z = x THEN is ELSE z \in Matching}
  BY <1>1, <1>2 DEF Matching, Selects
<1>4. x \in Matching <=> was
  BY DEF Matching
<1>5. IsFiniteSet(Before(y)) /\ Ahead(y) \in Nat
  BY BeforeFinite
<1> HIDE DEF was, is
<1>6. CASE y < x /\ is /\ ~was
  <2>1. Before(y)' = Before(y) \cup {x} /\ x \notin Before(y)
    BY <1>1, <1>3, <1>4, <1>6 DEF Before, Matching
  <2> QED BY <1>5, <1>6, <2>1, FS_AddElement DEF Ahead, is, was
<1>7. CASE y < x /\ was /\ ~is
  <2>1. Before(y)' = Before(y) \ {x} /\ x \in Before(y)
    BY <1>1, <1>3, <1>4, <1>7 DEF Before, Matching
  <2> QED BY <1>5, <1>7, <2>1, FS_RemoveElement DEF Ahead, is, was
<1>8. CASE ~(y < x) \/ (is <=> was)
  <2>1. Before(y)' = Before(y)
    BY <1>1, <1>3, <1>4, <1>8 DEF Before, Matching
  <2> QED BY <1>8, <2>1 DEF Ahead, is, was
<1> QED BY <1>6, <1>7, <1>8 DEF is, was

LEMMA ChangeWalk ==
  ASSUME TypeOK, WalkInv, NEW x \in Rows, NEW s \in Statuses, s # "absent",
         status[x] \in Statuses, Change(x, s)
  PROVE  WalkInv'
<1> DEFINE was == Selects(filter, x, status[x])
           is == Selects(filter, x, s)
<1>1. /\ UNCHANGED <<filter, page, seen>> /\ Offset' = Offset
      /\ steady' = IF page > 0 /\ ~is THEN steady \ {x} ELSE steady
      /\ entered' = Counted(entered, x, is /\ ~was) /\ left' = Counted(left, x, was /\ ~is)
  BY DEF Change, Offset
<1>2. \A y \in Rows : entered[y] \in Nat /\ left[y] \in Nat /\ seen[y] \in Nat
  BY DEF TypeOK
<1>3. ASSUME NEW y \in Rows
      PROVE  /\ entered'[y] = IF y < x /\ page > 0 /\ is /\ ~was THEN entered[y] + 1
                              ELSE entered[y]
             /\ left'[y] = IF y < x /\ page > 0 /\ was /\ ~is THEN left[y] + 1 ELSE left[y]
  BY <1>1 DEF Counted
<1>4. ASSUME NEW y \in Rows
      PROVE  /\ Ahead(y)' = IF y < x /\ is /\ ~was THEN Ahead(y) + 1
                            ELSE IF y < x /\ was /\ ~is THEN Ahead(y) - 1
                            ELSE Ahead(y)
             /\ Ahead(y) \in Nat
  BY ChangeMoves, BeforeFinite
<1>5. StatusesStay'
  <2>1. filter.status = Any => (was => is)
    BY DEF Selects
  <2> QED BY <1>1, <1>3, <2>1 DEF StatusesStay, WalkInv
<1>6. RepeatsNeedArrivals'
  BY <1>1, <1>2, <1>3 DEF RepeatsNeedArrivals, WalkInv
<1>7. NothingMissed'
  <2> SUFFICES ASSUME page = 0 PROVE NothingMissed'
    BY <1>1 DEF NothingMissed
  <2>1. steady' = steady /\ \A y \in Rows : left'[y] = left[y]
    BY <1>1, <1>3
  <2> QED BY <1>1, <2>1 DEF NothingMissed, WalkInv, TypeOK
<1>8. ASSUME page > 0 PROVE (steady \subseteq Matching /\ StillToCome /\ SeenIsBehind)'
  <2>1. steady \subseteq Matching /\ StillToCome /\ SeenIsBehind /\ steady \subseteq Rows
    BY <1>8 DEF WalkInv, TypeOK
  <2>2. (steady \subseteq Matching)'
    <3>1. status' = [status EXCEPT ![x] = s] /\ status \in [Rows -> Statuses]
      BY DEF Change, TypeOK
    <3>2. ASSUME NEW y \in steady' PROVE Selects(filter, y, status'[y]) /\ y \in Rows
      BY <1>1, <1>8, <2>1, <3>1 DEF Matching
    <3> QED BY <1>1, <3>2 DEF Matching
  <2>3. Offset \in Nat
    BY <1>8, OffsetNat DEF Offset, TypeOK
  <2> HIDE DEF was, is
  <2>4. StillToCome'
    <3> SUFFICES ASSUME NEW y \in steady', seen'[y] = 0, left'[y] = 0
                 PROVE  Ahead(y)' >= Offset'
      BY DEF StillToCome
    <3>1. y \in Rows /\ y \in steady
      BY <1>1, <2>1
    <3>2. left[y] = 0 /\ ~(y < x /\ was /\ ~is)
      BY <1>2, <1>3, <1>8, <3>1
    <3>3. Ahead(y) >= Offset
      BY <1>1, <2>1, <3>1, <3>2 DEF StillToCome
    <3> QED BY <1>1, <1>4, <2>3, <3>1, <3>2, <3>3
  <2>5. SeenIsBehind'
    <3> SUFFICES ASSUME NEW y \in Rows, seen[y] >= 1
                 PROVE  Ahead(y)' + seen[y] <= Offset + entered'[y]
      BY <1>1 DEF SeenIsBehind
    <3>1. Ahead(y) + seen[y] <= Offset + entered[y]
      BY <2>1 DEF SeenIsBehind
    <3> QED BY <1>2, <1>3, <1>4, <1>8, <2>3, <3>1
  <2> QED BY <2>2, <2>4, <2>5
<1> QED BY <1>1, <1>5, <1>6, <1>7, <1>8 DEF WalkInv

LEMMA BeginWalk ==
  ASSUME TypeOK, NEW f \in Filters, Begin(f)
  PROVE  WalkInv'
<1>1. /\ page' = 1 /\ filter' = f /\ status' = status
      /\ \A x \in Rows : seen'[x] = 0 /\ entered'[x] = 0 /\ left'[x] = 0
      /\ steady' = {x \in Rows : Selects(f, x, status[x])}
  BY DEF Begin, Zero
<1>2. Offset' = 0
  BY <1>1, ListAssumption DEF Offset
<1>3. \A x \in Rows : Ahead(x)' \in Nat
  <2>1. \A x \in Rows : Before(x)' \in SUBSET Rows
    BY DEF Before, Matching
  <2> QED BY <2>1, FS_Subset, FS_CardinalityType, ListAssumption DEF Ahead
<1>4. (steady \subseteq Matching)'
  BY <1>1 DEF Matching
<1>5. StillToCome'
  BY <1>1, <1>2, <1>3 DEF StillToCome
<1>6. SeenIsBehind' /\ StatusesStay' /\ RepeatsNeedArrivals' /\ NothingMissed'
  BY <1>1 DEF SeenIsBehind, StatusesStay, RepeatsNeedArrivals, NothingMissed
<1> QED BY <1>4, <1>5, <1>6 DEF WalkInv

LEMMA FetchWalk ==
  ASSUME TypeOK, WalkInv, Fetch
  PROVE  WalkInv'
<1>1. /\ page > 0 /\ page \in Nat
      /\ page' = IF HasMore THEN page + 1 ELSE 0
      /\ UNCHANGED <<status, filter, steady, entered, left>>
      /\ \A x \in Rows : seen'[x] = IF x \in Page THEN seen[x] + 1 ELSE seen[x]
  BY DEF Fetch, TypeOK
<1>2. /\ steady \subseteq Matching /\ StillToCome /\ SeenIsBehind
      /\ steady \subseteq Rows /\ Matching \subseteq Rows
  BY <1>1 DEF WalkInv, TypeOK, Matching
<1>3. Offset \in Nat /\ Limit \in Nat /\ Limit >= 1
  BY <1>1, OffsetNat, ListAssumption DEF Offset
<1>4. ASSUME NEW x \in Rows
      PROVE  /\ Ahead(x)' = Ahead(x) /\ Ahead(x) \in Nat
             /\ seen[x] \in Nat /\ entered[x] \in Nat /\ left[x] \in Nat
             /\ x \in Page => Offset <= Ahead(x) /\ Ahead(x) < Offset + Limit
  BY <1>1, BeforeFinite DEF Ahead, Before, Matching, TypeOK, Page
<1>5. Matching' = Matching
  BY <1>1 DEF Matching
<1>6. RepeatsNeedArrivals'
  <2> SUFFICES ASSUME NEW x \in Rows PROVE seen'[x] <= 1 + entered[x]
    BY <1>1 DEF RepeatsNeedArrivals
  <2>1. seen[x] <= 1 + entered[x]
    BY DEF WalkInv, RepeatsNeedArrivals
  <2>2. seen[x] >= 1 => Ahead(x) + seen[x] <= Offset + entered[x]
    BY <1>2 DEF SeenIsBehind
  <2> QED BY <1>1, <1>3, <1>4, <2>1, <2>2
<1>7. ASSUME NEW x \in steady, seen'[x] = 0, left[x] = 0
      PROVE  Ahead(x) >= Offset + Limit
  <2>1. x \in Rows /\ x \in Matching /\ seen[x] = 0 /\ x \notin Page
    BY <1>1, <1>2, <1>4, <1>7
  <2>2. Ahead(x) >= Offset
    BY <1>2, <1>7, <2>1 DEF StillToCome
  <2> QED BY <1>3, <1>4, <2>1, <2>2 DEF Page
<1>8. CASE HasMore
  <2>1. page' = page + 1 /\ Offset' = Offset + Limit
    BY <1>1, <1>8, OffsetNat DEF Offset
  <2>2. StillToCome'
    BY <1>1, <1>2, <1>4, <1>7, <2>1 DEF StillToCome
  <2>3. SeenIsBehind'
    <3> SUFFICES ASSUME NEW x \in Rows, seen'[x] >= 1
                 PROVE  Ahead(x) + seen'[x] <= Offset + Limit + entered[x]
      BY <1>1, <1>4, <2>1 DEF SeenIsBehind
    <3>1. seen[x] >= 1 => Ahead(x) + seen[x] <= Offset + entered[x]
      BY <1>2 DEF SeenIsBehind
    <3>2. CASE x \in Page
      BY <1>1, <1>3, <1>4, <3>1, <3>2
    <3>3. CASE x \notin Page
      BY <1>1, <1>3, <1>4, <3>1, <3>3
    <3> QED BY <3>2, <3>3
  <2>4. StatusesStay' /\ NothingMissed'
    BY <1>1, <2>1 DEF StatusesStay, NothingMissed, WalkInv
  <2> QED BY <1>1, <1>2, <1>5, <1>6, <2>2, <2>3, <2>4 DEF WalkInv
<1>9. CASE ~HasMore
  <2>1. page' = 0
    BY <1>1, <1>9
  <2>2. StatusesStay' /\ StatusesStay
    BY <1>1 DEF StatusesStay, WalkInv
  <2>3. ASSUME NEW x \in steady PROVE seen'[x] > 0 \/ (filter.status # Any /\ left[x] > 0)
    <3>1. x \in Rows /\ x \in Matching
      BY <1>2
    <3>2. ~(Ahead(x) >= Offset + Limit)
      BY <1>9, <3>1 DEF HasMore
    <3>3. ~(seen'[x] = 0 /\ left[x] = 0)
      BY <1>7, <3>2
    <3>4. seen'[x] \in Nat /\ left[x] \in Nat
      BY <1>1, <1>4, <3>1
    <3> QED BY <2>2, <3>1, <3>3, <3>4 DEF StatusesStay
  <2>4. NothingMissed'
    BY <1>1, <2>3 DEF NothingMissed
  <2> QED BY <1>6, <2>1, <2>2, <2>4 DEF WalkInv
<1> QED BY <1>8, <1>9

LEMMA WalkInvariant == Spec => [](TypeOK /\ WalkInv)
<1>1. Init => TypeOK /\ WalkInv
  BY ListAssumption
  DEF Init, TypeOK, Zero, WalkInv, StatusesStay, NothingMissed, RepeatsNeedArrivals
<1>2. TypeOK /\ WalkInv /\ [Next]_vars => (TypeOK /\ WalkInv)'
  <2> SUFFICES ASSUME TypeOK, WalkInv, [Next]_vars PROVE WalkInv'
    BY NextType
  <2>1. ASSUME NEW x \in Rows, NEW s \in NextStatus[status[x]], Change(x, s) PROVE WalkInv'
    <3>1. status[x] \in Statuses
      BY DEF TypeOK
    <3>2. s \in Statuses /\ s # "absent"
      BY <3>1, FollowingStatus
    <3> QED BY <2>1, <3>1, <3>2, ChangeWalk
  <2>2. CASE UNCHANGED vars
    BY <2>2
    DEF vars, WalkInv, StillToCome, SeenIsBehind, StatusesStay, NothingMissed,
        RepeatsNeedArrivals, Matching, Before, Ahead, Offset
  <2> QED BY <2>1, <2>2, BeginWalk, FetchWalk DEF Next
<1> QED BY <1>1, <1>2, PTL DEF Spec

(* Whatever is created, delivered or cancelled during the walk, a row that *)
(* is in the list all the time is shown, unless rows before it left        *)
(* (ListNotifications, List).                                              *)
THEOREM NothingEverMissed == Spec => []NothingMissed
<1> QED BY WalkInvariant, PTL DEF WalkInv

(* No row is shown more often than rows came in before it, and once        *)
(* (ListNotifications, List).                                              *)
THEOREM RepeatsAlwaysNeedArrivals == Spec => []RepeatsNeedArrivals
<1> QED BY WalkInvariant, PTL DEF WalkInv
(* For the client whose list does not move in front of a row: the walk     *)
(* shows that row exactly once (ListNotifications, List).                  *)
THEOREM UndisturbedShownOnce ==
  Spec => [](page = 0 =>
               \A x \in steady : entered[x] = 0 /\ left[x] = 0 => seen[x] = 1)
<1> DEFINE Once == page = 0 =>
                     \A x \in steady : entered[x] = 0 /\ left[x] = 0 => seen[x] = 1
<1>1. TypeOK /\ WalkInv => Once
  BY DEF TypeOK, WalkInv, NothingMissed, RepeatsNeedArrivals
<1> QED BY <1>1, WalkInvariant, PTL

-----------------------------------------------------------------------------
(* The model cuts pages by the number of rows before a row; the code by    *)
(* OFFSET and LIMIT, and it tells from one extra row whether there are     *)
(* more.  The numbers run through 0, 1, 2, ... without gap or repetition,  *)
(* so that the two agree.                                                  *)
Ranked(lo, hi) == {x \in Matching : lo <= Ahead(x) /\ Ahead(x) <= hi}

LEMMA AheadDecreases ==
  ASSUME NEW x \in Matching, NEW y \in Matching, x < y
  PROVE  Ahead(y) < Ahead(x)
<1>1. x \in Rows /\ y \in Rows /\ Rows \subseteq Nat
  BY ListAssumption DEF Matching
<1>2. Before(y) \in SUBSET Before(x) /\ y \in Before(x) /\ y \notin Before(y)
  <2>1. \A z \in Before(y) : z \in Matching /\ z > y /\ z \in Nat
    BY <1>1 DEF Before, Matching
  <2>2. \A z \in Before(y) : z > x
    BY <1>1, <2>1
  <2>3. Before(y) \in SUBSET Before(x)
    BY <2>1, <2>2 DEF Before
  <2>4. y > x /\ ~(y > y)
    BY <1>1
  <2> QED BY <2>3, <2>4 DEF Before
<1>3. Ahead(y) <= Ahead(x) /\ Ahead(y) # Ahead(x)
  BY <1>1, <1>2, BeforeFinite, FS_Subset DEF Ahead
<1> QED BY <1>1, <1>3, BeforeFinite

LEMMA AheadTellsApart ==
  ASSUME NEW x \in Matching, NEW y \in Matching, Ahead(x) = Ahead(y)
  PROVE  x = y
<1>1. x \in Rows /\ y \in Rows /\ Rows \subseteq Nat
  BY ListAssumption DEF Matching
<1>2. Ahead(x) \in Nat
  BY <1>1, BeforeFinite
<1>3. ~(x < y) /\ ~(y < x)
  BY <1>2, AheadDecreases
<1> QED BY <1>1, <1>3

(* Every place before a row of the list is taken. *)
LEMMA PlacesTaken ==
  ASSUME NEW x \in Matching, NEW k \in 0..Ahead(x)
  PROVE  \E y \in Matching : Ahead(y) = k
<1>1. x \in Rows /\ IsFiniteSet(Before(x)) /\ Ahead(x) \in Nat
  BY BeforeFinite DEF Matching
<1>2. CASE k = Ahead(x)
  BY <1>2
<1>3. CASE k < Ahead(x)
  <2> DEFINE places == 0..(Ahead(x) - 1)
             place == [y \in Before(x) |-> Ahead(y)]
  <2>1. \A y \in Before(x) : y \in Matching /\ y \in Rows /\ Ahead(y) \in Nat /\ Ahead(y) < Ahead(x)
    BY <1>1, AheadDecreases, BeforeFinite, ListAssumption DEF Before, Matching
  <2>2. place \in [Before(x) -> places]
    BY <1>1, <2>1
  <2>3. \A y, z \in Before(x) : place[y] = place[z] => y = z
    BY <2>1, AheadTellsApart
  <2>4. place \in Injection(Before(x), places)
    BY <2>2, <2>3 DEF Injection, IsInjective
  <2>5. IsFiniteSet(places) /\ Cardinality(places) = Ahead(x)
    <3>1. 0 \in Int /\ Ahead(x) - 1 \in Int
      BY <1>1
    <3>2. /\ IsFiniteSet(places)
          /\ Cardinality(places) = IF 0 > Ahead(x) - 1 THEN 0 ELSE Ahead(x) - 1 - 0 + 1
      BY <3>1, FS_Interval
    <3> QED BY <1>1, <1>3, <3>2
  <2>6. Cardinality(Before(x)) = Cardinality(places)
    BY <2>5 DEF Ahead
  <2> HIDE DEF place, places
  <2>7. place \in Surjection(Before(x), places)
    BY <2>4, <2>5, <2>6, FS_Injection
  <2>8. k \in places
    BY <1>1, <1>3 DEF places
  <2>9. \E y \in Before(x) : place[y] = k
    BY <2>7, <2>8 DEF Surjection
  <2> QED BY <2>1, <2>9 DEF place
<1> QED BY <1>1, <1>2, <1>3

LEMMA RankedCount ==
  ASSUME NEW lo \in Nat, NEW hi \in Nat, lo <= hi
  PROVE  /\ IsFiniteSet(Ranked(lo, hi))
         /\ Cardinality(Ranked(lo, hi)) \in Nat
         /\ Cardinality(Ranked(lo, hi)) <= hi - lo + 1
         /\ Cardinality(Ranked(lo, hi)) = hi - lo + 1 <=> \E x \in Matching : Ahead(x) >= hi
<1> DEFINE S == Ranked(lo, hi)
           place == [x \in S |-> Ahead(x)]
<1>1. \A x \in Matching : x \in Rows /\ Ahead(x) \in Nat
  BY BeforeFinite DEF Matching
<1>2. \A x \in S : x \in Matching /\ Ahead(x) \in lo..hi
  BY <1>1 DEF Ranked
<1>3. place \in Injection(S, lo..hi)
  <2>1. place \in [S -> lo..hi]
    BY <1>2
  <2>2. \A x, y \in S : place[x] = place[y] => x = y
    BY <1>2, AheadTellsApart
  <2> QED BY <2>1, <2>2 DEF Injection, IsInjective
<1>4. IsFiniteSet(lo..hi) /\ Cardinality(lo..hi) = hi - lo + 1
  BY FS_Interval
<1>5. /\ IsFiniteSet(S) /\ Cardinality(S) <= hi - lo + 1
      /\ Cardinality(S) = hi - lo + 1 <=> place \in Surjection(S, lo..hi)
  <2> HIDE DEF place, S
  <2> QED BY <1>3, <1>4, FS_Injection
<1>6. ASSUME place \in Surjection(S, lo..hi) PROVE \E x \in Matching : Ahead(x) >= hi
  <2>1. hi \in lo..hi
    OBVIOUS
  <2>2. \E x \in S : place[x] = hi
    BY <1>6, <2>1 DEF Surjection
  <2> QED BY <1>1, <1>2, <2>2
<1>7. ASSUME NEW x \in Matching, Ahead(x) >= hi PROVE place \in Surjection(S, lo..hi)
  <2>1. \A k \in lo..hi : \E y \in Matching : Ahead(y) = k
    BY <1>1, <1>7, PlacesTaken
  <2>2. \A k \in lo..hi : \E y \in S : place[y] = k
    BY <2>1 DEF Ranked
  <2> QED BY <1>3, <2>2 DEF Injection, Surjection
<1>8. Cardinality(S) \in Nat
  BY <1>5, FS_CardinalityType
<1> QED BY <1>5, <1>6, <1>7, <1>8

(* A page has no more rows than asked for, it is full when the client is   *)
(* told that there are more, and the client is told so exactly when the    *)
(* query for Limit + 1 rows returned them all, which is how the code finds *)
(* out (ListNotifications: len(items) > limit).                            *)
THEOREM PagesFilled ==
  Spec => [](page > 0 =>
               /\ Cardinality(Page) <= Limit
               /\ HasMore => Cardinality(Page) = Limit
               /\ HasMore <=> Cardinality(Ranked(Offset, Offset + Limit)) = Limit + 1)
<1> DEFINE Filled == /\ Cardinality(Page) <= Limit
                     /\ HasMore => Cardinality(Page) = Limit
                     /\ HasMore <=> Cardinality(Ranked(Offset, Offset + Limit)) = Limit + 1
<1>1. TypeOK => (page > 0 => Filled)
  <2> SUFFICES ASSUME TypeOK, page > 0 PROVE Filled
    OBVIOUS
  <2>1. Offset \in Nat /\ Limit \in Nat /\ Limit >= 1
    BY OffsetNat, ListAssumption DEF Offset, TypeOK
  <2>2. \A x \in Matching : Ahead(x) \in Nat
    BY BeforeFinite DEF Matching
  <2>3. Page = Ranked(Offset, Offset + Limit - 1)
    BY <2>1, <2>2 DEF Page, Ranked
  <2>4. /\ Cardinality(Page) <= Limit
        /\ Cardinality(Page) = Limit <=> \E x \in Matching : Ahead(x) >= Offset + Limit - 1
    <3> DEFINE hi == Offset + Limit - 1
    <3>1. hi \in Nat /\ Offset <= hi /\ hi - Offset + 1 = Limit
      BY <2>1
    <3> HIDE DEF hi
    <3>2. /\ Cardinality(Ranked(Offset, hi)) <= hi - Offset + 1
          /\ Cardinality(Ranked(Offset, hi)) = hi - Offset + 1
               <=> \E x \in Matching : Ahead(x) >= hi
      BY <2>1, <3>1, RankedCount
    <3>3. Page = Ranked(Offset, hi)
      BY <2>3 DEF hi
    <3>4. /\ Cardinality(Page) <= Limit
          /\ Cardinality(Page) = Limit <=> \E x \in Matching : Ahead(x) >= hi
      BY <3>1, <3>2, <3>3
    <3> QED BY <3>4 DEF hi
  <2>5. HasMore => Cardinality(Page) = Limit
    <3>1. ASSUME NEW x \in Matching, Ahead(x) >= Offset + Limit
          PROVE  Ahead(x) >= Offset + Limit - 1
      BY <2>1, <2>2, <3>1
    <3>2. HasMore => \E x \in Matching : Ahead(x) >= Offset + Limit - 1
      BY <3>1 DEF HasMore
    <3> QED BY <2>4, <3>2
  <2>6. HasMore <=> Cardinality(Ranked(Offset, Offset + Limit)) = Limit + 1
    <3> DEFINE hi == Offset + Limit
    <3>1. hi \in Nat /\ Offset <= hi /\ hi - Offset + 1 = Limit + 1
      BY <2>1
    <3>2. HasMore <=> \E x \in Matching : Ahead(x) >= hi
      BY DEF HasMore
    <3> HIDE DEF hi
    <3>3. Cardinality(Ranked(Offset, hi)) = hi - Offset + 1
            <=> \E x \in Matching : Ahead(x) >= hi
      BY <2>1, <3>1, RankedCount
    <3>4. HasMore <=> Cardinality(Ranked(Offset, hi)) = Limit + 1
      BY <3>1, <3>2, <3>3
    <3> QED BY <3>4 DEF hi
  <2> QED BY <2>4, <2>5, <2>6
<1> QED BY <1>1, ListTypeCorrect, PTL
=============================================================================
