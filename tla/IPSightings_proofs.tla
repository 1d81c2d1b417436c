------------------------- MODULE IPSightings_proofs -------------------------
(***************************************************************************)
(* Proofs about IPSightings for any readers, addresses, timestamps,        *)
(* batches, purges and crashes; and, at the end, about the tasks that take *)
(* over from there (Pipeline).                                             *)
(***************************************************************************)
EXTENDS IPSightings, Sequences, WellFoundedInduction, TLAPS

\* A non-empty set of numbers up to n has a greatest one.
LEMMA MaxExists ==
    ASSUME NEW n \in Nat, NEW T \in SUBSET (1..n), T # {}
    PROVE  \E x \in T : \A y \in T : y =< x
<1> DEFINE R == OpToRel(<, Nat)
           U == {u \in Nat : \E t \in T : u = n - t}
<1>1. U \subseteq Nat /\ U # {}
  <2>1. PICK t \in T : TRUE
    OBVIOUS
  <2>2. n - t \in Nat
    OBVIOUS
  <2> QED BY <2>2
<1>2. PICK u \in U : \A v \in U : ~(<<v, u>> \in R)
  <2> HIDE DEF U, R
  <2>1. IsWellFoundedOn(R, Nat)
    BY NatLessThanWellFounded DEF R
  <2> QED BY <1>1, <2>1, WFMin
<1>3. \A v \in U : ~(v < u)
  BY <1>1, <1>2 DEF OpToRel
<1>4. PICK x \in T : u = n - x
  OBVIOUS
<1>5. ASSUME NEW y \in T PROVE y =< x
  <2>1. n - y \in U
    OBVIOUS
  <2>2. ~(n - y < n - x)
    BY <1>3, <1>4, <2>1
  <2>3. x \in Nat /\ y \in Nat
    OBVIOUS
  <2> QED BY <2>2, <2>3
<1> QED BY <1>5

\* The deduplication keeps, for each address, the last of its sightings.
LEMMA LatestIsLatest ==
    ASSUME NEW b \in SUBSET Sightings, NEW a \in Seen(b)
    PROVE  /\ Latest(b, a) \in Times /\ <<a, Latest(b, a)>> \in b
           /\ \A s \in b : s[1] = a => s[2] \in Times /\ s[2] =< Latest(b, a)
<1> DEFINE T == {t \in Times : <<a, t>> \in b}
<1>1. PICK s \in b : s[1] = a
  BY DEF Seen
<1>2. s[2] \in T
  BY <1>1 DEF Sightings
<1>3. \E t \in T : \A u \in T : u =< t
  BY <1>2, MaxExists, SightingsAssumption DEF Times
<1>4. \E t \in Times : <<a, t>> \in b /\ \A u \in Times : <<a, u>> \in b => u =< t
  BY <1>3
<1>5. /\ Latest(b, a) \in Times /\ <<a, Latest(b, a)>> \in b
      /\ \A u \in Times : <<a, u>> \in b => u =< Latest(b, a)
  BY <1>4 DEF Latest
<1> QED BY <1>5 DEF Sightings

LEMMA TimesAreNat == \A t \in Times : t \in Nat /\ t > 0
  BY SightingsAssumption DEF Times

LEMMA BatchesAreSightings == \A b \in Batches : b \in SUBSET Sightings
  BY SightingsAssumption DEF Sightings, Times

LEMMA AbsentIsARow == Absent \in RowType /\ NoneFetched \in [Addresses -> RowType]
  BY SightingsAssumption DEF Absent, RowType, NoneFetched

\* The row of an address is absent exactly when it has no id.
LEMMA RowFields ==
    \A x \in RowType : /\ x.id \in Nat /\ x.first \in 0..MaxTime /\ x.last \in 0..MaxTime
                       /\ x = Absent <=> x.id = 0
                       /\ x # Absent => x.first \in Times /\ x.last \in Times
  BY SightingsAssumption DEF RowType, Absent, Times

LEMMA FoundAreRows == ASSUME TypeOK, NEW b PROVE Found(b) \in [Addresses -> RowType]
  BY AbsentIsARow DEF Found, TypeOK

\* What one step does to an address's row: it stays, its last_seen_at growing
\* at most; or it goes; or it comes, with an id never given before.
Grows(old, new) == new.first = old.first /\ new.last >= old.last
Stays(a) == row'[a].id = row[a].id /\ Grows(row[a], row'[a]) /\ ids'[a] = ids[a]
Goes(a) == row'[a] = Absent /\ ids'[a] = ids[a]
Comes(a) == row[a] = Absent /\ ids'[a] = ids[a] + 1
            /\ row'[a].id = ids[a] + 1 /\ row'[a].first \in Times /\ row'[a].last = row'[a].first

LEMMA RowFate ==
    ASSUME TypeOK, [Next]_vars
    PROVE  /\ row' \in [Addresses -> RowType] /\ ids' \in [Addresses -> Nat]
           /\ \A a \in Addresses : row'[a].first =< row'[a].last
           /\ \A a \in Addresses : Stays(a) \/ Goes(a) \/ Comes(a)
<1> DEFINE Fate == /\ row' \in [Addresses -> RowType] /\ ids' \in [Addresses -> Nat]
                   /\ \A a \in Addresses : row'[a].first =< row'[a].last
                   /\ \A a \in Addresses : Stays(a) \/ Goes(a) \/ Comes(a)
<1> USE SightingsAssumption
<1>1. \A a \in Addresses : row[a].id \in Nat /\ row[a].first \in Nat /\ row[a].last \in Nat /\ ids[a] \in Nat
  BY RowFields DEF TypeOK
<1>2. CASE UNCHANGED table
  BY <1>1, <1>2 DEF table, TypeOK, Stays, Grows
<1>3. ASSUME NEW r \in Readers, BulkCreate(r) PROVE Fate
  <2> DEFINE new == fresh[r] \ Present
             made(a) == [id |-> ids[a] + 1, first |-> Latest(batch[r], a), last |-> Latest(batch[r], a)]
  <2>1. /\ row' = [a \in Addresses |-> IF a \in new THEN made(a) ELSE row[a]]
        /\ ids' = [a \in Addresses |-> IF a \in new THEN ids[a] + 1 ELSE ids[a]]
    BY <1>3 DEF BulkCreate, Insert
  <2>2. \A a \in new : a \in Addresses /\ row[a] = Absent /\ Latest(batch[r], a) \in Times
    BY LatestIsLatest DEF TypeOK, Present
  <2>3. \A a \in new : made(a) \in RowType
    BY <1>1, <2>2 DEF RowType
  <2>4. row' \in [Addresses -> RowType] /\ ids' \in [Addresses -> Nat]
    BY <1>1, <2>1, <2>3 DEF TypeOK
  <2> SUFFICES ASSUME NEW a \in Addresses
               PROVE  row'[a].first =< row'[a].last /\ (Stays(a) \/ Goes(a) \/ Comes(a))
    BY <2>4
  <2>5. CASE a \in new
    <3>1. row'[a] = made(a) /\ ids'[a] = ids[a] + 1
      BY <2>1, <2>5
    <3>2. /\ row'[a].id = ids[a] + 1 /\ row'[a].first = Latest(batch[r], a)
          /\ row'[a].last = Latest(batch[r], a)
      BY <3>1
    <3> QED BY <2>2, <2>5, <3>1, <3>2, TimesAreNat DEF Comes
  <2>6. CASE a \notin new
    <3>1. row'[a] = row[a] /\ ids'[a] = ids[a]
      BY <2>1, <2>6
    <3> QED BY <1>1, <3>1 DEF Stays, Grows, TypeOK
  <2> QED BY <2>5, <2>6
<1>4. ASSUME NEW r \in Readers, NEW c \in Addresses, Update(r, c) PROVE Fate
  <2>1. CASE row' = row
    BY <1>2, <1>4, <2>1 DEF Update, table
  <2>2. CASE row' # row
    <3>1. row' = [row EXCEPT ![c].last = Latest(batch[r], c)] /\ row[c].last < Latest(batch[r], c)
      BY <1>4, <2>2 DEF Update
    <3>2. Latest(batch[r], c) \in Times
      BY <1>4, LatestIsLatest DEF Update, TypeOK
    <3> DEFINE now == [id |-> row[c].id, first |-> row[c].first, last |-> Latest(batch[r], c)]
    <3>11. row[c] \in [id : Nat \ {0}, first : Times, last : Times]
      <4>1. row[c].id # 0
        BY <1>4, <2>2, RowFields DEF Update, TypeOK
      <4> QED BY <4>1 DEF TypeOK, RowType, Absent
    <3>3. row' = [row EXCEPT ![c] = now]
      <4>2. [row[c] EXCEPT !.last = Latest(batch[r], c)] = now
        BY <3>11
      <4> QED BY <3>1, <4>2
    <3>4. now \in RowType /\ row[c].first =< now.last /\ Grows(row[c], now)
      BY <1>1, <3>1, <3>2, <3>11, TimesAreNat DEF TypeOK, RowType, Grows
    <3>5. ids' = ids
      BY <1>4 DEF Update
    <3>6. row'[c] = now /\ \A a \in Addresses \ {c} : row'[a] = row[a]
      BY <3>3 DEF TypeOK
    <3>7. now.id = row[c].id /\ now.first = row[c].first
      OBVIOUS
    <3>8. row' \in [Addresses -> RowType]
      BY <3>3, <3>4 DEF TypeOK
    <3> HIDE DEF now
    <3>9. Stays(c) /\ row'[c].first =< row'[c].last
      BY <3>4, <3>5, <3>6, <3>7 DEF Stays
    <3>10. \A a \in Addresses \ {c} : Stays(a) /\ row'[a].first =< row'[a].last
      BY <1>1, <3>5, <3>6 DEF Stays, Grows, TypeOK
    <3> QED BY <3>5, <3>8, <3>9, <3>10 DEF TypeOK
  <2> QED BY <2>1, <2>2
<1>5. ASSUME PurgeDelete PROVE Fate
  <2>1. /\ ids' = ids
        /\ row' = [a \in Addresses |-> IF <<a, row[a].id>> \in doomed THEN Absent ELSE row[a]]
    BY <1>5 DEF PurgeDelete
  <2>2. row' \in [Addresses -> RowType]
    BY <2>1, AbsentIsARow DEF TypeOK
  <2>3. \A a \in Addresses : row'[a] = Absent \/ row'[a] = row[a]
    BY <2>1
  <2> QED BY <1>1, <2>1, <2>2, <2>3 DEF Stays, Goes, Grows, TypeOK, Absent
<1> HIDE DEF Fate
<1>6. Fate
  <2>1. Fate \/ UNCHANGED table
    BY <1>3, <1>4, <1>5 DEF Next, Step, Purge, Begin, Fetch, Refetch, KeyFails, Again, Dispatch, Finish,
      Saved, StoreFails, Crash, PurgeQuery, vars
  <2> QED BY <1>2, <2>1 DEF Fate
<1> QED BY <1>6 DEF Fate

\* A reader's variables after a step of its own that gives the poll up.
LEMMA AgainType ==
    ASSUME TypeOK, NEW r \in Readers, Again(r)
    PROVE  /\ pc' \in [Readers -> {"idle", "fetch", "create", "refetch", "update", "returned"}]
           /\ existing' \in [Readers -> [Addresses -> RowType]]
           /\ fresh' \in [Readers -> SUBSET Addresses] /\ todo' \in [Readers -> SUBSET Addresses]
           /\ batch' = batch /\ dispatched' = dispatched /\ UNCHANGED <<purge, batches>>
           /\ \A q \in Readers : fresh'[q] \cup todo'[q] \subseteq Seen(batch[q])
           /\ \A q \in Readers : pc'[q] \in {"idle", "fetch", "returned"} => fresh'[q] = {} /\ todo'[q] = {}
  BY AbsentIsARow DEF Again, TypeOK

\* Every variable keeps its shape; no row is seen first after it is seen last.
LEMMA TypeStep == ASSUME TypeOK, [Next]_vars PROVE TypeOK'
<1> USE SightingsAssumption
<1>0. /\ row' \in [Addresses -> RowType] /\ ids' \in [Addresses -> Nat]
      /\ \A a \in Addresses : row'[a].first =< row'[a].last
  BY RowFate
<1>1. ASSUME NEW r \in Readers, NEW b \in Batches, Begin(r, b) PROVE TypeOK'
  BY <1>0, <1>1, BatchesAreSightings DEF Begin, purge, TypeOK
<1>2. ASSUME NEW r \in Readers, Fetch(r) PROVE TypeOK'
  <2>1. existing' \in [Readers -> [Addresses -> RowType]]
    BY <1>2, FoundAreRows DEF Fetch, TypeOK
  <2>2. Seen(batch[r]) \subseteq Addresses
    BY DEF TypeOK, Seen, Sightings
  <2>3. /\ fresh' \in [Readers -> SUBSET Addresses]
        /\ todo' \in [Readers -> SUBSET Addresses]
        /\ \A q \in Readers : fresh'[q] \cup todo'[q] \subseteq Seen(batch[q])
    BY <1>2, <2>2 DEF Fetch, TypeOK
  <2>4. /\ pc' \in [Readers -> {"idle", "fetch", "create", "refetch", "update", "returned"}]
        /\ \A q \in Readers : pc'[q] \in {"idle", "fetch", "returned"} => fresh'[q] = {} /\ todo'[q] = {}
    BY <1>2 DEF Fetch, TypeOK
  <2> QED BY <1>0, <1>2, <2>1, <2>3, <2>4 DEF Fetch, purge, TypeOK
<1>3. ASSUME NEW r \in Readers, BulkCreate(r) PROVE TypeOK'
  BY <1>0, <1>3 DEF BulkCreate, purge, TypeOK
<1>4. ASSUME NEW r \in Readers, Refetch(r) PROVE TypeOK'
  BY <1>0, <1>4, FoundAreRows DEF Refetch, purge, TypeOK
<1>5. ASSUME NEW r \in Readers, NEW a \in Addresses, Update(r, a) PROVE TypeOK'
  BY <1>0, <1>5 DEF Update, purge, TypeOK
<1>6. ASSUME NEW r \in Readers, NEW a \in Addresses, KeyFails(r, a) PROVE TypeOK'
  <2>1. lost' \subseteq Addresses /\ crashes' = crashes
    BY <1>6 DEF KeyFails, TypeOK
  <2> QED BY <1>0, <1>6, <2>1, AgainType DEF KeyFails, purge, TypeOK
<1>7. ASSUME NEW r \in Readers, NEW a \in Addresses, Dispatch(r, a) PROVE TypeOK'
  <2>1. <<a, existing[r][a].id>> \in Addresses \X Nat
    BY RowFields DEF TypeOK
  <2> QED BY <1>0, <1>7, <2>1 DEF Dispatch, purge, TypeOK
<1>8. ASSUME NEW r \in Readers, Finish(r) PROVE TypeOK'
  BY <1>0, <1>8 DEF Finish, purge, TypeOK
<1>9. ASSUME NEW r \in Readers, Saved(r) PROVE TypeOK'
  BY <1>0, <1>9, AbsentIsARow DEF Saved, purge, TypeOK
<1>10. ASSUME NEW r \in Readers, StoreFails(r) PROVE TypeOK'
  BY <1>0, <1>10, AgainType DEF StoreFails, purge, TypeOK
<1>11. ASSUME NEW r \in Readers, Crash(r) PROVE TypeOK'
  BY <1>0, <1>11, AgainType DEF Crash, purge, TypeOK
<1>12. ASSUME NEW A \in SUBSET Addresses, PurgeQuery(A) PROVE TypeOK'
  <2>1. doomed' \subseteq Addresses \X Nat
    BY <1>12, RowFields DEF PurgeQuery, TypeOK, Present
  <2> QED BY <1>0, <1>12, <2>1 DEF PurgeQuery, reader, TypeOK
<1>13. ASSUME PurgeDelete PROVE TypeOK'
  BY <1>0, <1>13 DEF PurgeDelete, reader, TypeOK
<1>14. CASE UNCHANGED vars
  BY <1>14 DEF vars, table, reader, purge, TypeOK
<1> QED
  BY <1>1, <1>2, <1>3, <1>4, <1>5, <1>6, <1>7, <1>8, <1>9, <1>10, <1>11, <1>12, <1>13, <1>14 DEF Next, Step, Purge

LEMMA TypeInit == Init => TypeOK
<1>1. SUFFICES ASSUME Init PROVE TypeOK
  OBVIOUS
<1>2. row \in [Addresses -> RowType]
  BY <1>1, SightingsAssumption, AbsentIsARow DEF Init, RowType, Times
<1>3. ids \in [Addresses -> Nat] /\ \A a \in Addresses : row[a].first =< row[a].last
  BY <1>1, <1>2, RowFields DEF Init, Absent
<1> QED BY <1>1, <1>2, <1>3, AbsentIsARow, SightingsAssumption DEF Init, TypeOK, Seen, Sightings

\* The shape of the state is an invariant.
THEOREM TypeCorrect == Spec => []TypeOK
<1>1. TypeOK /\ [Next]_vars => TypeOK'
  BY TypeStep
<1> QED BY <1>1, TypeInit, PTL DEF Spec

\* last_seen_at never goes back and first_seen_at is written once while a row
\* is there, for any number of readers working from rows they fetched earlier.
THEOREM LastSeenNeverRegressesThm == Spec => LastSeenNeverRegresses
<1>1. TypeOK /\ [Next]_vars
        => [\A a \in Present : row'[a].id = row[a].id =>
              row'[a].last >= row[a].last /\ row'[a].first = row[a].first]_vars
  <2> SUFFICES ASSUME TypeOK, [Next]_vars, NEW a \in Present, row'[a].id = row[a].id
               PROVE  row'[a].last >= row[a].last /\ row'[a].first = row[a].first
    OBVIOUS
  <2>1. a \in Addresses /\ row[a].id # 0 /\ row[a] # Absent
    BY RowFields DEF TypeOK, Present
  <2>2. ~Goes(a) /\ ~Comes(a)
    BY <2>1 DEF Goes, Comes, Absent
  <2> QED BY <2>1, <2>2, RowFate DEF Stays, Grows
<1> QED BY <1>1, TypeCorrect, PTL DEF Spec, LastSeenNeverRegresses

\* A step either is q's own or leaves its variables alone.
LEMMA OthersLeaveAlone ==
    ASSUME TypeOK, [Next]_vars, NEW q \in Readers
    PROVE  \/ Step(q) \/ Crash(q) \/ \E b \in Batches : Begin(q, b)
           \/ /\ pc'[q] = pc[q] /\ batch'[q] = batch[q] /\ existing'[q] = existing[q]
              /\ fresh'[q] = fresh[q] /\ todo'[q] = todo[q]
<1> DEFINE Alone == /\ pc'[q] = pc[q] /\ batch'[q] = batch[q] /\ existing'[q] = existing[q]
                    /\ fresh'[q] = fresh[q] /\ todo'[q] = todo[q]
<1>1. ASSUME NEW r \in Readers, r # q, Again(r) PROVE Alone
  BY <1>1 DEF Again, TypeOK
<1>2. ASSUME NEW r \in Readers, r # q, Step(r) PROVE Alone
  <2>1. CASE Fetch(r) \/ BulkCreate(r) \/ Refetch(r) \/ Finish(r) \/ Saved(r)
    BY <1>2, <2>1 DEF Fetch, BulkCreate, Refetch, Finish, Saved, TypeOK
  <2>2. ASSUME NEW a \in Addresses, Update(r, a) \/ Dispatch(r, a) PROVE Alone
    BY <1>2, <2>2 DEF Update, Dispatch, TypeOK
  <2> HIDE DEF Alone
  <2>3. StoreFails(r) \/ (\E a \in Addresses : KeyFails(r, a)) => Alone
    BY <1>1, <1>2 DEF StoreFails, KeyFails
  <2> QED BY <1>2, <2>1, <2>2, <2>3 DEF Step
<1>3. ASSUME NEW r \in Readers, r # q, Crash(r) PROVE Alone
  BY <1>1, <1>3 DEF Crash
<1>4. ASSUME NEW r \in Readers, r # q, NEW b \in Batches, Begin(r, b) PROVE Alone
  BY <1>4 DEF Begin, TypeOK
<1>5. ASSUME UNCHANGED vars \/ Purge PROVE Alone
  BY <1>5 DEF vars, reader, Purge, PurgeQuery, PurgeDelete
<1> HIDE DEF Alone
<1>6. Step(q) \/ Crash(q) \/ (\E b \in Batches : Begin(q, b)) \/ Alone
  <2>1. ASSUME NEW r \in Readers, Step(r) \/ Crash(r) \/ \E b \in Batches : Begin(r, b)
        PROVE  Step(q) \/ Crash(q) \/ (\E b \in Batches : Begin(q, b)) \/ Alone
    <3>1. CASE r = q
      BY <2>1, <3>1
    <3>2. CASE r # q
      BY <2>1, <3>2, <1>2, <1>3, <1>4
    <3> QED BY <3>1, <3>2
  <2> QED BY <2>1, <1>5 DEF Next
<1> QED BY <1>6 DEF Alone

\* What a reader holds of an address's row is what it held, nothing, or the row.
LEMMA ExistingFate ==
    ASSUME TypeOK, [Next]_vars, NEW q \in Readers, NEW a \in Addresses
    PROVE  \/ existing'[q][a] = existing[q][a] \/ existing'[q][a] = Absent
           \/ existing'[q][a] = row[a] /\ row' = row
<1>1. CASE existing'[q] = existing[q]
  BY <1>1
<1>2. CASE Fetch(q) \/ Refetch(q)
  BY <1>2 DEF Fetch, Refetch, Found, table, TypeOK
<1>3. CASE Again(q)
  BY <1>3 DEF Again, NoneFetched, TypeOK
<1>4. CASE Saved(q)
  BY <1>4 DEF Saved, NoneFetched, TypeOK
<1>5. CASE BulkCreate(q) \/ Finish(q) \/ \E b \in Batches : Begin(q, b)
  BY <1>5 DEF BulkCreate, Finish, Begin
<1>6. ASSUME NEW c \in Addresses, Update(q, c) \/ Dispatch(q, c) PROVE existing' = existing
  BY <1>6 DEF Update, Dispatch
<1> QED
  BY <1>1, <1>2, <1>3, <1>4, <1>5, <1>6, OthersLeaveAlone DEF Step, StoreFails, Crash, KeyFails

\* An id is given to one row only, and what readers hold has ids given before.
LEMMA IdsStep == ASSUME TypeOK, IdsGivenOnce, [Next]_vars PROVE IdsGivenOnce'
<1>1. \A a \in Addresses : ids[a] \in Nat /\ row[a].id \in Nat
  BY RowFields DEF TypeOK
<1>2. \A a \in Addresses : ids[a] =< ids'[a] /\ ids'[a] \in Nat
  BY <1>1, RowFate DEF Stays, Goes, Comes
<1>3. ASSUME NEW a \in Addresses
      PROVE  row'[a].id =< ids'[a]
  <2>1. CASE Stays(a)
    BY <1>1, <2>1 DEF Stays, IdsGivenOnce
  <2>2. CASE Goes(a)
    BY <1>2, <2>2 DEF Goes, Absent
  <2>3. CASE Comes(a)
    BY <1>1, <2>3, TimesAreNat DEF Comes
  <2> QED BY <2>1, <2>2, <2>3, RowFate
<1>4. ASSUME NEW q \in Readers, NEW a \in Addresses
      PROVE  existing'[q][a].id =< ids'[a]
  <2>1. existing[q][a].id \in Nat
    BY RowFields DEF TypeOK
  <2>2. CASE existing'[q][a] = existing[q][a]
    BY <1>1, <1>2, <2>1, <2>2 DEF IdsGivenOnce
  <2>3. CASE existing'[q][a] = Absent
    BY <1>2, <2>3 DEF Absent
  <2>4. CASE existing'[q][a] = row[a]
    BY <1>1, <1>2, <2>4 DEF IdsGivenOnce
  <2> QED BY <2>2, <2>3, <2>4, ExistingFate
<1> QED BY <1>3, <1>4 DEF IdsGivenOnce

\* While the row a reader holds is there, other steps leave what it claims of it.
LEMMA ClaimsSurvive ==
    ASSUME TypeOK, IdsGivenOnce, [Next]_vars, NEW q \in Readers, NEW a \in Addresses,
           existing'[q][a] = existing[q][a], row'[a].id > 0, row'[a].id = existing[q][a].id
    PROVE  row[a].id = row'[a].id /\ row[a].last =< row'[a].last
<1>1. existing[q][a].id \in Nat /\ ids[a] \in Nat /\ existing[q][a].id =< ids[a]
  BY RowFields DEF TypeOK, IdsGivenOnce
<1>2. ~Goes(a) /\ ~Comes(a)
  BY <1>1 DEF Goes, Comes, Absent
<1> QED BY <1>2, RowFate, RowFields DEF Stays, Grows, TypeOK

LEMMA PassedStep ==
    ASSUME TypeOK, IdsGivenOnce, PassedRowsReflected, [Next]_vars PROVE PassedRowsReflected'
<1> SUFFICES ASSUME NEW q \in Readers
             PROVE  /\ pc'[q] \in {"create", "refetch"} => todo'[q] = Seen(batch'[q])
                    /\ pc'[q] \in {"update", "returned"} => \A a \in Seen(batch'[q]) : Reflected(q, a)'
  BY DEF PassedRowsReflected
<1> DEFINE Goal == /\ pc'[q] \in {"create", "refetch"} => todo'[q] = Seen(batch'[q])
                   /\ pc'[q] \in {"update", "returned"} => \A a \in Seen(batch'[q]) : Reflected(q, a)'
<1>1. TypeOK'
  BY TypeStep
<1>2. ASSUME NEW a \in Seen(batch[q])
      PROVE  a \in Addresses /\ Latest(batch[q], a) \in Nat
  <2>1. batch[q] \in SUBSET Sightings
    BY DEF TypeOK
  <2> QED BY <2>1, LatestIsLatest, TimesAreNat DEF Seen, Sightings
<1>3. \A a \in Addresses : /\ row[a].last \in Nat /\ row'[a].last \in Nat /\ row[a].id \in Nat /\ row'[a].id \in Nat
                           /\ existing[q][a].last \in Nat /\ existing[q][a].id \in Nat
  BY <1>1, RowFields DEF TypeOK
<1>4. ASSUME NEW a \in Seen(batch[q]), Reflected(q, a), batch'[q] = batch[q],
             existing'[q] = existing[q], a \notin todo'[q] => a \notin todo[q]
      PROVE  Reflected(q, a)'
  <2>1. a \in Addresses /\ Latest(batch[q], a) \in Nat
    BY <1>2
  <2>2. ASSUME row'[a].id > 0, row'[a].id = existing[q][a].id
        PROVE  row[a].id = row'[a].id /\ row[a].last =< row'[a].last
    BY <2>1, <1>4, <2>2, ClaimsSurvive
  <2> QED BY <2>1, <2>2, <1>3, <1>4 DEF Reflected
<1>5. CASE /\ pc'[q] = pc[q] /\ batch'[q] = batch[q] /\ existing'[q] = existing[q]
           /\ fresh'[q] = fresh[q] /\ todo'[q] = todo[q]
  <2>1. pc[q] \in {"update", "returned"} => \A a \in Seen(batch[q]) : Reflected(q, a)
    BY DEF PassedRowsReflected
  <2>2. pc[q] \in {"create", "refetch"} => todo[q] = Seen(batch[q])
    BY DEF PassedRowsReflected
  <2> QED BY <2>1, <2>2, <1>4, <1>5
<1>6. ASSUME Fetch(q) \/ Refetch(q) PROVE Goal
  <2>1. batch' = batch /\ row' = row /\ existing'[q] = Found(batch[q])
    BY <1>6 DEF Fetch, Refetch, table, TypeOK
  <2>2. todo'[q] = Seen(batch[q])
    BY <1>6 DEF Fetch, Refetch, PassedRowsReflected, TypeOK
  <2>3. ASSUME NEW a \in Seen(batch[q]) PROVE existing'[q][a] = row'[a] /\ row[a].last =< row[a].last
    BY <1>2, <1>3, <2>1 DEF Found
  <2> QED BY <2>1, <2>2, <2>3 DEF Reflected
<1>7. CASE BulkCreate(q)
  BY <1>7 DEF BulkCreate, PassedRowsReflected, TypeOK
<1>8. ASSUME NEW c \in Addresses, Update(q, c) PROVE Goal
  <2>1. /\ pc[q] = "update" /\ pc' = pc /\ batch' = batch /\ existing' = existing
        /\ existing[q][c] # Absent /\ todo'[q] = todo[q] \ {c}
    BY <1>8 DEF Update, TypeOK
  <2>2. ASSUME NEW a \in Seen(batch[q]) PROVE Reflected(q, a)'
    <3>1. Reflected(q, a) /\ a \in Addresses /\ Latest(batch[q], a) \in Nat
      BY <2>1, <1>2 DEF PassedRowsReflected
    <3>2. CASE a # c
      BY <3>1, <3>2, <2>1, <1>4
    <3>3. CASE a = c
      <4>1. existing'[q][a].id > 0
        BY <2>1, <3>1, <3>3, RowFields DEF TypeOK
      <4>2. ASSUME row'[a].id > 0, row'[a].id = existing[q][a].id
            PROVE  existing[q][a].last =< row'[a].last /\ Latest(batch[q], a) =< row'[a].last
        <5>1. row[a].id = row'[a].id /\ row[a].last =< row'[a].last
          BY <2>1, <3>1, <4>2, ClaimsSurvive
        <5>2. existing[q][a].last =< row[a].last
          BY <3>1, <4>2, <5>1 DEF Reflected
        <5>3. CASE Latest(batch[q], a) > existing[q][a].last /\ row[a].last < Latest(batch[q], a)
          <6>1. row' = [row EXCEPT ![a].last = Latest(batch[q], a)]
            BY <1>8, <3>3, <4>2, <5>1, <5>3 DEF Update
          <6>2. row[a] \in [id : Nat \ {0}, first : Times, last : Times]
            BY <3>1, <4>2, <5>1, RowFields DEF TypeOK, RowType
          <6>3. row'[a].last = Latest(batch[q], a)
            BY <3>1, <6>1, <6>2 DEF TypeOK
          <6> QED BY <3>1, <5>1, <5>2, <6>3, <1>3
        <5>4. CASE ~(Latest(batch[q], a) > existing[q][a].last /\ row[a].last < Latest(batch[q], a))
          BY <3>1, <5>1, <5>2, <5>4, <1>3
        <5> QED BY <5>3, <5>4
      <4> QED BY <2>1, <4>1, <4>2 DEF Reflected
    <3> QED BY <3>2, <3>3
  <2> QED BY <2>1, <2>2
<1>9. ASSUME NEW c \in Addresses, Dispatch(q, c) PROVE Goal
  <2>1. pc[q] = "update" /\ pc' = pc /\ UNCHANGED <<batch, existing, todo>>
    BY <1>9 DEF Dispatch
  <2> QED BY <2>1, <1>4 DEF PassedRowsReflected
<1>10. CASE Finish(q)
  <2>1. pc[q] = "update" /\ pc'[q] = "returned" /\ UNCHANGED <<batch, existing, todo>>
    BY <1>10 DEF Finish, TypeOK
  <2> QED BY <2>1, <1>4 DEF PassedRowsReflected
<1>11. CASE Again(q)
  BY <1>11 DEF Again, TypeOK
<1>12. CASE Saved(q) \/ \E b \in Batches : Begin(q, b)
  BY <1>12 DEF Saved, Begin, TypeOK
<1> HIDE DEF Goal
<1>13. Goal
  <2>1. Step(q) => Goal
    BY <1>6, <1>7, <1>8, <1>9, <1>10, <1>11, <1>12 DEF Step, KeyFails, StoreFails, Goal
  <2>2. Crash(q) \/ (\E b \in Batches : Begin(q, b)) => Goal
    BY <1>11, <1>12 DEF Crash, Goal
  <2> QED BY <2>1, <2>2, <1>5, OthersLeaveAlone DEF Goal
<1> QED BY <1>13 DEF Goal

\* When a call returns, the table holds every sighting of its batch, but for
\* rows purged meanwhile.
THEOREM SightingsReflectedThm == Spec => []SightingsReflected
<1> DEFINE IInv == TypeOK /\ IdsGivenOnce /\ PassedRowsReflected
<1>1. Init => IInv
  <2>1. ASSUME Init PROVE IdsGivenOnce /\ PassedRowsReflected
    BY <2>1 DEF Init, IdsGivenOnce, PassedRowsReflected, NoneFetched, Absent
  <2> QED BY <2>1, TypeInit
<1>2. IInv /\ [Next]_vars => IInv'
  BY TypeStep, IdsStep, PassedStep
<1>3. IInv => SightingsReflected
  <2> SUFFICES ASSUME IInv, NEW r \in Readers, pc[r] = "returned", NEW s \in batch[r]
               PROVE  /\ existing[r][s[1]].id > 0
                      /\ row[s[1]].id = existing[r][s[1]].id => row[s[1]].first > 0 /\ s[2] =< row[s[1]].last
    BY DEF SightingsReflected
  <2>1. s[1] \in Seen(batch[r]) /\ s[1] \in Addresses /\ s[1] \notin todo[r]
    BY DEF Seen, TypeOK, Sightings
  <2>2. Reflected(r, s[1])
    BY <2>1 DEF PassedRowsReflected
  <2>3. Latest(batch[r], s[1]) \in Nat /\ s[2] \in Nat /\ s[2] =< Latest(batch[r], s[1])
    BY <2>1, LatestIsLatest, TimesAreNat DEF TypeOK
  <2>4. row[s[1]].id > 0 => row[s[1]].first \in Times /\ row[s[1]].last \in Times
    BY <2>1, RowFields DEF TypeOK
  <2> QED BY <2>1, <2>2, <2>3, <2>4, TimesAreNat DEF Reflected
<1> QED BY <1>1, <1>2, <1>3, PTL DEF Spec

-----------------------------------------------------------------------------
(***************************************************************************)
(* The tasks an address goes through once record_sightings_bulk dispatched *)
(* process_new_ip for it, as Pipeline has them, for any workers and any    *)
(* bounds.  PL!PipelineAssumption is what Pipeline assumes of its          *)
(* constants: the two marks of a free and an orphaned key are no workers.  *)
(***************************************************************************)
CONSTANTS Workers, Free, Orphan, MaxSights, MaxNews
VARIABLES record, exists, queue, lock, place, kind, copy, left, news, wrote, purged,
          located, orphaned, deaths   \* record, place, deaths: Pipeline's row, pc, crashes

PL == INSTANCE Pipeline WITH row <- record, pc <- place, crashes <- deaths

LEMMA ResultsType ==
    ASSUME NEW k \in PL!Kinds, k # "process", NEW ip \in PL!Rows, NEW v \in PL!Results(k, ip), NEW r \in PL!Rows
    PROVE  [r EXCEPT ![k] = v] \in PL!Rows
<1>1. CASE k = "whois"
  <2>1. v \in {"IR", ""}
    BY <1>1 DEF PL!Results
  <2>2. [r EXCEPT !["whois"] = v] \in PL!Rows
    BY <2>1 DEF PL!Rows
  <2> QED BY <1>1, <2>2
<1>2. CASE k = "iran"
  <2>1. v \in {"iran", "not"}
    BY <1>2 DEF PL!Results
  <2>2. [r EXCEPT !["iran"] = v] \in PL!Rows
    BY <2>1 DEF PL!Rows
  <2> QED BY <1>2, <2>2
<1>3. CASE k = "geo"
  <2>1. v \in {"known"}
    BY <1>3 DEF PL!Results
  <2>2. [r EXCEPT !["geo"] = v] \in PL!Rows
    BY <2>1 DEF PL!Rows
  <2> QED BY <1>3, <2>2
<1> QED BY <1>1, <1>2, <1>3 DEF PL!Kinds

\* The two parts of the type invariant.
Shape ==
    /\ record \in PL!Rows /\ wrote \in PL!Rows
    /\ exists \in BOOLEAN /\ purged \in BOOLEAN /\ located \in BOOLEAN
    /\ queue \in [PL!Kinds -> Nat]
    /\ lock \in [PL!Kinds -> Workers \cup {Free, Orphan}]
    /\ place \in [Workers -> PL!Places] /\ kind \in [Workers -> PL!Kinds]
    /\ \A w \in Workers : place[w] \in {"working", "saved"} => kind[w] # "process"
    /\ copy \in [Workers -> PL!Rows]
    /\ left \in [Workers -> Seq(PL!Kinds)]
    /\ news \in Nat /\ deaths \in Nat /\ orphaned \in BOOLEAN
Keys == \A w \in Workers, k \in PL!Kinds : (lock[k] = w) <=> (PL!InBody(w) /\ kind[w] = k)

LEMMA PipelineTypeParts == PL!TypeOK <=> Shape /\ Keys
  BY DEF PL!TypeOK, Shape, Keys

LEMMA NewRowType == PL!NewRow \in PL!Rows
  BY DEF PL!NewRow, PL!Rows

LEMMA SeenType == ASSUME NEW r \in PL!Rows, NEW n \in Nat PROVE [r EXCEPT !.seen = n] \in PL!Rows
  BY DEF PL!Rows

LEMMA PlanType == \A ip : PL!Plan(ip) \in Seq(PL!Kinds)
<1>1. "whois" \in PL!Kinds /\ "iran" \in PL!Kinds /\ "geo" \in PL!Kinds
  BY DEF PL!Kinds
<1>2. <<"whois", "iran", "geo">> \in Seq(PL!Kinds) /\ <<"iran", "geo">> \in Seq(PL!Kinds)
  BY <1>1
<1> QED BY <1>2 DEF PL!Plan

LEMMA ForgetType ==
    ASSUME Shape, NEW w \in Workers, PL!Forget(w)
    PROVE  /\ place' \in [Workers -> PL!Places] /\ kind' \in [Workers -> PL!Kinds]
           /\ \A v \in Workers : place'[v] \in {"working", "saved"} => kind'[v] # "process"
           /\ copy' \in [Workers -> PL!Rows] /\ left' \in [Workers -> Seq(PL!Kinds)]
<1>1. "process" \in PL!Kinds /\ "idle" \in PL!Places
  BY DEF PL!Kinds, PL!Places
<1>2. place' \in [Workers -> PL!Places] /\ kind' \in [Workers -> PL!Kinds]
  BY <1>1 DEF PL!Forget, Shape
<1>3. \A v \in Workers : place'[v] \in {"working", "saved"} => kind'[v] # "process"
  BY DEF PL!Forget, Shape
<1>4. copy' \in [Workers -> PL!Rows]
  BY NewRowType DEF PL!Forget, Shape
<1>5. left' \in [Workers -> Seq(PL!Kinds)]
  BY DEF PL!Forget, Shape
<1> QED BY <1>2, <1>3, <1>4, <1>5

LEMMA QueueType ==
    ASSUME Shape, NEW k \in PL!Kinds
    PROVE  /\ [queue EXCEPT ![k] = queue[k] + 1] \in [PL!Kinds -> Nat]
           /\ queue[k] > 0 => [queue EXCEPT ![k] = queue[k] - 1] \in [PL!Kinds -> Nat]
  BY DEF Shape

LEMMA StepShape == ASSUME Shape, NEW w \in Workers, PL!Step(w) PROVE Shape'
<1>1. ASSUME NEW k \in PL!Kinds, PL!Drop(w, k) PROVE Shape'
  BY <1>1, QueueType DEF PL!Drop, PL!db, PL!local, PL!mishaps, Shape
<1>2. ASSUME NEW k \in PL!Kinds, PL!Load(w, k) PROVE Shape'
  <2>1. queue' \in [PL!Kinds -> Nat]
    BY <1>2, QueueType DEF PL!Load
  <2>2. place' \in [Workers -> PL!Places] /\ kind' \in [Workers -> PL!Kinds] /\ copy' \in [Workers -> PL!Rows]
    BY <1>2 DEF PL!Load, Shape, PL!Places
  <2>3. \A v \in Workers : place'[v] \in {"working", "saved"} => kind'[v] # "process"
    BY <1>2 DEF PL!Load, Shape
  <2> QED BY <1>2, <2>1, <2>2, <2>3 DEF PL!Load, PL!db, PL!mishaps, Shape
<1>3. CASE PL!Lock(w)
  <2>1. lock' \in [PL!Kinds -> Workers \cup {Free, Orphan}]
    BY <1>3 DEF PL!Lock, Shape
  <2>2. place' \in [Workers -> PL!Places]
    BY <1>3 DEF PL!Lock, Shape, PL!Places
  <2>3. left' \in [Workers -> Seq(PL!Kinds)]
    <3>1. (IF kind[w] = "process" THEN PL!Plan(copy[w]) ELSE <<>>) \in Seq(PL!Kinds)
      BY PlanType
    <3> QED BY <1>3, <3>1 DEF PL!Lock, Shape
  <2>4. \A v \in Workers : place'[v] \in {"working", "saved"} => kind'[v] # "process"
    BY <1>3 DEF PL!Lock, Shape
  <2> QED BY <1>3, <2>1, <2>2, <2>3, <2>4 DEF PL!Lock, PL!db, PL!mishaps, Shape
<1>4. CASE PL!Skip(w)
  BY <1>4, ForgetType DEF PL!Skip, PL!db, PL!mishaps, Shape
<1>5. CASE PL!Send(w)
  <2>1. left[w] \in Seq(PL!Kinds) /\ left[w] # <<>>
    BY <1>5 DEF PL!Send, Shape
  <2>2. Head(left[w]) \in PL!Kinds /\ Tail(left[w]) \in Seq(PL!Kinds)
    BY <2>1
  <2>3. queue' \in [PL!Kinds -> Nat]
    BY <1>5, <2>2, QueueType DEF PL!Send
  <2>4. left' \in [Workers -> Seq(PL!Kinds)]
    BY <1>5, <2>2 DEF PL!Send, Shape
  <2> QED BY <1>5, <2>3, <2>4 DEF PL!Send, PL!db, PL!mishaps, Shape
<1>6. CASE PL!Save(w)
  <2>0. kind[w] \in PL!Kinds /\ kind[w] # "process" /\ copy[w] \in PL!Rows /\ record \in PL!Rows /\ wrote \in PL!Rows
    BY <1>6 DEF PL!Save, Shape
  <2>1. PICK v \in PL!Results(kind[w], copy[w]) :
           /\ record' = [record EXCEPT ![kind[w]] = v]
           /\ wrote' = [wrote EXCEPT ![kind[w]] = v]
           /\ place' = [place EXCEPT ![w] = IF kind[w] = "whois" /\ v # "" THEN "saved" ELSE "leaving"]
    BY <1>6 DEF PL!Save
  <2>2. record' \in PL!Rows /\ wrote' \in PL!Rows
    BY <2>0, <2>1, ResultsType
  <2>3. place' \in [Workers -> PL!Places]
    BY <2>1 DEF Shape, PL!Places
  <2>4. \A u \in Workers : place'[u] \in {"working", "saved"} => kind'[u] # "process"
    BY <1>6, <2>0, <2>1 DEF PL!Save, Shape
  <2>5. located' \in BOOLEAN
    BY <1>6, Zenon DEF PL!Save
  <2> QED BY <1>6, <2>2, <2>3, <2>4, <2>5 DEF PL!Save, PL!mishaps, Shape
<1>7. CASE PL!Unlocated(w) \/ PL!Vanished(w) \/ PL!Announce(w)
  <2>1. place' = [place EXCEPT ![w] = "leaving"] /\ UNCHANGED <<record, exists, wrote, purged, lock, kind, copy, left, news, PL!mishaps>>
    BY <1>7 DEF PL!Unlocated, PL!Vanished, PL!Announce, PL!db
  <2>2. place' \in [Workers -> PL!Places]
    BY <2>1 DEF Shape, PL!Places
  <2>3. \A u \in Workers : place'[u] \in {"working", "saved"} => kind'[u] # "process"
    BY <2>1 DEF Shape
  <2>4. queue' \in [PL!Kinds -> Nat]
    <3>1. "iran" \in PL!Kinds
      BY DEF PL!Kinds
    <3> QED BY <1>7, <3>1, QueueType DEF PL!Unlocated, PL!Vanished, PL!Announce, Shape
  <2>5. located' \in BOOLEAN
    BY <1>7 DEF PL!Unlocated, PL!Vanished, PL!Announce, Shape, PL!db
  <2> QED BY <2>1, <2>2, <2>3, <2>4, <2>5 DEF PL!mishaps, Shape
<1>8. CASE PL!Unlock(w)
  BY <1>8, ForgetType DEF PL!Unlock, PL!db, PL!mishaps, Shape
<1> QED BY <1>1, <1>2, <1>3, <1>4, <1>5, <1>6, <1>7, <1>8 DEF PL!Step

LEMMA NextShape == ASSUME Shape, [PL!Next]_(PL!vars) PROVE Shape'
<1>1. CASE PL!New
  <2>1. "process" \in PL!Kinds
    BY DEF PL!Kinds
  <2> QED BY <1>1, <2>1, QueueType DEF PL!New, PL!db, PL!local, PL!mishaps, Shape
<1>2. CASE PL!Sight
  <2>1. record.seen + 1 \in Nat /\ wrote.seen + 1 \in Nat
    <3>1. record \in PL!Rows /\ wrote \in PL!Rows
      BY DEF Shape
    <3>2. \A r \in PL!Rows : r.seen \in Nat
      BY DEF PL!Rows
    <3> QED BY <3>1, <3>2
  <2>2. [record EXCEPT !.seen = record.seen + 1] \in PL!Rows /\ [wrote EXCEPT !.seen = wrote.seen + 1] \in PL!Rows
    BY <2>1, SeenType DEF Shape
  <2> QED BY <1>2, <2>2 DEF PL!Sight, PL!local, PL!mishaps, Shape
<1>3. CASE PL!Purge
  BY <1>3 DEF PL!Purge, PL!local, PL!mishaps, Shape
<1>4. ASSUME NEW k \in PL!Kinds, PL!Expire(k) PROVE Shape'
  BY <1>4 DEF PL!Expire, PL!db, PL!local, PL!mishaps, Shape
<1>5. ASSUME NEW w \in Workers, PL!Crash(w) PROVE Shape'
  <2>1. kind[w] \in PL!Kinds
    BY DEF Shape
  <2>2. lock' \in [PL!Kinds -> Workers \cup {Free, Orphan}]
    BY <1>5, <2>1 DEF PL!Crash, Shape
  <2>3. queue' \in [PL!Kinds -> Nat]
    BY <1>5, <2>1, QueueType DEF PL!Crash
  <2>4. deaths' \in Nat
    BY <1>5 DEF PL!Crash, Shape
  <2>5. orphaned' \in BOOLEAN
    BY <1>5, Zenon DEF PL!Crash
  <2>6. PL!Forget(w) /\ UNCHANGED <<record, exists, wrote, purged, located, news>>
    BY <1>5 DEF PL!Crash, PL!db
  <2> QED BY <2>2, <2>3, <2>4, <2>5, <2>6, ForgetType DEF Shape
<1>6. CASE UNCHANGED PL!vars
  BY <1>6 DEF PL!vars, PL!db, PL!local, PL!mishaps, Shape
<1> QED BY <1>1, <1>2, <1>3, <1>4, <1>5, <1>6, StepShape DEF PL!Next

\* One worker moves, out of or in a body, and its key with it.
LEMMA KeysStep ==
    ASSUME PL!PipelineAssumption, Shape, Keys, NEW w \in Workers,
           NEW k \in PL!Kinds, NEW h \in Workers \cup {Free, Orphan},
           \A v \in Workers : v # w => place'[v] = place[v] /\ kind'[v] = kind[v],
           lock' = [lock EXCEPT ![k] = h],
           \A v \in Workers : v # w => ((h = v) <=> (lock[k] = v)),
           \A j \in PL!Kinds : j # k => ~(PL!InBody(w) /\ kind[w] = j),
           (h = w) <=> (PL!InBody(w)' /\ kind'[w] = k),
           \A j \in PL!Kinds : j # k => ~(PL!InBody(w)' /\ kind'[w] = j)
    PROVE  Keys'
<1> SUFFICES ASSUME NEW v \in Workers, NEW j \in PL!Kinds
             PROVE  (lock'[j] = v) <=> (PL!InBody(v)' /\ kind'[v] = j)
  BY DEF Keys
<1>1. lock'[j] = IF j = k THEN h ELSE lock[j]
  BY DEF Shape
<1>2. CASE v = w
  BY <1>1, <1>2 DEF Keys
<1>3. CASE v # w
  <2>1. PL!InBody(v)' <=> PL!InBody(v)
    BY <1>3 DEF PL!InBody
  <2> QED BY <1>1, <1>3, <2>1 DEF Keys
<1> QED BY <1>2, <1>3

LEMMA NextKeys == ASSUME PL!PipelineAssumption, Shape, Keys, [PL!Next]_(PL!vars) PROVE Keys'
<1> USE PL!PipelineAssumption
<1>1. ASSUME UNCHANGED <<lock, kind>>, \A w \in Workers : PL!InBody(w)' <=> PL!InBody(w) PROVE Keys'
  BY <1>1 DEF Keys
<1>2. CASE UNCHANGED <<lock, place, kind>>
  BY <1>1, <1>2 DEF PL!InBody
<1>3. ASSUME NEW w \in Workers, PL!Step(w) PROVE Keys'
  <2>1. ASSUME NEW k \in PL!Kinds, PL!Drop(w, k) PROVE Keys'
    BY <1>2, <2>1 DEF PL!Drop, PL!local
  <2>2. ASSUME lock' = lock, ~PL!InBody(w), ~PL!InBody(w)',
               \A v \in Workers : v # w => place'[v] = place[v] /\ kind'[v] = kind[v]
        PROVE  Keys'
    <3> SUFFICES ASSUME NEW v \in Workers, NEW j \in PL!Kinds
                 PROVE  (lock'[j] = v) <=> (PL!InBody(v)' /\ kind'[v] = j)
      BY DEF Keys
    <3>1. CASE v = w
      BY <2>2, <3>1 DEF Keys
    <3>2. CASE v # w
      <4>1. PL!InBody(v)' <=> PL!InBody(v)
        BY <2>2, <3>2 DEF PL!InBody
      <4> QED BY <2>2, <3>2, <4>1 DEF Keys
    <3> QED BY <3>1, <3>2
  <2>3. ASSUME NEW k \in PL!Kinds, PL!Load(w, k) PROVE Keys'
    <3>1. ~PL!InBody(w) /\ ~PL!InBody(w)'
      BY <2>3 DEF PL!Load, PL!InBody, Shape
    <3>2. \A v \in Workers : v # w => place'[v] = place[v] /\ kind'[v] = kind[v]
      BY <2>3 DEF PL!Load, Shape
    <3> QED BY <2>2, <2>3, <3>1, <3>2 DEF PL!Load
  <2>4. CASE PL!Skip(w)
    <3>1. ~PL!InBody(w) /\ ~PL!InBody(w)'
      BY <2>4 DEF PL!Skip, PL!Forget, PL!InBody, Shape
    <3>2. \A v \in Workers : v # w => place'[v] = place[v] /\ kind'[v] = kind[v]
      BY <2>4 DEF PL!Skip, PL!Forget, Shape
    <3> QED BY <2>2, <2>4, <3>1, <3>2 DEF PL!Skip
  <2>5. CASE PL!Lock(w)
    <3>1. /\ ~PL!InBody(w) /\ PL!InBody(w)' /\ kind' = kind /\ kind[w] \in PL!Kinds
          /\ lock[kind[w]] = Free /\ lock' = [lock EXCEPT ![kind[w]] = w]
      BY <2>5 DEF PL!Lock, PL!InBody, Shape
    <3>2. \A v \in Workers : v # w => place'[v] = place[v]
      BY <2>5 DEF PL!Lock, Shape
    <3> SUFFICES ASSUME NEW v \in Workers, NEW j \in PL!Kinds
                 PROVE  (lock'[j] = v) <=> (PL!InBody(v)' /\ kind'[v] = j)
      BY DEF Keys
    <3>3. lock'[j] = IF j = kind[w] THEN w ELSE lock[j]
      BY <3>1 DEF Shape
    <3>4. CASE v = w
      BY <3>1, <3>3, <3>4 DEF Keys
    <3>5. CASE v # w
      <4>1. PL!InBody(v)' <=> PL!InBody(v)
        BY <3>2, <3>5 DEF PL!InBody
      <4> QED BY <3>1, <3>3, <3>5, <4>1 DEF Keys
    <3> QED BY <3>4, <3>5
  <2>6. CASE PL!Unlock(w)
    <3>1. /\ PL!InBody(w) /\ ~PL!InBody(w)' /\ kind[w] \in PL!Kinds
          /\ lock' = [lock EXCEPT ![kind[w]] = Free]
      BY <2>6 DEF PL!Unlock, PL!Forget, PL!InBody, Shape
    <3>2. \A v \in Workers : v # w => place'[v] = place[v] /\ kind'[v] = kind[v]
      BY <2>6 DEF PL!Unlock, PL!Forget, Shape
    <3>3. lock[kind[w]] = w
      BY <3>1 DEF Keys
    <3>4. \A v \in Workers : v # w => ((Free = v) <=> (lock[kind[w]] = v))
      BY <3>3
    <3>5. /\ \A j \in PL!Kinds : j # kind[w] => ~(PL!InBody(w) /\ kind[w] = j)
          /\ \A j \in PL!Kinds : j # kind[w] => ~(PL!InBody(w)' /\ kind'[w] = j)
          /\ (Free = w) <=> (PL!InBody(w)' /\ kind'[w] = kind[w])
      BY <3>1
    <3>6. Free \in Workers \cup {Free, Orphan} /\ lock' = [lock EXCEPT ![kind[w]] = Free] /\ kind[w] \in PL!Kinds
      BY <3>1
    <3> QED BY <3>2, <3>4, <3>5, <3>6, KeysStep
  <2>7. CASE PL!Send(w) \/ PL!Save(w) \/ PL!Unlocated(w) \/ PL!Vanished(w) \/ PL!Announce(w)
    <3>1. lock' = lock /\ kind' = kind /\ PL!InBody(w)
      BY <2>7 DEF PL!Send, PL!Save, PL!Unlocated, PL!Vanished, PL!Announce, PL!InBody
    <3>2. PL!InBody(w)'
      BY <2>7 DEF PL!Send, PL!Save, PL!Unlocated, PL!Vanished, PL!Announce, PL!InBody, Shape
    <3>3. \A v \in Workers : v # w => place'[v] = place[v]
      BY <2>7 DEF PL!Send, PL!Save, PL!Unlocated, PL!Vanished, PL!Announce, Shape
    <3>4. \A v \in Workers : PL!InBody(v)' <=> PL!InBody(v)
      BY <3>1, <3>2, <3>3 DEF PL!InBody
    <3> QED BY <1>1, <3>1, <3>4
  <2> QED BY <1>3, <2>1, <2>3, <2>4, <2>5, <2>6, <2>7 DEF PL!Step
<1>4. ASSUME NEW k \in PL!Kinds, PL!Expire(k) PROVE Keys'
  <2>1. lock' = [lock EXCEPT ![k] = Free] /\ lock[k] = Orphan /\ UNCHANGED <<place, kind>>
    BY <1>4 DEF PL!Expire, PL!local
  <2> SUFFICES ASSUME NEW v \in Workers, NEW j \in PL!Kinds
               PROVE  (lock'[j] = v) <=> (PL!InBody(v)' /\ kind'[v] = j)
    BY DEF Keys
  <2>2. PL!InBody(v)' <=> PL!InBody(v)
    BY <2>1 DEF PL!InBody
  <2>3. lock'[j] = v <=> lock[j] = v
    BY <2>1 DEF Shape
  <2> QED BY <2>1, <2>2, <2>3 DEF Keys
<1>5. ASSUME NEW w \in Workers, PL!Crash(w) PROVE Keys'
  <2>1. /\ ~PL!InBody(w)' /\ kind[w] \in PL!Kinds
        /\ lock' = [lock EXCEPT ![kind[w]] = IF lock[kind[w]] = w THEN Orphan ELSE lock[kind[w]]]
    BY <1>5 DEF PL!Crash, PL!Forget, PL!InBody, Shape
  <2>2. \A v \in Workers : v # w => place'[v] = place[v] /\ kind'[v] = kind[v]
    BY <1>5 DEF PL!Crash, PL!Forget, Shape
  <2>3. (IF lock[kind[w]] = w THEN Orphan ELSE lock[kind[w]]) \in Workers \cup {Free, Orphan}
    BY <2>1 DEF Shape
  <2> DEFINE h == IF lock[kind[w]] = w THEN Orphan ELSE lock[kind[w]]
  <2>4. h \in Workers \cup {Free, Orphan} /\ lock' = [lock EXCEPT ![kind[w]] = h]
    BY <2>1, <2>3
  <2>5. \A v \in Workers : v # w => ((h = v) <=> (lock[kind[w]] = v))
    OBVIOUS
  <2>6. h # w
    OBVIOUS
  <2> HIDE DEF h
  <2>7. /\ \A j \in PL!Kinds : j # kind[w] => ~(PL!InBody(w) /\ kind[w] = j)
        /\ \A j \in PL!Kinds : j # kind[w] => ~(PL!InBody(w)' /\ kind'[w] = j)
        /\ (h = w) <=> (PL!InBody(w)' /\ kind'[w] = kind[w])
    BY <2>1, <2>6
  <2> QED BY <2>1, <2>2, <2>4, <2>5, <2>7, KeysStep
<1> QED BY <1>2, <1>3, <1>4, <1>5 DEF PL!Next, PL!New, PL!Sight, PL!Purge, PL!vars, PL!local

\* The state keeps its shape, and the key of a kind is a worker's exactly while
\* it runs the body of a task of that kind: one such task at a time.
THEOREM PipelineTypeCorrect == ASSUME PL!PipelineAssumption PROVE PL!Spec => []PL!TypeOK
<1>1. PL!Init => Shape /\ Keys
  <2> SUFFICES ASSUME PL!Init PROVE Shape /\ Keys
    OBVIOUS
  <2>1. record \in PL!Rows /\ wrote \in PL!Rows /\ copy \in [Workers -> PL!Rows]
    BY NewRowType DEF PL!Init
  <2>2. kind \in [Workers -> PL!Kinds] /\ place \in [Workers -> PL!Places]
    BY DEF PL!Init, PL!Kinds, PL!Places
  <2>3. left \in [Workers -> Seq(PL!Kinds)]
    BY DEF PL!Init
  <2>4. Shape
    BY <2>1, <2>2, <2>3 DEF PL!Init, Shape
  <2>5. Keys
    BY PL!PipelineAssumption DEF PL!Init, Keys, PL!InBody
  <2> QED BY <2>4, <2>5
<1>2. Shape /\ Keys /\ [PL!Next]_(PL!vars) => Shape' /\ Keys'
  BY NextShape, NextKeys
<1>3. Shape /\ Keys => PL!TypeOK
  BY PipelineTypeParts
<1> QED BY <1>1, <1>2, <1>3, PTL DEF PL!Spec

\* Whatever copies the tasks work from, no save undoes another one, and a purged
\* row stays purged.
THEOREM SavesSurviveThm == PL!Spec => []PL!SavesSurvive
<1>1. PL!Init => PL!SavesSurvive
  BY DEF PL!Init, PL!SavesSurvive
<1>2. PL!SavesSurvive /\ [PL!Next]_(PL!vars) => PL!SavesSurvive'
  <2> SUFFICES ASSUME PL!SavesSurvive, [PL!Next]_(PL!vars) PROVE PL!SavesSurvive'
    OBVIOUS
  <2>1. CASE PL!Sight
    BY <2>1 DEF PL!Sight, PL!SavesSurvive
  <2>2. CASE PL!Purge
    BY <2>2 DEF PL!Purge, PL!SavesSurvive
  <2>3. ASSUME NEW w \in Workers, PL!Save(w) PROVE PL!SavesSurvive'
    BY <2>3 DEF PL!Save, PL!SavesSurvive
  <2>4. ASSUME UNCHANGED <<record, exists, wrote, purged>> PROVE PL!SavesSurvive'
    BY <2>4 DEF PL!SavesSurvive
  <2>5. CASE PL!New \/ \E k \in PL!Kinds : PL!Expire(k)
    BY <2>4, <2>5 DEF PL!New, PL!Expire, PL!db
  <2>6. ASSUME NEW w \in Workers, PL!Step(w), ~PL!Save(w) PROVE UNCHANGED <<record, exists, wrote, purged>>
    BY <2>6 DEF PL!Step, PL!Drop, PL!Load, PL!Lock, PL!Skip, PL!Send, PL!Unlocated, PL!Vanished, PL!Announce, PL!Unlock, PL!db
  <2>7. ASSUME NEW w \in Workers, PL!Crash(w) PROVE UNCHANGED <<record, exists, wrote, purged>>
    BY <2>7 DEF PL!Crash, PL!db
  <2>8. CASE UNCHANGED PL!vars
    BY <2>4, <2>8 DEF PL!vars, PL!db
  <2> QED BY <2>1, <2>2, <2>3, <2>4, <2>5, <2>6, <2>7, <2>8 DEF PL!Next
<1> QED BY <1>1, <1>2, PTL DEF PL!Spec
=============================================================================
