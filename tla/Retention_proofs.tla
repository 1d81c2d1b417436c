------------------------- MODULE Retention_proofs --------------------------
(***************************************************************************)
(* Proofs about Retention, for any retention settings, addresses, purges   *)
(* and bounds: the shape of the state, and that what a purge is about to   *)
(* delete is still unused unless it was used behind the purge's back.      *)
(***************************************************************************)
EXTENDS Retention, TLAPS

\* Rows are added by a sighting and removed by Delete; nothing else moves them.
LEMMA RowsAfterSight ==
    ASSUME TypeOK, Sight
    PROVE  /\ Rows \subseteq Rows' /\ held' \in 0..ids' /\ ids' \in 0..MaxIds
           /\ ip' \in [Addresses -> 0..ids'] /\ ids =< ids'
<1>1. line # NoLine /\ line[1] \in Addresses
  BY DEF TypeOK, Sight
<1> DEFINE a == line[1]
           new == ip[a] = None
           i == IF new THEN ids + 1 ELSE ip[a]
<1>2. /\ i \in Ids /\ ids' = (IF new THEN i ELSE ids)
      /\ ip' = [ip EXCEPT ![a] = i] /\ held' = i
  BY DEF Sight
<1>3. ip \in [Addresses -> 0..ids] /\ ids \in Nat /\ ids \in 0..MaxIds /\ MaxIds \in Nat
  BY RetentionAssumption DEF TypeOK
<1>4. ids' \in 0..MaxIds /\ ids =< ids' /\ ids' \in Nat /\ i \in 0..ids' /\ i \in Nat
  <2>1. CASE new
    BY <1>2, <1>3, <2>1 DEF Ids
  <2>2. CASE ~new
    BY <1>1, <1>2, <1>3, <2>2 DEF Ids
  <2> QED BY <2>1, <2>2
<1>5. ip' \in [Addresses -> 0..ids']
  BY <1>1, <1>2, <1>3, <1>4
<1>6. ASSUME NEW b \in Addresses, ip[b] # None
      PROVE  ip'[b] = ip[b]
  <2>1. CASE b = a
    BY <1>1, <1>2, <1>3, <1>6, <2>1
  <2>2. CASE b # a
    BY <1>1, <1>2, <1>3, <2>2
  <2> QED BY <2>1, <2>2
<1>7. Rows \subseteq Rows'
  BY <1>6 DEF Rows
<1> QED BY <1>2, <1>4, <1>5, <1>7

LEMMA RowsAfterDelete ==
    ASSUME TypeOK, NEW p \in Purges, Delete(p)
    PROVE  /\ Rows' = Rows \ doomed[p] /\ ip' \in [Addresses -> 0..ids]
<1>1. /\ ip' = [a \in Addresses |-> IF ip[a] \in doomed[p] THEN None ELSE ip[a]]
      /\ ip \in [Addresses -> 0..ids] /\ ids \in Nat /\ doomed[p] \subseteq Ids
  BY DEF TypeOK, Delete
<1>2. None \notin doomed[p]
  BY <1>1 DEF Ids, None
<1>3. ip' \in [Addresses -> 0..ids]
  BY <1>1 DEF None
<1>4. Rows' \subseteq Rows \ doomed[p]
  BY <1>1 DEF Rows
<1>5. Rows \ doomed[p] \subseteq Rows'
  BY <1>1 DEF Rows
<1> QED BY <1>3, <1>4, <1>5

\* The ids a purge read, and those touched since.
LEMMA TouchTyped ==
    ASSUME TypeOK, NEW i \in Ids, Touch(i)
    PROVE  /\ late' \in [Purges -> SUBSET Ids]
           /\ \A p \in Purges : late[p] \subseteq late'[p]
           /\ \A p \in Purges : i \in doomed[p] => i \in late'[p]
BY DEF TypeOK, Touch

\* The state keeps its shape: no event, record, flag or history row refers to
\* an address row that a purge deleted, whoever is in the middle of what.
THEOREM TypeCorrect == Spec => []TypeOK
<1>1. Init => TypeOK
  BY RetentionAssumption DEF Init, TypeOK, Rows, None, Ids, NoLine
<1>2. TypeOK /\ [Next]_vars => TypeOK'
  <2> SUFFICES ASSUME TypeOK, [Next]_vars
               PROVE  TypeOK'
    OBVIOUS
  <2>0. /\ today \in Nat /\ done \in Nat /\ ids \in Nat /\ ids \in 0..MaxIds /\ crashes \in Nat
        /\ MaxIds \in Nat /\ Rows \subseteq Ids
    BY RetentionAssumption DEF TypeOK, Rows, Ids, None
  <2>1. CASE Day
    BY <2>0, <2>1 DEF Day, TypeOK, Rows, data, reader, purge
  <2>2. ASSUME NEW a \in Addresses, ReadLine(a)
        PROVE  TypeOK'
    BY <2>0, <2>2 DEF ReadLine, TypeOK, Rows, data, purge
  <2>3. CASE Sight
    <3>1. PICK i \in Ids : Touch(i) /\ seen' \in [Ids -> Nat]
      BY <2>0, <2>3 DEF Sight, TypeOK
    <3>2. /\ today' \in Nat /\ done' \in Nat /\ crashes' \in Nat
          /\ iran' = iran /\ history' = history /\ events' = events /\ records' = records
          /\ line' = line /\ pc' = pc /\ doomed' = doomed
      BY <2>0, <2>3 DEF Sight
    <3>3. iran' \subseteq Rows' /\ history' \subseteq Rows'
          /\ events' \subseteq Rows' \X Nat /\ records' \subseteq Rows' \X Nat
      BY <3>2, <2>3, RowsAfterSight DEF TypeOK
    <3>4. line' # NoLine /\ line' \in Addresses \X Nat
      BY <2>3, <3>2 DEF Sight, TypeOK
    <3> QED BY <3>1, <3>2, <3>3, <3>4, <2>3, RowsAfterSight, TouchTyped DEF TypeOK
  <2>4. CASE Store
    <3>0. held \in Rows /\ held # None /\ Touch(held)
      BY <2>4 DEF Store, Rows
    <3>1. held \in Ids /\ line[2] \in Nat
      BY <2>0, <3>0 DEF TypeOK
    <3> QED BY <3>0, <2>0, <2>4, <3>1, TouchTyped DEF Store, TypeOK, Rows, None
  <2>5. CASE StoreFails
    BY <2>0, <2>5 DEF StoreFails, TypeOK, Rows, None, data, purge
  <2>6. ASSUME NEW i \in Ids, NEW flag \in BOOLEAN, Classify(i, flag)
        PROVE  TypeOK'
    <3>1. iran' \subseteq Rows /\ history' \subseteq Rows
      BY <2>6 DEF Classify, TypeOK
    <3> QED BY <2>0, <2>6, <3>1, TouchTyped DEF Classify, TypeOK, Rows, reader
  <2>7. ASSUME NEW i \in Ids, Lookup(i)
        PROVE  TypeOK'
    BY <2>0, <2>7 DEF Lookup, TypeOK, Rows, reader, purge
  <2>8. ASSUME NEW p \in Purges, Begin(p)
        PROVE  TypeOK'
    BY <2>0, <2>8 DEF Begin, TypeOK, Rows, data, reader
  <2>9. ASSUME NEW p \in Purges, PurgeEvents(p)
        PROVE  TypeOK'
    BY <2>0, <2>9 DEF PurgeEvents, TypeOK, Rows, reader
  <2>10. ASSUME NEW p \in Purges, PurgeRecords(p)
         PROVE  TypeOK'
    BY <2>0, <2>10 DEF PurgeRecords, TypeOK, Rows, reader
  <2>11. ASSUME NEW p \in Purges, Select(p)
         PROVE  TypeOK'
    <3>1. {i \in Rows : Eligible(i)} \subseteq Ids
      BY <2>0
    <3> QED BY <2>0, <2>11, <3>1 DEF Select, TypeOK, Rows, data, reader
  <2>12. ASSUME NEW p \in Purges, Delete(p)
         PROVE  TypeOK'
    <3>1. Rows' = Rows \ doomed[p] /\ ip' \in [Addresses -> 0..ids]
      BY <2>12, RowsAfterDelete
    <3>2. /\ iran' \subseteq Rows' /\ history' \subseteq Rows'
          /\ events' \subseteq Rows' \X Nat /\ records' \subseteq Rows' \X Nat
      BY <2>12, <3>1 DEF Delete, TypeOK
    <3> QED BY <2>0, <2>12, <3>1, <3>2 DEF Delete, TypeOK, reader
  <2>13. ASSUME NEW p \in Purges, Crash(p)
         PROVE  TypeOK'
    BY <2>0, <2>13 DEF Crash, TypeOK, Rows, data, reader
  <2>14. CASE UNCHANGED vars
    BY <2>14 DEF vars, data, reader, purge, TypeOK, Rows
  <2> QED
    BY <2>1, <2>2, <2>3, <2>4, <2>5, <2>6, <2>7, <2>8, <2>9, <2>10, <2>11, <2>12, <2>13, <2>14
    DEF Next, Step
<1> QED BY <1>1, <1>2, PTL DEF Spec
-----------------------------------------------------------------------------
\* One purge's list: what it will delete meets the rule of _purge_eligible_ips.
Unused(i) == Old(seen[i], IpDays) /\ i \notin iran /\ i \notin history /\ \A e \in events : e[1] # i

\* An address that this step does not touch stays unused as the days pass.
LEMMA StaysUnused ==
    ASSUME NEW i \in Ids, TypeOK, Unused(i), today' >= today, today' \in Nat,
           seen'[i] = seen[i], i \in iran' => i \in iran, i \in history' => i \in history,
           \A e \in events' : e[1] = i => e \in events
    PROVE  Unused(i)'
<1>1. seen[i] \in Nat /\ IpDays \in Nat /\ today \in Nat
  BY RetentionAssumption DEF TypeOK
<1>2. Old(seen[i], IpDays)'
  BY <1>1 DEF Unused, Old
<1> QED BY <1>2 DEF Unused

LEMMA DoomedAreUnused ==
    DoomedUnused <=> \A p \in Purges : \A i \in (doomed[p] \cap Rows) \ late[p] : Unused(i)
BY DEF DoomedUnused, Unused

LEMMA DoomedAreUnusedNext ==
    DoomedUnused' <=> \A p \in Purges : \A i \in (doomed'[p] \cap Rows') \ late'[p] : Unused(i)'
BY DEF DoomedUnused, Unused

\* "an IP is only eligible for deletion when ALL of these hold" also when the
\* deletion comes after the query: whatever happens in between, an address that
\* was not itself sighted, used or classified since still meets the rule.
THEOREM DoomedUnusedThm == Spec => []DoomedUnused
<1>1. Init => DoomedUnused
  BY DEF Init, DoomedUnused
<1>2. TypeOK /\ TypeOK' /\ DoomedUnused /\ [Next]_vars => DoomedUnused'
  <2> SUFFICES ASSUME TypeOK, TypeOK', DoomedUnused, [Next]_vars,
                      NEW q \in Purges, NEW i \in (doomed'[q] \cap Rows') \ late'[q]
               PROVE  Unused(i)'
    BY DoomedAreUnusedNext
  <2>0. i \in Ids /\ today \in Nat /\ today' \in Nat /\ seen \in [Ids -> Nat]
    BY DEF TypeOK
  <2>1. CASE Day
    <3>1. UNCHANGED <<seen, iran, history, events, doomed, late>> /\ Rows' = Rows /\ today' = today + 1
      BY <2>1 DEF Day, data, purge, Rows
    <3>2. Unused(i)
      BY <3>1, DoomedAreUnused
    <3> QED BY <2>0, <3>1, <3>2, StaysUnused
  <2>2. ASSUME NEW a \in Addresses, ReadLine(a)
        PROVE  Unused(i)'
    <3>1. UNCHANGED <<today, seen, iran, history, events, doomed, late>> /\ Rows' = Rows
      BY <2>2 DEF ReadLine, data, purge, Rows
    <3>2. Unused(i)
      BY <3>1, DoomedAreUnused
    <3> QED BY <2>0, <3>1, <3>2, StaysUnused
  <2>3. CASE Sight
    <3> DEFINE a == line[1]
               new == ip[a] = None
               j == IF new THEN ids + 1 ELSE ip[a]
    <3>1. /\ j \in Ids /\ Touch(j) /\ ip' = [ip EXCEPT ![a] = j]
          /\ seen' = (IF new \/ seen[j] < line[2] THEN [seen EXCEPT ![j] = line[2]] ELSE seen)
          /\ UNCHANGED <<today, iran, history, events, doomed>>
      BY <2>3 DEF Sight
    <3>2. i # j
      BY <3>1, TouchTyped
    <3>3. i \in Rows
      BY <3>1, <3>2 DEF Rows, TypeOK
    <3>4. Unused(i)
      BY <3>1, <3>3, TouchTyped, DoomedAreUnused
    <3>5. seen'[i] = seen[i]
      BY <2>0, <3>1, <3>2
    <3> QED BY <2>0, <3>1, <3>4, <3>5, StaysUnused
  <2>4. CASE Store
    <3>0. held \in Rows /\ Rows \subseteq Ids
      <4>1. /\ ip \in [Addresses -> 0..ids] /\ ids \in Nat
            /\ MaxIds \in Nat /\ ids =< MaxIds
        BY RetentionAssumption DEF TypeOK
      <4>2. Rows \subseteq Ids
        BY <4>1 DEF Rows, Ids, None
      <4> QED BY <2>4, <4>2 DEF Store
    <3>1. /\ held \in Ids /\ Touch(held) /\ events' = events \cup {<<held, line[2]>>}
          /\ UNCHANGED <<today, seen, iran, history, doomed>> /\ Rows' = Rows
      BY <2>4, <3>0 DEF Store, Rows
    <3>2. i # held
      BY <3>1, TouchTyped
    <3>3. Unused(i)
      BY <3>1, TouchTyped, DoomedAreUnused
    <3> QED BY <2>0, <3>1, <3>2, <3>3, StaysUnused
  <2>5. CASE StoreFails
    <3>1. UNCHANGED <<today, seen, iran, history, events, doomed, late>> /\ Rows' = Rows
      BY <2>5 DEF StoreFails, data, purge, Rows
    <3>2. Unused(i)
      BY <3>1, DoomedAreUnused
    <3> QED BY <2>0, <3>1, <3>2, StaysUnused
  <2>6. ASSUME NEW j \in Ids, NEW flag \in BOOLEAN, Classify(j, flag)
        PROVE  Unused(i)'
    <3>1. /\ Touch(j) /\ UNCHANGED <<today, seen, events, doomed>> /\ Rows' = Rows
          /\ iran' \subseteq iran \cup {j} /\ history' \subseteq history \cup {j}
      BY <2>6 DEF Classify, Rows
    <3>2. i # j
      BY <3>1, TouchTyped
    <3>3. Unused(i)
      BY <3>1, TouchTyped, DoomedAreUnused
    <3> QED BY <2>0, <3>1, <3>2, <3>3, StaysUnused
  <2>7. ASSUME NEW j \in Ids, Lookup(j)
        PROVE  Unused(i)'
    <3>1. UNCHANGED <<today, seen, iran, history, events, doomed, late>> /\ Rows' = Rows
      BY <2>7 DEF Lookup, purge, Rows
    <3>2. Unused(i)
      BY <3>1, DoomedAreUnused
    <3> QED BY <2>0, <3>1, <3>2, StaysUnused
  <2>8. ASSUME NEW p \in Purges, Begin(p) \/ PurgeRecords(p)
        PROVE  Unused(i)'
    <3>1. UNCHANGED <<today, seen, iran, history, events, doomed, late>> /\ Rows' = Rows
      BY <2>8 DEF Begin, PurgeRecords, data, reader, Rows
    <3>2. Unused(i)
      BY <3>1, DoomedAreUnused
    <3> QED BY <2>0, <3>1, <3>2, StaysUnused
  <2>9. ASSUME NEW p \in Purges, PurgeEvents(p)
        PROVE  Unused(i)'
    <3>1. /\ UNCHANGED <<today, seen, iran, history, doomed, late>> /\ Rows' = Rows
          /\ events' \subseteq events
      BY <2>9 DEF PurgeEvents, Rows
    <3>2. Unused(i)
      BY <3>1, DoomedAreUnused
    <3> QED BY <2>0, <3>1, <3>2, StaysUnused
  <2>10. ASSUME NEW p \in Purges, Select(p)
         PROVE  Unused(i)'
    <3>1. /\ UNCHANGED <<today, seen, iran, history, events>> /\ Rows' = Rows
          /\ doomed' = [doomed EXCEPT ![p] = {k \in Rows : Eligible(k)}]
          /\ late' = [late EXCEPT ![p] = {}]
      BY <2>10 DEF Select, data, Rows
    <3>2. Unused(i)
      <4>1. CASE q = p
        BY <3>1, <4>1 DEF TypeOK, Eligible, Unused
      <4>2. CASE q # p
        BY <3>1, <4>2, DoomedAreUnused DEF TypeOK
      <4> QED BY <4>1, <4>2
    <3> QED BY <2>0, <3>1, <3>2, StaysUnused
  <2>11. ASSUME NEW p \in Purges, Delete(p)
         PROVE  Unused(i)'
    <3>1. /\ UNCHANGED <<today, seen>> /\ Rows' \subseteq Rows
          /\ iran' \subseteq iran /\ history' \subseteq history /\ events' \subseteq events
          /\ doomed' = [doomed EXCEPT ![p] = {}] /\ late' = [late EXCEPT ![p] = {}]
      BY <2>11, RowsAfterDelete DEF Delete
    <3>2. Unused(i)
      BY <3>1, DoomedAreUnused DEF TypeOK
    <3> QED BY <2>0, <3>1, <3>2, StaysUnused
  <2>12. ASSUME NEW p \in Purges, Crash(p)
         PROVE  Unused(i)'
    <3>1. /\ UNCHANGED <<today, seen, iran, history, events>> /\ Rows' = Rows
          /\ doomed' = [doomed EXCEPT ![p] = {}] /\ late' = [late EXCEPT ![p] = {}]
      BY <2>12 DEF Crash, data, Rows
    <3>2. Unused(i)
      BY <3>1, DoomedAreUnused DEF TypeOK
    <3> QED BY <2>0, <3>1, <3>2, StaysUnused
  <2>13. CASE UNCHANGED vars
    <3>1. UNCHANGED <<today, seen, iran, history, events, doomed, late>> /\ Rows' = Rows
      BY <2>13 DEF vars, data, purge, Rows
    <3>2. Unused(i)
      BY <3>1, DoomedAreUnused
    <3> QED BY <2>0, <3>1, <3>2, StaysUnused
  <2> QED
    BY <2>1, <2>2, <2>3, <2>4, <2>5, <2>6, <2>7, <2>8, <2>9, <2>10, <2>11, <2>12, <2>13
    DEF Next, Step
<1> QED BY <1>1, <1>2, TypeCorrect, PTL DEF Spec
-----------------------------------------------------------------------------
\* What a step may remove from the three tables retention is about.
MayGo ==
    /\ \A e \in events \ events' : Old(e[2], RequestDays) \/ \E p \in Purges : e[1] \in late[p]
    /\ \A r \in records \ records' : Old(r[2], WhoisDays) \/ \E p \in Purges : r[1] \in doomed[p]
    /\ \A i \in history \ history' : \E p \in Purges : i \in late[p]

\* An address that goes with its events or its history was used behind the
\* back of the purge that deletes it.
LEMMA DeleteMayGo ==
    ASSUME TypeOK, DoomedUnused, NEW p \in Purges, Delete(p) PROVE MayGo
<1>1. /\ events' = {e \in events : e[1] \notin doomed[p]}
      /\ records' = {r \in records : r[1] \notin doomed[p]}
      /\ history' = history \ doomed[p]
  BY DEF Delete
<1>2. ASSUME NEW i \in (doomed[p] \cap Rows) \ late[p] PROVE i \notin history /\ \A e \in events : e[1] # i
  BY <1>2 DEF DoomedUnused
<1>3. ASSUME NEW e \in events \ events' PROVE e[1] \in late[p]
  <2>1. e[1] \in doomed[p] /\ e[1] \in Rows
    BY <1>1, <1>3 DEF TypeOK
  <2> QED BY <1>2, <2>1
<1>4. ASSUME NEW i \in history \ history' PROVE i \in late[p]
  <2>1. i \in doomed[p] /\ i \in Rows
    BY <1>1, <1>4 DEF TypeOK
  <2> QED BY <1>2, <2>1
<1> QED BY <1>1, <1>3, <1>4 DEF MayGo

\* Retention deletes nothing early: an event or a WHOIS record younger than its
\* retention, or a history row of any age, goes only with an address that was
\* sighted, used, classified or looked up between the purge's query and its
\* DELETE; for any settings, any number of purges and any restart of one.
THEOREM YoungRowsKeptThm == Spec => YoungRowsKept
<1>1. TypeOK /\ DoomedUnused /\ [Next]_vars => [MayGo]_vars
  <2> SUFFICES ASSUME TypeOK, DoomedUnused, Next PROVE MayGo
    OBVIOUS
  <2>1. ASSUME events \subseteq events', records \subseteq records', history \subseteq history'
        PROVE  MayGo
    BY <2>1 DEF MayGo
  <2>2. CASE Day \/ Sight \/ Store \/ StoreFails \/ \E a \in Addresses : ReadLine(a)
    BY <2>1, <2>2 DEF Day, Sight, Store, StoreFails, ReadLine, data
  <2>3. CASE \E i \in Ids : Lookup(i) \/ \E flag \in BOOLEAN : Classify(i, flag)
    BY <2>1, <2>3 DEF Lookup, Classify
  <2>4. ASSUME NEW p \in Purges, Begin(p) \/ Select(p) \/ Crash(p) PROVE MayGo
    BY <2>1, <2>4 DEF Begin, Select, Crash, data
  <2>5. ASSUME NEW p \in Purges, PurgeEvents(p) PROVE MayGo
    BY <2>5 DEF PurgeEvents, MayGo
  <2>6. ASSUME NEW p \in Purges, PurgeRecords(p) PROVE MayGo
    BY <2>6 DEF PurgeRecords, MayGo
  <2>7. ASSUME NEW p \in Purges, Delete(p) PROVE MayGo
    BY <2>7, DeleteMayGo
  <2> QED BY <2>2, <2>3, <2>4, <2>5, <2>6, <2>7 DEF Next, Step
<1> QED BY <1>1, TypeCorrect, DoomedUnusedThm, PTL DEF Spec, YoungRowsKept, MayGo
=============================================================================
