------------------------ MODULE IranClassify_proofs ------------------------
(***************************************************************************)
(* Proofs about IranClassify for any workers, scans, addresses and CIDRs.  *)
(***************************************************************************)
EXTENDS IranClassify, RipeStats, FiniteSetTheorems, WellFoundedInduction, TLAPS

Rows(n) == [id : 1..n, cidr : Cidrs \cup {NoCidr}]

LEMMA VerdictTyped ==
    ASSUME NEW a \in Addresses, NEW c, NEW v \in Verdicts(a, c), enabled \subseteq Cidrs
    PROVE  v \in Verdict
<1>1. CASE Covering(a) = {}
  <2>1. v = [iran |-> c = "IR", cidr |-> NoCidr]
    BY <1>1 DEF Verdicts
  <2>2. (c = "IR") \in BOOLEAN
    OBVIOUS
  <2> QED BY <2>1, <2>2 DEF Verdict
<1>2. CASE Covering(a) # {}
  <2>1. PICK d \in Narrowest(a) : v = [iran |-> TRUE, cidr |-> d]
    BY <1>2 DEF Verdicts
  <2>2. d \in Cidrs
    BY DEF Narrowest, Covering
  <2> QED BY <2>1, <2>2 DEF Verdict
<1> QED BY <1>1, <1>2

LEMMA FetchedTyped == TypeOK => Fetched \in [Addresses -> Copy]
  BY DEF TypeOK, Fetched, Copy

\* The parts of TypeOK that only some actions disturb.
LocalOK ==
    /\ pc \in [Actors -> {"idle", "loaded", "ready", "matched", "writing"}]
    /\ todo \in [Actors -> SUBSET Addresses]
    /\ job \in [Actors -> Addresses]
    /\ copy \in [Actors -> [Addresses -> Copy]]
    /\ verdict \in [Actors -> Verdict]
    /\ snap \in [Actors -> SUBSET Rows(ids)]
RowsOK ==
    /\ enabled \subseteq Cidrs /\ country \in [Addresses -> Countries]
    /\ row \in [Addresses -> Verdict]
    /\ ids \in Nat /\ open \in [Addresses -> SUBSET Rows(ids)]
KeysOK ==
    /\ lock \in [Addresses -> Workers \cup {Free, Orphan}]
    /\ \A w \in Workers : todo[w] \subseteq {job[w]}
    /\ \A a \in Addresses, w \in Workers :
         lock[a] = w => job[w] = a /\ pc[w] \in {"ready", "matched", "writing"}
HistoryOK == stale \subseteq Addresses /\ missed \subseteq Addresses
CountsOK == queued \in [Addresses -> Nat] /\ events \in Nat /\ crashes \in Nat

LEMMA TypeParts == TypeOK <=> LocalOK /\ RowsOK /\ KeysOK /\ HistoryOK /\ CountsOK
  BY DEF TypeOK, LocalOK, RowsOK, KeysOK, HistoryOK, CountsOK, Rows

LEMMA ForgetTyped ==
    ASSUME TypeOK, NEW p \in Actors, Forget(p), ids' = ids PROVE LocalOK'
<1>1. [is |-> NotIran, country |-> ""] \in Copy /\ NotIran \in Verdict
  BY DEF Copy, NotIran, Verdict, Countries
<1> QED BY <1>1 DEF Forget, TypeOK, LocalOK, Rows

LEMMA LocalStep == ASSUME TypeOK, [Next]_vars PROVE LocalOK'
<1> USE DEF Actors
<1>1. CASE Outside
  BY <1>1 DEF Outside, Toggle, Whois, Recalculate, local, db, TypeOK, LocalOK, Rows
<1>2. ASSUME NEW w \in Workers, NEW a \in Addresses, Load(w, a) PROVE LocalOK'
  BY <1>2, FetchedTyped DEF Load, db, TypeOK, LocalOK, Rows
<1>3. ASSUME NEW w \in Workers, Lock(w) PROVE LocalOK'
  BY <1>3 DEF Lock, local, db, TypeOK, LocalOK, Rows
<1>4. ASSUME NEW p \in Actors, Skip(p) \/ Done(p) \/ Crash(p) PROVE LocalOK'
  BY <1>4, ForgetTyped DEF Skip, Done, Crash, db
<1>5. ASSUME NEW s \in Scanners, Scan(s) PROVE LocalOK'
  BY <1>5, FetchedTyped DEF Scan, db, TypeOK, LocalOK, Rows
<1>6. ASSUME NEW p \in Actors, NEW a \in Addresses, Match(p, a) PROVE LocalOK'
  BY <1>6, VerdictTyped DEF Match, db, TypeOK, LocalOK, Rows
<1>7. ASSUME NEW p \in Actors, Close(p) PROVE LocalOK'
  BY <1>7 DEF Close, db, TypeOK, LocalOK, Rows
<1>8. ASSUME NEW p \in Actors, Commit(p) PROVE LocalOK'
  <2>1. ids' \in {ids, ids + 1} /\ ids \in Nat
    BY <1>8 DEF Commit, TypeOK
  <2>2. Rows(ids) \subseteq Rows(ids')
    BY <2>1 DEF Rows
  <2>3. snap' \in [Actors -> SUBSET Rows(ids')]
    BY <1>8, <2>2 DEF Commit, TypeOK, Rows
  <2> QED BY <1>8, <2>3 DEF Commit, TypeOK, LocalOK
<1>9. ASSUME NEW a \in Addresses, Expire(a) PROVE LocalOK'
  BY <1>9 DEF Expire, local, db, TypeOK, LocalOK, Rows
<1>10. CASE UNCHANGED vars
  BY <1>10 DEF vars, local, db, TypeOK, LocalOK, Rows
<1> QED BY <1>1, <1>2, <1>3, <1>4, <1>5, <1>6, <1>7, <1>8, <1>9, <1>10 DEF Next, Work, Classify

LEMMA RowsStep == ASSUME TypeOK, [Next]_vars PROVE RowsOK'
<1> USE DEF Actors
<1>1. CASE Outside
  <2>1. ASSUME NEW c \in Cidrs, Toggle(c) PROVE enabled' \subseteq Cidrs /\ UNCHANGED <<country, row, open, ids>>
    BY <2>1 DEF Toggle, TypeOK
  <2>2. ASSUME NEW a \in Addresses, NEW c \in Countries, Whois(a, c)
        PROVE  country' \in [Addresses -> Countries] /\ UNCHANGED <<enabled, row, open, ids>>
    BY <2>2 DEF Whois, TypeOK
  <2>3. ASSUME NEW a \in Addresses, Recalculate(a) PROVE UNCHANGED <<enabled, country, row, open, ids>>
    BY <2>3 DEF Recalculate, db
  <2>4. enabled' \subseteq Cidrs /\ country' \in [Addresses -> Countries] /\ UNCHANGED <<row, open, ids>>
    BY <1>1, <2>1, <2>2, <2>3 DEF Outside, TypeOK
  <2> QED BY <2>4 DEF TypeOK, RowsOK, Rows
<1>2. ASSUME NEW p \in Actors, Commit(p) PROVE RowsOK'
  <2> DEFINE new == IF Changed(p) /\ verdict[p].iran
                    THEN {[id |-> ids + 1, cidr |-> verdict[p].cidr]} ELSE {}
  <2>1. /\ open' = [open EXCEPT ![job[p]] = (open[job[p]] \ snap[p]) \cup new]
        /\ ids' = IF new = {} THEN ids ELSE ids + 1
        /\ row' = [row EXCEPT ![job[p]] = verdict[p]] /\ UNCHANGED <<enabled, country>>
    BY <1>2 DEF Commit
  <2>2. ids \in Nat /\ verdict[p] \in Verdict /\ job[p] \in Addresses
    BY DEF TypeOK
  <2>3. new \subseteq Rows(ids')
    BY <2>1, <2>2 DEF Rows, Verdict
  <2> HIDE DEF new
  <2>4. ids' \in Nat /\ Rows(ids) \subseteq Rows(ids')
    BY <2>1, <2>2 DEF Rows
  <2>5. open' \in [Addresses -> SUBSET Rows(ids')]
    BY <2>1, <2>2, <2>3, <2>4 DEF TypeOK, Rows
  <2> QED BY <2>1, <2>2, <2>4, <2>5 DEF TypeOK, RowsOK
<1>3. CASE UNCHANGED <<enabled, country, row, open, ids>>
  BY <1>3 DEF TypeOK, RowsOK, Rows
<1> QED
  BY <1>1, <1>2, <1>3
  DEF Next, Work, Classify, Load, Lock, Skip, Scan, Match, Close, Done, Crash, Expire, vars, db

LEMMA HistoryStep == ASSUME TypeOK, [Next]_vars PROVE HistoryOK'
<1> USE DEF Actors
<1>1. ASSUME NEW p \in Actors, Commit(p) \/ Skip(p) PROVE HistoryOK'
  <2>1. job[p] \in Addresses
    BY DEF TypeOK
  <2> QED BY <1>1, <2>1 DEF Commit, Record, Skip, TypeOK, HistoryOK
<1>2. CASE UNCHANGED <<stale, missed>>
  BY <1>2 DEF TypeOK, HistoryOK
<1> QED
  BY <1>1, <1>2
  DEF Next, Outside, Toggle, Whois, Recalculate, Work, Classify, Load, Lock, Scan, Match, Close,
      Done, Crash, Expire, vars, db

LEMMA KeysStep == ASSUME TypeOK, [Next]_vars PROVE KeysOK'
<1> USE ClassifyAssumption DEF Actors
<1>1. CASE UNCHANGED <<lock, pc, job, todo>>
  BY <1>1 DEF TypeOK, KeysOK
<1>2. ASSUME NEW w \in Workers, NEW a \in Addresses, Load(w, a) PROVE KeysOK'
  BY <1>2 DEF Load, TypeOK, KeysOK
<1>3. ASSUME NEW w \in Workers, Lock(w) PROVE KeysOK'
  BY <1>3 DEF Lock, local, TypeOK, KeysOK
<1>4. ASSUME NEW w \in Workers, Skip(w) PROVE KeysOK'
  BY <1>4 DEF Skip, Forget, TypeOK, KeysOK
<1>5. ASSUME NEW p \in Actors, Done(p) PROVE KeysOK'
  <2>1. /\ lock' = [a \in Addresses |-> IF lock[a] = p THEN Free ELSE lock[a]]
        /\ \A w \in Workers : w # p => pc'[w] = pc[w] /\ job'[w] = job[w] /\ todo'[w] = todo[w]
        /\ \A w \in Workers : w = p => todo'[w] = {}
    BY <1>5 DEF Done, Forget, TypeOK
  <2>2. /\ lock \in [Addresses -> Workers \cup {Free, Orphan}]
        /\ \A w \in Workers : todo[w] \subseteq {job[w]}
        /\ \A a \in Addresses, w \in Workers :
             lock[a] = w => job[w] = a /\ pc[w] \in {"ready", "matched", "writing"}
    BY DEF TypeOK, KeysOK
  <2>3. lock' \in [Addresses -> Workers \cup {Free, Orphan}]
    BY <2>1, <2>2
  <2>4. \A w \in Workers : todo'[w] \subseteq {job'[w]}
    BY <2>1, <2>2
  <2>5. ASSUME NEW a \in Addresses, NEW w \in Workers, lock'[a] = w
        PROVE  job'[w] = a /\ pc'[w] \in {"ready", "matched", "writing"}
    <3>1. w # p /\ lock[a] = w
      BY <2>1, <2>5
    <3> QED BY <2>1, <2>2, <3>1
  <2> QED BY <2>3, <2>4, <2>5 DEF KeysOK
<1>6. ASSUME NEW w \in Workers, Crash(w) PROVE KeysOK'
  BY <1>6 DEF Crash, Forget, TypeOK, KeysOK
<1>7. ASSUME NEW s \in Scanners, Scan(s) PROVE KeysOK'
  BY <1>7 DEF Scan, TypeOK, KeysOK
<1>8. ASSUME NEW p \in Actors, Close(p) \/ Commit(p) PROVE KeysOK'
  <2>1. /\ UNCHANGED <<lock, job>> /\ pc[p] \in {"matched", "writing"}
        /\ pc' = [pc EXCEPT ![p] = "writing"] \/ pc' = [pc EXCEPT ![p] = "ready"]
        /\ todo' = todo \/ todo' = [todo EXCEPT ![p] = todo[p] \ {job[p]}]
    BY <1>8 DEF Close, Commit
  <2>2. \A w \in Workers : todo'[w] \subseteq {job'[w]}
    BY <2>1 DEF TypeOK
  <2>3. \A w \in Workers : pc[w] \in {"ready", "matched", "writing"}
                               => pc'[w] \in {"ready", "matched", "writing"}
    BY <2>1 DEF TypeOK
  <2> QED BY <2>1, <2>2, <2>3 DEF TypeOK, KeysOK
<1>9. ASSUME NEW a \in Addresses, Expire(a) PROVE KeysOK'
  BY <1>9 DEF Expire, local, TypeOK, KeysOK
<1>10. ASSUME NEW p \in Actors, NEW a \in Addresses, Match(p, a) PROVE KeysOK'
  <2>1. p \in Workers => a = job[p]
    BY <1>10 DEF Match, TypeOK
  <2>2. \A w \in Workers : job'[w] = job[w]
    BY <1>10, <2>1 DEF Match, TypeOK
  <2>3. \A w \in Workers : pc[w] \in {"ready", "matched", "writing"}
                               => pc'[w] \in {"ready", "matched", "writing"}
    BY <1>10 DEF Match, TypeOK
  <2> QED BY <1>10, <2>2, <2>3 DEF Match, TypeOK, KeysOK
<1>11. CASE Outside
  BY <1>1, <1>11 DEF Outside, Toggle, Whois, Recalculate, local
<1>12. CASE UNCHANGED vars
  BY <1>1, <1>12 DEF vars, local
<1> QED
  BY <1>2, <1>3, <1>4, <1>5, <1>6, <1>7, <1>8, <1>9, <1>10, <1>11, <1>12 DEF Next, Work, Classify

LEMMA CountsStep == ASSUME TypeOK, [Next]_vars PROVE CountsOK'
<1> USE DEF Actors
<1>1. CASE Outside
  <2>1. events' = events + 1 /\ crashes' = crashes
    BY <1>1 DEF Outside, Toggle, Whois, Recalculate, Event
  <2>2. queued' = queued \/ \E a \in Addresses : queued' = [queued EXCEPT ![a] = @ + 1]
    BY <1>1 DEF Outside, Toggle, Whois, Recalculate
  <2> QED BY <2>1, <2>2 DEF TypeOK, CountsOK
<1>2. ASSUME NEW w \in Workers, NEW a \in Addresses, Load(w, a) PROVE CountsOK'
  BY <1>2 DEF Load, TypeOK, CountsOK
<1>3. ASSUME NEW w \in Workers, Crash(w) PROVE CountsOK'
  BY <1>3 DEF Crash, TypeOK, CountsOK
<1>4. ASSUME NEW s \in Scanners, Scan(s) PROVE CountsOK'
  BY <1>4 DEF Scan, Event, TypeOK, CountsOK
<1>5. CASE UNCHANGED <<queued, events, crashes>>
  BY <1>5 DEF TypeOK, CountsOK
<1> QED
  BY <1>1, <1>2, <1>3, <1>4, <1>5 DEF Next, Work, Classify, Lock, Skip, Match, Close, Commit, Done, Expire, vars

\* The shape of the state is an invariant, and a key is held by the worker inside.
THEOREM TypeCorrect == Spec => []TypeOK
<1>1. Init => TypeOK
  <2> SUFFICES ASSUME Init PROVE TypeOK
    OBVIOUS
  <2>1. NotIran \in Verdict /\ [is |-> NotIran, country |-> ""] \in Copy /\ "" \in Countries
    BY DEF NotIran, Verdict, Copy, Countries
  <2>2. LocalOK /\ RowsOK /\ HistoryOK /\ CountsOK
    BY <2>1 DEF Init, LocalOK, RowsOK, HistoryOK, CountsOK
  <2>3. KeysOK
    BY ClassifyAssumption DEF Init, KeysOK, Actors
  <2> QED BY <2>2, <2>3, TypeParts
<1>2. TypeOK /\ [Next]_vars => TypeOK'
  <2> SUFFICES ASSUME TypeOK, [Next]_vars PROVE TypeOK'
    OBVIOUS
  <2>1. LocalOK' /\ RowsOK' /\ KeysOK' /\ HistoryOK' /\ CountsOK'
    BY LocalStep, RowsStep, KeysStep, HistoryStep, CountsStep
  <2> QED BY <2>1 DEF TypeOK, LocalOK, RowsOK, KeysOK, HistoryOK, CountsOK, Rows
<1> QED BY <1>1, <1>2, PTL DEF Spec
-----------------------------------------------------------------------------
\* Without a scan, who is in the body holds the key of the address in hand, and
\* so the open rows its UPDATE found are still all there are when it commits.
Inside(w) == pc[w] \in {"ready", "matched", "writing"}
WritersAlone ==
    \A w \in Workers :
      /\ Inside(w) => lock[job[w]] = w
      /\ pc[w] = "writing" /\ Changed(w) => snap[w] = open[job[w]]

\* No other worker changes what a worker's claims are about.
LEMMA AloneKept ==
    ASSUME TypeOK, WritersAlone, NEW w \in Workers,
           UNCHANGED <<pc[w], job[w], copy[w], verdict[w], snap[w]>>,
           Inside(w) => lock'[job[w]] = lock[job[w]] /\ open'[job[w]] = open[job[w]]
    PROVE  /\ Inside(w)' => lock'[job'[w]] = w
           /\ pc'[w] = "writing" /\ Changed(w)' => snap'[w] = open'[job'[w]]
<1>1. Inside(w)' <=> Inside(w)
  BY DEF Inside
<1>2. Changed(w)' <=> Changed(w)
  BY DEF Changed
<1>3. pc[w] = "writing" => Inside(w)
  BY DEF Inside
<1> QED BY <1>1, <1>2, <1>3 DEF WritersAlone

LEMMA AloneStep ==
    ASSUME TypeOK, WritersAlone, Scanners = {}, [Next]_vars PROVE WritersAlone'
<1> USE ClassifyAssumption DEF Actors
<1> SUFFICES ASSUME NEW w \in Workers
             PROVE  /\ Inside(w)' => lock'[job'[w]] = w
                    /\ pc'[w] = "writing" /\ Changed(w)' => snap'[w] = open'[job'[w]]
  BY DEF WritersAlone
<1> DEFINE Goal == /\ Inside(w)' => lock'[job'[w]] = w
                   /\ pc'[w] = "writing" /\ Changed(w)' => snap'[w] = open'[job'[w]]
<1>1. CASE UNCHANGED <<lock, pc, job, copy, verdict, snap, open>>
  BY <1>1, AloneKept
<1>2. ASSUME NEW p \in Workers, p # w, Work(p) \/ Crash(p) PROVE Goal
  <2>1. UNCHANGED <<pc[w], job[w], copy[w], verdict[w], snap[w]>>
    <3> DEFINE Alone == UNCHANGED <<pc[w], job[w], copy[w], verdict[w], snap[w]>>
    <3>1. (\E a \in Addresses : Load(p, a)) \/ Lock(p) \/ Skip(p) => Alone
      <4>1. (\E a \in Addresses : Load(p, a)) => Alone
        BY <1>2 DEF Load, TypeOK
      <4>2. Lock(p) => Alone
        BY <1>2 DEF Lock, local, TypeOK
      <4>3. Skip(p) => Alone
        BY <1>2 DEF Skip, Forget, TypeOK
      <4> QED BY <4>1, <4>2, <4>3
    <3>2. (\E a \in Addresses : Match(p, a)) \/ Close(p) \/ Commit(p) => Alone
      BY <1>2 DEF Match, Close, Commit, local, TypeOK
    <3>3. Done(p) \/ Crash(p) => Alone
      <4>1. Done(p) => Alone
        BY <1>2 DEF Done, Forget, TypeOK
      <4>2. Crash(p) => Alone
        BY <1>2 DEF Crash, Forget, TypeOK
      <4> QED BY <4>1, <4>2
    <3> HIDE DEF Alone
    <3>4. Alone
      BY <1>2, <3>1, <3>2, <3>3 DEF Work, Classify
    <3> QED BY <3>4 DEF Alone
  <2>2. ASSUME Inside(w) PROVE lock'[job[w]] = lock[job[w]] /\ open'[job[w]] = open[job[w]]
    <3>1. lock[job[w]] = w /\ job[w] \in Addresses
      BY <2>2 DEF WritersAlone, TypeOK
    <3>2. CASE Commit(p)
      <4>1. lock[job[p]] = p
        BY <3>2 DEF Commit, WritersAlone, Inside
      <4>2. job[p] # job[w]
        BY <1>2, <3>1, <4>1
      <4> QED BY <3>1, <3>2, <4>2 DEF Commit, TypeOK
    <3>3. CASE ~Commit(p)
      BY <1>2, <3>1, <3>3
      DEF Work, Classify, Load, Lock, Skip, Match, Close, Done, Crash, db, TypeOK
    <3> QED BY <3>2, <3>3
  <2> QED BY <2>1, <2>2, AloneKept
<1>3. ASSUME NEW a \in Addresses, Load(w, a) PROVE Goal
  BY <1>3 DEF Load, Inside, TypeOK
<1>4. CASE Lock(w)
  BY <1>4 DEF Lock, Inside, local, TypeOK
<1>5. CASE Skip(w) \/ Done(w) \/ Crash(w)
  <2>1. Forget(w)
    BY <1>5 DEF Skip, Done, Crash
  <2>2. pc'[w] = "idle"
    BY <2>1 DEF Forget, TypeOK
  <2> QED BY <2>2 DEF Inside
<1>6. ASSUME NEW a \in Addresses, Match(w, a) PROVE Goal
  <2>1. job'[w] = job[w] /\ lock[job[w]] = w
    BY <1>6 DEF Match, WritersAlone, Inside, TypeOK
  <2> QED BY <1>6, <2>1 DEF Match, TypeOK
<1>7. CASE Close(w)
  <2>1. lock[job[w]] = w
    BY <1>7 DEF Close, WritersAlone, Inside
  <2>2. Changed(w)' <=> Changed(w)
    BY <1>7 DEF Close, Changed
  <2> QED BY <1>7, <2>1, <2>2 DEF Close, db, TypeOK
<1>8. CASE Commit(w)
  BY <1>8 DEF Commit, WritersAlone, Inside, TypeOK
<1>9. ASSUME NEW a \in Addresses, Expire(a) PROVE Goal
  <2>1. Inside(w) => lock'[job[w]] = lock[job[w]]
    BY <1>9 DEF Expire, WritersAlone, TypeOK
  <2> QED BY <1>9, <2>1, AloneKept DEF Expire, local, db
<1>10. CASE Outside
  BY <1>1, <1>10 DEF Outside, Toggle, Whois, Recalculate, local, db
<1>11. CASE UNCHANGED vars
  BY <1>1, <1>11 DEF vars, local, db
<1>12. CASE Next
  <2>1. CASE \E p \in Workers : Work(p) \/ Crash(p)
    <3>1. PICK p \in Workers : Work(p) \/ Crash(p)
      BY <2>1
    <3>2. CASE p = w
      BY <3>1, <3>2, <1>3, <1>4, <1>5, <1>6, <1>7, <1>8 DEF Work, Classify
    <3>3. CASE p # w
      BY <3>1, <3>3, <1>2
    <3> QED BY <3>2, <3>3
  <2> QED BY <1>12, <2>1, <1>9, <1>10 DEF Next
<1> QED BY <1>11, <1>12

LEMMA OneOpenStep ==
    ASSUME TypeOK, WritersAlone, AtMostOneOpen, Scanners = {}, [Next]_vars PROVE AtMostOneOpen'
<1> USE DEF Actors
<1>1. CASE UNCHANGED open
  BY <1>1 DEF AtMostOneOpen
<1>2. ASSUME NEW p \in Workers, Commit(p) PROVE AtMostOneOpen'
  <2> DEFINE new == IF Changed(p) /\ verdict[p].iran
                    THEN {[id |-> ids + 1, cidr |-> verdict[p].cidr]} ELSE {}
  <2>1. open' = [open EXCEPT ![job[p]] = (open[job[p]] \ snap[p]) \cup new] /\ pc[p] = "writing"
    BY <1>2 DEF Commit
  <2>2. \A g, h \in new : g = h
    OBVIOUS
  <2>3. ~Changed(p) => new = {}
    OBVIOUS
  <2>4. Changed(p) => open[job[p]] \ snap[p] = {}
    BY <2>1 DEF WritersAlone
  <2> HIDE DEF new
  <2>5. \A g, h \in (open[job[p]] \ snap[p]) \cup new : g = h
    <3>1. CASE Changed(p)
      BY <2>2, <2>4, <3>1
    <3>2. CASE ~Changed(p)
      BY <2>3, <3>2 DEF AtMostOneOpen, TypeOK
    <3> QED BY <3>1, <3>2
  <2> QED BY <2>1, <2>5 DEF AtMostOneOpen, TypeOK
<1> QED
  BY <1>1, <1>2
  DEF Next, Outside, Toggle, Whois, Recalculate, Work, Classify, Load, Lock, Skip, Match, Close,
      Done, Crash, Expire, vars, db

\* While no scan runs, no address ever has two open periods: for any number of
\* workers, crashes and rows read before the lock.
THEOREM AtMostOneOpenThm == ASSUME Scanners = {} PROVE Spec => []AtMostOneOpen
<1>1. Init => WritersAlone /\ AtMostOneOpen
  BY DEF Init, WritersAlone, AtMostOneOpen, Inside, Actors
<1>2. TypeOK /\ WritersAlone /\ AtMostOneOpen /\ [Next]_vars => (WritersAlone /\ AtMostOneOpen)'
  BY AloneStep, OneOpenStep
<1> QED BY <1>1, <1>2, TypeCorrect, PTL DEF Spec
-----------------------------------------------------------------------------
\* What a commit does to the address in hand.
LEMMA CommitAgrees ==
    ASSUME TypeOK, NEW p \in Actors, Commit(p), ~Outdated(p),
           NEW a \in Addresses, a = job[p], Agrees(a)
    PROVE  Agrees(a)'
<1> DEFINE new == IF Changed(p) /\ verdict[p].iran
                  THEN {[id |-> ids + 1, cidr |-> verdict[p].cidr]} ELSE {}
<1>1. row'[a] = verdict[p] /\ open'[a] = (open[a] \ snap[p]) \cup new
  BY DEF Commit, TypeOK
<1>2. CASE Changed(p)
  <2>1. open'[a] = new
    BY <1>1, <1>2 DEF Outdated
  <2>2. CASE verdict[p].iran
    <3>1. open'[a] = {[id |-> ids + 1, cidr |-> verdict[p].cidr]}
      BY <1>2, <2>1, <2>2
    <3>2. [id |-> ids + 1, cidr |-> verdict[p].cidr].cidr = verdict[p].cidr
      OBVIOUS
    <3> QED BY <1>1, <2>2, <3>1, <3>2 DEF Agrees
  <2>3. CASE ~verdict[p].iran
    BY <1>1, <2>1, <2>3 DEF Agrees
  <2> QED BY <2>2, <2>3
<1>3. CASE ~Changed(p)
  <2>1. row'[a] = row[a]
    BY <1>1, <1>3 DEF Changed, Outdated
  <2>2. open'[a] = open[a] \ snap[p]
    BY <1>1, <1>3
  <2>3. snap[p] = {}
    BY <1>3 DEF Outdated
  <2> QED BY <2>1, <2>2, <2>3 DEF Agrees
<1> QED BY <1>2, <1>3

\* Where every commit of an address was decided from its row as it was at the
\* commit, the row and its open period agree: for any workers, scans and crashes.
THEOREM RowAgreesUnlessStaleThm == Spec => []RowAgreesUnlessStale
<1>1. Init => RowAgreesUnlessStale
  <2> SUFFICES ASSUME Init, NEW a \in Addresses PROVE Agrees(a)
    BY DEF RowAgreesUnlessStale
  <2>1. row[a] = NotIran /\ open[a] = {} /\ ~NotIran.iran
    BY DEF Init, NotIran
  <2> QED BY <2>1 DEF Agrees
<1>2. TypeOK /\ RowAgreesUnlessStale /\ [Next]_vars => RowAgreesUnlessStale'
  <2> SUFFICES ASSUME TypeOK, RowAgreesUnlessStale, [Next]_vars PROVE RowAgreesUnlessStale'
    OBVIOUS
  <2> USE DEF Actors
  <2>1. CASE UNCHANGED <<row, open, stale>>
    BY <2>1 DEF RowAgreesUnlessStale, Agrees
  <2>2. ASSUME NEW p \in Actors, Commit(p) PROVE RowAgreesUnlessStale'
    <3> SUFFICES ASSUME NEW a \in Addresses, a \notin stale' PROVE Agrees(a)'
      BY DEF RowAgreesUnlessStale
    <3>1. a \notin stale /\ (a = job[p] => ~Outdated(p)) /\ Agrees(a)
      BY <2>2 DEF Commit, Record, RowAgreesUnlessStale
    <3>2. CASE a = job[p]
      BY <2>2, <3>1, <3>2, CommitAgrees
    <3>3. CASE a # job[p]
      <4>1. row'[a] = row[a] /\ open'[a] = open[a]
        BY <2>2, <3>3 DEF Commit, TypeOK
      <4> QED BY <3>1, <4>1 DEF Agrees
    <3> QED BY <3>2, <3>3
  <2> QED
    BY <2>1, <2>2
    DEF Next, Outside, Toggle, Whois, Recalculate, Work, Classify, Load, Lock, Skip, Scan, Match, Close,
        Done, Crash, Expire, vars, db
<1> QED BY <1>1, <1>2, TypeCorrect, PTL DEF Spec
-----------------------------------------------------------------------------
(***************************************************************************)
(* With scans beside them the workers no longer write alone, but each scan *)
(* can leave one open period behind, and the workers, one after the other  *)
(* under the lock of the address, one between them.  The invariant gives   *)
(* every open period its writer, and says that a writer about to commit a  *)
(* change has the period it left before among those its UPDATE closes.     *)
(***************************************************************************)
KeyHeld == \A w \in Workers : Inside(w) => lock[job[w]] = w

AnyWorker == CHOOSE x : x \notin Scanners
Writers == Scanners \cup {AnyWorker}
Writer(p) == IF p \in Scanners THEN p ELSE AnyWorker
Writing(p, a) == pc[p] = "writing" /\ job[p] = a /\ Changed(p)
Owned(a, f) ==
    /\ \A g, h \in open[a] : f[g] = f[h] => g = h
    /\ \A p \in Actors : Writing(p, a) => \A h \in open[a] : f[h] = Writer(p) => h \in snap[p]
Owners == \A a \in Addresses : \E f \in [open[a] -> Writers] : Owned(a, f)

LEMMA KeyHeldStep == ASSUME TypeOK, KeyHeld, [Next]_vars PROVE KeyHeld'
<1> USE ClassifyAssumption DEF Actors
<1> SUFFICES ASSUME NEW w \in Workers, Inside(w)' PROVE lock'[job'[w]] = w
  BY DEF KeyHeld
<1>1. ASSUME pc'[w] = pc[w], job'[w] = job[w], lock[job[w]] = w => lock'[job[w]] = w
      PROVE  lock'[job'[w]] = w
  BY <1>1 DEF KeyHeld, Inside
<1>2. CASE Outside \/ UNCHANGED vars
  BY <1>1, <1>2 DEF Outside, Toggle, Whois, Recalculate, vars, local
<1>3. ASSUME NEW a \in Addresses, Expire(a) PROVE lock'[job'[w]] = w
  BY <1>1, <1>3 DEF Expire, local, TypeOK
<1>4. ASSUME NEW p \in Actors, p # w, Work(p) \/ Crash(p) \/ Scan(p)
      PROVE  lock'[job'[w]] = w
  <2>1. pc'[w] = pc[w] /\ job'[w] = job[w]
    <3>1. (\E a \in Addresses : Load(p, a)) \/ Lock(p) \/ Skip(p) \/ Scan(p) => pc'[w] = pc[w] /\ job'[w] = job[w]
      BY <1>4 DEF Load, Lock, Skip, Scan, Forget, local, TypeOK
    <3>2. (\E a \in Addresses : Match(p, a)) \/ Close(p) \/ Commit(p) => pc'[w] = pc[w] /\ job'[w] = job[w]
      BY <1>4 DEF Match, Close, Commit, TypeOK
    <3>3. Done(p) \/ Crash(p) => pc'[w] = pc[w] /\ job'[w] = job[w]
      BY <1>4 DEF Done, Crash, Forget, TypeOK
    <3> QED BY <1>4, <3>1, <3>2, <3>3 DEF Work, Classify
  <2>2. ASSUME lock[job[w]] = w PROVE lock'[job[w]] = w
    <3>1. job[w] \in Addresses
      BY DEF TypeOK
    <3>2. (\E a \in Addresses : Load(p, a)) \/ Skip(p) \/ Scan(p) \/ (\E a \in Addresses : Match(p, a))
            \/ Close(p) \/ Commit(p) => lock' = lock
      BY DEF Load, Skip, Scan, Match, Close, Commit
    <3>3. Lock(p) \/ Done(p) \/ Crash(p) => lock'[job[w]] = w
      BY <1>4, <2>2, <3>1 DEF Lock, Done, Crash, TypeOK
    <3> QED BY <1>4, <2>2, <3>2, <3>3 DEF Work, Classify
  <2> QED BY <1>1, <2>1, <2>2
<1>5. CASE Lock(w)
  BY <1>5 DEF Lock, local, TypeOK
<1>6. CASE (\E a \in Addresses : Load(w, a)) \/ Skip(w) \/ Done(w) \/ Crash(w)
  <2>1. pc'[w] \in {"idle", "loaded"}
    BY <1>6 DEF Load, Skip, Done, Crash, Forget, TypeOK
  <2> QED BY <2>1 DEF Inside
<1>7. ASSUME NEW a \in Addresses, Match(w, a) PROVE lock'[job'[w]] = w
  <2>1. job'[w] = job[w] /\ lock' = lock /\ Inside(w)
    BY <1>7 DEF Match, Inside, TypeOK
  <2> QED BY <2>1 DEF KeyHeld
<1>8. CASE Close(w) \/ Commit(w)
  <2>1. job' = job /\ lock' = lock /\ Inside(w)
    BY <1>8 DEF Close, Commit, Inside
  <2> QED BY <2>1 DEF KeyHeld
<1>9. CASE \E p \in Workers : Work(p) \/ Crash(p)
  <2>1. PICK p \in Workers : Work(p) \/ Crash(p)
    BY <1>9
  <2>2. CASE p = w
    BY <2>1, <2>2, <1>5, <1>6, <1>7, <1>8 DEF Work, Classify
  <2>3. CASE p # w
    BY <2>1, <2>3, <1>4
  <2> QED BY <2>2, <2>3
<1>10. CASE \E p \in Scanners : Scan(p) \/ Classify(p)
  BY <1>4, <1>10 DEF Work
<1> QED BY <1>2, <1>3, <1>9, <1>10 DEF Next

\* A step that opens and closes no period, and that no actor's UPDATE misses.
LEMMA OwnersKept ==
    ASSUME Owners, UNCHANGED open,
           \A p \in Actors, a \in Addresses : Writing(p, a)' =>
              (Writing(p, a) /\ snap'[p] = snap[p]) \/ open[a] \subseteq snap'[p]
    PROVE  Owners'
<1> SUFFICES ASSUME NEW a \in Addresses PROVE \E f \in [open'[a] -> Writers] : Owned(a, f)'
  BY DEF Owners, Writers
<1>1. PICK f \in [open[a] -> Writers] : Owned(a, f)
  BY DEF Owners
<1>2. \A p \in Actors : Writing(p, a)' => \A h \in open[a] : f[h] = Writer(p) => h \in snap'[p]
  BY <1>1 DEF Owned
<1>3. Owned(a, f)'
  BY <1>1, <1>2 DEF Owned, Writer
<1> QED BY <1>3

\* Two that write the same address are not both workers.
LEMMA WriterUnique ==
    ASSUME TypeOK, KeyHeld, NEW p \in Actors, NEW q \in Actors, Writer(p) = Writer(q),
           pc[p] = "writing", pc[q] = "writing", job[p] = job[q]
    PROVE  p = q
<1>1. AnyWorker \notin Scanners
  BY NoSetContainsEverything DEF AnyWorker
<1>2. CASE p \in Scanners \/ q \in Scanners
  BY <1>1, <1>2 DEF Writer
<1>3. CASE p \in Workers /\ q \in Workers
  BY <1>3 DEF KeyHeld, Inside
<1> QED BY <1>2, <1>3 DEF Actors

LEMMA CommitOwners ==
    ASSUME TypeOK, KeyHeld, Owners, NEW p \in Actors, Commit(p) PROVE Owners'
<1> SUFFICES ASSUME NEW a \in Addresses PROVE \E f \in [open'[a] -> Writers] : Owned(a, f)'
  BY DEF Owners, Writers
<1> DEFINE new == IF Changed(p) /\ verdict[p].iran
                  THEN {[id |-> ids + 1, cidr |-> verdict[p].cidr]} ELSE {}
           kept == open[a] \ snap[p]
<1>1. PICK f \in [open[a] -> Writers] : Owned(a, f)
  BY DEF Owners
<1>2. /\ pc[p] = "writing" /\ pc'[p] = "ready" /\ UNCHANGED <<job, copy, verdict, snap>>
      /\ \A q \in Actors : q # p => pc'[q] = pc[q]
  BY DEF Commit, TypeOK
<1>3. \A q \in Actors : Writing(q, a)' => q # p /\ Writing(q, a)
  BY <1>2 DEF Writing, Changed
<1>4. CASE a # job[p]
  <2>1. open'[a] = open[a]
    BY <1>4 DEF Commit, TypeOK
  <2>2. Owned(a, f)'
    BY <1>1, <1>2, <1>3, <2>1 DEF Owned, Writer
  <2> QED BY <1>1, <2>1, <2>2
<1>5. CASE a = job[p]
  <2>1. open'[a] = kept \cup new
    BY <1>5 DEF Commit, TypeOK
  <2>2. \A g, h \in new : g = h
    OBVIOUS
  <2>3. new # {} => Changed(p)
    OBVIOUS
  <2> HIDE DEF new
  <2>4. PICK g \in [open'[a] -> Writers] :
               \A h \in open'[a] : g[h] = IF h \in kept THEN f[h] ELSE Writer(p)
    <3> DEFINE g == [h \in open'[a] |-> IF h \in kept THEN f[h] ELSE Writer(p)]
    <3>1. g \in [open'[a] -> Writers]
      BY <1>1, <2>1 DEF Writers, Writer
    <3> QED BY <3>1
  <2>5. \A h \in kept : f[h] = Writer(p) => new = {}
    BY <1>1, <1>2, <1>5, <2>3 DEF Owned, Writing
  <2>6. ASSUME NEW x \in open'[a], NEW y \in open'[a], g[x] = g[y] PROVE x = y
    <3>1. CASE x \in kept /\ y \in kept
      BY <1>1, <2>4, <2>6, <3>1 DEF Owned
    <3>2. CASE x \in kept /\ y \notin kept
      BY <2>1, <2>4, <2>5, <2>6, <3>2
    <3>3. CASE x \notin kept /\ y \in kept
      BY <2>1, <2>4, <2>5, <2>6, <3>3
    <3>4. CASE x \notin kept /\ y \notin kept
      BY <2>1, <2>2, <3>4
    <3> QED BY <3>1, <3>2, <3>3, <3>4
  <2>7. ASSUME NEW q \in Actors, Writing(q, a)', NEW h \in open'[a], g[h] = Writer(q)
        PROVE  h \in snap'[q]
    <3>1. q # p /\ Writing(q, a) /\ snap' = snap
      BY <1>2, <1>3, <2>7
    <3>2. CASE h \in kept
      BY <1>1, <2>4, <2>7, <3>1, <3>2 DEF Owned
    <3>3. CASE h \notin kept
      <4>1. Writer(p) = Writer(q)
        BY <2>4, <2>7, <3>3
      <4> QED BY <1>2, <1>5, <3>1, <4>1, WriterUnique DEF Writing
    <3> QED BY <3>2, <3>3
  <2>8. Owned(a, g)'
    <3>1. \A q \in Actors : Writing(q, a)' => \A h \in open'[a] : g[h] = Writer(q) => h \in snap'[q]
      BY <2>7
    <3> QED BY <2>6, <3>1 DEF Owned, Writer
  <2> QED BY <2>4, <2>8
<1> QED BY <1>4, <1>5

LEMMA OwnersStep == ASSUME TypeOK, KeyHeld, Owners, [Next]_vars PROVE Owners'
<1> USE DEF Actors
<1>1. CASE UNCHANGED <<open, pc, job, copy, verdict, snap>>
  BY <1>1, OwnersKept DEF Writing, Changed
<1>2. CASE Outside \/ UNCHANGED vars \/ \E a \in Addresses : Expire(a)
  BY <1>1, <1>2 DEF Outside, Toggle, Whois, Recalculate, Expire, vars, local, db
<1>3. ASSUME NEW p \in Actors, UNCHANGED open, pc'[p] # "writing",
             \A q \in Actors : q # p => /\ pc'[q] = pc[q] /\ job'[q] = job[q] /\ copy'[q] = copy[q]
                                        /\ verdict'[q] = verdict[q] /\ snap'[q] = snap[q]
      PROVE  Owners'
  BY <1>3, OwnersKept DEF Writing, Changed
<1>4. ASSUME NEW p \in Actors, (\E a \in Addresses : Load(p, a) \/ Match(p, a)) \/ Lock(p) \/ Scan(p)
      PROVE  Owners'
  BY <1>3, <1>4 DEF Load, Lock, Scan, Match, TypeOK, db, local
<1>5. ASSUME NEW p \in Actors, Skip(p) \/ Done(p) \/ Crash(p)
      PROVE  Owners'
  <2>1. UNCHANGED open /\ Forget(p)
    BY <1>5 DEF Skip, Done, Crash, db
  <2>2. pc'[p] = "idle"
    BY <2>1 DEF Forget, TypeOK
  <2>3. \A q \in Actors : q # p => /\ pc'[q] = pc[q] /\ job'[q] = job[q] /\ copy'[q] = copy[q]
                                   /\ verdict'[q] = verdict[q] /\ snap'[q] = snap[q]
    BY <2>1 DEF Forget, TypeOK
  <2> QED BY <1>3, <2>1, <2>2, <2>3
<1>6. ASSUME NEW p \in Actors, Close(p) PROVE Owners'
  <2>1. UNCHANGED <<open, job, copy, verdict>>
    BY <1>6 DEF Close, db
  <2>2. \A q \in Actors : Changed(q)' <=> Changed(q)
    BY <2>1 DEF Changed
  <2>3. snap'[p] = IF Changed(p) THEN open[job[p]] ELSE {}
    BY <1>6 DEF Close, TypeOK
  <2>4. \A q \in Actors : q # p => pc'[q] = pc[q] /\ snap'[q] = snap[q]
    BY <1>6 DEF Close, TypeOK
  <2> QED BY <2>1, <2>2, <2>3, <2>4, OwnersKept DEF Writing
<1>7. ASSUME NEW p \in Actors, Commit(p) PROVE Owners'
  BY <1>7, CommitOwners
<1> QED BY <1>2, <1>4, <1>5, <1>6, <1>7 DEF Next, Work, Classify

\* However often the scans of validation runs meet the classification of an
\* address, it has at most one open period for the workers and one per scan.
THEOREM OnePeriodPerWriterThm == ASSUME IsFiniteSet(Scanners) PROVE Spec => []OnePeriodPerWriter
<1>1. Init => KeyHeld /\ Owners
  <2> SUFFICES ASSUME Init PROVE KeyHeld /\ Owners
    OBVIOUS
  <2>1. KeyHeld
    BY DEF Init, KeyHeld, Inside, Actors
  <2>2. ASSUME NEW a \in Addresses PROVE \E f \in [open[a] -> Writers] : Owned(a, f)
    <3>1. open[a] = {} /\ \A p \in Actors : pc[p] # "writing"
      BY DEF Init
    <3>2. [h \in open[a] |-> AnyWorker] \in [open[a] -> Writers]
      BY DEF Writers
    <3>3. Owned(a, [h \in open[a] |-> AnyWorker])
      BY <3>1 DEF Owned, Writing
    <3> QED BY <3>2, <3>3
  <2> QED BY <2>1, <2>2 DEF Owners
<1>2. TypeOK /\ KeyHeld /\ Owners /\ [Next]_vars => (KeyHeld /\ Owners)'
  BY KeyHeldStep, OwnersStep
<1>3. Owners => OnePeriodPerWriter
  <2> SUFFICES ASSUME Owners, NEW a \in Addresses
               PROVE  Cardinality(open[a]) =< 1 + Cardinality(Scanners)
    BY DEF OnePeriodPerWriter
  <2>1. PICK f \in [open[a] -> Writers] : Owned(a, f)
    BY DEF Owners
  <2>2. f \in Injection(open[a], Writers)
    BY <2>1 DEF Owned, Injection, IsInjective
  <2>3. AnyWorker \notin Scanners
    BY NoSetContainsEverything DEF AnyWorker
  <2>4. IsFiniteSet(Writers) /\ Cardinality(Writers) = Cardinality(Scanners) + 1
    BY <2>3, FS_AddElement DEF Writers
  <2>5. Cardinality(open[a]) =< Cardinality(Writers)
    BY <2>2, <2>4, FS_Injection
  <2>6. Cardinality(Scanners) \in Nat
    BY FS_CardinalityType
  <2> QED BY <2>4, <2>5, <2>6
<1> QED BY <1>1, <1>2, <1>3, TypeCorrect, PTL DEF Spec
-----------------------------------------------------------------------------
(***************************************************************************)
(* The whole validation run whose scan the above has, row by row, as       *)
(* IranNetworks models it, for any addresses, CIDRs, feeds and bounds.     *)
(* CN!NetworksAssumption is what it assumes of its constants.              *)
(***************************************************************************)
CONSTANTS Feeds, WhoisIran, Sources
VARIABLES net, result, place, source, fetched, left, changed, before, touched, cut,
          acts, deaths   \* result, place, left, acts, deaths: IranNetworks' row, pc, todo, events, crashes

CN == INSTANCE IranNetworks WITH row <- result, pc <- place, todo <- left, events <- acts, crashes <- deaths

LEMMA CoverTyped ==
    ASSUME NEW a \in Addresses, NEW v \in CN!Verdicts(a)
    PROVE  /\ v \in [iran : BOOLEAN, cidr : Cidrs \cup {CN!NoCidr}]
           /\ v.cidr = CN!NoCidr \/ v.cidr \in CN!Enabled
<1>1. CASE CN!Covering(a) = {}
  <2>1. v = [iran |-> a \in WhoisIran, cidr |-> CN!NoCidr]
    BY <1>1 DEF CN!Verdicts
  <2>2. (a \in WhoisIran) \in BOOLEAN
    OBVIOUS
  <2> QED BY <2>1, <2>2
<1>2. CASE CN!Covering(a) # {}
  <2>1. PICK c \in CN!Narrowest(a) : v = [iran |-> TRUE, cidr |-> c]
    BY <1>2 DEF CN!Verdicts
  <2>2. c \in CN!Enabled /\ c \in Cidrs
    BY DEF CN!Narrowest, CN!Covering, CN!Enabled
  <2> QED BY <2>1, <2>2
<1> QED BY <1>1, <1>2

Net == [source : {"none", "manual", "ripencc"}, enabled : BOOLEAN]

LEMMA Switched ==
    ASSUME NEW n \in Net, NEW b \in BOOLEAN
    PROVE  /\ [n EXCEPT !.enabled = b] = [source |-> n.source, enabled |-> b]
           /\ [n EXCEPT !.enabled = b] \in Net
<1>1. [n EXCEPT !.enabled = b] = [source |-> n.source, enabled |-> b]
  BY DEF Net
<1> QED BY <1>1 DEF Net

\* Every variable keeps its shape.
LEMMA NetworksTypeStep == ASSUME CN!NetworksAssumption, CN!TypeOK, [CN!Next]_(CN!vars) PROVE CN!TypeOK'
<1> USE CN!NetworksAssumption
<1>0. \A c \in Cidrs : net[c] \in Net
  BY DEF CN!TypeOK, Net
<1>1. ASSUME NEW c \in Cidrs, CN!Add(c) \/ CN!Toggle(c) PROVE CN!TypeOK'
  <2>1. net' \in [Cidrs -> Net]
    <3>1. CASE CN!Add(c)
      BY <3>1 DEF CN!Add, CN!TypeOK, Net
    <3>2. CASE CN!Toggle(c)
      <4>1. net' = [net EXCEPT ![c] = [net[c] EXCEPT !.enabled = ~net[c].enabled]]
        BY <3>2 DEF CN!Toggle
      <4>2. (~net[c].enabled) \in BOOLEAN
        BY Zenon
      <4>3. [net[c] EXCEPT !.enabled = ~net[c].enabled] \in Net
        BY <1>0, <4>2, Switched
      <4> QED BY <4>1, <4>3 DEF CN!TypeOK, Net
    <3> QED BY <1>1, <3>1, <3>2
  <2> QED BY <1>1, <2>1 DEF CN!Add, CN!Toggle, CN!Event, CN!run, CN!TypeOK, Net
<1>2. ASSUME NEW a \in Addresses, CN!Classify(a) \/ CN!Reclassify(a) PROVE CN!TypeOK'
  <2>1. result' \in [Addresses -> [iran : BOOLEAN, cidr : Cidrs \cup {CN!NoCidr}]]
    BY <1>2, CoverTyped DEF CN!Classify, CN!Reclassify, CN!TypeOK
  <2> QED BY <1>2, <2>1 DEF CN!Classify, CN!Reclassify, CN!Event, CN!run, CN!TypeOK
<1>3. ASSUME NEW s \in Sources, CN!Start(s) PROVE CN!TypeOK'
  <2>1. PICK S \in CN!Reports(s) : fetched' = S /\ left' = S
    BY <1>3 DEF CN!Start
  <2>2. S \subseteq Cidrs
    BY DEF CN!Reports, CN!Present
  <2>3. CN!Enabled \subseteq Cidrs /\ s \in {"manual", "ripencc"}
    BY DEF CN!Enabled
  <2>4. /\ UNCHANGED <<net, result, deaths>> /\ source' = s /\ changed' = FALSE /\ place' = "upsert"
        /\ before' = CN!Enabled /\ touched' = {} /\ cut' = cut /\ acts' = acts + 1
    BY <1>3 DEF CN!Start, CN!Event
  <2>5. fetched' \subseteq Cidrs /\ before' \subseteq Cidrs /\ touched' \subseteq Cidrs
        /\ source' \in {"manual", "ripencc"}
    BY <2>1, <2>2, <2>3, <2>4
  <2>6. left' \subseteq fetched' /\ place' = "upsert" /\ changed' \in BOOLEAN
    BY <2>1, <2>4
  <2>7. /\ net' \in [Cidrs -> [source : {"none", "manual", "ripencc"}, enabled : BOOLEAN]]
        /\ result' \in [Addresses -> [iran : BOOLEAN, cidr : Cidrs \cup {CN!NoCidr}]]
        /\ acts' \in Nat /\ deaths' \in Nat /\ cut' \in BOOLEAN
    BY <2>4 DEF CN!TypeOK
  <2> QED BY <2>5, <2>6, <2>7 DEF CN!TypeOK
<1>4. CASE CN!Restart
  <2>1. PICK S \in CN!Reports(source) : fetched' = S /\ left' = S
    BY <1>4 DEF CN!Restart
  <2>2. S \subseteq Cidrs
    BY DEF CN!Reports, CN!Present
  <2> QED BY <1>4, <2>1, <2>2 DEF CN!Restart, CN!TypeOK
<1>5. ASSUME NEW c \in Cidrs, CN!Upsert(c) PROVE CN!TypeOK'
  <2>1. net' \in [Cidrs -> Net]
    BY <1>5 DEF CN!Upsert, CN!TypeOK, Net
  <2>2. changed' \in BOOLEAN
    BY <1>5 DEF CN!Upsert, CN!TypeOK
  <2> QED BY <1>5, <2>1, <2>2 DEF CN!Upsert, CN!TypeOK, Net
<1>6. CASE CN!Disable
  <2>1. \A c \in Cidrs : [net[c] EXCEPT !.enabled = FALSE] \in Net
    BY <1>0, Switched
  <2>2. net' \in [Cidrs -> Net]
    BY <1>0, <1>6, <2>1 DEF CN!Disable
  <2>3. changed' \in BOOLEAN
    BY <1>6 DEF CN!Disable, CN!TypeOK
  <2> QED BY <1>6, <2>2, <2>3 DEF CN!Disable, CN!TypeOK, Net
<1>7. CASE CN!Check \/ CN!Finish
  BY <1>7 DEF CN!Check, CN!Finish, CN!TypeOK
<1>8. CASE CN!Return \/ CN!Crash
  <2>1. /\ UNCHANGED <<net, result, source, acts>> /\ place' \in {"idle", "dead"}
        /\ fetched' = {} /\ left' = {} /\ changed' = FALSE /\ deaths' \in Nat
        /\ before' \subseteq Cidrs /\ touched' \subseteq Cidrs
    BY <1>8 DEF CN!Return, CN!Crash, CN!TypeOK
  <2>2. cut' \in BOOLEAN
    BY <1>8, Zenon DEF CN!Return, CN!Crash, CN!TypeOK
  <2> QED BY <2>1, <2>2 DEF CN!TypeOK
<1>9. CASE UNCHANGED CN!vars
  BY <1>9 DEF CN!vars, CN!run, CN!TypeOK
<1> QED BY <1>1, <1>2, <1>3, <1>4, <1>5, <1>6, <1>7, <1>8, <1>9 DEF CN!Next

LEMMA NetworksTypeInit == CN!Init => CN!TypeOK
<1> SUFFICES ASSUME CN!Init PROVE CN!TypeOK
  OBVIOUS
<1>1. net \in [Cidrs -> [source : {"none", "manual", "ripencc"}, enabled : BOOLEAN]]
  BY DEF CN!Init, CN!Absent
<1>2. result \in [Addresses -> [iran : BOOLEAN, cidr : Cidrs \cup {CN!NoCidr}]]
  BY DEF CN!Init, CN!NotIran
<1> QED BY <1>1, <1>2 DEF CN!Init, CN!TypeOK

\* The shape of the state is an invariant.
THEOREM NetworksTypeCorrect == ASSUME CN!NetworksAssumption PROVE CN!Spec => []CN!TypeOK
<1>1. CN!Init => CN!TypeOK
  BY NetworksTypeInit
<1>2. CN!TypeOK /\ [CN!Next]_(CN!vars) => CN!TypeOK'
  BY NetworksTypeStep
<1> QED BY <1>1, <1>2, PTL DEF CN!Spec
-----------------------------------------------------------------------------
\* The loop has made every entry it has passed an enabled row of the source,
\* and after the UPDATE the enabled rows of the source are the entries.
Follows(n, touch) ==
    \A c \in {d \in Cidrs : n[d] # CN!Absent} \ touch :
        n[c].source = source => (n[c].enabled <=> c \in fetched)
Upserted ==
    /\ place = "upsert" => \A c \in (fetched \ left) \ touched : net[c] = [source |-> source, enabled |-> TRUE]
    /\ place \in {"check", "scan", "done"} => Follows(net, touched)

\* What operators touch is exempt, and the rest is as it was.
LEMMA OperatorsTouch ==
    ASSUME CN!TypeOK, NEW c \in Cidrs, CN!Add(c) \/ CN!Toggle(c)
    PROVE  /\ touched' = touched \cup {c} /\ \A d \in Cidrs \ {c} : net'[d] = net[d]
           /\ UNCHANGED CN!run
  BY DEF CN!Add, CN!Toggle, CN!TypeOK

LEMMA UpsertedStep == ASSUME CN!TypeOK, Upserted, [CN!Next]_(CN!vars) PROVE Upserted'
<1>1. ASSUME NEW c \in Cidrs, CN!Add(c) \/ CN!Toggle(c) PROVE Upserted'
  <2>1. touched' = touched \cup {c} /\ (\A d \in Cidrs \ {c} : net'[d] = net[d]) /\ UNCHANGED CN!run
    BY <1>1, OperatorsTouch
  <2>2. fetched \subseteq Cidrs
    BY DEF CN!TypeOK
  <2> QED BY <2>1, <2>2 DEF Upserted, Follows, CN!run
<1>2. ASSUME NEW s \in Sources, CN!Start(s) PROVE Upserted'
  BY <1>2 DEF CN!Start, Upserted
<1>3. CASE CN!Restart
  BY <1>3 DEF CN!Restart, Upserted
<1>4. ASSUME NEW c \in Cidrs, CN!Upsert(c) PROVE Upserted'
  BY <1>4 DEF CN!Upsert, Upserted, CN!TypeOK
<1>5. CASE CN!Disable
  <2> DEFINE gone == {c \in CN!Enabled : net[c].source = source /\ c \notin fetched}
  <2>1. \A c \in fetched \ touched : net[c] = [source |-> source, enabled |-> TRUE]
    BY <1>5 DEF CN!Disable, Upserted
  <2>2. \A c \in Cidrs : net'[c] = IF c \in gone THEN [net[c] EXCEPT !.enabled = FALSE] ELSE net[c]
    BY <1>5 DEF CN!Disable
  <2>3. ASSUME NEW c \in Cidrs, net'[c] # CN!Absent, c \notin touched, net'[c].source = source
        PROVE  net'[c].enabled <=> c \in fetched
    <3>1. CASE c \in gone
      <4>1. c \notin fetched /\ net'[c] = [net[c] EXCEPT !.enabled = FALSE]
        BY <2>2, <3>1
      <4>2. net[c] \in Net
        BY DEF CN!TypeOK, Net
      <4>3. net'[c].enabled = FALSE
        BY <4>1, <4>2, Switched
      <4> QED BY <4>1, <4>3
    <3>2. CASE c \notin gone
      <4>1. net'[c] = net[c]
        BY <2>2, <3>2
      <4>2. c \in fetched => net[c].enabled
        BY <2>1, <2>3
      <4>3. net[c].enabled => c \in fetched
        BY <2>3, <3>2, <4>1 DEF CN!Enabled
      <4>4. net[c].enabled \in BOOLEAN
        BY DEF CN!TypeOK
      <4> QED BY <4>1, <4>2, <4>3, <4>4
    <3> QED BY <3>1, <3>2
  <2> QED BY <1>5, <2>3 DEF CN!Disable, Upserted, Follows
<1>6. CASE CN!Check \/ CN!Finish \/ CN!Return \/ CN!Crash
  BY <1>6 DEF CN!Check, CN!Finish, CN!Return, CN!Crash, Upserted, Follows
<1>7. ASSUME NEW a \in Addresses, CN!Classify(a) \/ CN!Reclassify(a) PROVE Upserted'
  BY <1>7 DEF CN!Classify, CN!Reclassify, CN!run, Upserted, Follows
<1>8. CASE UNCHANGED CN!vars
  BY <1>8 DEF CN!vars, CN!run, Upserted, Follows
<1> QED BY <1>1, <1>2, <1>3, <1>4, <1>5, <1>6, <1>7, <1>8 DEF CN!Next

\* When a run ends, after any number of crashes and redeliveries and beside any
\* operator, the enabled rows of its source are the ones it reported.
THEOREM OwnRowsFollowTheSourceThm ==
    ASSUME CN!NetworksAssumption PROVE CN!Spec => []CN!OwnRowsFollowTheSource
<1>1. CN!Init => CN!TypeOK /\ Upserted
  BY NetworksTypeInit DEF CN!Init, Upserted
<1>2. CN!TypeOK /\ Upserted /\ [CN!Next]_(CN!vars) => (CN!TypeOK /\ Upserted)'
  BY NetworksTypeStep, UpsertedStep
<1>3. Upserted => CN!OwnRowsFollowTheSource
  BY DEF Upserted, Follows, CN!OwnRowsFollowTheSource, CN!Present
<1> QED BY <1>1, <1>2, <1>3, PTL DEF CN!Spec
-----------------------------------------------------------------------------
\* What a run has taken away so far, and, unless it was killed since, who may
\* still match it: nobody before the UPDATE, then only the addresses the scan
\* has yet to visit.
Gone == (before \ CN!Enabled) \ touched
OnlyUnvisitedMatchGone == ~cut =>
    /\ place \in {"upsert", "dead"} \/ (place \in {"check", "scan"} /\ ~changed) => Gone = {}
    /\ place \in {"scan", "done"} =>
         \A a \in Addresses \ left : result[a].iran => result[a].cidr \notin Gone

LEMMA GoneStep ==
    ASSUME CN!NetworksAssumption, CN!TypeOK, OnlyUnvisitedMatchGone, [CN!Next]_(CN!vars)
    PROVE  OnlyUnvisitedMatchGone'
<1>1. CN!NoCidr \notin Gone
  <2>1. before \subseteq Cidrs
    BY DEF CN!TypeOK
  <2>2. CN!NoCidr \notin Cidrs
    BY CN!NetworksAssumption
  <2> QED BY <2>1, <2>2 DEF Gone
<1>2. ASSUME NEW c \in Cidrs, CN!Add(c) \/ CN!Toggle(c) PROVE OnlyUnvisitedMatchGone'
  <2>1. /\ touched' = touched \cup {c} /\ (\A d \in Cidrs \ {c} : net'[d] = net[d])
        /\ UNCHANGED CN!run /\ UNCHANGED <<result, before, cut>>
    BY <1>2, OperatorsTouch DEF CN!Add, CN!Toggle
  <2>2. Gone' \subseteq Gone
    BY <2>1 DEF Gone, CN!Enabled, CN!TypeOK
  <2> QED BY <2>1, <2>2 DEF OnlyUnvisitedMatchGone, CN!run
<1>3. ASSUME NEW s \in Sources, CN!Start(s) PROVE OnlyUnvisitedMatchGone'
  BY <1>3 DEF CN!Start, OnlyUnvisitedMatchGone, Gone, CN!Enabled
<1>4. CASE CN!Restart \/ CN!Crash
  <2>1. /\ UNCHANGED <<net, before, touched>> /\ place' \in {"upsert", "dead"}
        /\ ~cut' => ~cut /\ (place \in {"upsert", "dead"} \/ (place \in {"check", "scan"} /\ ~changed))
    <3>1. CASE CN!Restart
      BY <3>1 DEF CN!Restart
    <3>2. CASE CN!Crash
      BY <3>2 DEF CN!Crash
    <3> QED BY <1>4, <3>1, <3>2
  <2> QED BY <2>1 DEF OnlyUnvisitedMatchGone, Gone, CN!Enabled
<1>5. ASSUME NEW c \in Cidrs, CN!Upsert(c) PROVE OnlyUnvisitedMatchGone'
  <2>1. CN!Enabled \subseteq CN!Enabled'
    BY <1>5 DEF CN!Upsert, CN!Enabled, CN!TypeOK
  <2> QED BY <1>5, <2>1 DEF CN!Upsert, OnlyUnvisitedMatchGone, Gone
<1>6. CASE CN!Disable
  <2> DEFINE off == {c \in CN!Enabled : net[c].source = source /\ c \notin fetched}
  <2>1. place' = "check" /\ changed' = (changed \/ off # {}) /\ UNCHANGED <<before, touched>>
    BY <1>6 DEF CN!Disable
  <2>0. cut' = cut
    BY <1>6 DEF CN!Disable
  <2>2. off = {} => CN!Enabled' = CN!Enabled
    BY <1>6 DEF CN!Disable, CN!Enabled
  <2>3. ~cut => Gone = {}
    BY <1>6 DEF CN!Disable, OnlyUnvisitedMatchGone
  <2> HIDE DEF off
  <2> QED BY <2>0, <2>1, <2>2, <2>3 DEF OnlyUnvisitedMatchGone, Gone
<1>7. CASE CN!Check
  <2>1. place' = "scan" /\ result' = result /\ Gone' = Gone /\ cut' = cut
    BY <1>7 DEF CN!Check, Gone, CN!Enabled
  <2>2. CASE changed
    BY <1>7, <2>1, <2>2 DEF CN!Check, OnlyUnvisitedMatchGone
  <2>3. CASE ~changed
    BY <1>7, <2>1, <2>3 DEF CN!Check, OnlyUnvisitedMatchGone
  <2> QED BY <2>2, <2>3
<1>8. ASSUME NEW a \in Addresses, CN!Classify(a) \/ CN!Reclassify(a) PROVE OnlyUnvisitedMatchGone'
  <2>1. PICK v \in CN!Verdicts(a) : result' = [result EXCEPT ![a] = v]
    BY <1>8 DEF CN!Classify, CN!Reclassify
  <2>2. v.cidr \notin Gone
    BY <1>1, CoverTyped DEF Gone
  <2>3. place' = place /\ changed' = changed /\ Gone' = Gone /\ left \ {a} \subseteq left'
        /\ cut' = cut
    BY <1>8 DEF CN!Classify, CN!Reclassify, CN!run, Gone, CN!Enabled
  <2> QED BY <2>1, <2>2, <2>3 DEF OnlyUnvisitedMatchGone, CN!TypeOK
<1>9. CASE CN!Finish \/ CN!Return
  BY <1>9 DEF CN!Finish, CN!Return, OnlyUnvisitedMatchGone, Gone, CN!Enabled
<1>10. CASE UNCHANGED CN!vars
  BY <1>10 DEF CN!vars, CN!run, OnlyUnvisitedMatchGone, Gone, CN!Enabled
<1> QED BY <1>2, <1>3, <1>4, <1>5, <1>6, <1>7, <1>8, <1>9, <1>10 DEF CN!Next

\* No address keeps a CIDR that a run disabled, unless that run was killed after it had:
\* whatever was killed before, and in other runs.
THEOREM DroppedCidrsLeftThm ==
    ASSUME CN!NetworksAssumption PROVE CN!Spec => []CN!DroppedCidrsLeftUnlessCrash
<1>1. CN!Init => CN!TypeOK /\ OnlyUnvisitedMatchGone
  BY NetworksTypeInit DEF CN!Init, OnlyUnvisitedMatchGone
<1>2. CN!TypeOK /\ OnlyUnvisitedMatchGone /\ [CN!Next]_(CN!vars) => (CN!TypeOK /\ OnlyUnvisitedMatchGone)'
  BY NetworksTypeStep, GoneStep
<1>3. CN!TypeOK /\ OnlyUnvisitedMatchGone => CN!DroppedCidrsLeftUnlessCrash
  BY DEF CN!TypeOK, OnlyUnvisitedMatchGone, CN!DroppedCidrsLeftUnlessCrash, CN!DroppedCidrsLeft, Gone
<1> QED BY <1>1, <1>2, <1>3, PTL DEF CN!Spec
-----------------------------------------------------------------------------
(***************************************************************************)
(* The CIDRs that the registry's file is parsed into (IpBlocks, RipeStats),*)
(* for addresses of any width.                                             *)
(***************************************************************************)

\* A set of numbers that has one has a least one: induction, by its absurd.
LEMMA LeastOf ==
    ASSUME NEW U \in SUBSET Nat, U # {}
    PROVE  \E n \in U : \A m \in U : n =< m
<1> DEFINE R == OpToRel(<, Nat)
<1>1. IsWellFoundedOn(R, Nat)
  BY NatLessThanWellFounded
<1>2. PICK n \in U : \A m \in U : ~(<<m, n>> \in R)
  <2> HIDE DEF R
  <2> QED BY <1>1, WFMin
<1>3. \A m \in U : ~(m < n)
  BY <1>2 DEF OpToRel
<1> QED BY <1>3

\* 2 ^ k counts the subsets of a set of k, and one more element doubles them.
LEMMA Doubles ==
    ASSUME NEW k \in Nat
    PROVE  2 ^ k \in Nat /\ 2 ^ (k + 1) = 2 ^ k + 2 ^ k
<1> DEFINE S == 1 .. k
           T == {s \cup {k + 1} : s \in SUBSET S}
<1>1. IsFiniteSet(S) /\ Cardinality(S) = k
  BY FS_Interval
<1>2. IsFiniteSet(SUBSET S) /\ Cardinality(SUBSET S) = 2 ^ k /\ Cardinality(SUBSET S) \in Nat
  BY <1>1, FS_SUBSET, FS_CardinalityType
<1>3. IsFiniteSet(1 .. k + 1) /\ Cardinality(1 .. k + 1) = k + 1
  BY FS_Interval
<1>4. Cardinality(SUBSET (1 .. k + 1)) = 2 ^ (k + 1)
  BY <1>3, FS_SUBSET
<1>5. k + 1 \notin S
  OBVIOUS
<1>6. SUBSET (1 .. k + 1) = (SUBSET S) \cup T /\ (SUBSET S) \cap T = {}
  <2>1. 1 .. k + 1 = S \cup {k + 1}
    OBVIOUS
  <2> HIDE DEF S
  <2>2. ASSUME NEW r \in SUBSET (1 .. k + 1), r \notin SUBSET S PROVE r \in T
    <3>1. r \ {k + 1} \in SUBSET S /\ r = (r \ {k + 1}) \cup {k + 1}
      BY <2>1, <2>2
    <3> QED BY <3>1
  <2>3. T \subseteq SUBSET (1 .. k + 1)
    BY <2>1
  <2>4. \A r \in T : k + 1 \in r
    OBVIOUS
  <2> HIDE DEF T
  <2> QED BY <1>5, <2>1, <2>2, <2>3, <2>4
<1>7. IsFiniteSet(T) /\ Cardinality(T) = Cardinality(SUBSET S)
  <2> DEFINE f == [s \in SUBSET S |-> s \cup {k + 1}]
  <2> HIDE DEF S
  <2>1. f \in Surjection(SUBSET S, T)
    BY DEF Surjection
  <2>2. \A s, r \in SUBSET S : s \cup {k + 1} = r \cup {k + 1} => s = r
    BY <1>5
  <2>3. f \in Injection(SUBSET S, T)
    BY <2>1, <2>2 DEF Surjection, Injection, IsInjective
  <2>4. f \in Bijection(SUBSET S, T)
    BY <2>1, <2>3 DEF Bijection
  <2> HIDE DEF f, T
  <2> QED BY <1>2, <2>4, FS_Bijection DEF ExistsBijection
<1> HIDE DEF S, T
<1>8. Cardinality((SUBSET S) \cup T) = Cardinality(SUBSET S) + Cardinality(T)
  <2>1. Cardinality((SUBSET S) \cup T) = Cardinality(SUBSET S) + Cardinality(T) - Cardinality((SUBSET S) \cap T)
    BY <1>2, <1>7, FS_Union
  <2>2. Cardinality((SUBSET S) \cap T) = 0
    BY <1>6, FS_EmptySet
  <2> QED BY <1>2, <1>7, <2>1, <2>2
<1> QED BY <1>2, <1>4, <1>6, <1>7, <1>8

LEMMA PowersMultiply ==
    ASSUME NEW i \in Nat
    PROVE  2 ^ i \in Nat /\ i < 2 ^ i /\ \A j \in Nat : 2 ^ (i + j) = 2 ^ i * 2 ^ j
<1>0. 2 ^ 0 = 1
  OBVIOUS
<1>1. \A j \in Nat : 2 ^ (i + j) = 2 ^ i * 2 ^ j
  <2> DEFINE U == {j \in Nat : ~(2 ^ (i + j) = 2 ^ i * 2 ^ j)}
  <2> SUFFICES ASSUME U # {} PROVE FALSE
    OBVIOUS
  <2>1. PICK n \in U : n \in Nat /\ \A m \in U : n =< m
    BY LeastOf
  <2>2. 2 ^ (i + 0) = 2 ^ i * 2 ^ 0
    <3>1. 2 ^ i \in Nat /\ i + 0 = i
      BY Doubles
    <3> QED BY <1>0, <3>1
  <2>3. n # 0
    <3>1. ~(2 ^ (i + n) = 2 ^ i * 2 ^ n)
      BY <2>1
    <3> QED BY <2>2, <3>1
  <2>4. n - 1 \in Nat /\ n - 1 \notin U
    BY <2>1, <2>3
  <2>5. 2 ^ (i + (n - 1)) = 2 ^ i * 2 ^ (n - 1)
    BY <2>4
  <2>6. (n - 1) + 1 = n /\ (i + (n - 1)) + 1 = i + n /\ i + (n - 1) \in Nat
    BY <2>1, <2>4
  <2>7. 2 ^ n = 2 ^ (n - 1) + 2 ^ (n - 1) /\ 2 ^ (n - 1) \in Nat /\ 2 ^ i \in Nat
    BY <2>4, <2>6, Doubles
  <2>8. 2 ^ (i + n) = 2 ^ (i + (n - 1)) + 2 ^ (i + (n - 1))
    BY <2>6, Doubles
  <2>9. \A x, y \in Nat : x * y + x * y = x * (y + y)
    OBVIOUS
  <2>10. 2 ^ (i + n) = 2 ^ i * 2 ^ n
    BY <2>5, <2>7, <2>8, <2>9
  <2> QED BY <2>1, <2>10
<1>2. i < 2 ^ i
  <2> DEFINE U == {j \in Nat : ~(j < 2 ^ j)}
  <2> SUFFICES ASSUME U # {} PROVE FALSE
    OBVIOUS
  <2>1. PICK n \in U : n \in Nat /\ \A m \in U : n =< m
    BY LeastOf
  <2>2. ASSUME n = 0 PROVE FALSE
    <3>1. 2 ^ n = 1
      BY <1>0, <2>2
    <3>2. ~(n < 2 ^ n)
      BY <2>1
    <3> QED BY <2>2, <3>1, <3>2
  <2>3. n - 1 \in Nat /\ n - 1 \notin U /\ (n - 1) + 1 = n
    BY <2>1, <2>2
  <2>4. n - 1 < 2 ^ (n - 1)
    BY <2>3
  <2>5. 2 ^ n = 2 ^ (n - 1) + 2 ^ (n - 1) /\ 2 ^ (n - 1) \in Nat
    BY <2>3, Doubles
  <2>6. n < 2 ^ n
    BY <2>3, <2>4, <2>5
  <2> QED BY <2>1, <2>6
<1> QED BY <1>1, <1>2, Doubles

\* The lengths of blocks divide the address space.
LEMMA LengthsOf ==
    /\ 1 \in Lengths
    /\ \A n \in Lengths : n \in Nat /\ n > 0 /\ \E m \in Nat : Size = n * m
    /\ Size \in Nat /\ Width < Size
<1>1. Width \in Nat
  BY WidthAssumption
<1>2. 2 ^ 0 = 1 /\ 0 \in 0 .. Width
  BY <1>1
<1>3. ASSUME NEW k \in 0 .. Width
      PROVE  2 ^ k \in Nat /\ 2 ^ k > 0 /\ \E m \in Nat : Size = 2 ^ k * m
  <2> DEFINE n == 2 ^ k
             m == 2 ^ (Width - k)
  <2>1. k \in Nat /\ Width - k \in Nat /\ k + (Width - k) = Width
    BY <1>1
  <2>2. Size = n * m /\ m \in Nat
    BY <2>1, PowersMultiply DEF Size
  <2>3. n \in Nat /\ k < n
    BY <2>1, PowersMultiply
  <2> HIDE DEF n, m
  <2>4. n > 0
    BY <2>1, <2>3
  <2> QED BY <2>2, <2>3, <2>4 DEF n
<1>4. Size \in Nat /\ Width < Size
  BY <1>1, PowersMultiply DEF Size
<1> QED BY <1>2, <1>3, <1>4 DEF Lengths
-----------------------------------------------------------------------------
(* What summarize_address_range yields.                                    *)

Fitting(a, last) == {n \in Lengths : a % n = 0 /\ a + n - 1 =< last}
Longest(a, last) == Max(Fitting(a, last))

LEMMA LongestOf ==
    ASSUME NEW a \in Nat, NEW last \in Nat, a =< last
    PROVE  /\ Longest(a, last) \in Lengths /\ Longest(a, last) \in Nat /\ Longest(a, last) > 0
           /\ a % Longest(a, last) = 0 /\ a + Longest(a, last) - 1 =< last
           /\ \A n \in Fitting(a, last) : n =< Longest(a, last)
<1> DEFINE F == Fitting(a, last)
           U == {last + 1 - n : n \in F}
<1>1. \A n \in F : n \in Lengths /\ n \in Nat /\ n > 0 /\ a % n = 0 /\ a + n - 1 =< last
  BY LengthsOf DEF Fitting
<1>2. 1 \in F
  <2>1. a % 1 = 0 /\ a + 1 - 1 =< last
    OBVIOUS
  <2> QED BY <2>1, LengthsOf DEF Fitting
<1> HIDE DEF F
<1>3. U \in SUBSET Nat /\ U # {}
  BY <1>1, <1>2
<1>4. PICK u \in U : \A m \in U : u =< m
  BY <1>3, LeastOf
<1>5. PICK n \in F : u = last + 1 - n
  BY <1>4
<1>6. \A m \in F : n >= m
  <2> SUFFICES ASSUME NEW m \in F PROVE n >= m
    OBVIOUS
  <2>1. u =< last + 1 - m
    BY <1>4
  <2> QED BY <1>1, <1>5, <2>1
<1>7. Max(F) \in F /\ \A m \in F : Max(F) >= m
  BY <1>6 DEF Max
<1> QED BY <1>1, <1>7 DEF F, Longest

\* The recursion of Summarize, as an equation on the addresses in A.
Summed(g, version, A, last) ==
    g = [a \in A |-> IF a > last THEN {}
                     ELSE {Block(version, a, Longest(a, last))} \cup g[a + Longest(a, last)]]
Behind(k, first, last) == {a \in first .. last + 1 : last + 1 - a =< k}

\* There is a function that meets it: it is built from behind, an address at a time.
LEMMA SummedGrows ==
    ASSUME NEW version, NEW first \in Nat, NEW last \in Nat, NEW k \in Nat,
           NEW g, Summed(g, version, Behind(k, first, last), last)
    PROVE  \E h : Summed(h, version, Behind(k + 1, first, last), last)
<1> DEFINE A == Behind(k, first, last)
           B == Behind(k + 1, first, last)
           body(f, a) == {Block(version, a, Longest(a, last))} \cup f[a + Longest(a, last)]
           h == [a \in B |-> IF a > last THEN {} ELSE body(g, a)]
<1>1. A \subseteq B /\ \A a \in B : a \in Nat /\ a =< last + 1
  BY DEF Behind
<1>2. ASSUME NEW a \in B, ~(a > last) PROVE a + Longest(a, last) \in A
  <2>1. /\ Longest(a, last) \in Nat /\ Longest(a, last) > 0
        /\ a + Longest(a, last) - 1 =< last
    BY <1>1, <1>2, LongestOf
  <2>2. a \in first .. last + 1 /\ last + 1 - a =< k + 1
    BY DEF Behind
  <2> QED BY <2>1, <2>2 DEF Behind
<1>3. \A a \in A : g[a] = IF a > last THEN {} ELSE body(g, a)
  BY DEF Summed
<1> HIDE DEF A, B
<1>4. \A a \in A : h[a] = g[a]
  BY <1>1, <1>3
<1>5. \A a \in B : h[a] = IF a > last THEN {} ELSE body(h, a)
  BY <1>2, <1>4
<1>6. h = [a \in B |-> IF a > last THEN {} ELSE body(h, a)]
  BY <1>5
<1> HIDE DEF h
<1> QED BY <1>6 DEF Summed, B

LEMMA SummedExists ==
    ASSUME NEW version, NEW first \in Nat, NEW last \in Nat
    PROVE  \E g : Summed(g, version, first .. last + 1, last)
<1> DEFINE P(k) == \E g : Summed(g, version, Behind(k, first, last), last)
           U == {k \in Nat : ~P(k)}
<1>1. P(0)
  <2> DEFINE g == [a \in Behind(0, first, last) |-> {}]
  <2>1. \A a \in Behind(0, first, last) : a > last
    BY DEF Behind
  <2>2. Summed(g, version, Behind(0, first, last), last)
    BY <2>1 DEF Summed
  <2> QED BY <2>2
<1>2. U = {}
  <2> SUFFICES ASSUME U # {} PROVE FALSE
    OBVIOUS
  <2> HIDE DEF P
  <2>1. PICK n \in U : n \in Nat /\ \A m \in U : n =< m
    BY LeastOf
  <2>2. n # 0
    BY <1>1
  <2>3. n - 1 \in Nat /\ n - 1 \notin U /\ (n - 1) + 1 = n
    BY <2>1, <2>2
  <2>4. P(n - 1)
    BY <2>3
  <2>5. P((n - 1) + 1)
    BY <2>3, <2>4, SummedGrows DEF P
  <2> QED BY <2>3, <2>5
<1>3. P(last + 1)
  <2> HIDE DEF P
  <2> QED BY <1>2
<1>4. Behind(last + 1, first, last) = first .. last + 1
  BY DEF Behind
<1> QED BY <1>3, <1>4

\* Just the addresses from the first to the last one, each once, in blocks that are
\* each the longest there is at its first address: so does a function that meets
\* the recursion.
Covers(blocks, version, first, last) ==
    /\ UNION blocks = {version} \X (first .. last)
    /\ \A b \in blocks : \E x \in first .. last : b = Block(version, x, Longest(x, last))
    /\ \A b, c \in blocks : b # c => b \cap c = {}

LEMMA SummedCovers ==
    ASSUME NEW version, NEW first \in Nat, NEW last \in Nat,
           NEW g, Summed(g, version, first .. last + 1, last), NEW a \in first .. last + 1
    PROVE  Covers(g[a], version, a, last)
<1> DEFINE Q(x) == Covers(g[x], version, x, last)
           U == {k \in Nat : \E x \in first .. last + 1 : k = last + 1 - x /\ ~Q(x)}
<1>1. U = {}
  <2> SUFFICES ASSUME U # {} PROVE FALSE
    OBVIOUS
  <2> HIDE DEF Q
  <2>1. PICK n \in U : n \in Nat /\ \A m \in U : n =< m
    BY LeastOf
  <2>2. PICK x \in first .. last + 1 : n = last + 1 - x /\ ~Q(x)
    BY <2>1
  <2>3. g[x] = IF x > last THEN {} ELSE {Block(version, x, Longest(x, last))} \cup g[x + Longest(x, last)]
    BY DEF Summed
  <2>4. CASE x > last
    <3>1. g[x] = {} /\ x .. last = {}
      BY <2>3, <2>4
    <3> QED BY <2>2, <3>1 DEF Q, Covers
  <2>5. CASE x =< last
    <3> DEFINE l == Longest(x, last)
    <3>0. x \in Nat
      OBVIOUS
    <3>1. l \in Nat /\ l > 0 /\ x + l - 1 =< last /\ x \in Nat
      BY <2>5, <3>0, LongestOf
    <3> HIDE DEF l
    <3>2. x + l \in first .. last + 1 /\ last + 1 - (x + l) \in Nat /\ last + 1 - (x + l) < n
      BY <2>2, <3>1
    <3>3. last + 1 - (x + l) \notin U
      BY <2>1, <3>2
    <3>4. Q(x + l)
      BY <3>2, <3>3
    <3>5. g[x] = {Block(version, x, l)} \cup g[x + l]
      BY <2>3, <2>5, <3>1 DEF l
    <3>6. UNION g[x] = Block(version, x, l) \cup UNION g[x + l]
      BY <3>5
    <3>7. x .. last = (x .. x + l - 1) \cup (x + l .. last)
      BY <2>5, <3>1
    <3>8. UNION g[x] = {version} \X (x .. last)
      BY <3>4, <3>6, <3>7 DEF Q, Covers, Block
    <3>9. ASSUME NEW b \in g[x] PROVE \E y \in x .. last : b = Block(version, y, Longest(y, last))
      <4>1. CASE b = Block(version, x, l)
        <5>1. x \in x .. last
          BY <2>5, <3>1
        <5> QED BY <4>1, <5>1 DEF l
      <4>2. CASE b \in g[x + l]
        <5>1. PICK y \in x + l .. last : b = Block(version, y, Longest(y, last))
          BY <3>4, <4>2 DEF Q, Covers
        <5>2. y \in x .. last
          BY <3>1
        <5> QED BY <5>1, <5>2
      <4> QED BY <3>5, <4>1, <4>2
    <3>10. ASSUME NEW b \in g[x], NEW c \in g[x], b # c PROVE b \cap c = {}
      <4>1. \A d \in g[x + l] : d \cap Block(version, x, l) = {}
        <5>1. UNION g[x + l] = {version} \X (x + l .. last)
          BY <3>4 DEF Q, Covers
        <5>2. ({version} \X (x + l .. last)) \cap Block(version, x, l) = {}
          BY <3>1 DEF Block
        <5> QED BY <5>1, <5>2
      <4>2. CASE b \in g[x + l] /\ c \in g[x + l]
        BY <3>4, <3>10, <4>2 DEF Q, Covers
      <4> QED BY <3>5, <3>10, <4>1, <4>2
    <3> QED BY <2>2, <3>8, <3>9, <3>10 DEF Q, Covers
  <2> QED BY <2>4, <2>5
<1>2. last + 1 - a \in Nat
  OBVIOUS
<1>3. Q(a)
  <2> HIDE DEF Q
  <2> QED BY <1>1, <1>2
<1> QED BY <1>3

\* ipaddress.summarize_address_range covers its range and nothing else.
LEMMA SummarizeCovers ==
    ASSUME NEW version, NEW first \in Nat, NEW last \in Nat, first =< last, last < Size
    PROVE  Covers(Summarize(version, first, last), version, first, last)
<1> DEFINE rest == CHOOSE g : Summed(g, version, first .. last + 1, last)
<1>1. Summed(rest, version, first .. last + 1, last)
  BY SummedExists
<1>2. Summarize(version, first, last) = rest[first]
  BY DEF Summarize, Summed, Longest, Fitting
<1> HIDE DEF rest
<1>3. first \in first .. last + 1
  OBVIOUS
<1> QED BY <1>1, <1>2, <1>3, SummedCovers

LEMMA Multiples == \A n, k \in Nat : n > 0 => (n * k) % n = 0
<1>1. \A n, z \in Nat : n > 0 => z % n \in 0 .. n - 1 /\ z \div n \in Int /\ z = n * (z \div n) + (z % n)
  BY Z3
<1>2. ASSUME NEW n \in Nat, NEW k \in Nat, n > 0 PROVE (n * k) % n = 0
  <2> DEFINE q == (n * k) \div n
             r == (n * k) % n
  <2>1. r \in 0 .. n - 1 /\ n * k = n * q + r /\ q \in Int
    <3>1. n * k \in Nat
      OBVIOUS
    <3> QED BY <1>1, <1>2, <3>1
  <2> HIDE DEF q, r
  <2>2. r = n * (k - q)
    BY <2>1
  <2>3. k - q =< 0
    BY <1>2, <2>1, <2>2
  <2>4. k - q >= 0
    BY <1>2, <2>1, <2>2
  <2> QED BY <2>1, <2>2, <2>3, <2>4 DEF r
<1> QED BY <1>2

\* No two blocks of a range can be merged: the first one would have been longer.
LEMMA SummarizeMinimal ==
    ASSUME NEW version, NEW first \in Nat, NEW last \in Nat, first =< last, last < Size,
           NEW c \in Summarize(version, first, last), NEW d \in Summarize(version, first, last), c # d
    PROVE  \A w : c \cup d \notin Networks(w)
<1> DEFINE bs == Summarize(version, first, last)
<1>1. Covers(bs, version, first, last)
  BY SummarizeCovers
<1> HIDE DEF bs
<1>2. ASSUME NEW x \in first .. last, NEW y \in first .. last, x < y,
             NEW lx, lx = Longest(x, last), NEW ly, ly = Longest(y, last),
             Block(version, x, lx) \cap Block(version, y, ly) = {},
             NEW w, Block(version, x, lx) \cup Block(version, y, ly) \in Networks(w)
      PROVE  FALSE
  <2>1. x \in Nat /\ y \in Nat /\ x =< last /\ y =< last
    OBVIOUS
  <2>2. /\ lx \in Nat /\ lx > 0 /\ x + lx - 1 =< last /\ \A n \in Fitting(x, last) : n =< lx
        /\ ly \in Nat /\ ly > 0 /\ y + ly - 1 =< last
    BY <1>2, <2>1, LongestOf
  <2>3. PICK n \in Lengths, m \in 0 .. Size - 1 :
          Block(version, x, lx) \cup Block(version, y, ly) = Block(w, n * m, n)
    BY <1>2 DEF Networks
  <2>4. n \in Nat /\ n > 0 /\ m \in Nat /\ n * m \in Nat
    BY LengthsOf
  <2> DEFINE k == n * m
  <2>5. k \in Nat /\ k % n = 0
    BY <2>4, Multiples
  <2> HIDE DEF k
  <2>6. {version} \X (x .. x + lx - 1) \cup {version} \X (y .. y + ly - 1) = {w} \X (k .. k + n - 1)
    BY <2>3 DEF Block, k
  <2>7. \A i \in Int : i \in k .. k + n - 1 <=> i \in x .. x + lx - 1 \/ i \in y .. y + ly - 1
    <3>1. <<version, x>> \in {w} \X (k .. k + n - 1)
      BY <2>1, <2>2, <2>6
    <3>2. version = w
      BY <3>1
    <3>3. \A i : <<version, i>> \in {w} \X (k .. k + n - 1) <=> i \in k .. k + n - 1
      BY <3>2
    <3>4. \A i : <<version, i>> \in {version} \X (x .. x + lx - 1) \cup {version} \X (y .. y + ly - 1)
                   <=> i \in x .. x + lx - 1 \/ i \in y .. y + ly - 1
      OBVIOUS
    <3> QED BY <2>6, <3>3, <3>4
  <2>8. k = x
    <3>1. x \in k .. k + n - 1
      BY <2>1, <2>2, <2>7
    <3>2. k \in x .. x + lx - 1 \/ k \in y .. y + ly - 1
      BY <2>4, <2>5, <2>7
    <3> QED BY <1>2, <2>1, <2>5, <3>1, <3>2
  <2>9. y \in k .. k + n - 1
    BY <2>1, <2>2, <2>7
  <2>10. k + n - 1 =< last
    <3>1. k + n - 1 \in x .. x + lx - 1 \/ k + n - 1 \in y .. y + ly - 1
      BY <2>4, <2>5, <2>7
    <3> QED BY <2>1, <2>2, <2>4, <2>5, <3>1
  <2>11. n \in Fitting(x, last)
    BY <2>5, <2>8, <2>10 DEF Fitting
  <2>12. n =< lx
    BY <2>2, <2>11
  <2>13. y \in x .. x + lx - 1 /\ y \in y .. y + ly - 1
    BY <2>1, <2>2, <2>4, <2>8, <2>9, <2>12
  <2>14. <<version, y>> \in Block(version, x, lx) \cap Block(version, y, ly)
    BY <2>13 DEF Block
  <2> QED BY <1>2, <2>14
<1>3. PICK x \in first .. last : c = Block(version, x, Longest(x, last))
  BY <1>1 DEF Covers, bs
<1>4. PICK y \in first .. last : d = Block(version, y, Longest(y, last))
  BY <1>1 DEF Covers, bs
<1>5. c \cap d = {} /\ x # y
  BY <1>1, <1>3, <1>4 DEF Covers, bs
<1>6. x < y \/ y < x
  BY <1>5
<1>7. SUFFICES ASSUME NEW w, c \cup d \in Networks(w) PROVE FALSE
  OBVIOUS
<1>8. CASE x < y
  BY <1>2, <1>3, <1>4, <1>5, <1>7, <1>8
<1>9. CASE y < x
  <2>1. d \cup c \in Networks(w) /\ d \cap c = {}
    BY <1>5, <1>7
  <2> QED BY <1>2, <1>3, <1>4, <1>9, <2>1
<1> QED BY <1>6, <1>8, <1>9

LEMMA SameBlock ==
    ASSUME NEW n \in Nat, n > 0, NEW m \in Nat, NEW a \in Nat, a < n * m, NEW x \in Int
    PROVE  x \in a - (a % n) .. a - (a % n) + n - 1
             <=> x \in Nat /\ x < n * m /\ x \div n = a \div n
<1> DEFINE q == a \div n
           r == a % n
<1>1. q \in Nat /\ r \in 0 .. n - 1 /\ a = n * q + r
  BY Z3
<1>2. \A z \in Nat : z \div n \in Nat /\ n * (z \div n) =< z /\ z < n * (z \div n) + n
  BY Z3
<1> HIDE DEF q, r
<1>3. q < m
  <2> SUFFICES ASSUME m =< q PROVE FALSE
    BY <1>1
  <2>1. n * m =< n * q
    BY <1>1
  <2> QED BY <1>1, <2>1
<1>4. n * q + n =< n * m
  <2>1. q + 1 =< m
    BY <1>1, <1>3
  <2>2. n * (q + 1) =< n * m
    BY <1>1, <2>1
  <2> QED BY <1>1, <2>2
<1>5. \A z \in Nat : n * q =< z /\ z < n * q + n => z \div n = q
  BY <1>1, Z3
<1>6. a - r = n * q /\ n * q \in Nat
  BY <1>1
<1>7. ASSUME x \in a - r .. a - r + n - 1
      PROVE  x \in Nat /\ x < n * m /\ x \div n = q
  BY <1>4, <1>5, <1>6, <1>7
<1>8. ASSUME x \in Nat, x < n * m, x \div n = q
      PROVE  x \in a - r .. a - r + n - 1
  BY <1>2, <1>6, <1>8
<1> QED BY <1>7, <1>8 DEF q, r

\* ip_network(strict=False): the addresses that share its prefix.
LEMMA MaskedIs ==
    ASSUME NEW version, NEW a \in 0 .. Size - 1, NEW length \in 0 .. Width
    PROVE  Masked(version, a, length) =
             {version} \X {x \in 0 .. Size - 1 : x \div 2 ^ (Width - length) = a \div 2 ^ (Width - length)}
<1> DEFINE n == 2 ^ (Width - length)
<1>1. Width - length \in 0 .. Width
  BY WidthAssumption
<1>2. n \in Lengths
  BY <1>1 DEF Lengths
<1>3. n \in Nat /\ n > 0 /\ Size \in Nat
  BY <1>2, LengthsOf
<1>4. PICK m \in Nat : Size = n * m
  BY <1>2, LengthsOf
<1> HIDE DEF n
<1>5. a \in Nat /\ a < Size
  BY <1>3
<1>6. \A x \in Int : x \in a - (a % n) .. a - (a % n) + n - 1
                       <=> x \in Nat /\ x < Size /\ x \div n = a \div n
  BY <1>3, <1>4, <1>5, SameBlock
<1>7. a - (a % n) \in Int
  BY <1>3, <1>5
<1>8. a - (a % n) .. a - (a % n) + n - 1 = {x \in 0 .. Size - 1 : x \div n = a \div n}
  BY <1>3, <1>6, <1>7
<1> QED BY <1>8 DEF Masked, Block, n
-----------------------------------------------------------------------------
(* The file, line by line.                                                 *)

Selected(l) ==
    /\ l.fields = 7 /\ l.cc = "IR" /\ l.type \in {"ipv4", "ipv6"}
    /\ l.status \in {"allocated", "assigned"}
    /\ l.start \in 0 .. Size - 1 /\ l.value \in 0 .. Size
    /\ l.type = "ipv4" => l.start + l.value =< Size
    /\ l.type = "ipv6" => l.value =< Width

LineDelegates(l) ==
    {l.type} \X IF l.type = "ipv4" THEN l.start .. l.start + l.value - 1
                ELSE {a \in 0 .. Size - 1 : a \div 2 ^ (Width - l.value) = l.start \div 2 ^ (Width - l.value)}

LEMMA DelegatedByLine ==
    ASSUME NEW f
    PROVE  Delegated(f) = UNION {LineDelegates(l) : l \in {k \in f : Selected(k)}}
  BY DEF Delegated, LineDelegates, Selected

\* A line of IPv4.
LEMMA Ipv4Covers ==
    ASSUME NEW l \in Lines, l.type = "ipv4", l.start # Malformed, l.value # Malformed
    PROVE  /\ UNION Ipv4(l) = IF l.start + l.value =< Size THEN {"ipv4"} \X (l.start .. l.start + l.value - 1) ELSE {}
           /\ \A c, d \in Ipv4(l) : c # d => \A w : c \cup d \notin Networks(w)
<1> DEFINE first == l.start
           last == l.start + l.value - 1
<1>1. Size \in Nat /\ first \in Nat /\ first < Size /\ l.value \in Int /\ l.value >= -1
  BY LengthsOf DEF Lines
<1>2. Ipv4(l) = Summarize("ipv4", first, last)
  BY DEF Ipv4
<1>3. CASE first =< last /\ last < Size
  <2>1. last \in Nat
    BY <1>1, <1>3
  <2> HIDE DEF first, last
  <2>2. UNION Summarize("ipv4", first, last) = {"ipv4"} \X (first .. last)
    BY <1>1, <1>3, <2>1, SummarizeCovers DEF Covers
  <2>3. \A c, d \in Ipv4(l) : c # d => \A w : c \cup d \notin Networks(w)
    BY <1>1, <1>2, <1>3, <2>1, SummarizeMinimal
  <2>4. l.start + l.value =< Size
    BY <1>1, <1>3 DEF first, last
  <2> QED BY <1>2, <2>2, <2>3, <2>4 DEF first, last
<1>4. CASE ~(first =< last /\ last < Size)
  <2>1. Ipv4(l) = {}
    BY <1>2, <1>4 DEF Summarize
  <2>2. l.start + l.value =< Size => l.start .. l.start + l.value - 1 = {}
    BY <1>1, <1>4
  <2> QED BY <2>1, <2>2
<1> QED BY <1>3, <1>4

\* A line of IPv6: at most one network.
LEMMA Ipv6Covers ==
    ASSUME NEW l \in Lines, l.type = "ipv6", l.start # Malformed, l.value # Malformed
    PROVE  /\ UNION Ipv6(l) = IF l.value \in 0 .. Width THEN LineDelegates(l) ELSE {}
           /\ \A c, d \in Ipv6(l) : c = d
<1>1. l.start \in 0 .. Size - 1
  BY DEF Lines
<1>2. CASE l.value \in 0 .. Width
  <2>1. UNION Ipv6(l) = Masked("ipv6", l.start, l.value)
    BY <1>2 DEF Ipv6
  <2> QED BY <1>1, <1>2, <2>1, MaskedIs DEF LineDelegates, Ipv6
<1>3. CASE l.value \notin 0 .. Width
  BY <1>3 DEF Ipv6
<1> QED BY <1>2, <1>3

LEMMA LineCovers ==
    ASSUME NEW l \in Lines
    PROVE  /\ UNION Entries(l) = IF Selected(l) THEN LineDelegates(l) ELSE {}
           /\ \A c, d \in Entries(l) : c # d => \A w : c \cup d \notin Networks(w)
<1> USE RipeAssumption, WidthAssumption
<1>1. /\ l.fields \in {6, 7} /\ l.type \in {"ipv4", "ipv6", "asn"}
      /\ l.start \in (0 .. Size - 1) \cup {Malformed} /\ l.value \in (-1 .. Size + 1) \cup {Malformed}
  BY DEF Lines
<1>2. Size \in Nat /\ Width < Size
  BY LengthsOf
<1> DEFINE skipped == l.fields < 7 \/ l.cc # "IR" \/ l.status \notin {"allocated", "assigned"}
                        \/ Malformed \in {l.start, l.value}
<1>3. CASE skipped
  <2>1. Entries(l) = {}
    BY <1>3 DEF Entries
  <2>2. ~Selected(l)
    BY <1>2, <1>3 DEF Selected
  <2> QED BY <2>1, <2>2
<1>4. ASSUME ~skipped
      PROVE  l.fields = 7 /\ l.cc = "IR" /\ l.status \in {"allocated", "assigned"}
             /\ l.start # Malformed /\ l.value # Malformed
             /\ l.start \in 0 .. Size - 1 /\ l.value \in -1 .. Size + 1
  BY <1>1, <1>4
<1>5. CASE ~skipped /\ l.type = "ipv4"
  <2>1. Entries(l) = Ipv4(l)
    BY <1>5 DEF Entries
  <2>2. l.start + l.value =< Size /\ l.value >= 0 <=> Selected(l)
    BY <1>2, <1>4, <1>5 DEF Selected
  <2>3. l.value < 0 => l.start .. l.start + l.value - 1 = {}
    BY <1>2, <1>4, <1>5
  <2> HIDE DEF skipped
  <2> QED BY <1>4, <1>5, <2>1, <2>2, <2>3, Ipv4Covers DEF LineDelegates
<1>6. CASE ~skipped /\ l.type = "ipv6"
  <2>1. Entries(l) = Ipv6(l)
    BY <1>6 DEF Entries
  <2>2. l.value \in 0 .. Width <=> Selected(l)
    BY <1>2, <1>4, <1>6 DEF Selected
  <2> QED BY <1>4, <1>6, <2>1, <2>2, Ipv6Covers
<1>7. CASE ~skipped /\ l.type = "asn"
  BY <1>7 DEF Entries, Selected
<1> QED BY <1>1, <1>3, <1>5, <1>6, <1>7

\* What a file is parsed into covers what it delegates, and what one line of it is
\* parsed into is as few networks as can be.
LEMMA ParseCovers ==
    ASSUME NEW f \in SUBSET Lines, IsFiniteSet(f)
    PROVE  /\ UNION Parse(f) = Delegated(f)
           /\ Cardinality(f) = 1 => \A c, d \in Parse(f) : c # d => \A w : c \cup d \notin Networks(w)
<1>1. \A l \in f : UNION Entries(l) = IF Selected(l) THEN LineDelegates(l) ELSE {}
  BY LineCovers
<1>2. UNION Parse(f) = UNION {UNION Entries(l) : l \in f}
  BY DEF Parse
<1>3. UNION {UNION Entries(l) : l \in f} = UNION {LineDelegates(l) : l \in {k \in f : Selected(k)}}
  BY <1>1
<1>4. ASSUME Cardinality(f) = 1 PROVE \E l \in f : Parse(f) = Entries(l)
  <2>1. PICK l : f = {l}
    BY <1>4, FS_Singleton
  <2> QED BY <2>1 DEF Parse
<1> QED BY <1>2, <1>3, <1>4, LineCovers, DelegatedByLine
-----------------------------------------------------------------------------
(* The rows that a run leaves, and the addresses the file delegates.       *)

\* The instance parses as RipeStats does.
LEMMA SameParser ==
    /\ CN!Lines = Lines /\ \A v : CN!Networks(v) = Networks(v)
    /\ \A f : CN!Parse(f) = Parse(f) /\ CN!Delegated(f) = Delegated(f)
    /\ \A S : (CN!IsFiniteSet(S) <=> IsFiniteSet(S)) /\ CN!Cardinality(S) = Cardinality(S)
<1>1. CN!Size = Size /\ CN!Lengths = Lengths /\ \A v, b, n : CN!Block(v, b, n) = Block(v, b, n)
  BY DEF CN!Size, Size, CN!Lengths, Lengths, CN!Block, Block
<1>2. CN!Lines = Lines /\ \A v : CN!Networks(v) = Networks(v)
  BY <1>1 DEF CN!Lines, Lines, CN!Networks, Networks
<1>3. \A v, first, last : CN!Summarize(v, first, last) = Summarize(v, first, last)
  BY <1>1, Zenon DEF CN!Summarize, Summarize, CN!Max, Max, CN!Block, Block, CN!Lengths, Lengths, CN!Size, Size
<1>4. \A v, a, n : CN!Masked(v, a, n) = Masked(v, a, n)
  BY <1>1 DEF CN!Masked, Masked
<1>5. \A l : CN!Entries(l) = Entries(l)
  BY <1>3, <1>4 DEF CN!Entries, Entries, CN!Ipv4, Ipv4, CN!Ipv6, Ipv6
<1>6. \A f : CN!Parse(f) = Parse(f)
  BY <1>5 DEF CN!Parse, Parse
<1>7. \A f : CN!Delegated(f) = Delegated(f)
  BY <1>1 DEF CN!Delegated, Delegated
<1>8. \A S : CN!IsFiniteSet(S) <=> IsFiniteSet(S)
  BY Zenon DEF CN!IsFiniteSet, IsFiniteSet
<1>9. \A S : CN!Cardinality(S) = Cardinality(S)
  BY Zenon DEF CN!Cardinality, Cardinality, CN!IsFiniteSet, IsFiniteSet
<1> QED BY <1>2, <1>6, <1>7, <1>8, <1>9

\* Once the loop is over, and where no operator acts, the entries are enabled rows
\* of the source.
Kept ==
    place \in {"check", "scan", "done"} =>
      \A c \in fetched \ touched : net[c] = [source |-> source, enabled |-> TRUE]

LEMMA KeptStep == ASSUME CN!TypeOK, Upserted, Kept, [CN!Next]_(CN!vars) PROVE Kept'
<1>0. fetched \subseteq Cidrs
  BY DEF CN!TypeOK
<1>1. ASSUME NEW c \in Cidrs, CN!Add(c) \/ CN!Toggle(c) PROVE Kept'
  <2>1. touched' = touched \cup {c} /\ (\A d \in Cidrs \ {c} : net'[d] = net[d]) /\ UNCHANGED CN!run
    BY <1>1, OperatorsTouch
  <2> QED BY <1>0, <2>1 DEF Kept, CN!run
<1>2. CASE (\E s \in Sources : CN!Start(s)) \/ CN!Restart \/ CN!Return \/ CN!Crash
  BY <1>2 DEF CN!Start, CN!Restart, CN!Return, CN!Crash, Kept
<1>3. ASSUME NEW c \in Cidrs, CN!Upsert(c) PROVE Kept'
  BY <1>3 DEF CN!Upsert, Kept
<1>4. CASE CN!Disable
  <2>1. \A c \in fetched \ touched : net[c] = [source |-> source, enabled |-> TRUE]
    BY <1>4 DEF CN!Disable, Upserted
  <2>2. \A c \in fetched : net'[c] = net[c]
    BY <1>0, <1>4 DEF CN!Disable
  <2>3. UNCHANGED <<fetched, touched, source>>
    BY <1>4 DEF CN!Disable
  <2> QED BY <2>1, <2>2, <2>3 DEF Kept
<1>5. CASE CN!Check \/ CN!Finish
  BY <1>5 DEF CN!Check, CN!Finish, Kept
<1>6. ASSUME NEW a \in Addresses, CN!Classify(a) \/ CN!Reclassify(a) PROVE Kept'
  BY <1>6 DEF CN!Classify, CN!Reclassify, CN!run, Kept
<1>7. CASE UNCHANGED CN!vars
  BY <1>7 DEF CN!vars, CN!run, Kept
<1> QED BY <1>1, <1>2, <1>3, <1>4, <1>5, <1>6, <1>7 DEF CN!Next

\* When a run of the registry's file ends, its rows cover the addresses that the file
\* delegates to Iran and no others, in as few networks as can be, for addresses of any
\* width, any file, and after any crashes.
THEOREM RowsCoverTheDelegatedThm ==
    ASSUME CN!NetworksAssumption PROVE CN!Spec => []CN!RowsCoverTheDelegated
<1>1. CN!Init => CN!TypeOK /\ Upserted /\ Kept
  BY NetworksTypeInit DEF CN!Init, Upserted, Kept
<1>2. CN!TypeOK /\ Upserted /\ Kept /\ [CN!Next]_(CN!vars) => (CN!TypeOK /\ Upserted /\ Kept)'
  BY NetworksTypeStep, UpsertedStep, KeptStep
<1>3. CN!TypeOK /\ Upserted /\ Kept => CN!RowsCoverTheDelegated
  <2> SUFFICES ASSUME CN!TypeOK, Upserted, Kept, place = "done", source = "ripencc", touched = {},
                      NEW f \in Feeds, fetched = CN!Parse(f)
               PROVE  LET rows == {c \in CN!Enabled : net[c].source = source}
                      IN  /\ UNION rows = CN!Delegated(f)
                          /\ CN!Cardinality(f) = 1 =>
                               \A c, d \in rows : c # d => c \cup d \notin CN!Networks("ipv4") \cup CN!Networks("ipv6")
    BY Zenon DEF CN!RowsCoverTheDelegated
  <2> DEFINE rows == {c \in CN!Enabled : net[c].source = source}
  <2>1. rows \subseteq fetched
    BY DEF Upserted, Follows, CN!Enabled, CN!Absent
  <2>2. fetched \subseteq rows
    BY DEF Kept, CN!TypeOK, CN!Enabled
  <2>3. rows = Parse(f)
    BY <2>1, <2>2, SameParser
  <2>4. f \in SUBSET Lines /\ IsFiniteSet(f)
    <3>1. CN!Lines = Lines
      BY SameParser
    <3>2. f \subseteq CN!Lines /\ IsFiniteSet(f)
      BY CN!NetworksAssumption, SameParser
    <3> QED BY <3>1, <3>2
  <2> HIDE DEF rows
  <2> QED BY <2>3, <2>4, ParseCovers, SameParser DEF rows
<1> QED BY <1>1, <1>2, <1>3, PTL DEF CN!Spec
=============================================================================
