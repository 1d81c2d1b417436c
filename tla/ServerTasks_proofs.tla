------------------------- MODULE ServerTasks_proofs -------------------------
(***************************************************************************)
(* Proofs about ServerTasks for any workers, paths, operators' events and  *)
(* crashes.                                                                *)
(***************************************************************************)
EXTENDS ServerTasks, FiniteSetTheorems, TLAPS

Places == {"idle", "loaded", "locked", "refused", "unlock", "create", "save", "audit"}
Rows == [exists : BOOLEAN, enabled : BOOLEAN, connected : Nat, error : BOOLEAN]

\* The shape of the state.
TypeOK ==
    /\ server \in Rows
    /\ sources \in [Paths -> {"none", "on", "off"}]
    /\ form \in [open : BOOLEAN, connected : Nat, error : BOOLEAN]
    /\ queue \in [Kinds -> Nat] /\ lock \in [Kinds -> Workers \cup {Free, Orphan}]
    /\ pc \in [Workers -> Places] /\ kind \in [Workers -> Kinds]
    /\ copy \in [Workers -> Rows] /\ good \in [Workers -> BOOLEAN]
    /\ todo \in [Workers -> SUBSET Paths] /\ made \in [Workers -> Nat]
    /\ born \in Nat /\ told \in Nat /\ saves \in Nat /\ audits \in Nat
    /\ clock \in Nat /\ events \in Nat /\ lost \in Nat

LEMMA EndType ==
    ASSUME TypeOK, NEW w \in Workers, End(w)
    PROVE  /\ pc' \in [Workers -> Places] /\ kind' \in [Workers -> Kinds]
           /\ copy' \in [Workers -> Rows] /\ good' \in [Workers -> BOOLEAN]
           /\ todo' \in [Workers -> SUBSET Paths] /\ made' \in [Workers -> Nat]
<1>1. Gone \in Rows /\ "idle" \in Places /\ "test" \in Kinds
  BY DEF Gone, Rows, Places, Kinds
<1> QED BY <1>1 DEF End, Goto, TypeOK

\* What operators do keeps the shape.
LEMMA OperatorType ==
    ASSUME TypeOK
    PROVE  /\ \A k \in Kinds : Request(k) => TypeOK'
           /\ \A p \in Paths : ToggleSource(p) => TypeOK'
           /\ \A b \in BOOLEAN : Submit(b) => TypeOK'
           /\ Toggle \/ Delete \/ Edit => TypeOK'
<1> USE DEF TypeOK, Event, row, local, counts
<1>1. ASSUME NEW k \in Kinds, Request(k) PROVE TypeOK'
  BY <1>1 DEF Request
<1>2. ASSUME NEW p \in Paths, ToggleSource(p) PROVE TypeOK'
  BY <1>2 DEF ToggleSource
<1>3. ASSUME NEW b \in BOOLEAN, Submit(b) PROVE TypeOK'
  <2>1. server' \in Rows /\ form' \in [open : BOOLEAN, connected : Nat, error : BOOLEAN]
    BY <1>3 DEF Submit, Rows, NoForm
  <2> QED BY <1>3, <2>1 DEF Submit
<1>4. CASE Toggle
  <2>1. server' \in Rows
    BY <1>4 DEF Toggle, Rows
  <2> QED BY <1>4, <2>1 DEF Toggle
<1>5. CASE Delete
  <2>1. server' \in Rows
    BY <1>5 DEF Delete, Rows, Gone
  <2> QED BY <1>5, <2>1 DEF Delete
<1>6. CASE Edit
  <2>1. form' \in [open : BOOLEAN, connected : Nat, error : BOOLEAN]
    BY <1>6 DEF Edit, Rows
  <2> QED BY <1>6, <2>1 DEF Edit
<1> QED BY <1>1, <1>2, <1>3, <1>4, <1>5, <1>6

\* What a worker does keeps the shape.
LEMMA StepType ==
    ASSUME TypeOK, NEW w \in Workers, Step(w)
    PROVE  TypeOK'
<1> USE DEF TypeOK, row, local, counts, Goto
<1>0. {"idle", "loaded", "locked", "refused", "unlock", "create", "save", "audit"} = Places
  BY DEF Places
<1>1. ASSUME NEW k \in Kinds, Load(w, k) PROVE TypeOK'
  BY <1>1, <1>0 DEF Load
<1>2. ASSUME NEW k \in Kinds, Missing(w, k) PROVE TypeOK'
  BY <1>2 DEF Missing
<1>3. ASSUME NEW p \in Paths, Create(w, p) PROVE TypeOK'
  <2>1. made' \in [Workers -> Nat] /\ born' \in Nat
    BY <1>3 DEF Create
  <2> QED BY <1>3, <2>1 DEF Create
<1>4. CASE Lock(w)
  BY <1>4, <1>0 DEF Lock
<1>5. CASE Skip(w)
  BY <1>5, EndType DEF Skip
<1>6. CASE Probe(w)
  BY <1>6, <1>0 DEF Probe
<1>7. CASE List(w)
  BY <1>7, <1>0 DEF List
<1>8. CASE Refused(w)
  <2>1. server' \in Rows
    BY <1>8 DEF Refused, Rows
  <2> QED BY <1>8, <1>0, <2>1 DEF Refused
<1>9. CASE AuditRefused(w)
  BY <1>9, <1>0 DEF AuditRefused
<1>10. CASE Unlock(w)
  <2>1. lock' \in [Kinds -> Workers \cup {Free, Orphan}]
    BY <1>10 DEF Unlock
  <2>2. /\ pc' \in [Workers -> Places] /\ kind' \in [Workers -> Kinds]
        /\ copy' \in [Workers -> Rows] /\ good' \in [Workers -> BOOLEAN]
        /\ todo' \in [Workers -> SUBSET Paths] /\ made' \in [Workers -> Nat]
    <3>1. CASE End(w)
      BY <3>1, EndType
    <3>2. CASE UNCHANGED local /\ (Goto(w, "save") \/ Goto(w, "create"))
      BY <3>2, <1>0
    <3> QED BY <3>1, <3>2, <1>10 DEF Unlock
  <2> QED BY <1>10, <2>1, <2>2 DEF Unlock
<1>11. CASE Save(w)
  <2>1. copy[w].connected \in Nat
    BY DEF Rows
  <2>2. ASSUME NEW b \in BOOLEAN, NEW n \in Nat
        PROVE  [server EXCEPT !.error = b, !.connected = n] \in Rows
    BY DEF Rows
  <2>3. (IF good[w] THEN clock + 1 ELSE copy[w].connected) \in Nat /\ clock + 1 \in Nat
    BY <2>1
  <2>4. Stamp(w) \in Rows
    BY <2>2, <2>3 DEF Stamp
  <2> QED BY <1>11, <1>0, <2>4 DEF Save
<1>12. CASE Audit(w)
  BY <1>12, EndType DEF Audit
<1>13. CASE Vanished(w)
  BY <1>13, EndType DEF Vanished
<1>14. CASE Raise(w)
  BY <1>14, EndType DEF Raise
<1> QED
  BY <1>1, <1>2, <1>3, <1>4, <1>5, <1>6, <1>7, <1>8, <1>9, <1>10, <1>11, <1>12, <1>13, <1>14 DEF Step

\* Rows, forms and tasks keep their shape, whatever happens.
THEOREM TypeCorrect == Spec => []TypeOK
<1>1. Init => TypeOK
  BY DEF Init, TypeOK, Rows, Places, Kinds, Gone, NoForm
<1>2. TypeOK /\ [Next]_vars => TypeOK'
  <2> SUFFICES ASSUME TypeOK, [Next]_vars PROVE TypeOK'
    OBVIOUS
  <2>1. ASSUME NEW w \in Workers, Crash(w) PROVE TypeOK'
    BY <2>1, EndType DEF Crash, TypeOK, row, counts
  <2>2. ASSUME NEW k \in Kinds, Expire(k) PROVE TypeOK'
    BY <2>2 DEF Expire, TypeOK, row, local, counts
  <2>3. CASE UNCHANGED vars
    BY <2>3 DEF vars, TypeOK, row, local, counts
  <2> QED BY <2>1, <2>2, <2>3, OperatorType, StepType DEF Next
<1> QED BY <1>1, <1>2, PTL DEF Spec
-----------------------------------------------------------------------------
\* A step of a task leaves alone what operators decide: the row's existence, its
\* enabled flag, the log sources there are, a form that is open.
LEMMA StepDecides ==
    ASSUME TypeOK, NEW w \in Workers, Step(w)
    PROVE  /\ server'.exists = server.exists /\ server'.enabled = server.enabled
           /\ \A p \in Paths : sources[p] # "none" => sources'[p] = sources[p]
           /\ events' = events /\ form' = form
<1> USE DEF row, local, counts
<1>1. CASE Refused(w)
  <2>1. server'.exists = server.exists /\ server'.enabled = server.enabled
    BY <1>1 DEF Refused, TypeOK, Rows
  <2> QED BY <1>1, <2>1 DEF Refused
<1>2. CASE Save(w)
  <2>1. server'.exists = server.exists /\ server'.enabled = server.enabled
    BY <1>2 DEF Save, Stamp, TypeOK, Rows
  <2> QED BY <1>2, <2>1 DEF Save
<1>3. ASSUME NEW p \in Paths, Create(w, p)
      PROVE  \A q \in Paths : sources[q] # "none" => sources'[q] = sources[q]
  BY <1>3 DEF Create, TypeOK
<1>4. ASSUME NEW p \in Paths, Create(w, p)
      PROVE  server' = server /\ events' = events /\ form' = form
  BY <1>4 DEF Create
<1>5. ASSUME \/ \E k \in Kinds : Load(w, k) \/ Missing(w, k)
             \/ Lock(w) \/ Skip(w) \/ Probe(w) \/ List(w) \/ AuditRefused(w) \/ Unlock(w)
             \/ Audit(w) \/ Vanished(w) \/ Raise(w)
      PROVE  UNCHANGED <<server, sources, events, form>>
  BY <1>5 DEF Load, Missing, Lock, Skip, Probe, List, AuditRefused, Unlock, Audit, Vanished, Raise
<1> QED BY <1>1, <1>2, <1>3, <1>4, <1>5 DEF Step

\* No task changes what operators decide, however old the row it works from.
THEOREM OperatorsDecideThm == Spec => OperatorsDecide
<1> DEFINE Decided == \/ server.exists /\ server'.exists /\ server'.enabled # server.enabled
                      \/ \E p \in Paths : sources[p] # "none" /\ sources'[p] # sources[p]
           Asked == events' # events \/ form' # form
<1>1. TypeOK /\ [Next]_vars => [Decided => Asked]_vars
  <2> SUFFICES ASSUME TypeOK, Next, events' = events, form' = form
               PROVE  ~Decided
    OBVIOUS
  <2> USE DEF row, local, counts
  <2>1. ~Event
    BY DEF Event, TypeOK
  <2>2. ASSUME NEW b \in BOOLEAN PROVE ~Submit(b)
    BY DEF Submit, NoForm, TypeOK
  <2>3. ASSUME NEW w \in Workers, Crash(w) PROVE ~Decided
    BY <2>3 DEF Crash
  <2>4. ASSUME NEW k \in Kinds, Expire(k) PROVE ~Decided
    BY <2>4 DEF Expire
  <2>5. ASSUME NEW w \in Workers, Step(w) PROVE ~Decided
    BY <2>5, StepDecides
  <2> QED BY <2>1, <2>2, <2>3, <2>4, <2>5 DEF Next, Request, ToggleSource, Toggle, Delete, Edit
<1> QED BY <1>1, TypeCorrect, PTL DEF Spec, OperatorsDecide

\* Nothing but the end of an edit brings a deleted server back.
THEOREM TasksNeverResurrectThm == Spec => TasksNeverResurrect
<1> DEFINE Back == ~server.exists /\ server'.exists
           Saved == form.open /\ ~form'.open
<1>1. TypeOK /\ [Next]_vars => [Back => Saved]_vars
  <2> SUFFICES ASSUME TypeOK, Next, Back PROVE Saved
    OBVIOUS
  <2> USE DEF row, local, counts
  <2>1. ~Event
    BY DEF Event
  <2>2. ASSUME NEW b \in BOOLEAN, Submit(b) PROVE Saved
    BY <2>2 DEF Submit, NoForm
  <2>3. ASSUME NEW w \in Workers PROVE ~Crash(w) /\ ~Step(w)
    BY StepDecides DEF Crash
  <2>4. ASSUME NEW k \in Kinds PROVE ~Expire(k)
    BY DEF Expire
  <2> QED BY <2>1, <2>2, <2>3, <2>4 DEF Next, Request, ToggleSource, Toggle, Delete, Edit
<1> QED BY <1>1, TypeCorrect, PTL DEF Spec, TasksNeverResurrect
-----------------------------------------------------------------------------
\* No connection that anyone has noted is later than the last one made, and who
\* creates log sources has connected.
NoneAhead ==
    /\ server.connected =< clock /\ form.connected =< clock
    /\ \A w \in Workers : copy[w].connected =< clock
ConnectedFirst == \A w \in Workers : pc[w] = "create" => good[w]
Noted == NoneAhead /\ ConnectedFirst

\* A worker's way to "create" goes through a listing.
LEMMA ConnectedFirstStep ==
    ASSUME TypeOK, ConnectedFirst, [Next]_vars
    PROVE  ConnectedFirst'
<1> SUFFICES ASSUME NEW w \in Workers, pc'[w] = "create" PROVE good'[w]
  BY DEF ConnectedFirst
<1> USE DEF TypeOK, ConnectedFirst, Goto, End, row, local, counts
<1>1. CASE UNCHANGED <<pc, good>>
  BY <1>1
<1>2. ASSUME NEW v \in Workers, Step(v) \/ Crash(v) PROVE good'[w]
  <2>1. CASE v # w
    <3>1. pc'[w] = pc[w] /\ good'[w] = good[w]
      BY <1>2, <2>1 DEF Step, Crash, Load, Missing, Create, Lock, Skip, Probe, List, Refused,
        AuditRefused, Unlock, Save, Audit, Vanished, Raise
    <3> QED BY <3>1
  <2>2. CASE v = w
    <3>1. \/ Unlock(w) /\ good[w] /\ UNCHANGED good
          \/ UNCHANGED <<pc, good>>
      BY <1>2, <2>2 DEF Step, Crash, Load, Missing, Create, Lock, Skip, Probe, List, Refused,
        AuditRefused, Unlock, Save, Audit, Vanished, Raise
    <3> QED BY <3>1, <1>1
  <2> QED BY <2>1, <2>2
<1>3. ASSUME \/ \E k \in Kinds : Request(k) \/ Expire(k)
             \/ \E p \in Paths : ToggleSource(p)
             \/ \E b \in BOOLEAN : Submit(b)
             \/ Toggle \/ Delete \/ Edit \/ UNCHANGED vars
      PROVE  UNCHANGED <<pc, good>>
  BY <1>3 DEF Request, Expire, ToggleSource, Submit, Toggle, Delete, Edit, vars
<1> QED BY <1>1, <1>2, <1>3 DEF Next

\* A task notes a connection in its copy as the row has it, and in the row only
\* when it saves.
LEMMA StepNotes ==
    ASSUME TypeOK, NEW w \in Workers, Step(w) \/ Crash(w), ~Save(w)
    PROVE  /\ clock' = clock /\ server'.connected = server.connected /\ form' = form
           /\ \A v \in Workers : copy'[v].connected \in {0, server.connected, copy[v].connected}
<1> USE DEF row, local, counts
<1>1. ASSUME End(w)
      PROVE  \A v \in Workers : copy'[v].connected \in {0, copy[v].connected}
  BY <1>1 DEF End, Gone, TypeOK
<1>2. CASE Refused(w)
  <2>1. server'.connected = server.connected
    BY <1>2 DEF Refused, TypeOK, Rows
  <2> QED BY <1>2, <2>1 DEF Refused
<1>3. ASSUME NEW k \in Kinds, Load(w, k)
      PROVE  \A v \in Workers : copy'[v].connected \in {server.connected, copy[v].connected}
  BY <1>3 DEF Load, TypeOK
<1>4. ASSUME NEW k \in Kinds, Load(w, k)
      PROVE  UNCHANGED <<clock, server, form>>
  BY <1>4 DEF Load
<1>5. ASSUME Skip(w) \/ Audit(w) \/ Vanished(w) \/ Raise(w) \/ Crash(w) \/ Unlock(w)
      PROVE  UNCHANGED <<clock, server, form>> /\ (End(w) \/ UNCHANGED copy)
  BY <1>5 DEF Skip, Audit, Vanished, Raise, Crash, Unlock
<1>6. ASSUME \/ \E k \in Kinds : Missing(w, k)
             \/ \E p \in Paths : Create(w, p)
             \/ Lock(w) \/ Probe(w) \/ List(w) \/ AuditRefused(w)
      PROVE  UNCHANGED <<clock, server, form, copy>>
  BY <1>6 DEF Missing, Create, Lock, Probe, List, AuditRefused
<1> QED BY <1>1, <1>2, <1>3, <1>4, <1>5, <1>6 DEF Step

LEMMA NoneAheadStep ==
    ASSUME TypeOK, NoneAhead, [Next]_vars
    PROVE  NoneAhead'
<1> USE DEF row, local, counts
<1>0. /\ server.connected \in Nat /\ form.connected \in Nat /\ clock \in Nat
      /\ \A w \in Workers : copy[w].connected \in Nat
  BY DEF TypeOK, Rows
<1>1. ASSUME NEW w \in Workers, Save(w) PROVE NoneAhead'
  <2>1. clock' \in {clock, clock + 1} /\ form' = form /\ copy' = copy
    BY <1>1 DEF Save
  <2>2. server'.connected = IF good[w] THEN clock + 1 ELSE copy[w].connected
    BY <1>1 DEF Save, Stamp, TypeOK, Rows
  <2>3. clock' = IF good[w] THEN clock + 1 ELSE clock
    BY <1>1 DEF Save
  <2>4. server'.connected =< clock'
    BY <2>2, <2>3, <1>0 DEF NoneAhead
  <2> QED BY <2>1, <2>4, <1>0 DEF NoneAhead
<1>2. ASSUME clock' = clock,
             server'.connected \in {0, server.connected, form.connected},
             form'.connected \in {0, server.connected, form.connected},
             \A w \in Workers : copy'[w].connected \in {0, server.connected, copy[w].connected}
      PROVE  NoneAhead'
  BY <1>0, <1>2 DEF NoneAhead
<1>5. ASSUME NEW b \in BOOLEAN, Submit(b)
      PROVE  UNCHANGED <<clock, copy>> /\ server'.connected = form.connected /\ form'.connected = 0
  BY <1>5 DEF Submit, NoForm
<1>6. ASSUME Edit
      PROVE  UNCHANGED <<clock, copy, server>> /\ form'.connected = server.connected
  BY <1>6 DEF Edit
<1>7. ASSUME Toggle
      PROVE  UNCHANGED <<clock, copy, form>> /\ server'.connected = server.connected
  BY <1>7 DEF Toggle, TypeOK, Rows
<1>8. ASSUME Delete
      PROVE  UNCHANGED <<clock, copy, form>> /\ server'.connected = 0
  BY <1>8 DEF Delete, Gone
<1>9. ASSUME \/ \E k \in Kinds : Request(k) \/ Expire(k)
             \/ \E p \in Paths : ToggleSource(p)
             \/ UNCHANGED vars
      PROVE  UNCHANGED <<clock, copy, form, server>>
  BY <1>9 DEF Request, Expire, ToggleSource, vars
<1> QED BY <1>1, <1>2, <1>5, <1>6, <1>7, <1>8, <1>9, StepNotes DEF Next

\* Nobody is ahead of the last connection, and only a connection creates sources.
THEOREM NotedThm == Spec => []Noted
<1>1. Init => Noted
  BY DEF Init, Noted, NoneAhead, ConnectedFirst, Gone, NoForm
<1>2. TypeOK /\ Noted /\ [Next]_vars => Noted'
  BY NoneAheadStep, ConnectedFirstStep DEF Noted
<1> QED BY <1>1, <1>2, TypeCorrect, PTL DEF Spec

\* Only an outdated edit and an outdated failed test take last_connected_at back.
THEOREM ConnectedRegressesThm == Spec => ConnectedRegressesOnlyIf
<1> DEFINE Back == server.exists /\ server'.exists /\ server'.connected < server.connected
           Excused == \/ form' # form
                      \/ \E w \in Workers : pc[w] = "save" /\ pc'[w] = "audit" /\ ~good[w]
<1>1. TypeOK /\ Noted /\ [Next]_vars => [Back => Excused]_vars
  <2> SUFFICES ASSUME TypeOK, NoneAhead, ConnectedFirst, Next, Back PROVE Excused
    BY DEF Noted
  <2> USE DEF row, local, counts
  <2>0. server.connected \in Nat /\ clock \in Nat /\ server.connected =< clock
    BY DEF NoneAhead, TypeOK, Rows
  <2>1. ASSUME NEW w \in Workers, Save(w) PROVE Excused
    <3>1. CASE good[w]
      <4>1. server'.connected = clock + 1
        BY <2>1, <3>1 DEF Save, Stamp, TypeOK, Rows
      <4> QED BY <4>1, <2>0
    <3>2. CASE ~good[w]
      BY <2>1, <3>2 DEF Save, Goto, ConnectedFirst, TypeOK
    <3> QED BY <3>1, <3>2
  <2>2. ASSUME NEW w \in Workers, Step(w) \/ Crash(w), ~Save(w) PROVE Excused
    BY <2>0, <2>2, StepNotes
  <2>3. ASSUME NEW b \in BOOLEAN, Submit(b) PROVE Excused
    BY <2>3 DEF Submit, NoForm
  <2>4. ASSUME Edit PROVE Excused
    BY <2>4, <2>0 DEF Edit
  <2>5. CASE Toggle
    <3>1. server'.connected = server.connected
      BY <2>5 DEF Toggle, TypeOK, Rows
    <3> QED BY <2>0, <3>1
  <2>6. ~Delete
    BY DEF Delete, Gone
  <2>7. ASSUME \/ \E k \in Kinds : Request(k) \/ Expire(k)
               \/ \E p \in Paths : ToggleSource(p)
        PROVE  FALSE
    BY <2>0, <2>7 DEF Request, Expire, ToggleSource
  <2> QED BY <2>1, <2>2, <2>3, <2>4, <2>5, <2>6, <2>7 DEF Next
<1> QED BY <1>1, TypeCorrect, NotedThm, PTL DEF Spec, ConnectedRegressesOnlyIf
-----------------------------------------------------------------------------
\* The workers that have saved a status and have yet to write it down.
Due == {w \in Workers : pc[w] \in {"audit", "refused"}}

LEMMA DueCount ==
    ASSUME IsFiniteSet(Workers)
    PROVE  /\ IsFiniteSet(Due) /\ Cardinality(Due) \in Nat
           /\ \A w \in Workers :
                /\ w \notin Due => Cardinality(Due \cup {w}) = Cardinality(Due) + 1
                /\ w \in Due => Cardinality(Due \ {w}) = Cardinality(Due) - 1
<1>1. IsFiniteSet(Due)
  BY FS_Subset DEF Due
<1> QED BY <1>1, FS_CardinalityType, FS_AddElement, FS_RemoveElement

\* A status is saved by one who will write it down, who then does or dies.
LEMMA SavesAuditedStep ==
    ASSUME IsFiniteSet(Workers), TypeOK, SavesAudited, [Next]_vars
    PROVE  SavesAudited'
<1> USE DEF row, local, counts, Goto
<1>0. /\ saves \in Nat /\ audits \in Nat /\ lost \in Nat /\ Cardinality(Due) \in Nat
      /\ saves =< audits + Cardinality(Due) + lost
  BY DueCount DEF TypeOK, SavesAudited, Due
<1>1. SavesAudited' <=> saves' =< audits' + Cardinality(Due') + lost'
  BY DEF SavesAudited, Due
<1>2. ASSUME NEW w \in Workers, Save(w) \/ Refused(w) PROVE SavesAudited'
  <2>1. w \notin Due /\ Due' = Due \cup {w}
    BY <1>2 DEF Save, Refused, Due, TypeOK
  <2>2. saves' = saves + 1 /\ audits' = audits /\ lost' = lost
    BY <1>2 DEF Save, Refused
  <2> QED BY <1>0, <1>1, <2>1, <2>2, DueCount
<1>3. ASSUME NEW w \in Workers, Audit(w) \/ AuditRefused(w) PROVE SavesAudited'
  <2>1. w \in Due /\ Due' = Due \ {w}
    BY <1>3 DEF Audit, AuditRefused, End, Due, TypeOK
  <2>2. saves' = saves /\ audits' = audits + 1 /\ lost' = lost
    BY <1>3 DEF Audit, AuditRefused
  <2> QED BY <1>0, <1>1, <2>1, <2>2, DueCount
<1>4. ASSUME NEW w \in Workers, Crash(w) PROVE SavesAudited'
  <2>1. Due' = Due \ {w}
    BY <1>4 DEF Crash, End, Due, TypeOK
  <2>2. saves' = saves /\ audits' = audits /\ lost' = lost + 1
    BY <1>4 DEF Crash
  <2>3. CASE w \in Due
    BY <1>0, <1>1, <2>1, <2>2, <2>3, DueCount
  <2>4. CASE w \notin Due
    <3>1. Due' = Due
      BY <2>1, <2>4
    <3> QED BY <1>0, <1>1, <2>2, <3>1
  <2> QED BY <2>3, <2>4
<1>5. ASSUME UNCHANGED <<saves, audits>>, lost' \in {lost, lost + 1}, Due' = Due
      PROVE  SavesAudited'
  BY <1>0, <1>1, <1>5
<1>6. ASSUME NEW w \in Workers, Vanished(w) \/ Raise(w) PROVE SavesAudited'
  <2>1. Due' = Due
    BY <1>6 DEF Vanished, Raise, End, Due, TypeOK
  <2>2. UNCHANGED <<saves, audits>> /\ lost' = lost + 1
    BY <1>6 DEF Vanished, Raise
  <2> QED BY <1>5, <2>1, <2>2
<1>7. ASSUME NEW w \in Workers,
             \/ \E k \in Kinds : Load(w, k)
             \/ Lock(w) \/ Skip(w) \/ Probe(w) \/ List(w) \/ Unlock(w)
      PROVE  SavesAudited'
  <2>1. pc[w] \notin {"audit", "refused"} /\ pc'[w] \notin {"audit", "refused"}
    BY <1>7 DEF Load, Lock, Skip, Probe, List, Unlock, End, TypeOK
  <2>2. \A v \in Workers \ {w} : pc'[v] = pc[v]
    BY <1>7 DEF Load, Lock, Skip, Probe, List, Unlock, End, TypeOK
  <2>3. Due' = Due
    BY <2>1, <2>2 DEF Due
  <2>4. UNCHANGED <<saves, audits, lost>>
    BY <1>7 DEF Load, Lock, Skip, Probe, List, Unlock
  <2> QED BY <1>5, <2>3, <2>4
<1>8. ASSUME \/ \E w \in Workers, k \in Kinds : Missing(w, k)
             \/ \E w \in Workers, p \in Paths : Create(w, p)
             \/ \E k \in Kinds : Request(k) \/ Expire(k)
             \/ \E p \in Paths : ToggleSource(p)
             \/ \E b \in BOOLEAN : Submit(b)
             \/ Toggle \/ Delete \/ Edit \/ UNCHANGED vars
      PROVE  SavesAudited'
  <2>1. UNCHANGED <<saves, audits, lost, pc>>
    BY <1>8 DEF Missing, Create, Request, Expire, ToggleSource, Submit, Toggle, Delete, Edit, vars
  <2> QED BY <1>5, <2>1 DEF Due
<1> QED BY <1>2, <1>3, <1>4, <1>6, <1>7, <1>8 DEF Next, Step

\* Every status saved is written down, about to be, or was saved by one who died.
THEOREM SavesAuditedThm == ASSUME IsFiniteSet(Workers) PROVE Spec => []SavesAudited
<1>1. Init => SavesAudited
  <2>1. ASSUME Init PROVE Due = {}
    BY <2>1 DEF Init, Due
  <2>2. ASSUME Init PROVE saves = 0 /\ audits = 0 /\ lost = 0
    BY <2>2 DEF Init
  <2>3. Cardinality({}) = 0
    BY FS_EmptySet
  <2>4. ASSUME Init PROVE saves =< audits + Cardinality(Due) + lost
    BY <2>1, <2>2, <2>3, <2>4
  <2> QED BY <2>4 DEF SavesAudited, Due
<1>2. TypeOK /\ SavesAudited /\ [Next]_vars => SavesAudited'
  BY SavesAuditedStep
<1> QED BY <1>1, <1>2, TypeCorrect, PTL DEF Spec
-----------------------------------------------------------------------------
(* The sum of a function's values, as FoldFunction computes it.              *)

First(s) == CHOOSE x \in s : TRUE
Adds(g, f, S) == g = [s \in SUBSET S |-> IF s = {} THEN 0 ELSE f[First(s)] + g[s \ {First(s)}]]
Sums(f, S) == CHOOSE g : Adds(g, f, S)
Total(f, S) == Sums(f, S)[S]

\* A set of numbers that has one has a least one: induction, by its absurd.
LEMMA LeastNumber ==
    ASSUME NEW U \in SUBSET Nat, U # {}
    PROVE  \E n \in U : \A m \in U : n =< m
<1> DEFINE R == OpToRel(<, Nat)
<1>1. IsWellFoundedOn(R, Nat)
  BY NatLessThanWellFounded
<1>2. PICK n \in U : \A m \in U : ~(<<m, n>> \in R)
  <2> HIDE DEF R
  <2> QED BY <1>1, WFMin
<1>3. \A m \in U : ~(m < n)
  BY <1>2 DEF OpToRel
<1> QED BY <1>3

\* The subsets of a finite set, by size.
UpTo(n, S) == {s \in SUBSET S : Cardinality(s) =< n}
SumsUpTo(n, f, S) ==
    \E g : g = [s \in UpTo(n, S) |-> IF s = {} THEN 0 ELSE f[First(s)] + g[s \ {First(s)}]]

LEMMA Smaller ==
    ASSUME NEW S, IsFiniteSet(S), NEW s \in SUBSET S
    PROVE  /\ Cardinality(s) \in Nat /\ Cardinality(s) =< Cardinality(S)
           /\ Cardinality(s) = 0 <=> s = {}
           /\ s # {} => /\ First(s) \in s /\ s \ {First(s)} \in SUBSET S
                        /\ Cardinality(s \ {First(s)}) = Cardinality(s) - 1
<1>1. IsFiniteSet(s)
  BY FS_Subset
<1>2. ASSUME s # {} PROVE First(s) \in s
  BY <1>2 DEF First
<1> QED BY <1>1, <1>2, FS_Subset, FS_CardinalityType, FS_EmptySet, FS_RemoveElement

LEMMA SumsGrow ==
    ASSUME NEW S, IsFiniteSet(S), NEW f, NEW n \in Nat, SumsUpTo(n, f, S)
    PROVE  SumsUpTo(n + 1, f, S)
<1>1. PICK g : g = [s \in UpTo(n, S) |-> IF s = {} THEN 0 ELSE f[First(s)] + g[s \ {First(s)}]]
  BY DEF SumsUpTo
<1> DEFINE h == [s \in UpTo(n + 1, S) |-> IF s = {} THEN 0 ELSE f[First(s)] + g[s \ {First(s)}]]
<1>2. ASSUME NEW s \in UpTo(n + 1, S), s # {}
      PROVE  /\ s \ {First(s)} \in UpTo(n, S)
             /\ s \ {First(s)} \in UpTo(n + 1, S)
  BY <1>2, Smaller DEF UpTo
<1>3. ASSUME NEW t \in UpTo(n, S), t \in UpTo(n + 1, S) PROVE h[t] = g[t]
  BY <1>1, <1>3
<1>4. h = [s \in UpTo(n + 1, S) |-> IF s = {} THEN 0 ELSE f[First(s)] + h[s \ {First(s)}]]
  <2>1. ASSUME NEW s \in UpTo(n + 1, S), s # {} PROVE h[s \ {First(s)}] = g[s \ {First(s)}]
    BY <1>2, <1>3, <2>1
  <2> HIDE DEF h
  <2>2. h = [s \in UpTo(n + 1, S) |-> IF s = {} THEN 0 ELSE f[First(s)] + g[s \ {First(s)}]]
    BY DEF h
  <2> QED BY <2>1, <2>2
<1> QED BY <1>4 DEF SumsUpTo

LEMMA SumsExist ==
    ASSUME NEW S, IsFiniteSet(S), NEW f
    PROVE  Adds(Sums(f, S), f, S)
<1> DEFINE U == {n \in Nat : ~SumsUpTo(n, f, S)}
<1>1. SumsUpTo(0, f, S)
  <2> DEFINE g == [s \in UpTo(0, S) |-> 0]
  <2>1. ASSUME NEW s \in UpTo(0, S) PROVE s = {}
    <3>1. s \in SUBSET S /\ Cardinality(s) =< 0
      BY DEF UpTo
    <3>2. Cardinality(s) \in Nat /\ (Cardinality(s) = 0 => s = {})
      BY <3>1, Smaller
    <3> QED BY <3>1, <3>2
  <2>2. g = [s \in UpTo(0, S) |-> IF s = {} THEN 0 ELSE f[First(s)] + g[s \ {First(s)}]]
    BY <2>1
  <2> QED BY <2>2 DEF SumsUpTo
<1>2. U = {}
  <2> SUFFICES ASSUME U # {} PROVE FALSE
    OBVIOUS
  <2>1. PICK n \in U : \A m \in U : n =< m
    BY LeastNumber
  <2>2. n # 0
    BY <1>1
  <2>3. n - 1 \in Nat /\ n - 1 \notin U
    BY <2>1, <2>2
  <2>4. SumsUpTo((n - 1) + 1, f, S)
    BY <2>3, SumsGrow
  <2> QED BY <2>4
<1>3. Cardinality(S) \in Nat /\ UpTo(Cardinality(S), S) = SUBSET S
  BY Smaller, FS_CardinalityType DEF UpTo
<1>4. SumsUpTo(Cardinality(S), f, S)
  BY <1>2, <1>3
<1>5. \E g : Adds(g, f, S)
  BY <1>3, <1>4 DEF SumsUpTo, Adds
<1> QED BY <1>5 DEF Sums

\* When one value of a function changes, its sum changes by as much.
LEMMA SumChanges ==
    ASSUME NEW S, IsFiniteSet(S), NEW w \in S, NEW f \in [S -> Nat], NEW e \in [S -> Nat],
           \A x \in S : x # w => e[x] = f[x]
    PROVE  /\ Total(f, S) \in Nat /\ Total(e, S) \in Nat
           /\ Total(e, S) + f[w] = Total(f, S) + e[w]
<1> DEFINE F == Sums(f, S)
           E == Sums(e, S)
           Q(s) == /\ F[s] \in Nat /\ E[s] \in Nat
                   /\ w \in s => E[s] + f[w] = F[s] + e[w]
                   /\ w \notin s => E[s] = F[s]
           U == {n \in Nat : \E s \in SUBSET S : Cardinality(s) = n /\ ~Q(s)}
<1>1. \A s \in SUBSET S : /\ F[s] = IF s = {} THEN 0 ELSE f[First(s)] + F[s \ {First(s)}]
                          /\ E[s] = IF s = {} THEN 0 ELSE e[First(s)] + E[s \ {First(s)}]
  <2>1. Adds(F, f, S) /\ Adds(E, e, S)
    BY SumsExist
  <2> HIDE DEF F, E
  <2> QED BY <2>1 DEF Adds
<1>2. U = {}
  <2> SUFFICES ASSUME U # {} PROVE FALSE
    OBVIOUS
  <2>1. PICK n \in U : \A m \in U : n =< m
    <3> HIDE DEF U
    <3>1. U \in SUBSET Nat
      BY DEF U
    <3> QED BY <3>1, LeastNumber
  <2>2. PICK s \in SUBSET S : Cardinality(s) = n /\ ~Q(s)
    OBVIOUS
  <2> HIDE DEF F, E
  <2>3. s # {}
    <3>1. ASSUME s = {} PROVE F[s] = 0 /\ E[s] = 0 /\ w \notin s
      BY <1>1, <3>1
    <3> QED BY <2>2, <3>1
  <2> DEFINE x == First(s)
             t == s \ {x}
  <2>4. x \in s /\ t \in SUBSET S /\ Cardinality(t) = n - 1 /\ n - 1 \in Nat
    BY <2>2, <2>3, Smaller
  <2>5. Q(t)
    <3>1. n - 1 \notin U
      BY <2>1, <2>4
    <3> QED BY <2>4, <3>1
  <2>6. F[s] = f[x] + F[t] /\ E[s] = e[x] + E[t]
    BY <1>1, <2>3
  <2> HIDE DEF x, t
  <2>7. f[x] \in Nat /\ e[x] \in Nat /\ f[w] \in Nat /\ e[w] \in Nat
    BY <2>4
  <2>8. CASE x = w
    <3>1. w \notin t /\ w \in s
      BY <2>4, <2>8 DEF t
    <3> QED BY <2>2, <2>5, <2>6, <2>7, <2>8, <3>1
  <2>9. CASE x # w
    <3>1. (w \in t <=> w \in s) /\ e[x] = f[x]
      BY <2>4, <2>9 DEF t
    <3>2. CASE w \in s
      BY <2>2, <2>5, <2>6, <2>7, <3>1, <3>2
    <3>3. CASE w \notin s
      BY <2>2, <2>5, <2>6, <2>7, <3>1, <3>3
    <3> QED BY <3>2, <3>3
  <2> QED BY <2>8, <2>9
<1>3. Q(S)
  <2>1. Cardinality(S) \in Nat
    BY FS_CardinalityType
  <2> QED BY <1>2, <2>1
<1> QED BY <1>3 DEF Total

\* A sum of nothing but zeros.
LEMMA ZeroSum ==
    ASSUME NEW S, IsFiniteSet(S)
    PROVE  Total([x \in S |-> 0], S) = 0
<1> DEFINE f == [x \in S |-> 0]
           F == Sums(f, S)
           U == {n \in Nat : \E s \in SUBSET S : Cardinality(s) = n /\ F[s] # 0}
<1>1. \A s \in SUBSET S : F[s] = IF s = {} THEN 0 ELSE f[First(s)] + F[s \ {First(s)}]
  <2>1. Adds(F, f, S)
    BY SumsExist
  <2> HIDE DEF F, f
  <2> QED BY <2>1 DEF Adds
<1>2. U = {}
  <2> SUFFICES ASSUME U # {} PROVE FALSE
    OBVIOUS
  <2>1. PICK n \in U : \A m \in U : n =< m
    <3> HIDE DEF U
    <3>1. U \in SUBSET Nat
      BY DEF U
    <3> QED BY <3>1, LeastNumber
  <2>2. PICK s \in SUBSET S : Cardinality(s) = n /\ F[s] # 0
    OBVIOUS
  <2> HIDE DEF F
  <2>3. s # {}
    BY <1>1, <2>2
  <2>4. /\ First(s) \in s /\ s \ {First(s)} \in SUBSET S
        /\ Cardinality(s \ {First(s)}) = n - 1 /\ n - 1 \in Nat
    BY <2>2, <2>3, Smaller
  <2>5. F[s \ {First(s)}] = 0
    <3>1. n - 1 \notin U
      BY <2>1, <2>4
    <3> QED BY <2>4, <3>1
  <2>6. f[First(s)] = 0
    BY <2>4
  <2>7. F[s] = f[First(s)] + F[s \ {First(s)}]
    BY <1>1, <2>3
  <2> HIDE DEF f
  <2> QED BY <2>2, <2>5, <2>6, <2>7
<1>3. F[S] = 0
  <2>1. Cardinality(S) \in Nat
    BY FS_CardinalityType
  <2> QED BY <1>2, <2>1
<1> QED BY <1>3 DEF Total
-----------------------------------------------------------------------------
\* Only who is creating log sources, or about to write down how many, has made any.
MadeNow == \A w \in Workers : pc[w] \notin {"create", "audit"} => made[w] = 0
Counted == MadeNow /\ CreatedAgrees

LEMMA MadeNowStep ==
    ASSUME TypeOK, MadeNow, [Next]_vars
    PROVE  MadeNow'
<1> SUFFICES ASSUME NEW w \in Workers, pc'[w] \notin {"create", "audit"} PROVE made'[w] = 0
  BY DEF MadeNow
<1> USE DEF TypeOK, MadeNow, Goto, End, row, local, counts
<1>1. CASE UNCHANGED <<pc, made>>
  BY <1>1
<1>2. ASSUME NEW v \in Workers, Step(v) \/ Crash(v) PROVE made'[w] = 0
  <2>1. CASE v # w
    <3>1. pc'[w] = pc[w] /\ made'[w] = made[w]
      BY <1>2, <2>1 DEF Step, Crash, Load, Missing, Create, Lock, Skip, Probe, List, Refused,
        AuditRefused, Unlock, Save, Audit, Vanished, Raise
    <3> QED BY <3>1
  <2>2. CASE v = w
    <3>1. \/ made'[w] = 0
          \/ pc'[w] \in {"create", "audit"}
          \/ pc[w] \notin {"create", "audit"} /\ made'[w] = made[w]
          \/ UNCHANGED <<pc, made>>
      BY <1>2, <2>2 DEF Step, Crash, Load, Missing, Create, Lock, Skip, Probe, List, Refused,
        AuditRefused, Unlock, Save, Audit, Vanished, Raise
    <3> QED BY <3>1, <1>1
  <2> QED BY <2>1, <2>2
<1>3. ASSUME \/ \E k \in Kinds : Request(k) \/ Expire(k)
             \/ \E p \in Paths : ToggleSource(p)
             \/ \E b \in BOOLEAN : Submit(b)
             \/ Toggle \/ Delete \/ Edit \/ UNCHANGED vars
      PROVE  UNCHANGED <<pc, made>>
  BY <1>3 DEF Request, Expire, ToggleSource, Submit, Toggle, Delete, Edit, vars
<1> QED BY <1>1, <1>2, <1>3 DEF Next

Made == Total(made, Workers)

\* FoldFunction computes it.
LEMMA CreatedIsTotal ==
    ASSUME DOMAIN made = Workers
    PROVE  CreatedAgrees <=> told + Made =< born /\ (lost = 0 => told + Made = born)
<1>1. FoldFunction(+, 0, made) = Made
  BY DEF FoldFunction, FoldFunctionOnSet, MapThenFoldSet, Sums, Adds, First, Made, Total
<1> QED BY <1>1 DEF CreatedAgrees

LEMMA CreatedIsTotalNext ==
    ASSUME DOMAIN made' = Workers
    PROVE  CreatedAgrees' <=> told' + Made' =< born' /\ (lost' = 0 => told' + Made' = born')
<1>1. FoldFunction(+, 0, made)' = Made'
  BY DEF FoldFunction, FoldFunctionOnSet, MapThenFoldSet, Sums, Adds, First, Made, Total
<1> QED BY <1>1 DEF CreatedAgrees

\* What one worker's step does to the sum.
LEMMA MadeChanges ==
    ASSUME IsFiniteSet(Workers), TypeOK, NEW w \in Workers, NEW n \in Nat,
           made' = [made EXCEPT ![w] = n]
    PROVE  /\ Made \in Nat /\ Made' \in Nat /\ made[w] \in Nat
           /\ Made' + made[w] = Made + n
<1>1. made \in [Workers -> Nat] /\ made' \in [Workers -> Nat]
  BY DEF TypeOK
<1>2. /\ \A x \in Workers : x # w => made'[x] = made[x]
      /\ made'[w] = n
  BY <1>1
<1>3. ASSUME NEW f \in [Workers -> Nat], NEW e \in [Workers -> Nat],
             \A x \in Workers : x # w => e[x] = f[x]
      PROVE  /\ Total(f, Workers) \in Nat /\ Total(e, Workers) \in Nat
             /\ Total(e, Workers) + f[w] = Total(f, Workers) + e[w]
  BY <1>3, SumChanges
<1>4. /\ Total(made, Workers) \in Nat /\ Total(made', Workers) \in Nat
      /\ Total(made', Workers) + made[w] = Total(made, Workers) + made'[w]
  BY <1>1, <1>2, <1>3
<1> QED BY <1>1, <1>2, <1>4 DEF Made, TypeOK

LEMMA CreatedAgreesStep ==
    ASSUME IsFiniteSet(Workers), TypeOK, TypeOK', Counted, [Next]_vars
    PROVE  CreatedAgrees'
<1> USE DEF row, local, counts
<1>0. /\ told \in Nat /\ born \in Nat /\ lost \in Nat
      /\ told + Made =< born /\ (lost = 0 => told + Made = born)
  BY CreatedIsTotal DEF TypeOK, Counted
<1>1. CreatedAgrees' <=> /\ told' + Made' =< born'
                         /\ (lost' = 0 => told' + Made' = born')
  BY CreatedIsTotalNext DEF TypeOK
<1>2. ASSUME UNCHANGED <<told, born, lost, made>> PROVE CreatedAgrees'
  BY <1>0, <1>1, <1>2 DEF Made
<1>3. ASSUME NEW w \in Workers, NEW p \in Paths, Create(w, p) PROVE CreatedAgrees'
  <2>1. PICK n \in {0, 1} : made' = [made EXCEPT ![w] = made[w] + n] /\ born' = born + n
    BY <1>3 DEF Create, TypeOK
  <2>2. UNCHANGED <<told, lost>> /\ made[w] + n \in Nat
    BY <1>3 DEF Create, TypeOK
  <2>3. Made \in Nat /\ Made' \in Nat /\ made[w] \in Nat /\ Made' + made[w] = Made + (made[w] + n)
    BY <2>1, <2>2, MadeChanges
  <2>4. Made' = Made + n
    BY <2>3
  <2> QED BY <1>0, <1>1, <2>1, <2>2, <2>3, <2>4
<1>4. ASSUME NEW w \in Workers, End(w)
      PROVE  Made \in Nat /\ Made' \in Nat /\ made[w] \in Nat /\ Made' + made[w] = Made
  <2>1. made' = [made EXCEPT ![w] = 0]
    BY <1>4 DEF End
  <2>2. Made \in Nat /\ Made' \in Nat /\ made[w] \in Nat /\ Made' + made[w] = Made + 0
    BY <2>1, MadeChanges
  <2> QED BY <2>2
<1>5. ASSUME NEW w \in Workers, Audit(w) PROVE CreatedAgrees'
  <2>1. End(w) /\ told' = told + made[w] /\ UNCHANGED <<born, lost>>
    BY <1>5 DEF Audit
  <2> QED BY <1>0, <1>1, <1>4, <2>1
<1>6. ASSUME NEW w \in Workers, Vanished(w) \/ Raise(w) \/ Crash(w) PROVE CreatedAgrees'
  <2>1. End(w) /\ lost' = lost + 1 /\ UNCHANGED <<born, told>>
    BY <1>6 DEF Vanished, Raise, Crash
  <2> QED BY <1>0, <1>1, <1>4, <2>1
<1>7. ASSUME NEW w \in Workers, Skip(w) \/ Unlock(w) PROVE CreatedAgrees'
  <2>1. UNCHANGED <<born, told, lost>> /\ (End(w) \/ UNCHANGED made)
    BY <1>7 DEF Skip, Unlock
  <2>2. made[w] = 0
    BY <1>7 DEF Skip, Unlock, Counted, MadeNow
  <2>3. CASE End(w)
    BY <1>0, <1>1, <1>4, <2>1, <2>2, <2>3
  <2> QED BY <1>2, <2>1, <2>3
<1>8. ASSUME \/ \E w \in Workers, k \in Kinds : Load(w, k) \/ Missing(w, k)
             \/ \E w \in Workers : \/ Lock(w) \/ Probe(w) \/ List(w) \/ Refused(w)
                                    \/ AuditRefused(w) \/ Save(w)
             \/ \E k \in Kinds : Request(k) \/ Expire(k)
             \/ \E p \in Paths : ToggleSource(p)
             \/ \E b \in BOOLEAN : Submit(b)
             \/ Toggle \/ Delete \/ Edit \/ UNCHANGED vars
      PROVE  UNCHANGED <<told, born, lost, made>>
  BY <1>8 DEF Load, Missing, Lock, Probe, List, Refused, AuditRefused, Save,
    Request, Expire, ToggleSource, Submit, Toggle, Delete, Edit, vars
<1> QED BY <1>2, <1>3, <1>5, <1>6, <1>7, <1>8 DEF Next, Step

\* The audit log counts every log source created once.
THEOREM CreatedAgreesThm == ASSUME IsFiniteSet(Workers) PROVE Spec => []CreatedAgrees
<1>1. Init => TypeOK /\ Counted
  <2> SUFFICES ASSUME Init PROVE TypeOK /\ Counted
    OBVIOUS
  <2>1. TypeOK
    BY DEF Init, TypeOK, Rows, Places, Kinds, Gone, NoForm
  <2>2. MadeNow
    BY DEF Init, MadeNow
  <2>3. Made = 0
    BY ZeroSum DEF Init, Made
  <2>4. CreatedAgrees
    BY <2>1, <2>3, CreatedIsTotal DEF Init
  <2> QED BY <2>1, <2>2, <2>4 DEF Counted
<1>2. TypeOK /\ TypeOK' /\ Counted /\ [Next]_vars => Counted'
  BY MadeNowStep, CreatedAgreesStep DEF Counted
<1>3. Counted => CreatedAgrees
  BY DEF Counted
<1> QED BY <1>1, <1>2, <1>3, TypeCorrect, PTL DEF Spec
=============================================================================
