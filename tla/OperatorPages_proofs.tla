------------------------ MODULE OperatorPages_proofs ------------------------
(***************************************************************************)
(* Proofs about OperatorPages for any handlers, users, credentials, keys   *)
(* and bounds.                                                             *)
(***************************************************************************)
EXTENDS OperatorPages, FiniteSetTheorems, TLAPS

Places == {"idle", "read", "validate", "save", "audit", "leave"}
Who == Users \cup {Nobody}
Plain == Secrets \cup {Blank}
Columns == [key : Keys, secret : Plain]
Copies == [id : Nat, enabled : BOOLEAN, secret : Plain]
Counts == [Actions -> [Who -> Nat]]

\* The shape of the state: every row and every copy of one has an id that was
\* given out, for which a credential is expected.
TypeOK ==
    /\ server \in [id : 0 .. lastId, enabled : BOOLEAN, column : Columns]
    /\ lastId \in Nat /\ expected \in Seq(Plain) /\ Len(expected) = lastId
    /\ key \in [Handlers -> Keys]
    /\ context \in [Handlers -> Who] /\ token \in [Handlers -> Who]
    /\ pc \in [Handlers -> Places]
    /\ request \in [Handlers -> [view : Views, user : Who, typed : Plain, enabled : BOOLEAN]]
    /\ copy \in [Handlers -> Copies] /\ \A h \in Handlers : copy[h].id =< lastId
    /\ entries \in Counts /\ changes \in Counts
    /\ overtaken \in SUBSET Handlers
    /\ requests \in Nat /\ rotations \in Nat /\ deaths \in Nat

\* A request is an operator's and starts without a copy; only what has been read
\* is edited, toggled or deleted.
Sane ==
    \A h \in Handlers :
        /\ pc[h] # "idle" => request[h].user \in Users
        /\ pc[h] = "read" => request[h].view # "create"
        /\ pc[h] \in {"idle", "read"} => copy[h].id = 0
        /\ pc[h] = "validate" => request[h].view \in {"create", "update"}
        /\ pc[h] \in {"validate", "save", "audit"} /\ request[h].view # "create" => copy[h].id # 0

LEMMA PlaceNames ==
    /\ "idle" \in Places /\ "read" \in Places /\ "validate" \in Places
    /\ "save" \in Places /\ "audit" \in Places /\ "leave" \in Places
  BY DEF Places

LEMMA BlankTypes ==
    /\ Blank \in Plain /\ Nobody \in Who /\ NoColumn \in Columns
    /\ NoRequest \in [view : Views, user : Who, typed : Plain, enabled : BOOLEAN]
    /\ NoCopy \in Copies /\ NoCopy.id = 0
  BY PagesAssumption DEF Plain, Who, NoColumn, Columns, NoRequest, Views, NoCopy, Copies

LEMMA EncryptType ==
    ASSUME NEW k \in Keys, NEW s \in Plain
    PROVE  Encrypt(k, s) \in Columns /\ Encrypt(k, s).secret = s
  BY BlankTypes DEF Encrypt, Columns, NoColumn

LEMMA DecryptType ==
    ASSUME NEW k \in Keys, NEW c \in Columns
    PROVE  Decrypt(k, c) \in Plain /\ Decrypt(k, c) \in {c.secret, Blank}
  BY BlankTypes DEF Decrypt, Columns

\* Every change has a name, and is counted once.
LEMMA ActionType ==
    ASSUME TypeOK, NEW h \in Handlers
    PROVE  /\ Action(h) \in Actions
           /\ Action(h) = "server.deleted" <=> request[h].view = "delete"
<1>1. request[h].view \in Views
  BY DEF TypeOK
<1> QED BY <1>1 DEF Action, Actions, Views

LEMMA CountType ==
    ASSUME NEW c \in Counts, NEW a \in Actions, NEW u \in Who
    PROVE  /\ [c EXCEPT ![a][u] = @ + 1] \in Counts
           /\ \A b \in Actions, v \in Who :
                [c EXCEPT ![a][u] = @ + 1][b][v] = IF b = a /\ v = u THEN c[b][v] + 1 ELSE c[b][v]
  BY DEF Counts

\* One step of a handler's request keeps the shape.
LEMMA TypeStep ==
    ASSUME TypeOK, Sane, [Next]_vars
    PROVE  TypeOK'
<1> USE DEF history, bounds, Goto
<1>1. ASSUME NEW h \in Handlers, NEW r \in Requests, Enter(h, r) PROVE TypeOK'
  <2>1. r \in [view : Views, user : Who, typed : Plain, enabled : BOOLEAN]
    BY DEF Requests, Who, Plain
  <2>2. r.user \in Who
    BY <2>1
  <2>3. pc' \in [Handlers -> Places]
    BY <1>1, PlaceNames DEF Enter, TypeOK
  <2>4. /\ request' \in [Handlers -> [view : Views, user : Who, typed : Plain, enabled : BOOLEAN]]
        /\ context' \in [Handlers -> Who] /\ token' \in [Handlers -> Who]
    BY <1>1, <2>1, <2>2 DEF Enter, TypeOK
  <2> QED BY <1>1, <2>3, <2>4 DEF Enter, TypeOK
<1>2. ASSUME NEW h \in Handlers, Read(h) PROVE TypeOK'
  <2>1. pc' \in [Handlers -> Places]
    <3>1. request[h].view \in Views /\ request[h].view # "create"
      BY <1>2 DEF Read, Sane, TypeOK
    <3>2. PICK p \in Places : pc' = [pc EXCEPT ![h] = p]
      BY <1>2, <3>1, PlaceNames DEF Read, Views
    <3> QED BY <3>2 DEF TypeOK
  <2>2. copy' \in [Handlers -> Copies] /\ \A g \in Handlers : copy'[g].id =< lastId
    <3>1. CASE copy' = copy
      BY <3>1 DEF TypeOK
    <3>2. CASE copy' # copy
      <4> DEFINE c == [id |-> server.id, enabled |-> server.enabled,
                       secret |-> Decrypt(key[h], server.column)]
      <4>1. server.column \in Columns /\ key[h] \in Keys
        BY DEF TypeOK
      <4>2. c \in Copies /\ c.id =< lastId
        BY <4>1, DecryptType DEF TypeOK, Copies
      <4>3. copy' = [copy EXCEPT ![h] = c]
        BY <1>2, <3>2 DEF Read
      <4> QED BY <4>2, <4>3 DEF TypeOK
    <3> QED BY <3>1, <3>2
  <2> QED BY <1>2, <2>1, <2>2 DEF Read, TypeOK
<1>3. ASSUME NEW h \in Handlers, Validate(h) PROVE TypeOK'
  BY <1>3, PlaceNames DEF Validate, TypeOK
<1>4. ASSUME NEW h \in Handlers, Did(h) PROVE changes' \in Counts
  <2>1. Action(h) \in Actions /\ request[h].user \in Who /\ changes \in Counts
    BY ActionType DEF TypeOK
  <2> QED BY <1>4, <2>1, CountType DEF Did
<1>5. ASSUME NEW h \in Handlers, Create(h) PROVE TypeOK'
  <2>1. request[h].typed \in Plain /\ key[h] \in Keys /\ request[h].enabled \in BOOLEAN
    BY DEF TypeOK
  <2>2. Encrypt(key[h], request[h].typed) \in Columns
    BY <2>1, EncryptType
  <2>3. lastId' = lastId + 1 /\ lastId' \in Nat /\ lastId' \in 0 .. lastId'
    BY <1>5 DEF Create, TypeOK
  <2>4. server' \in [id : 0 .. lastId', enabled : BOOLEAN, column : Columns]
    BY <1>5, <2>1, <2>2, <2>3 DEF Create
  <2>5. expected' \in Seq(Plain) /\ Len(expected') = lastId'
    BY <1>5, <2>1, <2>3 DEF Create, TypeOK
  <2>6. \A g \in Handlers : copy'[g].id =< lastId'
    BY <1>5, <2>3 DEF Create, TypeOK, Copies
  <2>7. pc' \in [Handlers -> Places]
    BY <1>5, PlaceNames DEF Create, TypeOK
  <2>8. changes' \in Counts
    BY <1>4, <1>5 DEF Create
  <2> QED BY <1>5, <2>3, <2>4, <2>5, <2>6, <2>7, <2>8 DEF Create, TypeOK
<1>6. ASSUME NEW h \in Handlers, Update(h) PROVE TypeOK'
  <2>1. Kept(h) \in Plain /\ key[h] \in Keys /\ request[h].enabled \in BOOLEAN
    BY DEF TypeOK, Kept, Copies
  <2>2. Encrypt(key[h], Kept(h)) \in Columns
    BY <2>1, EncryptType
  <2>3. copy[h].id \in 0 .. lastId
    BY DEF TypeOK, Copies
  <2>4. server' \in [id : 0 .. lastId, enabled : BOOLEAN, column : Columns]
    BY <1>6, <2>1, <2>2, <2>3 DEF Update
  <2>5. expected' \in Seq(Plain) /\ Len(expected') = lastId
    <3>1. expected' = expected \/ expected' = [expected EXCEPT ![copy[h].id] = Kept(h)]
      BY <1>6 DEF Update
    <3>2. copy[h].id \in DOMAIN expected
      BY <1>6, <2>3 DEF Update, Sane, TypeOK
    <3>3. /\ [expected EXCEPT ![copy[h].id] = Kept(h)] \in Seq(Plain)
          /\ Len([expected EXCEPT ![copy[h].id] = Kept(h)]) = Len(expected)
      BY <2>1, <3>2 DEF TypeOK
    <3> QED BY <3>1, <3>3 DEF TypeOK
  <2>6. pc' \in [Handlers -> Places]
    BY <1>6, PlaceNames DEF Update, TypeOK
  <2>7. changes' \in Counts
    BY <1>4, <1>6 DEF Update
  <2>8. overtaken' \in SUBSET Handlers
    BY <1>6 DEF Update, TypeOK
  <2> QED BY <1>6, <2>4, <2>5, <2>6, <2>7, <2>8 DEF Update, TypeOK
<1>7. ASSUME NEW h \in Handlers, Toggle(h) PROVE TypeOK'
  <2>1. server' \in [id : 0 .. lastId, enabled : BOOLEAN, column : Columns]
    BY <1>7 DEF Toggle, TypeOK, Copies
  <2>2. pc' \in [Handlers -> Places]
    BY <1>7, PlaceNames DEF Toggle, TypeOK
  <2>3. changes' \in Counts
    BY <1>4, <1>7 DEF Toggle
  <2> QED BY <1>7, <2>1, <2>2, <2>3 DEF Toggle, TypeOK
<1>8. ASSUME NEW h \in Handlers, Delete(h) PROVE TypeOK'
  <2>1. server' \in [id : 0 .. lastId, enabled : BOOLEAN, column : Columns]
    <3>1. NoServer \in [id : 0 .. lastId, enabled : BOOLEAN, column : Columns]
      BY BlankTypes DEF TypeOK, NoServer
    <3> QED BY <1>8, <3>1 DEF Delete, TypeOK
  <2>2. pc' \in [Handlers -> Places]
    BY <1>8, PlaceNames DEF Delete, TypeOK
  <2>3. changes' \in Counts
    BY <1>4, <1>8 DEF Delete, TypeOK
  <2> QED BY <1>8, <2>1, <2>2, <2>3 DEF Delete, TypeOK
<1>9. ASSUME NEW h \in Handlers, Refused(h) PROVE TypeOK'
  BY <1>9, PlaceNames DEF Refused, TypeOK
<1>10. ASSUME NEW h \in Handlers, Audit(h) PROVE TypeOK'
  <2>1. Action(h) \in Actions /\ context[h] \in Who /\ entries \in Counts
    BY ActionType DEF TypeOK
  <2>2. entries' \in Counts
    BY <1>10, <2>1, CountType DEF Audit
  <2>3. pc' \in [Handlers -> Places]
    BY <1>10, PlaceNames DEF Audit, TypeOK
  <2> QED BY <1>10, <2>2, <2>3 DEF Audit, TypeOK
<1>11. ASSUME NEW h \in Handlers,
              request' = [request EXCEPT ![h] = NoRequest], copy' = [copy EXCEPT ![h] = NoCopy],
              Goto(h, "idle"), token' = [token EXCEPT ![h] = Nobody],
              context' \in [Handlers -> Who], key' \in [Handlers -> Keys], deaths' \in Nat, rotations' \in Nat,
              UNCHANGED <<server, lastId, entries, history, requests>>
       PROVE  TypeOK'
  <2>1. /\ request' \in [Handlers -> [view : Views, user : Who, typed : Plain, enabled : BOOLEAN]]
        /\ pc' \in [Handlers -> Places] /\ token' \in [Handlers -> Who]
    BY <1>11, BlankTypes, PlaceNames DEF TypeOK
  <2>2. copy' \in [Handlers -> Copies] /\ \A g \in Handlers : copy'[g].id =< lastId
    BY <1>11, BlankTypes DEF TypeOK
  <2> QED BY <1>11, <2>1, <2>2 DEF TypeOK
<1>12. ASSUME NEW h \in Handlers, Leave(h) PROVE TypeOK'
  <2>1. context' \in [Handlers -> Who]
    BY <1>12 DEF Leave, TypeOK
  <2> QED BY <1>11, <1>12, <2>1 DEF Leave, TypeOK
<1>13. ASSUME NEW h \in Handlers, Fail(h) PROVE TypeOK'
  BY <1>13, PlaceNames DEF Fail, TypeOK
<1>14. ASSUME NEW h \in Handlers, Kill(h) PROVE TypeOK'
  <2>1. context' \in [Handlers -> Who]
    BY <1>14, BlankTypes DEF Kill, Fresh, TypeOK
  <2>2. key' \in [Handlers -> Keys] /\ deaths' \in Nat /\ rotations' \in Nat
    BY <1>14 DEF Kill, TypeOK
  <2> QED BY <1>11, <1>14, <2>1, <2>2 DEF Kill, Fresh
<1>15. ASSUME NEW h \in Handlers, NEW k \in Keys, Rotate(h, k) PROVE TypeOK'
  <2>1. context' \in [Handlers -> Who] /\ key' \in [Handlers -> Keys]
    BY <1>15, BlankTypes DEF Rotate, Fresh, TypeOK
  <2>2. deaths' \in Nat /\ rotations' \in Nat
    BY <1>15 DEF Rotate, TypeOK
  <2> QED BY <1>11, <1>15, <2>1, <2>2 DEF Rotate, Fresh
<1>16. CASE UNCHANGED vars
  BY <1>16 DEF vars, TypeOK
<1> QED BY <1>1, <1>2, <1>3, <1>5, <1>6, <1>7, <1>8, <1>9, <1>10, <1>12, <1>13, <1>14, <1>15, <1>16
        DEF Next, Step
\* What a step of a handler does to its request and the others'.
LEMMA StepKeeps ==
    ASSUME TypeOK, Sane, NEW h \in Handlers, Step(h) \/ Fail(h), ~Leave(h)
    PROVE  /\ UNCHANGED <<request, context, token>>
           /\ \A g \in Handlers : g # h => pc'[g] = pc[g] /\ copy'[g] = copy[g]
           /\ pc[h] # "idle" /\ pc'[h] \notin {"idle", "read"}
           /\ pc[h] = "read" => (pc'[h] # "leave" => copy'[h].id = server.id /\ server.id # 0)
           /\ pc[h] # "read" => copy'[h] = copy[h]
           /\ pc'[h] # "leave" => pc[h] # "leave"
           /\ pc'[h] = "validate" => request[h].view = "update"
<1> USE DEF Goto
<1>1. CASE Read(h) /\ Exists
  <2>1. copy'[h].id = server.id /\ server.id # 0
    BY <1>1 DEF Read, Exists, TypeOK
  <2>2. request[h].view \in {"update", "toggle", "delete"} /\ pc[h] = "read"
    BY <1>1 DEF Read, Sane, TypeOK, Views
  <2>3. /\ pc'[h] \in {"validate", "save", "audit"}
        /\ pc'[h] = "validate" => request[h].view = "update"
    BY <1>1, <2>2 DEF Read, TypeOK
  <2>4. /\ UNCHANGED <<request, context, token>>
        /\ \A g \in Handlers : g # h => pc'[g] = pc[g] /\ copy'[g] = copy[g]
    BY <1>1 DEF Read, TypeOK
  <2> QED BY <2>1, <2>2, <2>3, <2>4
<1> QED BY <1>1 DEF Step, Fail, Read, Validate, Create, Update, Toggle, Delete, Refused, Audit, TypeOK
LEMMA SaneStep ==
    ASSUME TypeOK, Sane, [Next]_vars
    PROVE  Sane'
<1> USE DEF Goto
<1>1. ASSUME NEW h \in Handlers, NEW r \in Requests, Enter(h, r) PROVE Sane'
  <2>1. r.user \in Users
    BY DEF Requests
  <2>2. /\ pc'[h] \in {"read", "validate"} /\ request'[h] = r
        /\ pc'[h] = "validate" <=> r.view = "create"
        /\ \A g \in Handlers : g # h => pc'[g] = pc[g] /\ request'[g] = request[g]
        /\ copy' = copy /\ pc[h] = "idle"
    BY <1>1 DEF Enter, TypeOK
  <2> QED BY <2>1, <2>2 DEF Sane
<1>2. ASSUME NEW h \in Handlers, Step(h) \/ Fail(h), ~Leave(h) PROVE Sane'
  <2> SUFFICES ASSUME NEW g \in Handlers
               PROVE  /\ pc'[g] # "idle" => request'[g].user \in Users
                      /\ pc'[g] = "read" => request'[g].view # "create"
                      /\ pc'[g] \in {"idle", "read"} => copy'[g].id = 0
                      /\ pc'[g] = "validate" => request'[g].view \in {"create", "update"}
                      /\ pc'[g] \in {"validate", "save", "audit"} /\ request'[g].view # "create" => copy'[g].id # 0
    BY DEF Sane
  <2>1. CASE g # h
    BY <1>2, <2>1, StepKeeps DEF Sane
  <2>2. CASE g = h
    <3>1. pc[h] \in {"read", "validate", "save", "audit"} \/ pc[h] = "leave"
      BY <1>2, StepKeeps DEF TypeOK, Places
    <3> QED BY <1>2, <2>2, <3>1, StepKeeps DEF Sane
  <2> QED BY <2>1, <2>2
<1>3. ASSUME NEW h \in Handlers, Leave(h) \/ Kill(h) \/ \E k \in Keys : Rotate(h, k) PROVE Sane'
  <2>1. /\ pc'[h] = "idle" /\ copy'[h].id = 0
        /\ \A g \in Handlers : g # h => pc'[g] = pc[g] /\ request'[g] = request[g] /\ copy'[g] = copy[g]
    BY <1>3, BlankTypes DEF Leave, Kill, Rotate, Fresh, TypeOK
  <2> QED BY <2>1 DEF Sane
<1>4. CASE UNCHANGED vars
  BY <1>4 DEF vars, Sane
<1> QED BY <1>1, <1>2, <1>3, <1>4 DEF Next, Step

\* Rows, copies and requests keep their shape, and who asks is known.
THEOREM TypeCorrect == Spec => [](TypeOK /\ Sane)
<1>1. Init => TypeOK /\ Sane
  <2> SUFFICES ASSUME Init PROVE TypeOK /\ Sane
    OBVIOUS
  <2>1. /\ NoServer \in [id : 0 .. 0, enabled : BOOLEAN, column : Columns]
        /\ NoCounts \in Counts
    BY BlankTypes DEF NoServer, NoCounts, Counts, Who
  <2>2. \A h \in Handlers : copy[h] = NoCopy
    BY DEF Init
  <2> QED BY <2>1, <2>2, BlankTypes, PlaceNames, PagesAssumption DEF Init, TypeOK, Sane
<1>2. TypeOK /\ Sane /\ [Next]_vars => (TypeOK /\ Sane)'
  BY TypeStep, SaneStep
<1> QED BY <1>1, <1>2, PTL DEF Spec
-----------------------------------------------------------------------------
\* While a request is served the Token to restore is that of an empty context.
Clean == ContextEmptyBetweenRequests /\ \A h \in Handlers : token[h] = Nobody

LEMMA CleanStep ==
    ASSUME TypeOK, Sane, Clean, [Next]_vars
    PROVE  Clean'
<1> USE DEF Goto, Clean, ContextEmptyBetweenRequests
<1>1. ASSUME NEW h \in Handlers, NEW r \in Requests, Enter(h, r) PROVE Clean'
  BY <1>1 DEF Enter, TypeOK
<1>2. ASSUME NEW h \in Handlers, Step(h) \/ Fail(h), ~Leave(h) PROVE Clean'
  BY <1>2, StepKeeps
<1>3. ASSUME NEW h \in Handlers, Leave(h) \/ Kill(h) \/ \E k \in Keys : Rotate(h, k) PROVE Clean'
  <2>1. pc'[h] = "idle" /\ context'[h] = Nobody /\ token'[h] = Nobody
    BY <1>3 DEF Leave, Kill, Rotate, Fresh, TypeOK
  <2>2. \A g \in Handlers : g # h => /\ pc'[g] = pc[g] /\ request'[g] = request[g]
                                     /\ context'[g] = context[g] /\ token'[g] = token[g]
    BY <1>3 DEF Leave, Kill, Rotate, Fresh, TypeOK
  <2> QED BY <2>1, <2>2
<1>4. CASE UNCHANGED vars
  BY <1>4 DEF vars
<1> QED BY <1>1, <1>2, <1>3, <1>4 DEF Next, Step

LEMMA CleanThm == Spec => []Clean
<1>1. Init => Clean
  BY DEF Init, Clean, ContextEmptyBetweenRequests
<1>2. TypeOK /\ Sane /\ Clean /\ [Next]_vars => Clean'
  BY CleanStep
<1> QED BY <1>1, <1>2, TypeCorrect, PTL DEF Spec

\* No request finds or leaves anybody in its handler's context.
THEOREM ContextEmptyThm == Spec => []ContextEmptyBetweenRequests
<1>1. Clean => ContextEmptyBetweenRequests
  BY DEF Clean
<1> QED BY <1>1, CleanThm, PTL
-----------------------------------------------------------------------------
\* A copy that no edit has outdated and that did decrypt has the credential its
\* row is to have.
Current == \A h \in Handlers :
    h \notin overtaken /\ copy[h].id # 0 /\ copy[h].secret # Blank =>
        copy[h].secret = expected[copy[h].id]
Remembered == Current /\ CredentialKept

LEMMA ReadRemembers ==
    ASSUME TypeOK, Sane, Remembered, NEW h \in Handlers, Read(h)
    PROVE  Remembered'
<1> USE DEF history, bounds
<1>1. UNCHANGED <<server, expected>> /\ overtaken' = overtaken \ {h}
  BY DEF Read
<1>2. \A g \in Handlers : g # h => copy'[g] = copy[g]
  BY DEF Read, TypeOK
<1>3. CASE Exists
  <2>1. server.column \in Columns /\ key[h] \in Keys
    BY DEF TypeOK
  <2>2. Decrypt(key[h], server.column) \in {server.column.secret, Blank}
    BY <2>1, DecryptType
  <2>3. copy'[h].id = server.id /\ copy'[h].secret = Decrypt(key[h], server.column)
    BY <1>3 DEF Read, TypeOK
  <2>4. server.column.secret = expected[server.id]
    BY <1>3 DEF Remembered, CredentialKept
  <2> QED BY <1>1, <1>2, <2>2, <2>3, <2>4 DEF Remembered, Current, CredentialKept, Exists
<1>4. CASE ~Exists
  <2>1. copy' = copy /\ copy[h].id = 0
    BY <1>4 DEF Read, Sane
  <2> QED BY <1>1, <2>1 DEF Remembered, Current, CredentialKept, Exists
<1> QED BY <1>3, <1>4

LEMMA CreateRemembers ==
    ASSUME TypeOK, Remembered, NEW h \in Handlers, Create(h)
    PROVE  Remembered'
<1>1. request[h].typed \in Plain /\ key[h] \in Keys
  BY DEF TypeOK
<1>2. server'.id = lastId + 1 /\ server'.column.secret = request[h].typed
  BY <1>1, EncryptType DEF Create
<1>3. expected' = Append(expected, request[h].typed) /\ UNCHANGED <<copy, overtaken>>
  BY DEF Create
<1>4. expected'[lastId + 1] = request[h].typed
  BY <1>1, <1>3 DEF TypeOK
<1>5. ASSUME NEW i \in 1 .. lastId PROVE expected'[i] = expected[i]
  BY <1>1, <1>3 DEF TypeOK
<1>6. ASSUME NEW g \in Handlers, copy[g].id # 0 PROVE copy[g].id \in 1 .. lastId
  BY <1>6 DEF TypeOK, Copies
<1>7. Current'
  BY <1>3, <1>5, <1>6 DEF Remembered, Current
<1>8. CredentialKept'
  BY <1>2, <1>4 DEF CredentialKept
<1> QED BY <1>7, <1>8 DEF Remembered

LEMMA UpdateRemembers ==
    ASSUME TypeOK, Sane, Remembered, NEW h \in Handlers, Update(h)
    PROVE  Remembered'
<1> DEFINE i == copy[h].id
<1>1. Kept(h) \in Plain /\ key[h] \in Keys /\ i \in DOMAIN expected /\ i # 0
  BY DEF TypeOK, Kept, Copies, Update, Sane
<1>2. server'.id = i /\ server'.column.secret = Kept(h)
  BY <1>1, EncryptType DEF Update
<1>3. expected'[i] = Kept(h)
  <2>1. CASE request[h].typed = Blank /\ h \notin overtaken /\ copy[h].secret # Blank
    BY <1>1, <2>1 DEF Update, Kept, Remembered, Current
  <2>2. CASE ~(request[h].typed = Blank /\ h \notin overtaken /\ copy[h].secret # Blank)
    BY <1>1, <2>2 DEF Update, TypeOK
  <2> QED BY <2>1, <2>2
<1>4. ASSUME NEW j \in DOMAIN expected, j # i PROVE expected'[j] = expected[j]
  BY <1>4 DEF Update, TypeOK
<1>5. ASSUME NEW g \in Handlers, copy[g].id # 0 PROVE copy[g].id \in DOMAIN expected
  BY <1>5 DEF TypeOK, Copies
<1>6. copy' = copy /\ overtaken' = overtaken \cup {g \in Handlers : copy[g].id = i}
  BY DEF Update
<1>7. Current'
  BY <1>4, <1>5, <1>6 DEF Remembered, Current
<1>8. CredentialKept'
  BY <1>2, <1>3 DEF CredentialKept
<1> QED BY <1>7, <1>8 DEF Remembered

LEMMA RememberedStep ==
    ASSUME TypeOK, Sane, Remembered, [Next]_vars
    PROVE  Remembered'
<1> USE DEF history, bounds
<1>1. ASSUME NEW h \in Handlers, Toggle(h) \/ Delete(h) PROVE Remembered'
  <2>1. UNCHANGED <<expected, copy, overtaken>>
    BY <1>1 DEF Toggle, Delete
  <2>2. server' = NoServer \/ (server'.id = server.id /\ server'.column = server.column)
    BY <1>1 DEF Toggle, Delete, TypeOK
  <2> QED BY <2>1, <2>2 DEF Remembered, Current, CredentialKept, Exists, NoServer
<1>2. ASSUME NEW h \in Handlers, Leave(h) \/ Kill(h) \/ \E k \in Keys : Rotate(h, k) PROVE Remembered'
  <2>1. UNCHANGED <<server, expected, overtaken>> /\ copy' = [copy EXCEPT ![h] = NoCopy]
    BY <1>2 DEF Leave, Kill, Rotate, Fresh
  <2>2. copy'[h].id = 0 /\ \A g \in Handlers : g # h => copy'[g] = copy[g]
    BY <2>1, BlankTypes DEF TypeOK
  <2> QED BY <2>1, <2>2 DEF Remembered, Current, CredentialKept, Exists
<1>3. ASSUME NEW h \in Handlers,
             Validate(h) \/ Refused(h) \/ Audit(h) \/ Fail(h) \/ \E r \in Requests : Enter(h, r)
      PROVE  UNCHANGED <<server, expected, overtaken, copy>>
  BY <1>3 DEF Validate, Refused, Audit, Fail, Enter
<1>4. ASSUME UNCHANGED <<server, expected, overtaken, copy>> PROVE Remembered'
  BY <1>4 DEF Remembered, Current, CredentialKept, Exists
<1>5. CASE UNCHANGED vars
  BY <1>4, <1>5 DEF vars
<1> QED BY <1>1, <1>2, <1>3, <1>4, <1>5, ReadRemembers, CreateRemembers, UpdateRemembers DEF Next, Step

\* A row keeps the credential it is to have.
THEOREM CredentialKeptThm == Spec => []CredentialKept
<1>1. Init => Remembered
  BY BlankTypes DEF Init, Remembered, Current, CredentialKept, Exists, NoServer
<1>2. TypeOK /\ Sane /\ Remembered /\ [Next]_vars => Remembered'
  BY RememberedStep
<1>3. Remembered => CredentialKept
  BY DEF Remembered
<1> QED BY <1>1, <1>2, <1>3, TypeCorrect, PTL DEF Spec
-----------------------------------------------------------------------------
Deletion == "server.deleted"

\* Deletions that are written down and not yet made.
Announced(u) == {h \in Handlers : pc[h] = "save" /\ request[h].view = "delete" /\ request[h].user = u}

\* The entries that are missing are those of the changes under way; deletions
\* are announced, and the announced ones are never more than the entries.
Balanced(a, u) ==
    /\ entries[a][u] + Cardinality(UnderWay(a, u)) =< changes[a][u]
    /\ changes[a][u] =< entries[a][u] + Cardinality(UnderWay(a, u)) + deaths
Foretold(u) == changes[Deletion][u] + Cardinality(Announced(u)) =< entries[Deletion][u]
Accounts ==
    /\ \A a \in Actions : entries[a][Nobody] = 0
    /\ \A u \in Users : Foretold(u) /\ \A a \in Actions \ {Deletion} : Balanced(a, u)

\* Two sets of handlers that agree but for one.
LEMMA CountOne ==
    ASSUME IsFiniteSet(Handlers), NEW S \in SUBSET Handlers, NEW T \in SUBSET Handlers,
           NEW h \in Handlers, \A g \in Handlers : g # h => (g \in S <=> g \in T)
    PROVE  /\ Cardinality(S) \in Nat /\ Cardinality(T) \in Nat
           /\ (h \in S <=> h \in T) => Cardinality(T) = Cardinality(S)
           /\ h \in T /\ h \notin S => Cardinality(T) = Cardinality(S) + 1
           /\ h \in S /\ h \notin T => Cardinality(S) = Cardinality(T) + 1
<1>1. IsFiniteSet(S) /\ IsFiniteSet(T)
  BY FS_Subset
<1>2. Cardinality(S) \in Nat /\ Cardinality(T) \in Nat
  BY <1>1, FS_CardinalityType
<1>3. (h \in S <=> h \in T) => S = T
  OBVIOUS
<1>4. ASSUME h \in T, h \notin S PROVE Cardinality(T) = Cardinality(S) + 1
  <2>1. T = S \cup {h}
    BY <1>4
  <2> QED BY <1>1, <1>4, <2>1, FS_AddElement
<1>5. ASSUME h \in S, h \notin T PROVE Cardinality(S) = Cardinality(T) + 1
  <2>1. S = T \cup {h}
    BY <1>5
  <2> QED BY <1>1, <1>5, <2>1, FS_AddElement
<1> QED BY <1>2, <1>3, <1>4, <1>5

\* A handler's step moves nobody else in or out of what is under way.
LEMMA OthersStay ==
    ASSUME IsFiniteSet(Handlers), NEW h \in Handlers, NEW a \in Actions, NEW u \in Users,
           \A g \in Handlers : g # h => pc'[g] = pc[g] /\ request'[g] = request[g] /\ copy'[g] = copy[g]
    PROVE  /\ Cardinality(UnderWay(a, u)) \in Nat /\ Cardinality(UnderWay(a, u)') \in Nat
           /\ Cardinality(Announced(u)) \in Nat /\ Cardinality(Announced(u)') \in Nat
           /\ (h \in UnderWay(a, u) <=> h \in UnderWay(a, u)') =>
                Cardinality(UnderWay(a, u)') = Cardinality(UnderWay(a, u))
           /\ h \in UnderWay(a, u)' /\ h \notin UnderWay(a, u) =>
                Cardinality(UnderWay(a, u)') = Cardinality(UnderWay(a, u)) + 1
           /\ h \in UnderWay(a, u) /\ h \notin UnderWay(a, u)' =>
                Cardinality(UnderWay(a, u)) = Cardinality(UnderWay(a, u)') + 1
           /\ (h \in Announced(u) <=> h \in Announced(u)') =>
                Cardinality(Announced(u)') = Cardinality(Announced(u))
           /\ h \in Announced(u)' /\ h \notin Announced(u) =>
                Cardinality(Announced(u)') = Cardinality(Announced(u)) + 1
           /\ h \in Announced(u) /\ h \notin Announced(u)' =>
                Cardinality(Announced(u)) = Cardinality(Announced(u)') + 1
<1>1. \A g \in Handlers : g # h => (g \in UnderWay(a, u) <=> g \in UnderWay(a, u)')
  BY DEF UnderWay, Action
<1>2. \A g \in Handlers : g # h => (g \in Announced(u) <=> g \in Announced(u)')
  BY DEF Announced
<1>3. /\ UnderWay(a, u) \in SUBSET Handlers /\ UnderWay(a, u)' \in SUBSET Handlers
      /\ Announced(u) \in SUBSET Handlers /\ Announced(u)' \in SUBSET Handlers
  BY DEF UnderWay, Announced
<1>4. ASSUME NEW S \in SUBSET Handlers, NEW T \in SUBSET Handlers,
             \A g \in Handlers : g # h => (g \in S <=> g \in T)
      PROVE  /\ Cardinality(S) \in Nat /\ Cardinality(T) \in Nat
             /\ (h \in S <=> h \in T) => Cardinality(T) = Cardinality(S)
             /\ h \in T /\ h \notin S => Cardinality(T) = Cardinality(S) + 1
             /\ h \in S /\ h \notin T => Cardinality(S) = Cardinality(T) + 1
  BY <1>4, CountOne
<1>5. /\ Cardinality(UnderWay(a, u)) \in Nat /\ Cardinality(UnderWay(a, u)') \in Nat
      /\ (h \in UnderWay(a, u) <=> h \in UnderWay(a, u)') =>
            Cardinality(UnderWay(a, u)') = Cardinality(UnderWay(a, u))
      /\ h \in UnderWay(a, u)' /\ h \notin UnderWay(a, u) =>
            Cardinality(UnderWay(a, u)') = Cardinality(UnderWay(a, u)) + 1
      /\ h \in UnderWay(a, u) /\ h \notin UnderWay(a, u)' =>
            Cardinality(UnderWay(a, u)) = Cardinality(UnderWay(a, u)') + 1
  BY <1>1, <1>3, <1>4
<1>6. /\ Cardinality(Announced(u)) \in Nat /\ Cardinality(Announced(u)') \in Nat
      /\ (h \in Announced(u) <=> h \in Announced(u)') =>
            Cardinality(Announced(u)') = Cardinality(Announced(u))
      /\ h \in Announced(u)' /\ h \notin Announced(u) =>
            Cardinality(Announced(u)') = Cardinality(Announced(u)) + 1
      /\ h \in Announced(u) /\ h \notin Announced(u)' =>
            Cardinality(Announced(u)) = Cardinality(Announced(u)') + 1
  BY <1>2, <1>3, <1>4
<1> QED BY <1>5, <1>6

\* What counts are.
LEMMA CountsNat ==
    ASSUME TypeOK, NEW a \in Actions, NEW u \in Users
    PROVE  entries[a][u] \in Nat /\ changes[a][u] \in Nat /\ deaths \in Nat /\ Deletion \in Actions
  BY DEF TypeOK, Counts, Who, Deletion, Actions

\* A step that writes neither a change nor an entry starts nothing, and drops
\* something only when a query fails or a handler is killed.
LEMMA QuietAccounts ==
    ASSUME IsFiniteSet(Handlers), TypeOK, Accounts, NEW h \in Handlers,
           \A g \in Handlers : g # h => pc'[g] = pc[g] /\ request'[g] = request[g] /\ copy'[g] = copy[g],
           UNCHANGED <<entries, changes>>,
           \A u \in Users : h \in Announced(u)' => h \in Announced(u),
           \A a \in Actions \ {Deletion}, u \in Users : h \in UnderWay(a, u)' => h \in UnderWay(a, u),
           \/ deaths' = deaths + 1
           \/ /\ deaths' = deaths
              /\ \A a \in Actions \ {Deletion}, u \in Users : h \in UnderWay(a, u) => h \in UnderWay(a, u)'
    PROVE  Accounts'
<1> SUFFICES ASSUME NEW u \in Users PROVE Foretold(u)' /\ \A a \in Actions \ {Deletion} : Balanced(a, u)'
  BY DEF Accounts
<1>1. Foretold(u)'
  <2>1. /\ entries[Deletion][u] \in Nat /\ changes[Deletion][u] \in Nat /\ Deletion \in Actions
        /\ Foretold(u)
    BY CountsNat, ActionType DEF Accounts, Deletion, Actions
  <2>2. /\ Cardinality(Announced(u)) \in Nat /\ Cardinality(Announced(u)') \in Nat
        /\ Cardinality(Announced(u)') = Cardinality(Announced(u)) \/ Cardinality(Announced(u)) = Cardinality(Announced(u)') + 1
    BY <2>1, OthersStay
  <2> QED BY <2>1, <2>2 DEF Foretold
<1>2. ASSUME NEW a \in Actions \ {Deletion} PROVE Balanced(a, u)'
  <2>1. entries[a][u] \in Nat /\ changes[a][u] \in Nat /\ deaths \in Nat /\ Balanced(a, u)
    BY CountsNat DEF Accounts
  <2>2. /\ Cardinality(UnderWay(a, u)) \in Nat /\ Cardinality(UnderWay(a, u)') \in Nat
        /\ \/ Cardinality(UnderWay(a, u)') = Cardinality(UnderWay(a, u)) /\ deaths' \in {deaths, deaths + 1}
           \/ Cardinality(UnderWay(a, u)) = Cardinality(UnderWay(a, u)') + 1 /\ deaths' = deaths + 1
    BY OthersStay
  <2> QED BY <2>1, <2>2 DEF Balanced
<1> QED BY <1>1, <1>2

\* A change that is counted when it is made, and whose entry is still to come.
LEMMA ChangeAccounts ==
    ASSUME IsFiniteSet(Handlers), TypeOK, Sane, Accounts, NEW h \in Handlers,
           Create(h) \/ Update(h) \/ Toggle(h)
    PROVE  Accounts'
<1> DEFINE b == Action(h)
           v == request[h].user
<1>1. /\ \A g \in Handlers : g # h => pc'[g] = pc[g]
      /\ UNCHANGED <<request, copy, entries, deaths>>
      /\ pc[h] = "save" /\ pc'[h] = "audit" /\ request[h].view # "delete" /\ Did(h)
  BY DEF Create, Update, Toggle, Goto, TypeOK, bounds
<1>2. b \in Actions /\ b # Deletion /\ v \in Users /\ v \in Who /\ changes \in Counts
  BY <1>1, ActionType DEF Sane, TypeOK, Deletion, Who
<1>3. \A a \in Actions, u \in Who : changes'[a][u] = IF a = b /\ u = v THEN changes[a][u] + 1 ELSE changes[a][u]
  <2>1. changes' = [changes EXCEPT ![b][v] = @ + 1]
    BY <1>1 DEF Did
  <2> HIDE DEF b, v
  <2> QED BY <1>2, <2>1, CountType
<1> SUFFICES ASSUME NEW u \in Users PROVE Foretold(u)' /\ \A a \in Actions \ {Deletion} : Balanced(a, u)'
  BY <1>1 DEF Accounts
<1>4. Foretold(u)'
  <2>1. Deletion \in Actions /\ Foretold(u) /\ u \in Who
    BY DEF Accounts, Deletion, Actions, Who
  <2>2. h \notin Announced(u) /\ h \notin Announced(u)'
    BY <1>1 DEF Announced
  <2>3. Cardinality(Announced(u)') = Cardinality(Announced(u))
    BY <1>1, <2>1, <2>2, OthersStay
  <2>4. changes'[Deletion][u] = changes[Deletion][u]
    BY <1>2, <1>3, <2>1
  <2> QED BY <1>1, <2>1, <2>3, <2>4 DEF Foretold
<1>5. ASSUME NEW a \in Actions \ {Deletion} PROVE Balanced(a, u)'
  <2>1. entries[a][u] \in Nat /\ changes[a][u] \in Nat /\ deaths \in Nat /\ Balanced(a, u) /\ u \in Who
    BY CountsNat DEF Accounts, Who
  <2>2. h \notin UnderWay(a, u) /\ (h \in UnderWay(a, u)' <=> a = b /\ u = v)
    BY <1>1 DEF UnderWay, Action
  <2>3. /\ Cardinality(UnderWay(a, u)) \in Nat
        /\ Cardinality(UnderWay(a, u)') = IF a = b /\ u = v THEN Cardinality(UnderWay(a, u)) + 1
                                                            ELSE Cardinality(UnderWay(a, u))
    <3> HIDE DEF b, v
    <3> QED BY <1>1, <2>2, OthersStay
  <2>4. changes'[a][u] = IF a = b /\ u = v THEN changes[a][u] + 1 ELSE changes[a][u]
    BY <1>3, <2>1
  <2> HIDE DEF b, v
  <2> QED BY <1>1, <2>1, <2>3, <2>4 DEF Balanced
<1> QED BY <1>4, <1>5

\* A deletion that was announced is made, or was made by somebody else.
LEMMA DeleteAccounts ==
    ASSUME IsFiniteSet(Handlers), TypeOK, Sane, Accounts, NEW h \in Handlers, Delete(h)
    PROVE  Accounts'
<1> DEFINE v == request[h].user
<1>1. /\ \A g \in Handlers : g # h => pc'[g] = pc[g]
      /\ UNCHANGED <<request, copy, entries, deaths>>
      /\ pc[h] = "save" /\ pc'[h] = "leave" /\ request[h].view = "delete"
  BY DEF Delete, Goto, TypeOK, bounds
<1>2. Action(h) = Deletion /\ Deletion \in Actions /\ v \in Users /\ v \in Who /\ changes \in Counts
  BY <1>1, ActionType DEF Sane, TypeOK, Deletion, Actions, Who
<1>3. \/ changes' = changes
      \/ \A a \in Actions, u \in Who : changes'[a][u] = IF a = Deletion /\ u = v THEN changes[a][u] + 1 ELSE changes[a][u]
  <2>1. changes' = changes \/ changes' = [changes EXCEPT ![Deletion][v] = @ + 1]
    BY <1>2 DEF Delete, Did
  <2> HIDE DEF v
  <2>2. ASSUME changes' = [changes EXCEPT ![Deletion][v] = @ + 1], NEW a \in Actions, NEW u \in Who
        PROVE  changes'[a][u] = IF a = Deletion /\ u = v THEN changes[a][u] + 1 ELSE changes[a][u]
    BY <1>2, <2>2, CountType
  <2> QED BY <2>1, <2>2
<1> SUFFICES ASSUME NEW u \in Users PROVE Foretold(u)' /\ \A a \in Actions \ {Deletion} : Balanced(a, u)'
  BY <1>1 DEF Accounts
<1>4. Foretold(u)'
  <2>1. Foretold(u) /\ u \in Who /\ entries[Deletion][u] \in Nat /\ changes[Deletion][u] \in Nat
    BY <1>2, CountsNat DEF Accounts, Who
  <2>2. (h \in Announced(u) <=> u = v) /\ h \notin Announced(u)'
    BY <1>1 DEF Announced
  <2>3. /\ Cardinality(Announced(u)) \in Nat /\ Cardinality(Announced(u)') \in Nat
        /\ Cardinality(Announced(u)) = IF u = v THEN Cardinality(Announced(u)') + 1 ELSE Cardinality(Announced(u)')
    <3> HIDE DEF v
    <3> QED BY <1>1, <1>2, <2>2, OthersStay
  <2>4. changes'[Deletion][u] \in {changes[Deletion][u], IF u = v THEN changes[Deletion][u] + 1 ELSE changes[Deletion][u]}
    BY <1>2, <1>3, <2>1
  <2> HIDE DEF v
  <2> QED BY <1>1, <2>1, <2>3, <2>4 DEF Foretold
<1>5. ASSUME NEW a \in Actions \ {Deletion} PROVE Balanced(a, u)'
  <2>1. Balanced(a, u) /\ u \in Who
    BY DEF Accounts, Who
  <2>2. h \notin UnderWay(a, u) /\ h \notin UnderWay(a, u)'
    BY <1>1 DEF UnderWay
  <2>3. Cardinality(UnderWay(a, u)') = Cardinality(UnderWay(a, u))
    BY <1>1, <2>2, OthersStay
  <2>4. changes'[a][u] = changes[a][u]
    BY <1>3, <2>1
  <2> QED BY <1>1, <2>1, <2>3, <2>4 DEF Balanced
<1> QED BY <1>4, <1>5

\* An entry is written: of a change that was under way, or that announces one.
LEMMA AuditAccounts ==
    ASSUME IsFiniteSet(Handlers), TypeOK, Sane, Clean, Accounts, NEW h \in Handlers, Audit(h)
    PROVE  Accounts'
<1> DEFINE b == Action(h)
           v == request[h].user
<1>1. /\ \A g \in Handlers : g # h => pc'[g] = pc[g]
      /\ UNCHANGED <<request, copy, changes, deaths>>
      /\ pc[h] = "audit" /\ pc'[h] = IF request[h].view = "delete" THEN "save" ELSE "leave"
  BY DEF Audit, Goto, TypeOK, bounds, history
<1>2. /\ b \in Actions /\ (b = Deletion <=> request[h].view = "delete") /\ v \in Users /\ v \in Who
      /\ entries \in Counts /\ context[h] = v /\ Nobody \notin Users
  BY <1>1, ActionType, PagesAssumption DEF Sane, TypeOK, Deletion, Who, Clean, ContextEmptyBetweenRequests
<1>3. \A a \in Actions, u \in Who : entries'[a][u] = IF a = b /\ u = v THEN entries[a][u] + 1 ELSE entries[a][u]
  <2>1. entries' = [entries EXCEPT ![b][v] = @ + 1]
    BY <1>2 DEF Audit
  <2> HIDE DEF b, v
  <2> QED BY <1>2, <2>1, CountType
<1>4. \A a \in Actions : entries'[a][Nobody] = 0
  <2>1. Nobody \in Who /\ v # Nobody
    BY <1>2, BlankTypes
  <2> HIDE DEF b, v
  <2> QED BY <1>3, <2>1 DEF Accounts
<1> SUFFICES ASSUME NEW u \in Users PROVE Foretold(u)' /\ \A a \in Actions \ {Deletion} : Balanced(a, u)'
  BY <1>4 DEF Accounts
<1>5. Foretold(u)'
  <2>1. /\ Foretold(u) /\ u \in Who /\ Deletion \in Actions
        /\ entries[Deletion][u] \in Nat /\ changes[Deletion][u] \in Nat
    BY CountsNat DEF Accounts, Who, Deletion, Actions
  <2>2. h \notin Announced(u) /\ (h \in Announced(u)' <=> b = Deletion /\ u = v)
    BY <1>1, <1>2 DEF Announced
  <2>3. /\ Cardinality(Announced(u)) \in Nat
        /\ Cardinality(Announced(u)') = IF b = Deletion /\ u = v THEN Cardinality(Announced(u)) + 1
                                                                ELSE Cardinality(Announced(u))
    <3> HIDE DEF b, v
    <3> QED BY <1>1, <2>1, <2>2, OthersStay
  <2>4. entries'[Deletion][u] = IF b = Deletion /\ u = v THEN entries[Deletion][u] + 1 ELSE entries[Deletion][u]
    <3> HIDE DEF b, v
    <3> QED BY <1>3, <2>1
  <2> HIDE DEF b, v
  <2> QED BY <1>1, <2>1, <2>3, <2>4 DEF Foretold
<1>6. ASSUME NEW a \in Actions \ {Deletion} PROVE Balanced(a, u)'
  <2>1. entries[a][u] \in Nat /\ changes[a][u] \in Nat /\ deaths \in Nat /\ Balanced(a, u) /\ u \in Who
    BY CountsNat DEF Accounts, Who
  <2>2. (h \in UnderWay(a, u) <=> a = b /\ u = v) /\ h \notin UnderWay(a, u)'
    BY <1>1 DEF UnderWay, Action
  <2>3. /\ Cardinality(UnderWay(a, u)) \in Nat /\ Cardinality(UnderWay(a, u)') \in Nat
        /\ Cardinality(UnderWay(a, u)) = IF a = b /\ u = v THEN Cardinality(UnderWay(a, u)') + 1
                                                           ELSE Cardinality(UnderWay(a, u)')
    <3> HIDE DEF b, v
    <3> QED BY <1>1, <2>2, OthersStay
  <2>4. entries'[a][u] = IF a = b /\ u = v THEN entries[a][u] + 1 ELSE entries[a][u]
    <3> HIDE DEF b, v
    <3> QED BY <1>3, <2>1
  <2> HIDE DEF b, v
  <2> QED BY <1>1, <2>1, <2>3, <2>4 DEF Balanced
<1> QED BY <1>5, <1>6

LEMMA AccountsStep ==
    ASSUME IsFiniteSet(Handlers), TypeOK, Sane, Clean, Accounts, [Next]_vars
    PROVE  Accounts'
<1> USE DEF Goto, bounds, history
<1>1. ASSUME NEW h \in Handlers, NEW r \in Requests, Enter(h, r) PROVE Accounts'
  <2>1. /\ \A g \in Handlers : g # h => pc'[g] = pc[g] /\ request'[g] = request[g] /\ copy'[g] = copy[g]
        /\ UNCHANGED <<entries, changes, deaths>> /\ pc[h] = "idle" /\ pc'[h] \in {"read", "validate"}
    BY <1>1 DEF Enter, TypeOK
  <2>2. \A u \in Users : h \notin Announced(u)'
    BY <2>1 DEF Announced
  <2>3. \A a \in Actions \ {Deletion}, u \in Users : h \notin UnderWay(a, u)' /\ h \notin UnderWay(a, u)
    BY <2>1 DEF UnderWay
  <2> QED BY <2>1, <2>2, <2>3, QuietAccounts
<1>2. ASSUME NEW h \in Handlers, Read(h) \/ Validate(h) \/ Refused(h) PROVE Accounts'
  <2>1. /\ \A g \in Handlers : g # h => pc'[g] = pc[g] /\ request'[g] = request[g] /\ copy'[g] = copy[g]
        /\ UNCHANGED <<request, entries, changes, deaths>>
    BY <1>2 DEF Read, Validate, Refused, TypeOK
  <2>2. /\ pc[h] # "audit"
        /\ request[h].view = "delete" => pc'[h] # "save"
        /\ request[h].view # "delete" => pc'[h] # "audit"
    <3>1. request[h].view \in Views
      BY DEF TypeOK
    <3> QED BY <1>2, <3>1 DEF Read, Validate, Refused, TypeOK, Sane, Views
  <2>3. \A u \in Users : h \notin Announced(u)'
    BY <2>1, <2>2 DEF Announced
  <2>4. \A a \in Actions \ {Deletion}, u \in Users : h \notin UnderWay(a, u)' /\ h \notin UnderWay(a, u)
    BY <2>1, <2>2 DEF UnderWay, Action, Deletion
  <2> QED BY <2>1, <2>3, <2>4, QuietAccounts
<1>3. ASSUME NEW h \in Handlers, Leave(h) \/ Fail(h) \/ Kill(h) \/ \E k \in Keys : Rotate(h, k) PROVE Accounts'
  <2>1. /\ \A g \in Handlers : g # h => pc'[g] = pc[g] /\ request'[g] = request[g] /\ copy'[g] = copy[g]
        /\ UNCHANGED <<entries, changes>> /\ pc'[h] \in {"idle", "leave"}
    BY <1>3 DEF Leave, Fail, Kill, Rotate, Fresh, TypeOK
  <2>4. deaths' = deaths + 1 \/ (deaths' = deaths /\ pc[h] \in {"idle", "leave"})
    BY <1>3 DEF Leave, Fail, Kill, Rotate, Fresh
  <2>2. \A u \in Users : h \notin Announced(u)'
    BY <2>1 DEF Announced
  <2>3. \A a \in Actions \ {Deletion}, u \in Users :
          h \notin UnderWay(a, u)' /\ (h \in UnderWay(a, u) => deaths' = deaths + 1)
    BY <2>1, <2>4 DEF UnderWay
  <2> QED BY <2>1, <2>2, <2>3, <2>4, QuietAccounts
<1>4. CASE UNCHANGED vars
  <2>1. \A a \in Actions, u \in Users : UnderWay(a, u)' = UnderWay(a, u) /\ Announced(u)' = Announced(u)
    BY <1>4 DEF vars, Announced, UnderWay, Action
  <2>2. Deletion \in Actions /\ UNCHANGED <<entries, changes, deaths>>
    BY <1>4 DEF vars, Deletion, Actions
  <2>3. ASSUME NEW u \in Users PROVE Foretold(u)'
    BY <2>1, <2>2 DEF Accounts, Foretold
  <2>4. ASSUME NEW u \in Users, NEW a \in Actions \ {Deletion} PROVE Balanced(a, u)'
    BY <2>1, <2>2 DEF Accounts, Balanced
  <2> QED BY <2>2, <2>3, <2>4 DEF Accounts
<1> QED BY <1>1, <1>2, <1>3, <1>4, ChangeAccounts, DeleteAccounts, AuditAccounts DEF Next, Step

\* The audit log accounts for every change, under the name of who asked for it.
THEOREM EntriesAccountThm == ASSUME IsFiniteSet(Handlers) PROVE Spec => []EntriesAccountForChanges
<1>1. Init => Accounts
  <2> SUFFICES ASSUME Init PROVE Accounts
    OBVIOUS
  <2>1. \A a \in Actions, u \in Who : entries[a][u] = 0 /\ changes[a][u] = 0
    BY DEF Init, NoCounts, Who
  <2>2. \A a \in Actions, u \in Users : UnderWay(a, u) = {} /\ Announced(u) = {}
    BY DEF Init, UnderWay, Announced
  <2>3. Cardinality({}) = 0 /\ Deletion \in Actions
    BY FS_EmptySet DEF Deletion, Actions
  <2>4. Nobody \in Who /\ \A u \in Users : u \in Who
    BY DEF Who
  <2>5. ASSUME NEW u \in Users PROVE Foretold(u)
    <3>1. Cardinality(Announced(u)) = 0 /\ entries[Deletion][u] = 0 /\ changes[Deletion][u] = 0
      BY <2>1, <2>2, <2>3, <2>4
    <3> QED BY <3>1 DEF Foretold
  <2>6. ASSUME NEW u \in Users, NEW a \in Actions \ {Deletion} PROVE Balanced(a, u)
    <3>1. Cardinality(UnderWay(a, u)) = 0 /\ entries[a][u] = 0 /\ changes[a][u] = 0 /\ deaths = 0
      BY <2>1, <2>2, <2>3, <2>4 DEF Init
    <3> QED BY <3>1 DEF Balanced
  <2> QED BY <2>1, <2>4, <2>5, <2>6 DEF Accounts
<1>2. TypeOK /\ Sane /\ Clean /\ Accounts /\ [Next]_vars => Accounts'
  BY AccountsStep
<1>3. TypeOK /\ Accounts => EntriesAccountForChanges
  <2> SUFFICES ASSUME TypeOK, Accounts, NEW a \in Actions, NEW u \in Users
               PROVE  /\ a # "server.deleted" => entries[a][u] =< changes[a][u]
                      /\ changes[a][u] =< entries[a][u] + Cardinality(UnderWay(a, u)) + deaths
    BY DEF EntriesAccountForChanges, Accounts
  <2>1. /\ entries[a][u] \in Nat /\ changes[a][u] \in Nat /\ deaths \in Nat
        /\ IsFiniteSet(UnderWay(a, u)) /\ IsFiniteSet(Announced(u))
    BY CountsNat, FS_Subset DEF UnderWay, Announced
  <2>2. Cardinality(UnderWay(a, u)) \in Nat /\ Cardinality(Announced(u)) \in Nat
    BY <2>1, FS_CardinalityType
  <2>3. CASE a = Deletion
    <3>1. Foretold(u)
      BY DEF Accounts
    <3> QED BY <2>1, <2>2, <2>3, <3>1 DEF Foretold, Deletion
  <2>4. CASE a # Deletion
    <3>1. Balanced(a, u)
      BY <2>4 DEF Accounts
    <3> QED BY <2>1, <2>2, <3>1 DEF Balanced
  <2> QED BY <2>3, <2>4
<1> QED BY <1>1, <1>2, <1>3, TypeCorrect, CleanThm, PTL DEF Spec
=============================================================================
