---------------------------- MODULE OperatorPages ---------------------------
(***************************************************************************)
(* Operators' requests that change a server (apps/servers/views.py,        *)
(* forms.py): the request context that says who acts (apps/users), the     *)
(* audit entry each view writes, and the credential, which is encrypted in *)
(* the database and plain in Python (apps/common/fields.py).               *)
(*                                                                         *)
(* A handler is a gunicorn worker: one process, one request at a time, one *)
(* ContextVar that lives as long as it does, one encryption key from its   *)
(* environment.  Each query is a transaction of its own.  The row stands   *)
(* for the one server of a name, which is unique; what tasks write to it   *)
(* is in ServerTasks.                                                      *)
(***************************************************************************)
EXTENDS Naturals, FiniteSets, Sequences

CONSTANTS Handlers, Users,
          Nobody,       \* user_id None: the default of the ContextVar
          Secrets,      \* credentials an operator may type
          Blank,        \* the empty string
          Keys,         \* values of SSH_CREDENTIAL_ENCRYPTION_KEY
          FirstKey,     \* its value at the start
          MaxRequests,  \* bound on the requests
          MaxRotations, \* bound on the restarts with another key
          MaxDeaths     \* bound on the handlers killed and the queries that fail

ASSUME PagesAssumption ==
    /\ Nobody \notin Users /\ Blank \notin Secrets
    /\ FirstKey \in Keys
    /\ MaxRequests \in Nat /\ MaxRotations \in Nat /\ MaxDeaths \in Nat

Views == {"create", "update", "toggle", "delete"}
Actions == {"server.added", "server.updated", "server.deleted", "server.enabled", "server.disabled"}
NoColumn == [key |-> FirstKey, secret |-> Blank]
NoServer == [id |-> 0, enabled |-> FALSE, column |-> NoColumn]
NoRequest == [view |-> "create", user |-> Nobody, typed |-> Blank, enabled |-> FALSE]
NoCopy == [id |-> 0, enabled |-> FALSE, secret |-> Blank]

VARIABLES server,   \* the row; id 0: there is none
          lastId,   \* ids given out
          key,      \* per handler: its encryption key
          context,  \* per handler: user_id in the ContextVar
          token,    \* per handler: the Token of set_context
          pc, request, copy, \* per handler: position, request, the row as read
          entries,  \* audit log: entries by action and user
          changes,  \* history: what has been done, by action and requester
          expected, \* history, by id: the credential the row is to have
          overtaken, \* handlers whose copy of the row an edit has outdated
          requests, rotations, deaths

history == <<changes, expected, overtaken>>
bounds == <<requests, rotations, deaths>>
vars == <<server, lastId, key, context, token, pc, request, copy, entries, history, bounds>>

\* What an operator may ask for; a toggle and a deletion have no form.
Requests == {r \in [view : Views, user : Users, typed : Secrets \cup {Blank}, enabled : BOOLEAN] :
                r.view \in {"toggle", "delete"} => r.typed = Blank /\ ~r.enabled}

NoCounts == [a \in Actions |-> [u \in Users \cup {Nobody} |-> 0]]

Init ==
    /\ server = NoServer /\ lastId = 0
    /\ key = [h \in Handlers |-> FirstKey]
    /\ context = [h \in Handlers |-> Nobody] /\ token = [h \in Handlers |-> Nobody]
    /\ pc = [h \in Handlers |-> "idle"]
    /\ request = [h \in Handlers |-> NoRequest] /\ copy = [h \in Handlers |-> NoCopy]
    /\ entries = NoCounts /\ changes = NoCounts
    /\ expected = <<>> /\ overtaken = {}
    /\ requests = 0 /\ rotations = 0 /\ deaths = 0

Goto(h, place) == pc' = [pc EXCEPT ![h] = place]
Exists == server.id # 0
-----------------------------------------------------------------------------
\* EncryptedTextField.from_db_value and get_prep_value.
Decrypt(k, column) == IF column.key = k THEN column.secret ELSE Blank
Encrypt(k, secret) == IF secret = Blank THEN NoColumn ELSE [key |-> k, secret |-> secret]

\* Mutant of Enter: a variable of the module, which all handlers share.
EnterShared(h, r) ==
    /\ pc[h] = "idle"
    /\ requests < MaxRequests /\ requests' = requests + 1
    /\ request' = [request EXCEPT ![h] = r]
    /\ token' = [token EXCEPT ![h] = context[h]]
    /\ context' = [g \in Handlers |-> r.user]
    /\ Goto(h, IF r.view = "create" THEN "validate" ELSE "read")
    /\ UNCHANGED <<server, lastId, key, copy, entries, history, rotations, deaths>>

\* AuditLogMiddleware.__call__: set_context, then the view.
Enter(h, r) ==
    /\ pc[h] = "idle"
    /\ requests < MaxRequests /\ requests' = requests + 1
    /\ request' = [request EXCEPT ![h] = r]
    /\ token' = [token EXCEPT ![h] = context[h]]
    /\ context' = [context EXCEPT ![h] = r.user]
    /\ Goto(h, IF r.view = "create" THEN "validate" ELSE "read")
    /\ UNCHANGED <<server, lastId, key, copy, entries, history, rotations, deaths>>

\* get_object_or_404: the row, its credential decrypted.
Read(h) ==
    /\ pc[h] = "read"
    /\ IF Exists
       THEN /\ copy' = [copy EXCEPT ![h] = [id |-> server.id, enabled |-> server.enabled,
                                            secret |-> Decrypt(key[h], server.column)]]
            /\ Goto(h, CASE request[h].view = "update" -> "validate"
                         [] request[h].view = "toggle" -> "save"
                         [] request[h].view = "delete" -> "audit")
       ELSE Goto(h, "leave") /\ UNCHANGED copy
    /\ overtaken' = overtaken \ {h}
    /\ UNCHANGED <<server, lastId, key, context, token, request, entries, changes, expected, bounds>>

\* form.is_valid(): the name is not another row's, and a new server has a credential.
Validate(h) ==
    /\ pc[h] = "validate"
    /\ LET valid == IF request[h].view = "create" THEN ~Exists /\ request[h].typed # Blank
                                                  ELSE server.id \in {0, copy[h].id}
       IN Goto(h, IF valid THEN "save" ELSE "leave")
    /\ UNCHANGED <<server, lastId, key, context, token, request, copy, entries, history, bounds>>

\* What a view calls its change in the audit log.
Action(h) ==
    CASE request[h].view = "create" -> "server.added"
      [] request[h].view = "update" -> "server.updated"
      [] request[h].view = "delete" -> "server.deleted"
      [] request[h].view = "toggle" -> IF copy[h].enabled THEN "server.disabled" ELSE "server.enabled"

Did(h) == changes' = [changes EXCEPT ![Action(h)][request[h].user] = @ + 1]

\* ServerForm.save for a new server: an INSERT, which fails if the name is taken by now.
Create(h) ==
    /\ pc[h] = "save" /\ request[h].view = "create" /\ ~Exists
    /\ lastId' = lastId + 1
    /\ server' = [id |-> lastId + 1, enabled |-> request[h].enabled,
                  column |-> Encrypt(key[h], request[h].typed)]
    /\ expected' = Append(expected, request[h].typed)
    /\ Did(h)
    /\ Goto(h, "audit")
    /\ UNCHANGED <<key, context, token, request, copy, entries, overtaken, bounds>>

\* "Leave blank to keep the existing credential": as it was read.
Kept(h) == IF request[h].typed # Blank THEN request[h].typed ELSE copy[h].secret

\* ServerForm.save for an existing one: every column of the copy; the row is
\* made again if it has been deleted, unless its name is another's by now.
Update(h) ==
    /\ pc[h] = "save" /\ request[h].view = "update"
    /\ server.id \in {0, copy[h].id}
    /\ server' = [id |-> copy[h].id, enabled |-> request[h].enabled, column |-> Encrypt(key[h], Kept(h))]
    /\ expected' = IF request[h].typed = Blank /\ h \notin overtaken /\ copy[h].secret # Blank
                   THEN expected ELSE [expected EXCEPT ![copy[h].id] = Kept(h)]
    /\ overtaken' = overtaken \cup {g \in Handlers : copy[g].id = copy[h].id}
    /\ Did(h)
    /\ Goto(h, "audit")
    /\ UNCHANGED <<lastId, key, context, token, request, copy, entries, bounds>>

\* Mutant of Toggle: save() without update_fields.
ToggleAll(h) ==
    /\ pc[h] = "save" /\ request[h].view = "toggle"
    /\ server.id = copy[h].id
    /\ server' = [id |-> copy[h].id, enabled |-> ~copy[h].enabled, column |-> Encrypt(key[h], copy[h].secret)]
    /\ Did(h)
    /\ Goto(h, "audit")
    /\ UNCHANGED <<lastId, key, context, token, request, copy, entries, expected, overtaken, bounds>>

\* server_toggle_enabled: save(update_fields=["enabled", "updated_at"]).
Toggle(h) ==
    /\ pc[h] = "save" /\ request[h].view = "toggle"
    /\ server.id = copy[h].id
    /\ server' = [server EXCEPT !.enabled = ~copy[h].enabled]
    /\ Did(h)
    /\ Goto(h, "audit")
    /\ UNCHANGED <<lastId, key, context, token, request, copy, entries, expected, overtaken, bounds>>

\* server.delete(), after the audit entry; deleting what is gone does nothing.
Delete(h) ==
    /\ pc[h] = "save" /\ request[h].view = "delete"
    /\ IF server.id = copy[h].id THEN server' = NoServer /\ Did(h)
                                 ELSE UNCHANGED <<server, changes>>
    /\ Goto(h, "leave")
    /\ UNCHANGED <<lastId, key, context, token, request, copy, entries, expected, overtaken, bounds>>

\* The INSERT breaks the unique name, or the UPDATE of a toggle finds no row:
\* the view raises and writes no entry.
Refused(h) ==
    /\ pc[h] = "save"
    /\ \/ request[h].view = "create" /\ Exists
       \/ request[h].view = "update" /\ server.id \notin {0, copy[h].id}
       \/ request[h].view = "toggle" /\ server.id # copy[h].id
    /\ Goto(h, "leave")
    /\ UNCHANGED <<server, lastId, key, context, token, request, copy, entries, history, bounds>>

\* record_audit_log without a user: get_context() says who it was.
Audit(h) ==
    /\ pc[h] = "audit"
    /\ entries' = [entries EXCEPT ![Action(h)][context[h]] = @ + 1]
    /\ Goto(h, IF request[h].view = "delete" THEN "save" ELSE "leave")
    /\ UNCHANGED <<server, lastId, key, context, token, request, copy, history, bounds>>

\* Mutant of Leave: no reset_context.
LeaveSet(h) ==
    /\ pc[h] = "leave"
    /\ token' = [token EXCEPT ![h] = Nobody]
    /\ request' = [request EXCEPT ![h] = NoRequest] /\ copy' = [copy EXCEPT ![h] = NoCopy]
    /\ Goto(h, "idle")
    /\ UNCHANGED <<server, lastId, key, context, entries, history, bounds>>

\* The `finally` of the middleware: reset_context(token), the response is sent.
Leave(h) ==
    /\ pc[h] = "leave"
    /\ context' = [context EXCEPT ![h] = token[h]] /\ token' = [token EXCEPT ![h] = Nobody]
    /\ request' = [request EXCEPT ![h] = NoRequest] /\ copy' = [copy EXCEPT ![h] = NoCopy]
    /\ Goto(h, "idle")
    /\ UNCHANGED <<server, lastId, key, entries, history, bounds>>

\* A query fails: the view raises.
Fail(h) ==
    /\ pc[h] \in {"read", "validate", "save", "audit"}
    /\ deaths < MaxDeaths /\ deaths' = deaths + 1
    /\ Goto(h, "leave")
    /\ UNCHANGED <<server, lastId, key, context, token, request, copy, entries, history, requests, rotations>>

\* The process is replaced, with nothing in its ContextVar.
Fresh(h) ==
    /\ context' = [context EXCEPT ![h] = Nobody] /\ token' = [token EXCEPT ![h] = Nobody]
    /\ request' = [request EXCEPT ![h] = NoRequest] /\ copy' = [copy EXCEPT ![h] = NoCopy]
    /\ Goto(h, "idle")

\* gunicorn kills a worker whose request takes longer than its --timeout.
Kill(h) ==
    /\ pc[h] # "idle"
    /\ deaths < MaxDeaths /\ deaths' = deaths + 1
    /\ Fresh(h)
    /\ UNCHANGED <<server, lastId, key, entries, history, requests, rotations>>

\* The key is rotated: a process is started again with another one.
Rotate(h, k) ==
    /\ pc[h] = "idle" /\ k # key[h]
    /\ rotations < MaxRotations /\ rotations' = rotations + 1
    /\ key' = [key EXCEPT ![h] = k]
    /\ Fresh(h)
    /\ UNCHANGED <<server, lastId, entries, history, requests, deaths>>

Step(h) ==
    Read(h) \/ Validate(h) \/ Create(h) \/ Update(h) \/ Toggle(h) \/ Delete(h) \/ Refused(h)
      \/ Audit(h) \/ Leave(h)

Next == \E h \in Handlers :
    \/ \E r \in Requests : Enter(h, r)
    \/ Step(h) \/ Fail(h) \/ Kill(h)
    \/ \E k \in Keys : Rotate(h, k)

Spec == Init /\ [][Next]_vars
-----------------------------------------------------------------------------
\* The audit log has every change under the name of who asked for it, however
\* the requests of several operators interleave: none is missing but those in
\* progress and at most one for each request cut short, and none is there that
\* was not made, except that a deletion is written down before it is made.
UnderWay(a, u) == {h \in Handlers : pc[h] = "audit" /\ request[h].user = u /\ Action(h) = a}
EntriesAccountForChanges ==
    \A a \in Actions :
      /\ entries[a][Nobody] = 0
      /\ \A u \in Users :
           /\ a # "server.deleted" => entries[a][u] =< changes[a][u]
           /\ changes[a][u] =< entries[a][u] + Cardinality(UnderWay(a, u)) + deaths

\* "a set() with no matching reset leaks into whatever unrelated code runs next
\* on that thread": between two requests a handler's context is empty, whether
\* the view answered, raised or was killed.
ContextEmptyBetweenRequests ==
    \A h \in Handlers : context[h] = IF pc[h] = "idle" THEN Nobody ELSE request[h].user

\* "Leave blank to keep the existing credential": a row has the credential that
\* was last typed for it, through toggles, other edits, key rotations, and a
\* deletion that an edit undoes, or the one of an edit that typed none and was
\* saved from a copy which another edit had outdated or which did not decrypt.
CredentialKept == Exists => server.column.secret = expected[server.id]
=============================================================================
