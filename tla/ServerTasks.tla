---------------------------- MODULE ServerTasks -----------------------------
(***************************************************************************)
(* test_server_connection and discover_server_logs (apps/servers/tasks.py) *)
(* for one server, run by several workers beside operators who toggle,     *)
(* edit and delete the server and toggle its log sources.                  *)
(*                                                                         *)
(* A task reads the row before it takes its lock and writes it after it    *)
(* has given the lock back.  A body may outlive its lock: a test is a      *)
(* connection and three commands with a timeout each.  Host names,         *)
(* credentials and what a test found out about nginx are left out.         *)
(***************************************************************************)
EXTENDS Naturals, FiniteSets, Functions

CONSTANTS Workers, Free, Orphan,
          Paths,     \* the log files there may be on the server
          MaxEvents, \* bound on what operators do
          MaxCrashes \* bound on the crashes

Kinds == {"test", "discover"}
Gone == [exists |-> FALSE, enabled |-> FALSE, connected |-> 0, error |-> FALSE]
NoForm == [open |-> FALSE, connected |-> 0, error |-> FALSE]

ASSUME ServerAssumption ==
    /\ Free # Orphan /\ Free \notin Workers /\ Orphan \notin Workers
    /\ MaxEvents \in Nat /\ MaxCrashes \in Nat

VARIABLES server,   \* Server: the row, with last_connected_at (0: never) and last_error
          sources,  \* LogSource rows by path: "none", or their enabled flag
          form,     \* an edit in progress: what the row held when it was read
          queue,    \* messages waiting, by kind
          lock,     \* redis_lock("ssh:test:<id>"), redis_lock("ssh:discover:<id>")
          pc, kind, \* per worker: position, task
          copy,     \* per worker: the row as read
          good,     \* per worker: the connection worked
          todo,     \* per worker: files listed, still to be created
          made,     \* per worker: created
          born,     \* log sources created by tasks so far
          told,     \* the sum of "created" in the audit log
          saves, audits, \* rows saved by tasks; entries the tasks wrote for them
          clock, events, lost

row == <<server, sources>>
local == <<kind, copy, good, todo, made>>
counts == <<born, told, saves, audits>>
vars == <<row, form, queue, lock, pc, local, counts, clock, events, lost>>

Init ==
    /\ server = [exists |-> TRUE, enabled |-> TRUE, connected |-> 0, error |-> FALSE]
    /\ sources = [p \in Paths |-> "none"]
    /\ form = NoForm
    /\ queue = [k \in Kinds |-> 0] /\ lock = [k \in Kinds |-> Free]
    /\ pc = [w \in Workers |-> "idle"] /\ kind = [w \in Workers |-> "test"]
    /\ copy = [w \in Workers |-> Gone] /\ good = [w \in Workers |-> FALSE]
    /\ todo = [w \in Workers |-> {}] /\ made = [w \in Workers |-> 0]
    /\ born = 0 /\ told = 0 /\ saves = 0 /\ audits = 0
    /\ clock = 0 /\ events = 0 /\ lost = 0
-----------------------------------------------------------------------------
\* What operators do, each in one request.
Event == server.exists /\ events < MaxEvents /\ events' = events + 1

\* server_test_connection, server_discover_logs
Request(k) ==
    /\ Event
    /\ queue' = [queue EXCEPT ![k] = @ + 1]
    /\ UNCHANGED <<row, form, lock, pc, local, counts, clock, lost>>

\* server_toggle_enabled
Toggle ==
    /\ Event
    /\ server' = [server EXCEPT !.enabled = ~@]
    /\ UNCHANGED <<sources, form, queue, lock, pc, local, counts, clock, lost>>

\* log_source_toggle_enabled
ToggleSource(p) ==
    /\ Event
    /\ sources[p] # "none"
    /\ sources' = [sources EXCEPT ![p] = IF @ = "on" THEN "off" ELSE "on"]
    /\ UNCHANGED <<server, form, queue, lock, pc, local, counts, clock, lost>>

\* server_delete: the log sources go with the server.
Delete ==
    /\ Event
    /\ server' = Gone
    /\ sources' = [p \in Paths |-> "none"]
    /\ UNCHANGED <<form, queue, lock, pc, local, counts, clock, lost>>

\* server_update reads the row ...
Edit ==
    /\ Event
    /\ ~form.open
    /\ form' = [open |-> TRUE, connected |-> server.connected, error |-> server.error]
    /\ UNCHANGED <<row, queue, lock, pc, local, counts, clock, lost>>

\* ... and saves all of it, with the operator's choice of enabled, into
\* whatever row there is by then, or a new one.
Submit(enabled) ==
    /\ form.open
    /\ server' = [exists |-> TRUE, enabled |-> enabled, connected |-> form.connected, error |-> form.error]
    /\ form' = NoForm
    /\ UNCHANGED <<sources, queue, lock, pc, local, counts, clock, events, lost>>
-----------------------------------------------------------------------------
Goto(w, place) == pc' = [pc EXCEPT ![w] = place]

End(w) ==
    /\ Goto(w, "idle")
    /\ kind' = [kind EXCEPT ![w] = "test"] /\ copy' = [copy EXCEPT ![w] = Gone]
    /\ good' = [good EXCEPT ![w] = FALSE] /\ todo' = [todo EXCEPT ![w] = {}]
    /\ made' = [made EXCEPT ![w] = 0]

\* Server.objects.get(pk=server_id)
Load(w, k) ==
    /\ pc[w] = "idle" /\ queue[k] > 0 /\ server.exists
    /\ queue' = [queue EXCEPT ![k] = @ - 1]
    /\ kind' = [kind EXCEPT ![w] = k]
    /\ copy' = [copy EXCEPT ![w] = server]
    /\ Goto(w, "loaded")
    /\ UNCHANGED <<row, form, lock, good, todo, made, counts, clock, events, lost>>

\* Server.DoesNotExist
Missing(w, k) ==
    /\ pc[w] = "idle" /\ queue[k] > 0 /\ ~server.exists
    /\ queue' = [queue EXCEPT ![k] = @ - 1]
    /\ UNCHANGED <<row, form, lock, pc, local, counts, clock, events, lost>>

Lock(w) ==
    /\ pc[w] = "loaded" /\ lock[kind[w]] = Free
    /\ lock' = [lock EXCEPT ![kind[w]] = w]
    /\ Goto(w, "locked")
    /\ UNCHANGED <<row, form, queue, local, counts, clock, events, lost>>

Skip(w) ==
    /\ pc[w] = "loaded" /\ lock[kind[w]] # Free
    /\ End(w)
    /\ UNCHANGED <<row, form, queue, lock, counts, clock, events, lost>>

\* SSHService.test_connection: connected, Linux or not, or SSHConnectionError.
Probe(w) ==
    /\ pc[w] = "locked" /\ kind[w] = "test"
    /\ \E g \in BOOLEAN : good' = [good EXCEPT ![w] = g]
    /\ Goto(w, "unlock")
    /\ UNCHANGED <<row, form, queue, lock, kind, copy, todo, made, counts, clock, events, lost>>

\* SSHService.discover_logs: some files of the directories there are.
List(w) ==
    /\ pc[w] = "locked" /\ kind[w] = "discover"
    /\ \E S \in SUBSET Paths : todo' = [todo EXCEPT ![w] = S]
    /\ good' = [good EXCEPT ![w] = TRUE]
    /\ Goto(w, "unlock")
    /\ UNCHANGED <<row, form, queue, lock, kind, copy, made, counts, clock, events, lost>>

\* Mutant of Refused: all the status columns are saved.
RefusedAll(w) ==
    /\ pc[w] = "locked" /\ kind[w] = "discover"
    /\ server.exists
    /\ server' = [server EXCEPT !.error = TRUE, !.connected = copy[w].connected]
    /\ saves' = saves + 1
    /\ Goto(w, "refused")
    /\ UNCHANGED <<sources, form, queue, lock, local, born, told, audits, clock, events, lost>>

\* An SSHConnectionError in discover_logs is saved before the lock is given back.
Refused(w) ==
    /\ pc[w] = "locked" /\ kind[w] = "discover"
    /\ server.exists
    /\ server' = [server EXCEPT !.error = TRUE]
    /\ saves' = saves + 1
    /\ Goto(w, "refused")
    /\ UNCHANGED <<sources, form, queue, lock, local, born, told, audits, clock, events, lost>>

AuditRefused(w) ==
    /\ pc[w] = "refused"
    /\ audits' = audits + 1
    /\ Goto(w, "unlock")
    /\ UNCHANGED <<row, form, queue, lock, local, born, told, saves, clock, events, lost>>

\* `finally`: the key is deleted, whoever wrote it.
Unlock(w) ==
    /\ pc[w] = "unlock"
    /\ lock' = [lock EXCEPT ![kind[w]] = Free]
    /\ IF kind[w] = "test" THEN Goto(w, "save") /\ UNCHANGED local
       ELSE IF good[w] THEN Goto(w, "create") /\ UNCHANGED local
       ELSE End(w)
    /\ UNCHANGED <<row, form, queue, counts, clock, events, lost>>

\* Mutant of Create: every file listed is counted.
CreateCountsAll(w, p) ==
    /\ pc[w] = "create" /\ p \in todo[w] /\ server.exists
    /\ todo' = [todo EXCEPT ![w] = @ \ {p}]
    /\ sources' = [sources EXCEPT ![p] = IF @ = "none" THEN "off" ELSE @]
    /\ made' = [made EXCEPT ![w] = @ + 1]
    /\ born' = IF sources[p] = "none" THEN born + 1 ELSE born
    /\ UNCHANGED <<server, form, queue, lock, pc, kind, copy, good, told, saves, audits, clock, events, lost>>

\* LogSource.objects.get_or_create
Create(w, p) ==
    /\ pc[w] = "create" /\ p \in todo[w] /\ server.exists
    /\ todo' = [todo EXCEPT ![w] = @ \ {p}]
    /\ sources' = [sources EXCEPT ![p] = IF @ = "none" THEN "off" ELSE @]
    /\ LET new == IF sources[p] = "none" THEN 1 ELSE 0 IN
         /\ made' = [made EXCEPT ![w] = @ + new]
         /\ born' = born + new
    /\ UNCHANGED <<server, form, queue, lock, pc, kind, copy, good, told, saves, audits, clock, events, lost>>

\* Mutant of Stamp: save() without update_fields, a stale copy in every column.
StampAll(w) == [copy[w] EXCEPT !.error = ~good[w], !.connected = IF good[w] THEN clock + 1 ELSE copy[w].connected]

\* last_connected_at and last_error are saved, the former as it was read when
\* the test failed.
Stamp(w) == [server EXCEPT !.error = ~good[w], !.connected = IF good[w] THEN clock + 1 ELSE copy[w].connected]

\* Mutant of Save: save() makes the row again if it has been deleted.
SaveAnyway(w) ==
    /\ pc[w] = "save" \/ (pc[w] = "create" /\ todo[w] = {})
    /\ server' = [Stamp(w) EXCEPT !.exists = TRUE]
    /\ clock' = IF good[w] THEN clock + 1 ELSE clock
    /\ saves' = saves + 1
    /\ Goto(w, "audit")
    /\ UNCHANGED <<sources, form, queue, lock, local, born, told, audits, events, lost>>

\* server.save(update_fields=["last_connected_at", "last_error", "updated_at"])
Save(w) ==
    /\ pc[w] = "save" \/ (pc[w] = "create" /\ todo[w] = {})
    /\ server.exists
    /\ server' = Stamp(w)
    /\ clock' = IF good[w] THEN clock + 1 ELSE clock
    /\ saves' = saves + 1
    /\ Goto(w, "audit")
    /\ UNCHANGED <<sources, form, queue, lock, local, born, told, audits, events, lost>>

\* Mutant of Audit: the entry is written without the count.
AuditNoCount(w) ==
    /\ pc[w] = "audit"
    /\ End(w)
    /\ UNCHANGED <<row, form, queue, lock, counts, clock, events, lost>>

\* record_audit_log(..., metadata={"created": created})
Audit(w) ==
    /\ pc[w] = "audit"
    /\ audits' = audits + 1
    /\ told' = told + made[w]
    /\ End(w)
    /\ UNCHANGED <<row, form, queue, lock, born, saves, clock, events, lost>>

\* The row is gone: the save changes nothing and raises, the insert breaks the
\* foreign key; the task fails.  In the body, the `finally` still runs.
Vanished(w) ==
    /\ pc[w] \in {"save", "create"} /\ ~server.exists
    /\ lost' = lost + 1
    /\ End(w)
    /\ UNCHANGED <<row, form, queue, lock, counts, clock, events>>

\* A command or a listing raises something else, or the row to save the error in
\* is gone: the body is left, the task fails, nothing is saved or written.
Raise(w) ==
    /\ pc[w] = "locked"
    /\ lost' = lost + 1
    /\ lock' = [lock EXCEPT ![kind[w]] = Free]
    /\ End(w)
    /\ UNCHANGED <<row, form, queue, counts, clock, events>>

\* The worker is killed and its message comes again.
Crash(w) ==
    /\ pc[w] # "idle"
    /\ lost < MaxCrashes /\ lost' = lost + 1
    /\ queue' = [queue EXCEPT ![kind[w]] = @ + 1]
    /\ lock' = [lock EXCEPT ![kind[w]] = IF @ = w THEN Orphan ELSE @]
    /\ End(w)
    /\ UNCHANGED <<row, form, counts, clock, events>>

\* Redis drops a key, of a dead worker or of a body that takes too long.
Expire(k) ==
    /\ lock[k] # Free
    /\ lock' = [lock EXCEPT ![k] = Free]
    /\ UNCHANGED <<row, form, queue, pc, local, counts, clock, events, lost>>

Step(w) ==
    \/ \E k \in Kinds : Load(w, k) \/ Missing(w, k)
    \/ \E p \in Paths : Create(w, p)
    \/ Lock(w) \/ Skip(w) \/ Probe(w) \/ List(w) \/ Refused(w) \/ AuditRefused(w) \/ Unlock(w)
    \/ Save(w) \/ Audit(w) \/ Vanished(w) \/ Raise(w)

Next ==
    \/ \E k \in Kinds : Request(k) \/ Expire(k)
    \/ \E p \in Paths : ToggleSource(p)
    \/ \E b \in BOOLEAN : Submit(b)
    \/ Toggle \/ Delete \/ Edit
    \/ \E w \in Workers : Step(w) \/ Crash(w)

Spec == Init /\ [][Next]_vars
-----------------------------------------------------------------------------
\* The tasks write status columns only (update_fields): what operators decide,
\* the server's and the sources' enabled flags, no task changes, however old the
\* row it works from is.
OperatorsDecide ==
    [][\/ server.exists /\ server'.exists /\ server'.enabled # server.enabled
       \/ \E p \in Paths : sources[p] # "none" /\ sources'[p] # sources[p]
       => events' # events \/ form' # form]_vars

\* A deleted server comes back only through an edit that was begun before: a
\* task that outlives its server fails, and leaves neither row nor log source.
TasksNeverResurrect == [][~server.exists /\ server'.exists => form.open /\ ~form'.open]_vars

\* last_connected_at goes back in two ways only: an edit saves what it read, or
\* a failed test does, which read the row before another task connected.
ConnectedRegressesOnlyIf ==
    [][server.exists /\ server'.exists /\ server'.connected < server.connected =>
         \/ form' # form
         \/ \E w \in Workers : pc[w] = "save" /\ pc'[w] = "audit" /\ ~good[w]]_vars

\* The audit log counts every log source a task created once, although two
\* discoveries may create at the same time, but for tasks that died.
CreatedAgrees ==
    LET inFlight == FoldFunction(+, 0, made) IN
    /\ told + inFlight =< born
    /\ lost = 0 => told + inFlight = born

\* Every status a task saved is in the audit log, or about to be, or the task died.
SavesAudited ==
    saves =< audits + Cardinality({w \in Workers : pc[w] \in {"audit", "refused"}}) + lost
=============================================================================
