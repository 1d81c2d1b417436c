----------------------------- MODULE Retention ------------------------------
(***************************************************************************)
(* purge_old_data (apps/ips/tasks.py, apps/incidents/tasks.py,             *)
(* apps/whois/tasks.py), query by query, beside a log reader that records  *)
(* sightings and events and tasks that classify and look up addresses.     *)
(*                                                                         *)
(* Time is counted in days.  An address that is purged and seen again is a *)
(* new row with a new id; the days a worker needs to get from one query to *)
(* the next are any number.  The rows that refer to an IPAddress go with it  *)
(* (on_delete=CASCADE): Django reads the addresses to delete first, and    *)
(* then deletes what refers to their ids, and the ids, in one transaction. *)
(***************************************************************************)
EXTENDS Naturals

CONSTANTS Purges,    \* purge_old_data tasks that may run at the same time
          Addresses,
          RequestDays, WhoisDays, IpDays, \* the retention settings
          MaxDays,   \* bound on the days
          MaxIds,    \* bound on the IPAddress rows ever created
          MaxCrashes \* bound on the crashes

None == 0
Ids == 1..MaxIds

ASSUME RetentionAssumption ==
    /\ RequestDays \in Nat /\ WhoisDays \in Nat /\ IpDays \in Nat
    /\ MaxDays \in Nat /\ MaxIds \in Nat /\ MaxCrashes \in Nat

VARIABLES today,
          ip,       \* the id of the IPAddress row, per address
          seen,     \* last_seen_at, per id
          iran,     \* ids with is_iran
          events,   \* RequestEvent rows: <<id, day>>
          records,  \* WhoisRecord rows: <<id, day>>
          history,  \* ids with IPCountryHistory rows
          line,     \* the log line the reader is working on: <<address, day>>
          held,     \* the id the reader recorded the sighting in
          pc,       \* per purge: the next query
          doomed,   \* per purge: the ids it read for deletion
          late,     \* per purge: the ids sighted, used or classified since
          done,     \* the last day a purge was begun
          ids, crashes

data == <<ip, seen, iran, events, records, history>>
reader == <<line, held>>
purge == <<pc, doomed, late, done>>
vars == <<today, data, reader, purge, ids, crashes>>

NoLine == <<>>
Rows == {ip[a] : a \in Addresses} \ {None}
Old(day, days) == day + days < today

Init ==
    /\ today = 0
    /\ ip = [a \in Addresses |-> None] /\ seen = [i \in Ids |-> 0]
    /\ iran = {} /\ events = {} /\ records = {} /\ history = {}
    /\ line = NoLine /\ held = None
    /\ pc = [p \in Purges |-> "idle"] /\ doomed = [p \in Purges |-> {}] /\ late = [p \in Purges |-> {}]
    /\ done = 0 /\ ids = 0 /\ crashes = 0

Day ==
    /\ today < MaxDays
    /\ today' = today + 1
    /\ UNCHANGED <<data, reader, purge, ids, crashes>>

\* A purge that has read its ids will not look at them again.
Touch(i) == late' = [p \in Purges |-> IF i \in doomed[p] THEN late[p] \cup {i} ELSE late[p]]
-----------------------------------------------------------------------------
\* A line of today is read from the log.
ReadLine(a) ==
    /\ line = NoLine
    /\ line' = <<a, today>>
    /\ UNCHANGED <<today, data, held, purge, ids, crashes>>

\* record_sightings_bulk: the row is there or is created, and seen that day.
Sight ==
    /\ line # NoLine /\ held = None
    /\ LET a == line[1]
           new == ip[a] = None
           i == IF new THEN ids + 1 ELSE ip[a] IN
         /\ i \in Ids
         /\ ids' = IF new THEN i ELSE ids
         /\ ip' = [ip EXCEPT ![a] = i]
         /\ seen' = IF new \/ seen[i] < line[2] THEN [seen EXCEPT ![i] = line[2]] ELSE seen
         /\ held' = i
         /\ Touch(i)
    /\ UNCHANGED <<today, iran, events, records, history, line, pc, doomed, done, crashes>>

\* RequestEvent.objects.bulk_create
Store ==
    /\ held \in Rows
    /\ events' = events \cup {<<held, line[2]>>}
    /\ line' = NoLine /\ held' = None
    /\ Touch(held)
    /\ UNCHANGED <<today, ip, seen, iran, records, history, pc, doomed, done, ids, crashes>>

\* The row is gone: IntegrityError, no offset is saved, the line is read again.
StoreFails ==
    /\ held # None /\ held \notin Rows
    /\ held' = None
    /\ UNCHANGED <<today, data, line, purge, ids, crashes>>

\* IranCIDRService.classify: the flag, and a history row when it turns on.
Classify(i, flag) ==
    /\ i \in Rows
    /\ iran' = IF flag THEN iran \cup {i} ELSE iran \ {i}
    /\ history' = IF flag /\ i \notin iran THEN history \cup {i} ELSE history
    /\ Touch(i)
    /\ UNCHANGED <<today, ip, seen, events, records, reader, pc, doomed, done, ids, crashes>>

\* WhoisRecord.objects.create
Lookup(i) ==
    /\ i \in Rows
    /\ records' = records \cup {<<i, today>>}
    /\ UNCHANGED <<today, ip, seen, iran, events, history, reader, purge, ids, crashes>>
-----------------------------------------------------------------------------
\* purge_old_data, daily by beat.
Begin(p) ==
    /\ pc[p] = "idle"
    /\ done < today /\ done' = today
    /\ pc' = [pc EXCEPT ![p] = "events"]
    /\ UNCHANGED <<today, data, reader, doomed, late, ids, crashes>>

\* Mutant of PurgeEvents: what is protected among the addresses is among the events too.
PurgeEventsUnlessIran(p) ==
    /\ pc[p] = "events"
    /\ events' = {e \in events : ~Old(e[2], RequestDays) \/ e[1] \in iran}
    /\ pc' = [pc EXCEPT ![p] = "records"]
    /\ UNCHANGED <<today, ip, seen, iran, records, history, reader, doomed, late, done, ids, crashes>>

\* purge_old_request_events
PurgeEvents(p) ==
    /\ pc[p] = "events"
    /\ events' = {e \in events : ~Old(e[2], RequestDays)}
    /\ pc' = [pc EXCEPT ![p] = "records"]
    /\ UNCHANGED <<today, ip, seen, iran, records, history, reader, doomed, late, done, ids, crashes>>

\* Mutant of PurgeRecords: the last day that is kept goes too.
PurgeRecordsEarly(p) ==
    /\ pc[p] = "records"
    /\ records' = {r \in records : r[2] + WhoisDays > today}
    /\ pc' = [pc EXCEPT ![p] = "select"]
    /\ UNCHANGED <<today, ip, seen, iran, events, history, reader, doomed, late, done, ids, crashes>>

\* purge_old_whois_records
PurgeRecords(p) ==
    /\ pc[p] = "records"
    /\ records' = {r \in records : ~Old(r[2], WhoisDays)}
    /\ pc' = [pc EXCEPT ![p] = "select"]
    /\ UNCHANGED <<today, ip, seen, iran, events, history, reader, doomed, late, done, ids, crashes>>

\* Mutant of Eligible: a closed history does not protect.
EligibleHistory(i) == Old(seen[i], IpDays) /\ i \notin iran /\ \A e \in events : e[1] # i

\* _purge_eligible_ips
Eligible(i) ==
    /\ Old(seen[i], IpDays)
    /\ i \notin iran
    /\ \A e \in events : e[1] # i
    /\ i \notin history

\* queryset.delete() reads the addresses ...
Select(p) ==
    /\ pc[p] = "select"
    /\ doomed' = [doomed EXCEPT ![p] = {i \in Rows : Eligible(i)}]
    /\ late' = [late EXCEPT ![p] = {}]
    /\ pc' = [pc EXCEPT ![p] = "delete"]
    /\ UNCHANGED <<today, data, reader, done, ids, crashes>>

\* ... and deletes them and what refers to them.
Delete(p) ==
    /\ pc[p] = "delete"
    /\ ip' = [a \in Addresses |-> IF ip[a] \in doomed[p] THEN None ELSE ip[a]]
    /\ iran' = iran \ doomed[p]
    /\ events' = {e \in events : e[1] \notin doomed[p]}
    /\ records' = {r \in records : r[1] \notin doomed[p]}
    /\ history' = history \ doomed[p]
    /\ doomed' = [doomed EXCEPT ![p] = {}] /\ late' = [late EXCEPT ![p] = {}]
    /\ pc' = [pc EXCEPT ![p] = "idle"]
    /\ UNCHANGED <<today, seen, reader, done, ids, crashes>>

\* The worker is killed; the redelivered task starts again.
Crash(p) ==
    /\ pc[p] # "idle"
    /\ crashes < MaxCrashes /\ crashes' = crashes + 1
    /\ doomed' = [doomed EXCEPT ![p] = {}] /\ late' = [late EXCEPT ![p] = {}]
    /\ pc' = [pc EXCEPT ![p] = "events"]
    /\ UNCHANGED <<today, data, reader, done, ids>>

Step(p) == Begin(p) \/ PurgeEvents(p) \/ PurgeRecords(p) \/ Select(p) \/ Delete(p)

Next ==
    \/ Day \/ Sight \/ Store \/ StoreFails
    \/ \E a \in Addresses : ReadLine(a)
    \/ \E i \in Ids : Lookup(i) \/ \E flag \in BOOLEAN : Classify(i, flag)
    \/ \E p \in Purges : Step(p) \/ Crash(p)

Spec == Init /\ [][Next]_vars

\* Days pass, beat sends the task, workers run it.
FairSpec == Spec /\ WF_vars(Day) /\ \A p \in Purges : WF_vars(Step(p))
-----------------------------------------------------------------------------
\* The shape of the state; nothing refers to a row that is not there.
TypeOK ==
    /\ today \in Nat /\ done \in Nat /\ ids \in 0..MaxIds /\ crashes \in Nat
    /\ ip \in [Addresses -> 0..ids]
    /\ seen \in [Ids -> Nat]
    /\ iran \subseteq Rows /\ history \subseteq Rows
    /\ events \subseteq Rows \X Nat /\ records \subseteq Rows \X Nat
    /\ line \in (Addresses \X Nat) \cup {NoLine} /\ held \in 0..ids
    /\ held # None => line # NoLine
    /\ pc \in [Purges -> {"idle", "events", "records", "select", "delete"}]
    /\ doomed \in [Purges -> SUBSET Ids] /\ late \in [Purges -> SUBSET Ids]

\* "an IP is only eligible for deletion when ALL of these hold": what a purge is
\* about to delete still meets every one of them, but for addresses that were
\* sighted, used or classified after the purge had read its list.
DoomedUnused ==
    \A p \in Purges : \A i \in (doomed[p] \cap Rows) \ late[p] :
        /\ Old(seen[i], IpDays)
        /\ i \notin iran /\ i \notin history
        /\ \A e \in events : e[1] # i

\* Events and WHOIS records go only when their own retention is over, or with an
\* address that a purge read before they came; and "IPCountryHistory rows must be
\* kept indefinitely" holds but for an address classified after that reading.
YoungRowsKept ==
    [][/\ \A e \in events \ events' : Old(e[2], RequestDays) \/ \E p \in Purges : e[1] \in late[p]
       /\ \A r \in records \ records' : Old(r[2], WhoisDays) \/ \E p \in Purges : r[1] \in doomed[p]
       /\ \A i \in history \ history' : \E p \in Purges : i \in late[p]]_vars

\* Retention is kept up with: an event past its days is deleted.
OldEventsGo == \A d \in 0..MaxDays - 2 :
    ((\E i \in Ids : <<i, d>> \in events) /\ Old(d, RequestDays) /\ today < MaxDays)
        ~> \A i \in Ids : <<i, d>> \notin events
=============================================================================
