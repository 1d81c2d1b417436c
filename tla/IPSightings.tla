---------------------------- MODULE IPSightings ----------------------------
(***************************************************************************)
(* IPIntelligenceService.record_sightings_bulk (apps/ips/services.py) as   *)
(* several log readers call it at once, statement by statement, with       *)
(* crashes after which the reader's bytes, and so its batch, come again.   *)
(*                                                                         *)
(* A batch is the set of <<address, seen_at>> pairs of one poll, addresses *)
(* already normalised.  purge_stale_ips (apps/ips/tasks.py) deletes rows   *)
(* beside the readers; an address that is seen again then is a new row     *)
(* with a new id.  What else keeps a row from being purged (events,        *)
(* history, is_iran) is in Retention: here any old row may be eligible.    *)
(***************************************************************************)
EXTENDS Naturals

CONSTANTS Readers, Addresses,
          MaxTime,    \* timestamps are 1..MaxTime
          Known,      \* addresses that have a row, already processed, at the start
          Batches,    \* the batches a poll may bring
          Cutoff,     \* rows last seen before it may be purged
          MaxBatches, \* bound on the batches taken
          MaxPurges,  \* bound on the purges
          MaxCrashes  \* bound on the crashes

Times == 1..MaxTime
Absent == [id |-> 0, first |-> 0, last |-> 0]   \* no row for the address

ASSUME SightingsAssumption ==
    /\ MaxTime \in Nat \ {0} /\ Cutoff \in Nat
    /\ MaxBatches \in Nat /\ MaxPurges \in Nat /\ MaxCrashes \in Nat
    /\ Known \subseteq Addresses /\ Batches \subseteq SUBSET (Addresses \X Times)

VARIABLES row,        \* ip_addresses: id, first_seen_at and last_seen_at by address
          ids,        \* the last id a row of the address was given
          dispatched, \* process_new_ip messages: <<address, id>>
          pc, batch,  \* per reader: position, the sightings it is recording
          existing,   \* the rows as the reader fetched them
          fresh,      \* newly_seen_addresses still to dispatch
          todo,       \* addresses the update loop has not reached
          lost,       \* newly seen addresses of a call that failed in its loop
          doomed,     \* the ids a purge has read for deletion: <<address, id>>
          batches, purges, crashes

table == <<row, ids>>
reader == <<pc, batch, existing, fresh, todo>>
purge == <<doomed, purges>>
vars == <<table, dispatched, reader, lost, purge, batches, crashes>>

Sightings == Addresses \X Times
Present == {a \in Addresses : row[a] # Absent}

\* Mutant of Latest: the first seen_at of an address stays.
Earliest(b, a) == CHOOSE t \in Times : <<a, t>> \in b /\ \A u \in Times : <<a, u>> \in b => t =< u

\* The addresses of a batch, and the latest seen_at of each.
Seen(b) == {s[1] : s \in b}
Latest(b, a) == CHOOSE t \in Times : <<a, t>> \in b /\ \A u \in Times : <<a, u>> \in b => u =< t

NoneFetched == [a \in Addresses |-> Absent]

Init ==
    /\ row = [a \in Addresses |-> IF a \in Known THEN [id |-> 1, first |-> 1, last |-> 1] ELSE Absent]
    /\ ids = [a \in Addresses |-> row[a].id]
    /\ dispatched = {<<a, 1>> : a \in Known}
    /\ pc = [r \in Readers |-> "idle"]
    /\ batch = [r \in Readers |-> {}]
    /\ existing = [r \in Readers |-> NoneFetched]
    /\ fresh = [r \in Readers |-> {}]
    /\ todo = [r \in Readers |-> {}]
    /\ lost = {} /\ doomed = {}
    /\ batches = 0 /\ purges = 0 /\ crashes = 0

\* A reader has parsed lines; an empty list returns at once.
Begin(r, b) ==
    /\ pc[r] = "idle" /\ b # {}
    /\ batches < MaxBatches /\ batches' = batches + 1
    /\ batch' = [batch EXCEPT ![r] = b]
    /\ pc' = [pc EXCEPT ![r] = "fetch"]
    /\ UNCHANGED <<table, dispatched, existing, fresh, todo, lost, purge, crashes>>

\* IPAddress.objects.filter(address__in=addresses)
Found(b) == [a \in Addresses |-> IF a \in Seen(b) THEN row[a] ELSE Absent]

\* existing = the rows there are; newly_seen_addresses = the others.
Fetch(r) ==
    /\ pc[r] = "fetch"
    /\ existing' = [existing EXCEPT ![r] = Found(batch[r])]
    /\ fresh' = [fresh EXCEPT ![r] = Seen(batch[r]) \ Present]
    /\ todo' = [todo EXCEPT ![r] = Seen(batch[r])]
    /\ pc' = [pc EXCEPT ![r] = IF Seen(batch[r]) \subseteq Present THEN "update" ELSE "create"]
    /\ UNCHANGED <<table, dispatched, batch, lost, purge, batches, crashes>>

\* A row for each address of `new`, with the latest of the batch's sightings.
Insert(r, new) ==
    /\ row' = [a \in Addresses |->
                 IF a \in new
                 THEN [id |-> ids[a] + 1, first |-> Latest(batch[r], a), last |-> Latest(batch[r], a)]
                 ELSE row[a]]
    /\ ids' = [a \in Addresses |-> IF a \in new THEN ids[a] + 1 ELSE ids[a]]

\* bulk_create(to_create, ignore_conflicts=True): rows that appeared stay as they are.
BulkCreate(r) ==
    /\ pc[r] = "create"
    /\ Insert(r, fresh[r] \ Present)
    /\ pc' = [pc EXCEPT ![r] = "refetch"]
    /\ UNCHANGED <<dispatched, batch, existing, fresh, todo, lost, purge, batches, crashes>>

\* The rows again, with those other readers created meanwhile and without
\* those that were purged.
Refetch(r) ==
    /\ pc[r] = "refetch"
    /\ existing' = [existing EXCEPT ![r] = Found(batch[r])]
    /\ pc' = [pc EXCEPT ![r] = "update"]
    /\ UNCHANGED <<table, dispatched, batch, fresh, todo, lost, purge, batches, crashes>>

\* Mutant of Update: no condition on the stored value.
UpdateUnconditionally(r, a) ==
    /\ pc[r] = "update" /\ a \in todo[r] /\ existing[r][a] # Absent
    /\ row' = IF Latest(batch[r], a) > existing[r][a].last /\ row[a].id = existing[r][a].id
              THEN [row EXCEPT ![a].last = Latest(batch[r], a)] ELSE row
    /\ todo' = [todo EXCEPT ![r] = @ \ {a}]
    /\ UNCHANGED <<ids, dispatched, pc, batch, existing, fresh, lost, purge, batches, crashes>>

\* One turn of the loop: UPDATE ... WHERE pk = ... AND last_seen_at < seen_at,
\* if the fetched row was older.  A row purged meanwhile is not matched.
Update(r, a) ==
    /\ pc[r] = "update" /\ a \in todo[r] /\ existing[r][a] # Absent
    /\ row' = IF /\ Latest(batch[r], a) > existing[r][a].last
                 /\ row[a].id = existing[r][a].id /\ row[a].last < Latest(batch[r], a)
              THEN [row EXCEPT ![a].last = Latest(batch[r], a)] ELSE row
    /\ todo' = [todo EXCEPT ![r] = @ \ {a}]
    /\ UNCHANGED <<ids, dispatched, pc, batch, existing, fresh, lost, purge, batches, crashes>>

\* The poll ends without its offset saved: the same bytes are read again.
Again(r) ==
    /\ pc' = [pc EXCEPT ![r] = "fetch"]
    /\ existing' = [existing EXCEPT ![r] = NoneFetched]
    /\ fresh' = [fresh EXCEPT ![r] = {}]
    /\ todo' = [todo EXCEPT ![r] = {}]
    /\ UNCHANGED <<table, dispatched, batch, purge, batches>>

\* existing[address] for an address that the second query did not find any
\* more: KeyError.  What the call had newly seen is not dispatched, and has
\* a row when the bytes are read again.
KeyFails(r, a) ==
    /\ pc[r] = "update" /\ a \in todo[r] /\ existing[r][a] = Absent
    /\ lost' = lost \cup fresh[r]
    /\ Again(r)
    /\ UNCHANGED crashes

\* Mutant of Dispatch: only what the second query did not find is sent.
DispatchNone(r, a) ==
    /\ pc[r] = "update" /\ todo[r] = {} /\ a \in fresh[r]
    /\ fresh' = [fresh EXCEPT ![r] = @ \ Present]
    /\ UNCHANGED <<table, dispatched, pc, batch, existing, todo, lost, purge, batches, crashes>>

\* process_new_ip.delay for each address the first query had not found.
Dispatch(r, a) ==
    /\ pc[r] = "update" /\ todo[r] = {} /\ a \in fresh[r]
    /\ dispatched' = dispatched \cup {<<a, existing[r][a].id>>}
    /\ fresh' = [fresh EXCEPT ![r] = @ \ {a}]
    /\ UNCHANGED <<table, pc, batch, existing, todo, lost, purge, batches, crashes>>

\* return existing; poll() goes on to store the events and save its offset.
Finish(r) ==
    /\ pc[r] = "update" /\ todo[r] = {} /\ fresh[r] = {}
    /\ pc' = [pc EXCEPT ![r] = "returned"]
    /\ UNCHANGED <<table, dispatched, batch, existing, fresh, todo, lost, purge, batches, crashes>>

\* The rows that poll()'s events will refer to are still there.
Referable(r) == \A a \in Seen(batch[r]) : row[a].id = existing[r][a].id

\* The events and then the offset are saved: these sightings do not come again.
Saved(r) ==
    /\ pc[r] = "returned" /\ Referable(r)
    /\ pc' = [pc EXCEPT ![r] = "idle"]
    /\ batch' = [batch EXCEPT ![r] = {}]
    /\ existing' = [existing EXCEPT ![r] = NoneFetched]
    /\ UNCHANGED <<table, dispatched, fresh, todo, lost, purge, batches, crashes>>

\* IntegrityError: an event of a row that is gone.
StoreFails(r) ==
    /\ pc[r] = "returned" /\ ~Referable(r)
    /\ Again(r)
    /\ UNCHANGED <<lost, crashes>>

\* The worker dies before the offset is saved.
Crash(r) ==
    /\ pc[r] \in {"create", "refetch", "update", "returned"}
    /\ crashes < MaxCrashes /\ crashes' = crashes + 1
    /\ Again(r)
    /\ UNCHANGED lost

\* purge_stale_ips: the ids of eligible rows ...
PurgeQuery(A) ==
    /\ doomed = {} /\ purges < MaxPurges /\ purges' = purges + 1
    /\ A # {} /\ \A a \in A : a \in Present /\ row[a].last < Cutoff
    /\ doomed' = {<<a, row[a].id>> : a \in A}
    /\ UNCHANGED <<table, dispatched, reader, lost, batches, crashes>>

\* ... and DELETE by id, whatever happened to the rows since.
PurgeDelete ==
    /\ doomed # {} /\ doomed' = {}
    /\ row' = [a \in Addresses |-> IF <<a, row[a].id>> \in doomed THEN Absent ELSE row[a]]
    /\ UNCHANGED <<ids, dispatched, reader, lost, purges, batches, crashes>>

Step(r) == Fetch(r) \/ BulkCreate(r) \/ Refetch(r) \/ Finish(r) \/ Saved(r) \/ StoreFails(r)
             \/ \E a \in Addresses : Update(r, a) \/ KeyFails(r, a) \/ Dispatch(r, a)

Purge == (\E A \in SUBSET Addresses : PurgeQuery(A)) \/ PurgeDelete

Next == Purge \/ \E r \in Readers : Step(r) \/ Crash(r) \/ \E b \in Batches : Begin(r, b)

Spec == Init /\ [][Next]_vars

\* A worker that is not killed finishes what it took.
FairSpec == Spec /\ \A r \in Readers : WF_vars(Step(r))
-----------------------------------------------------------------------------
\* The shape of the state; a row's first_seen_at is never after its last_seen_at.
RowType == [id : Nat \ {0}, first : Times, last : Times] \cup {Absent}
TypeOK ==
    /\ row \in [Addresses -> RowType] /\ ids \in [Addresses -> Nat]
    /\ \A a \in Addresses : row[a].first =< row[a].last
    /\ dispatched \subseteq Addresses \X Nat
    /\ pc \in [Readers -> {"idle", "fetch", "create", "refetch", "update", "returned"}]
    /\ batch \in [Readers -> SUBSET Sightings]
    /\ existing \in [Readers -> [Addresses -> RowType]]
    /\ fresh \in [Readers -> SUBSET Addresses]
    /\ todo \in [Readers -> SUBSET Addresses]
    /\ lost \subseteq Addresses /\ doomed \subseteq Addresses \X Nat
    /\ \A r \in Readers : fresh[r] \cup todo[r] \subseteq Seen(batch[r])
    /\ \A r \in Readers : pc[r] \in {"idle", "fetch", "returned"} => fresh[r] = {} /\ todo[r] = {}
    /\ batches \in Nat /\ purges \in Nat /\ crashes \in Nat

\* "never regresses last_seen_at", whatever readers of other servers do; and
\* first_seen_at is written once, as long as the row is not purged.
LastSeenNeverRegresses ==
    [][\A a \in Present : row'[a].id = row[a].id =>
         row'[a].last >= row[a].last /\ row'[a].first = row[a].first]_vars

\* When record_sightings_bulk returns, it names a row for every address of
\* its batch, and every such row that is still there reflects the batch's
\* sightings, although the loop compared with rows fetched earlier, other
\* readers wrote the same rows, and purges replaced some.
SightingsReflected ==
    \A r \in Readers : pc[r] = "returned" =>
        \A s \in batch[r] : LET a == s[1] IN
          /\ existing[r][a].id > 0
          /\ row[a].id = existing[r][a].id => row[a].first > 0 /\ s[2] =< row[a].last

\* What makes it so: ids are given once, the addresses the loop has passed were
\* found, and while the row found is there its last_seen_at is not behind
\* what was fetched, nor behind the batch once the loop has passed it.
IdsGivenOnce == \A a \in Addresses :
    row[a].id =< ids[a] /\ \A r \in Readers : existing[r][a].id =< ids[a]
Reflected(r, a) ==
    /\ a \notin todo[r] => existing[r][a].id > 0
    /\ row[a].id > 0 /\ row[a].id = existing[r][a].id =>
         /\ existing[r][a].last =< row[a].last
         /\ a \notin todo[r] => Latest(batch[r], a) =< row[a].last
PassedRowsReflected == \A r \in Readers :
    /\ pc[r] \in {"create", "refetch"} => todo[r] = Seen(batch[r])
    /\ pc[r] \in {"update", "returned"} => \A a \in Seen(batch[r]) : Reflected(r, a)

\* "For a brand-new IP, enqueues intelligence processing exactly once": at
\* least once for every row that stays, unless a worker dies or the call that
\* saw the address first failed on another one that was purged under it.
DispatchedUnlessCrash ==
    \A a \in Addresses, i \in 1..MaxPurges + 1 :
        (row[a].id = i) ~> (<<a, i>> \in dispatched \/ row[a].id # i \/ a \in lost \/ crashes > 0)
=============================================================================
