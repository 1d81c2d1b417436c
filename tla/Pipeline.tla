------------------------------ MODULE Pipeline ------------------------------
(***************************************************************************)
(* What happens to one address after its first sighting: process_new_ip    *)
(* (apps/ips/tasks.py) fans out to perform_whois_lookup, classify_ip and   *)
(* enrich_ip (apps/geo/tasks.py), four kinds of task that several workers  *)
(* run at once on one row, each under a lock of its own kind.              *)
(*                                                                         *)
(* Every kind reads the whole row and saves its own columns only; here a   *)
(* kind's columns are one column named after it.  WhoisLookup and          *)
(* IranClassify have the retries and the history of theirs.                *)
(***************************************************************************)
EXTENDS Naturals, Sequences

CONSTANTS Workers, Free, Orphan,
          MaxSights, \* bound on the sightings after the first
          MaxNews,   \* readers that found the address missing at the same time
          MaxCrashes \* bound on the crashes

ASSUME PipelineAssumption ==
    /\ Free # Orphan /\ Free \notin Workers /\ Orphan \notin Workers
    /\ MaxSights \in Nat /\ MaxNews \in Nat /\ MaxCrashes \in Nat

Kinds == {"process", "whois", "iran", "geo"}

VARIABLES row, exists, \* the ip_addresses row
          queue,       \* messages waiting, per kind
          lock,        \* redis_lock of each kind for this address
          pc, kind,    \* per worker: position and kind of task
          copy,        \* per worker: the row as the task read it
          left,        \* per worker: the messages process_new_ip has still to send
          news,        \* process_new_ip messages sent by readers
          wrote,       \* history: what each writer last put in its column
          purged,      \* history: the row has been deleted
          located,     \* history: the GeoIP provider has been asked
          orphaned,    \* history: a worker has died holding a key
          crashes

db == <<row, exists, wrote, purged, located>>
mishaps == <<orphaned, crashes>>
local == <<pc, kind, copy, left>>
vars == <<db, queue, lock, local, news, mishaps>>

\* A row nobody has enriched: whois is the answer's country, "" for an answer
\* without one or an error; geo is "known" once a provider has answered.
NewRow == [seen |-> 0, whois |-> "never", iran |-> "unchecked", geo |-> "none"]

Init ==
    /\ row = NewRow /\ exists = TRUE
    /\ queue = [k \in Kinds |-> 0]
    /\ lock = [k \in Kinds |-> Free]
    /\ pc = [w \in Workers |-> "idle"]
    /\ kind = [w \in Workers |-> "process"]   \* idle: not read
    /\ copy = [w \in Workers |-> NewRow]
    /\ left = [w \in Workers |-> <<>>]
    /\ news = 0
    /\ wrote = NewRow /\ purged = FALSE /\ located = FALSE
    /\ orphaned = FALSE /\ crashes = 0
-----------------------------------------------------------------------------
\* record_sightings_bulk: process_new_ip.delay for an address it did not find...
New ==
    /\ news < MaxNews /\ news' = news + 1
    /\ queue' = [queue EXCEPT !["process"] = @ + 1]
    /\ UNCHANGED <<db, lock, local, mishaps>>

\* ... and UPDATE last_seen_at for one it did.
Sight ==
    /\ exists /\ row.seen < MaxSights
    /\ row' = [row EXCEPT !.seen = @ + 1]
    /\ wrote' = [wrote EXCEPT !.seen = @ + 1]
    /\ UNCHANGED <<exists, purged, located, queue, lock, local, news, mishaps>>

\* purge_stale_ips deletes the row; never an Iranian one.
Purge ==
    /\ exists /\ row.iran # "iran"
    /\ exists' = FALSE /\ purged' = TRUE
    /\ UNCHANGED <<row, wrote, located, queue, lock, local, news, mishaps>>
-----------------------------------------------------------------------------
\* DoesNotExist, or perform_whois_lookup finds the row fresh: nothing is done.
Needless(k) == ~exists \/ (k = "whois" /\ row.whois # "never")

Drop(w, k) ==
    /\ pc[w] = "idle" /\ queue[k] > 0 /\ Needless(k)
    /\ queue' = [queue EXCEPT ![k] = @ - 1]
    /\ UNCHANGED <<db, lock, local, news, mishaps>>

\* The task reads the row, before it asks for its lock.
Load(w, k) ==
    /\ pc[w] = "idle" /\ queue[k] > 0 /\ ~Needless(k)
    /\ queue' = [queue EXCEPT ![k] = @ - 1]
    /\ pc' = [pc EXCEPT ![w] = "loaded"]
    /\ kind' = [kind EXCEPT ![w] = k]
    /\ copy' = [copy EXCEPT ![w] = row]
    /\ UNCHANGED <<db, lock, left, news, mishaps>>

\* Mutant of Plan: the classification is left to the end of the WHOIS lookup.
PlanWhoisFirst(ip) == IF ip.whois = "never" THEN <<"whois", "geo">> ELSE <<"iran", "geo">>

\* What process_new_ip sends: a WHOIS lookup if the row it read needs one.
Plan(ip) == IF ip.whois = "never" THEN <<"whois", "iran", "geo">> ELSE <<"iran", "geo">>

Lock(w) ==
    /\ pc[w] = "loaded" /\ lock[kind[w]] = Free
    /\ lock' = [lock EXCEPT ![kind[w]] = w]
    /\ pc' = [pc EXCEPT ![w] = IF kind[w] = "process" THEN "sending" ELSE "working"]
    /\ left' = [left EXCEPT ![w] = IF kind[w] = "process" THEN Plan(copy[w]) ELSE <<>>]
    /\ UNCHANGED <<db, queue, kind, copy, news, mishaps>>

Forget(w) ==
    /\ pc' = [pc EXCEPT ![w] = "idle"]
    /\ kind' = [kind EXCEPT ![w] = "process"]
    /\ copy' = [copy EXCEPT ![w] = NewRow]
    /\ left' = [left EXCEPT ![w] = <<>>]

\* LockHeldError: "already being processed, skipping".
Skip(w) ==
    /\ pc[w] = "loaded" /\ lock[kind[w]] # Free
    /\ Forget(w)
    /\ UNCHANGED <<db, queue, lock, news, mishaps>>

\* One .delay() of process_new_ip.
Send(w) ==
    /\ pc[w] = "sending" /\ left[w] # <<>>
    /\ queue' = [queue EXCEPT ![Head(left[w])] = @ + 1]
    /\ left' = [left EXCEPT ![w] = Tail(@)]
    /\ UNCHANGED <<db, lock, pc, kind, copy, news, mishaps>>

\* What a task may have to save, from the row it read: WHOIS any country,
\* the classification Iran if a CIDR or the WHOIS country says so.
Results(k, ip) ==
    CASE k = "whois" -> {"IR", ""}
      [] k = "iran"  -> IF ip.whois = "IR" THEN {"iran"} ELSE {"iran", "not"}
      [] k = "geo"   -> {"known"}

\* Mutant of Save: save() without update_fields writes the whole row as it was
\* read, and inserts it when it is gone.
SaveWhole(w) ==
    /\ pc[w] = "working"
    /\ \E v \in Results(kind[w], copy[w]) :
         /\ row' = [copy[w] EXCEPT ![kind[w]] = v]
         /\ wrote' = [wrote EXCEPT ![kind[w]] = v]
         /\ pc' = [pc EXCEPT ![w] = IF kind[w] = "whois" /\ v # "" THEN "saved" ELSE "leaving"]
    /\ exists' = TRUE
    /\ located' = (located \/ kind[w] = "geo")
    /\ UNCHANGED <<purged, queue, lock, kind, copy, left, news, mishaps>>

\* save(update_fields=[...]) of the task's own columns.
Save(w) ==
    /\ pc[w] = "working" /\ exists
    /\ \E v \in Results(kind[w], copy[w]) :
         /\ row' = [row EXCEPT ![kind[w]] = v]
         /\ wrote' = [wrote EXCEPT ![kind[w]] = v]
         /\ pc' = [pc EXCEPT ![w] = IF kind[w] = "whois" /\ v # "" THEN "saved" ELSE "leaving"]
    /\ located' = (located \/ kind[w] = "geo")
    /\ UNCHANGED <<exists, purged, queue, lock, kind, copy, left, news, mishaps>>

\* The GeoIP provider knows nothing: what the row has is kept.
Unlocated(w) ==
    /\ pc[w] = "working" /\ kind[w] = "geo"
    /\ located' = TRUE
    /\ pc' = [pc EXCEPT ![w] = "leaving"]
    /\ UNCHANGED <<row, exists, wrote, purged, queue, lock, kind, copy, left, news, mishaps>>

\* The row has been deleted: DatabaseError, and nothing is saved.
Vanished(w) ==
    /\ pc[w] = "working" /\ ~exists
    /\ pc' = [pc EXCEPT ![w] = "leaving"]
    /\ UNCHANGED <<db, queue, lock, kind, copy, left, news, mishaps>>

\* A WHOIS country was saved: classify_ip.delay.
Announce(w) ==
    /\ pc[w] = "saved"
    /\ queue' = [queue EXCEPT !["iran"] = @ + 1]
    /\ pc' = [pc EXCEPT ![w] = "leaving"]
    /\ UNCHANGED <<db, lock, kind, copy, left, news, mishaps>>

\* The `finally` of redis_lock.
Unlock(w) ==
    /\ pc[w] = "leaving" \/ (pc[w] = "sending" /\ left[w] = <<>>)
    /\ lock' = [lock EXCEPT ![kind[w]] = Free]
    /\ Forget(w)
    /\ UNCHANGED <<db, queue, news, mishaps>>

\* The worker is killed: the message comes again, a key it holds stays.
Crash(w) ==
    /\ pc[w] # "idle"
    /\ crashes < MaxCrashes /\ crashes' = crashes + 1
    /\ queue' = [queue EXCEPT ![kind[w]] = @ + 1]
    /\ lock' = [lock EXCEPT ![kind[w]] = IF @ = w THEN Orphan ELSE @]
    /\ orphaned' = (orphaned \/ lock[kind[w]] = w)
    /\ Forget(w)
    /\ UNCHANGED <<db, news>>

\* Redis drops an orphaned key.
Expire(k) ==
    /\ lock[k] = Orphan
    /\ lock' = [lock EXCEPT ![k] = Free]
    /\ UNCHANGED <<db, queue, local, news, mishaps>>

Step(w) ==
    \/ \E k \in Kinds : Drop(w, k) \/ Load(w, k)
    \/ Lock(w) \/ Skip(w) \/ Send(w) \/ Save(w) \/ Unlocated(w) \/ Vanished(w)
    \/ Announce(w) \/ Unlock(w)

Next ==
    \/ New \/ Sight \/ Purge
    \/ \E k \in Kinds : Expire(k)
    \/ \E w \in Workers : Step(w) \/ Crash(w)

Spec == Init /\ [][Next]_vars

\* Workers take what is queued and finish what they took; Redis expires keys.
FairSpec ==
    /\ Spec
    /\ \A w \in Workers : WF_vars(Step(w))
    /\ \A k \in Kinds : WF_vars(Expire(k))
-----------------------------------------------------------------------------
Rows == [seen : Nat, whois : {"never", "IR", ""}, iran : {"unchecked", "iran", "not"},
         geo : {"none", "known"}]
Places == {"idle", "loaded", "sending", "working", "saved", "leaving"}

InBody(w) == pc[w] \in {"sending", "working", "saved", "leaving"}

\* The shape of the state; a key of some kind is a worker's exactly while it is
\* in the body of a task of that kind.
TypeOK ==
    /\ row \in Rows /\ wrote \in Rows
    /\ exists \in BOOLEAN /\ purged \in BOOLEAN /\ located \in BOOLEAN
    /\ queue \in [Kinds -> Nat]
    /\ lock \in [Kinds -> Workers \cup {Free, Orphan}]
    /\ pc \in [Workers -> Places] /\ kind \in [Workers -> Kinds]
    /\ \A w \in Workers : pc[w] \in {"working", "saved"} => kind[w] # "process"
    /\ \A w \in Workers, k \in Kinds : (lock[k] = w) <=> (InBody(w) /\ kind[w] = k)
    /\ copy \in [Workers -> Rows]
    /\ left \in [Workers -> Seq(Kinds)]
    /\ news \in Nat /\ crashes \in Nat /\ orphaned \in BOOLEAN

\* The tasks of all kinds and the readers write one row at once, from copies
\* read before their locks: none undoes what another has saved, and none brings
\* a purged row back.
SavesSurvive == row = wrote /\ exists = ~purged

\* "process_new_ip is the single entry point for new-IP intelligence
\* enrichment": an address it was sent for gets all three kinds, however the
\* tasks interleave or skip one another, unless a worker dies with a key in hand
\* (the redelivered message meets it and is skipped) or the row is purged.
Enriched == row.whois # "never" /\ row.iran # "unchecked" /\ located
EnrichedUnlessOrphaned == news > 0 ~> (Enriched \/ orphaned \/ purged)
=============================================================================
