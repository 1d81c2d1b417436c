---------------------------- MODULE IranClassify ----------------------------
(***************************************************************************)
(* classify_ip (apps/iran/tasks.py) and IranCIDRService.classify           *)
(* (apps/iran/services.py) run by several workers, beside the scan at the  *)
(* end of IranCIDRValidationService.run, which classifies without the      *)
(* lock.  IranNetworks models the rest of the validation run.              *)
(*                                                                         *)
(* A CIDR is the set of the addresses it contains, so that the narrower of *)
(* two nested CIDRs is the smaller set.  Timestamps, source and confidence *)
(* of a history row are left out; a row is known by its id.                *)
(***************************************************************************)
EXTENDS Naturals, FiniteSets

CONSTANTS Workers, Scanners, Free, Orphan,
          Addresses,
          Cidrs,     \* the CIDRs of country_networks
          MaxEvents, \* bound on toggles, whois answers, button presses and scans
          MaxCrashes \* bound on the crashes

Actors == Workers \cup Scanners
NoCidr == {}
Countries == {"", "IR", "other"}   \* IPAddress.whois_country

ASSUME ClassifyAssumption ==
    /\ Workers \cap Scanners = {}
    /\ Free # Orphan /\ Free \notin Workers /\ Orphan \notin Workers
    /\ NoCidr \notin Cidrs
    /\ \A c, d \in Cidrs : c \cap d \in {NoCidr, c, d}
    /\ MaxEvents \in Nat /\ MaxCrashes \in Nat

VARIABLES enabled,       \* CountryNetwork: the enabled CIDRs
          country,       \* IPAddress.whois_country
          row,           \* IPAddress.is_iran and iran_match_cidr
          open,          \* IPCountryHistory rows with valid_until null, per address
          ids,           \* history rows created so far
          queued,        \* classify_ip messages waiting, per address
          lock,          \* redis_lock("iran:<address>")
          pc, todo, job, \* per actor: position, addresses to classify, the one in hand
          copy,          \* the IPAddress rows as the actor read them
          verdict, snap, \* the new classification; the open rows its UPDATE found
          stale, missed, \* history: addresses committed from an outdated row; left
                         \* to another task, or decided from an outdated country
          events, crashes

db == <<enabled, country, row, open, ids, stale, missed>>
local == <<todo, job, copy, verdict, snap>>
vars == <<db, queued, lock, pc, local, events, crashes>>

Verdict == [iran : BOOLEAN, cidr : Cidrs \cup {NoCidr}]
NotIran == [iran |-> FALSE, cidr |-> NoCidr]
Copy == [is : Verdict, country : Countries]

\* find_matching_cidr, then the WHOIS country; the answer is unique.
Covering(a) == {c \in enabled : a \in c}
Narrowest(a) == {c \in Covering(a) : \A d \in Covering(a) : c \subseteq d}
Verdicts(a, whois) ==
    IF Covering(a) = {} THEN {[iran |-> whois = "IR", cidr |-> NoCidr]}
                        ELSE {[iran |-> TRUE, cidr |-> c] : c \in Narrowest(a)}

\* Mutant of Changed: a move to another CIDR is no change.
ChangedFlag(p) == verdict[p].iran # copy[p][job[p]].is.iran

\* changed: the verdict against the row as it was read.
Changed(p) == verdict[p] # copy[p][job[p]].is

Init ==
    /\ enabled = Cidrs
    /\ country = [a \in Addresses |-> ""]
    /\ row = [a \in Addresses |-> NotIran]
    /\ open = [a \in Addresses |-> {}] /\ ids = 0
    /\ queued = [a \in Addresses |-> 1]     \* by process_new_ip
    /\ lock = [a \in Addresses |-> Free]
    /\ pc = [p \in Actors |-> "idle"]
    /\ todo = [p \in Actors |-> {}]
    /\ job \in [Actors -> Addresses]        \* none in hand: not read
    /\ copy = [p \in Actors |-> [a \in Addresses |-> [is |-> NotIran, country |-> ""]]]
    /\ verdict = [p \in Actors |-> NotIran]
    /\ snap = [p \in Actors |-> {}]
    /\ stale = {} /\ missed = {}
    /\ events = 0 /\ crashes = 0
-----------------------------------------------------------------------------
Event == events < MaxEvents /\ events' = events + 1

\* cidr_toggle_enabled, or a CIDR added.
Toggle(c) ==
    /\ Event
    /\ enabled' = IF c \in enabled THEN enabled \ {c} ELSE enabled \cup {c}
    /\ UNCHANGED <<country, row, open, ids, stale, missed, queued, lock, pc, local, crashes>>

\* Mutant of Whois: the answer is saved and no classification follows.
WhoisQuiet(a, c) ==
    /\ Event
    /\ country' = [country EXCEPT ![a] = c]
    /\ UNCHANGED <<enabled, row, open, ids, stale, missed, queued, lock, pc, local, crashes>>

\* A WHOIS answer is saved, and classify_ip enqueued when it names a country.
Whois(a, c) ==
    /\ Event
    /\ country' = [country EXCEPT ![a] = c]
    /\ queued' = IF c = "" THEN queued ELSE [queued EXCEPT ![a] = @ + 1]
    /\ UNCHANGED <<enabled, row, open, ids, stale, missed, lock, pc, local, crashes>>

\* The "Recalculate Iran" button.
Recalculate(a) ==
    /\ Event
    /\ queued' = [queued EXCEPT ![a] = @ + 1]
    /\ UNCHANGED <<db, lock, pc, local, crashes>>
-----------------------------------------------------------------------------
Fetched == [a \in Addresses |-> [is |-> row[a], country |-> country[a]]]

\* classify_ip reads the row before it asks for the lock.
Load(w, a) ==
    /\ pc[w] = "idle" /\ queued[a] > 0
    /\ queued' = [queued EXCEPT ![a] = @ - 1]
    /\ pc' = [pc EXCEPT ![w] = "loaded"]
    /\ todo' = [todo EXCEPT ![w] = {a}]
    /\ job' = [job EXCEPT ![w] = a]
    /\ copy' = [copy EXCEPT ![w] = Fetched]
    /\ UNCHANGED <<db, lock, verdict, snap, events, crashes>>

Lock(w) ==
    /\ pc[w] = "loaded" /\ lock[job[w]] = Free
    /\ lock' = [lock EXCEPT ![job[w]] = w]
    /\ pc' = [pc EXCEPT ![w] = "ready"]
    /\ UNCHANGED <<db, queued, local, events, crashes>>

\* Back to nothing: the actor's Python objects are gone.
Forget(p) ==
    /\ pc' = [pc EXCEPT ![p] = "idle"]
    /\ todo' = [todo EXCEPT ![p] = {}]
    /\ copy' = [copy EXCEPT ![p] = [a \in Addresses |-> [is |-> NotIran, country |-> ""]]]
    /\ verdict' = [verdict EXCEPT ![p] = NotIran]
    /\ snap' = [snap EXCEPT ![p] = {}]
    /\ UNCHANGED job

\* LockHeldError: logged, and the message is gone.
Skip(w) ==
    /\ pc[w] = "loaded" /\ lock[job[w]] # Free
    /\ Forget(w)
    /\ missed' = missed \cup {job[w]}
    /\ UNCHANGED <<enabled, country, row, open, ids, stale, queued, lock, events, crashes>>

\* The scan reads every flagged row, once, and takes no lock.
Scan(s) ==
    /\ Event
    /\ pc[s] = "idle"
    /\ pc' = [pc EXCEPT ![s] = "ready"]
    /\ todo' = [todo EXCEPT ![s] = {a \in Addresses : row[a].iran}]
    /\ copy' = [copy EXCEPT ![s] = Fetched]
    /\ UNCHANGED <<db, queued, lock, job, verdict, snap, crashes>>

\* classify: the query on country_networks,
Match(p, a) ==
    /\ pc[p] = "ready" /\ a \in todo[p]
    /\ \E v \in Verdicts(a, copy[p][a].country) : verdict' = [verdict EXCEPT ![p] = v]
    /\ job' = [job EXCEPT ![p] = a]
    /\ pc' = [pc EXCEPT ![p] = "matched"]
    /\ UNCHANGED <<db, queued, lock, todo, copy, snap, events, crashes>>

\* the transaction's UPDATE of the open rows it can see,
Close(p) ==
    /\ pc[p] = "matched"
    /\ snap' = [snap EXCEPT ![p] = IF Changed(p) THEN open[job[p]] ELSE {}]
    /\ pc' = [pc EXCEPT ![p] = "writing"]
    /\ UNCHANGED <<db, queued, lock, todo, job, copy, verdict, events, crashes>>

\* The row or its open periods are no longer what the actor decides from.
Outdated(p) ==
    \/ row[job[p]] # copy[p][job[p]].is
    \/ snap[p] # (IF Changed(p) THEN open[job[p]] ELSE {})

Record(p) ==
    /\ stale' = IF Outdated(p) THEN stale \cup {job[p]} ELSE stale
    /\ missed' = IF country[job[p]] # copy[p][job[p]].country THEN missed \cup {job[p]} ELSE missed

\* Mutant of Commit: the old period stays open.
CommitOpen(p) ==
    LET a == job[p] IN
    /\ pc[p] = "writing"
    /\ IF Changed(p) /\ verdict[p].iran
       THEN /\ open' = [open EXCEPT ![a] = open[a] \cup {[id |-> ids + 1, cidr |-> verdict[p].cidr]}]
            /\ ids' = ids + 1
       ELSE UNCHANGED <<open, ids>>
    /\ row' = [row EXCEPT ![a] = verdict[p]]
    /\ pc' = [pc EXCEPT ![p] = "ready"]
    /\ todo' = [todo EXCEPT ![p] = todo[p] \ {a}]
    /\ Record(p)
    /\ UNCHANGED <<enabled, country, queued, lock, job, copy, verdict, snap, events, crashes>>

\* its INSERT and the UPDATE of ip_addresses, and the commit.
Commit(p) ==
    LET a == job[p]
        new == IF Changed(p) /\ verdict[p].iran
               THEN {[id |-> ids + 1, cidr |-> verdict[p].cidr]} ELSE {} IN
    /\ pc[p] = "writing"
    /\ open' = [open EXCEPT ![a] = (open[a] \ snap[p]) \cup new]
    /\ ids' = IF new = {} THEN ids ELSE ids + 1
    /\ row' = [row EXCEPT ![a] = verdict[p]]
    /\ pc' = [pc EXCEPT ![p] = "ready"]
    /\ todo' = [todo EXCEPT ![p] = todo[p] \ {a}]
    /\ Record(p)
    /\ UNCHANGED <<enabled, country, queued, lock, job, copy, verdict, snap, events, crashes>>

\* The task returns; leaving the with block deletes the key.
Done(p) ==
    /\ pc[p] = "ready" /\ todo[p] = {}
    /\ Forget(p)
    /\ lock' = [a \in Addresses |-> IF lock[a] = p THEN Free ELSE lock[a]]
    /\ UNCHANGED <<db, queued, events, crashes>>

\* A worker dies: its transaction is rolled back and its message comes again.
Crash(w) ==
    /\ pc[w] # "idle"
    /\ crashes < MaxCrashes /\ crashes' = crashes + 1
    /\ Forget(w)
    /\ lock' = [a \in Addresses |-> IF lock[a] = w THEN Orphan ELSE lock[a]]
    /\ queued' = [queued EXCEPT ![job[w]] = @ + 1]
    /\ UNCHANGED <<db, events>>

\* The 60 s of a dead worker's key pass.
Expire(a) ==
    /\ lock[a] = Orphan
    /\ lock' = [lock EXCEPT ![a] = Free]
    /\ UNCHANGED <<db, queued, pc, local, events, crashes>>

Outside ==
    \/ \E c \in Cidrs : Toggle(c)
    \/ \E a \in Addresses : Recalculate(a) \/ \E c \in Countries : Whois(a, c)

Classify(p) == Close(p) \/ Commit(p) \/ Done(p) \/ \E a \in Addresses : Match(p, a)

Work(w) == Lock(w) \/ Skip(w) \/ Classify(w) \/ \E a \in Addresses : Load(w, a)

Next ==
    \/ Outside
    \/ \E w \in Workers : Work(w) \/ Crash(w)
    \/ \E s \in Scanners : Scan(s) \/ Classify(s)
    \/ \E a \in Addresses : Expire(a)

Spec == Init /\ [][Next]_vars

\* Workers keep taking messages, and keys expire.
FairSpec ==
    /\ Spec
    /\ \A w \in Workers : WF_vars(Work(w))
    /\ \A a \in Addresses : WF_vars(Expire(a))
-----------------------------------------------------------------------------
\* The shape of the state; a key is held by the worker inside its with block.
TypeOK ==
    /\ enabled \subseteq Cidrs
    /\ country \in [Addresses -> Countries]
    /\ row \in [Addresses -> Verdict]
    /\ ids \in Nat
    /\ open \in [Addresses -> SUBSET [id : 1..ids, cidr : Cidrs \cup {NoCidr}]]
    /\ queued \in [Addresses -> Nat]
    /\ lock \in [Addresses -> Workers \cup {Free, Orphan}]
    /\ pc \in [Actors -> {"idle", "loaded", "ready", "matched", "writing"}]
    /\ todo \in [Actors -> SUBSET Addresses]
    /\ job \in [Actors -> Addresses]
    /\ copy \in [Actors -> [Addresses -> Copy]]
    /\ verdict \in [Actors -> Verdict]
    /\ snap \in [Actors -> SUBSET [id : 1..ids, cidr : Cidrs \cup {NoCidr}]]
    /\ stale \subseteq Addresses /\ missed \subseteq Addresses
    /\ events \in Nat /\ crashes \in Nat
    /\ \A w \in Workers : todo[w] \subseteq {job[w]}
    /\ \A a \in Addresses, w \in Workers :
         lock[a] = w => job[w] = a /\ pc[w] \in {"ready", "matched", "writing"}

\* "`valid_until` is null while the classification is still current": the one
\* open period of an address is that of its row, and there is none without one.
Agrees(a) ==
    /\ ~row[a].iran => open[a] = {}
    /\ row[a].iran => \E h \in open[a] : open[a] = {h} /\ h.cidr = row[a].cidr
RowAgreesWithHistory == \A a \in Addresses : Agrees(a)

\* Only a commit that was decided from an outdated row can part the two.
RowAgreesUnlessStale == \A a \in Addresses \ stale : Agrees(a)

\* "One row per contiguous period": never two open periods of one address.
AtMostOneOpen == \A a \in Addresses : \A g, h \in open[a] : g = h

\* A scan without the lock adds at most one open period of its own: the worker
\* that holds the lock and each scan are all who can be writing.
OnePeriodPerWriter == \A a \in Addresses : Cardinality(open[a]) =< 1 + Cardinality(Scanners)

\* The re-run after WHOIS reaches the row: an address whose country is IR becomes
\* Iranian, unless a later answer says otherwise or its message was dropped on a
\* held lock, or an actor that read the row before the answer wrote last.
WhoisReachesIran == \A a \in Addresses :
    country[a] = "IR" ~> row[a].iran \/ country[a] # "IR" \/ a \in stale \cup missed
=============================================================================
