---------------------------- MODULE IranNetworks ----------------------------
(***************************************************************************)
(* country_networks and IranCIDRValidationService.run                      *)
(* (apps/iran/services.py) with its two providers                          *)
(* (apps/iran/providers.py), one row and one statement at a time, beside   *)
(* operators who add and toggle CIDRs and tasks that classify addresses.   *)
(* A run that dies is redelivered and starts again.                        *)
(*                                                                         *)
(* A CIDR is the set of the addresses it contains.  The history rows of a  *)
(* classification, and its races, are in IranClassify; here it is one step.*)
(***************************************************************************)
EXTENDS RipeStats

CONSTANTS Addresses,
          Cidrs,     \* the CIDRs there may be
          Feeds,     \* what the file of the registry may hold
          WhoisIran, \* addresses whose WHOIS country is IR
          Sources,   \* the providers that are run: a subset of {"manual", "ripencc"}
          MaxEvents, \* bound on runs, operators' actions and classifications
          MaxCrashes \* bound on the crashes

NoCidr == {}
Absent == [source |-> "none", enabled |-> FALSE]
NotIran == [iran |-> FALSE, cidr |-> NoCidr]

ASSUME NetworksAssumption ==
    /\ Cidrs \subseteq (SUBSET Addresses) \ {NoCidr}
    /\ \A c, d \in Cidrs : c \cap d \in {NoCidr, c, d}
    /\ \A f \in Feeds : f \subseteq Lines /\ IsFiniteSet(f) /\ Parse(f) \subseteq Cidrs
    /\ WhoisIran \subseteq Addresses
    /\ Sources \subseteq {"manual", "ripencc"}
    /\ MaxEvents \in Nat /\ MaxCrashes \in Nat

VARIABLES net,        \* country_networks: source and enabled, or Absent, by CIDR
          row,        \* IPAddress.is_iran and iran_match_cidr
          pc,         \* the validation run's position
          source,     \* provider.SOURCE
          fetched,    \* fetched_cidrs, complete once the loop is over
          todo,       \* entries, then addresses, still to visit
          changed,    \* created or disabled is not 0
          before,     \* the enabled CIDRs when the run was first started
          touched,    \* CIDRs an operator has acted on since
          cut,        \* it was killed after its UPDATE, with addresses to re-evaluate
          events, crashes

run == <<pc, source, fetched, todo, changed>>
vars == <<net, row, run, before, touched, cut, events, crashes>>

Present == {c \in Cidrs : net[c] # Absent}
Enabled == {c \in Cidrs : net[c].enabled}

\* IranCIDRService.classify's answer for an address.
Covering(a) == {c \in Enabled : a \in c}
Narrowest(a) == {c \in Covering(a) : \A d \in Covering(a) : c \subseteq d}
Verdicts(a) ==
    IF Covering(a) = {} THEN {[iran |-> a \in WhoisIran, cidr |-> NoCidr]}
                        ELSE {[iran |-> TRUE, cidr |-> c] : c \in Narrowest(a)}

Init ==
    /\ net = [c \in Cidrs |-> Absent]
    /\ row = [a \in Addresses |-> NotIran]
    /\ pc = "idle" /\ source = "manual" /\ fetched = {} /\ todo = {} /\ changed = FALSE
    /\ before = {} /\ touched = {} /\ cut = FALSE
    /\ events = 0 /\ crashes = 0

Event == events < MaxEvents /\ events' = events + 1

\* CountryNetworkForm.save: the source is the model's default.
Add(c) ==
    /\ Event
    /\ c \notin Present
    /\ net' = [net EXCEPT ![c] = [source |-> "manual", enabled |-> TRUE]]
    /\ touched' = touched \cup {c}
    /\ UNCHANGED <<row, run, before, cut, crashes>>

\* cidr_toggle_enabled
Toggle(c) ==
    /\ Event
    /\ c \in Present
    /\ net' = [net EXCEPT ![c].enabled = ~net[c].enabled]
    /\ touched' = touched \cup {c}
    /\ UNCHANGED <<row, run, before, cut, crashes>>

\* classify_ip for an address that is new, recalculated or just looked up.
Classify(a) ==
    /\ Event
    /\ \E v \in Verdicts(a) : row' = [row EXCEPT ![a] = v]
    /\ UNCHANGED <<net, run, before, touched, cut, crashes>>
-----------------------------------------------------------------------------
\* What a provider reports: the manual rows there are, or what RIPE lists.
Reports(s) == IF s = "manual" THEN {{c \in Present : net[c].source = "manual"}}
                              ELSE {Parse(f) : f \in Feeds}

\* run_monthly_iran_validation with any CIDR configured, or a run from a shell;
\* provider.fetch() has answered.
Start(s) ==
    /\ pc = "idle"
    /\ Event
    /\ source' = s
    /\ \E S \in Reports(s) : fetched' = S /\ todo' = S
    /\ changed' = FALSE
    /\ pc' = "upsert"
    /\ before' = Enabled /\ touched' = {}
    /\ UNCHANGED <<net, row, cut, crashes>>

\* The same run, redelivered.
Restart ==
    /\ pc = "dead"
    /\ \E S \in Reports(source) : fetched' = S /\ todo' = S
    /\ changed' = FALSE
    /\ pc' = "upsert"
    /\ UNCHANGED <<net, row, source, before, touched, cut, events, crashes>>

\* Mutant of Upsert: an existing row is only stamped.
UpsertStamp(c) ==
    /\ pc = "upsert" /\ c \in todo
    /\ net' = [net EXCEPT ![c] = IF c \in Present THEN net[c] ELSE [source |-> source, enabled |-> TRUE]]
    /\ changed' = (changed \/ c \notin Present)
    /\ todo' = todo \ {c}
    /\ UNCHANGED <<row, pc, source, fetched, before, touched, cut, events, crashes>>

\* update_or_create on (country_code, cidr), source and enabled in the defaults.
Upsert(c) ==
    /\ pc = "upsert" /\ c \in todo
    /\ net' = [net EXCEPT ![c] = [source |-> source, enabled |-> TRUE]]
    /\ changed' = (changed \/ c \notin Present)
    /\ todo' = todo \ {c}
    /\ UNCHANGED <<row, pc, source, fetched, before, touched, cut, events, crashes>>

\* Mutant of Disable: disabled is not counted.
DisableUncounted ==
    LET gone == {c \in Enabled : net[c].source = source /\ c \notin fetched} IN
    /\ pc = "upsert" /\ todo = {}
    /\ net' = [c \in Cidrs |-> IF c \in gone THEN [net[c] EXCEPT !.enabled = FALSE] ELSE net[c]]
    /\ pc' = "check"
    /\ UNCHANGED <<row, source, fetched, todo, changed, before, touched, cut, events, crashes>>

\* removed_qs.update(enabled=False)
Disable ==
    LET gone == {c \in Enabled : net[c].source = source /\ c \notin fetched} IN
    /\ pc = "upsert" /\ todo = {}
    /\ net' = [c \in Cidrs |-> IF c \in gone THEN [net[c] EXCEPT !.enabled = FALSE] ELSE net[c]]
    /\ changed' = (changed \/ gone # {})
    /\ pc' = "check"
    /\ UNCHANGED <<row, source, fetched, todo, before, touched, cut, events, crashes>>

\* if created or disabled: the addresses flagged now.
Check ==
    /\ pc = "check"
    /\ todo' = IF changed THEN {a \in Addresses : row[a].iran} ELSE {}
    /\ pc' = "scan"
    /\ UNCHANGED <<net, row, source, fetched, changed, before, touched, cut, events, crashes>>

Reclassify(a) ==
    /\ pc = "scan" /\ a \in todo
    /\ \E v \in Verdicts(a) : row' = [row EXCEPT ![a] = v]
    /\ todo' = todo \ {a}
    /\ UNCHANGED <<net, pc, source, fetched, changed, before, touched, cut, events, crashes>>

Finish ==
    /\ pc = "scan" /\ todo = {}
    /\ pc' = "done"
    /\ UNCHANGED <<net, row, source, fetched, todo, changed, before, touched, cut, events, crashes>>

\* The task returns, and the worker is free for the next run.
Return ==
    /\ pc = "done"
    /\ pc' = "idle" /\ fetched' = {} /\ changed' = FALSE
    /\ cut' = FALSE
    /\ UNCHANGED <<net, row, source, todo, before, touched, events, crashes>>

\* What is written stays, what is counted does not.
Crash ==
    /\ pc \in {"upsert", "check", "scan"}
    /\ crashes < MaxCrashes /\ crashes' = crashes + 1
    /\ cut' = (cut \/ (pc # "upsert" /\ changed))
    /\ pc' = "dead" /\ fetched' = {} /\ todo' = {} /\ changed' = FALSE
    /\ UNCHANGED <<net, row, source, before, touched, events>>

Next ==
    \/ \E c \in Cidrs : Add(c) \/ Toggle(c) \/ Upsert(c)
    \/ \E a \in Addresses : Classify(a) \/ Reclassify(a)
    \/ \E s \in Sources : Start(s)
    \/ Restart \/ Disable \/ Check \/ Finish \/ Return \/ Crash

Spec == Init /\ [][Next]_vars
-----------------------------------------------------------------------------
\* The shape of the state; todo is what the current loop has left.
TypeOK ==
    /\ net \in [Cidrs -> [source : {"none", "manual", "ripencc"}, enabled : BOOLEAN]]
    /\ row \in [Addresses -> [iran : BOOLEAN, cidr : Cidrs \cup {NoCidr}]]
    /\ pc \in {"idle", "dead", "upsert", "check", "scan", "done"}
    /\ source \in {"manual", "ripencc"}
    /\ fetched \subseteq Cidrs /\ before \subseteq Cidrs /\ touched \subseteq Cidrs
    /\ changed \in BOOLEAN /\ cut \in BOOLEAN
    /\ pc = "upsert" => todo \subseteq fetched
    /\ pc = "scan" => todo \subseteq Addresses
    /\ pc \notin {"upsert", "scan"} => todo = {}
    /\ events \in Nat /\ crashes \in Nat

\* "disable entries the source no longer reports": when a run ends, whatever
\* crashed on the way, the enabled rows of its source are those it reported,
\* but for the ones an operator touched meanwhile.
OwnRowsFollowTheSource ==
    pc = "done" => \A c \in Present \ touched :
        net[c].source = source => (net[c].enabled <=> c \in fetched)

\* "converted to the minimal covering CIDR block(s)": when a run of the registry's
\* file ends, the rows of that source cover the addresses the file delegates to
\* Iran and no others, in as few networks as can be.
RowsCoverTheDelegated ==
    pc = "done" /\ source = "ripencc" /\ touched = {} =>
      LET rows == {c \in Enabled : net[c].source = source} IN
      \A f \in Feeds : fetched = Parse(f) =>
        /\ UNION rows = Delegated(f)
        /\ Cardinality(f) = 1 =>
             \A c, d \in rows : c # d => c \cup d \notin Networks("ipv4") \cup Networks("ipv6")

\* "disable entries the source no longer reports, then re-evaluate every IP
\* currently flagged Iranian": no address keeps a CIDR that the run took away.
DroppedCidrsLeft ==
    pc = "done" => \A a \in Addresses :
        row[a].iran => row[a].cidr \notin (before \ Enabled) \ touched

\* So it is unless this run was killed after it had disabled what the source dropped:
\* its redelivery finds nothing left to disable.  Killed before, it starts over.
DroppedCidrsLeftUnlessCrash == ~cut => DroppedCidrsLeft
=============================================================================
