---------------------------- MODULE WhoisLookup -----------------------------
(***************************************************************************)
(* perform_whois_lookup (apps/whois/tasks.py) for one address: the         *)
(* messages asked for by process_new_ip and by the "Force WHOIS" button,   *)
(* several workers, retries, redelivery after a crash, and the lock        *)
(* whois:<address>.                                                        *)
(*                                                                         *)
(* A message is <<r, n>>: request r at its n-th retry.  WhoisAnswer reads  *)
(* the answers; the organisation's columns are left out.  A retry is due 30 s later at the earliest, so no  *)
(* worker takes it before its sender has left the body; how much later it  *)
(* comes makes no difference.  The purge of the address is left out.       *)
(***************************************************************************)
EXTENDS WhoisAnswer

CONSTANTS Workers, Free, Orphan,
          Requests,   \* the lookups that are asked for
          MaxRetries, \* MAX_RETRIES
          MaxWeeks,   \* bound on the times the answer grows stale
          MaxCrashes  \* bound on the crashes

Answers == [kind : {"ok"}, response : Responses] \cup [kind : {"retryable", "final"}, response : {<<>>}]
Messages == Requests \X (0..MaxRetries)

ASSUME WhoisAssumption ==
    /\ Free # Orphan /\ Free \notin Workers /\ Orphan \notin Workers
    /\ Requests # {}
    /\ MaxRetries \in Nat /\ MaxWeeks \in Nat /\ MaxCrashes \in Nat

VARIABLES row,       \* IPAddress: whois_status, whois_country, whois_next_check_at > now
          records,   \* WhoisRecord rows
          lock,      \* redis_lock("whois:<address>")
          asked,     \* requests made so far
          forced,    \* force, per request
          waiting,   \* copies of each message in the queue
          pc, job,   \* per worker: position, message in hand
          answer,    \* per worker: what WhoisService.lookup returned
          net,       \* IPAddress: asn and cidr
          copy,      \* per worker: net as the task read it, before the lock
          named,     \* the latest answers saved that named an origin and an inetnum
          outdated,  \* a save put back an older ASN or CIDR
          queries,   \* answers obtained, per request
          unheard,   \* a country is in the row that no classify_ip has been sent for
          lost,      \* the worker that was to send it was killed
          repeated,  \* requests with a message in the hands of a worker that was killed
          weeks, crashes

queue == <<asked, forced, waiting>>
ghosts == <<queries, unheard, lost, repeated>>
columns == <<net, named, outdated>>
vars == <<row, records, lock, queue, pc, job, answer, copy, columns, ghosts, weeks, crashes>>

\* A worker with nothing in hand; these are not read.
AnyMessage == CHOOSE m \in Messages : TRUE
NoAnswer == [kind |-> "final", response |-> <<>>]
NoNet == [asn |-> NoAsn, cidr |-> NoCidr]

Init ==
    /\ row = [status |-> "never", country |-> "", fresh |-> FALSE]
    /\ records = 0 /\ lock = Free
    /\ asked = {} /\ forced = [r \in Requests |-> FALSE]
    /\ waiting = [m \in Messages |-> 0]
    /\ pc = [w \in Workers |-> "idle"]
    /\ job = [w \in Workers |-> AnyMessage]
    /\ answer = [w \in Workers |-> NoAnswer]
    /\ net = NoNet /\ copy = [w \in Workers |-> NoNet]
    /\ named = [origin |-> <<>>, inetnum |-> <<>>] /\ outdated = FALSE
    /\ queries = [r \in Requests |-> 0] /\ unheard = FALSE /\ lost = FALSE /\ repeated = {}
    /\ weeks = 0 /\ crashes = 0
-----------------------------------------------------------------------------
\* process_new_ip, which may be run twice, or force_whois.
Ask(r, force) ==
    /\ r \notin asked
    /\ asked' = asked \cup {r}
    /\ forced' = [forced EXCEPT ![r] = force]
    /\ waiting' = [waiting EXCEPT ![<<r, 0>>] = @ + 1]
    /\ UNCHANGED <<row, records, lock, pc, job, answer, copy, columns, ghosts, weeks, crashes>>

\* WHOIS_CACHE_DAYS pass.
Week ==
    /\ row.fresh
    /\ weeks < MaxWeeks /\ weeks' = weeks + 1
    /\ row' = [row EXCEPT !.fresh = FALSE]
    /\ UNCHANGED <<records, lock, queue, pc, job, answer, copy, columns, ghosts, crashes>>
-----------------------------------------------------------------------------
Due(m) == waiting[m] > 0 /\ \A v \in Workers : pc[v] = "leaving" => job[v][1] # m[1]

Forget(w) ==
    /\ job' = [job EXCEPT ![w] = AnyMessage]
    /\ answer' = [answer EXCEPT ![w] = NoAnswer]
    /\ copy' = [copy EXCEPT ![w] = NoNet]

\* The row is read, before the lock, and a lookup is wanted.
Load(w, m) ==
    /\ pc[w] = "idle" /\ Due(m)
    /\ forced[m[1]] \/ ~row.fresh
    /\ waiting' = [waiting EXCEPT ![m] = @ - 1]
    /\ job' = [job EXCEPT ![w] = m]
    /\ copy' = [copy EXCEPT ![w] = net]
    /\ pc' = [pc EXCEPT ![w] = "loaded"]
    /\ UNCHANGED <<row, records, lock, asked, forced, answer, columns, ghosts, weeks, crashes>>

\* "still fresh, skipping"
Fresh(w, m) ==
    /\ pc[w] = "idle" /\ Due(m)
    /\ ~forced[m[1]] /\ row.fresh
    /\ waiting' = [waiting EXCEPT ![m] = @ - 1]
    /\ UNCHANGED <<row, records, lock, asked, forced, pc, job, answer, copy, columns, ghosts, weeks, crashes>>

\* Mutant of Lock: the lookup runs whether or not another task holds the key.
LockAnyway(w) ==
    /\ pc[w] = "loaded"
    /\ lock' = w
    /\ pc' = [pc EXCEPT ![w] = "locked"]
    /\ UNCHANGED <<row, records, queue, job, answer, copy, columns, ghosts, weeks, crashes>>

Lock(w) ==
    /\ pc[w] = "loaded" /\ lock = Free
    /\ lock' = w
    /\ pc' = [pc EXCEPT ![w] = "locked"]
    /\ UNCHANGED <<row, records, queue, job, answer, copy, columns, ghosts, weeks, crashes>>

\* LockHeldError: "already being looked up, skipping".
Skip(w) ==
    /\ pc[w] = "loaded" /\ lock # Free
    /\ pc' = [pc EXCEPT ![w] = "idle"]
    /\ Forget(w)
    /\ UNCHANGED <<row, records, lock, queue, columns, ghosts, weeks, crashes>>

\* WhoisService.lookup: the whois process answers, fails or times out.
Lookup(w) ==
    /\ pc[w] = "locked"
    /\ \E x \in Answers : answer' = [answer EXCEPT ![w] = x]
    /\ queries' = [queries EXCEPT ![job[w][1]] = @ + 1]
    /\ pc' = [pc EXCEPT ![w] = "answered"]
    /\ UNCHANGED <<row, records, lock, queue, job, copy, columns, unheard, lost, repeated, weeks, crashes>>

\* Mutant of Retried: a new task, whose retries are counted from 0.
RetriedAfresh(m) == <<m[1], 0>>

\* The same task, one retry on.
Retried(m) == <<m[1], m[2] + 1>>

\* raise task.retry(countdown=...): the message is sent and the body left.
Retry(w) ==
    /\ pc[w] = "answered" /\ answer[w].kind = "retryable" /\ job[w][2] < MaxRetries
    /\ waiting' = [waiting EXCEPT ![Retried(job[w])] = @ + 1]
    /\ pc' = [pc EXCEPT ![w] = "leaving"]
    /\ UNCHANGED <<row, records, lock, asked, forced, job, answer, copy, columns, ghosts, weeks, crashes>>

\* Mutant of GiveUp: the body is left with nothing saved.
GiveUpSilently(w) ==
    /\ pc[w] = "answered"
    /\ \/ answer[w].kind = "final"
       \/ answer[w].kind = "retryable" /\ job[w][2] = MaxRetries
    /\ pc' = [pc EXCEPT ![w] = "leaving"]
    /\ UNCHANGED <<row, records, lock, queue, job, answer, copy, columns, ghosts, weeks, crashes>>

\* The error is saved, with a full cache window before the next try.
GiveUp(w) ==
    /\ pc[w] = "answered"
    /\ \/ answer[w].kind = "final"
       \/ answer[w].kind = "retryable" /\ job[w][2] = MaxRetries
    /\ row' = [row EXCEPT !.status = "error", !.fresh = TRUE]
    /\ pc' = [pc EXCEPT ![w] = "leaving"]
    /\ UNCHANGED <<records, lock, queue, job, answer, copy, columns, ghosts, weeks, crashes>>

\* WhoisRecord.objects.create
Record(w) ==
    /\ pc[w] = "answered" /\ answer[w].kind = "ok"
    /\ records' = records + 1
    /\ pc' = [pc EXCEPT ![w] = "recorded"]
    /\ UNCHANGED <<row, lock, queue, job, answer, copy, columns, ghosts, weeks, crashes>>

\* The assignments to asn and cidr.
Overwrite(w) ==
    LET r == answer[w].response IN
    /\ net' = [asn |-> Asn(r, copy[w].asn), cidr |-> Cidr(r, copy[w].cidr)]
    /\ named' = [origin |-> IF Names(r, "origin") THEN r ELSE named.origin,
                 inetnum |-> IF Names(r, "inetnum") THEN r ELSE named.inetnum]
    /\ outdated' = \/ outdated
                   \/ ~Names(r, "origin") /\ copy[w].asn # net.asn
                   \/ ~Names(r, "inetnum") /\ copy[w].cidr # net.cidr

\* Mutant of Save: the body is left before the classification is enqueued.
SaveAndLeave(w) ==
    LET country == Country(answer[w].response) IN
    /\ pc[w] = "recorded"
    /\ row' = [status |-> "ok", country |-> country, fresh |-> TRUE]
    /\ Overwrite(w)
    /\ unheard' = (country # "") /\ lost' = FALSE
    /\ pc' = [pc EXCEPT ![w] = "leaving"]
    /\ UNCHANGED <<records, lock, queue, job, answer, copy, queries, repeated, weeks, crashes>>

\* ip.save(update_fields=[...])
Save(w) ==
    LET country == Country(answer[w].response) IN
    /\ pc[w] = "recorded"
    /\ row' = [status |-> "ok", country |-> country, fresh |-> TRUE]
    /\ Overwrite(w)
    /\ unheard' = (country # "") /\ lost' = FALSE
    /\ pc' = [pc EXCEPT ![w] = IF country = "" THEN "leaving" ELSE "saved"]
    /\ UNCHANGED <<records, lock, queue, job, answer, copy, queries, repeated, weeks, crashes>>

\* classify_ip.delay(ip.id), which will read the row as it is then.
Classify(w) ==
    /\ pc[w] = "saved"
    /\ unheard' = FALSE
    /\ pc' = [pc EXCEPT ![w] = "leaving"]
    /\ UNCHANGED <<row, records, lock, queue, job, answer, copy, columns, queries, lost, repeated, weeks, crashes>>

\* The `finally` of redis_lock, for a return and for the Retry exception.
Unlock(w) ==
    /\ pc[w] = "leaving"
    /\ lock' = Free
    /\ pc' = [pc EXCEPT ![w] = "idle"]
    /\ Forget(w)
    /\ UNCHANGED <<row, records, queue, columns, ghosts, weeks, crashes>>

\* The worker is killed: its message comes again, its key stays.
Crash(w) ==
    /\ pc[w] # "idle"
    /\ crashes < MaxCrashes /\ crashes' = crashes + 1
    /\ waiting' = [waiting EXCEPT ![job[w]] = @ + 1]
    /\ lock' = IF lock = w THEN Orphan ELSE lock
    /\ lost' = (lost \/ pc[w] = "saved") /\ repeated' = repeated \cup {job[w][1]}
    /\ pc' = [pc EXCEPT ![w] = "idle"]
    /\ Forget(w)
    /\ UNCHANGED <<row, records, asked, forced, columns, queries, unheard, weeks>>

\* WHOIS_TIMEOUT + 30 seconds are more than a lookup, cut off at WHOIS_TIMEOUT, takes.
Expire ==
    /\ lock = Orphan
    /\ lock' = Free
    /\ UNCHANGED <<row, records, queue, pc, job, answer, copy, columns, ghosts, weeks, crashes>>

Step(w) ==
    \/ \E m \in Messages : Load(w, m) \/ Fresh(w, m)
    \/ Lock(w) \/ Skip(w) \/ Lookup(w) \/ Retry(w) \/ GiveUp(w) \/ Record(w) \/ Save(w)
    \/ Classify(w) \/ Unlock(w)

Next ==
    \/ \E r \in Requests, force \in BOOLEAN : Ask(r, force)
    \/ Week \/ Expire
    \/ \E w \in Workers : Step(w) \/ Crash(w)

Spec == Init /\ [][Next]_vars

\* Workers take what is queued and finish what they took.
FairSpec == Spec /\ WF_vars(Expire) /\ \A w \in Workers : WF_vars(Step(w))
-----------------------------------------------------------------------------
InBody(w) == pc[w] \in {"locked", "answered", "recorded", "saved", "leaving"}

Heard == Responses \cup {<<>>}
Countries == {Country(r) : r \in Heard} \cup {""}
Nets == [asn : {Asn(r, NoAsn) : r \in Heard} \cup {NoAsn},
         cidr : {Cidr(r, NoCidr) : r \in Heard} \cup {NoCidr}]

\* The shape of the state; a worker's key stands for a worker in the body.
TypeOK ==
    /\ row \in [status : {"never", "ok", "error"}, country : Countries, fresh : BOOLEAN]
    /\ records \in Nat /\ unheard \in BOOLEAN /\ lost \in BOOLEAN
    /\ lock \in {w \in Workers : InBody(w)} \cup {Free, Orphan}
    /\ asked \subseteq Requests /\ forced \in [Requests -> BOOLEAN]
    /\ waiting \in [Messages -> Nat]
    /\ pc \in [Workers -> {"idle", "loaded", "locked", "answered", "recorded", "saved", "leaving"}]
    /\ job \in [Workers -> Messages]
    /\ answer \in [Workers -> Answers]
    /\ net \in Nets /\ copy \in [Workers -> Nets]
    /\ named \in [origin : Heard, inetnum : Heard]
    /\ outdated \in BOOLEAN
    /\ queries \in [Requests -> Nat] /\ repeated \subseteq Requests
    /\ weeks \in Nat /\ crashes \in Nat

\* "never lets two lookups run for the same IP at once"
OneLookupAtATime == \A v, w \in Workers : InBody(v) /\ InBody(w) => v = w

\* "retries transient failures" MAX_RETRIES times, then gives up: a request
\* whose messages no crash repeats asks the registry at most MAX_RETRIES + 1 times.
QueriesBounded == \A r \in Requests \ repeated : queries[r] =< MaxRetries + 1

\* The classification "isn't silently lost": a country that is in the row and no
\* classification has been enqueued for is about to be announced, unless the one
\* worker that was about to has been killed, after which the redelivered task finds a
\* fresh row and the country waits for the next answer.
CountryAnnounced == unheard /\ ~lost => \E w \in Workers : pc[w] = "saved"

\* An answer without an origin or an inetnum, an error, a retry or a crash leaves
\* the ASN and CIDR of the latest answer that had one, unless a task read the row
\* before another one's save and put back what it had read.
NetworkKept ==
    ~outdated => net = [asn |-> Asn(named.origin, NoAsn), cidr |-> Cidr(named.inetnum, NoCidr)]

\* Once it has been asked for, a lookup ends with an answer or an error in the
\* row, unless a worker is killed: the redelivered task meets the orphaned key
\* and is skipped.
SettledUnlessCrash == asked # {} ~> (row.status # "never" \/ crashes > 0)
=============================================================================
