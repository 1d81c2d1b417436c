------------------------- MODULE WhoisLookup_proofs -------------------------
(***************************************************************************)
(* Proofs about WhoisLookup for any workers, requests, retries and bounds. *)
(***************************************************************************)
EXTENDS WhoisLookup, TLAPS

LEMMA MessageParts ==
    ASSUME NEW m \in Messages
    PROVE  m[1] \in Requests /\ m[2] \in 0..MaxRetries /\ m = <<m[1], m[2]>>
  BY DEF Messages

LEMMA AnyTyped == AnyMessage \in Messages /\ NoAnswer \in Answers
<1>1. Messages # {}
  <2>1. PICK r \in Requests : TRUE
    BY WhoisAssumption
  <2>2. <<r, 0>> \in Messages
    BY WhoisAssumption DEF Messages
  <2> QED BY <2>2
<1>2. AnyMessage \in Messages
  BY <1>1 DEF AnyMessage
<1> QED BY <1>2 DEF NoAnswer, Answers

Row == [status : {"never", "ok", "error"}, country : Countries, fresh : BOOLEAN]
Places == {"idle", "loaded", "locked", "answered", "recorded", "saved", "leaving"}

\* TypeOK in parts: what a worker holds, and the rest.
LocalOK ==
    /\ pc \in [Workers -> Places]
    /\ job \in [Workers -> Messages]
    /\ answer \in [Workers -> Answers]
SharedOK ==
    /\ row \in Row
    /\ records \in Nat /\ unheard \in BOOLEAN /\ lost \in BOOLEAN
    /\ asked \subseteq Requests /\ forced \in [Requests -> BOOLEAN]
    /\ waiting \in [Messages -> Nat]
    /\ queries \in [Requests -> Nat] /\ repeated \subseteq Requests
    /\ weeks \in Nat /\ crashes \in Nat
ColumnsOK ==
    /\ net \in Nets /\ copy \in [Workers -> Nets]
    /\ named \in [origin : Heard, inetnum : Heard]
    /\ outdated \in BOOLEAN
LockOK == lock \in {w \in Workers : InBody(w)} \cup {Free, Orphan}

LEMMA Parts == TypeOK <=> LocalOK /\ SharedOK /\ ColumnsOK /\ LockOK
  BY DEF TypeOK, LocalOK, SharedOK, ColumnsOK, LockOK, Row, Places

LEMMA PartsNext == TypeOK' <=> LocalOK' /\ SharedOK' /\ ColumnsOK' /\ LockOK'
  BY DEF TypeOK, LocalOK, SharedOK, ColumnsOK, LockOK, Row, Places

LEMMA Init1 == Init => TypeOK
<1> SUFFICES ASSUME Init PROVE LocalOK /\ SharedOK /\ ColumnsOK /\ LockOK
  BY Parts
<1>1. LocalOK
  BY AnyTyped DEF Init, LocalOK, Places
<1>2. SharedOK
  BY WhoisAssumption DEF Init, SharedOK, Row, Countries
<1>3. LockOK
  BY DEF Init, LockOK
<1>4. ColumnsOK
  BY DEF Init, ColumnsOK, Nets, NoNet, Heard
<1> QED BY <1>1, <1>2, <1>3, <1>4

LEMMA LocalStep == ASSUME TypeOK, [Next]_vars PROVE LocalOK'
<1> USE Parts, AnyTyped
<1>1. ASSUME NEW w \in Workers, Step(w) \/ Crash(w) PROVE LocalOK'
  <2>1. ASSUME NEW m \in Messages, Load(w, m) \/ Fresh(w, m) PROVE LocalOK'
    BY <2>1 DEF Load, Fresh, LocalOK, Places
  <2>2. CASE Lock(w) \/ Skip(w) \/ Unlock(w) \/ Crash(w)
    BY <2>2 DEF Lock, Skip, Unlock, Crash, Forget, LocalOK, Places
  <2>3. CASE Lookup(w)
    BY <2>3 DEF Lookup, LocalOK, Places
  <2>4. CASE Retry(w) \/ GiveUp(w) \/ Record(w) \/ Save(w) \/ Classify(w)
    BY <2>4 DEF Retry, GiveUp, Record, Save, Classify, LocalOK, Places
  <2> QED BY <1>1, <2>1, <2>2, <2>3, <2>4 DEF Step
<1>2. ASSUME NEW r \in Requests, NEW force \in BOOLEAN, Ask(r, force) PROVE LocalOK'
  BY <1>2 DEF Ask, LocalOK
<1>3. CASE Week \/ Expire \/ UNCHANGED vars
  BY <1>3 DEF Week, Expire, vars, LocalOK
<1> QED BY <1>1, <1>2, <1>3 DEF Next

LEMMA AnswerHeard == ASSUME NEW x \in Answers PROVE x.response \in Heard
  BY DEF Answers, Heard

LEMMA AssignedNet ==
    ASSUME NEW r \in Heard, NEW old \in Nets
    PROVE  [asn |-> Asn(r, old.asn), cidr |-> Cidr(r, old.cidr)] \in Nets
<1>1. Asn(r, old.asn) \in {Asn(x, NoAsn) : x \in Heard} \cup {NoAsn}
  <2>1. CASE Names(r, "origin")
    <3>1. Asn(r, old.asn) = Asn(r, NoAsn)
      BY <2>1 DEF Asn
    <3> QED BY <3>1
  <2>2. CASE ~Names(r, "origin")
    BY <2>2 DEF Asn, Nets
  <2> QED BY <2>1, <2>2
<1>2. Cidr(r, old.cidr) \in {Cidr(x, NoCidr) : x \in Heard} \cup {NoCidr}
  <2>1. CASE Names(r, "inetnum")
    <3>1. Cidr(r, old.cidr) = Cidr(r, NoCidr)
      BY <2>1 DEF Cidr
    <3> QED BY <3>1
  <2>2. CASE ~Names(r, "inetnum")
    BY <2>2 DEF Cidr, Nets
  <2> QED BY <2>1, <2>2
<1> QED BY <1>1, <1>2 DEF Nets

LEMMA ColumnsStep == ASSUME TypeOK, [Next]_vars PROVE ColumnsOK'
<1> USE Parts
<1>0. NoNet \in Nets
  BY DEF NoNet, Nets
<1>1. ASSUME NEW w \in Workers, Step(w) \/ Crash(w) PROVE ColumnsOK'
  <2>1. ASSUME NEW m \in Messages, Load(w, m) \/ Fresh(w, m) PROVE ColumnsOK'
    BY <2>1 DEF Load, Fresh, columns, ColumnsOK
  <2>2. CASE Skip(w) \/ Unlock(w) \/ Crash(w)
    BY <1>0, <2>2 DEF Skip, Unlock, Crash, Forget, columns, ColumnsOK
  <2>3. CASE Lock(w) \/ Lookup(w) \/ Retry(w) \/ GiveUp(w) \/ Record(w) \/ Classify(w)
    BY <2>3 DEF Lock, Lookup, Retry, GiveUp, Record, Classify, columns, ColumnsOK
  <2>4. CASE Save(w)
    <3> DEFINE r == answer[w].response
    <3>1. r \in Heard
      BY AnswerHeard DEF LocalOK
    <3>2. /\ net' = [asn |-> Asn(r, copy[w].asn), cidr |-> Cidr(r, copy[w].cidr)]
          /\ named' = [origin |-> IF Names(r, "origin") THEN r ELSE named.origin,
                       inetnum |-> IF Names(r, "inetnum") THEN r ELSE named.inetnum]
          /\ copy' = copy
      BY <2>4 DEF Save, Overwrite
    <3>3. outdated' \in BOOLEAN
      BY <2>4, Zenon DEF Save, Overwrite
    <3>4. copy[w] \in Nets /\ named.origin \in Heard /\ named.inetnum \in Heard
      BY DEF ColumnsOK
    <3> HIDE DEF r
    <3>5. net' \in Nets
      BY <3>1, <3>2, <3>4, AssignedNet
    <3>6. named' \in [origin : Heard, inetnum : Heard]
      BY <3>1, <3>2, <3>4
    <3> QED BY <3>2, <3>3, <3>5, <3>6 DEF ColumnsOK
  <2> QED BY <1>1, <2>1, <2>2, <2>3, <2>4 DEF Step
<1>2. ASSUME NEW r \in Requests, NEW force \in BOOLEAN, Ask(r, force) PROVE ColumnsOK'
  BY <1>2 DEF Ask, columns, ColumnsOK
<1>3. CASE Week \/ Expire \/ UNCHANGED vars
  BY <1>3 DEF Week, Expire, vars, columns, ColumnsOK
<1> QED BY <1>1, <1>2, <1>3 DEF Next

LEMMA SharedStep == ASSUME TypeOK, [Next]_vars PROVE SharedOK'
<1> USE Parts
<1>1. ASSUME NEW w \in Workers, Step(w) \/ Crash(w) PROVE SharedOK'
  <2>0. job[w] \in Messages /\ answer[w] \in Answers
    BY DEF LocalOK
  <2>1. ASSUME NEW m \in Messages, Load(w, m) \/ Fresh(w, m) PROVE SharedOK'
    <3>1. waiting' \in [Messages -> Nat]
      BY <2>1 DEF Load, Fresh, Due, SharedOK
    <3>2. UNCHANGED <<row, records, asked, forced, ghosts, weeks, crashes>>
      BY <2>1 DEF Load, Fresh
    <3> QED BY <3>1, <3>2 DEF ghosts, SharedOK
  <2>2. CASE Lock(w) \/ Skip(w) \/ Unlock(w)
    BY <2>2 DEF Lock, Skip, Unlock, queue, ghosts, SharedOK
  <2>3. CASE Lookup(w)
    <3>1. job[w][1] \in Requests
      BY <2>0, MessageParts
    <3> QED BY <2>3, <3>1 DEF Lookup, queue, SharedOK
  <2>4. CASE Retry(w) \/ Crash(w)
    <3>1. waiting' \in [Messages -> Nat]
      BY <2>4 DEF Retry, Crash, SharedOK
    <3>2. crashes' \in Nat
      BY <2>4 DEF Retry, Crash, SharedOK
    <3>3. lost' \in BOOLEAN
      BY <2>4, Zenon DEF Retry, Crash, ghosts, SharedOK
    <3>4. repeated' \subseteq Requests
      <4>1. job[w][1] \in Requests
        BY <2>0, MessageParts
      <4> QED BY <2>4, <4>1 DEF Retry, Crash, ghosts, SharedOK
    <3> QED BY <2>4, <3>1, <3>2, <3>3, <3>4 DEF Retry, Crash, ghosts, SharedOK
  <2>5. CASE GiveUp(w)
    <3>1. row' \in Row
      BY <2>5 DEF GiveUp, SharedOK, Row
    <3> QED BY <2>5, <3>1 DEF GiveUp, queue, ghosts, SharedOK
  <2>6. CASE Record(w) \/ Classify(w)
    <3>1. /\ UNCHANGED <<row, queue, queries, repeated, weeks, crashes>>
          /\ records' \in {records, records + 1} /\ unheard' \in {unheard, FALSE} /\ lost' = lost
      BY <2>6 DEF Record, Classify, ghosts
    <3>2. records' \in Nat
      BY <3>1 DEF SharedOK
    <3>3. unheard' \in BOOLEAN /\ lost' \in BOOLEAN
      BY <3>1, Zenon DEF SharedOK
    <3> QED BY <3>1, <3>2, <3>3 DEF queue, SharedOK
  <2>7. CASE Save(w)
    <3> DEFINE country == Country(answer[w].response)
    <3>0. pc[w] = "recorded" /\ row' = [status |-> "ok", country |-> country, fresh |-> TRUE]
      BY <2>7 DEF Save
    <3>1. country \in Countries
      BY <2>0, AnswerHeard DEF Countries
    <3>2. row' \in Row
      BY <3>0, <3>1 DEF Row
    <3>3. unheard' \in BOOLEAN /\ lost' \in BOOLEAN
      BY <2>7, Zenon DEF Save
    <3>4. UNCHANGED <<records, queue, queries, repeated, weeks, crashes>>
      BY <2>7 DEF Save
    <3> QED BY <3>2, <3>3, <3>4 DEF queue, SharedOK
  <2> QED BY <1>1, <2>1, <2>2, <2>3, <2>4, <2>5, <2>6, <2>7 DEF Step
<1>2. ASSUME NEW r \in Requests, NEW force \in BOOLEAN, Ask(r, force) PROVE SharedOK'
  <2>1. /\ UNCHANGED <<row, records, ghosts, weeks, crashes>>
        /\ asked' = asked \cup {r} /\ forced' = [forced EXCEPT ![r] = force]
        /\ waiting' = [waiting EXCEPT ![<<r, 0>>] = waiting[<<r, 0>>] + 1]
    BY <1>2 DEF Ask
  <2>2. <<r, 0>> \in Messages
    BY WhoisAssumption DEF Messages
  <2>3. waiting' \in [Messages -> Nat]
    BY <2>1, <2>2 DEF SharedOK
  <2>4. asked' \subseteq Requests /\ forced' \in [Requests -> BOOLEAN]
    BY <2>1 DEF SharedOK
  <2> QED BY <2>1, <2>3, <2>4 DEF ghosts, SharedOK
<1>3. CASE Week \/ Expire \/ UNCHANGED vars
  <2>1. row' \in Row
    BY <1>3 DEF Week, Expire, vars, SharedOK, Row
  <2> QED BY <1>3, <2>1 DEF Week, Expire, vars, queue, ghosts, SharedOK
<1> QED BY <1>1, <1>2, <1>3 DEF Next

\* A worker in the body holds the key.
BodyHoldsKey == \A w \in Workers : InBody(w) => lock = w

LEMMA LockStep == ASSUME TypeOK, BodyHoldsKey, [Next]_vars PROVE (LockOK /\ BodyHoldsKey)'
<1> USE Parts, WhoisAssumption
<1>1. ASSUME NEW w \in Workers, Step(w) \/ Crash(w) PROVE (LockOK /\ BodyHoldsKey)'
  <2>1. ASSUME NEW m \in Messages, Load(w, m) \/ Fresh(w, m) PROVE (LockOK /\ BodyHoldsKey)'
    BY <2>1 DEF Load, Fresh, LockOK, BodyHoldsKey, InBody, LocalOK
  <2>2. CASE Lock(w)
    BY <2>2 DEF Lock, LockOK, BodyHoldsKey, InBody, LocalOK
  <2>3. CASE Skip(w) \/ Unlock(w) \/ Crash(w)
    BY <2>3 DEF Skip, Unlock, Crash, LockOK, BodyHoldsKey, InBody, LocalOK
  <2>4. CASE Lookup(w) \/ Retry(w) \/ GiveUp(w) \/ Record(w) \/ Save(w) \/ Classify(w)
    <3>1. /\ lock' = lock /\ InBody(w) /\ pc'[w] \in Places \ {"idle", "loaded"}
          /\ \A v \in Workers \ {w} : pc'[v] = pc[v]
      BY <2>4 DEF Lookup, Retry, GiveUp, Record, Save, Classify, InBody, LocalOK, Places
    <3> QED BY <3>1 DEF LockOK, BodyHoldsKey, InBody, Places
  <2> QED BY <1>1, <2>1, <2>2, <2>3, <2>4 DEF Step
<1>2. ASSUME NEW r \in Requests, NEW force \in BOOLEAN, Ask(r, force) PROVE (LockOK /\ BodyHoldsKey)'
  BY <1>2 DEF Ask, LockOK, BodyHoldsKey, InBody
<1>3. CASE Week \/ Expire \/ UNCHANGED vars
  BY <1>3 DEF Week, Expire, vars, LockOK, BodyHoldsKey, InBody
<1> QED BY <1>1, <1>2, <1>3 DEF Next

IInv == TypeOK /\ BodyHoldsKey

LEMMA IInvInvariant == Spec => []IInv
<1>1. Init => IInv
  BY Init1 DEF Init, IInv, BodyHoldsKey, InBody
<1>2. IInv /\ [Next]_vars => IInv'
  <2> SUFFICES ASSUME IInv, [Next]_vars PROVE LocalOK' /\ SharedOK' /\ ColumnsOK' /\ LockOK' /\ BodyHoldsKey'
    <3>1. TypeOK' <=> (LocalOK /\ SharedOK /\ ColumnsOK /\ LockOK)'
      BY PartsNext
    <3> QED BY <3>1 DEF IInv
  <2> QED BY LocalStep, SharedStep, ColumnsStep, LockStep DEF IInv
<1> QED BY <1>1, <1>2, PTL DEF Spec

\* The shape of the state is an invariant.
THEOREM TypeCorrect == Spec => []TypeOK
<1>1. IInv => TypeOK
  BY DEF IInv
<1> QED BY <1>1, IInvInvariant, PTL

\* The lock keeps two lookups of the address apart, whatever is asked for,
\* retried or redelivered.
THEOREM OneLookupAtATimeThm == Spec => []OneLookupAtATime
<1>1. IInv => OneLookupAtATime
  BY DEF IInv, BodyHoldsKey, OneLookupAtATime
<1> QED BY <1>1, IInvInvariant, PTL
-----------------------------------------------------------------------------
LEMMA AnnouncedStep == ASSUME TypeOK, CountryAnnounced, [Next]_vars PROVE CountryAnnounced'
<1> USE Parts
<1>1. ASSUME NEW w \in Workers, Step(w) \/ Crash(w) PROVE CountryAnnounced'
  <2>1. CASE \/ \E m \in Messages : Load(w, m) \/ Fresh(w, m)
             \/ Lock(w) \/ Skip(w) \/ Lookup(w) \/ Retry(w) \/ GiveUp(w) \/ Record(w) \/ Unlock(w)
    <3>1. /\ unheard' = unheard /\ lost' = lost /\ pc[w] # "saved"
          /\ \A v \in Workers \ {w} : pc'[v] = pc[v]
      BY <2>1 DEF Load, Fresh, Lock, Skip, Lookup, Retry, GiveUp, Record, Unlock, ghosts, LocalOK
    <3> QED BY <3>1 DEF CountryAnnounced
  <2>2. CASE Save(w)
    <3>1. unheard' => pc'[w] = "saved"
      BY <2>2 DEF Save, LocalOK
    <3> QED BY <3>1 DEF CountryAnnounced
  <2>3. CASE Classify(w)
    BY <2>3 DEF Classify, CountryAnnounced
  <2>4. CASE Crash(w)
    <3>1. unheard' = unheard /\ (lost' <=> lost \/ pc[w] = "saved")
      BY <2>4 DEF Crash
    <3>2. \A v \in Workers \ {w} : pc'[v] = pc[v]
      BY <2>4 DEF Crash, LocalOK
    <3> QED BY <3>1, <3>2 DEF CountryAnnounced
  <2> QED BY <1>1, <2>1, <2>2, <2>3, <2>4 DEF Step
<1>2. CASE (\E r \in Requests, force \in BOOLEAN : Ask(r, force)) \/ Week \/ Expire \/ UNCHANGED vars
  <2>1. UNCHANGED <<unheard, lost, pc>>
    BY <1>2 DEF Ask, Week, Expire, vars, ghosts
  <2> QED BY <2>1 DEF CountryAnnounced
<1> QED BY <1>1, <1>2 DEF Next

\* Whoever else is killed, a country in the row has been sent to classify_ip or is in
\* the hands of the worker that is about to, unless it is that worker who was.
THEOREM CountryAnnouncedThm == Spec => []CountryAnnounced
<1>1. Init => TypeOK /\ CountryAnnounced
  BY Init1 DEF Init, CountryAnnounced
<1>2. IInv /\ CountryAnnounced /\ [Next]_vars => CountryAnnounced'
  BY AnnouncedStep DEF IInv
<1>3. Init => CountryAnnounced
  BY <1>1
<1> QED BY <1>2, <1>3, IInvInvariant, PTL DEF Spec
-----------------------------------------------------------------------------
LEMMA KeptStep == ASSUME TypeOK, NetworkKept, [Next]_vars PROVE NetworkKept'
<1> USE Parts
<1>1. ASSUME NEW w \in Workers, Save(w) PROVE NetworkKept'
  <2> DEFINE r == answer[w].response
  <2>1. /\ net' = [asn |-> Asn(r, copy[w].asn), cidr |-> Cidr(r, copy[w].cidr)]
        /\ named' = [origin |-> IF Names(r, "origin") THEN r ELSE named.origin,
                     inetnum |-> IF Names(r, "inetnum") THEN r ELSE named.inetnum]
        /\ ~outdated' => /\ ~outdated
                         /\ Names(r, "origin") \/ copy[w].asn = net.asn
                         /\ Names(r, "inetnum") \/ copy[w].cidr = net.cidr
    BY <1>1 DEF Save, Overwrite
  <2> SUFFICES ASSUME ~outdated'
               PROVE  net' = [asn |-> Asn(named.origin, NoAsn), cidr |-> Cidr(named.inetnum, NoCidr)]'
    BY DEF NetworkKept
  <2>2. net = [asn |-> Asn(named.origin, NoAsn), cidr |-> Cidr(named.inetnum, NoCidr)]
    BY <2>1 DEF NetworkKept
  <2> HIDE DEF r
  <2>3. Asn(r, copy[w].asn) = Asn(named'.origin, NoAsn)
    BY <2>1, <2>2 DEF Asn
  <2>4. Cidr(r, copy[w].cidr) = Cidr(named'.inetnum, NoCidr)
    BY <2>1, <2>2 DEF Cidr
  <2> QED BY <2>1, <2>3, <2>4
<1>2. ASSUME NEW w \in Workers, Crash(w) \/ (Step(w) /\ ~Save(w)) PROVE UNCHANGED columns
  BY <1>2 DEF Step, Crash, Load, Fresh, Lock, Skip, Lookup, Retry, GiveUp, Record, Classify, Unlock
<1>3. CASE (\E r \in Requests, force \in BOOLEAN : Ask(r, force)) \/ Week \/ Expire \/ UNCHANGED vars
  BY <1>3 DEF Ask, Week, Expire, vars, columns, NetworkKept
<1> QED BY <1>1, <1>2, <1>3 DEF Next, columns, NetworkKept

\* As long as no task put back what it had read before another one's save, the ASN
\* and the CIDR are those of the latest answers that named them.
THEOREM NetworkKeptThm == Spec => []NetworkKept
<1>1. Init => NetworkKept
  <2>1. ASSUME NEW field PROVE ~Names(<<>>, field)
    <3>1. Naming(<<>>, field) = {}
      BY DEF Naming
    <3> QED BY <3>1 DEF Names
  <2>2. Asn(<<>>, NoAsn) = NoAsn /\ Cidr(<<>>, NoCidr) = NoCidr
    BY <2>1 DEF Asn, Cidr
  <2>3. ASSUME Init PROVE named.origin = <<>> /\ named.inetnum = <<>> /\ net = NoNet
    BY <2>3 DEF Init
  <2> QED BY <2>2, <2>3 DEF NetworkKept, NoNet
<1>2. IInv /\ NetworkKept /\ [Next]_vars => NetworkKept'
  BY KeptStep DEF IInv
<1> QED BY <1>1, <1>2, IInvInvariant, PTL DEF Spec
-----------------------------------------------------------------------------
\* What is queued, in hand, repeated or was put to the registry has been asked for.
AllAsked ==
    /\ \A m \in Messages : waiting[m] > 0 => m[1] \in asked
    /\ \A w \in Workers : pc[w] # "idle" => job[w][1] \in asked
    /\ repeated \subseteq asked
    /\ \A r \in Requests : r \notin asked => queries[r] = 0

LEMMA AllAskedStep == ASSUME TypeOK, AllAsked, [Next]_vars PROVE AllAsked'
<1> USE Parts, WhoisAssumption
<1>1. ASSUME NEW r \in Requests, NEW force \in BOOLEAN, Ask(r, force) PROVE AllAsked'
  <2>1. /\ UNCHANGED <<pc, job, queries, repeated>> /\ asked' = asked \cup {r}
        /\ waiting' = [waiting EXCEPT ![<<r, 0>>] = waiting[<<r, 0>>] + 1]
    BY <1>1 DEF Ask, ghosts
  <2>2. \A m \in Messages : waiting'[m] > 0 => m = <<r, 0>> \/ waiting[m] > 0
    BY <2>1 DEF SharedOK
  <2> QED BY <2>1, <2>2 DEF AllAsked
<1>2. ASSUME NEW w \in Workers, NEW m \in Messages, Load(w, m) \/ Fresh(w, m) PROVE AllAsked'
  <2>1. /\ waiting' = [waiting EXCEPT ![m] = waiting[m] - 1] /\ waiting[m] > 0
        /\ UNCHANGED <<asked, queries, repeated>>
        /\ \A v \in Workers : (pc'[v] = pc[v] /\ job'[v] = job[v]) \/ (v = w /\ job'[v] = m)
    BY <1>2 DEF Load, Fresh, Due, ghosts, LocalOK
  <2>2. \A k \in Messages : waiting'[k] > 0 => waiting[k] > 0
    BY <2>1 DEF SharedOK
  <2> QED BY <2>1, <2>2 DEF AllAsked
<1>3. ASSUME NEW w \in Workers, Skip(w) \/ Unlock(w) PROVE AllAsked'
  <2>1. /\ UNCHANGED <<asked, waiting, queries, repeated>> /\ pc'[w] = "idle"
        /\ \A v \in Workers \ {w} : pc'[v] = pc[v] /\ job'[v] = job[v]
    BY <1>3 DEF Skip, Unlock, Forget, queue, ghosts, LocalOK
  <2> QED BY <2>1 DEF AllAsked
<1>4. ASSUME NEW w \in Workers, Lookup(w) PROVE AllAsked'
  <2> DEFINE r == job[w][1]
  <2>1. /\ UNCHANGED <<asked, waiting, job, repeated>> /\ pc[w] = "locked" /\ pc' = [pc EXCEPT ![w] = "answered"]
        /\ queries' = [queries EXCEPT ![r] = queries[r] + 1]
    BY <1>4 DEF Lookup, queue
  <2>2. r \in asked
    BY <2>1 DEF AllAsked
  <2>3. \A q \in Requests \ {r} : queries'[q] = queries[q]
    BY <2>1 DEF SharedOK
  <2>4. \A v \in Workers : pc'[v] # "idle" => pc[v] # "idle"
    BY <2>1 DEF LocalOK
  <2> HIDE DEF r
  <2> QED BY <2>1, <2>2, <2>3, <2>4 DEF AllAsked
<1>5. ASSUME NEW w \in Workers, Retry(w) PROVE AllAsked'
  <2> DEFINE m == job[w]
             k == Retried(m)
  <2>1. /\ UNCHANGED <<asked, job, queries, repeated>> /\ pc[w] = "answered" /\ pc' = [pc EXCEPT ![w] = "leaving"]
        /\ waiting' = [waiting EXCEPT ![k] = waiting[k] + 1]
    BY <1>5 DEF Retry, ghosts
  <2>2. k[1] \in asked
    BY <2>1 DEF AllAsked, Retried
  <2>3. \A j \in Messages : waiting'[j] > 0 => j = k \/ waiting[j] > 0
    BY <2>1 DEF SharedOK
  <2>4. \A v \in Workers : pc'[v] # "idle" => pc[v] # "idle"
    BY <2>1 DEF LocalOK
  <2> HIDE DEF m, k
  <2> QED BY <2>1, <2>2, <2>3, <2>4 DEF AllAsked
<1>6. ASSUME NEW w \in Workers, Lock(w) \/ GiveUp(w) \/ Record(w) \/ Save(w) \/ Classify(w) PROVE AllAsked'
  <2>1. /\ UNCHANGED <<asked, waiting, queries, job, repeated>> /\ pc[w] # "idle"
        /\ \A v \in Workers \ {w} : pc'[v] = pc[v]
    BY <1>6 DEF Lock, GiveUp, Record, Save, Classify, queue, ghosts, LocalOK
  <2> QED BY <2>1 DEF AllAsked
<1>7. ASSUME NEW w \in Workers, Crash(w) PROVE AllAsked'
  <2> DEFINE m == job[w]
  <2>1. /\ UNCHANGED <<asked, queries>> /\ pc[w] # "idle" /\ pc'[w] = "idle"
        /\ \A v \in Workers \ {w} : pc'[v] = pc[v] /\ job'[v] = job[v]
        /\ repeated' = repeated \cup {m[1]}
        /\ waiting' = [waiting EXCEPT ![m] = waiting[m] + 1]
    BY <1>7 DEF Crash, Forget, LocalOK
  <2>2. m[1] \in asked
    BY <2>1 DEF AllAsked
  <2>3. \A j \in Messages : waiting'[j] > 0 => j = m \/ waiting[j] > 0
    BY <2>1 DEF SharedOK
  <2> HIDE DEF m
  <2> QED BY <2>1, <2>2, <2>3 DEF AllAsked
<1>8. CASE Week \/ Expire \/ UNCHANGED vars
  <2>1. UNCHANGED <<asked, waiting, queries, job, pc, repeated>>
    BY <1>8 DEF Week, Expire, vars, queue, ghosts
  <2> QED BY <2>1 DEF AllAsked
<1> QED BY <1>1, <1>2, <1>3, <1>4, <1>5, <1>6, <1>7, <1>8 DEF Next, Step

\* A request that is not repeated is in one place: a single message, or a single worker that may
\* still retry it; and the retry counter has kept up with the queries.
Live(w) == pc[w] \in {"loaded", "locked", "answered", "recorded", "saved"}
Spent(w) == job[w][2] + (IF pc[w] \in {"loaded", "locked"} THEN 0 ELSE 1)

OneWaiting ==
    \A m \in Messages : waiting[m] > 0 /\ m[1] \notin repeated =>
        /\ waiting[m] = 1 /\ queries[m[1]] =< m[2]
        /\ \A k \in Messages : waiting[k] > 0 /\ k[1] = m[1] => k = m
        /\ \A w \in Workers : Live(w) => job[w][1] # m[1]
OneLive ==
    \A w \in Workers : Live(w) /\ job[w][1] \notin repeated =>
        /\ queries[job[w][1]] =< Spent(w)
        /\ \A v \in Workers : Live(v) /\ job[v][1] = job[w][1] => v = w
OnePlace == OneWaiting /\ OneLive /\ QueriesBounded

LEMMA OnePlaceStep == ASSUME TypeOK, AllAsked, OnePlace, [Next]_vars PROVE OnePlace'
<1> USE Parts, WhoisAssumption DEF OnePlace
<1>1. ASSUME NEW r \in Requests, NEW force \in BOOLEAN, Ask(r, force) PROVE OnePlace'
  <2>1. /\ UNCHANGED <<pc, job, queries, repeated>> /\ r \notin asked
        /\ waiting' = [waiting EXCEPT ![<<r, 0>>] = waiting[<<r, 0>>] + 1]
    BY <1>1 DEF Ask, ghosts
  <2>2. queries[r] = 0 /\ <<r, 0>> \in Messages
    BY <2>1 DEF AllAsked, Messages
  <2>3. \A m \in Messages : m[1] = r => ~(waiting[m] > 0)
    BY <2>1 DEF AllAsked
  <2>4. waiting[<<r, 0>>] = 0
    BY <2>2, <2>3 DEF SharedOK
  <2>5. \A m \in Messages : waiting'[m] = IF m = <<r, 0>> THEN 1 ELSE waiting[m]
    BY <2>1, <2>2, <2>4 DEF SharedOK
  <2>6. \A w \in Workers : Live(w) => job[w][1] # r
    BY <2>1 DEF AllAsked, Live
  <2>7. OneWaiting'
    BY <2>1, <2>2, <2>3, <2>5, <2>6 DEF OneWaiting, Live
  <2>8. OneLive'
    BY <2>1 DEF OneLive, Live, Spent
  <2> QED BY <2>1, <2>7, <2>8 DEF QueriesBounded
<1>2. ASSUME NEW w \in Workers, NEW m \in Messages, Load(w, m) \/ Fresh(w, m) PROVE OnePlace'
  <2>1. /\ waiting' = [waiting EXCEPT ![m] = waiting[m] - 1] /\ waiting[m] > 0
        /\ UNCHANGED <<queries, repeated>>
        /\ \A v \in Workers \ {w} : pc'[v] = pc[v] /\ job'[v] = job[v]
        /\ ~Live(w) /\ (Live(w)' => pc'[w] = "loaded" /\ job'[w] = m)
    BY <1>2 DEF Load, Fresh, Due, ghosts, LocalOK, Live
  <2>2. m[1] \notin repeated =>
        /\ waiting[m] = 1 /\ queries[m[1]] =< m[2]
        /\ \A k \in Messages : waiting[k] > 0 /\ k[1] = m[1] => k = m
        /\ \A v \in Workers : Live(v) => job[v][1] # m[1]
    BY <2>1 DEF OneWaiting
  <2>3. \A k \in Messages : waiting'[k] = IF k = m THEN waiting[m] - 1 ELSE waiting[k]
    BY <2>1 DEF SharedOK
  <2>4. m[1] \in Requests /\ m[2] \in Nat /\ waiting[m] \in Nat
    BY MessageParts DEF SharedOK
  <2>5. OneWaiting'
    BY <2>1, <2>2, <2>3, <2>4 DEF OneWaiting, Live
  <2>6. OneLive'
    BY <2>1, <2>2, <2>4 DEF OneLive, Live, Spent
  <2> QED BY <2>1, <2>5, <2>6 DEF QueriesBounded
<1>3. ASSUME NEW w \in Workers, Skip(w) \/ Unlock(w) PROVE OnePlace'
  <2>1. /\ UNCHANGED <<waiting, queries, repeated>> /\ ~Live(w)'
        /\ \A v \in Workers \ {w} : pc'[v] = pc[v] /\ job'[v] = job[v]
    BY <1>3 DEF Skip, Unlock, Forget, queue, ghosts, LocalOK, Live
  <2> QED BY <2>1 DEF OneWaiting, OneLive, QueriesBounded, Live, Spent
<1>4. ASSUME NEW w \in Workers, Lookup(w) PROVE OnePlace'
  <2> DEFINE r == job[w][1]
  <2>1. /\ UNCHANGED <<waiting, job, repeated>> /\ pc[w] = "locked" /\ pc' = [pc EXCEPT ![w] = "answered"]
        /\ queries' = [queries EXCEPT ![r] = queries[r] + 1]
    BY <1>4 DEF Lookup, queue
  <2>2. job[w] \in Messages /\ r \in Requests /\ job[w][2] \in 0..MaxRetries
    BY MessageParts DEF LocalOK
  <2>3. r \notin repeated =>
        /\ queries[r] =< job[w][2]
        /\ \A v \in Workers : Live(v) /\ job[v][1] = r => v = w
    BY <2>1, <2>2 DEF OneLive, Live, Spent
  <2>4. r \notin repeated => \A m \in Messages : waiting[m] > 0 => m[1] # r
    BY <2>1 DEF OneWaiting, Live
  <2>5. \A q \in Requests : queries'[q] = IF q = r THEN queries[r] + 1 ELSE queries[q]
    BY <2>1, <2>2 DEF SharedOK
  <2>6. pc'[w] = "answered" /\ \A v \in Workers \ {w} : pc'[v] = pc[v]
    BY <2>1 DEF LocalOK
  <2>7. \A v \in Workers : job[v] \in Messages /\ job[v][1] \in Requests
    BY MessageParts DEF LocalOK
  <2>8. queries[r] \in Nat
    BY <2>2 DEF SharedOK
  <2> HIDE DEF r
  <2>9. OneWaiting'
    BY <2>1, <2>4, <2>5, <2>6, MessageParts DEF OneWaiting, Live
  <2>10. OneLive'
    <3>1. ASSUME NEW v \in Workers, Live(v)', job[v][1] \notin repeated
          PROVE  /\ queries'[job[v][1]] =< Spent(v)'
                 /\ \A u \in Workers : Live(u)' /\ job[u][1] = job[v][1] => u = v
      <4>1. Live(v) /\ \A u \in Workers : Live(u)' => Live(u)
        BY <2>1, <2>6, <3>1 DEF Live
      <4>2. \A u \in Workers : Live(u)' /\ job[u][1] = job[v][1] => u = v
        BY <3>1, <4>1 DEF OneLive
      <4>3. CASE v = w
        BY <2>1, <2>2, <2>3, <2>5, <2>6, <2>8, <3>1, <4>2, <4>3 DEF Spent, r
      <4>4. CASE v # w
        <5>1. job[v][1] # r
          BY <2>3, <3>1, <4>1, <4>4
        <5>2. queries'[job[v][1]] = queries[job[v][1]] /\ Spent(v)' = Spent(v)
          BY <2>1, <2>5, <2>6, <2>7, <4>4, <5>1 DEF Spent
        <5> QED BY <3>1, <4>1, <4>2, <5>2 DEF OneLive
      <4> QED BY <4>3, <4>4
    <3> QED BY <2>1, <3>1 DEF OneLive
  <2>11. QueriesBounded'
    BY <2>1, <2>2, <2>3, <2>5, <2>8 DEF QueriesBounded
  <2> QED BY <2>9, <2>10, <2>11
<1>5. ASSUME NEW w \in Workers, Retry(w) PROVE OnePlace'
  <2> DEFINE m == job[w]
             k == Retried(m)
  <2>1. /\ UNCHANGED <<job, queries, repeated>> /\ pc[w] = "answered" /\ pc' = [pc EXCEPT ![w] = "leaving"]
        /\ m[2] < MaxRetries /\ waiting' = [waiting EXCEPT ![k] = waiting[k] + 1]
    BY <1>5 DEF Retry, ghosts
  <2>2. m \in Messages /\ m[1] \in Requests /\ m[2] \in 0..MaxRetries
    BY MessageParts DEF LocalOK
  <2>3. k \in Messages /\ k[1] = m[1] /\ k[2] = m[2] + 1
    BY <2>1, <2>2 DEF Retried, Messages
  <2>4. m[1] \notin repeated =>
        /\ queries[m[1]] =< m[2] + 1
        /\ \A v \in Workers : Live(v) /\ job[v][1] = m[1] => v = w
    BY <2>1 DEF OneLive, Live, Spent
  <2>5. m[1] \notin repeated => \A j \in Messages : waiting[j] > 0 => j[1] # m[1]
    BY <2>1 DEF OneWaiting, Live
  <2>6. \A j \in Messages : waiting'[j] = IF j = k THEN waiting[k] + 1 ELSE waiting[j]
    BY <2>1, <2>3 DEF SharedOK
  <2>7. ~Live(w)' /\ \A v \in Workers \ {w} : pc'[v] = pc[v]
    BY <2>1 DEF LocalOK, Live
  <2>8. waiting[k] \in Nat /\ (m[1] \notin repeated => waiting[k] = 0)
    BY <2>3, <2>5 DEF SharedOK
  <2> HIDE DEF m, k
  <2>9. OneWaiting'
    <3>1. ASSUME NEW j \in Messages, waiting'[j] > 0, j[1] \notin repeated
          PROVE  /\ waiting'[j] = 1 /\ queries[j[1]] =< j[2]
                 /\ \A i \in Messages : waiting'[i] > 0 /\ i[1] = j[1] => i = j
                 /\ \A v \in Workers : Live(v)' => job[v][1] # j[1]
      <4>1. \A v \in Workers : Live(v)' => Live(v) /\ v # w
        BY <2>7 DEF Live
      <4>2. CASE j = k
        BY <2>3, <2>4, <2>5, <2>6, <2>8, <3>1, <4>1, <4>2
      <4>3. CASE j # k
        <5>1. waiting[j] > 0 /\ waiting'[j] = waiting[j]
          BY <2>6, <3>1, <4>3
        <5>2. j[1] # m[1]
          BY <2>5, <3>1, <5>1
        <5> QED BY <2>3, <2>6, <3>1, <4>1, <5>1, <5>2 DEF OneWaiting
      <4> QED BY <4>2, <4>3
    <3> QED BY <2>1, <3>1 DEF OneWaiting
  <2>10. OneLive'
    BY <2>1, <2>7 DEF OneLive, Live, Spent
  <2> QED BY <2>1, <2>9, <2>10 DEF QueriesBounded
<1>6. ASSUME NEW w \in Workers, Lock(w) \/ GiveUp(w) \/ Record(w) \/ Save(w) \/ Classify(w) PROVE OnePlace'
  <2>1. /\ UNCHANGED <<waiting, queries, job, repeated>> /\ (Live(w)' => Live(w) /\ Spent(w)' = Spent(w))
        /\ \A v \in Workers \ {w} : pc'[v] = pc[v]
    BY <1>6 DEF Lock, GiveUp, Record, Save, Classify, queue, ghosts, LocalOK, Live, Spent
  <2> QED BY <2>1 DEF OneWaiting, OneLive, QueriesBounded, Live, Spent
\* A killed worker's message comes again, of a request that is repeated from then on.
<1>7. ASSUME NEW w \in Workers, Crash(w) PROVE OnePlace'
  <2> DEFINE m == job[w]
  <2>1. /\ UNCHANGED queries /\ ~Live(w)'
        /\ \A v \in Workers \ {w} : pc'[v] = pc[v] /\ job'[v] = job[v]
        /\ repeated' = repeated \cup {m[1]}
        /\ waiting' = [waiting EXCEPT ![m] = waiting[m] + 1]
    BY <1>7 DEF Crash, Forget, LocalOK, Live
  <2>2. \A j \in Messages : j[1] \notin repeated' => waiting'[j] = waiting[j] /\ j[1] \notin repeated
    BY <2>1 DEF SharedOK
  <2> HIDE DEF m
  <2>3. OneWaiting'
    BY <2>1, <2>2 DEF OneWaiting, Live
  <2>4. OneLive'
    BY <2>1 DEF OneLive, Live, Spent
  <2>5. QueriesBounded'
    BY <2>1 DEF QueriesBounded
  <2> QED BY <2>3, <2>4, <2>5
<1>8. CASE Week \/ Expire \/ UNCHANGED vars
  <2>1. UNCHANGED <<waiting, queries, job, pc, repeated>>
    BY <1>8 DEF Week, Expire, vars, queue, ghosts
  <2> QED BY <2>1 DEF OneWaiting, OneLive, QueriesBounded, Live, Spent
<1> QED BY <1>1, <1>2, <1>3, <1>4, <1>5, <1>6, <1>7, <1>8 DEF Next, Step

\* A request asks the registry at most MAX_RETRIES + 1 times, for every value of
\* MAX_RETRIES and whatever is killed, unless its own message was in the hands of a
\* worker that was.
THEOREM QueriesBoundedThm == Spec => []QueriesBounded
<1>1. Init => AllAsked /\ OnePlace
  <2> SUFFICES ASSUME Init PROVE AllAsked /\ OnePlace
    OBVIOUS
  <2>1. (\A m \in Messages : waiting[m] = 0) /\ (\A r \in Requests : queries[r] = 0) /\ repeated = {}
        /\ \A w \in Workers : pc[w] = "idle"
    BY DEF Init
  <2>2. AllAsked
    BY <2>1 DEF AllAsked
  <2>3. OneWaiting
    BY <2>1 DEF OneWaiting
  <2>4. OneLive
    BY <2>1 DEF OneLive, Live
  <2>5. QueriesBounded
    BY <2>1, WhoisAssumption DEF QueriesBounded
  <2> QED BY <2>2, <2>3, <2>4, <2>5 DEF OnePlace
<1>2. IInv /\ AllAsked /\ OnePlace /\ [Next]_vars => (AllAsked /\ OnePlace)'
  BY AllAskedStep, OnePlaceStep DEF IInv
<1>3. OnePlace => QueriesBounded
  BY DEF OnePlace
<1> QED BY <1>1, <1>2, <1>3, IInvInvariant, PTL DEF Spec
=============================================================================
