--------------------------- MODULE Reports_proofs ---------------------------
(***************************************************************************)
(* Proofs about Reports for any addresses, servers, periods, page sizes    *)
(* and bounds.                                                             *)
(***************************************************************************)
EXTENDS Reports, FiniteSetTheorems, TLAPS

Events == [ip : Addresses, server : Servers, at : Nat]

\* What the tables have to do with one another: an event's address has a row,
\* only rows are checked and only checked ones are Iranian, and no event comes
\* from the future.
TablesOK ==
    /\ now \in Nat
    /\ events \in SUBSET Events /\ IsFiniteSet(events)
    /\ \A e \in events : e.at =< now
    /\ known \in SUBSET Addresses /\ IsFiniteSet(known)
    /\ Ips(events) \subseteq known
    /\ iran \subseteq checked /\ checked \subseteq known

LEMMA TablesStep == ASSUME TablesOK, [Next]_vars PROVE TablesOK'
<1>1. CASE UNCHANGED <<now, tables>>
  BY <1>1 DEF TablesOK, tables, Ips
<1>2. CASE Day
  <2>1. now' \in Nat /\ now =< now' /\ UNCHANGED tables
    BY <1>2 DEF Day, TablesOK
  <2>2. \A e \in events : e.at \in Nat
    BY DEF TablesOK, Events
  <2> QED BY <2>1, <2>2 DEF TablesOK, tables, Ips
<1>3. ASSUME NEW a \in Addresses, NEW s \in Servers, NEW t \in 0 .. now, Ingest(a, s, t)
      PROVE  TablesOK'
  <2> DEFINE e == [ip |-> a, server |-> s, at |-> t]
  <2>1. now \in Nat /\ now' = now /\ t \in Nat /\ t =< now
    BY <1>3 DEF Ingest, TablesOK
  <2>2. e \in Events /\ e.ip = a /\ e.at = t
    BY <2>1 DEF Events
  <2> HIDE DEF e
  <2>3. /\ events' = events \cup {e} /\ known' = known \cup {a}
        /\ iran' = iran /\ checked' = checked
    BY <1>3 DEF Ingest, e
  <2>4. IsFiniteSet(events') /\ IsFiniteSet(known')
    BY <2>3, FS_AddElement DEF TablesOK
  <2>5. Ips(events') \subseteq known'
    BY <2>2, <2>3 DEF TablesOK, Ips
  <2> QED BY <2>1, <2>2, <2>3, <2>4, <2>5 DEF TablesOK
<1>4. ASSUME NEW a \in Addresses, NEW verdict \in BOOLEAN, Classify(a, verdict)
      PROVE  TablesOK'
  BY <1>4 DEF Classify, TablesOK, Ips
<1>5. ASSUME NEW a \in Addresses, PurgeIp(a) PROVE TablesOK'
  <2>1. IsFiniteSet(known')
    BY <1>5, FS_RemoveElement DEF PurgeIp, TablesOK
  <2> QED BY <1>5, <2>1 DEF PurgeIp, TablesOK, Ips
<1>6. CASE PurgeEvents
  <2>1. events' \in SUBSET events /\ UNCHANGED <<now, known, iran, checked>>
    BY <1>6 DEF PurgeEvents
  <2>2. IsFiniteSet(events')
    BY <2>1, FS_Subset DEF TablesOK
  <2> QED BY <2>1, <2>2 DEF TablesOK, Ips
<1>7. CASE UNCHANGED vars
  BY <1>1, <1>7 DEF vars
<1>8. CASE BeginPage \/ BeginChart \/ BeginExport \/ BeginList \/ Query \/ Respond
             \/ BeginWalk \/ CountPage \/ ReadPage
  BY <1>1, <1>8 DEF BeginPage, BeginChart, BeginExport, BeginList, Begin, Query, Respond,
                    BeginWalk, CountPage, ReadPage
<1> QED BY <1>2, <1>3, <1>4, <1>5, <1>6, <1>7, <1>8 DEF Next

\* Rows and events stay consistent, however tasks and purges interleave.
THEOREM TablesThm == Spec => []TablesOK
<1>1. Init => TablesOK
  BY FS_EmptySet DEF Init, TablesOK, Ips
<1>2. TablesOK /\ [Next]_vars => TablesOK'
  BY TablesStep
<1> QED BY <1>1, <1>2, PTL DEF Spec

\* What retention deletes is older than every period that can be asked for, and
\* an address that goes with it has no events.
THEOREM PurgeInvisibleThm == Spec => PurgeInvisible
<1> DEFINE Invisible ==
             \A p \in Periods, class \in {"iran", "other", "unknown"} :
               /\ Window(Since(p), now) = Window(Since(p), now)'
               /\ Split(Since(p), now, class) = Split(Since(p), now, class)'
<1>1. ASSUME TablesOK, PurgeEvents \/ (\E a \in Addresses : PurgeIp(a)) PROVE Invisible
  <2> SUFFICES ASSUME NEW p \in Periods, NEW class \in {"iran", "other", "unknown"}
               PROVE  /\ Window(Since(p), now) = Window(Since(p), now)'
                      /\ Split(Since(p), now, class) = Split(Since(p), now, class)'
    OBVIOUS
  <2>1. now' = now
    BY <1>1 DEF PurgeEvents, PurgeIp
  <2> DEFINE start == Since(p)
  <2>2. Since(p)' = start /\ start \in Nat /\ now =< start
    <3>1. now \in Nat /\ p \in Nat /\ RequestDays \in Nat /\ p =< RequestDays
      BY <1>1, ReportsAssumption DEF TablesOK
    <3>2. now + RequestDays - p \in Nat /\ now =< now + RequestDays - p
      BY <3>1
    <3> QED BY <2>1, <3>2 DEF Since
  <2>3. start # AllTime
    BY <2>2, ReportsAssumption
  <2> HIDE DEF start
  <2>4. Window(start, now) = {e \in events : start =< e.at + RequestDays /\ e.at =< now}
    BY <2>3 DEF Window, From
  <2>5. Window(start, now)' = {e \in events' : start' =< e.at + RequestDays /\ e.at =< now}
    BY <2>1, <2>2, <2>3 DEF Window, From, start
  <2>6. \A e \in events : start =< e.at + RequestDays => e \in events'
    <3>1. CASE PurgeEvents
      <4>1. events' = {e \in events : ~(e.at + RequestDays < now)}
        BY <3>1 DEF PurgeEvents
      <4>2. \A e \in events : e.at \in Nat
        BY <1>1 DEF TablesOK, Events
      <4>3. now \in Nat /\ RequestDays \in Nat
        BY <1>1, ReportsAssumption DEF TablesOK
      <4> QED BY <2>2, <4>1, <4>2, <4>3
    <3>2. CASE \E a \in Addresses : PurgeIp(a)
      BY <3>2 DEF PurgeIp
    <3> QED BY <1>1, <3>1, <3>2
  <2>7. events' \subseteq events
    BY <1>1 DEF PurgeEvents, PurgeIp
  <2>8. start' = start
    BY <2>2 DEF start
  <2>9. Window(start, now) = Window(start, now)'
    BY <2>4, <2>5, <2>6, <2>7, <2>8
  <2>10. \A a \in Ips(Window(start, now)) : (a \in iran' <=> a \in iran) /\ (a \in checked' <=> a \in checked)
    BY <1>1 DEF PurgeEvents, PurgeIp, Ips, Window, From
  <2>11. Split(start, now, class) = Split(start, now, class)'
    BY <2>9, <2>10 DEF Split, Ips
  <2> QED BY <2>8, <2>9, <2>11 DEF start
<1>2. TablesOK /\ [Next]_vars
        => [PurgeEvents \/ (\E a \in Addresses : PurgeIp(a)) => Invisible]_vars
  BY <1>1
<1> QED BY <1>2, TablesThm, PTL DEF Spec, PurgeInvisible
-----------------------------------------------------------------------------
(* The numbers of one answer.                                              *)

LEMMA SmallerOf ==
    ASSUME NEW n \in Nat, NEW m \in Nat
    PROVE  AtMost(n, m) = IF n =< m THEN n ELSE m
<1>1. \A x \in {n, m} : (\A y \in {n, m} : x =< y) => x = IF n =< m THEN n ELSE m
  OBVIOUS
<1>2. \E x \in {n, m} : \A y \in {n, m} : x =< y
  OBVIOUS
<1> QED BY <1>1, <1>2 DEF AtMost, Min

LEMMA PartOf ==
    ASSUME NEW S, IsFiniteSet(S), NEW T \in SUBSET S
    PROVE  IsFiniteSet(T) /\ Cardinality(T) \in Nat /\ Cardinality(S) \in Nat
           /\ Cardinality(T) =< Cardinality(S)
  BY FS_Subset, FS_CardinalityType

LEMMA ImageOf ==
    ASSUME NEW S, IsFiniteSet(S), NEW T, NEW f \in [S -> T], \A t \in T : \E s \in S : f[s] = t
    PROVE  IsFiniteSet(T) /\ Cardinality(T) \in Nat /\ Cardinality(S) \in Nat
           /\ Cardinality(T) =< Cardinality(S)
<1>1. f \in Surjection(S, T)
  BY DEF Surjection
<1> QED BY <1>1, FS_Surjection, FS_CardinalityType

\* There are no more addresses than events.
LEMMA IpsOf ==
    ASSUME TablesOK, NEW es \in SUBSET events
    PROVE  /\ IsFiniteSet(es) /\ IsFiniteSet(Ips(es))
           /\ Cardinality(es) \in Nat /\ Cardinality(es) =< Cardinality(events)
           /\ Cardinality(events) \in Nat
           /\ Cardinality(Ips(es)) \in Nat /\ Cardinality(Ips(es)) =< Cardinality(es)
           /\ Ips(es) \subseteq known
<1>1. IsFiniteSet(es) /\ Cardinality(es) =< Cardinality(events) /\ Cardinality(events) \in Nat
  BY PartOf DEF TablesOK
<1> DEFINE f == [e \in es |-> e.ip]
<1>2. f \in [es -> Ips(es)] /\ \A a \in Ips(es) : \E e \in es : f[e] = a
  BY DEF Ips
<1> HIDE DEF f
<1> QED BY <1>1, <1>2, ImageOf DEF TablesOK, Ips

LEMMA DivBound ==
    ASSUME NEW n \in Nat, NEW d \in Nat, d > 0
    PROVE  /\ (n \div d) \in Nat
           /\ (n \div d) * d =< n
           /\ n < (n \div d) * d + d
  BY Z3

\* The pages of a list hold it, and the last one does not end before it begins.
LEMMA PagesOf ==
    ASSUME NEW n \in Nat
    PROVE  /\ Pages(n) \in Nat /\ Pages(n) > 0
           /\ n > 0 => (Pages(n) - 1) * PageSize < n
           /\ n =< Pages(n) * PageSize
<1>1. PageSize \in Nat /\ PageSize > 0
  BY ReportsAssumption
<1>2. CASE n = 0
  BY <1>1, <1>2 DEF Pages
<1>3. CASE n > 0
  <2> DEFINE q == (n + PageSize - 1) \div PageSize
  <2>1. Pages(n) = q
    BY <1>3 DEF Pages
  <2>2. q \in Nat /\ q * PageSize =< n + PageSize - 1 /\ n + PageSize - 1 < q * PageSize + PageSize
    BY <1>1, <1>3, DivBound
  <2> HIDE DEF q
  <2>3. (q - 1) * PageSize = q * PageSize - PageSize
    BY <1>1, <2>2
  <2>4. q # 0
    BY <1>1, <1>3, <2>2
  <2> QED BY <1>1, <1>3, <2>1, <2>2, <2>3, <2>4
<1> QED BY <1>2, <1>3

LEMMA SliceOf ==
    ASSUME NEW n \in Nat, NEW page \in Nat, page > 0
    PROVE  /\ Bottom(n, page) \in Nat /\ Top(n, page) \in Nat
           /\ Bottom(n, page) =< Top(n, page) /\ Top(n, page) =< n
           /\ Top(n, page) = AtMost(Bottom(n, page) + PageSize, n)
           /\ page =< Pages(n) => Bottom(n, page) = (page - 1) * PageSize
<1> DEFINE q == AtMost(page, Pages(n))
<1>1. /\ Pages(n) \in Nat /\ Pages(n) > 0 /\ PageSize \in Nat /\ PageSize > 0
      /\ n > 0 => (Pages(n) - 1) * PageSize < n
      /\ n = 0 => Pages(n) = 1
  BY PagesOf, ReportsAssumption DEF Pages
<1>2. q \in Nat /\ q > 0 /\ q =< Pages(n) /\ (page =< Pages(n) => q = page)
  BY <1>1, SmallerOf
<1> HIDE DEF q
<1>3. (q - 1) * PageSize \in Nat /\ (q - 1) * PageSize =< (Pages(n) - 1) * PageSize
  BY <1>1, <1>2
<1>4. (q - 1) * PageSize =< n
  <2>1. CASE n = 0
    BY <1>1, <1>2, <2>1
  <2>2. CASE n > 0
    BY <1>1, <1>3, <2>2
  <2> QED BY <2>1, <2>2
<1>5. Bottom(n, page) = (q - 1) * PageSize
  BY DEF Bottom, q
<1>6. Top(n, page) = AtMost(Bottom(n, page) + PageSize, n)
  BY DEF Top
<1> DEFINE b == (q - 1) * PageSize
<1>7. b \in Nat /\ b =< n /\ Bottom(n, page) = b
  BY <1>3, <1>4, <1>5
<1> HIDE DEF b
<1>8. AtMost(b + PageSize, n) = IF b + PageSize =< n THEN b + PageSize ELSE n
  BY <1>1, <1>7, SmallerOf
<1>9. page =< Pages(n) => b = (page - 1) * PageSize
  BY <1>2 DEF b
<1> QED BY <1>1, <1>6, <1>7, <1>8, <1>9

\* A page read from an unchanged list is as long as its count says.
LEMMA RowsOf ==
    ASSUME NEW n \in Nat, NEW page \in Nat, page > 0, NEW m \in Nat
    PROVE  /\ Rows(n, page, m) \in Nat
           /\ Rows(n, page, n) = Top(n, page) - Bottom(n, page)
<1>1. Bottom(n, page) \in Nat /\ Top(n, page) \in Nat /\ Bottom(n, page) =< Top(n, page) /\ Top(n, page) =< n
  BY SliceOf
<1>2. AtMost(Top(n, page), n) = Top(n, page) /\ AtMost(Top(n, page), m) \in Nat
  BY <1>1, SmallerOf
<1> QED BY <1>1, <1>2 DEF Rows

PageKinds == {"ips", "table", "timeline", "detail"}
Kinds == {"none", "cards", "overview", "export", "chart", "walk", "walked"} \cup PageKinds
RequestOK(r) == r.kind \in Kinds /\ (r.kind \in PageKinds => r.page \in Nat /\ r.page > 0)

\* What a query of each kind of request counts.
LEMMA Answers ==
    ASSUME NEW r, NEW i
    PROVE  /\ r.kind = "cards" => Answer(r, i) = <<Cardinality(events), Cardinality(known), Cardinality(iran)>>[i]
           /\ r.kind = "overview" =>
                Answer(r, i) = <<Cardinality(events), Cardinality(Ips(events)),
                                 Cardinality(Ips({e \in events : e.ip \in iran})),
                                 AtMost(Cardinality({a \in known : \E e \in events : e.ip = a}), TopN)>>[i]
           /\ r.kind = "export" => Answer(r, i) = Cardinality(Exported(r))
           /\ r.kind \in {"ips", "table", "timeline"} =>
                Answer(r, i) = IF i = 1 THEN Cardinality(Listed(r))
                                        ELSE Rows(got[1], r.page, Cardinality(Listed(r)))
  BY DEF Answer

LEMMA ChartAnswers ==
    ASSUME NEW r, NEW i, r.kind = "chart", NEW window, window = Window(r.start, r.end)
    PROVE  Answer(r, i) =
           <<Cardinality({a \in Ips(window) : Country[a] # Unknown}),
             Cardinality(Split(r.start, r.end, "iran")), Cardinality(Split(r.start, r.end, "other")),
             Cardinality(Split(r.start, r.end, "unknown")),
             Cardinality(window), Cardinality({<<e.ip, e.at>> : e \in window}),
             AtMost(Cardinality(Ips({e \in window : e.ip \in iran})), TopN)>>[i]
  BY DEF Answer

LEMMA DetailAnswers ==
    ASSUME NEW r, r.kind = "detail"
    PROVE  /\ Answer(r, 1) = Cardinality(Listed(r))
           /\ Answer(r, 2) = Cardinality(EventsOf(r.ip, AnyServer))
           /\ Answer(r, 3) = Cardinality({e.server : e \in EventsOf(r.ip, AnyServer)})
           /\ Answer(r, 4) = Rows(got[1], r.page, Cardinality(Listed(r)))
  BY DEF Answer

LEMMA ListedOK ==
    ASSUME TablesOK, NEW r, r.kind \in PageKinds
    PROVE  IsFiniteSet(Listed(r)) /\ Cardinality(Listed(r)) \in Nat
<1>1. CASE r.kind \in {"ips", "table"}
  <2>1. Listed(r) \in SUBSET known
    BY <1>1 DEF Listed, IpList, IpTable
  <2> QED BY <2>1, PartOf DEF TablesOK
<1>2. CASE r.kind \in {"timeline", "detail"}
  <2>1. Listed(r) \in SUBSET events
    BY <1>2 DEF Listed, Timeline, EventsOf
  <2> QED BY <2>1, PartOf DEF TablesOK
<1> QED BY <1>1, <1>2 DEF PageKinds

\* The counts of the overview: Iranian addresses, addresses, events.
LEMMA OverviewCounts ==
    ASSUME TablesOK
    PROVE  /\ Cardinality(events) \in Nat /\ Cardinality(Ips(events)) \in Nat
           /\ Cardinality(Ips({e \in events : e.ip \in iran})) \in Nat
           /\ Cardinality(Ips({e \in events : e.ip \in iran})) =< Cardinality(Ips(events))
           /\ Cardinality(Ips(events)) =< Cardinality(events)
           /\ {a \in known : \E e \in events : e.ip = a} = Ips(events)
<1>1. Ips({e \in events : e.ip \in iran}) \in SUBSET Ips(events)
  BY DEF Ips
<1>2. IsFiniteSet(Ips(events)) /\ Cardinality(Ips(events)) =< Cardinality(events)
  BY IpsOf
<1>3. {a \in known : \E e \in events : e.ip = a} = Ips(events)
  BY DEF TablesOK, Ips
<1> QED BY <1>1, <1>2, <1>3, PartOf, IpsOf

LEMMA CardsCounts ==
    ASSUME TablesOK
    PROVE  /\ Cardinality(events) \in Nat /\ Cardinality(known) \in Nat /\ Cardinality(iran) \in Nat
           /\ Cardinality(iran) =< Cardinality(known)
<1>1. iran \in SUBSET known
  BY DEF TablesOK
<1> QED BY <1>1, PartOf, FS_CardinalityType DEF TablesOK

LEMMA ExportCount ==
    ASSUME TablesOK, NEW r PROVE Cardinality(Exported(r)) \in Nat
<1>1. (IF r.only503 \/ r.server # AnyServer \/ r.start # AllTime
       THEN Ips({e \in From(r.start) : r.server \in {AnyServer, e.server}}) ELSE known) \in SUBSET known
  BY DEF From, Ips, TablesOK
<1>2. Exported(r) \in SUBSET known
  BY <1>1 DEF Exported
<1> QED BY <1>2, PartOf DEF TablesOK

\* The parts of a chart: the classes split its addresses, which are at most its
\* days' addresses, which are at most its events.
LEMMA ChartCounts ==
    ASSUME TablesOK, NEW start, NEW end, NEW window, window = Window(start, end)
    PROVE  LET ips == Ips(window)
               pairs == {<<e.ip, e.at>> : e \in window}
           IN  /\ Cardinality({a \in ips : Country[a] # Unknown}) \in Nat
               /\ Cardinality({a \in ips : Country[a] # Unknown}) =< Cardinality(ips)
               /\ \A class \in {"iran", "other", "unknown"} : Cardinality(Split(start, end, class)) \in Nat
               /\ Cardinality(ips) = Cardinality(Split(start, end, "iran"))
                     + Cardinality(Split(start, end, "other")) + Cardinality(Split(start, end, "unknown"))
               /\ Cardinality(pairs) \in Nat /\ Cardinality(window) \in Nat
               /\ Cardinality(ips) =< Cardinality(pairs) /\ Cardinality(pairs) =< Cardinality(window)
               /\ Ips({e \in window : e.ip \in iran}) = Split(start, end, "iran")
<1> DEFINE ips == Ips(window)
           pairs == {<<e.ip, e.at>> : e \in window}
<1>1. window \in SUBSET events
  BY DEF Window, From
<1>2. IsFiniteSet(window) /\ IsFiniteSet(ips) /\ Cardinality(ips) \in Nat /\ Cardinality(window) \in Nat
  BY <1>1, IpsOf
<1>3. /\ Cardinality({a \in ips : Country[a] # Unknown}) \in Nat
      /\ Cardinality({a \in ips : Country[a] # Unknown}) =< Cardinality(ips)
  <2>1. {a \in ips : Country[a] # Unknown} \in SUBSET ips
    OBVIOUS
  <2> HIDE DEF ips
  <2> QED BY <1>2, <2>1, PartOf
<1>4. /\ IsFiniteSet(pairs) /\ Cardinality(pairs) \in Nat /\ Cardinality(pairs) =< Cardinality(window)
  <2> DEFINE f == [e \in window |-> <<e.ip, e.at>>]
  <2>1. f \in [window -> pairs] /\ \A x \in pairs : \E e \in window : f[e] = x
    OBVIOUS
  <2> HIDE DEF f, pairs
  <2> QED BY <1>2, <2>1, ImageOf
<1>5. Cardinality(ips) =< Cardinality(pairs)
  <2> DEFINE f == [x \in pairs |-> x[1]]
  <2>1. \A x \in pairs : x[1] \in ips
    BY DEF Ips
  <2>2. \A a \in ips : \E x \in pairs : x[1] = a
    <3> SUFFICES ASSUME NEW a \in ips PROVE \E x \in pairs : x[1] = a
      OBVIOUS
    <3>1. PICK e \in window : e.ip = a
      BY DEF Ips
    <3>2. <<e.ip, e.at>> \in pairs /\ <<e.ip, e.at>>[1] = a
      BY <3>1
    <3> QED BY <3>2
  <2> HIDE DEF pairs, ips
  <2>3. f \in [pairs -> ips] /\ \A a \in ips : \E x \in pairs : f[x] = a
    BY <2>1, <2>2
  <2> HIDE DEF f
  <2> QED BY <1>4, <2>3, ImageOf
<1>6. /\ Split(start, end, "iran") = ips \cap iran
      /\ Split(start, end, "other") = (ips \ iran) \cap checked
      /\ Split(start, end, "unknown") = (ips \ iran) \ checked
  BY DEF Split
<1>7. Ips({e \in window : e.ip \in iran}) = ips \cap iran
  BY DEF Ips
<1> HIDE DEF ips, pairs
<1>8. /\ IsFiniteSet(ips \ iran) /\ Cardinality(ips \ iran) = Cardinality(ips) - Cardinality(ips \cap iran)
      /\ Cardinality(ips \cap iran) \in Nat /\ Cardinality(ips \ iran) \in Nat
  BY <1>2, FS_Difference, FS_Intersection, FS_CardinalityType
<1>9. /\ Cardinality((ips \ iran) \ checked) = Cardinality(ips \ iran) - Cardinality((ips \ iran) \cap checked)
      /\ Cardinality((ips \ iran) \cap checked) \in Nat /\ Cardinality((ips \ iran) \ checked) \in Nat
  BY <1>8, FS_Difference, FS_Intersection, FS_CardinalityType
<1>10. Cardinality(ips) = Cardinality(ips \cap iran) + Cardinality((ips \ iran) \cap checked)
                            + Cardinality((ips \ iran) \ checked)
  BY <1>2, <1>8, <1>9
<1>11. \A class \in {"iran", "other", "unknown"} : Cardinality(Split(start, end, class)) \in Nat
  BY <1>6, <1>8, <1>9
<1> QED BY <1>2, <1>3, <1>4, <1>5, <1>6, <1>7, <1>10, <1>11 DEF ips, pairs

\* The counts of an address's page.
LEMMA DetailCounts ==
    ASSUME TablesOK, NEW r, r.kind = "detail"
    PROVE  LET all == EventsOf(r.ip, AnyServer) IN
           /\ Cardinality(all) \in Nat /\ Cardinality({e.server : e \in all}) \in Nat
           /\ Cardinality(Listed(r)) =< Cardinality(all)
           /\ Cardinality({e.server : e \in all}) =< Cardinality(all)
<1> DEFINE all == EventsOf(r.ip, AnyServer)
           hosts == {e.server : e \in all}
           f == [e \in all |-> e.server]
<1>1. all \in SUBSET events /\ Listed(r) \in SUBSET all
  BY DEF Listed, EventsOf, Timeline
<1>2. f \in [all -> hosts] /\ \A h \in hosts : \E e \in all : f[e] = h
  OBVIOUS
<1> HIDE DEF all, hosts, f
<1>3. IsFiniteSet(all)
  BY <1>1, PartOf DEF TablesOK
<1>4. /\ Cardinality(all) \in Nat /\ Cardinality(Listed(r)) =< Cardinality(all)
  BY <1>1, <1>3, PartOf
<1>5. Cardinality(hosts) \in Nat /\ Cardinality(hosts) =< Cardinality(all)
  BY <1>2, <1>3, ImageOf
<1> QED BY <1>4, <1>5 DEF all, hosts

Served == {"cards", "overview", "export", "chart"} \cup PageKinds

LEMMA AnswerNumber ==
    ASSUME TablesOK, NEW r, RequestOK(r), r.kind \in Served, NEW i \in 1 .. Queries(r),
           i > 1 => got[1] \in Nat
    PROVE  Answer(r, i) \in Nat
<1> USE ReportsAssumption
<1>1. CASE r.kind = "cards"
  <2>1. i \in {1, 2, 3}
    BY <1>1 DEF Queries
  <2>2. Answer(r, i) = <<Cardinality(events), Cardinality(known), Cardinality(iran)>>[i]
    BY <1>1, Answers
  <2> QED BY <2>1, <2>2, CardsCounts
<1>2. CASE r.kind = "overview"
  <2>1. i \in {1, 2, 3, 4}
    BY <1>2 DEF Queries
  <2> DEFINE all == Cardinality(events)
             ips == Cardinality(Ips(events))
             ours == Cardinality(Ips({e \in events : e.ip \in iran}))
  <2>2. all \in Nat /\ ips \in Nat /\ ours \in Nat
    BY OverviewCounts
  <2>3. Answer(r, i) = <<all, ips, ours, AtMost(ips, TopN)>>[i]
    BY <1>2, Answers, OverviewCounts
  <2> HIDE DEF all, ips, ours
  <2>4. AtMost(ips, TopN) \in Nat
    BY <2>2, SmallerOf
  <2> QED BY <2>1, <2>2, <2>3, <2>4
<1>3. CASE r.kind = "export"
  BY <1>3, Answers, ExportCount
<1>4. CASE r.kind = "chart"
  <2>1. i \in {1, 2, 3, 4, 5, 6, 7}
    BY <1>4 DEF Queries
  <2> DEFINE window == Window(r.start, r.end)
             ips == Ips(window)
             pairs == {<<e.ip, e.at>> : e \in window}
             top == Ips({e \in window : e.ip \in iran})
  <2>2. /\ Cardinality({a \in ips : Country[a] # Unknown}) \in Nat
        /\ \A class \in {"iran", "other", "unknown"} : Cardinality(Split(r.start, r.end, class)) \in Nat
        /\ Cardinality(pairs) \in Nat /\ Cardinality(window) \in Nat
        /\ Cardinality(top) \in Nat
    BY ChartCounts
  <2>3. AtMost(Cardinality(top), TopN) \in Nat
    <3> HIDE DEF top
    <3> QED BY <2>2, SmallerOf
  <2>4. Answer(r, i) = <<Cardinality({a \in ips : Country[a] # Unknown}),
             Cardinality(Split(r.start, r.end, "iran")), Cardinality(Split(r.start, r.end, "other")),
             Cardinality(Split(r.start, r.end, "unknown")),
             Cardinality(window), Cardinality(pairs), AtMost(Cardinality(top), TopN)>>[i]
    BY <1>4, ChartAnswers
  <2> HIDE DEF window, ips, pairs, top
  <2> QED BY <2>1, <2>2, <2>3, <2>4
<1>5. CASE r.kind \in {"ips", "table", "timeline"}
  <2>1. Cardinality(Listed(r)) \in Nat /\ r.page \in Nat /\ r.page > 0
    BY <1>5, ListedOK DEF RequestOK, PageKinds
  <2>2. i > 1 => Rows(got[1], r.page, Cardinality(Listed(r))) \in Nat
    BY <2>1, RowsOf
  <2>3. Answer(r, i) = IF i = 1 THEN Cardinality(Listed(r))
                                ELSE Rows(got[1], r.page, Cardinality(Listed(r)))
    BY <1>5, Answers
  <2>4. i = 1 \/ i > 1
    OBVIOUS
  <2> QED BY <2>1, <2>2, <2>3, <2>4
<1>6. CASE r.kind = "detail"
  <2>1. i \in {1, 2, 3, 4}
    BY <1>6 DEF Queries
  <2>2. Cardinality(Listed(r)) \in Nat /\ r.page \in Nat /\ r.page > 0
    BY <1>6, ListedOK DEF RequestOK, PageKinds
  <2>3. i > 1 => Rows(got[1], r.page, Cardinality(Listed(r))) \in Nat
    BY <2>2, RowsOf
  <2>4. /\ Cardinality(EventsOf(r.ip, AnyServer)) \in Nat
        /\ Cardinality({e.server : e \in EventsOf(r.ip, AnyServer)}) \in Nat
    BY <1>6, DetailCounts
  <2>5. /\ Answer(r, 1) \in Nat /\ Answer(r, 2) \in Nat /\ Answer(r, 3) \in Nat
        /\ i > 1 => Answer(r, 4) \in Nat
    BY <1>6, <2>2, <2>3, <2>4, DetailAnswers
  <2> QED BY <2>1, <2>5
<1> QED BY <1>1, <1>2, <1>3, <1>4, <1>5, <1>6 DEF Served, PageKinds

\* What a query returns depends on the tables and the first number only.
LEMMA AnswerKept ==
    ASSUME UNCHANGED tables, NEW r, r.kind \in Served, NEW i, i = 1 \/ got'[1] = got[1]
    PROVE  Answer(r, i)' = Answer(r, i)
<1>1. events' = events /\ known' = known /\ iran' = iran /\ checked' = checked /\ history' = history
  BY DEF tables
<1>2. CASE r.kind \in {"cards", "overview", "export"}
  BY <1>1, <1>2 DEF Answer, Exported, From, Ips
<1>3. CASE r.kind = "chart"
  BY <1>1, <1>3 DEF Answer, Window, From, Split, Ips
<1>4. CASE r.kind \in {"ips", "table", "timeline"}
  <2>1. Listed(r)' = Listed(r)
    BY <1>1 DEF Listed, IpList, IpTable, EventsOf, Timeline
  <2> QED BY <1>1, <1>4, <2>1 DEF Answer
<1>5. CASE r.kind = "detail"
  <2>1. Listed(r)' = Listed(r) /\ EventsOf(r.ip, AnyServer)' = EventsOf(r.ip, AnyServer)
    BY <1>1 DEF Listed, IpList, IpTable, EventsOf, Timeline
  <2> QED BY <1>1, <1>5, <2>1 DEF Answer
<1> QED BY <1>2, <1>3, <1>4, <1>5 DEF Served, PageKinds

NumbersOK(r, numbers) ==
    /\ RequestOK(r) /\ numbers \in Seq(Nat) /\ Len(numbers) =< Queries(r)
    /\ r.kind \in Served => Len(numbers) > 0
GotOK == NumbersOK(request, got)

\* A request under way that no task has overtaken has the answers of the tables.
Standing ==
    request.kind \in Served /\ ~changed /\ Len(got) < Queries(request)
        => \A i \in 1 .. Len(got) : got[i] = Answer(request, i)

LEMMA QueriesOf ==
    ASSUME NEW r, r.kind \in Kinds
    PROVE  /\ Queries(r) \in Nat
           /\ r.kind \in Served => Queries(r) > 1
           /\ r.kind = "walk" => Queries(r) = 1
           /\ r.kind \in {"none", "walked"} => Queries(r) = 0
  BY DEF Queries, Kinds, Served, PageKinds

LEMMA Beginning ==
    ASSUME BeginPage \/ BeginChart \/ BeginExport \/ BeginList
    PROVE  \E r : Begin(r) /\ RequestOK(r) /\ r.kind \in Served
<1>1. CASE BeginPage
  BY <1>1 DEF BeginPage, RequestOK, Kinds, Served, PageKinds
<1>2. CASE BeginChart
  <2>1. PICK start, end : Begin([kind |-> "chart", start |-> start, end |-> end])
    BY <1>2 DEF BeginChart
  <2> QED BY <2>1 DEF RequestOK, Kinds, Served, PageKinds
<1>3. CASE BeginExport
  <2>1. PICK f \in Filters : Begin(f)
    BY <1>3 DEF BeginExport
  <2>2. f.kind = "export"
    BY DEF Filters
  <2> QED BY <2>1, <2>2 DEF RequestOK, Kinds, Served, PageKinds
<1>4. CASE BeginList
  <2>1. PICK page \in 1 .. 2, iranOnly \in BOOLEAN, s \in Servers \cup {AnyServer} :
           \/ \E c \in CidrFilters \cup {Addresses} :
                 Begin([kind |-> "ips", cidr |-> c, iranOnly |-> iranOnly, page |-> page])
           \/ Begin([kind |-> "table", iranOnly |-> iranOnly, page |-> page])
           \/ Begin([kind |-> "timeline", server |-> s, page |-> page])
           \/ \E a \in known : Begin([kind |-> "detail", ip |-> a, server |-> s, page |-> page])
    BY <1>4 DEF BeginList
  <2> SUFFICES ASSUME NEW r, Begin(r), r.kind \in PageKinds, r.page = page
               PROVE  \E q : Begin(q) /\ RequestOK(q) /\ q.kind \in Served
    <3>1. ASSUME NEW c, Begin([kind |-> "ips", cidr |-> c, iranOnly |-> iranOnly, page |-> page])
          PROVE  \E r : Begin(r) /\ r.kind \in PageKinds /\ r.page = page
      BY <3>1 DEF PageKinds
    <3>2. ASSUME Begin([kind |-> "table", iranOnly |-> iranOnly, page |-> page])
          PROVE  \E r : Begin(r) /\ r.kind \in PageKinds /\ r.page = page
      BY <3>2 DEF PageKinds
    <3>3. ASSUME Begin([kind |-> "timeline", server |-> s, page |-> page])
          PROVE  \E r : Begin(r) /\ r.kind \in PageKinds /\ r.page = page
      BY <3>3 DEF PageKinds
    <3>4. ASSUME NEW a, Begin([kind |-> "detail", ip |-> a, server |-> s, page |-> page])
          PROVE  \E r : Begin(r) /\ r.kind \in PageKinds /\ r.page = page
      BY <3>4 DEF PageKinds
    <3> QED BY <2>1, <3>1, <3>2, <3>3, <3>4
  <2> QED BY DEF RequestOK, Kinds, Served
<1> QED BY <1>1, <1>2, <1>3, <1>4

LEMMA StepIs ==
    ASSUME [Next]_vars
    PROVE  \/ \E r : Begin(r) /\ RequestOK(r) /\ r.kind \in Served
           \/ Query \/ Respond \/ BeginWalk \/ CountPage \/ ReadPage
           \/ Writes \/ UNCHANGED <<tables, request, got, changed, walk>>
<1>1. CASE BeginPage \/ BeginChart \/ BeginExport \/ BeginList
  BY <1>1, Beginning
<1>2. CASE Query \/ Respond \/ BeginWalk \/ CountPage \/ ReadPage
  BY <1>2
<1>3. CASE Day
  BY <1>3 DEF Day
<1>4. CASE \E a \in Addresses, s \in Servers, t \in 0 .. now : Ingest(a, s, t)
  BY <1>4 DEF Ingest
<1>5. CASE \E a \in Addresses, verdict \in BOOLEAN : Classify(a, verdict)
  BY <1>5 DEF Classify
<1>6. CASE \E a \in Addresses : PurgeIp(a)
  BY <1>6 DEF PurgeIp
<1>7. CASE PurgeEvents
  BY <1>7 DEF PurgeEvents
<1>8. CASE UNCHANGED vars
  BY <1>8 DEF vars
<1> QED BY <1>1, <1>2, <1>3, <1>4, <1>5, <1>6, <1>7, <1>8 DEF Next

LEMMA GotStep == ASSUME TablesOK, GotOK, [Next]_vars PROVE GotOK'
<1>0. NumbersOK(request, got)
  BY DEF GotOK
<1> SUFFICES NumbersOK(request', got')
  BY DEF GotOK
<1>1. ASSUME NEW r, Begin(r), RequestOK(r), r.kind \in Served
      PROVE  NumbersOK(request', got')
  <2>1. Queries(r) \in Nat /\ Queries(r) > 1
    BY <1>1, QueriesOf DEF RequestOK
  <2>2. Answer(r, 1) \in Nat
    BY <1>1, <2>1, AnswerNumber
  <2>3. request' = r /\ got' = <<Answer(r, 1)>> /\ changed' = FALSE
    BY <1>1 DEF Begin
  <2>4. got' \in Seq(Nat) /\ Len(got') = 1
    BY <2>2, <2>3
  <2> QED BY <1>1, <2>1, <2>3, <2>4 DEF NumbersOK
<1>2. CASE Query
  <2>1. request' = request /\ changed' = changed /\ Len(got) < Queries(request)
        /\ request.kind # "walk" /\ got' = Append(got, Answer(request, Len(got) + 1))
    BY <1>2 DEF Query
  <2>2. Queries(request) \in Nat /\ request.kind \in Served
    BY <1>0, <2>1, QueriesOf DEF NumbersOK, RequestOK, Kinds, Served, PageKinds
  <2>3. /\ Len(got) \in Nat /\ Len(got) > 0 /\ got[1] \in Nat
        /\ Len(got) + 1 \in 1 .. Queries(request)
    BY <1>0, <2>1, <2>2 DEF NumbersOK
  <2>4. Answer(request, Len(got) + 1) \in Nat
    BY <1>0, <2>2, <2>3, AnswerNumber DEF NumbersOK
  <2>5. got' \in Seq(Nat) /\ Len(got') = Len(got) + 1
    BY <1>0, <2>1, <2>4 DEF NumbersOK
  <2> QED BY <1>0, <2>1, <2>2, <2>3, <2>5 DEF NumbersOK
<1>3. CASE Respond
  <2>1. request' = [kind |-> "none"] /\ got' = <<>> /\ changed' = FALSE
    BY <1>3 DEF Respond, NoRequest
  <2> QED BY <2>1 DEF NumbersOK, RequestOK, Kinds, Queries, Served, PageKinds
<1>4. CASE BeginWalk
  <2>1. request.kind = "none" /\ request' = [kind |-> "walk"] /\ got' = got /\ changed' = changed
    BY <1>4 DEF BeginWalk, NoRequest
  <2>2. Len(got) = 0
    BY <1>0, <2>1, QueriesOf DEF NumbersOK, RequestOK
  <2> QED BY <1>0, <2>1, <2>2 DEF NumbersOK, RequestOK, Kinds, Queries, Served, PageKinds
<1>5. CASE CountPage
  <2>1. Cardinality(events) \in Nat
    BY FS_CardinalityType DEF TablesOK
  <2>2. /\ request.kind = "walk" /\ got = <<>> /\ changed' = FALSE
        /\ \/ request' = [kind |-> "walked"] /\ got' = got
           \/ request' = request /\ got' = <<Cardinality(events)>>
    BY <1>5 DEF CountPage
  <2>3. CASE request' = [kind |-> "walked"] /\ got' = got
    BY <2>2, <2>3 DEF NumbersOK, RequestOK, Kinds, Queries, Served, PageKinds
  <2>4. CASE request' = request /\ got' = <<Cardinality(events)>>
    <3>1. got' \in Seq(Nat) /\ Len(got') = 1
      BY <2>1, <2>4
    <3>2. Queries(request) = 1 /\ RequestOK(request) /\ request.kind \notin Served
      BY <1>0, <2>2, QueriesOf DEF NumbersOK, RequestOK, Served, PageKinds
    <3> QED BY <2>2, <2>4, <3>1, <3>2 DEF NumbersOK
  <2> QED BY <2>2, <2>3, <2>4
<1>6. CASE ReadPage
  <2>1. /\ request.kind = "walk" /\ got' = <<>> /\ changed' = FALSE
        /\ request' = request \/ request' = [kind |-> "walked"]
    BY <1>6 DEF ReadPage
  <2> QED BY <2>1 DEF NumbersOK, RequestOK, Kinds, Queries, Served, PageKinds
<1>7. CASE UNCHANGED <<request, got, changed>>
  BY <1>0, <1>7
<1>8. CASE Writes
  BY <1>0, <1>8 DEF Writes, NumbersOK
<1> QED BY <1>1, <1>2, <1>3, <1>4, <1>5, <1>6, <1>7, <1>8, StepIs

\* The whole answer of a request that no task has overtaken agrees.
LEMMA WholeAgrees ==
    ASSUME TablesOK, NEW r, RequestOK(r), r.kind \in Served,
           NEW g \in Seq(Nat), Len(g) = Queries(r), g[1] = got[1],
           \A i \in 1 .. Queries(r) : g[i] = Answer(r, i)
    PROVE  /\ r.kind = "cards" => g[3] =< g[2]
           /\ r.kind = "overview" => /\ g[3] =< g[2] /\ g[2] =< g[1]
                                     /\ g[4] = AtMost(g[2], TopN)
           /\ r.kind = "export" => g[1] = g[2]
           /\ r.kind = "chart" => LET ips == g[2] + g[3] + g[4] IN
                                  /\ g[1] =< ips /\ ips =< g[6] /\ g[6] =< g[5]
                                  /\ g[7] = AtMost(g[2], TopN)
           /\ r.kind \in {"ips", "table", "timeline"} =>
                g[2] = Top(g[1], r.page) - Bottom(g[1], r.page)
           /\ r.kind = "detail" => /\ g[4] = Top(g[1], r.page) - Bottom(g[1], r.page)
                                   /\ g[1] =< g[2] /\ g[3] =< g[2]
<1>1. ASSUME r.kind = "cards" PROVE g[3] =< g[2]
  <2>1. g[2] = Answer(r, 2) /\ g[3] = Answer(r, 3)
    BY <1>1 DEF Queries
  <2>2. Answer(r, 2) = Cardinality(known) /\ Answer(r, 3) = Cardinality(iran)
    BY <1>1 DEF Answer
  <2> QED BY <2>1, <2>2, CardsCounts
<1>2. ASSUME r.kind = "overview"
      PROVE  g[3] =< g[2] /\ g[2] =< g[1] /\ g[4] = AtMost(g[2], TopN)
  <2> DEFINE all == Cardinality(events)
             ips == Cardinality(Ips(events))
             ours == Cardinality(Ips({e \in events : e.ip \in iran}))
  <2>1. /\ Answer(r, 1) = all /\ Answer(r, 2) = ips /\ Answer(r, 3) = ours
        /\ Answer(r, 4) = AtMost(ips, TopN)
    BY <1>2, OverviewCounts DEF Answer
  <2>2. ours =< ips /\ ips =< all
    BY OverviewCounts
  <2> HIDE DEF all, ips, ours
  <2>3. g[1] = Answer(r, 1) /\ g[2] = Answer(r, 2) /\ g[3] = Answer(r, 3) /\ g[4] = Answer(r, 4)
    BY <1>2 DEF Queries
  <2> QED BY <2>1, <2>2, <2>3
<1>3. ASSUME r.kind = "export" PROVE g[1] = g[2]
  <2>1. g[1] = Answer(r, 1) /\ g[2] = Answer(r, 2)
    BY <1>3 DEF Queries
  <2> QED BY <1>3, <2>1 DEF Answer
<1>4. ASSUME r.kind = "chart"
      PROVE  LET ips == g[2] + g[3] + g[4] IN
             /\ g[1] =< ips /\ ips =< g[6] /\ g[6] =< g[5]
             /\ g[7] = AtMost(g[2], TopN)
  <2> DEFINE window == Window(r.start, r.end)
             located == Cardinality({a \in Ips(window) : Country[a] # Unknown})
             ours == Cardinality(Split(r.start, r.end, "iran"))
             other == Cardinality(Split(r.start, r.end, "other"))
             rest == Cardinality(Split(r.start, r.end, "unknown"))
             pairs == Cardinality({<<e.ip, e.at>> : e \in window})
             all == Cardinality(window)
             total == Cardinality(Ips(window))
  <2>1. /\ located =< total /\ total = ours + other + rest /\ total =< pairs /\ pairs =< all
        /\ Ips({e \in window : e.ip \in iran}) = Split(r.start, r.end, "iran")
    BY ChartCounts
  <2>2. \A i : Answer(r, i) = <<located, ours, other, rest, all, pairs,
                                AtMost(Cardinality(Ips({e \in window : e.ip \in iran})), TopN)>>[i]
    BY <1>4 DEF Answer
  <2>3. \A i : Answer(r, i) = <<located, ours, other, rest, all, pairs, AtMost(ours, TopN)>>[i]
    BY <2>1, <2>2
  <2> HIDE DEF window, located, ours, other, rest, pairs, all, total
  <2>4. /\ g[1] = Answer(r, 1) /\ g[2] = Answer(r, 2) /\ g[3] = Answer(r, 3) /\ g[4] = Answer(r, 4)
        /\ g[5] = Answer(r, 5) /\ g[6] = Answer(r, 6) /\ g[7] = Answer(r, 7)
    BY <1>4 DEF Queries
  <2>5. /\ g[1] = located /\ g[2] = ours /\ g[3] = other /\ g[4] = rest
        /\ g[5] = all /\ g[6] = pairs /\ g[7] = AtMost(ours, TopN)
    BY <2>3, <2>4
  <2> QED BY <2>1, <2>5
<1>5. ASSUME r.kind \in PageKinds
      PROVE  Rows(g[1], r.page, Cardinality(Listed(r))) = Top(g[1], r.page) - Bottom(g[1], r.page)
  <2>1. Cardinality(Listed(r)) \in Nat /\ r.page \in Nat /\ r.page > 0
    BY <1>5, ListedOK DEF RequestOK
  <2>2. Answer(r, 1) = Cardinality(Listed(r))
    BY <1>5, Answers, DetailAnswers DEF PageKinds
  <2>3. g[1] = Answer(r, 1)
    BY QueriesOf DEF RequestOK
  <2> QED BY <2>1, <2>2, <2>3, RowsOf
<1>6. ASSUME r.kind \in {"ips", "table", "timeline"}
      PROVE  g[2] = Top(g[1], r.page) - Bottom(g[1], r.page)
  <2>1. g[2] = Answer(r, 2)
    BY <1>6 DEF Queries
  <2>2. Answer(r, 2) = Rows(got[1], r.page, Cardinality(Listed(r)))
    BY <1>6 DEF Answer
  <2> QED BY <1>5, <1>6, <2>1, <2>2 DEF PageKinds
<1>7. ASSUME r.kind = "detail"
      PROVE  g[4] = Top(g[1], r.page) - Bottom(g[1], r.page) /\ g[1] =< g[2] /\ g[3] =< g[2]
  <2>1. g[1] = Answer(r, 1) /\ g[2] = Answer(r, 2) /\ g[3] = Answer(r, 3) /\ g[4] = Answer(r, 4)
    BY <1>7 DEF Queries
  <2>2. g[4] = Rows(g[1], r.page, Cardinality(Listed(r)))
    BY <1>7, <2>1, DetailAnswers
  <2>3. g[4] = Top(g[1], r.page) - Bottom(g[1], r.page)
    BY <1>5, <1>7, <2>2 DEF PageKinds
  <2> QED BY <1>7, <2>1, <2>3, DetailAnswers, DetailCounts
<1> QED BY <1>1, <1>2, <1>3, <1>4, <1>6, <1>7

\* The agreement concerns the numbers returned and the request only.
LEMMA AgreementKept ==
    ASSUME PageAgrees, UNCHANGED <<request, got>>, changed => changed'
    PROVE  PageAgrees'
<1>1. request' = request /\ got' = got /\ (~changed' => ~changed)
  OBVIOUS
<1>2. \A kind : Answered(kind)' => Answered(kind)
  BY <1>1 DEF Answered, Queries
<1> QED BY <1>1, <1>2 DEF PageAgrees, Top, Bottom, Pages, AtMost

AgreeInv == GotOK /\ Standing /\ PageAgrees

LEMMA AgreeStep == ASSUME TablesOK, AgreeInv, [Next]_vars PROVE Standing' /\ PageAgrees'
<1>0. /\ RequestOK(request) /\ got \in Seq(Nat) /\ Len(got) =< Queries(request)
      /\ request.kind \in Served => Len(got) > 0
      /\ Standing /\ PageAgrees
  BY DEF AgreeInv, GotOK, NumbersOK
<1>1. ASSUME NEW r, Begin(r), RequestOK(r), r.kind \in Served
      PROVE  Standing' /\ PageAgrees'
  <2>1. Queries(r) \in Nat /\ Queries(r) > 1
    BY <1>1, QueriesOf DEF RequestOK
  <2>2. request' = r /\ got' = <<Answer(r, 1)>> /\ UNCHANGED tables
    BY <1>1 DEF Begin
  <2>3. Len(got') = 1 /\ got'[1] = Answer(r, 1)
    BY <2>2
  <2>4. Answer(r, 1)' = Answer(r, 1)
    BY <1>1, <2>2, AnswerKept
  <2>5. \A i \in 1 .. Len(got') : got'[i] = Answer(request, i)'
    BY <2>2, <2>3, <2>4
  <2>6. Len(got') # Queries(request')
    BY <2>1, <2>2, <2>3
  <2>7. \A kind : ~Answered(kind)'
    BY <2>6 DEF Answered
  <2> QED BY <2>5, <2>7 DEF Standing, PageAgrees
<1>2. CASE Query
  <2> DEFINE n == Len(got)
  <2>1. request' = request /\ changed' = changed /\ n < Queries(request)
        /\ request.kind # "walk" /\ got' = Append(got, Answer(request, n + 1)) /\ UNCHANGED tables
    BY <1>2 DEF Query
  <2>2. Queries(request) \in Nat /\ request.kind \in Served
    BY <1>0, <2>1, QueriesOf DEF RequestOK, Kinds, Served, PageKinds
  <2>3. n \in Nat /\ n > 0
    BY <1>0, <2>2
  <2>4. CASE changed
    <3>1. \A kind : ~Answered(kind)'
      BY <2>1, <2>4 DEF Answered
    <3> QED BY <2>1, <2>4, <3>1 DEF Standing, PageAgrees
  <2>5. CASE ~changed
    <3>1. \A i \in 1 .. n : got[i] = Answer(request, i)
      BY <1>0, <2>1, <2>2, <2>5 DEF Standing
    <3>2. Answer(request, n + 1) \in Nat
      <4>1. got[1] \in Nat /\ n + 1 \in 1 .. Queries(request)
        BY <1>0, <2>1, <2>2, <2>3
      <4> QED BY <1>0, <2>2, <4>1, AnswerNumber
    <3>3. /\ got' \in Seq(Nat) /\ Len(got') = n + 1 /\ got'[n + 1] = Answer(request, n + 1)
          /\ \A i \in 1 .. n : got'[i] = got[i]
      BY <1>0, <2>1, <3>2
    <3>4. got'[1] = got[1]
      BY <2>3, <3>3
    <3>5. \A i \in 1 .. Len(got') : got'[i] = Answer(request, i)
      BY <2>3, <3>1, <3>3
    <3>6. \A i : Answer(request, i)' = Answer(request, i)
      <4> TAKE i
      <4>1. UNCHANGED tables
        BY <2>1
      <4>2. request' = request
        BY <2>1
      <4> HIDE DEF n
      <4> QED BY <2>2, <3>4, <4>1, <4>2, AnswerKept
    <3>7. Standing'
      BY <2>1, <3>5, <3>6 DEF Standing
    <3>8. CASE Len(got') = Queries(request)
      <4>1. \A i \in 1 .. Queries(request) : got'[i] = Answer(request, i)
        BY <3>5, <3>8
      <4> DEFINE g == got'
      <4>2. g \in Seq(Nat) /\ Len(g) = Queries(request) /\ g[1] = got[1]
            /\ \A i \in 1 .. Queries(request) : g[i] = Answer(request, i)
        BY <3>3, <3>4, <3>8, <4>1
      <4> HIDE DEF g
      <4>3. /\ request.kind = "cards" => g[3] =< g[2]
            /\ request.kind = "overview" => g[3] =< g[2] /\ g[2] =< g[1] /\ g[4] = AtMost(g[2], TopN)
            /\ request.kind = "export" => g[1] = g[2]
            /\ request.kind = "chart" => LET ips == g[2] + g[3] + g[4] IN
                  g[1] =< ips /\ ips =< g[6] /\ g[6] =< g[5] /\ g[7] = AtMost(g[2], TopN)
            /\ request.kind \in {"ips", "table", "timeline"} =>
                  g[2] = Top(g[1], request.page) - Bottom(g[1], request.page)
            /\ request.kind = "detail" => g[4] = Top(g[1], request.page) - Bottom(g[1], request.page)
                                           /\ g[1] =< g[2] /\ g[3] =< g[2]
        BY <1>0, <2>2, <4>2, WholeAgrees
      <4>4. request' = request /\ got' = g
        BY <2>1 DEF g
      <4>5. \A kind : Answered(kind)' => request.kind = kind
        BY <4>4 DEF Answered
      <4> QED BY <3>7, <4>3, <4>4, <4>5 DEF PageAgrees, Top, Bottom, Pages, AtMost
    <3>9. CASE Len(got') # Queries(request)
      <4>1. \A kind : ~Answered(kind)'
        BY <2>1, <3>9 DEF Answered, Queries
      <4> QED BY <3>7, <4>1 DEF PageAgrees
    <3> QED BY <3>8, <3>9
  <2> QED BY <2>4, <2>5
<1>3. CASE Respond \/ BeginWalk \/ CountPage \/ ReadPage
  <2>1. request'.kind \in {"none", "walk", "walked"}
    <3>1. CASE Respond \/ BeginWalk
      BY <3>1 DEF Respond, BeginWalk, NoRequest
    <3>2. CASE CountPage \/ ReadPage
      <4>1. request.kind = "walk" /\ (request' = request \/ request' = [kind |-> "walked"])
        BY <3>2 DEF CountPage, ReadPage
      <4> QED BY <4>1
    <3> QED BY <1>3, <3>1, <3>2
  <2>2. \A kind \in Served : ~Answered(kind)'
    BY <2>1 DEF Answered, Served, PageKinds
  <2> QED BY <2>1, <2>2 DEF Standing, PageAgrees, Served, PageKinds
<1>4. CASE Writes
  <2>1. request' = request /\ got' = got
        /\ changed' = (changed \/ Len(got) \in 1 .. Queries(request) - 1
                               \/ (request.kind = "walk" /\ got # <<>>))
    BY <1>4 DEF Writes
  <2>2. PageAgrees'
    BY <1>0, <2>1, AgreementKept
  <2>3. request.kind \in Served /\ Len(got) < Queries(request) => changed'
    <3> SUFFICES ASSUME request.kind \in Served, Len(got) < Queries(request) PROVE changed'
      OBVIOUS
    <3>1. Queries(request) \in Nat /\ Len(got) \in Nat /\ Len(got) > 0
      BY <1>0, QueriesOf DEF RequestOK
    <3>2. Len(got) \in 1 .. Queries(request) - 1
      BY <3>1
    <3> QED BY <2>1, <3>2
  <2> QED BY <2>1, <2>2, <2>3 DEF Standing, Queries
<1>5. CASE UNCHANGED <<tables, request, got, changed, walk>>
  <2>1. request' = request /\ got' = got /\ changed' = changed /\ UNCHANGED tables
    BY <1>5
  <2>2. PageAgrees'
    BY <1>0, <2>1, AgreementKept
  <2>3. request.kind \in Served => \A i : Answer(request, i)' = Answer(request, i)
    <3> SUFFICES ASSUME request.kind \in Served, NEW i PROVE Answer(request, i)' = Answer(request, i)
      OBVIOUS
    <3> QED BY <2>1, AnswerKept
  <2> QED BY <1>0, <2>1, <2>2, <2>3 DEF Standing, Queries
<1> QED BY <1>1, <1>2, <1>3, <1>4, <1>5, StepIs

\* The answers of one request agree when no task has written between its
\* queries, however time passes and whatever happens to the tables before.
THEOREM PageAgreesThm == Spec => []PageAgrees
<1>1. Init => AgreeInv
  BY DEF Init, AgreeInv, GotOK, NumbersOK, RequestOK, Standing, PageAgrees, Answered,
         NoRequest, Kinds, Queries, Served, PageKinds
<1>2. TablesOK /\ AgreeInv /\ [Next]_vars => AgreeInv'
  BY GotStep, AgreeStep DEF AgreeInv
<1>3. AgreeInv => PageAgrees
  BY DEF AgreeInv
<1> QED BY <1>1, <1>2, <1>3, TablesThm, PTL DEF Spec
-----------------------------------------------------------------------------
(* The client that follows the pages.                                      *)

\* What is left to see lies below the pages already read, and a count that no
\* task has overtaken is the number of the events.
WalkOK ==
    /\ DOMAIN walk = {"page", "seen", "steady", "spoilt"}
    /\ request.kind = "walk" =>
         /\ walk.page \in Nat /\ walk.page > 0
         /\ walk.steady \subseteq events
         /\ got # <<>> => got[1] \in Nat /\ walk.page =< Pages(got[1])
                            /\ (~changed => got[1] = Cardinality(events))
         /\ ~walk.spoilt => \A e \in walk.steady \ walk.seen :
                              Cardinality(Newer(e)) >= (walk.page - 1) * PageSize
    /\ WalkMissesNothing

LEMMA NewerOf ==
    ASSUME TablesOK, NEW e \in events
    PROVE  /\ Newer(e) \in SUBSET events /\ IsFiniteSet(Newer(e))
           /\ Cardinality(Newer(e)) \in Nat /\ Cardinality(events) \in Nat
           /\ Cardinality(Newer(e)) < Cardinality(events)
<1>1. Newer(e) \in SUBSET (events \ {e}) /\ e.at \in Nat
  BY DEF Newer, TablesOK, Events
<1>2. IsFiniteSet(events \ {e}) /\ Cardinality(events \ {e}) = Cardinality(events) - 1
      /\ Cardinality(events) \in Nat
  BY FS_RemoveElement, FS_CardinalityType DEF TablesOK
<1>3. IsFiniteSet(Newer(e)) /\ Cardinality(Newer(e)) \in Nat /\ Cardinality(Newer(e)) =< Cardinality(events \ {e})
  BY <1>1, <1>2, PartOf
<1> QED BY <1>1, <1>2, <1>3

\* Nothing that stays moves up: an event that arrives can only push it down, and
\* what retention deletes is older.
LEMMA NewerKept ==
    ASSUME TablesOK, TablesOK', [Next]_vars, NEW e \in events, e \in events'
    PROVE  Cardinality(Newer(e)') >= Cardinality(Newer(e))
<1>1. IsFiniteSet(Newer(e)') /\ Cardinality(Newer(e)) \in Nat
  <2>1. Newer(e)' \in SUBSET events' /\ IsFiniteSet(events')
    BY DEF Newer, TablesOK
  <2> QED BY <2>1, NewerOf, FS_Subset
<1>2. SUFFICES Newer(e) \subseteq Newer(e)'
  BY <1>1, FS_Subset
<1>3. CASE events' = events
  BY <1>3 DEF Newer
<1>4. ASSUME NEW a \in Addresses, NEW s \in Servers, NEW t \in 0 .. now, Ingest(a, s, t)
      PROVE  Newer(e) \subseteq Newer(e)'
  BY <1>4 DEF Ingest, Newer
<1>5. CASE PurgeEvents
  <2>1. events' = {f \in events : ~(f.at + RequestDays < now)}
    BY <1>5 DEF PurgeEvents
  <2>2. now \in Nat /\ RequestDays \in Nat /\ \A f \in events : f.at \in Nat
    BY ReportsAssumption DEF TablesOK, Events
  <2>3. \A f \in events : f.at > e.at => f \in events'
    BY <2>1, <2>2
  <2> QED BY <2>3 DEF Newer
<1>6. CASE \E a \in Addresses, verdict \in BOOLEAN : Classify(a, verdict)
  BY <1>3, <1>6 DEF Classify
<1>7. CASE \E a \in Addresses : PurgeIp(a)
  BY <1>3, <1>7 DEF PurgeIp
<1>8. CASE UNCHANGED tables
  BY <1>3, <1>8 DEF tables
<1>9. CASE Day \/ BeginPage \/ BeginChart \/ BeginExport \/ BeginList \/ Query \/ Respond
             \/ BeginWalk \/ CountPage \/ ReadPage
  <2>1. CASE BeginPage \/ BeginChart \/ BeginExport \/ BeginList
    BY <1>8, <2>1, Beginning DEF Begin
  <2>2. CASE Day \/ Query \/ Respond \/ BeginWalk \/ CountPage \/ ReadPage
    BY <1>8, <2>2 DEF Day, Query, Respond, BeginWalk, CountPage, ReadPage
  <2> QED BY <1>9, <2>1, <2>2
<1>10. CASE UNCHANGED vars
  BY <1>8, <1>10 DEF vars
<1> QED BY <1>4, <1>5, <1>6, <1>7, <1>9, <1>10 DEF Next

\* A page that no task has overtaken, of a list without ties, has every event
\* whose place is on it.
LEMMA SliceHas ==
    ASSUME TablesOK, NEW bottom \in Nat, NEW top \in Nat, NEW rows \in Slices(bottom, top),
           NEW e \in events, Tied(e) = {e},
           Cardinality(Newer(e)) >= bottom, Cardinality(Newer(e)) < top
    PROVE  e \in rows
<1>1. Cardinality(Tied(e)) = 1
  BY FS_Singleton
<1>2. Cardinality(Newer(e)) \in Nat
  BY NewerOf
<1> DEFINE before == Cardinality(Newer(e))
           to == before + Cardinality(Tied(e))
<1>3. before >= bottom /\ to =< top => e \in rows
  BY DEF Slices
<1> HIDE DEF before
<1> QED BY <1>1, <1>2, <1>3 DEF before

LEMMA ReadPageStep ==
    ASSUME TablesOK, GotOK, WalkOK, ReadPage PROVE WalkOK'
<1> DEFINE n == got[1]
           page == walk.page
           bottom == Bottom(n, page)
           top == Top(n, page)
<1>1. /\ request.kind = "walk" /\ got # <<>> /\ got' = <<>> /\ UNCHANGED tables
      /\ request' = IF top < n THEN request ELSE [kind |-> "walked"]
  BY DEF ReadPage
<1>2. PICK rows \in Slices(bottom, top) :
        walk' = [walk EXCEPT !.page = @ + 1, !.seen = @ \cup rows,
                             !.spoilt = @ \/ changed \/ \E e \in events : Tied(e) # {e}]
  BY DEF ReadPage
<1>3. /\ DOMAIN walk' = {"page", "seen", "steady", "spoilt"}
      /\ walk'.page = page + 1 /\ walk'.seen = walk.seen \cup rows /\ walk'.steady = walk.steady
      /\ walk'.spoilt = (walk.spoilt \/ changed \/ \E e \in events : Tied(e) # {e})
  BY <1>2 DEF WalkOK
<1>4. /\ page \in Nat /\ page > 0 /\ n \in Nat /\ page =< Pages(n) /\ walk.steady \subseteq events
      /\ ~changed => n = Cardinality(events)
      /\ ~walk.spoilt => \A e \in walk.steady \ walk.seen :
                           Cardinality(Newer(e)) >= (page - 1) * PageSize
  BY <1>1 DEF WalkOK
<1>5. events' = events
  BY <1>1 DEF tables
<1>6. /\ bottom = (page - 1) * PageSize /\ bottom \in Nat /\ top \in Nat
      /\ top = IF bottom + PageSize =< n THEN bottom + PageSize ELSE n
  <2>1. /\ bottom = (page - 1) * PageSize /\ bottom \in Nat /\ top \in Nat
        /\ top = AtMost(bottom + PageSize, n)
    BY <1>4, SliceOf
  <2>2. PageSize \in Nat
    BY ReportsAssumption
  <2> HIDE DEF n, bottom, top
  <2>3. bottom + PageSize \in Nat /\ n \in Nat
    BY <1>4, <2>1, <2>2
  <2> QED BY <2>1, <2>3, SmallerOf
<1> HIDE DEF n, page, bottom, top
<1>7. ASSUME ~walk'.spoilt, NEW e \in walk.steady, e \notin walk'.seen
      PROVE  Cardinality(Newer(e)) >= top /\ n = Cardinality(events) /\ e \in events
  <2>1. ~walk.spoilt /\ ~changed /\ \A f \in events : Tied(f) = {f}
    BY <1>3, <1>7
  <2>2. e \in events /\ e \in walk.steady \ walk.seen /\ e \notin rows
    BY <1>3, <1>4, <1>7
  <2>3. Cardinality(Newer(e)) >= bottom
    BY <1>4, <1>6, <2>1, <2>2
  <2>4. Cardinality(Newer(e)) \in Nat
    BY <2>2, NewerOf
  <2>5. ~(Cardinality(Newer(e)) < top)
    BY <1>6, <2>1, <2>2, <2>3, SliceHas
  <2> QED BY <1>4, <1>6, <2>1, <2>2, <2>4, <2>5
<1>8. CASE top < n
  <2>1. request' = request /\ request.kind = "walk"
    BY <1>1, <1>8
  <2>2. PageSize \in Nat /\ top = (walk'.page - 1) * PageSize
    <3>1. PageSize \in Nat /\ walk'.page - 1 = page
      BY <1>3, <1>4, ReportsAssumption
    <3>2. top = (page - 1) * PageSize + PageSize
      BY <1>4, <1>6, <1>8, <3>1
    <3>3. (page - 1) * PageSize + PageSize = page * PageSize
      BY <1>4, <3>1
    <3> QED BY <3>1, <3>2, <3>3
  <2>3. ~walk'.spoilt => \A e \in walk'.steady \ walk'.seen :
                           Cardinality(Newer(e)') >= (walk'.page - 1) * PageSize
    BY <1>3, <1>5, <1>7, <2>2 DEF Newer
  <2> QED BY <1>1, <1>3, <1>4, <1>5, <2>1, <2>3 DEF WalkOK, WalkMissesNothing, Newer
<1>9. CASE ~(top < n)
  <2>1. request'.kind = "walked"
    BY <1>1, <1>9
  <2>2. ~walk'.spoilt => walk'.steady \subseteq walk'.seen
    <3> SUFFICES ASSUME ~walk'.spoilt, NEW e \in walk.steady, e \notin walk'.seen PROVE FALSE
      BY <1>3
    <3>1. Cardinality(Newer(e)) >= top /\ n = Cardinality(events) /\ e \in events
      BY <1>7
    <3> QED BY <1>4, <1>6, <1>9, <3>1, NewerOf
  <2> QED BY <1>3, <2>1, <2>2 DEF WalkOK, WalkMissesNothing
<1> QED BY <1>8, <1>9

LEMMA CountPageStep ==
    ASSUME TablesOK, GotOK, WalkOK, CountPage PROVE WalkOK'
<1> DEFINE n == Cardinality(events)
<1>1. request.kind = "walk" /\ got = <<>> /\ changed' = FALSE /\ walk' = walk /\ events' = events
  BY DEF CountPage, tables
<1>2. /\ walk.page \in Nat /\ walk.page > 0 /\ walk.steady \subseteq events
      /\ ~walk.spoilt => \A e \in walk.steady \ walk.seen :
                           Cardinality(Newer(e)) >= (walk.page - 1) * PageSize
  BY <1>1 DEF WalkOK
<1>3. n \in Nat
  BY FS_CardinalityType DEF TablesOK
<1>4. CASE walk.page > Pages(n)
  <2>1. request'.kind = "walked"
    BY <1>4 DEF CountPage
  <2>2. ~walk.spoilt => walk.steady \subseteq walk.seen
    <3> SUFFICES ASSUME ~walk.spoilt, NEW e \in walk.steady, e \notin walk.seen PROVE FALSE
      OBVIOUS
    <3>1. e \in events /\ Cardinality(Newer(e)) >= (walk.page - 1) * PageSize
      BY <1>2
    <3>2. Pages(n) \in Nat /\ n =< Pages(n) * PageSize /\ PageSize \in Nat
      BY <1>3, PagesOf, ReportsAssumption
    <3>3. Pages(n) =< walk.page - 1
      BY <1>2, <1>4, <3>2
    <3>4. Pages(n) * PageSize =< (walk.page - 1) * PageSize
      BY <1>2, <3>2, <3>3
    <3>5. Cardinality(Newer(e)) \in Nat /\ Cardinality(Newer(e)) < n
      BY <3>1, NewerOf
    <3>6. (walk.page - 1) * PageSize \in Nat /\ Pages(n) * PageSize \in Nat
      BY <1>2, <3>2
    <3> HIDE DEF n
    <3> QED BY <1>3, <3>1, <3>2, <3>4, <3>5, <3>6
  <2> QED BY <1>1, <2>1, <2>2 DEF WalkOK, WalkMissesNothing
<1>5. CASE ~(walk.page > Pages(n))
  <2>1. request' = request /\ got' = <<n>>
    BY <1>5 DEF CountPage
  <2>2. Pages(n) \in Nat /\ walk.page =< Pages(n)
    BY <1>2, <1>3, <1>5, PagesOf
  <2>3. got'[1] = n /\ Pages(n)' = Pages(n)
    BY <1>1, <2>1 DEF Pages
  <2> HIDE DEF n
  <2> QED BY <1>1, <1>2, <1>3, <2>1, <2>2, <2>3 DEF WalkOK, WalkMissesNothing, Newer, n
<1> QED BY <1>4, <1>5

LEMMA WritesStep ==
    ASSUME TablesOK, TablesOK', GotOK, WalkOK, [Next]_vars, Writes PROVE WalkOK'
<1>1. /\ request' = request /\ got' = got
      /\ walk' = [walk EXCEPT !.steady = @ \cap events']
      /\ changed' = (changed \/ Len(got) \in 1 .. Queries(request) - 1
                             \/ (request.kind = "walk" /\ got # <<>>))
  BY DEF Writes
<1>2. /\ DOMAIN walk' = {"page", "seen", "steady", "spoilt"}
      /\ walk'.page = walk.page /\ walk'.seen = walk.seen /\ walk'.spoilt = walk.spoilt
      /\ walk'.steady = walk.steady \cap events'
  BY <1>1 DEF WalkOK
<1>3. WalkMissesNothing'
  BY <1>1, <1>2 DEF WalkOK, WalkMissesNothing
<1>4. ASSUME request.kind = "walk"
      PROVE  /\ walk.page \in Nat /\ walk.page > 0
             /\ got # <<>> => got[1] \in Nat /\ walk.page =< Pages(got[1]) /\ changed'
  BY <1>1, <1>4 DEF WalkOK
<1>5. ASSUME request.kind = "walk", ~walk.spoilt, NEW e \in walk.steady \cap events', e \notin walk.seen
      PROVE  Cardinality(Newer(e)') >= (walk.page - 1) * PageSize
  <2>1. e \in events /\ Cardinality(Newer(e)) >= (walk.page - 1) * PageSize /\ walk.page \in Nat /\ walk.page > 0
    BY <1>5 DEF WalkOK
  <2>2. Cardinality(Newer(e)') >= Cardinality(Newer(e))
    BY <1>5, <2>1, NewerKept
  <2>3. Cardinality(Newer(e)) \in Nat
    BY <2>1, NewerOf
  <2>4. Cardinality(Newer(e)') \in Nat
    <3>1. Newer(e)' \in SUBSET events' /\ IsFiniteSet(events')
      BY DEF Newer, TablesOK
    <3> QED BY <3>1, PartOf
  <2>5. (walk.page - 1) * PageSize \in Nat
    BY <2>1, ReportsAssumption
  <2> QED BY <2>1, <2>2, <2>3, <2>4, <2>5
<1> QED BY <1>1, <1>2, <1>3, <1>4, <1>5 DEF WalkOK

LEMMA WalkStep ==
    ASSUME TablesOK, TablesOK', GotOK, WalkOK, [Next]_vars PROVE WalkOK'
<1>1. ASSUME NEW r, Begin(r), RequestOK(r), r.kind \in Served PROVE WalkOK'
  <2>1. request' = r /\ walk' = walk /\ r.kind # "walk" /\ r.kind # "walked"
    BY <1>1 DEF Begin, Served, PageKinds
  <2> QED BY <2>1 DEF WalkOK, WalkMissesNothing
<1>2. CASE Query
  <2>1. request' = request /\ walk' = walk /\ request.kind # "walk"
    BY <1>2 DEF Query
  <2> QED BY <2>1 DEF WalkOK, WalkMissesNothing
<1>3. CASE Respond
  <2>1. request'.kind = "none" /\ walk' = NoWalk
    BY <1>3 DEF Respond, NoRequest
  <2> QED BY <2>1 DEF WalkOK, WalkMissesNothing, NoWalk
<1>4. CASE BeginWalk
  <2>1. /\ request'.kind = "walk" /\ got' = got /\ events' = events
        /\ walk' = [page |-> 1, seen |-> {}, steady |-> events, spoilt |-> FALSE]
    BY <1>4 DEF BeginWalk, tables
  <2>2. got = <<>>
    <3>1. got \in Seq(Nat) /\ Len(got) = 0
      BY <1>4, QueriesOf DEF BeginWalk, NoRequest, GotOK, NumbersOK, RequestOK
    <3> QED BY <3>1
  <2>3. \A e \in events : Cardinality(Newer(e)') >= (walk'.page - 1) * PageSize
    <3> SUFFICES ASSUME NEW e \in events PROVE Cardinality(Newer(e)') >= (walk'.page - 1) * PageSize
      OBVIOUS
    <3>1. Newer(e)' = Newer(e) /\ Cardinality(Newer(e)) \in Nat
      BY <2>1, NewerOf DEF Newer
    <3>2. (walk'.page - 1) * PageSize = 0
      BY <2>1, ReportsAssumption
    <3> QED BY <3>1, <3>2
  <2>4. /\ walk'.page = 1 /\ walk'.steady = events /\ walk'.seen = {}
        /\ DOMAIN walk' = {"page", "seen", "steady", "spoilt"}
    BY <2>1
  <2> QED BY <2>1, <2>2, <2>3, <2>4 DEF WalkOK, WalkMissesNothing
<1>5. CASE UNCHANGED <<tables, request, got, changed, walk>>
  BY <1>5 DEF tables, WalkOK, WalkMissesNothing, Newer, Pages
<1> QED BY <1>1, <1>2, <1>3, <1>4, <1>5, ReadPageStep, CountPageStep, WritesStep, StepIs

\* A client that follows the pages to the last one has seen every event that
\* stayed, for any page size, number of events and interleaving with the tasks.
THEOREM WalkMissesNothingThm == Spec => []WalkMissesNothing
<1>1. Init => GotOK /\ WalkOK
  BY DEF Init, GotOK, NumbersOK, RequestOK, NoRequest, NoWalk, Kinds, Queries, Served, PageKinds,
         WalkOK, WalkMissesNothing
<1>2. TablesOK /\ GotOK /\ WalkOK /\ [Next]_vars => GotOK' /\ WalkOK'
  BY GotStep, WalkStep, TablesStep
<1>3. WalkOK => WalkMissesNothing
  BY DEF WalkOK
<1> QED BY <1>1, <1>2, <1>3, TablesThm, PTL DEF Spec
-----------------------------------------------------------------------------
(* The sum over a finite set, as MapThenSumSet computes it.                *)

First(s) == CHOOSE x \in s : TRUE
Adds(g, f, S) == g = [s \in SUBSET S |-> IF s = {} THEN 0 ELSE f[First(s)] + g[s \ {First(s)}]]
Sums(f, S) == CHOOSE g : Adds(g, f, S)

\* A set of numbers that has one has a least one: induction, by its absurd.
LEMMA LeastNumber ==
    ASSUME NEW U \in SUBSET Nat, U # {}
    PROVE  \E n \in U : \A m \in U : n =< m
<1> DEFINE R == OpToRel(<, Nat)
<1>1. IsWellFoundedOn(R, Nat)
  BY NatLessThanWellFounded
<1>2. PICK n \in U : \A m \in U : ~(<<m, n>> \in R)
  <2> HIDE DEF R
  <2> QED BY <1>1, WFMin
<1>3. \A m \in U : ~(m < n)
  BY <1>2 DEF OpToRel
<1> QED BY <1>3

\* The subsets of a finite set, by size.
UpTo(n, S) == {s \in SUBSET S : Cardinality(s) =< n}
SumsUpTo(n, f, S) ==
    \E g : g = [s \in UpTo(n, S) |-> IF s = {} THEN 0 ELSE f[First(s)] + g[s \ {First(s)}]]

LEMMA Smaller ==
    ASSUME NEW S, IsFiniteSet(S), NEW s \in SUBSET S
    PROVE  /\ Cardinality(s) \in Nat /\ Cardinality(s) =< Cardinality(S)
           /\ Cardinality(s) = 0 <=> s = {}
           /\ s # {} => /\ First(s) \in s /\ s \ {First(s)} \in SUBSET S
                        /\ Cardinality(s \ {First(s)}) = Cardinality(s) - 1
<1>1. IsFiniteSet(s)
  BY FS_Subset
<1>2. ASSUME s # {} PROVE First(s) \in s
  BY <1>2 DEF First
<1> QED BY <1>1, <1>2, FS_Subset, FS_CardinalityType, FS_EmptySet, FS_RemoveElement

LEMMA SumsGrow ==
    ASSUME NEW S, IsFiniteSet(S), NEW f, NEW n \in Nat, SumsUpTo(n, f, S)
    PROVE  SumsUpTo(n + 1, f, S)
<1>1. PICK g : g = [s \in UpTo(n, S) |-> IF s = {} THEN 0 ELSE f[First(s)] + g[s \ {First(s)}]]
  BY DEF SumsUpTo
<1> DEFINE h == [s \in UpTo(n + 1, S) |-> IF s = {} THEN 0 ELSE f[First(s)] + g[s \ {First(s)}]]
<1>2. ASSUME NEW s \in UpTo(n + 1, S), s # {}
      PROVE  /\ s \ {First(s)} \in UpTo(n, S)
             /\ s \ {First(s)} \in UpTo(n + 1, S)
  BY <1>2, Smaller DEF UpTo
<1>3. ASSUME NEW t \in UpTo(n, S), t \in UpTo(n + 1, S) PROVE h[t] = g[t]
  BY <1>1, <1>3
<1>4. h = [s \in UpTo(n + 1, S) |-> IF s = {} THEN 0 ELSE f[First(s)] + h[s \ {First(s)}]]
  <2>1. ASSUME NEW s \in UpTo(n + 1, S), s # {} PROVE h[s \ {First(s)}] = g[s \ {First(s)}]
    BY <1>2, <1>3, <2>1
  <2> HIDE DEF h
  <2>2. h = [s \in UpTo(n + 1, S) |-> IF s = {} THEN 0 ELSE f[First(s)] + g[s \ {First(s)}]]
    BY DEF h
  <2> QED BY <2>1, <2>2
<1> QED BY <1>4 DEF SumsUpTo

LEMMA SumsExist ==
    ASSUME NEW S, IsFiniteSet(S), NEW f
    PROVE  Adds(Sums(f, S), f, S)
<1> DEFINE U == {n \in Nat : ~SumsUpTo(n, f, S)}
<1>1. SumsUpTo(0, f, S)
  <2> DEFINE g == [s \in UpTo(0, S) |-> 0]
  <2>1. ASSUME NEW s \in UpTo(0, S) PROVE s = {}
    <3>1. s \in SUBSET S /\ Cardinality(s) =< 0
      BY DEF UpTo
    <3>2. Cardinality(s) \in Nat /\ (Cardinality(s) = 0 => s = {})
      BY <3>1, Smaller
    <3> QED BY <3>1, <3>2
  <2>2. g = [s \in UpTo(0, S) |-> IF s = {} THEN 0 ELSE f[First(s)] + g[s \ {First(s)}]]
    BY <2>1
  <2> QED BY <2>2 DEF SumsUpTo
<1>2. U = {}
  <2> SUFFICES ASSUME U # {} PROVE FALSE
    OBVIOUS
  <2>1. PICK n \in U : \A m \in U : n =< m
    BY LeastNumber
  <2>2. n # 0
    BY <1>1
  <2>3. n - 1 \in Nat /\ n - 1 \notin U
    BY <2>1, <2>2
  <2>4. SumsUpTo((n - 1) + 1, f, S)
    BY <2>3, SumsGrow
  <2> QED BY <2>4
<1>3. Cardinality(S) \in Nat /\ UpTo(Cardinality(S), S) = SUBSET S
  BY Smaller, FS_CardinalityType DEF UpTo
<1>4. SumsUpTo(Cardinality(S), f, S)
  BY <1>2, <1>3
<1>5. \E g : Adds(g, f, S)
  BY <1>3, <1>4 DEF SumsUpTo, Adds
<1> QED BY <1>5 DEF Sums

\* Counting the parts of a set one by one counts the set.
LEMMA PartsAddUp ==
    ASSUME NEW S, IsFiniteSet(S), NEW T, IsFiniteSet(T),
           NEW p \in [S -> SUBSET T], NEW f, \A x \in S : f[x] = Cardinality(p[x]),
           \A x, y \in S : x # y => p[x] \cap p[y] = {},
           NEW F, Adds(F, f, S)
    PROVE  F[S] = Cardinality(UNION {p[x] : x \in S})
<1> DEFINE All(s) == UNION {p[x] : x \in s}
           U == {n \in Nat : \E s \in SUBSET S : Cardinality(s) = n /\ F[s] # Cardinality(All(s))}
<1>1. \A s \in SUBSET S : F[s] = IF s = {} THEN 0 ELSE f[First(s)] + F[s \ {First(s)}]
  BY DEF Adds
<1>2. U = {}
  <2> SUFFICES ASSUME U # {} PROVE FALSE
    OBVIOUS
  <2>1. PICK n \in U : n \in Nat /\ \A m \in U : n =< m
    <3> HIDE DEF U
    <3>1. U \in SUBSET Nat
      BY DEF U
    <3> QED BY <3>1, LeastNumber
  <2>2. PICK s \in SUBSET S : Cardinality(s) = n /\ F[s] # Cardinality(All(s))
    OBVIOUS
  <2>3. s # {}
    <3>1. ASSUME s = {} PROVE F[s] = 0 /\ All(s) = {}
      BY <1>1, <3>1
    <3> HIDE DEF All
    <3> QED BY <2>2, <3>1, FS_EmptySet
  <2> DEFINE x == First(s)
             t == s \ {x}
  <2>4. x \in s /\ t \in SUBSET S /\ Cardinality(t) = n - 1 /\ n - 1 \in Nat
    BY <2>2, <2>3, Smaller
  <2>5. F[t] = Cardinality(All(t))
    <3>1. n - 1 \notin U
      <4> HIDE DEF U, x, t
      <4> QED BY <2>1, <2>4
    <3> HIDE DEF All, x, t
    <3> QED BY <2>4, <3>1
  <2>6. F[s] = f[x] + F[t]
    BY <1>1, <2>3
  <2> HIDE DEF x
  <2>7. /\ All(s) = All(t) \cup p[x] /\ All(t) \cap p[x] = {}
        /\ All(t) \in SUBSET T /\ p[x] \in SUBSET T
    BY <2>4
  <2> HIDE DEF All, t
  <2>8. /\ IsFiniteSet(All(t)) /\ IsFiniteSet(p[x])
        /\ Cardinality(All(t)) \in Nat /\ Cardinality(p[x]) \in Nat /\ f[x] = Cardinality(p[x])
    BY <2>4, <2>7, PartOf
  <2>9. Cardinality(All(s)) = Cardinality(All(t)) + Cardinality(p[x])
    <3>1. Cardinality(All(t) \cap p[x]) = 0
      BY <2>7, FS_EmptySet
    <3>2. Cardinality(All(t) \cup p[x])
            = Cardinality(All(t)) + Cardinality(p[x]) - Cardinality(All(t) \cap p[x])
      BY <2>8, FS_Union
    <3> QED BY <2>7, <2>8, <3>1, <3>2
  <2> QED BY <2>2, <2>5, <2>6, <2>8, <2>9
<1>3. Cardinality(S) \in Nat
  BY FS_CardinalityType
<1> QED BY <1>2, <1>3

\* A set counted by the values of a column, one row for each value.
LEMMA ColumnAddsUp ==
    ASSUME NEW T, IsFiniteSet(T), NEW column, NEW S, IsFiniteSet(S), NEW v,
           \A a \in T : \E d \in S : v[d] = column[a],
           \A d, e \in S : v[d] = v[e] => d = e,
           NEW p \in [S -> SUBSET T], \A d \in S : \A b \in T : b \in p[d] <=> column[b] = v[d],
           NEW f, \A d \in S : f[d] = Cardinality(p[d]),
           NEW F, Adds(F, f, S)
    PROVE  F[S] = Cardinality(T)
<1>1. \A d, e \in S : d # e => p[d] \cap p[e] = {}
  <2> SUFFICES ASSUME NEW d \in S, NEW e \in S, NEW b \in p[d], b \in p[e] PROVE d = e
    OBVIOUS
  <2>1. b \in T
    OBVIOUS
  <2> QED BY <2>1
<1>2. UNION {p[d] : d \in S} = T
  <2>1. ASSUME NEW a \in T PROVE \E d \in S : a \in p[d]
    OBVIOUS
  <2>2. \A d \in S : p[d] \subseteq T
    OBVIOUS
  <2> QED BY <2>1, <2>2
<1>3. F[S] = Cardinality(UNION {p[d] : d \in S})
  BY <1>1, PartsAddUp
<1> QED BY <1>2, <1>3

LEMMA EventsAddUp ==
    ASSUME TablesOK
    PROVE  MapThenSumSet(LAMBDA a : Cardinality(EventsOf(a, AnyServer)), known) = Cardinality(events)
<1> DEFINE p == [a \in known |-> EventsOf(a, AnyServer)]
           f == [a \in known |-> Cardinality(EventsOf(a, AnyServer))]
           F == CHOOSE g : g = [s \in SUBSET known |->
                  IF s = {} THEN 0 ELSE Cardinality(EventsOf(CHOOSE x \in s : TRUE, AnyServer))
                                        + g[s \ {CHOOSE x \in s : TRUE}]]
<1>1. MapThenSumSet(LAMBDA a : Cardinality(EventsOf(a, AnyServer)), known) = F[known]
  BY DEF MapThenSumSet, MapThenFoldSet
<1>2. \A s \in SUBSET known : s # {} =>
        f[First(s)] = Cardinality(EventsOf(CHOOSE x \in s : TRUE, AnyServer))
  BY DEF First
<1>3. Adds(F, f, known)
  <2>1. \A g : [s \in SUBSET known |-> IF s = {} THEN 0 ELSE f[First(s)] + g[s \ {First(s)}]]
             = [s \in SUBSET known |->
                  IF s = {} THEN 0 ELSE Cardinality(EventsOf(CHOOSE x \in s : TRUE, AnyServer))
                                        + g[s \ {CHOOSE x \in s : TRUE}]]
    BY <1>2 DEF First
  <2>2. Adds(Sums(f, known), f, known)
    BY SumsExist DEF TablesOK
  <2> HIDE DEF f
  <2>3. \A g : Adds(g, f, known) <=> g = [s \in SUBSET known |->
                  IF s = {} THEN 0 ELSE Cardinality(EventsOf(CHOOSE x \in s : TRUE, AnyServer))
                                        + g[s \ {CHOOSE x \in s : TRUE}]]
    BY <2>1 DEF Adds
  <2> QED BY <2>2, <2>3, ZenonT(30)
<1>4. /\ p \in [known -> SUBSET events]
      /\ \A a, b \in known : a # b => p[a] \cap p[b] = {}
      /\ UNION {p[a] : a \in known} = events
  BY DEF EventsOf, Timeline, TablesOK, Ips
<1>5. \A a \in known : f[a] = Cardinality(p[a])
  OBVIOUS
<1> HIDE DEF F, f, p
<1>6. IsFiniteSet(known) /\ IsFiniteSet(events)
  BY DEF TablesOK
<1>7. F[known] = Cardinality(UNION {p[a] : a \in known})
  BY <1>3, <1>4, <1>5, <1>6, PartsAddUp
<1> QED BY <1>1, <1>4, <1>7

LEMMA DirectoryAddsUp ==
    ASSUME TablesOK, NEW column
    PROVE  /\ MapThenSumSet(LAMBDA d : d.total, Directory(column))
                = Cardinality({a \in known : column[a] # Unknown})
           /\ \A d \in Directory(column) :
                /\ d.value # Unknown
                /\ d.total = Cardinality({b \in known : column[b] = d.value})
                /\ d.iran = Cardinality({b \in known \cap iran : column[b] = d.value})
                /\ d.iran =< d.total
<1> DEFINE T == {a \in known : column[a] # Unknown}
           row == [a \in T |-> [value |-> column[a],
                                total |-> Cardinality({b \in known : column[b] = column[a]}),
                                iran |-> Cardinality({b \in known \cap iran : column[b] = column[a]})]]
           S == Directory(column)
           f == [d \in S |-> d.total]
           v == [d \in S |-> d.value]
           F == CHOOSE g : g = [s \in SUBSET S |->
                  IF s = {} THEN 0 ELSE (CHOOSE x \in s : TRUE).total + g[s \ {CHOOSE x \in s : TRUE}]]
<1>1. T \in SUBSET known /\ IsFiniteSet(T)
  <2>1. T \in SUBSET known
    OBVIOUS
  <2> HIDE DEF T
  <2> QED BY <2>1, PartOf DEF TablesOK
<1>2. S = {row[a] : a \in T}
  BY DEF Directory
<1>3. \A a \in T : /\ row[a].value = column[a]
                   /\ row[a].total = Cardinality({b \in known : column[b] = column[a]})
                   /\ row[a].iran = Cardinality({b \in known \cap iran : column[b] = column[a]})
  OBVIOUS
<1>4. \A a, b \in T : column[a] = column[b] => row[a] = row[b]
  OBVIOUS
<1>5. \A a \in T : column[a] # Unknown
  OBVIOUS
<1>6. \A a \in T : {b \in T : column[b] = column[a]} = {b \in known : column[b] = column[a]}
  OBVIOUS
<1>7. MapThenSumSet(LAMBDA d : d.total, S) = F[S]
  BY DEF MapThenSumSet, MapThenFoldSet
<1> HIDE DEF T, row, S
<1>8. IsFiniteSet(S)
  <2> DEFINE h == [a \in T |-> row[a]]
  <2>1. h \in [T -> S] /\ \A d \in S : \E a \in T : h[a] = d
    BY <1>2
  <2> HIDE DEF h
  <2> QED BY <1>1, <2>1, ImageOf
<1>9. ASSUME NEW d \in S
      PROVE  /\ d.value # Unknown
             /\ d.total = Cardinality({b \in known : column[b] = d.value})
             /\ d.iran = Cardinality({b \in known \cap iran : column[b] = d.value})
             /\ d.total = Cardinality({b \in T : column[b] = d.value})
             /\ d.iran =< d.total
  <2>1. PICK a \in T : d = row[a]
    BY <1>2
  <2>2. /\ d.value = column[a] /\ d.total = Cardinality({b \in known : column[b] = column[a]})
        /\ d.iran = Cardinality({b \in known \cap iran : column[b] = column[a]})
    BY <1>3, <2>1
  <2> DEFINE all == {b \in known : column[b] = column[a]}
             ours == {b \in known \cap iran : column[b] = column[a]}
  <2>3. all \in SUBSET known /\ ours \in SUBSET all
    OBVIOUS
  <2>4. Cardinality(ours) =< Cardinality(all)
    <3> HIDE DEF all, ours
    <3>1. IsFiniteSet(all)
      BY <2>3, PartOf DEF TablesOK
    <3> QED BY <2>3, <3>1, PartOf
  <2>5. {b \in T : column[b] = column[a]} = all
    BY <1>6
  <2> QED BY <1>5, <2>2, <2>4, <2>5
<1>10. Adds(F, f, S)
  <2>1. \A g : [s \in SUBSET S |-> IF s = {} THEN 0 ELSE f[First(s)] + g[s \ {First(s)}]]
             = [s \in SUBSET S |->
                  IF s = {} THEN 0 ELSE (CHOOSE x \in s : TRUE).total + g[s \ {CHOOSE x \in s : TRUE}]]
    <3>1. \A s \in SUBSET S : s # {} => f[First(s)] = (CHOOSE x \in s : TRUE).total
      BY DEF First
    <3> HIDE DEF f
    <3> QED BY <3>1 DEF First
  <2>2. Adds(Sums(f, S), f, S)
    BY <1>8, SumsExist
  <2> HIDE DEF f
  <2>3. \A g : Adds(g, f, S) <=> g = [s \in SUBSET S |->
                  IF s = {} THEN 0 ELSE (CHOOSE x \in s : TRUE).total + g[s \ {CHOOSE x \in s : TRUE}]]
    BY <2>1 DEF Adds
  <2> QED BY <2>2, <2>3, ZenonT(30)
<1>11. \A a \in T : \E d \in S : v[d] = column[a]
  <2> SUFFICES ASSUME NEW a \in T PROVE \E d \in S : v[d] = column[a]
    OBVIOUS
  <2>1. row[a] \in S /\ row[a].value = column[a]
    BY <1>2, <1>3
  <2> QED BY <2>1
<1>12. \A d, e \in S : v[d] = v[e] => d = e
  <2> SUFFICES ASSUME NEW d \in S, NEW e \in S, d.value = e.value PROVE d = e
    OBVIOUS
  <2>1. PICK a \in T : d = row[a]
    BY <1>2
  <2>2. PICK b \in T : e = row[b]
    BY <1>2
  <2>3. row[a].value = column[a] /\ row[b].value = column[b]
    BY <1>3
  <2> QED BY <1>4, <2>1, <2>2, <2>3
<1> DEFINE p == [d \in S |-> {b \in T : column[b] = d.value}]
<1>13. /\ \A d \in S : f[d] = Cardinality(p[d])
       /\ p \in [S -> SUBSET T] /\ \A d \in S : \A b \in T : b \in p[d] <=> column[b] = v[d]
  BY <1>9
<1> HIDE DEF F, f, v, p
<1>14. F[S] = Cardinality(T)
  BY <1>1, <1>8, <1>10, <1>11, <1>12, <1>13, ColumnAddsUp
<1> QED BY <1>7, <1>9, <1>14 DEF S, T

LEMMA ClustersAddUp ==
    ASSUME NEW T, IsFiniteSet(T)
    PROVE  MapThenSumSet(LAMBDA c : c.count, Clusters(T)) = Cardinality(T)
<1> DEFINE row == [a \in T |-> [cell |-> Cell[a],
                                count |-> Cardinality({b \in T : Cell[b] = Cell[a]}),
                                iran |-> Cardinality({b \in T \cap iran : Cell[b] = Cell[a]})]]
           S == Clusters(T)
           f == [d \in S |-> d.count]
           v == [d \in S |-> d.cell]
           F == CHOOSE g : g = [s \in SUBSET S |->
                  IF s = {} THEN 0 ELSE (CHOOSE x \in s : TRUE).count + g[s \ {CHOOSE x \in s : TRUE}]]
<1>1. S = {row[a] : a \in T}
  BY DEF Clusters
<1>2. \A a \in T : row[a].cell = Cell[a] /\ row[a].count = Cardinality({b \in T : Cell[b] = Cell[a]})
  OBVIOUS
<1>3. \A a, b \in T : Cell[a] = Cell[b] => row[a] = row[b]
  OBVIOUS
<1>4. MapThenSumSet(LAMBDA c : c.count, S) = F[S]
  BY DEF MapThenSumSet, MapThenFoldSet
<1> HIDE DEF row, S
<1>5. IsFiniteSet(S)
  <2> DEFINE h == [a \in T |-> row[a]]
  <2>1. h \in [T -> S] /\ \A d \in S : \E a \in T : h[a] = d
    BY <1>1
  <2> HIDE DEF h
  <2> QED BY <2>1, ImageOf
<1>6. Adds(F, f, S)
  <2>1. \A g : [s \in SUBSET S |-> IF s = {} THEN 0 ELSE f[First(s)] + g[s \ {First(s)}]]
             = [s \in SUBSET S |->
                  IF s = {} THEN 0 ELSE (CHOOSE x \in s : TRUE).count + g[s \ {CHOOSE x \in s : TRUE}]]
    <3>1. \A s \in SUBSET S : s # {} => f[First(s)] = (CHOOSE x \in s : TRUE).count
      BY DEF First
    <3> HIDE DEF f
    <3> QED BY <3>1 DEF First
  <2>2. Adds(Sums(f, S), f, S)
    BY <1>5, SumsExist
  <2> HIDE DEF f
  <2>3. \A g : Adds(g, f, S) <=> g = [s \in SUBSET S |->
                  IF s = {} THEN 0 ELSE (CHOOSE x \in s : TRUE).count + g[s \ {CHOOSE x \in s : TRUE}]]
    BY <2>1 DEF Adds
  <2> QED BY <2>2, <2>3, ZenonT(30)
<1>7. \A a \in T : \E d \in S : v[d] = Cell[a]
  <2> SUFFICES ASSUME NEW a \in T PROVE \E d \in S : v[d] = Cell[a]
    OBVIOUS
  <2>1. row[a] \in S /\ row[a].cell = Cell[a]
    BY <1>1, <1>2
  <2> QED BY <2>1
<1>8. \A d, e \in S : v[d] = v[e] => d = e
  <2> SUFFICES ASSUME NEW d \in S, NEW e \in S, d.cell = e.cell PROVE d = e
    OBVIOUS
  <2>1. PICK a \in T : d = row[a]
    BY <1>1
  <2>2. PICK b \in T : e = row[b]
    BY <1>1
  <2>3. row[a].cell = Cell[a] /\ row[b].cell = Cell[b]
    BY <1>2
  <2> QED BY <1>3, <2>1, <2>2, <2>3
<1> DEFINE p == [d \in S |-> {b \in T : Cell[b] = d.cell}]
<1>9. /\ \A d \in S : f[d] = Cardinality(p[d])
      /\ p \in [S -> SUBSET T] /\ \A d \in S : \A b \in T : b \in p[d] <=> Cell[b] = v[d]
  <2>1. ASSUME NEW d \in S PROVE d.count = Cardinality({b \in T : Cell[b] = d.cell})
    <3>1. PICK a \in T : d = row[a]
      BY <1>1
    <3> QED BY <1>2, <3>1
  <2> QED BY <2>1
<1> HIDE DEF F, f, v, p
<1>10. F[S] = Cardinality(T)
  BY <1>5, <1>6, <1>7, <1>8, <1>9, ColumnAddsUp
<1> QED BY <1>4, <1>10 DEF S

LEMMA DisjointAddUp ==
    ASSUME NEW S, IsFiniteSet(S), IsFiniteSet(UNION S),
           \A x, y \in S : x # y => x \cap y = {}
    PROVE  MapThenSumSet(Cardinality, S) = Cardinality(UNION S)
<1> DEFINE p == [x \in S |-> x]
           f == [x \in S |-> Cardinality(x)]
           F == CHOOSE g : g = [s \in SUBSET S |->
                  IF s = {} THEN 0 ELSE Cardinality(CHOOSE x \in s : TRUE) + g[s \ {CHOOSE x \in s : TRUE}]]
<1>1. MapThenSumSet(Cardinality, S) = F[S]
  BY DEF MapThenSumSet, MapThenFoldSet
<1>2. /\ p \in [S -> SUBSET UNION S] /\ UNION {p[x] : x \in S} = UNION S
      /\ \A x, y \in S : x # y => p[x] \cap p[y] = {}
  OBVIOUS
<1>3. \A x \in S : f[x] = Cardinality(p[x])
  OBVIOUS
<1>4. Adds(F, f, S)
  <2>1. \A g : [s \in SUBSET S |-> IF s = {} THEN 0 ELSE f[First(s)] + g[s \ {First(s)}]]
             = [s \in SUBSET S |->
                  IF s = {} THEN 0 ELSE Cardinality(CHOOSE x \in s : TRUE) + g[s \ {CHOOSE x \in s : TRUE}]]
    <3>1. \A s \in SUBSET S : s # {} => f[First(s)] = Cardinality(CHOOSE x \in s : TRUE)
      BY DEF First
    <3> HIDE DEF f
    <3> QED BY <3>1 DEF First
  <2>2. Adds(Sums(f, S), f, S)
    BY SumsExist
  <2> HIDE DEF f
  <2>3. \A g : Adds(g, f, S) <=> g = [s \in SUBSET S |->
                  IF s = {} THEN 0 ELSE Cardinality(CHOOSE x \in s : TRUE) + g[s \ {CHOOSE x \in s : TRUE}]]
    BY <2>1 DEF Adds
  <2> QED BY <2>2, <2>3, ZenonT(30)
<1> HIDE DEF F, f, p
<1>5. F[S] = Cardinality(UNION {p[x] : x \in S})
  BY <1>2, <1>3, <1>4, PartsAddUp
<1> QED BY <1>1, <1>2, <1>5

LEMMA MapAddsUp ==
    ASSUME TablesOK,
           NEW parts, parts = {OnMap(s, 0, now) : s \in {"iran", "non_iran", "unknown"}}
    PROVE  /\ UNION parts = OnMap("all", 0, now)
           /\ MapThenSumSet(Cardinality, parts) = Cardinality(OnMap("all", 0, now))
<1> DEFINE ours == Located \cap iran
           others == Located \cap (checked \ iran)
           rest == Located \cap (known \ checked)
<1>1. OnMap("all", 0, now) = Located \cap known /\ parts = {ours, others, rest}
  BY DEF OnMap
<1>2. /\ ours \cap others = {} /\ ours \cap rest = {} /\ others \cap rest = {}
      /\ ours \cup others \cup rest = Located \cap known
  BY DEF TablesOK
<1>3. IsFiniteSet(Located \cap known)
  <2>1. Located \cap known \in SUBSET known
    OBVIOUS
  <2> QED BY <2>1, FS_Subset DEF TablesOK
<1> HIDE DEF ours, others, rest
<1>4. UNION parts = Located \cap known
  BY <1>1, <1>2
<1>5. \A x, y \in parts : x # y => x \cap y = {}
  BY <1>1, <1>2
<1>6. IsFiniteSet(parts)
  <2>1. IsFiniteSet({ours}) /\ IsFiniteSet({ours} \cup {others})
        /\ IsFiniteSet(({ours} \cup {others}) \cup {rest})
    BY FS_Singleton, FS_AddElement
  <2>2. ({ours} \cup {others}) \cup {rest} = {ours, others, rest}
    OBVIOUS
  <2> QED BY <1>1, <2>1, <2>2
<1> QED BY <1>1, <1>3, <1>4, <1>5, <1>6, DisjointAddUp

\* The lists of addresses and of events.
LEMMA ListsAgree ==
    ASSUME TablesOK
    PROVE  /\ IpTable(FALSE) = Ips(events) /\ IpTable(TRUE) = Ips(RestEvents(AllTime, TRUE))
           /\ IpList(Addresses, Unknown, Unknown, TRUE) = iran
           /\ \A s \in Servers : UNION {EventsOf(a, s) : a \in known} = Timeline(s)
<1>1. \A a \in known : EventsOf(a, AnyServer) # {} <=> a \in Ips(events)
  BY DEF EventsOf, Timeline, Ips
<1>2. IpTable(FALSE) = Ips(events)
  BY <1>1 DEF IpTable, TablesOK
<1>3. IpTable(TRUE) = Ips(events) \cap iran
  BY <1>1 DEF IpTable, TablesOK
<1>4. Ips(RestEvents(AllTime, TRUE)) = Ips(events) \cap iran
  BY DEF RestEvents, From, Ips
<1>5. IpList(Addresses, Unknown, Unknown, TRUE) = iran
  BY DEF IpList, TablesOK
<1>6. ASSUME NEW s \in Servers PROVE UNION {EventsOf(a, s) : a \in known} = Timeline(s)
  <2>1. Timeline(s) \subseteq events
    BY DEF Timeline
  <2>2. \A e \in Timeline(s) : e.ip \in known
    BY <2>1 DEF TablesOK, Ips
  <2> QED BY <2>2 DEF EventsOf
<1> QED BY <1>2, <1>3, <1>4, <1>5, <1>6

\* A directory counts what the lists it leads to show.
LEMMA DirectoriesAgree ==
    ASSUME TablesOK
    PROVE  /\ \A d \in Directory(Asn) :
                Cardinality(Search([kind |-> "asn", asn |-> d.value]).ips) = d.total
           /\ \A d \in Directory(Country) :
                Cardinality(IpList(Addresses, Unknown, d.value, TRUE)) = d.iran
<1>1. ASSUME NEW d \in Directory(Asn)
      PROVE  Cardinality(Search([kind |-> "asn", asn |-> d.value]).ips) = d.total
  <2>1. d.value # Unknown /\ d.total = Cardinality({b \in known : Asn[b] = d.value})
    BY DirectoryAddsUp
  <2>2. Search([kind |-> "asn", asn |-> d.value]).ips = IpList(Addresses, d.value, Unknown, FALSE)
    BY DEF Search
  <2>3. IpList(Addresses, d.value, Unknown, FALSE) = {b \in known : Asn[b] = d.value}
    BY <2>1 DEF IpList, TablesOK
  <2> QED BY <2>1, <2>2, <2>3
<1>2. ASSUME NEW d \in Directory(Country)
      PROVE  Cardinality(IpList(Addresses, Unknown, d.value, TRUE)) = d.iran
  <2>1. d.value # Unknown /\ d.iran = Cardinality({b \in known \cap iran : Country[b] = d.value})
    BY DirectoryAddsUp
  <2>2. IpList(Addresses, Unknown, d.value, TRUE) = {b \in known \cap iran : Country[b] = d.value}
    BY <2>1 DEF IpList, TablesOK
  <2> QED BY <2>1, <2>2
<1> QED BY <1>1, <1>2

\* A search for a range and one for an address find the same ones.
LEMMA SearchesAgree ==
    ASSUME NEW c, NEW a
    PROVE  a \in Search([kind |-> "cidr", range |-> c]).ips
             => a \in c /\ Search([kind |-> "address", ip |-> a]).page = "detail"
  BY DEF Search, IpList

LEMMA FoundInRange ==
    ASSUME NEW c, NEW a, a \in c, Search([kind |-> "address", ip |-> a]).page = "detail"
    PROVE  a \in Search([kind |-> "cidr", range |-> c]).ips
<1>1. a \in known
  BY DEF Search
<1> QED BY <1>1 DEF Search, IpList

\* The chart, the REST list and the exports of a period.
LEMMA PeriodsAgree ==
    ASSUME TablesOK, NEW start, start # AllTime, NEW f,
           f = [start |-> start, server |-> AnyServer, cidr |-> Addresses, only503 |-> TRUE, status |-> "current"]
    PROVE  /\ Ips(RestEvents(start, TRUE)) = Split(start, now, "iran")
           /\ Exported(f) = Split(start, now, "iran")
           /\ Exported([f EXCEPT !.start = AllTime]) = Ips(events) \cap iran
<1>1. From(start) = Window(start, now) /\ Window(start, now) \subseteq events
  BY DEF From, Window, TablesOK
<1>2. Split(start, now, "iran") = Ips(Window(start, now)) \cap iran
  BY DEF Split
<1>3. Ips(RestEvents(start, TRUE)) = Split(start, now, "iran")
  BY <1>1, <1>2 DEF RestEvents, Ips
<1>4. ASSUME NEW g, g.server = AnyServer, g.cidr = Addresses, g.only503 = TRUE, g.status = "current"
      PROVE  Exported(g) = Ips(From(g.start)) \cap iran
  <2>1. {e \in From(g.start) : g.server \in {AnyServer, e.server}} = From(g.start)
    BY <1>4
  <2>2. Exported(g) = Ips(From(g.start)) \cap Addresses \cap iran
    BY <1>4, <2>1 DEF Exported
  <2> QED BY <2>2 DEF TablesOK
<1>5. f.start = start /\ [f EXCEPT !.start = AllTime].start = AllTime
  OBVIOUS
<1>6. From(AllTime) = events
  BY DEF From
<1>7. Exported(f) = Ips(From(start)) \cap iran
  BY <1>4, <1>5
<1>8. Exported([f EXCEPT !.start = AllTime]) = Ips(From(AllTime)) \cap iran
  BY <1>4
<1> QED BY <1>1, <1>2, <1>3, <1>6, <1>7, <1>8

\* Pages that answer one question by different queries give one answer, for any
\* columns, grid and sizes.
THEOREM ReadersAgreeThm == Spec => []ReadersAgree
<1>1. ASSUME TablesOK PROVE ReadersAgree
  <2>1. ASSUME NEW column \in {Country, Asn}
        PROVE  /\ MapThenSumSet(LAMBDA d : d.total, Directory(column))
                    = Cardinality({a \in known : column[a] # Unknown})
               /\ \A d \in Directory(column) : d.iran =< d.total
    BY <1>1, DirectoryAddsUp
  <2>2. \A c \in CidrFilters : \A a \in Addresses :
          a \in Search([kind |-> "cidr", range |-> c]).ips
            <=> a \in c /\ Search([kind |-> "address", ip |-> a]).page = "detail"
    BY SearchesAgree, FoundInRange
  <2>3. LET parts == {OnMap(s, 0, now) : s \in {"iran", "non_iran", "unknown"}} IN
        /\ UNION parts = OnMap("all", 0, now)
        /\ MapThenSumSet(Cardinality, parts) = Cardinality(OnMap("all", 0, now))
    BY <1>1, MapAddsUp
  <2>4. ASSUME NEW p \in Periods
        PROVE  /\ Ips(RestEvents(Since(p), TRUE)) = Split(Since(p), now, "iran")
               /\ LET f == [start |-> Since(p), server |-> AnyServer, cidr |-> Addresses,
                            only503 |-> TRUE, status |-> "current"] IN
                  /\ Exported(f) = Split(Since(p), now, "iran")
                  /\ Exported([f EXCEPT !.start = AllTime]) = Ips(events) \cap iran
    <3>1. now \in Nat /\ RequestDays \in Nat /\ p \in Nat /\ p =< RequestDays
      BY <1>1, ReportsAssumption DEF TablesOK
    <3>2. Since(p) # AllTime
      <4>1. now + RequestDays - p \in Nat
        BY <3>1
      <4> QED BY <4>1, ReportsAssumption DEF Since
    <3> QED BY <1>1, <3>2, PeriodsAgree
  <2>5. ASSUME NEW s \in {"all", "503"}
        PROVE  LET shown == OnMap(s, 0, now) IN
               /\ MapThenSumSet(LAMBDA c : c.count, Clusters(shown)) = Cardinality(shown)
               /\ Cardinality(shown) =< MaxPoints => Points(shown) = Cardinality(shown)
    <3> DEFINE shown == OnMap(s, 0, now)
    <3>1. shown \in SUBSET known
      BY <1>1 DEF OnMap, Window, From, Ips, TablesOK
    <3> HIDE DEF shown
    <3>2. IsFiniteSet(shown) /\ Cardinality(shown) \in Nat /\ MaxPoints \in Nat
      BY <1>1, <3>1, PartOf, ReportsAssumption DEF TablesOK
    <3>3. Cardinality(shown) =< MaxPoints => Points(shown) = Cardinality(shown)
      BY <3>2, SmallerOf DEF Points
    <3>4. MapThenSumSet(LAMBDA c : c.count, Clusters(shown)) = Cardinality(shown)
      BY <3>2, ClustersAddUp
    <3> QED BY <3>3, <3>4 DEF shown
  <2> QED BY <1>1, <2>1, <2>2, <2>3, <2>4, <2>5, ListsAgree, EventsAddUp, DirectoriesAgree DEF ReadersAgree
<1> QED BY <1>1, TablesThm, PTL DEF Spec
=============================================================================
