------------------------------- MODULE Reports ------------------------------
(***************************************************************************)
(* What the pages, downloads and JSON endpoints read: the stat cards and   *)
(* the search (apps/dashboard), the overview, table and timeline           *)
(* (apps/incidents/views.py), the lists and the page of an address         *)
(* (apps/ips/views.py), the REST lists (apps/api/viewsets.py), the Iran    *)
(* export (apps/iran/export.py, views.py), the charts and the map          *)
(* (apps/dashboard, apps/api/views.py), beside the tasks that write.  One  *)
(* request makes several queries, each its own transaction; the tables may *)
(* change between two of them.                                             *)
(*                                                                         *)
(* Time is counted in days.  A CIDR filter is the set of addresses it      *)
(* contains.  Events are told apart by address, server and day; none comes *)
(* from the future.  Layout and order of the answers are left out.         *)
(***************************************************************************)
EXTENDS Naturals, Sequences, FiniteSets, FiniteSetsExt

CONSTANTS Addresses, Servers,
          AllTime,     \* period=all
          Periods,     \* PERIODS and PERIOD_DELTAS, in days
          CidrFilters, \* the CIDRs an export is asked for
          Located,     \* the addresses with coordinates once they are known
          Cell,        \* grid cell of each address at low zoom
          Country,     \* country_code of each address, once known
          Asn,         \* asn of each address, once known
          Unknown,     \* no country, no asn
          PageSize,    \* rows of a page
          TopN,        \* rows of the tables of top addresses
          MaxPoints,   \* MAX_INDIVIDUAL_POINTS
          RequestDays, \* REQUEST_RETENTION_DAYS
          MaxDays,     \* bound on the days
          MaxEvents    \* bound on the events stored at a time

AnyServer == "any server"

ASSUME ReportsAssumption ==
    /\ Periods \subseteq Nat /\ TopN \in Nat \ {0} /\ MaxPoints \in Nat
    /\ RequestDays \in Nat /\ MaxDays \in Nat /\ MaxEvents \in Nat
    /\ CidrFilters \subseteq SUBSET Addresses /\ Located \subseteq Addresses
    /\ PageSize \in Nat \ {0}
    /\ AnyServer \notin Servers /\ AllTime \notin Nat
    /\ \A p \in Periods : p =< RequestDays   \* both 30 days by default

VARIABLES now,
          events,        \* request_events
          known,         \* ip_addresses
          iran, checked, \* those with is_iran; with iran_checked_at
          history,       \* IPCountryHistory: "none", "open" or some row "closed"
          request,       \* the request being served; its period starts when it does
          got,           \* the numbers its queries have returned
          changed,       \* history: a task wrote between two of its queries
          walk           \* a client that follows a REST list page by page

tables == <<events, known, iran, checked, history>>
vars == <<now, tables, request, got, changed, walk>>

NoRequest == [kind |-> "none"]
NoWalk == [page |-> 0, seen |-> {}, steady |-> {}, spoilt |-> FALSE]

Init ==
    /\ now = 0
    /\ events = {} /\ known = {}
    /\ iran = {} /\ checked = {}
    /\ history = [a \in Addresses |-> "none"]
    /\ request = NoRequest /\ got = <<>> /\ changed = FALSE
    /\ walk = NoWalk

Ips(es) == {e.ip : e \in es}
AtMost(n, m) == Min({n, m})
-----------------------------------------------------------------------------
(* The queries. *)

\* timestamp__gte, kept RequestDays ahead to stay a natural number.
Since(period) == now + RequestDays - period
From(start) == IF start = AllTime THEN events ELSE {e \in events : start =< e.at + RequestDays}

\* RequestEvent.objects.filter(timestamp__gte=start, timestamp__lte=end)
Window(start, end) == {e \in From(start) : e.at =< end}

\* IPExportService.build_queryset: without a period, a server and "503 only"
\* addresses without events are exported too.
Exported(f) ==
    LET seen == IF f.only503 \/ f.server # AnyServer \/ f.start # AllTime
                THEN Ips({e \in From(f.start) : f.server \in {AnyServer, e.server}})
                ELSE known
        status == CASE f.status = "current"  -> iran
                    [] f.status = "previous" -> {a \in known \ iran : history[a] = "closed"}
                    [] f.status = "any"      -> known
    IN seen \cap f.cidr \cap status

\* iran_split: the addresses of a chart's window.
Split(start, end, class) ==
    LET ips == Ips(Window(start, end)) IN
    CASE class = "iran"    -> ips \cap iran
      [] class = "other"   -> (ips \ iran) \cap checked
      [] class = "unknown" -> (ips \ iran) \ checked

\* Mutant of OnMap: addresses nobody has checked are shown as not Iranian.
OnMapUnchecked(status, start, end) ==
    Located \cap CASE status = "all"      -> known
                   [] status = "503"      -> Ips(Window(start, end))
                   [] status = "iran"     -> iran
                   [] status = "non_iran" -> known \ iran
                   [] status = "unknown"  -> known \ checked

\* filtered_queryset: the map's status selector.
OnMap(status, start, end) ==
    Located \cap CASE status = "all"      -> known
                   [] status = "503"      -> Ips(Window(start, end))
                   [] status = "iran"     -> iran
                   [] status = "non_iran" -> checked \ iran
                   [] status = "unknown"  -> known \ checked

\* _clustered_points below HIGH_ZOOM_THRESHOLD, _individual_points above it.
Clusters(ips) == {[cell |-> Cell[a],
                   count |-> Cardinality({b \in ips : Cell[b] = Cell[a]}),
                   iran |-> Cardinality({b \in ips \cap iran : Cell[b] = Cell[a]})] : a \in ips}
Points(ips) == AtMost(Cardinality(ips), MaxPoints)

\* ip_list, and get_queryset of the REST lists of addresses.
IpList(cidr, asn, country, iranOnly) ==
    {a \in known \cap cidr :
        /\ asn \in {Unknown, Asn[a]} /\ country \in {Unknown, Country[a]}
        /\ iranOnly => a \in iran}

\* timeline, and the events of one address on its page and in the API.
Timeline(server) == {e \in events : server \in {AnyServer, e.server}}
EventsOf(a, server) == {e \in Timeline(server) : e.ip = a}

\* _ips_with_503 of the incidents' table.
IpTable(iranOnly) == {a \in known : EventsOf(a, AnyServer) # {} /\ (iranOnly => a \in iran)}

\* RequestEventViewSet: ?days= and ?is_iran=.
RestEvents(start, iranOnly) == {e \in From(start) : iranOnly => e.ip \in iran}

\* country_list and asn_list: a row for each value, with two counts.
Directory(column) ==
    {[value |-> column[a],
      total |-> Cardinality({b \in known : column[b] = column[a]}),
      iran |-> Cardinality({b \in known \cap iran : column[b] = column[a]})] :
        a \in {b \in known : column[b] # Unknown}}

\* resolve_search: where an operator is sent, by what the text can be read as.
Search(q) ==
    CASE q.kind = "address" /\ q.ip \in known     -> [page |-> "detail", ip |-> q.ip]
      [] q.kind = "cidr"                          -> [page |-> "list", ips |-> IpList(q.range, Unknown, Unknown, FALSE)]
      [] q.kind = "asn"                           -> [page |-> "list", ips |-> IpList(Addresses, q.asn, Unknown, FALSE)]
      [] q.kind = "text" /\ q.server \in Servers  -> [page |-> "server", server |-> q.server]
      [] OTHER                                    -> [page |-> "free text"]

\* Django's Paginator: the page's slice, from the count its first query returned.
Pages(total) == IF total = 0 THEN 1 ELSE (total + PageSize - 1) \div PageSize
Bottom(total, page) == (AtMost(page, Pages(total)) - 1) * PageSize
Top(total, page) == AtMost(Bottom(total, page) + PageSize, total)
Rows(total, page, current) ==
    LET top == AtMost(Top(total, page), current) bottom == Bottom(total, page)
    IN IF top < bottom THEN 0 ELSE top - bottom

\* What a page lists.
Listed(r) ==
    CASE r.kind = "ips"      -> IpList(r.cidr, Unknown, Unknown, r.iranOnly)
      [] r.kind = "table"    -> IpTable(r.iranOnly)
      [] r.kind = "timeline" -> Timeline(r.server)
      [] r.kind = "detail"   -> EventsOf(r.ip, r.server)

\* What the i-th query of a request returns: of the overview its three counts
\* and the rows of its table; of an export the count for the audit log and the
\* rows; of the charts the addresses with a country, the three counts of
\* iran_split, the events and the addresses summed over the days and the rows
\* of top_iranian_ips; of a list its count and its page; of an address's page
\* the count, the statistics, the servers and the page of its events.
Answer(r, i) ==
    CASE r.kind = "cards" ->
           <<Cardinality(events), Cardinality(known), Cardinality(iran)>>[i]
      [] r.kind = "overview" ->
           <<Cardinality(events), Cardinality(Ips(events)),
             Cardinality(Ips({e \in events : e.ip \in iran})),
             AtMost(Cardinality({a \in known : \E e \in events : e.ip = a}), TopN)>>[i]
      [] r.kind = "export" -> Cardinality(Exported(r))
      [] r.kind = "chart" ->
           LET window == Window(r.start, r.end) IN
           <<Cardinality({a \in Ips(window) : Country[a] # Unknown}),
             Cardinality(Split(r.start, r.end, "iran")), Cardinality(Split(r.start, r.end, "other")),
             Cardinality(Split(r.start, r.end, "unknown")),
             Cardinality(window), Cardinality({<<e.ip, e.at>> : e \in window}),
             AtMost(Cardinality(Ips({e \in window : e.ip \in iran})), TopN)>>[i]
      [] r.kind \in {"ips", "table", "timeline"} ->
           IF i = 1 THEN Cardinality(Listed(r)) ELSE Rows(got[1], r.page, Cardinality(Listed(r)))
      [] r.kind = "detail" ->
           CASE i = 1 -> Cardinality(Listed(r))
             [] i = 2 -> Cardinality(EventsOf(r.ip, AnyServer))
             [] i = 3 -> Cardinality({e.server : e \in EventsOf(r.ip, AnyServer)})
             [] i = 4 -> Rows(got[1], r.page, Cardinality(Listed(r)))

Queries(r) == CASE r.kind \in {"none", "walked"} -> 0 [] r.kind = "walk" -> 1
                [] r.kind = "cards" -> 3 [] r.kind = "overview" -> 4
                [] r.kind = "export" -> 2 [] r.kind = "chart" -> 7
                [] r.kind \in {"ips", "table", "timeline"} -> 2 [] r.kind = "detail" -> 4
-----------------------------------------------------------------------------
(* The requests, one query a step. *)

\* The period starts, and the first query is made.
Begin(r) ==
    /\ request = NoRequest
    /\ request' = r /\ got' = <<Answer(r, 1)>> /\ changed' = FALSE
    /\ UNCHANGED <<now, tables, walk>>

BeginPage == \E page \in {"cards", "overview"} : Begin([kind |-> page])

\* resolve_period: a period up to now, or two dates the operator gives.
BeginChart ==
    \/ \E p \in Periods : Begin([kind |-> "chart", start |-> Since(p), end |-> now])
    \/ \E start, end \in 0 .. now : Begin([kind |-> "chart", start |-> start + RequestDays, end |-> end])

BeginList ==
    \E page \in 1 .. 2, iranOnly \in BOOLEAN, s \in Servers \cup {AnyServer} :
        \/ \E c \in CidrFilters \cup {Addresses} :
              Begin([kind |-> "ips", cidr |-> c, iranOnly |-> iranOnly, page |-> page])
        \/ Begin([kind |-> "table", iranOnly |-> iranOnly, page |-> page])
        \/ Begin([kind |-> "timeline", server |-> s, page |-> page])
        \/ \E a \in known : Begin([kind |-> "detail", ip |-> a, server |-> s, page |-> page])

\* ExportFilters.from_querydict and build_queryset, which fixes the start.
Filters ==
    {[kind |-> "export", period |-> p, start |-> IF p = AllTime THEN AllTime ELSE Since(p),
      server |-> s, cidr |-> c, only503 |-> o, status |-> t] :
        p \in Periods \cup {AllTime}, s \in Servers \cup {AnyServer}, c \in CidrFilters \cup {Addresses},
        o \in BOOLEAN, t \in {"current", "previous", "any"}}
BeginExport == \E f \in Filters : Begin(f)

\* Mutant of Query: each query of an export builds the queryset anew.
QueryRebuilt ==
    /\ Len(got) < Queries(request) /\ request.kind # "walk"
    /\ LET again == IF request.kind = "export" /\ request.start # AllTime
                    THEN [request EXCEPT !.start = Since(request.period)] ELSE request
       IN got' = Append(got, Answer(again, Len(got) + 1))
    /\ UNCHANGED <<now, tables, request, changed, walk>>

Query ==
    /\ Len(got) < Queries(request) /\ request.kind # "walk"
    /\ got' = Append(got, Answer(request, Len(got) + 1))
    /\ UNCHANGED <<now, tables, request, changed, walk>>

\* The answer is sent.
Respond ==
    /\ request # NoRequest /\ request.kind # "walk" /\ Len(got) = Queries(request)
    /\ request' = NoRequest /\ got' = <<>> /\ changed' = FALSE /\ walk' = NoWalk
    /\ UNCHANGED <<now, tables>>

(* A client of /api/v1/503/ that asks for page after page as long as there is  *)
(* a next one.  Each page is a request of two queries, the count and the rows. *)

BeginWalk ==
    /\ request = NoRequest
    /\ request' = [kind |-> "walk"]
    /\ walk' = [page |-> 1, seen |-> {}, steady |-> events, spoilt |-> FALSE]
    /\ UNCHANGED <<now, tables, got, changed>>

CountPage ==
    /\ request.kind = "walk" /\ got = <<>>
    /\ IF walk.page > Pages(Cardinality(events))   \* NotFound: "Invalid page."
       THEN request' = [kind |-> "walked"] /\ UNCHANGED got
       ELSE got' = <<Cardinality(events)>> /\ UNCHANGED request
    /\ changed' = FALSE
    /\ UNCHANGED <<now, tables, walk>>

\* Mutant of Newer: order_by("timestamp").
Older(e) == {f \in events : f.at < e.at}

\* order_by("-timestamp"): what comes before an event; events of the same time
\* come in any order, another one in every query.
Newer(e) == {f \in events : f.at > e.at}
Tied(e) == {f \in events : f.at = e.at}

\* The rows bottom + 1 to top, in one of the orders the database may choose.
Slices(bottom, top) ==
    {rows \in SUBSET events :
        /\ Cardinality(rows) = AtMost(top, Cardinality(events)) - AtMost(bottom, Cardinality(events))
        /\ \A e \in events :
             LET before == Cardinality(Newer(e)) to == before + Cardinality(Tied(e)) IN
             /\ (e \in rows) => before < top /\ to > bottom
             /\ (before >= bottom /\ to =< top) => e \in rows}

ReadPage ==
    /\ request.kind = "walk" /\ got # <<>>
    /\ \E rows \in Slices(Bottom(got[1], walk.page), Top(got[1], walk.page)) :
          walk' = [walk EXCEPT !.page = @ + 1, !.seen = @ \cup rows,
                               !.spoilt = @ \/ changed \/ \E e \in events : Tied(e) # {e}]
    /\ request' = IF Top(got[1], walk.page) < got[1] THEN request ELSE [kind |-> "walked"]
    /\ got' = <<>> /\ changed' = FALSE
    /\ UNCHANGED <<now, tables>>
-----------------------------------------------------------------------------
(* The tasks that write. *)

Writes ==
    /\ changed' = (changed \/ Len(got) \in 1 .. Queries(request) - 1 \/ (request.kind = "walk" /\ got # <<>>))
    /\ walk' = [walk EXCEPT !.steady = @ \cap events']
    /\ UNCHANGED <<request, got>>

Day ==
    /\ now < MaxDays /\ now' = now + 1
    /\ UNCHANGED <<tables, request, got, changed, walk>>

\* A poll stores an event, perhaps of a line that has waited for some days.
Ingest(a, s, t) ==
    /\ Cardinality(events) < MaxEvents
    /\ events' = events \cup {[ip |-> a, server |-> s, at |-> t]}
    /\ known' = known \cup {a}
    /\ UNCHANGED <<now, iran, checked, history>>
    /\ Writes

\* An open period is closed, unless the task read an outdated row (IranClassify).
HistoryAfter(h, verdict) ==
    CASE h = "none" -> {IF verdict THEN "open" ELSE "none"}
      [] h = "open" -> {"open", "closed"}
      [] h = "closed" -> {"closed"}

\* IranCIDRService.classify
Classify(a, verdict) ==
    /\ a \in known
    /\ iran' = IF verdict THEN iran \cup {a} ELSE iran \ {a}
    /\ checked' = checked \cup {a}
    /\ \E h \in HistoryAfter(history[a], verdict) : history' = [history EXCEPT ![a] = h]
    /\ UNCHANGED <<now, events, known>>
    /\ Writes

\* Mutant of PurgeEvents: timestamp__lte.
PurgeOneMore ==
    LET old == {e \in events : e.at + RequestDays =< now} IN
    /\ old # {} /\ events' = events \ old
    /\ UNCHANGED <<now, known, iran, checked, history>>
    /\ Writes

\* purge_old_request_events
PurgeEvents ==
    LET old == {e \in events : e.at + RequestDays < now} IN
    /\ old # {} /\ events' = events \ old
    /\ UNCHANGED <<now, known, iran, checked, history>>
    /\ Writes

\* purge_stale_ips; Retention has its other conditions and its race.
PurgeIp(a) ==
    /\ a \in known \ (Ips(events) \cup iran) /\ history[a] = "none"
    /\ known' = known \ {a}
    /\ checked' = checked \ {a}
    /\ UNCHANGED <<now, events, iran, history>>
    /\ Writes

Next ==
    \/ BeginPage \/ BeginChart \/ BeginExport \/ BeginList \/ Query \/ Respond
    \/ BeginWalk \/ CountPage \/ ReadPage
    \/ Day
    \/ \E a \in Addresses, s \in Servers, t \in 0 .. now : Ingest(a, s, t)
    \/ \E a \in Addresses, verdict \in BOOLEAN : Classify(a, verdict)
    \/ \E a \in Addresses : PurgeIp(a)
    \/ PurgeEvents

Spec == Init /\ [][Next]_vars
-----------------------------------------------------------------------------
\* The queries of one request, though each is a transaction of its own, agree
\* when nothing is written between them, however time passes: the counts of the
\* stat cards and the overview are ordered (no percentage above 100) and the
\* table has its rows, the audit log has the count of the rows downloaded, the
\* Iran split has the addresses of the daily series, a page of a list is full
\* but for the last one.
Answered(kind) == request.kind = kind /\ Len(got) = Queries(request) /\ ~changed
PageAgrees ==
    /\ Answered("cards") => got[3] =< got[2]
    /\ Answered("overview") => /\ got[3] =< got[2] /\ got[2] =< got[1]
                               /\ got[4] = AtMost(got[2], TopN)
    /\ Answered("export") => got[1] = got[2]
    /\ Answered("chart") => LET ips == got[2] + got[3] + got[4] IN
                            /\ got[1] =< ips /\ ips =< got[6] /\ got[6] =< got[5]
                            /\ got[7] = AtMost(got[2], TopN)
    /\ \A kind \in {"ips", "table", "timeline"} :
         Answered(kind) => got[2] = Top(got[1], request.page) - Bottom(got[1], request.page)
    /\ Answered("detail") => /\ got[4] = Top(got[1], request.page) - Bottom(got[1], request.page)
                             /\ got[1] =< got[2] /\ got[3] =< got[2]

\* Pages that answer one question by different queries give one answer: the
\* map's Iran, non-Iran and unknown addresses are all it shows, once each; the
\* current Iran export of a period has the chart's Iranian addresses, and that of
\* all time the overview's; the clusters and the points of the map count what is
\* on it; the incidents' table, the REST lists and the pages of the addresses
\* have the overview's addresses and events; the directories count what their
\* lists show; a search ends where its lists say.
ReadersAgree == request = NoRequest =>
    /\ IpTable(FALSE) = Ips(events) /\ IpTable(TRUE) = Ips(RestEvents(AllTime, TRUE))
    /\ IpList(Addresses, Unknown, Unknown, TRUE) = iran
    /\ MapThenSumSet(LAMBDA a : Cardinality(EventsOf(a, AnyServer)), known) = Cardinality(events)
    /\ \A s \in Servers : UNION {EventsOf(a, s) : a \in known} = Timeline(s)
    /\ \A column \in {Country, Asn} :
         /\ MapThenSumSet(LAMBDA d : d.total, Directory(column))
              = Cardinality({a \in known : column[a] # Unknown})
         /\ \A d \in Directory(column) : d.iran =< d.total
    /\ \A d \in Directory(Asn) : Cardinality(Search([kind |-> "asn", asn |-> d.value]).ips) = d.total
    /\ \A d \in Directory(Country) : Cardinality(IpList(Addresses, Unknown, d.value, TRUE)) = d.iran
    /\ \A c \in CidrFilters : \A a \in Addresses :
         a \in Search([kind |-> "cidr", range |-> c]).ips
           <=> a \in c /\ Search([kind |-> "address", ip |-> a]).page = "detail"
    /\ LET parts == {OnMap(s, 0, now) : s \in {"iran", "non_iran", "unknown"}} IN
       /\ UNION parts = OnMap("all", 0, now)
       /\ MapThenSumSet(Cardinality, parts) = Cardinality(OnMap("all", 0, now))
    /\ \A p \in Periods :
         /\ Ips(RestEvents(Since(p), TRUE)) = Split(Since(p), now, "iran")
         /\ LET f == [start |-> Since(p), server |-> AnyServer, cidr |-> Addresses, only503 |-> TRUE, status |-> "current"] IN
            /\ Exported(f) = Split(Since(p), now, "iran")
            /\ Exported([f EXCEPT !.start = AllTime]) = Ips(events) \cap iran
    /\ \A s \in {"all", "503"} :
         LET shown == OnMap(s, 0, now) IN
         /\ MapThenSumSet(LAMBDA c : c.count, Clusters(shown)) = Cardinality(shown)
         /\ Cardinality(shown) =< MaxPoints => Points(shown) = Cardinality(shown)

\* A client that follows the pages of the events to the last one has seen every
\* event that was there from its first request to its last one, although events
\* arrive meanwhile and move the others down: what retention deletes is at the
\* end of the list.  It may miss one when two events have the same time, or when
\* a task writes between the two queries of a page.
WalkMissesNothing ==
    request.kind = "walked" /\ ~walk.spoilt => walk.steady \subseteq walk.seen

\* What retention deletes no chart, map or export of a period could have shown.
PurgeInvisible ==
    [][PurgeEvents \/ (\E a \in Addresses : PurgeIp(a)) =>
         \A p \in Periods, class \in {"iran", "other", "unknown"} :
           /\ Window(Since(p), now) = Window(Since(p), now)'
           /\ Split(Since(p), now, class) = Split(Since(p), now, class)']_vars
=============================================================================
