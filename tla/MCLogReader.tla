---------------------------- MODULE MCLogReader ----------------------------
EXTENDS LogReader

\* A short line and a longer one; a size in between leaves a partial line.
MCNewlines == {1, 3}

MCFormat == Combined
MCIpWords == {"1.2.3.4", "2001:db8::1"}
MCDateTexts == {<<"26/Aug/2026:04:30:00", "+0330">>}
MCNumerals == {"0", "123", "200", "503", "1.5"}
MCStatuses == {"200", "503"}
MCMethods == {"GET"}

Request(address, user, request, status, bytes, seconds, agent) ==
    [v \in {"host", "remote_addr", "remote_user", "time_local", "request", "status",
            "body_bytes_sent", "http_referer", "http_user_agent", "request_time"} |->
       CASE v = "host" -> <<"example.com">> [] v = "remote_addr" -> <<address>>
         [] v = "remote_user" -> user [] v = "time_local" -> <<"26/Aug/2026:04:30:00", "+0330">>
         [] v = "request" -> request [] v = "status" -> <<status>>
         [] v = "body_bytes_sent" -> <<bytes>> [] v = "http_referer" -> Dash
         [] v = "http_user_agent" -> agent [] v = "request_time" -> <<seconds>>]

Users == {Dash, <<"ann">>}
BlankUsers == {<<"-", "x">>, <<"ann", "b">>}
Requests(addresses, users) ==
    {Request(a, u, r, s, b, d, g) :
       a \in addresses, u \in users, s \in MCStatuses, b \in {"123", "-"}, d \in {"1.5", "-"},
       r \in {<<"GET", "/", "HTTP/1.1">>, Dash, <<"x", "/", "y">>, <<>>},
       g \in {Dash, <<>>, <<"curl">>, <<"Mozilla/5.0", "(X11)">>}}
In(formats, requests) == [format : formats, request : requests]

\* The first line of the first file does not parse: it is written in another preset, or
\* its user name has a blank, or it came through a unix socket.  The others do.
MCTexts ==
    [l \in Lines |->
       IF l = <<1, 1>>
       THEN In({CombinedHost, CombinedTimed}, Requests(MCIpWords, Users \cup BlankUsers))
              \cup In({Combined}, Requests(MCIpWords, BlankUsers) \cup Requests({"unix:"}, Users))
       ELSE In({Combined}, Requests(MCIpWords, Users))]

\* What the proof about stored lines asks of them.
ASSUME MCTextsAssumption == TextsOfPresets
=============================================================================
