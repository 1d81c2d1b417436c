------------------------------ MODULE LogLines ------------------------------
(***************************************************************************)
(* NginxLogParser (apps/logs/parsers.py): what a line of an nginx access   *)
(* log is read as under a LogSource's format.                              *)
(*                                                                         *)
(* A text is the sequence of its blank-separated words.  A format, and a   *)
(* line, is the sequence of its parts between blanks: bare, in brackets or *)
(* in quotes; nginx escapes the quotes inside.  Words are strings, and     *)
(* numbers, dates and addresses are told by the sets they belong to.       *)
(***************************************************************************)
EXTENDS Naturals, SequencesExt

CONSTANTS IpWords, DateTexts, Numerals, Statuses, Methods

ASSUME LinesAssumption == Statuses \subseteq Numerals /\ "-" \notin IpWords

Dash == <<"-">>
Item(shape, var) == [shape |-> shape, var |-> var]
Part(shape, text) == [shape |-> shape, text |-> text]

\* NGINX_LOG_FORMATS; the hyphen between address and user is literal.
Combined ==
    <<Item("bare", "remote_addr"), Item("bare", "hyphen"), Item("bare", "remote_user"),
      Item("bracketed", "time_local"), Item("quoted", "request"), Item("bare", "status"),
      Item("bare", "body_bytes_sent"), Item("quoted", "http_referer"), Item("quoted", "http_user_agent")>>
CombinedHost == <<Item("bare", "host")>> \o Combined
CombinedTimed == Combined \o <<Item("bare", "request_time")>>
Presets == {Combined, CombinedHost, CombinedTimed}

\* compile_format's fragment for an item: \S+ takes any part without a blank,
\* quotes and brackets are literal.
Fits(item, part) ==
    CASE item.var = "hyphen" -> part = Part("bare", Dash)
      [] item.var = "status" -> \E s \in Statuses : part = Part("bare", <<s>>)
      [] item.shape = "bare" -> part.shape # "bare" => Len(part.text) =< 1
      [] OTHER -> part.shape = item.shape

Matches(format, line) ==
    Len(format) = Len(line) /\ \A i \in DOMAIN format : Fits(format[i], line[i])

Variables(format) == {format[i].var : i \in DOMAIN format} \ {"hyphen"}

\* Mutant of Groups: nginx's "-" is taken for no text.
GroupsBlank(format, line) ==
    [var \in Variables(format) |->
       LET text == line[CHOOSE i \in DOMAIN format : format[i].var = var].text
       IN IF text = Dash THEN <<>> ELSE text]

\* match.groupdict(), and groups.get(var, default)
Groups(format, line) ==
    [var \in Variables(format) |-> line[CHOOSE i \in DOMAIN format : format[i].var = var].text]
Get(groups, var, default) == IF var \in DOMAIN groups THEN groups[var] ELSE default

\* int(), with 0 for what is none, and float(), with None.
Count(text) == IF Len(text) = 1 /\ text[1] \in Numerals THEN text[1] ELSE "0"
Seconds(text) == IF Len(text) = 1 /\ text[1] \in Numerals THEN text[1] ELSE "None"

\* split_request, for the method and for the uri.
IsRequest(text) == Len(text) = 3 /\ text[1] \in Methods
Method(text) == IF IsRequest(text) THEN <<text[1]>> ELSE <<>>
Uri(text) == IF IsRequest(text) THEN <<text[2]>> ELSE text

Rejected == [address |-> <<>>]

\* What parse_line returns of a match.
ParsedLine(groups) ==
    [address |-> Get(groups, "remote_addr", <<>>), time |-> Get(groups, "time_local", <<>>),
     method |-> Method(Get(groups, "request", <<>>)), uri |-> Uri(Get(groups, "request", <<>>)),
     status |-> Get(groups, "status", <<>>), bytes |-> Count(Get(groups, "body_bytes_sent", <<"0">>)),
     request_time |-> Seconds(Get(groups, "request_time", <<>>)), host |-> Get(groups, "host", <<>>),
     user_agent |-> Get(groups, "http_user_agent", <<>>), referer |-> Get(groups, "http_referer", <<>>)]

HasTimeAndStatus(groups) == Get(groups, "time_local", <<>>) \in DateTexts /\ Get(groups, "status", <<>>) # <<>>

\* parse_line, with Rejected for LogParseError.
Parse(format, line) ==
    LET groups == Groups(format, line) IN
    IF /\ Matches(format, line)
       /\ \E a \in IpWords : Get(groups, "remote_addr", <<>>) = <<a>>
       /\ HasTimeAndStatus(groups)
    THEN ParsedLine(groups) ELSE Rejected
-----------------------------------------------------------------------------
\* nginx (external): the line it writes in a format for a request, a text by
\* variable.  A bare text with blanks in it looks like several parts.
Written(format, request) ==
    LET parts(item) ==
          CASE item.var = "hyphen" -> <<Part("bare", Dash)>>
            [] item.var # "hyphen" /\ item.shape = "bare" ->
                 [i \in DOMAIN request[item.var] |-> Part("bare", <<request[item.var][i]>>)]
            [] OTHER -> <<Part(item.shape, request[item.var])>>
    IN FlattenSeq([i \in DOMAIN format |-> parts(format[i])])

\* What nginx has to write: "-" for what is empty, and no blank in a bare text
\* but for the user's name.
LogVariables == {"host", "remote_addr", "remote_user", "time_local", "request", "status",
                 "body_bytes_sent", "http_referer", "http_user_agent", "request_time"}
Loggable(request) ==
    /\ request \in [LogVariables -> Seq(STRING)]
    /\ \A var \in {"host", "remote_addr", "status", "body_bytes_sent", "request_time"} :
         Len(request[var]) = 1
    /\ request["remote_user"] # <<>>

\* What a reader of that line should be told of the request.
Told(format, request) == ParsedLine([var \in Variables(format) |-> request[var]])
=============================================================================
