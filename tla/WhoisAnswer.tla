---------------------------- MODULE WhoisAnswer -----------------------------
(***************************************************************************)
(* apps/whois/parsers.py, and what _run_lookup (apps/whois/tasks.py) makes *)
(* of the fields it finds: from the text a registry answers with to the    *)
(* columns of the address.                                                 *)
(*                                                                         *)
(* A response is the sequence of its "key: value" lines, keys normalised;  *)
(* comments and lines without a value are left out of it, as parse_generic *)
(* leaves them out.  A country is its first two letters, an origin the     *)
(* number behind AS, or 0 when there is none, and an inetnum is            *)
(* <<"cidr", address, length>>, <<"range", first, last>> or <<"other">>.   *)
(***************************************************************************)
EXTENDS IpBlocks

CONSTANT Responses

NoCidr == {}
NoAsn == 0

\* _FIELD_ALIASES, in its order.
Aliases ==
    [inetnum |-> <<"inetnum", "netrange", "cidr", "inet6num">>,
     country |-> <<"country">>, origin |-> <<"origin">>]

\* extract_known_fields, for one field: the lines that have one of its keys, and of
\* those the value of the first line with the first key.
Naming(response, field) ==
    {at \in (DOMAIN Aliases[field]) \X (DOMAIN response) : response[at[2]].key = Aliases[field][at[1]]}
Names(response, field) == Naming(response, field) # {}
Known(response, field) ==
    LET first == CHOOSE at \in Naming(response, field) :
                   \A other \in Naming(response, field) :
                      at[1] < other[1] \/ (at[1] = other[1] /\ at[2] =< other[2])
    IN response[first[2]].value

\* _inetnum_to_cidr: of a range the block that its first address is in.
InetnumToCidr(inetnum) ==
    CASE inetnum[1] = "cidr" -> Masked("ipv4", inetnum[2], inetnum[3])
      [] inetnum[1] = "range" ->
           UNION {b \in Summarize("ipv4", inetnum[2], inetnum[3]) : <<"ipv4", inetnum[2]>> \in b}
      [] OTHER -> NoCidr

\* What _run_lookup writes: the country whether or not it is named, ...
Country(response) == IF Names(response, "country") THEN Known(response, "country") ELSE ""

\* Mutant of Asn: an origin that is not named is taken for none.
AsnOrNone(response, old) == IF Names(response, "origin") THEN Known(response, "origin") ELSE NoAsn

\* ... the other two only when they are, and else the old value that the task read.
Asn(response, old) == IF Names(response, "origin") THEN Known(response, "origin") ELSE old
Cidr(response, old) ==
    IF Names(response, "inetnum") THEN InetnumToCidr(Known(response, "inetnum")) ELSE old
=============================================================================
