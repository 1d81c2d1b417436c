----------------------------- MODULE RipeStats ------------------------------
(***************************************************************************)
(* RipeNccDelegatedStatsProvider.parse (apps/iran/providers.py): from the  *)
(* lines of RIPE's delegated-extended file to the CIDRs that IranNetworks  *)
(* takes as what a provider reports.                                       *)
(*                                                                         *)
(* A line is the record of its fields; `start` and `value` are numbers, or *)
(* Malformed.                                                              *)
(***************************************************************************)
EXTENDS IpBlocks

CONSTANT Malformed

ASSUME RipeAssumption == Malformed \notin Int

Lines == [fields : {6, 7}, cc : {"IR", "DE", "*"}, type : {"ipv4", "ipv6", "asn"},
          start : (0 .. Size - 1) \cup {Malformed}, value : (-1 .. Size + 1) \cup {Malformed},
          status : {"allocated", "assigned", "available"}]

\* Mutant of Ipv4: the last address is one too far.
Ipv4OneMore(l) == Summarize("ipv4", l.start, l.start + l.value)

\* Of an ipv4 record `value` is a count of addresses, ...
Ipv4(l) == Summarize("ipv4", l.start, l.start + l.value - 1)

\* ... of an ipv6 record a prefix length, with strict=False.
Ipv6(l) ==
    IF l.value \in 0 .. Width THEN {Masked("ipv6", l.start, l.value)} ELSE {}

\* Lines that are not about Iranian addresses in use are skipped, and so are those
\* that make no range.
Entries(l) ==
    IF l.fields < 7 \/ l.cc # "IR" \/ l.status \notin {"allocated", "assigned"}
         \/ Malformed \in {l.start, l.value}
    THEN {}
    ELSE CASE l.type = "ipv4" -> Ipv4(l) [] l.type = "ipv6" -> Ipv6(l) [] OTHER -> {}

Parse(lines) == UNION {Entries(l) : l \in lines}

\* What the file says of an address, read without networks: it is delegated to
\* Iran and in use.
Delegated(lines) ==
    UNION {LET counted == l.start .. l.start + l.value - 1
               masked == {a \in 0 .. Size - 1 : a \div 2 ^ (Width - l.value) = l.start \div 2 ^ (Width - l.value)}
           IN {l.type} \X IF l.type = "ipv4" THEN counted ELSE masked :
             l \in {l \in lines : /\ l.fields = 7 /\ l.cc = "IR" /\ l.type \in {"ipv4", "ipv6"}
                                  /\ l.status \in {"allocated", "assigned"}
                                  /\ l.start \in 0 .. Size - 1 /\ l.value \in 0 .. Size
                                  /\ l.type = "ipv4" => l.start + l.value =< Size
                                  /\ l.type = "ipv6" => l.value =< Width}}
=============================================================================
