--------------------------- MODULE MCIranNetworks ---------------------------
EXTENDS IranNetworks

MCAddresses == {"ipv4"} \X (0 .. Size - 1) \cup {"ipv6"} \X {0, 1}
MCWhoisIran == {<<"ipv4", 0>>}

\* Of the version 6 networks only the one that a line below is about.
MCCidrs == Networks("ipv4") \cup {Block("ipv6", 0, 2)}

\* Files of no line, of any one line of IPv4 or of an AS number, of a line whose
\* host bits are set, and of two lines whose ranges overlap or meet.
Line(type, start, value) ==
    [fields |-> 7, cc |-> "IR", type |-> type, start |-> start, value |-> value, status |-> "assigned"]
MCFeeds ==
    {{}} \cup {{l} : l \in {l \in Lines : l.type # "ipv6"}}
         \cup {{Line("ipv6", 1, 1)}, {Line("ipv4", 0, 2), Line("ipv4", 1, 2)},
               {Line("ipv4", 0, 1), Line("ipv4", 1, 3)}}
=============================================================================
