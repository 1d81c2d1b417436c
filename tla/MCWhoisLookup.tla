--------------------------- MODULE MCWhoisLookup ----------------------------
EXTENDS WhoisLookup

Line(key, value) == [key |-> key, value |-> value]

\* A registry that names everything, one that answers as ARIN does and without a
\* country, one whose fields make no sense, and one that names nothing.
MCResponses ==
    {<<Line("inetnum", <<"range", 1, 3>>), Line("country", "IR"), Line("origin", 1)>>,
     <<Line("cidr", <<"cidr", 3, 1>>), Line("netrange", <<"range", 2, 3>>)>>,
     <<Line("origin", 0), Line("inet6num", <<"other">>)>>,
     <<>>}
=============================================================================
