--------------------------- MODULE MCIPSightings ---------------------------
EXTENDS IPSightings

\* Two lines, one second apart, the later one of a known address: a known
\* address alone, twice, or after a new one.
TwoLines == {{<<x, t>>, <<y, t + 1>>} : x \in Addresses, y \in Known, t \in 1..MaxTime - 1}
=============================================================================
