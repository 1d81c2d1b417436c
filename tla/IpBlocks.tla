------------------------------ MODULE IpBlocks ------------------------------
(***************************************************************************)
(* Networks and ranges as Python's ipaddress has them.  Addresses have     *)
(* Width bits; a network is the set of its addresses, with the version.    *)
(***************************************************************************)
EXTENDS Integers, FiniteSets, FiniteSetsExt

CONSTANT Width

ASSUME WidthAssumption == Width \in Nat

Size == 2 ^ Width

\* Aligned blocks: the networks there are.
Block(version, base, n) == {version} \X (base .. base + n - 1)
Lengths == {2 ^ k : k \in 0 .. Width}
Networks(version) == {Block(version, n * m, n) : n \in Lengths, m \in 0 .. Size - 1} \cap
                     SUBSET Block(version, 0, Size)

\* ipaddress.summarize_address_range: the longest block at an address, then on behind
\* it; no blocks where the range is none.
Summarize(version, first, last) ==
    LET longest(a) == Max({n \in Lengths : a % n = 0 /\ a + n - 1 =< last})
        rest[a \in first .. last + 1] ==
            IF a > last THEN {} ELSE {Block(version, a, longest(a))} \cup rest[a + longest(a)]
    IN IF first =< last /\ last < Size THEN rest[first] ELSE {}

\* ip_network(strict=False): the block of that length the address lies in.
Masked(version, address, length) ==
    LET n == 2 ^ (Width - length) IN Block(version, address - (address % n), n)
=============================================================================
