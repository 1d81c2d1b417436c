----------------------------- MODULE MCReports ------------------------------
EXTENDS Reports, TLC

CONSTANTS a1, a2

\* The numbers of a request that a task has overtaken are not looked at.
View == <<now, tables, request, walk, changed,
          IF changed /\ request.kind # "walk" THEN <<Len(got)>> ELSE got>>

MCCidrFilters == {{a1}}
MCCell == a1 :> 1 @@ a2 :> 1
MCCountry == a1 :> "IR" @@ a2 :> "DE"
MCAsn == a1 :> "AS1" @@ a2 :> Unknown
=============================================================================
