------------------------------- MODULE Lease -------------------------------
(***************************************************************************)
(* What apps/common/locks.py promises in its module docstring: mutual      *)
(* exclusion, and a crashed holder that can never block the others for     *)
(* ever.  The lock is free, held by one worker, or orphaned by a worker    *)
(* that died inside the `with` body.  RedisLock implements it; LogReader   *)
(* and the other task modules take their lock from here.                   *)
(***************************************************************************)
CONSTANTS Workers, Free, Orphan  \* two distinct values that are no workers

VARIABLE holder

Init == holder = Free

Acquire(w) == holder = Free /\ holder' = w
Release(w) == holder = w /\ holder' = Free
Crash(w)   == holder = w /\ holder' = Orphan
Expire     == holder = Orphan /\ holder' = Free

Next == Expire \/ \E w \in Workers : Acquire(w) \/ Release(w) \/ Crash(w)

Fairness == WF_holder(Expire) /\ \A w \in Workers : WF_holder(Release(w))

Spec == Init /\ [][Next]_holder
FairSpec == Spec /\ Fairness
=============================================================================
