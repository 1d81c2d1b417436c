----------------------------- MODULE RedisLock -----------------------------
(***************************************************************************)
(* redis_lock(key, timeout) of apps/common/locks.py for one key: the key   *)
(* in Redis with its time to live, and the workers that call it.           *)
(*                                                                         *)
(* Time is a count of ticks.  Nothing in the code bounds how long a `with` *)
(* body runs; MaxHold is that bound as an assumption about the callers,    *)
(* and every guarantee below is relative to how it compares with Timeout.  *)
(***************************************************************************)
EXTENDS Naturals

CONSTANTS Workers,   \* Celery worker processes that run tasks on this key
          NoWorker,
          Timeout,   \* the `timeout` argument: TTL of the key
          MaxHold    \* longest a `with` body runs before it ends or its worker dies

ASSUME LockAssumption ==
    /\ NoWorker \notin Workers
    /\ Timeout \in Nat \ {0}
    /\ MaxHold \in Nat

VARIABLES ttl,    \* ticks until Redis drops the key; 0 when the key is absent
          writer, \* the worker whose add() wrote the key (not stored in Redis)
          pc,     \* where each worker is
          age     \* ticks spent in the current `with` body

vars == <<ttl, writer, pc, age>>

Init ==
    /\ ttl = 0
    /\ writer = NoWorker
    /\ pc = [w \in Workers |-> "idle"]
    /\ age = [w \in Workers |-> 0]

\* Mutant of Add: cache.set instead of cache.add.
AddOverwrites(w) ==
    /\ pc[w] = "idle"
    /\ ttl' = Timeout /\ writer' = w
    /\ pc' = [pc EXCEPT ![w] = "body"]
    /\ age' = [age EXCEPT ![w] = 0]

\* cache.add(key, "1", timeout): SET NX EX succeeded, the body starts.
Add(w) ==
    /\ pc[w] = "idle"
    /\ ttl = 0
    /\ ttl' = Timeout
    /\ writer' = w
    /\ pc' = [pc EXCEPT ![w] = "body"]
    /\ age' = [age EXCEPT ![w] = 0]

\* Mutant of Refuse: add() inside the try, so that finally runs after LockHeldError.
RefuseDeletes(w) ==
    /\ pc[w] = "idle" /\ ttl > 0
    /\ ttl' = 0 /\ writer' = NoWorker
    /\ pc' = [pc EXCEPT ![w] = "refused"]
    /\ UNCHANGED age

\* cache.add returned False: LockHeldError, raised before the try block.
Refuse(w) ==
    /\ pc[w] = "idle"
    /\ ttl > 0
    /\ pc' = [pc EXCEPT ![w] = "refused"]
    /\ UNCHANGED <<ttl, writer, age>>

\* The caller catches LockHeldError and its task ends.
GiveUp(w) ==
    /\ pc[w] = "refused"
    /\ pc' = [pc EXCEPT ![w] = "idle"]
    /\ UNCHANGED <<ttl, writer, age>>

\* The body returns or raises: finally: cache.delete(key), whoever wrote it.
Leave(w) ==
    /\ pc[w] = "body"
    /\ pc' = [pc EXCEPT ![w] = "idle"]
    /\ ttl' = 0
    /\ writer' = NoWorker
    /\ age' = [age EXCEPT ![w] = 0]

\* The worker process dies in the body: no finally, the key stays.
Crash(w) ==
    /\ pc[w] = "body"
    /\ pc' = [pc EXCEPT ![w] = "idle"]
    /\ age' = [age EXCEPT ![w] = 0]
    /\ UNCHANGED <<ttl, writer>>

\* Mutant of Tick: the key is written without a timeout.
TickNoTimeout ==
    /\ \E w \in Workers : pc[w] = "body"
    /\ \A w \in Workers : pc[w] = "body" => age[w] < MaxHold
    /\ age' = [w \in Workers |-> IF pc[w] = "body" THEN age[w] + 1 ELSE age[w]]
    /\ UNCHANGED <<ttl, writer, pc>>

\* One tick of Redis's clock, and of every body still running.
Tick ==
    /\ \A w \in Workers : pc[w] = "body" => age[w] < MaxHold
    /\ \/ ttl > 0
       \/ \E w \in Workers : pc[w] = "body"
    /\ ttl' = IF ttl > 0 THEN ttl - 1 ELSE 0
    /\ writer' = IF ttl' = 0 THEN NoWorker ELSE writer
    /\ age' = [w \in Workers |-> IF pc[w] = "body" THEN age[w] + 1 ELSE age[w]]
    /\ UNCHANGED pc

Next == Tick \/ \E w \in Workers :
            Add(w) \/ Refuse(w) \/ GiveUp(w) \/ Leave(w) \/ Crash(w)

\* Redis's clock runs, and a body that is not killed ends.
Fairness == WF_vars(Tick) /\ \A w \in Workers : WF_vars(Leave(w))

Spec == Init /\ [][Next]_vars
FairSpec == Spec /\ Fairness

-----------------------------------------------------------------------------
\* The shape of the state.
TypeOK ==
    /\ ttl \in 0..Timeout
    /\ writer \in Workers \cup {NoWorker}
    /\ pc \in [Workers -> {"idle", "refused", "body"}]
    /\ age \in [Workers -> 0..MaxHold]

\* "Redis-backed mutual-exclusion locks": no two workers are in the `with`
\* body of one key at the same time.
MutualExclusion == \A v, w \in Workers : pc[v] = "body" /\ pc[w] = "body" => v = w

\* A worker in its body still owns the key, with exactly the time it has
\* not used yet: what makes the unconditional delete of the finally safe.
HolderOwnsKey ==
    \A w \in Workers : pc[w] = "body" => writer = w /\ ttl + age[w] = Timeout

\* A key disappears because its time ran out or because the worker that
\* wrote it left: the delete in the finally never removes another's key.
OnlyWriterDeletes ==
    [][ttl > 0 /\ ttl' = 0 =>
         \/ ttl = 1 /\ UNCHANGED pc
         \/ \E w \in Workers : writer = w /\ pc[w] = "body" /\ pc'[w] = "idle"]_vars

\* "Every lock has a timeout so a crashed worker can never block processing
\* forever": a key that is present is absent later.
NeverBlockedForever == (ttl > 0) ~> (ttl = 0)

\* The abstract lock this implements while every body is shorter than Timeout.
AbstractHolder ==
    IF \E w \in Workers : pc[w] = "body"
    THEN CHOOSE w \in Workers : pc[w] = "body"
    ELSE IF ttl > 0 THEN "orphan" ELSE "free"

L == INSTANCE Lease WITH Free <- "free", Orphan <- "orphan", holder <- AbstractHolder

\* The key, its TTL and the unconditional delete together are a lease.
ImplementsLease == L!FairSpec
=============================================================================
