----------------------------- MODULE LogReader -----------------------------
(***************************************************************************)
(* poll_log_source (apps/logs/tasks.py), NginxLogReader.poll               *)
(* (apps/logs/services.py) and SSHService.poll_log                         *)
(* (apps/servers/services.py) for one LogSource row, several Celery        *)
(* workers and a remote file that grows and is rotated.                    *)
(*                                                                         *)
(* A generation is the file between two rotations; its inode is its        *)
(* number, so inodes are not reused and the file is not truncated in       *)
(* place.  A line is the position of the byte after its newline; what it   *)
(* may say is a constant, read by LogLines.  The database autocommits statement by statement, so  *)
(* each write of poll() is a step of its own.                              *)
(***************************************************************************)
EXTENDS LogLines

CONSTANTS Workers, Free, Orphan,
          MaxGen, MaxSize,  \* bounds of the remote file: rotations, bytes
          Newlines,         \* positions just after each newline, in every generation
          Format,           \* LogSource.format
          Texts,            \* the requests a line may be about, with the format nginx wrote it in
          MaxCopies,        \* the count of a line's stored copies stops here
          MaxMishaps,       \* bound on crashes and failures
          LongPolls         \* TRUE: a poll may outlive the 120 s of its lock

Gens == 1..MaxGen
NoInode == 0                \* LogSource.inode IS NULL

ASSUME ReaderAssumption ==
    /\ Free # Orphan /\ Free \notin Workers /\ Orphan \notin Workers
    /\ MaxGen \in Nat \ {0} /\ MaxSize \in Nat /\ MaxMishaps \in Nat
    /\ MaxCopies \in Nat \ {0}
    /\ Newlines \subseteq 1..MaxSize
    /\ LongPolls \in BOOLEAN

VARIABLES gen, exists, size, \* remote file: generation at `path`, whether it is there, bytes
          row,               \* the LogSource row: inode and byte_offset
          enabled,           \* LogSource.enabled and Server.enabled together
          lock,              \* redis_lock("logreader:...")
          pc, snap, chunk,   \* per worker: position, row as loaded, LogChunk
          copies,            \* RequestEvents stored for each line
          base,              \* history: the furthest baseline a first poll put in a file
          overlapped,        \* history: a poll stored events from an outdated position
          mishaps            \* history: crashes, failures and reads of a file other than the statted one

L == INSTANCE Lease WITH holder <- lock

remote == <<gen, exists, size>>
vars == <<gen, exists, size, row, enabled, lock, pc, snap, chunk, copies, base, overlapped, mishaps>>

history == <<base, overlapped, mishaps>>
Lines == {<<g, e>> : g \in Gens, e \in Newlines}
NoRow == [inode |-> NoInode, offset |-> 0]
NoChunk == [inode |-> NoInode, offset |-> 0, size |-> 0, src |-> NoInode, top |-> 0]

\* The lines that raise LogParseError, which poll() counts and leaves out.
ReadAs(t) == Parse(Format, Written(t.format, t.request))
Malformed == {l \in Lines : \A t \in Texts[l] : ReadAs(t) = Rejected}

\* Lines are written and read in presets, and of what a line may say everything is
\* read, or nothing.
TextsOfPresets ==
    /\ Format \in Presets
    /\ \A l \in Lines : \A t \in Texts[l] :
         /\ t.format \in Presets /\ Loggable(t.request)
         /\ l \in Malformed \/ ReadAs(t) # Rejected

\* The line ending at e lies completely behind byte o of the file.
Whole(o, e) == o = 0 \/ \E n \in Newlines : o =< n /\ n < e

\* The newlines in the bytes a chunk carries, and those whose line parses.
Ends(c) == {e \in Newlines : c.offset < e /\ e =< c.top}
Parsed(c) == {e \in Ends(c) : Whole(c.offset, e) /\ <<c.src, e>> \notin Malformed}

\* Mutants of Consumed: the partial last line counts as consumed; the offset
\* never advances.
ConsumedAll(c) == {c.top}
ConsumedNothing(c) == {c.offset}

\* chunk.offset + consumed_bytes: past the last newline, or nowhere.
Consumed(c) == {o \in Ends(c) \cup {c.offset} : \A e \in Ends(c) : e =< o}

Smaller(a, b) == IF a < b THEN a ELSE b

\* The task has ended: its log_source and its chunk are gone.
Forget(w) == snap' = [snap EXCEPT ![w] = NoRow] /\ chunk' = [chunk EXCEPT ![w] = NoChunk]

Init ==
    /\ gen = 1 /\ exists = TRUE
    /\ size = [g \in Gens |-> 0]
    /\ row = NoRow
    /\ base = [g \in Gens |-> 0] /\ overlapped = FALSE
    /\ enabled = TRUE
    /\ lock = Free
    /\ pc = [w \in Workers |-> "idle"]
    /\ snap = [w \in Workers |-> NoRow]
    /\ chunk = [w \in Workers |-> NoChunk]
    /\ copies = [l \in Lines |-> 0]
    /\ mishaps = 0
-----------------------------------------------------------------------------
\* The remote host (external): nginx writes, logrotate moves and creates.
Grow ==
    /\ exists /\ size[gen] < MaxSize
    /\ size' = [size EXCEPT ![gen] = @ + 1]
    /\ UNCHANGED <<gen, exists, row, enabled, lock, pc, snap, chunk, copies, history>>

MoveAway ==
    /\ exists /\ gen < MaxGen
    /\ exists' = FALSE
    /\ UNCHANGED <<gen, size, row, enabled, lock, pc, snap, chunk, copies, history>>

Create ==
    /\ ~exists
    /\ exists' = TRUE /\ gen' = gen + 1
    /\ UNCHANGED <<size, row, enabled, lock, pc, snap, chunk, copies, history>>

\* log_source_toggle_enabled: save(update_fields=["enabled", ...]).
Toggle ==
    /\ enabled' = ~enabled
    /\ UNCHANGED <<remote, row, lock, pc, snap, chunk, copies, history>>
-----------------------------------------------------------------------------
\* poll_log_source reads the row, and returns unless it is enabled.
Load(w) ==
    /\ pc[w] = "idle" /\ enabled
    /\ pc' = [pc EXCEPT ![w] = "loaded"]
    /\ snap' = [snap EXCEPT ![w] = row]
    /\ UNCHANGED <<remote, row, enabled, lock, chunk, copies, history>>

\* Mutant of Lock: the poll runs whether or not another one holds the key.
LockAnyway(w) ==
    /\ pc[w] = "loaded"
    /\ lock' = w
    /\ pc' = [pc EXCEPT ![w] = "locked"]
    /\ UNCHANGED <<remote, row, enabled, snap, chunk, copies, history>>

\* with redis_lock(...): entered, or LockHeldError and the task returns.
Lock(w) ==
    /\ pc[w] = "loaded"
    /\ L!Acquire(w)
    /\ pc' = [pc EXCEPT ![w] = "locked"]
    /\ UNCHANGED <<remote, row, enabled, snap, chunk, copies, history>>

Skip(w) ==
    /\ pc[w] = "loaded" /\ lock # Free
    /\ pc' = [pc EXCEPT ![w] = "idle"]
    /\ Forget(w)
    /\ UNCHANGED <<remote, row, enabled, lock, copies, history>>

\* stat failed: only last_error and last_read_at are saved.
Missing(w) ==
    /\ pc[w] = "locked" /\ ~exists
    /\ pc' = [pc EXCEPT ![w] = "leaving"]
    /\ UNCHANGED <<remote, row, enabled, lock, snap, chunk, copies, history>>

\* Where poll_log starts to read a file of inode i and size s.
ReadOffset(known, i, s) ==
    CASE known.inode = NoInode -> s
      [] known.inode # NoInode /\ known.inode # i -> 0
      [] OTHER -> Smaller(known.offset, s)

\* stat answered; nothing is opened when there are no new bytes.
Stat(w) ==
    LET off == ReadOffset(snap[w], gen, size[gen]) IN
    /\ pc[w] = "locked" /\ exists
    /\ chunk' = [chunk EXCEPT ![w] = [inode |-> gen, offset |-> off, size |-> size[gen],
                                      src |-> gen, top |-> off]]
    /\ pc' = [pc EXCEPT ![w] = IF size[gen] > off THEN "statted" ELSE "recorded"]
    /\ UNCHANGED <<remote, row, enabled, lock, snap, copies, history>>

\* sftp.open(path), which may by now be another file; seek, read(size - offset).
Read(w) ==
    LET end == Smaller(size[gen], chunk[w].size) IN
    /\ pc[w] = "statted" /\ exists
    /\ mishaps' = IF gen # chunk[w].inode THEN mishaps + 1 ELSE mishaps
    /\ chunk' = [chunk EXCEPT ![w].src = gen,
                              ![w].top = IF end > chunk[w].top THEN end ELSE chunk[w].top]
    /\ pc' = [pc EXCEPT ![w] = "read"]
    /\ UNCHANGED <<remote, row, enabled, lock, snap, copies, base, overlapped>>

\* The path is gone by then: IOError leaves the body unsaved.
Gone(w) ==
    /\ pc[w] = "statted" /\ ~exists
    /\ pc' = [pc EXCEPT ![w] = "leaving"]
    /\ UNCHANGED <<remote, row, enabled, lock, snap, chunk, copies, history>>

\* record_sightings_bulk, then RequestEvent.objects.bulk_create in one transaction.
Record(w) ==
    /\ pc[w] = "read"
    /\ copies' = [l \in Lines |->
                    IF l[1] = chunk[w].src /\ l[2] \in Parsed(chunk[w])
                    THEN Smaller(copies[l] + 1, MaxCopies) ELSE copies[l]]
    /\ overlapped' = (overlapped \/ snap[w] # row)
    /\ pc' = [pc EXCEPT ![w] = "recorded"]
    /\ UNCHANGED <<remote, row, enabled, lock, snap, chunk, base, mishaps>>

\* save(update_fields=[inode, byte_offset, last_read_at, last_event_at, last_error]).
Save(w) ==
    /\ pc[w] = "recorded"
    /\ \E o \in Consumed(chunk[w]) : row' = [inode |-> chunk[w].inode, offset |-> o]
    /\ base' = IF snap[w].inode = NoInode /\ chunk[w].offset > base[chunk[w].inode]
               THEN [base EXCEPT ![chunk[w].inode] = chunk[w].offset] ELSE base
    /\ pc' = [pc EXCEPT ![w] = "leaving"]
    /\ UNCHANGED <<remote, enabled, lock, snap, chunk, copies, overlapped, mishaps>>

\* The `finally` of redis_lock: the key is deleted, whoever holds it.
Unlock(w) ==
    /\ pc[w] = "leaving"
    /\ lock' = Free
    /\ pc' = [pc EXCEPT ![w] = "idle"]
    /\ Forget(w)
    /\ UNCHANGED <<remote, row, enabled, copies, history>>

InBody(w) == pc[w] \in {"locked", "statted", "read", "recorded", "leaving"}

\* SSHConnectionError or a database error: the body is left unsaved.
Fail(w) ==
    /\ pc[w] \in {"locked", "statted", "read", "recorded"}
    /\ mishaps < MaxMishaps /\ mishaps' = mishaps + 1
    /\ pc' = [pc EXCEPT ![w] = "leaving"]
    /\ UNCHANGED <<remote, row, enabled, lock, snap, chunk, copies, base, overlapped>>

\* The worker is killed; its message is redelivered (acks_late) and runs as another poll.
Crash(w) ==
    /\ InBody(w)
    /\ mishaps < MaxMishaps /\ mishaps' = mishaps + 1
    /\ lock' = IF lock = w THEN Orphan ELSE lock
    /\ pc' = [pc EXCEPT ![w] = "idle"]
    /\ Forget(w)
    /\ UNCHANGED <<remote, row, enabled, copies, base, overlapped>>

\* Mutant of Expire: a key without a timeout.
ExpireNever == LongPolls /\ lock # Free /\ lock' = Free
                 /\ UNCHANGED <<remote, row, enabled, pc, snap, chunk, copies, history>>

\* Redis drops the key: after a crash, or under a poll that runs too long.
Expire ==
    /\ lock # Free
    /\ lock = Orphan \/ LongPolls
    /\ lock' = Free
    /\ UNCHANGED <<remote, row, enabled, pc, snap, chunk, copies, history>>

Step(w) == Load(w) \/ Lock(w) \/ Skip(w) \/ Missing(w) \/ Stat(w) \/ Read(w) \/ Gone(w)
             \/ Record(w) \/ Save(w) \/ Unlock(w)

Next == Grow \/ MoveAway \/ Create \/ Toggle \/ Expire
          \/ \E w \in Workers : Step(w) \/ Fail(w) \/ Crash(w)

Spec == Init /\ [][Next]_vars

\* Beat keeps polling, workers run what they took, Redis expires orphaned keys.
Fairness ==
    /\ \A w \in Workers : WF_vars(Step(w))
    /\ WF_vars(lock = Orphan /\ Expire)

FairSpec == Spec /\ Fairness
-----------------------------------------------------------------------------
\* The shape of the state.
TypeOK ==
    /\ gen \in Gens /\ exists \in BOOLEAN /\ (exists \/ gen < MaxGen)
    /\ size \in [Gens -> 0..MaxSize]
    /\ row \in [inode : {NoInode} \cup Gens, offset : Nat]
    /\ enabled \in BOOLEAN
    /\ lock \in Workers \cup {Free, Orphan}
    /\ pc \in [Workers -> {"idle", "loaded", "locked", "statted", "read", "recorded", "leaving"}]
    /\ snap \in [Workers -> [inode : {NoInode} \cup Gens, offset : Nat]]
    /\ chunk \in [Workers -> [inode : {NoInode} \cup Gens, offset : Nat, size : Nat,
                              src : {NoInode} \cup Gens, top : Nat]]
    /\ copies \in [Lines -> Nat]
    /\ base \in [Gens -> Nat] /\ overlapped \in BOOLEAN
    /\ mishaps \in Nat

\* Every line of the file at `path` that starts behind the baseline and ends in
\* its first n bytes is stored unless it does not parse.
StoredUpTo(n) ==
    \A e \in Newlines : e =< n /\ Whole(base[gen], e) /\ <<gen, e>> \notin Malformed
                          => copies[<<gen, e>>] > 0

\* "Only advance byte_offset past complete lines": the saved position never
\* runs ahead of the stored RequestEvents, whatever overlaps, dies or is
\* rotated between the statements of poll().
NothingSkipped == row.inode = gen => StoredUpTo(row.offset)

\* A RequestEvent says what nginx logged of a request from an IP address, field for
\* field, and the file, read under any other preset, would be rejected line by line
\* and not be taken for something else.
Faithful ==
    {l \in Lines : \A t \in Texts[l] :
        /\ \E a \in IpWords : t.request["remote_addr"] = <<a>>
        /\ ReadAs(t) = Told(Format, t.request)
        /\ \A f \in Presets : Parse(f, Written(t.format, t.request)) # Rejected => f = t.format}
StoredAsLogged == \A l \in Lines : copies[l] > 0 => l \in Faithful

\* Unless a poll acted on a row that another poll had saved since, a line is
\* stored once more at most for each crash, failure or file replaced under a poll.
DuplicatesNeedMishaps == ~overlapped => \A l \in Lines : copies[l] =< 1 + mishaps

\* Within the file at `path`, once past the baseline, the read position only moves
\* forward, although a poll may act on a row loaded before another poll saved it.
PositionNeverBack ==
    [][row.inode = gen /\ gen' = gen /\ row.offset > base[gen]
         => row'.inode = gen /\ row.offset =< row'.offset]_vars

\* The polls of one log source use their lock as a lease.
LockIsLease == L!Spec

\* No complete line of an enabled log source waits for ever: it is stored, or its
\* file is rotated, or another first poll puts the baseline behind it.
Waiting(e) ==
    /\ exists /\ enabled /\ row.inode # NoInode
    /\ size[gen] >= e /\ Whole(base[gen], e)
    /\ <<gen, e>> \notin Malformed /\ copies[<<gen, e>>] = 0
EventuallyStored == \A e \in Newlines : Waiting(e) ~> ~Waiting(e)
=============================================================================
