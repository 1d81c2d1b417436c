-------------------------- MODULE LogReader_proofs --------------------------
(***************************************************************************)
(* Proofs about LogReader for any workers, bounds, line lengths and        *)
(* malformed lines, with or without polls that outlive their lock; about   *)
(* what LogLines reads of a line; and, at the end, about the redis_lock    *)
(* the polls take (RedisLock).                                             *)
(***************************************************************************)
EXTENDS LogReader, SequenceTheorems, WellFoundedInduction, TLAPS

LEMMA SmallerOne == \A a, b \in Nat : Smaller(a, b) \in Nat /\ Smaller(a, b) =< a /\ Smaller(a, b) =< b
  BY DEF Smaller

LEMMA ReadOffsetType ==
    ASSUME NEW i, NEW s \in Nat, NEW known \in [inode : {NoInode} \cup Gens, offset : Nat]
    PROVE  ReadOffset(known, i, s) \in Nat /\ ReadOffset(known, i, s) =< s
  BY DEF ReadOffset, Smaller

LEMMA NewlineType == Newlines \subseteq Nat /\ \A e \in Newlines : e > 0
  BY ReaderAssumption

\* Every variable keeps its shape.
THEOREM TypeCorrect == Spec => []TypeOK
<1> USE ReaderAssumption
<1>1. Init => TypeOK
  <2> SUFFICES ASSUME Init PROVE TypeOK
    OBVIOUS
  <2>1. gen \in Gens /\ exists \in BOOLEAN /\ (exists \/ gen < MaxGen) /\ enabled \in BOOLEAN
    BY DEF Init, Gens
  <2>2. NoRow \in [inode : {NoInode} \cup Gens, offset : Nat]
    BY DEF NoRow
  <2>3. NoChunk \in [inode : {NoInode} \cup Gens, offset : Nat, size : Nat,
                     src : {NoInode} \cup Gens, top : Nat]
    BY DEF NoChunk
  <2>4. size \in [Gens -> 0..MaxSize] /\ base \in [Gens -> Nat] /\ copies \in [Lines -> Nat]
    BY DEF Init
  <2>5. /\ lock \in Workers \cup {Free, Orphan} /\ mishaps \in Nat /\ overlapped \in BOOLEAN
        /\ pc \in [Workers -> {"idle", "loaded", "locked", "statted", "read", "recorded", "leaving"}]
    BY DEF Init
  <2>6. /\ row \in [inode : {NoInode} \cup Gens, offset : Nat]
        /\ snap \in [Workers -> [inode : {NoInode} \cup Gens, offset : Nat]]
        /\ chunk \in [Workers -> [inode : {NoInode} \cup Gens, offset : Nat, size : Nat,
                                  src : {NoInode} \cup Gens, top : Nat]]
    BY <2>2, <2>3 DEF Init
  <2> QED BY <2>1, <2>4, <2>5, <2>6 DEF TypeOK
<1>2. TypeOK /\ [Next]_vars => TypeOK'
  <2> SUFFICES ASSUME TypeOK, [Next]_vars PROVE TypeOK'
    OBVIOUS
  <2>0. \A w \in Workers : Forget(w) =>
           /\ snap' \in [Workers -> [inode : {NoInode} \cup Gens, offset : Nat]]
           /\ chunk' \in [Workers -> [inode : {NoInode} \cup Gens, offset : Nat, size : Nat,
                                      src : {NoInode} \cup Gens, top : Nat]]
    BY DEF TypeOK, Forget, NoRow, NoChunk
  <2>1. CASE Grow
    BY <2>1 DEF Grow, TypeOK, history
  <2>2. CASE MoveAway
    BY <2>2 DEF MoveAway, TypeOK, history
  <2>3. CASE Create
    <3>1. gen' \in Gens /\ exists' = TRUE
      BY <2>3 DEF Create, TypeOK, Gens
    <3>2. UNCHANGED <<size, row, enabled, lock, pc, snap, chunk, copies, history>>
      BY <2>3 DEF Create
    <3> QED BY <3>1, <3>2 DEF TypeOK, history
  <2>4. CASE Toggle
    BY <2>4 DEF Toggle, TypeOK, remote, history
  <2>5. CASE Expire
    BY <2>5 DEF Expire, TypeOK, remote, history
  <2>6. ASSUME NEW w \in Workers, Load(w) PROVE TypeOK'
    BY <2>6 DEF Load, TypeOK, remote, history
  <2>7. ASSUME NEW w \in Workers, Lock(w) PROVE TypeOK'
    BY <2>7 DEF Lock, L!Acquire, TypeOK, remote, history
  <2>8. ASSUME NEW w \in Workers, Skip(w) PROVE TypeOK'
    BY <2>8, <2>0 DEF Skip, TypeOK, remote, history
  <2>9. ASSUME NEW w \in Workers, Missing(w) PROVE TypeOK'
    BY <2>9 DEF Missing, TypeOK, remote, history
  <2>10. ASSUME NEW w \in Workers, Stat(w) PROVE TypeOK'
    <3>1. size[gen] \in Nat /\ gen \in Gens
      BY DEF TypeOK
    <3>2. ReadOffset(snap[w], gen, size[gen]) \in Nat
      BY <3>1, ReadOffsetType DEF TypeOK
    <3> QED BY <2>10, <3>1, <3>2 DEF Stat, TypeOK, remote, history
  <2>11. ASSUME NEW w \in Workers, Read(w) PROVE TypeOK'
    <3>1. size[gen] \in Nat /\ chunk[w].size \in Nat /\ chunk[w].top \in Nat
      BY DEF TypeOK
    <3>2. Smaller(size[gen], chunk[w].size) \in Nat
      BY <3>1, SmallerOne
    <3> DEFINE end == Smaller(size[gen], chunk[w].size)
               t == IF end > chunk[w].top THEN end ELSE chunk[w].top
    <3>3. t \in Nat /\ chunk' = [chunk EXCEPT ![w].src = gen, ![w].top = t]
      BY <2>11, <3>1, <3>2 DEF Read
    <3>4. chunk' \in [Workers -> [inode : {NoInode} \cup Gens, offset : Nat, size : Nat,
                                  src : {NoInode} \cup Gens, top : Nat]]
      <4> HIDE DEF t, end
      <4>1. /\ gen \in Gens
            /\ chunk \in [Workers -> [inode : {NoInode} \cup Gens, offset : Nat, size : Nat,
                                     src : {NoInode} \cup Gens, top : Nat]]
        BY DEF TypeOK
      <4> QED BY <3>3, <4>1
    <3>5. pc' \in [Workers -> {"idle", "loaded", "locked", "statted", "read", "recorded", "leaving"}]
      BY <2>11 DEF Read, TypeOK
    <3>6. mishaps' \in Nat /\ UNCHANGED <<gen, exists, size, row, enabled, lock, snap, copies, base, overlapped>>
      BY <2>11 DEF Read, TypeOK, remote
    <3> QED BY <3>4, <3>5, <3>6 DEF TypeOK
  <2>12. ASSUME NEW w \in Workers, Gone(w) PROVE TypeOK'
    BY <2>12 DEF Gone, TypeOK, remote, history
  <2>13. ASSUME NEW w \in Workers, Record(w) PROVE TypeOK'
    <3>1. copies' \in [Lines -> Nat]
      BY <2>13 DEF Record, TypeOK, Smaller
    <3>2. overlapped' \in BOOLEAN
      <4>1. overlapped' = (overlapped \/ snap[w] # row)
        BY <2>13 DEF Record
      <4> QED BY <4>1, Zenon DEF TypeOK
    <3> QED BY <2>13, <3>1, <3>2 DEF Record, TypeOK, remote
  <2>14. ASSUME NEW w \in Workers, Save(w) PROVE TypeOK'
    <3>0. chunk[w].offset \in Nat
      BY DEF TypeOK
    <3>1. Consumed(chunk[w]) \subseteq Nat
      BY <3>0, NewlineType DEF Consumed, Ends
    <3>2. row' \in [inode : {NoInode} \cup Gens, offset : Nat]
      BY <2>14, <3>1 DEF Save, TypeOK
    <3>3. base' \in [Gens -> Nat]
      BY <2>14, <3>0 DEF Save, TypeOK
    <3> QED BY <2>14, <3>2, <3>3 DEF Save, TypeOK, remote
  <2>15. ASSUME NEW w \in Workers, Unlock(w) PROVE TypeOK'
    BY <2>15, <2>0 DEF Unlock, TypeOK, remote, history
  <2>16. ASSUME NEW w \in Workers, Fail(w) PROVE TypeOK'
    BY <2>16 DEF Fail, TypeOK, remote, history
  <2>17. ASSUME NEW w \in Workers, Crash(w) PROVE TypeOK'
    BY <2>17, <2>0 DEF Crash, TypeOK, remote, history
  <2>18. CASE UNCHANGED vars
    BY <2>18 DEF vars, TypeOK
  <2> QED BY <2>1, <2>2, <2>3, <2>4, <2>5, <2>6, <2>7, <2>8, <2>9, <2>10, <2>11, <2>12,
             <2>13, <2>14, <2>15, <2>16, <2>17, <2>18 DEF Next, Step
<1> QED BY <1>1, <1>2, PTL DEF Spec

-----------------------------------------------------------------------------
(***************************************************************************)
(* Nothing is skipped.  The inductive invariant says what a saved position *)
(* and the chunk of a poll stand for: everything behind the baseline and   *)
(* before the position is stored.  It is stated with the state as          *)
(* parameters, so that one lemma about growth serves every action and      *)
(* every position a worker holds.                                          *)
(***************************************************************************)
Covers(i, o, g, s, c, b) ==
    /\ i \in 1..g
    /\ i = g => /\ o =< s[g]
                /\ o = 0 \/ o \in Newlines \/ o =< b[g]
                /\ \A e \in Newlines : e =< o /\ Whole(b[g], e) /\ <<g, e>> \notin Malformed
                                         => c[<<g, e>>] > 0

ChunkOK(k, g, s, c, b) ==
    /\ Covers(k.inode, k.offset, g, s, c, b) /\ k.offset =< k.top
    /\ k.inode = g => k.src = g /\ k.top =< s[g] /\ k.size =< s[g]

EndsStored(k, g, c, b) ==
    k.inode = g => \A e \in Ends(k) : Whole(b[g], e) /\ <<g, e>> \notin Malformed => c[<<g, e>>] > 0

\* The chunk of a first poll: no bytes, at what was the end of its file.
AtTheEnd(k, g, s) ==
    k.inode \in 1..g /\ k.top = k.offset /\ (k.inode = g => k.offset =< s[g])

\* What a worker at p with snapshot sn and chunk k may rely on.
HeldSound(p, sn, k, g, s, c, b) ==
    /\ p \in {"statted", "read"} => sn.inode # NoInode
    /\ sn.inode # NoInode =>
         /\ p \in {"loaded", "locked"} => Covers(sn.inode, sn.offset, g, s, c, b)
         /\ p \in {"statted", "read", "recorded"} => ChunkOK(k, g, s, c, b)
         /\ p = "recorded" => EndsStored(k, g, c, b)
    /\ sn.inode = NoInode /\ p = "recorded" => AtTheEnd(k, g, s)

IInv ==
    /\ row.inode # NoInode => Covers(row.inode, row.offset, gen, size, copies, base)
    /\ \A w \in Workers : HeldSound(pc[w], snap[w], chunk[w], gen, size, copies, base)

\* What any step does to the file, the stored events and the baselines.
Grows(g, s, c, b, g2, s2, c2, b2) ==
    /\ g \in Gens /\ s[g] \in Nat /\ s2[g] \in Nat /\ b[g] \in Nat /\ b2[g] \in Nat
    /\ g2 = g + 1 \/ (g2 = g /\ s[g] =< s2[g])
    /\ b[g] =< b2[g]
    /\ \A l \in Lines : c[l] > 0 => c2[l] > 0

\* A line behind a later baseline is behind an earlier one.
LEMMA WholeMonotone ==
    ASSUME NEW m \in Nat, NEW n \in Nat, m =< n, NEW e \in Newlines, Whole(n, e)
    PROVE  Whole(m, e)
<1>1. CASE n = 0
  BY <1>1 DEF Whole
<1>2. CASE n # 0
  <2>1. PICK k \in Newlines : n =< k /\ k < e
    BY <1>2 DEF Whole
  <2>2. m =< k
    BY <2>1, NewlineType
  <2> QED BY <2>1, <2>2 DEF Whole
<1> QED BY <1>1, <1>2

LEMMA GrowthCovers ==
    ASSUME NEW g, NEW s, NEW c, NEW b, NEW g2, NEW s2, NEW c2, NEW b2, Grows(g, s, c, b, g2, s2, c2, b2),
           NEW i, NEW o \in Nat, Covers(i, o, g, s, c, b)
    PROVE  Covers(i, o, g2, s2, c2, b2)
<1>0. g \in Nat /\ i \in Nat /\ i =< g
  BY ReaderAssumption DEF Grows, Gens, Covers
<1>1. CASE g2 = g + 1
  BY <1>0, <1>1 DEF Covers
<1>2. CASE g2 = g /\ s[g] =< s2[g]
  <2>1. \A e \in Newlines : <<g, e>> \in Lines
    BY DEF Lines, Grows
  <2>2. \A e \in Newlines : Whole(b2[g], e) => Whole(b[g], e)
    BY WholeMonotone DEF Grows
  <2>3. ASSUME i = g
        PROVE  /\ o =< s2[g]
               /\ o = 0 \/ o \in Newlines \/ o =< b2[g]
               /\ \A e \in Newlines : e =< o /\ Whole(b2[g], e) /\ <<g, e>> \notin Malformed
                                        => c2[<<g, e>>] > 0
    BY <1>2, <2>1, <2>2, <2>3 DEF Covers, Grows
  <2> QED BY <1>0, <1>2, <2>3 DEF Covers
<1> QED BY <1>1, <1>2 DEF Grows

LEMMA GrowthChunk ==
    ASSUME NEW g, NEW s, NEW c, NEW b, NEW g2, NEW s2, NEW c2, NEW b2, Grows(g, s, c, b, g2, s2, c2, b2),
           NEW k \in [inode : {NoInode} \cup Gens, offset : Nat, size : Nat,
                      src : {NoInode} \cup Gens, top : Nat]
    PROVE  /\ ChunkOK(k, g, s, c, b) => ChunkOK(k, g2, s2, c2, b2)
           /\ ChunkOK(k, g, s, c, b) /\ EndsStored(k, g, c, b) => EndsStored(k, g2, c2, b2)
           /\ AtTheEnd(k, g, s) => AtTheEnd(k, g2, s2)
<1>0. AtTheEnd(k, g, s) => AtTheEnd(k, g2, s2)
  <2> SUFFICES ASSUME AtTheEnd(k, g, s) PROVE AtTheEnd(k, g2, s2)
    OBVIOUS
  <2>1. g \in Nat /\ k.inode \in Nat /\ k.inode =< g /\ k.offset \in Nat
    BY ReaderAssumption DEF Grows, Gens, AtTheEnd
  <2> QED BY <2>1 DEF Grows, AtTheEnd
<1> SUFFICES ASSUME ChunkOK(k, g, s, c, b)
             PROVE  ChunkOK(k, g2, s2, c2, b2) /\ (EndsStored(k, g, c, b) => EndsStored(k, g2, c2, b2))
  BY <1>0
<1>1. Covers(k.inode, k.offset, g, s, c, b) /\ k.offset \in Nat
  BY DEF ChunkOK
<1>2. Covers(k.inode, k.offset, g2, s2, c2, b2)
  BY <1>1, GrowthCovers
<1>3. g \in Nat /\ k.inode \in Nat /\ k.inode =< g
  BY <1>1, ReaderAssumption DEF Grows, Gens, Covers
<1>4. CASE g2 = g + 1
  BY <1>2, <1>3, <1>4 DEF ChunkOK, EndsStored
<1>5. CASE g2 = g /\ s[g] =< s2[g]
  <2>1. \A e \in Ends(k) : e \in Newlines /\ <<g, e>> \in Lines
    BY DEF Lines, Grows, Ends
  <2>2. \A e \in Ends(k) : Whole(b2[g], e) => Whole(b[g], e)
    BY <2>1, WholeMonotone DEF Grows
  <2>3. EndsStored(k, g, c, b) => EndsStored(k, g2, c2, b2)
    BY <1>5, <2>1, <2>2 DEF EndsStored, Grows
  <2>4. ChunkOK(k, g2, s2, c2, b2)
    BY <1>2, <1>5 DEF ChunkOK, Grows
  <2> QED BY <2>3, <2>4
<1> QED BY <1>4, <1>5 DEF Grows

\* No step shrinks the file, steps back a generation, forgets an event or moves
\* a baseline back.
LEMMA StepGrows ==
    ASSUME TypeOK, [Next]_vars
    PROVE  Grows(gen, size, copies, base, gen', size', copies', base')
<1> USE ReaderAssumption
<1>0. /\ gen \in Gens /\ gen \in Nat /\ size[gen] \in Nat /\ copies \in [Lines -> Nat]
      /\ base[gen] \in Nat
  BY DEF TypeOK, Gens
<1>1. CASE Grow
  BY <1>0, <1>1 DEF Grow, Grows, TypeOK, history
<1>2. CASE Create
  BY <1>0, <1>2 DEF Create, Grows, history
<1>3. ASSUME NEW w \in Workers, Record(w)
      PROVE  Grows(gen, size, copies, base, gen', size', copies', base')
  <2>1. \A l \in Lines : copies[l] > 0 => copies'[l] > 0
    BY <1>0, <1>3 DEF Record, Smaller
  <2> QED BY <1>0, <1>3, <2>1 DEF Record, Grows, remote
<1>4. ASSUME UNCHANGED <<gen, size, copies, base>>
      PROVE  Grows(gen, size, copies, base, gen', size', copies', base')
  BY <1>0, <1>4 DEF Grows
<1>5. CASE MoveAway \/ Toggle \/ Expire \/ UNCHANGED vars
  BY <1>4, <1>5 DEF MoveAway, Toggle, Expire, vars, remote, history
<1>6. ASSUME NEW w \in Workers, Load(w) \/ Lock(w) \/ Skip(w) \/ Missing(w) \/ Stat(w) \/ Read(w)
             \/ Gone(w) \/ Unlock(w) \/ Fail(w) \/ Crash(w)
      PROVE  Grows(gen, size, copies, base, gen', size', copies', base')
  BY <1>4, <1>6 DEF Load, Lock, Skip, Missing, Stat, Read, Gone, Unlock, Fail, Crash, remote, history
<1>7. ASSUME NEW w \in Workers, Save(w)
      PROVE  Grows(gen, size, copies, base, gen', size', copies', base')
  <2>1. UNCHANGED <<gen, size, copies>>
    BY <1>7 DEF Save, remote
  <2>2. base[gen] =< base'[gen] /\ base'[gen] \in Nat
    <3>1. chunk[w].offset \in Nat /\ base \in [Gens -> Nat]
      BY DEF TypeOK
    <3>2. CASE base' = base
      BY <1>0, <3>2
    <3>3. CASE /\ base' = [base EXCEPT ![chunk[w].inode] = chunk[w].offset]
               /\ chunk[w].offset > base[chunk[w].inode]
      BY <1>0, <3>1, <3>3
    <3> QED BY <1>7, <3>2, <3>3 DEF Save
  <2> QED BY <1>0, <2>1, <2>2 DEF Grows
<1> QED BY <1>1, <1>2, <1>3, <1>5, <1>6, <1>7 DEF Next, Step

\* What was sound before a step is sound after it.
LEMMA StaysSound ==
    ASSUME TypeOK, [Next]_vars
    PROVE  /\ \A w \in Workers : \A p : HeldSound(p, snap[w], chunk[w], gen, size, copies, base)
                => HeldSound(p, snap[w], chunk[w], gen', size', copies', base')
           /\ Covers(row.inode, row.offset, gen, size, copies, base)
                => Covers(row.inode, row.offset, gen', size', copies', base')
<1>1. Grows(gen, size, copies, base, gen', size', copies', base')
  BY StepGrows
<1>2. row.offset \in Nat
  BY DEF TypeOK
<1>3. ASSUME NEW w \in Workers
      PROVE  /\ snap[w].offset \in Nat
             /\ chunk[w] \in [inode : {NoInode} \cup Gens, offset : Nat, size : Nat,
                              src : {NoInode} \cup Gens, top : Nat]
  BY DEF TypeOK
<1>4. Covers(row.inode, row.offset, gen, size, copies, base)
        => Covers(row.inode, row.offset, gen', size', copies', base')
  BY <1>1, <1>2, GrowthCovers
<1>5. ASSUME NEW w \in Workers, NEW p, HeldSound(p, snap[w], chunk[w], gen, size, copies, base)
      PROVE  HeldSound(p, snap[w], chunk[w], gen', size', copies', base')
  <2>1. Covers(snap[w].inode, snap[w].offset, gen, size, copies, base)
          => Covers(snap[w].inode, snap[w].offset, gen', size', copies', base')
    BY <1>1, <1>3, GrowthCovers
  <2>2. /\ ChunkOK(chunk[w], gen, size, copies, base) => ChunkOK(chunk[w], gen', size', copies', base')
        /\ ChunkOK(chunk[w], gen, size, copies, base) /\ EndsStored(chunk[w], gen, copies, base)
             => EndsStored(chunk[w], gen', copies', base')
        /\ AtTheEnd(chunk[w], gen, size) => AtTheEnd(chunk[w], gen', size')
    BY <1>1, <1>3, GrowthChunk
  <2> QED BY <1>5, <2>1, <2>2 DEF HeldSound
<1> QED BY <1>4, <1>5

\* The chunk a stat starts from: at a position the row vouches for, or at the
\* end of the file when the row has none.
LEMMA StatSound ==
    ASSUME TypeOK, IInv, NEW w \in Workers, Stat(w)
    PROVE  HeldSound(pc'[w], snap[w], chunk'[w], gen, size, copies, base)
<1> DEFINE off == ReadOffset(snap[w], gen, size[gen])
<1>1. /\ snap[w] \in [inode : {NoInode} \cup Gens, offset : Nat]
      /\ gen \in Nat /\ gen > 0 /\ size[gen] \in Nat /\ base[gen] \in Nat
  <2>1. snap[w] \in [inode : {NoInode} \cup Gens, offset : Nat]
    BY DEF TypeOK
  <2>2. gen \in Gens /\ size \in [Gens -> 0..MaxSize] /\ base \in [Gens -> Nat]
    BY DEF TypeOK
  <2>3. MaxSize \in Nat /\ \A g \in Gens : g \in Nat /\ g > 0
    BY ReaderAssumption DEF Gens
  <2> QED BY <2>1, <2>2, <2>3
<1>2. off \in Nat /\ off =< size[gen] /\ (snap[w].inode = NoInode => off = size[gen])
  BY <1>1, ReadOffsetType DEF ReadOffset
<1>3. snap[w].inode # NoInode => Covers(gen, off, gen, size, copies, base)
  <2> SUFFICES ASSUME snap[w].inode # NoInode PROVE Covers(gen, off, gen, size, copies, base)
    OBVIOUS
  <2>0. Covers(snap[w].inode, snap[w].offset, gen, size, copies, base)
    BY DEF IInv, HeldSound, Stat
  <2>1. CASE snap[w].inode = gen
    <3>1. snap[w].offset =< size[gen]
      BY <2>0, <2>1 DEF Covers
    <3>2. off = snap[w].offset
      BY <1>1, <2>1, <3>1 DEF ReadOffset, Smaller, NoInode
    <3> QED BY <2>0, <2>1, <3>2
  <2>2. CASE snap[w].inode # gen
    <3>1. off = 0
      BY <2>2 DEF ReadOffset
    <3> QED BY <1>1, <3>1, NewlineType DEF Covers
  <2> QED BY <2>1, <2>2
<1> HIDE DEF off
<1>5. /\ chunk'[w] = [inode |-> gen, offset |-> off, size |-> size[gen], src |-> gen, top |-> off]
      /\ pc'[w] = IF size[gen] > off THEN "statted" ELSE "recorded"
  BY DEF Stat, TypeOK, off
<1>6. snap[w].inode # NoInode => ChunkOK(chunk'[w], gen, size, copies, base)
  BY <1>1, <1>2, <1>3, <1>5 DEF ChunkOK
<1>7. Ends(chunk'[w]) = {}
  <2>1. chunk'[w].offset = off /\ chunk'[w].top = off
    BY <1>5
  <2>2. \A e \in Newlines : ~(off < e /\ e =< off)
    BY <1>2, NewlineType
  <2> QED BY <2>1, <2>2 DEF Ends
<1>8. AtTheEnd(chunk'[w], gen, size)
  BY <1>1, <1>2, <1>5 DEF AtTheEnd
<1>9. snap[w].inode = NoInode => pc'[w] = "recorded"
  BY <1>1, <1>2, <1>5
<1>10. pc'[w] \in {"statted", "recorded"}
  BY <1>5
<1> QED BY <1>6, <1>7, <1>8, <1>9, <1>10 DEF HeldSound, EndsStored

\* The bytes read come from the statted file, unless it is no longer at `path`.
LEMMA ReadSound ==
    ASSUME TypeOK, IInv, NEW w \in Workers, Read(w)
    PROVE  HeldSound(pc'[w], snap[w], chunk'[w], gen, size, copies, base)
<1> DEFINE end == Smaller(size[gen], chunk[w].size)
           t == IF end > chunk[w].top THEN end ELSE chunk[w].top
<1>1. /\ chunk[w] \in [inode : {NoInode} \cup Gens, offset : Nat, size : Nat,
                       src : {NoInode} \cup Gens, top : Nat]
      /\ gen \in Nat /\ size[gen] \in Nat
  BY ReaderAssumption DEF TypeOK, Gens
<1>2. ChunkOK(chunk[w], gen, size, copies, base) /\ snap[w].inode # NoInode
  BY DEF IInv, HeldSound, Read
<1>3. t \in Nat /\ t >= chunk[w].top /\ (t =< size[gen] \/ t = chunk[w].top)
  BY <1>1 DEF Smaller
<1>4. pc'[w] = "read" /\ chunk' = [chunk EXCEPT ![w].src = gen, ![w].top = t]
  BY DEF Read, TypeOK
<1> HIDE DEF t
<1>5. /\ chunk'[w].inode = chunk[w].inode /\ chunk'[w].offset = chunk[w].offset
      /\ chunk'[w].size = chunk[w].size /\ chunk'[w].src = gen /\ chunk'[w].top = t
  BY <1>1, <1>4 DEF TypeOK
<1>6. ChunkOK(chunk'[w], gen, size, copies, base)
  BY <1>1, <1>2, <1>3, <1>5 DEF ChunkOK
<1> QED BY <1>2, <1>4, <1>6 DEF HeldSound

\* bulk_create stores every line the chunk ends and that starts behind the
\* baseline, when it was read from the current file.
LEMMA RecordSound ==
    ASSUME TypeOK, IInv, NEW w \in Workers, Record(w)
    PROVE  HeldSound(pc'[w], snap[w], chunk[w], gen', size', copies', base')
<1>1. pc[w] = "read" /\ pc'[w] = "recorded" /\ UNCHANGED <<gen, size, base>>
  BY DEF Record, TypeOK, remote
<1>2. ChunkOK(chunk[w], gen, size, copies, base) /\ snap[w].inode # NoInode
  BY <1>1 DEF IInv, HeldSound
<1>3. ChunkOK(chunk[w], gen', size', copies', base')
  <2>1. HeldSound("read", snap[w], chunk[w], gen, size, copies, base)
    BY <1>2 DEF HeldSound
  <2>2. HeldSound("read", snap[w], chunk[w], gen', size', copies', base')
    BY <2>1, StaysSound DEF Next, Step
  <2> QED BY <1>2, <2>2 DEF HeldSound
<1>4. ASSUME chunk[w].inode = gen, NEW e \in Ends(chunk[w]), Whole(base[gen], e), <<gen, e>> \notin Malformed
      PROVE  copies'[<<gen, e>>] > 0
  <2>1. /\ chunk[w].src = gen /\ e \in Newlines /\ <<gen, e>> \in Lines
        /\ base[gen] \in Nat /\ chunk[w].offset \in Nat /\ chunk[w].offset < e
    BY <1>2, <1>4 DEF ChunkOK, Ends, Lines, TypeOK
  <2>2. chunk[w].offset = 0 \/ chunk[w].offset \in Newlines \/ chunk[w].offset =< base[gen]
    BY <1>2, <1>4 DEF ChunkOK, Covers
  <2>3. Whole(chunk[w].offset, e)
    <3>1. CASE chunk[w].offset = 0 \/ chunk[w].offset \in Newlines
      BY <2>1, <3>1, NewlineType DEF Whole
    <3>2. CASE chunk[w].offset =< base[gen]
      BY <1>4, <2>1, <3>2, WholeMonotone
    <3> QED BY <2>2, <3>1, <3>2
  <2>4. e \in Parsed(chunk[w])
    BY <1>4, <2>1, <2>3 DEF Parsed
  <2>5. copies'[<<gen, e>>] = Smaller(copies[<<gen, e>>] + 1, MaxCopies)
    BY <2>1, <2>4 DEF Record
  <2>6. copies[<<gen, e>>] \in Nat
    BY <2>1 DEF TypeOK
  <2> QED BY <2>5, <2>6, ReaderAssumption DEF Smaller
<1> QED BY <1>1, <1>2, <1>3, <1>4 DEF HeldSound, EndsStored

\* The position saved covers what was stored and nothing else; the position of
\* a first poll becomes the baseline.
LEMMA SaveSound ==
    ASSUME TypeOK, IInv, NEW w \in Workers, Save(w)
    PROVE  Covers(row'.inode, row'.offset, gen, size, copies, base')
<1>1. PICK o \in Consumed(chunk[w]) : row'.inode = chunk[w].inode /\ row'.offset = o
  BY DEF Save
<1>2. chunk[w].top \in Nat /\ size[gen] \in Nat /\ chunk[w].offset \in Nat /\ base \in [Gens -> Nat] /\ gen \in Gens
  BY DEF TypeOK, Gens
<1>3. CASE snap[w].inode # NoInode
  <2>0. ChunkOK(chunk[w], gen, size, copies, base) /\ EndsStored(chunk[w], gen, copies, base) /\ base' = base
    BY <1>3 DEF Save, IInv, HeldSound
  <2>1. CASE o = chunk[w].offset
    BY <1>1, <2>0, <2>1 DEF ChunkOK
  <2>2. CASE o \in Ends(chunk[w])
    <3>1. o \in Newlines /\ o =< chunk[w].top
      BY <2>2 DEF Ends
    <3>2. chunk[w].inode \in 1..gen
      BY <2>0 DEF ChunkOK, Covers
    <3>3. ASSUME chunk[w].inode = gen PROVE o =< size[gen]
      <4>1. chunk[w].top =< size[gen]
        BY <2>0, <3>3 DEF ChunkOK
      <4>2. o \in Nat
        BY <3>1, NewlineType
      <4> QED BY <1>2, <3>1, <4>1, <4>2
    <3>4. ASSUME chunk[w].inode = gen, NEW e \in Newlines, e =< o, Whole(base[gen], e), <<gen, e>> \notin Malformed
          PROVE  copies[<<gen, e>>] > 0
      <4>1. CASE e =< chunk[w].offset
        BY <2>0, <3>4, <4>1 DEF ChunkOK, Covers
      <4>2. CASE ~(e =< chunk[w].offset)
        <5>1. e \in Nat /\ o \in Nat
          BY <3>1, NewlineType
        <5>2. e \in Ends(chunk[w])
          BY <1>2, <3>1, <3>4, <4>2, <5>1 DEF Ends
        <5> QED BY <2>0, <3>4, <5>2 DEF EndsStored
      <4> QED BY <4>1, <4>2
    <3> QED BY <1>1, <2>0, <3>1, <3>2, <3>3, <3>4 DEF Covers
  <2> QED BY <2>1, <2>2 DEF Consumed
<1>4. CASE snap[w].inode = NoInode
  <2>0. AtTheEnd(chunk[w], gen, size)
    BY <1>4 DEF Save, IInv, HeldSound
  <2>1. o = chunk[w].offset
    <3>1. chunk[w].top = chunk[w].offset /\ chunk[w].offset \in Nat
      BY <1>2, <2>0 DEF AtTheEnd
    <3>2. ASSUME NEW e \in Newlines PROVE ~(chunk[w].offset < e /\ e =< chunk[w].top)
      <4>1. e \in Nat
        BY NewlineType
      <4> QED BY <3>1, <4>1
    <3>3. Ends(chunk[w]) = {}
      BY <3>2 DEF Ends
    <3> QED BY <3>3 DEF Consumed
  <2>2. ASSUME chunk[w].inode = gen PROVE o =< base'[gen] /\ base'[gen] \in Nat
    <3>1. base' = IF chunk[w].offset > base[gen] THEN [base EXCEPT ![gen] = chunk[w].offset] ELSE base
      BY <1>4, <2>2 DEF Save
    <3>2. CASE chunk[w].offset > base[gen]
      BY <1>2, <2>1, <3>1, <3>2
    <3>3. CASE ~(chunk[w].offset > base[gen])
      BY <1>2, <2>1, <3>1, <3>3
    <3> QED BY <3>2, <3>3
  <2>3. ASSUME chunk[w].inode = gen, NEW e \in Newlines, e =< o, Whole(base'[gen], e)
        PROVE  FALSE
    <3>1. e \in Nat /\ e > 0 /\ o \in Nat
      BY <1>2, <2>1, NewlineType
    <3>2. CASE base'[gen] = 0
      BY <2>2, <2>3, <3>1, <3>2
    <3>3. CASE base'[gen] # 0
      <4>1. PICK n \in Newlines : base'[gen] =< n /\ n < e
        BY <2>3, <3>3 DEF Whole
      <4> QED BY <2>2, <2>3, <3>1, <4>1, NewlineType
    <3> QED BY <3>2, <3>3
  <2> QED BY <1>1, <2>0, <2>1, <2>2, <2>3 DEF Covers, AtTheEnd
<1> QED BY <1>3, <1>4

LEMMA IInvStep == ASSUME TypeOK, IInv, [Next]_vars PROVE IInv'
<1>2. ASSUME row' = row,
             \A w \in Workers : HeldSound(pc'[w], snap'[w], chunk'[w], gen', size', copies', base')
      PROVE  IInv'
  BY <1>2, StaysSound DEF IInv
<1>3. ASSUME UNCHANGED <<row, pc, snap, chunk>> PROVE IInv'
  <2>1. \A w \in Workers : HeldSound(pc'[w], snap'[w], chunk'[w], gen', size', copies', base')
    BY <1>3, StaysSound DEF IInv
  <2> QED BY <1>2, <1>3, <2>1
<1>4. CASE Grow \/ MoveAway \/ Create \/ Toggle \/ Expire \/ UNCHANGED vars
  BY <1>3, <1>4 DEF Grow, MoveAway, Create, Toggle, Expire, vars, remote
\* A step of worker w leaves what the others hold alone.
<1>5. ASSUME NEW w \in Workers, Step(w) \/ Fail(w) \/ Crash(w), NEW v \in Workers, v # w
      PROVE  HeldSound(pc'[v], snap'[v], chunk'[v], gen', size', copies', base')
  <2>1. pc'[v] = pc[v] /\ snap'[v] = snap[v] /\ chunk'[v] = chunk[v]
    BY <1>5 DEF Step, Load, Lock, Skip, Missing, Stat, Read, Gone, Record, Save, Unlock, Fail, Crash,
         Forget, TypeOK
  <2> QED BY <2>1, StaysSound DEF IInv
\* Once w is done with its chunk it relies on nothing.
<1>6. ASSUME NEW w \in Workers, pc'[w] \in {"idle", "leaving"}
      PROVE  HeldSound(pc'[w], snap'[w], chunk'[w], gen', size', copies', base')
  BY <1>6 DEF HeldSound
<1>7. ASSUME NEW w \in Workers, Load(w) PROVE IInv'
  <2>1. HeldSound(pc'[w], snap'[w], chunk'[w], gen', size', copies', base')
    BY <1>7 DEF Load, TypeOK, IInv, HeldSound, remote, history
  <2> QED BY <1>2, <1>5, <1>7, <2>1 DEF Load, Step
<1>8. ASSUME NEW w \in Workers, Lock(w) PROVE IInv'
  <2>1. HeldSound(pc'[w], snap'[w], chunk'[w], gen', size', copies', base')
    BY <1>8 DEF Lock, TypeOK, IInv, HeldSound, remote, history
  <2> QED BY <1>2, <1>5, <1>8, <2>1 DEF Lock, Step
<1>9. ASSUME NEW w \in Workers, Skip(w) \/ Missing(w) \/ Gone(w) \/ Unlock(w) \/ Fail(w) \/ Crash(w)
      PROVE  IInv'
  <2>1. pc'[w] \in {"idle", "leaving"} /\ row' = row
    BY <1>9 DEF Skip, Missing, Gone, Unlock, Fail, Crash, TypeOK
  <2> QED BY <1>2, <1>5, <1>6, <1>9, <2>1 DEF Step
<1>10. ASSUME NEW w \in Workers, Stat(w) PROVE IInv'
  <2>1. HeldSound(pc'[w], snap'[w], chunk'[w], gen', size', copies', base')
    BY <1>10, StatSound DEF Stat, remote, history
  <2> QED BY <1>2, <1>5, <1>10, <2>1 DEF Stat, Step
<1>11. ASSUME NEW w \in Workers, Read(w) PROVE IInv'
  <2>1. HeldSound(pc'[w], snap'[w], chunk'[w], gen', size', copies', base')
    BY <1>11, ReadSound DEF Read, remote
  <2> QED BY <1>2, <1>5, <1>11, <2>1 DEF Read, Step
<1>12. ASSUME NEW w \in Workers, Record(w) PROVE IInv'
  <2>1. HeldSound(pc'[w], snap'[w], chunk'[w], gen', size', copies', base')
    BY <1>12, RecordSound DEF Record
  <2> QED BY <1>2, <1>5, <1>12, <2>1 DEF Record, Step
<1>13. ASSUME NEW w \in Workers, Save(w) PROVE IInv'
  <2>1. \A v \in Workers : HeldSound(pc'[v], snap'[v], chunk'[v], gen', size', copies', base')
    BY <1>5, <1>6, <1>13 DEF Save, Step, TypeOK
  <2>2. Covers(row'.inode, row'.offset, gen', size', copies', base')
    BY <1>13, SaveSound DEF Save, remote
  <2> QED BY <2>1, <2>2 DEF IInv
<1> QED BY <1>4, <1>7, <1>8, <1>9, <1>10, <1>11, <1>12, <1>13 DEF Next, Step

LEMMA IInvThm == Spec => []IInv
<1>1. Init => IInv
  BY DEF Init, IInv, HeldSound, NoRow
<1>2. TypeOK /\ IInv /\ [Next]_vars => IInv'
  BY IInvStep
<1> QED BY <1>1, <1>2, TypeCorrect, PTL DEF Spec

\* Every position a poll holds or saves is covered by stored events, and so
\* no line behind the baseline is ever skipped: for any number of workers, any
\* interleaving of polls, first polls, crashes, failures and rotations, and
\* even when polls outlive their lock.
THEOREM NothingSkippedThm == Spec => []NothingSkipped
<1>1. TypeOK /\ IInv => NothingSkipped
  <2> SUFFICES ASSUME TypeOK, IInv, row.inode = gen PROVE StoredUpTo(row.offset)
    BY DEF NothingSkipped
  <2>1. gen # NoInode
    BY ReaderAssumption DEF TypeOK, Gens, NoInode
  <2> QED BY <2>1 DEF IInv, Covers, StoredUpTo
<1> QED BY <1>1, TypeCorrect, IInvThm, PTL
-----------------------------------------------------------------------------
(***************************************************************************)
(* Polls that end within the 120 s of their lock are alone: the log source *)
(* is polled by its holder only.                                           *)
(***************************************************************************)
Alone == \A w \in Workers : InBody(w) => lock = w

LEMMA AloneStep == ASSUME TypeOK, Alone, ~LongPolls, [Next]_vars PROVE Alone'
<1> USE ReaderAssumption
<1> SUFFICES ASSUME NEW v \in Workers, InBody(v)' PROVE lock' = v
  BY DEF Alone
<1>1. ASSUME UNCHANGED <<lock, pc>> PROVE lock' = v
  BY <1>1 DEF Alone, InBody
<1>2. CASE Grow \/ MoveAway \/ Create \/ Toggle \/ UNCHANGED vars
  BY <1>1, <1>2 DEF Grow, MoveAway, Create, Toggle, vars
<1>3. CASE Expire
  <2>1. lock = Orphan /\ pc' = pc
    BY <1>3 DEF Expire
  <2>2. InBody(v)
    BY <2>1 DEF InBody
  <2> QED BY <2>1, <2>2 DEF Alone
<1>4. ASSUME NEW w \in Workers, Step(w) \/ Fail(w) \/ Crash(w), v # w PROVE lock' = v
  <2>1. InBody(v)
    BY <1>4 DEF InBody, Step, Load, Lock, Skip, Missing, Stat, Read, Gone, Record, Save, Unlock,
                Fail, Crash, Forget, TypeOK
  <2>2. lock = v /\ ~InBody(w) /\ lock # Free
    BY <1>4, <2>1 DEF Alone
  <2>3. Load(w) \/ Skip(w)
    BY <1>4, <2>2 DEF InBody, Step, Lock, L!Acquire, Missing, Stat, Read, Gone, Record, Save, Unlock,
                      Fail, Crash
  <2> QED BY <2>2, <2>3 DEF Load, Skip
<1>5. CASE Load(v) \/ Skip(v) \/ Unlock(v) \/ Crash(v)
  <2>1. pc'[v] \in {"idle", "loaded"}
    BY <1>5 DEF Load, Skip, Unlock, Crash, TypeOK
  <2> QED BY <2>1 DEF InBody
<1>6. CASE Lock(v)
  BY <1>6 DEF Lock, L!Acquire
<1>7. CASE Missing(v) \/ Stat(v) \/ Read(v) \/ Gone(v) \/ Record(v) \/ Save(v) \/ Fail(v)
  <2>1. InBody(v) /\ lock' = lock
    BY <1>7 DEF InBody, Missing, Stat, Read, Gone, Record, Save, Fail
  <2> QED BY <2>1 DEF Alone
<1> QED BY <1>2, <1>3, <1>4, <1>5, <1>6, <1>7 DEF Next, Step

\* While no poll outlives its lock, no two are in its body: for any workers,
\* crashes and failures.
THEOREM AloneThm == ASSUME ~LongPolls PROVE Spec => []Alone
<1>1. Init => Alone
  BY DEF Init, Alone, InBody
<1>2. TypeOK /\ Alone /\ [Next]_vars => Alone'
  BY AloneStep
<1> QED BY <1>1, <1>2, TypeCorrect, PTL DEF Spec

\* The polls of a log source use its lock as a lease, and never release the
\* lease of another poll.
THEOREM LockIsLeaseThm == ASSUME ~LongPolls PROVE Spec => LockIsLease
<1>1. Init => L!Init
  BY DEF Init, L!Init
<1>2. Alone /\ [Next]_vars => [L!Next]_lock
  <2> SUFFICES ASSUME Alone, [Next]_vars PROVE L!Next \/ UNCHANGED lock
    OBVIOUS
  <2>1. CASE Grow \/ MoveAway \/ Create \/ Toggle \/ UNCHANGED vars
    BY <2>1 DEF Grow, MoveAway, Create, Toggle, vars
  <2>2. CASE Expire
    BY <2>2 DEF Expire, L!Next, L!Expire
  <2>3. ASSUME NEW w \in Workers, Lock(w) PROVE L!Next
    BY <2>3 DEF Lock, L!Next
  <2>4. ASSUME NEW w \in Workers, Unlock(w) PROVE L!Next
    <3>1. lock = w /\ lock' = Free
      BY <2>4 DEF Unlock, Alone, InBody
    <3> QED BY <3>1 DEF L!Next, L!Release
  <2>5. ASSUME NEW w \in Workers, Crash(w) PROVE L!Next
    <3>1. lock = w /\ lock' = Orphan
      BY <2>5 DEF Crash, Alone
    <3> QED BY <3>1 DEF L!Next, L!Crash
  <2>6. ASSUME NEW w \in Workers, Load(w) \/ Skip(w) \/ Missing(w) \/ Stat(w) \/ Read(w) \/ Gone(w)
               \/ Record(w) \/ Save(w) \/ Fail(w)
        PROVE  UNCHANGED lock
    BY <2>6 DEF Load, Skip, Missing, Stat, Read, Gone, Record, Save, Fail
  <2> QED BY <2>1, <2>2, <2>3, <2>4, <2>5, <2>6 DEF Next, Step
<1> QED BY <1>1, <1>2, AloneThm, PTL DEF Spec, LockIsLease, L!Spec
-----------------------------------------------------------------------------
(***************************************************************************)
(* The read position of the file at `path` moves forward only.  The        *)
(* inductive invariant says of a poll inside its lock that the row as it   *)
(* is now, not as it was loaded, lies within what the poll will save:      *)
(* before the chunk, or at a newline the chunk reaches.                    *)
(***************************************************************************)
Chunked == {"statted", "read", "recorded"}
Reached(w) == IF pc[w] = "statted" THEN chunk[w].size ELSE chunk[w].top
KeepsAhead(w) ==
    pc[w] \in Chunked =>
      /\ row.inode =< chunk[w].inode
      /\ row.inode = gen /\ row.offset > base[gen] =>
           row.offset =< chunk[w].offset \/ (row.offset \in Newlines /\ row.offset =< Reached(w))
AllAhead == \A w \in Workers : KeepsAhead(w)

\* A chunk belongs to a file that is or was at `path`, and so does the row.
LEMMA ChunkHere ==
    ASSUME TypeOK, IInv, NEW w \in Workers, pc[w] \in Chunked
    PROVE  chunk[w].inode \in 1..gen
  BY DEF IInv, HeldSound, ChunkOK, Covers, AtTheEnd, Chunked

LEMMA RowHere ==
    ASSUME TypeOK, IInv
    PROVE  /\ row.inode \in 0..gen /\ gen \in Nat /\ gen > 0
           /\ row.inode = gen => /\ row.offset =< size[gen]
                                 /\ row.offset = 0 \/ row.offset \in Newlines \/ row.offset =< base[gen]
<1>1. gen \in Nat /\ gen > 0
  BY ReaderAssumption DEF TypeOK, Gens
<1>2. row.inode # NoInode => Covers(row.inode, row.offset, gen, size, copies, base)
  BY DEF IInv
<1>3. row.inode \in 0..gen
  BY <1>1, <1>2 DEF Covers, NoInode
<1> QED BY <1>1, <1>2, <1>3 DEF Covers, NoInode

\* While one poll is inside, no other writes the row, the events or the baselines.
LEMMA OthersOutside ==
    ASSUME TypeOK, Alone, NEW w \in Workers, InBody(w), NEW v \in Workers, v # w,
           Step(v) \/ Fail(v) \/ Crash(v)
    PROVE  /\ UNCHANGED <<row, copies, mishaps, overlapped, pc[w], snap[w], chunk[w]>>
           /\ \A u \in Workers : (pc'[u] \in Chunked) <=> (pc[u] \in Chunked)
           /\ pc[v] \notin Chunked
<1>1. lock = w /\ ~InBody(v)
  BY DEF Alone
<1>2. Load(v) \/ Skip(v)
  BY <1>1, ReaderAssumption DEF InBody, Step, Lock, L!Acquire, Missing, Stat, Read, Gone, Record, Save, Unlock,
     Fail, Crash
<1>3. pc[v] \notin Chunked /\ pc'[v] \notin Chunked
  BY <1>1, <1>2 DEF InBody, Chunked, Load, Skip, TypeOK
<1>4. UNCHANGED <<row, copies, mishaps, overlapped, pc[w], snap[w], chunk[w]>>
  BY <1>2 DEF Load, Skip, Forget, history, TypeOK
<1>5. \A u \in Workers : u # v => pc'[u] = pc[u]
  BY <1>2 DEF Load, Skip, TypeOK
<1> QED BY <1>3, <1>4, <1>5

\* A step that leaves the row and the chunk alone keeps the row within it.
LEMMA AheadKept ==
    ASSUME TypeOK, TypeOK', IInv, [Next]_vars, NEW w \in Workers, KeepsAhead(w),
           row' = row, chunk'[w] = chunk[w], pc'[w] = pc[w]
    PROVE  KeepsAhead(w)'
<1>1. gen' = gen + 1 \/ gen' = gen
  BY StepGrows DEF Grows
<1>2. base[gen] =< base'[gen] /\ base[gen] \in Nat /\ base'[gen] \in Nat /\ row.offset \in Nat
  BY StepGrows DEF Grows, TypeOK
<1>3. row.inode \in 0..gen /\ gen \in Nat
  BY RowHere
<1>4. Reached(w)' = Reached(w)
  BY DEF Reached
<1>5. CASE gen' = gen + 1
  BY <1>3, <1>5 DEF KeepsAhead
<1>6. CASE gen' = gen
  BY <1>2, <1>4, <1>6 DEF KeepsAhead
<1> QED BY <1>1, <1>5, <1>6

LEMMA StatAhead ==
    ASSUME TypeOK, IInv, NEW w \in Workers, Stat(w) PROVE KeepsAhead(w)'
<1> DEFINE off == ReadOffset(snap[w], gen, size[gen])
<1>1. /\ gen \in Gens /\ size[gen] \in Nat /\ base[gen] \in Nat /\ row.offset \in Nat
      /\ snap[w] \in [inode : {NoInode} \cup Gens, offset : Nat]
  BY DEF TypeOK
<1>2. off \in Nat /\ off =< size[gen]
  BY <1>1, ReadOffsetType
<1>3. /\ UNCHANGED <<row, gen, size, base>>
      /\ chunk'[w].inode = gen /\ chunk'[w].offset = off /\ chunk'[w].size = size[gen]
      /\ pc'[w] = IF size[gen] > off THEN "statted" ELSE "recorded"
  BY DEF Stat, TypeOK, remote, history
<1> HIDE DEF off
<1>4. /\ row.inode =< gen
      /\ row.inode = gen => /\ row.offset =< size[gen]
                            /\ row.offset = 0 \/ row.offset \in Newlines \/ row.offset =< base[gen]
  BY RowHere
<1>5. ASSUME row.inode = gen, row.offset > base[gen]
      PROVE  row.offset =< chunk'[w].offset \/ (row.offset \in Newlines /\ row.offset =< Reached(w)')
  <2>1. row.offset \in Newlines /\ row.offset =< size[gen]
    BY <1>1, <1>4, <1>5
  <2>2. CASE size[gen] > off
    BY <1>3, <2>1, <2>2 DEF Reached
  <2>3. CASE ~(size[gen] > off)
    BY <1>1, <1>2, <1>3, <2>1, <2>3
  <2> QED BY <2>2, <2>3
<1> QED BY <1>3, <1>4, <1>5 DEF KeepsAhead

LEMMA ReadAhead ==
    ASSUME TypeOK, IInv, NEW w \in Workers, Read(w), KeepsAhead(w) PROVE KeepsAhead(w)'
<1> DEFINE end == Smaller(size[gen], chunk[w].size)
           t == IF end > chunk[w].top THEN end ELSE chunk[w].top
<1>1. /\ chunk[w] \in [inode : {NoInode} \cup Gens, offset : Nat, size : Nat,
                       src : {NoInode} \cup Gens, top : Nat]
      /\ gen \in Nat /\ size[gen] \in Nat /\ row.offset \in Nat
  BY ReaderAssumption DEF TypeOK, Gens
<1>2. t >= end /\ t \in Nat /\ end \in Nat
  BY <1>1 DEF Smaller
<1>3. /\ pc[w] = "statted" /\ pc'[w] = "read" /\ UNCHANGED <<row, gen, base>>
      /\ chunk' = [chunk EXCEPT ![w].src = gen, ![w].top = t]
  BY DEF Read, TypeOK, remote
<1>4. ASSUME row.inode = gen, row.offset =< chunk[w].size PROVE row.offset =< t
  <2>1. row.offset =< end
    BY <1>1, <1>4, RowHere DEF Smaller
  <2> HIDE DEF end, t
  <2> QED BY <1>1, <1>2, <2>1
<1> HIDE DEF t
<1>5. chunk'[w].inode = chunk[w].inode /\ chunk'[w].offset = chunk[w].offset /\ chunk'[w].top = t
  BY <1>1, <1>3 DEF TypeOK
<1> QED BY <1>3, <1>4, <1>5 DEF KeepsAhead, Reached, Chunked

LEMMA AheadStep ==
    ASSUME TypeOK, TypeOK', IInv, Alone, AllAhead, [Next]_vars, ~LongPolls PROVE AllAhead'
<1> SUFFICES ASSUME NEW w \in Workers, pc'[w] \in Chunked PROVE KeepsAhead(w)'
  BY DEF AllAhead, KeepsAhead
<1>0. KeepsAhead(w)
  BY DEF AllAhead
<1>1. CASE Grow \/ MoveAway \/ Create \/ Toggle \/ Expire \/ UNCHANGED vars
  BY <1>0, <1>1, AheadKept DEF Grow, MoveAway, Create, Toggle, Expire, vars, remote
<1>2. ASSUME NEW v \in Workers, Step(v) \/ Fail(v) \/ Crash(v), v # w PROVE KeepsAhead(w)'
  <2>1. pc[w] = pc'[w]
    BY <1>2 DEF Step, Load, Lock, Skip, Missing, Stat, Read, Gone, Record, Save, Unlock, Fail, Crash, TypeOK
  <2>2. InBody(w)
    BY <2>1 DEF InBody, Chunked
  <2> QED BY <1>0, <1>2, <2>1, <2>2, OthersOutside, AheadKept
<1>3. CASE Stat(w)
  BY <1>3, StatAhead
<1>4. CASE Read(w)
  BY <1>0, <1>4, ReadAhead
<1>5. CASE Record(w)
  <2>1. /\ pc[w] = "read" /\ pc'[w] = "recorded" /\ UNCHANGED <<row, chunk, base, gen>>
    BY <1>5 DEF Record, TypeOK, remote
  <2> QED BY <1>0, <2>1 DEF KeepsAhead, Reached, Chunked
<1>6. CASE Load(w) \/ Lock(w) \/ Skip(w) \/ Missing(w) \/ Gone(w) \/ Save(w) \/ Unlock(w) \/ Fail(w) \/ Crash(w)
  <2>1. pc'[w] \in {"loaded", "locked", "idle", "leaving"}
    BY <1>6 DEF Load, Lock, Skip, Missing, Gone, Save, Unlock, Fail, Crash, TypeOK
  <2> QED BY <2>1 DEF Chunked
<1> QED BY <1>1, <1>2, <1>3, <1>4, <1>5, <1>6 DEF Next, Step

LEMMA AheadThm == ASSUME ~LongPolls PROVE Spec => []AllAhead
<1>1. Init => AllAhead
  BY DEF Init, AllAhead, KeepsAhead, Chunked
<1>2. TypeOK /\ TypeOK' /\ IInv /\ Alone /\ AllAhead /\ [Next]_vars => AllAhead'
  BY AheadStep
<1> QED BY <1>1, <1>2, TypeCorrect, IInvThm, AloneThm, PTL DEF Spec

\* Past the baseline the saved position of a file never goes back, for any
\* workers, crashes, failures and rotations, although polls decide where to read
\* from a row they loaded before they had the lock.
THEOREM PositionNeverBackThm == ASSUME ~LongPolls PROVE Spec => PositionNeverBack
<1> DEFINE Forward == row.inode = gen /\ gen' = gen /\ row.offset > base[gen]
                        => row'.inode = gen /\ row.offset =< row'.offset
<1>1. TypeOK /\ IInv /\ AllAhead /\ [Next]_vars => [Forward]_vars
  <2> SUFFICES ASSUME TypeOK, IInv, AllAhead, Next, row.inode = gen, row.offset > base[gen]
               PROVE  row'.inode = gen /\ row.offset =< row'.offset
    OBVIOUS
  <2>0. row.offset \in Nat
    BY DEF TypeOK
  <2>1. CASE UNCHANGED row
    BY <2>0, <2>1
  <2>2. ASSUME NEW w \in Workers, Save(w) PROVE row'.inode = gen /\ row.offset =< row'.offset
    <3>1. PICK o \in Consumed(chunk[w]) : row' = [inode |-> chunk[w].inode, offset |-> o]
      BY <2>2 DEF Save
    <3>2. /\ pc[w] \in Chunked /\ Reached(w) = chunk[w].top
          /\ chunk[w].offset \in Nat
      BY <2>2 DEF Save, Reached, Chunked, TypeOK
    <3>3. chunk[w].inode = gen
      BY <3>2, ChunkHere, RowHere DEF AllAhead, KeepsAhead
    <3>4. o \in Nat /\ chunk[w].offset =< o
      <4>1. o \in Ends(chunk[w]) \cup {chunk[w].offset}
        BY DEF Consumed
      <4> QED BY <3>2, <4>1, NewlineType DEF Ends
    <3>5. row.offset =< o
      <4>1. CASE row.offset =< chunk[w].offset
        BY <2>0, <3>2, <3>4, <4>1
      <4>2. CASE ~(row.offset =< chunk[w].offset)
        <5>1. row.offset \in Newlines /\ row.offset =< chunk[w].top
          BY <3>2, <4>2 DEF AllAhead, KeepsAhead
        <5>2. row.offset \in Ends(chunk[w])
          BY <2>0, <3>2, <4>2, <5>1 DEF Ends
        <5> QED BY <5>2 DEF Consumed
      <4> QED BY <4>1, <4>2
    <3> QED BY <3>1, <3>3, <3>5
  <2> QED BY <2>1, <2>2 DEF Next, Grow, MoveAway, Create, Toggle, Expire, Step, Load, Lock, Skip, Missing, Stat,
             Read, Gone, Record, Unlock, Fail, Crash
<1> QED BY <1>1, TypeCorrect, IInvThm, AheadThm, PTL DEF Spec, PositionNeverBack
-----------------------------------------------------------------------------
(***************************************************************************)
(* Duplicates.  A line is open while a poll that starts from the saved     *)
(* position could store it (again).  As long as every poll that stored     *)
(* events started from the row as it then was, an open line has been       *)
(* stored once per mishap at most, once more when the poll that has just   *)
(* stored it has still to save; and a poll that read another file than it  *)
(* statted has one mishap in hand.                                         *)
(***************************************************************************)
Open(l) == l[1] > row.inode \/ (l[1] = row.inode /\ l[2] > row.offset)
Behind(w) == \/ row.inode < chunk[w].inode
             \/ row.inode = chunk[w].inode /\ row.offset =< chunk[w].offset
KeepsPlace(w) ==
    /\ (pc[w] \in {"statted", "read"} /\ snap[w] = row) \/ pc[w] = "recorded" => Behind(w)
    /\ pc[w] = "read" => chunk[w].inode =< chunk[w].src
Pending(w, l) == pc[w] = "recorded" /\ l[1] = chunk[w].inode /\ l[2] \in Ends(chunk[w])
Mixed(w) == pc[w] = "read" /\ chunk[w].src # chunk[w].inode
Once(l) ==
    /\ copies[l] =< 1 + mishaps
    /\ Open(l) => copies[l] =< mishaps \/ \E w \in Workers : Pending(w, l)
    /\ Open(l) => \A w \in Workers : Mixed(w) => copies[l] < mishaps
PlaceInv == ~overlapped => (\A w \in Workers : KeepsPlace(w)) /\ \A l \in Lines : Once(l)

LEMMA LineType ==
    ASSUME NEW l \in Lines
    PROVE  l[1] \in Nat /\ l[1] > 0 /\ l[2] \in Newlines /\ l[2] \in Nat
  BY NewlineType, ReaderAssumption DEF Lines, Gens

\* A step that stores nothing, reopens no line and ends no pending save.
LEMMA OnceKept ==
    ASSUME TypeOK, TypeOK', NEW l \in Lines, Once(l), copies'[l] = copies[l], mishaps' >= mishaps,
           Open(l)' => Open(l),
           \A w \in Workers : (Pending(w, l) => Pending(w, l)') /\ (Mixed(w)' => Mixed(w))
    PROVE  Once(l)'
<1>1. copies[l] \in Nat /\ mishaps \in Nat /\ mishaps' \in Nat
  BY DEF TypeOK
<1> QED BY <1>1 DEF Once

\* A step that touches neither the row, the events nor a chunk in use.
LEMMA QuietStep ==
    ASSUME TypeOK, TypeOK', PlaceInv, UNCHANGED <<row, copies, mishaps, overlapped>>,
           \A w \in Workers : pc'[w] \in Chunked =>
                                pc'[w] = pc[w] /\ snap'[w] = snap[w] /\ chunk'[w] = chunk[w],
           \A w \in Workers : pc[w] = "recorded" => pc'[w] = "recorded"
    PROVE  PlaceInv'
<1> SUFFICES ASSUME ~overlapped
             PROVE  (\A w \in Workers : KeepsPlace(w)') /\ (\A l \in Lines : Once(l)')
  BY DEF PlaceInv
<1>1. ASSUME NEW w \in Workers PROVE KeepsPlace(w)'
  BY DEF PlaceInv, KeepsPlace, Behind, Chunked
<1>2. ASSUME NEW l \in Lines PROVE Once(l)'
  <2>1. Once(l) /\ copies'[l] = copies[l] /\ mishaps' >= mishaps
    BY DEF PlaceInv, TypeOK
  <2>2. Open(l)' => Open(l)
    BY DEF Open
  <2>3. \A w \in Workers : (Pending(w, l) => Pending(w, l)') /\ (Mixed(w)' => Mixed(w))
    BY DEF Pending, Mixed, Chunked, Ends
  <2> QED BY <2>1, <2>2, <2>3, OnceKept
<1> QED BY <1>1, <1>2

\* The other polls are not in their body while one is.
LEMMA AloneInside ==
    ASSUME Alone, NEW w \in Workers, InBody(w), NEW v \in Workers, pc[v] \in Chunked
    PROVE  v = w
  BY DEF Alone, InBody, Chunked

\* The numbers in a chunk and in the row.
LEMMA PlaceTypes ==
    ASSUME TypeOK, NEW w \in Workers
    PROVE  /\ chunk[w].inode \in Nat /\ chunk[w].src \in Nat /\ chunk[w].offset \in Nat
           /\ row.inode \in Nat /\ row.offset \in Nat
<1>1. {NoInode} \cup Gens \subseteq Nat
  BY ReaderAssumption DEF Gens, NoInode
<1>2. /\ chunk[w].inode \in {NoInode} \cup Gens /\ chunk[w].src \in {NoInode} \cup Gens
      /\ row.inode \in {NoInode} \cup Gens
  BY DEF TypeOK
<1>3. chunk[w].offset \in Nat /\ row.offset \in Nat
  BY DEF TypeOK
<1> QED BY <1>1, <1>2, <1>3

LEMMA StatPlace ==
    ASSUME TypeOK, TypeOK', IInv, PlaceInv, NEW w \in Workers, Stat(w) PROVE PlaceInv'
<1> DEFINE off == ReadOffset(snap[w], gen, size[gen])
<1>1. /\ gen \in Gens /\ gen \in Nat /\ gen > 0 /\ size[gen] \in Nat /\ row.offset \in Nat
      /\ snap[w] \in [inode : {NoInode} \cup Gens, offset : Nat]
  BY RowHere DEF TypeOK
<1>2. off \in Nat /\ off =< size[gen]
  BY <1>1, ReadOffsetType
<1>3. /\ UNCHANGED <<row, copies, mishaps, overlapped, snap>> /\ pc[w] = "locked"
      /\ chunk'[w].inode = gen /\ chunk'[w].offset = off
      /\ pc'[w] = IF size[gen] > off THEN "statted" ELSE "recorded"
      /\ \A v \in Workers : v # w => pc'[v] = pc[v] /\ chunk'[v] = chunk[v]
  BY DEF Stat, TypeOK, remote, history
<1>4. ASSUME snap[w] = row, row.inode = gen PROVE row.offset =< off
  <2>1. row.offset =< size[gen]
    BY <1>4, RowHere
  <2>2. off = row.offset
    BY <1>1, <1>4, <2>1 DEF ReadOffset, Smaller, NoInode
  <2> QED BY <1>1, <2>2
<1>5. ASSUME row.inode = gen, pc'[w] = "recorded" PROVE row.offset =< off
  <2>1. row.offset =< size[gen] /\ ~(size[gen] > off)
    BY <1>3, <1>5, RowHere
  <2> HIDE DEF off
  <2> QED BY <1>1, <1>2, <2>1
<1> HIDE DEF off
<1> SUFFICES ASSUME ~overlapped
             PROVE  (\A v \in Workers : KeepsPlace(v)') /\ (\A l \in Lines : Once(l)')
  BY <1>3 DEF PlaceInv
<1>6. ASSUME NEW v \in Workers PROVE KeepsPlace(v)'
  <2>1. CASE v = w
    <3>1. row.inode =< gen /\ row.inode \in Nat
      BY RowHere
    <3>2. (pc'[w] = "statted" /\ snap'[w] = row') \/ pc'[w] = "recorded" => Behind(w)'
      BY <1>1, <1>3, <1>4, <1>5, <3>1 DEF Behind
    <3> QED BY <1>3, <2>1, <3>2 DEF KeepsPlace
  <2>2. CASE v # w
    BY <1>3, <2>2 DEF PlaceInv, KeepsPlace, Behind
  <2> QED BY <2>1, <2>2
<1>7. ASSUME NEW l \in Lines PROVE Once(l)'
  <2>1. Once(l) /\ copies'[l] = copies[l] /\ mishaps' >= mishaps
    BY <1>3 DEF PlaceInv, TypeOK
  <2>2. Open(l)' => Open(l)
    BY <1>3 DEF Open
  <2>3. \A v \in Workers : (Pending(v, l) => Pending(v, l)') /\ (Mixed(v)' => Mixed(v))
    BY <1>3 DEF Pending, Mixed, Ends
  <2> QED BY <2>1, <2>2, <2>3, OnceKept
<1> QED BY <1>6, <1>7

LEMMA ReadPlace ==
    ASSUME TypeOK, TypeOK', IInv, Alone, PlaceInv, NEW w \in Workers, Read(w) PROVE PlaceInv'
<1>1. /\ UNCHANGED <<row, copies, overlapped, snap>> /\ pc[w] = "statted" /\ pc'[w] = "read"
      /\ mishaps' = IF gen # chunk[w].inode THEN mishaps + 1 ELSE mishaps
      /\ \A v \in Workers : v # w => pc'[v] = pc[v] /\ chunk'[v] = chunk[v]
  BY DEF Read, TypeOK
<1>2. chunk'[w].inode = chunk[w].inode /\ chunk'[w].offset = chunk[w].offset /\ chunk'[w].src = gen
  BY DEF Read, TypeOK
<1>3. chunk[w].inode \in 1..gen /\ gen \in Nat /\ mishaps \in Nat
  BY <1>1, ChunkHere, RowHere DEF Chunked, TypeOK
<1>4. \A v \in Workers : pc[v] # "recorded" /\ pc[v] # "read"
  BY <1>1, AloneInside DEF InBody, Chunked
<1> SUFFICES ASSUME ~overlapped
             PROVE  (\A v \in Workers : KeepsPlace(v)') /\ (\A l \in Lines : Once(l)')
  BY <1>1 DEF PlaceInv
<1>5. ASSUME NEW v \in Workers PROVE KeepsPlace(v)'
  <2>1. CASE v = w
    BY <1>1, <1>2, <1>3, <2>1 DEF PlaceInv, KeepsPlace, Behind
  <2>2. CASE v # w
    BY <1>1, <2>2 DEF PlaceInv, KeepsPlace, Behind
  <2> QED BY <2>1, <2>2
<1>6. ASSUME NEW l \in Lines PROVE Once(l)'
  <2>1. /\ Once(l) /\ copies'[l] = copies[l] /\ copies[l] \in Nat /\ (Open(l)' => Open(l))
        /\ Open(l) => copies[l] =< mishaps
    BY <1>1, <1>4 DEF PlaceInv, Once, Open, Pending, TypeOK
  <2>2. CASE gen = chunk[w].inode
    <3>1. \A v \in Workers : (Pending(v, l) => Pending(v, l)') /\ (Mixed(v)' => Mixed(v))
      BY <1>1, <1>2, <1>4, <2>2 DEF Pending, Mixed
    <3> QED BY <1>1, <1>3, <2>1, <2>2, <3>1, OnceKept
  <2>3. CASE gen # chunk[w].inode
    BY <1>1, <1>3, <2>1, <2>3 DEF Once
  <2> QED BY <2>2, <2>3
<1> QED BY <1>5, <1>6

LEMMA RecordPlace ==
    ASSUME TypeOK, TypeOK', IInv, Alone, PlaceInv, NEW w \in Workers, Record(w) PROVE PlaceInv'
<1>1. /\ UNCHANGED <<row, snap, chunk, mishaps>> /\ pc[w] = "read" /\ pc'[w] = "recorded"
      /\ overlapped' = (overlapped \/ snap[w] # row)
      /\ \A v \in Workers : v # w => pc'[v] = pc[v]
  BY DEF Record, TypeOK
<1>2. \A v \in Workers : v # w => pc[v] \notin Chunked
  BY <1>1, AloneInside DEF InBody
<1> SUFFICES ASSUME ~overlapped, snap[w] = row
             PROVE  (\A v \in Workers : KeepsPlace(v)') /\ (\A l \in Lines : Once(l)')
  BY <1>1 DEF PlaceInv
<1>3. Behind(w) /\ chunk[w].inode =< chunk[w].src
  BY <1>1 DEF PlaceInv, KeepsPlace
<1>4. ASSUME NEW v \in Workers PROVE KeepsPlace(v)'
  <2>1. CASE v = w
    BY <1>1, <1>3, <2>1 DEF KeepsPlace, Behind
  <2>2. CASE v # w
    BY <1>1, <1>2, <2>2 DEF KeepsPlace, Chunked
  <2> QED BY <2>1, <2>2
<1>5. ASSUME NEW l \in Lines PROVE Once(l)'
  <2>1. /\ Once(l) /\ copies[l] \in Nat /\ mishaps \in Nat /\ (Open(l)' <=> Open(l))
        /\ Open(l) => copies[l] =< mishaps
    BY <1>1, <1>2 DEF PlaceInv, Once, Open, Pending, Chunked, TypeOK
  <2>2. \A v \in Workers : ~Mixed(v)'
    BY <1>1, <1>2 DEF Mixed, Chunked
  <2>3. CASE ~(l[1] = chunk[w].src /\ l[2] \in Parsed(chunk[w]))
    <3>1. copies'[l] = copies[l]
      BY <2>3 DEF Record
    <3> QED BY <1>1, <2>1, <2>2, <3>1 DEF Once
  <2>4. CASE l[1] = chunk[w].src /\ l[2] \in Parsed(chunk[w])
    <3>0. /\ chunk[w].inode \in Nat /\ chunk[w].src \in Nat /\ chunk[w].offset \in Nat
          /\ row.inode \in Nat /\ row.offset \in Nat
      BY PlaceTypes
    <3>1. l[2] \in Ends(chunk[w]) /\ chunk[w].offset < l[2] /\ l[2] \in Nat /\ l[1] \in Nat
      BY <2>4, LineType DEF Parsed, Ends
    <3>2. Open(l)
      <4>1. CASE row.inode < chunk[w].inode
        BY <1>3, <2>4, <3>0, <4>1 DEF Open
      <4>2. CASE row.inode = chunk[w].inode /\ row.offset =< chunk[w].offset
        BY <1>3, <2>4, <3>0, <3>1, <4>2 DEF Open
      <4> QED BY <1>3, <4>1, <4>2 DEF Behind
    <3>3. copies'[l] =< copies[l] + 1 /\ copies'[l] \in Nat
      <4>1. copies'[l] = Smaller(copies[l] + 1, MaxCopies) /\ copies[l] + 1 \in Nat
        BY <2>1, <2>4 DEF Record
      <4> QED BY <4>1, SmallerOne, ReaderAssumption
    <3>4. CASE chunk[w].src = chunk[w].inode
      <4>1. Pending(w, l)'
        BY <1>1, <2>4, <3>1, <3>4 DEF Pending, Ends
      <4> QED BY <1>1, <2>1, <2>2, <3>2, <3>3, <4>1 DEF Once
    <3>5. CASE chunk[w].src # chunk[w].inode
      <4>1. copies[l] < mishaps
        BY <1>1, <2>1, <3>2, <3>5 DEF Once, Mixed
      <4> QED BY <1>1, <2>1, <2>2, <3>3, <4>1 DEF Once
    <3> QED BY <3>4, <3>5
  <2> QED BY <2>3, <2>4
<1> QED BY <1>4, <1>5

LEMMA SavePlace ==
    ASSUME TypeOK, TypeOK', IInv, Alone, PlaceInv, NEW w \in Workers, Save(w) PROVE PlaceInv'
<1>1. /\ UNCHANGED <<chunk, copies, mishaps, overlapped>> /\ pc[w] = "recorded" /\ pc'[w] = "leaving"
      /\ \A v \in Workers : v # w => pc'[v] = pc[v]
  BY DEF Save, TypeOK
<1>2. \A v \in Workers : v # w => pc[v] \notin Chunked
  BY <1>1, AloneInside DEF InBody
<1>3. \A v \in Workers : pc'[v] \notin Chunked
  BY <1>1, <1>2 DEF Chunked
<1> SUFFICES ASSUME ~overlapped
             PROVE  (\A v \in Workers : KeepsPlace(v)') /\ (\A l \in Lines : Once(l)')
  BY <1>1 DEF PlaceInv
<1>4. ASSUME NEW v \in Workers PROVE KeepsPlace(v)'
  BY <1>3 DEF KeepsPlace, Chunked
<1>5. PICK o \in Consumed(chunk[w]) : row'.inode = chunk[w].inode /\ row'.offset = o
  BY DEF Save
<1>6. /\ chunk[w].inode \in Nat /\ chunk[w].offset \in Nat
      /\ row.inode \in Nat /\ row.offset \in Nat
  BY PlaceTypes
<1>7. o \in Nat /\ chunk[w].offset =< o /\ \A e \in Ends(chunk[w]) : e =< o
  <2>1. o \in Ends(chunk[w]) \cup {chunk[w].offset} /\ \A e \in Ends(chunk[w]) : e =< o
    BY DEF Consumed
  <2>2. \A e \in Ends(chunk[w]) : e \in Nat /\ chunk[w].offset < e
    BY NewlineType DEF Ends
  <2> QED BY <1>6, <2>1, <2>2
<1>8. Behind(w)
  BY <1>1 DEF PlaceInv, KeepsPlace
<1>9. ASSUME NEW l \in Lines PROVE Once(l)'
  <2>0. l[1] \in Nat /\ l[2] \in Nat /\ copies[l] \in Nat /\ mishaps \in Nat /\ Once(l)
    BY LineType DEF TypeOK, PlaceInv
  <2>1. ASSUME Open(l)' PROVE Open(l) /\ ~Pending(w, l)
    <3>1. Open(l)
      <4>1. CASE row.inode < chunk[w].inode
        BY <1>5, <1>6, <2>0, <2>1, <4>1 DEF Open
      <4>2. CASE row.inode = chunk[w].inode /\ row.offset =< chunk[w].offset
        BY <1>5, <1>6, <1>7, <2>0, <2>1, <4>2 DEF Open
      <4> QED BY <1>8, <4>1, <4>2 DEF Behind
    <3>2. ~(l[1] = chunk[w].inode /\ l[2] \in Ends(chunk[w]))
      BY <1>5, <1>6, <1>7, <2>0, <2>1 DEF Open
    <3> QED BY <3>1, <3>2 DEF Pending
  <2>2. Open(l)' => copies[l] =< mishaps
    BY <1>2, <2>0, <2>1 DEF Once, Pending, Chunked
  <2>3. \A v \in Workers : ~Mixed(v)'
    BY <1>3 DEF Mixed, Chunked
  <2> QED BY <1>1, <2>0, <2>2, <2>3 DEF Once
<1> QED BY <1>4, <1>9

\* A crash or a failure pays for the lines that will be stored again.
LEMMA MishapPlace ==
    ASSUME TypeOK, TypeOK', PlaceInv, NEW w \in Workers, Fail(w) \/ Crash(w) PROVE PlaceInv'
<1>1. /\ UNCHANGED <<row, copies, overlapped>> /\ mishaps' = mishaps + 1 /\ pc'[w] \in {"leaving", "idle"}
      /\ \A v \in Workers : v # w => pc'[v] = pc[v] /\ snap'[v] = snap[v] /\ chunk'[v] = chunk[v]
  BY DEF Fail, Crash, Forget, TypeOK
<1> SUFFICES ASSUME ~overlapped
             PROVE  (\A v \in Workers : KeepsPlace(v)') /\ (\A l \in Lines : Once(l)')
  BY <1>1 DEF PlaceInv
<1>2. ASSUME NEW v \in Workers PROVE KeepsPlace(v)'
  BY <1>1 DEF PlaceInv, KeepsPlace, Behind
<1>3. ASSUME NEW l \in Lines PROVE Once(l)'
  <2>1. /\ Once(l) /\ copies[l] \in Nat /\ mishaps \in Nat /\ (Open(l)' <=> Open(l))
    BY <1>1 DEF PlaceInv, TypeOK, Open
  <2>2. \A v \in Workers : Mixed(v)' => Mixed(v)
    BY <1>1 DEF Mixed
  <2> QED BY <1>1, <2>1, <2>2 DEF Once
<1> QED BY <1>2, <1>3

LEMMA PlaceStep ==
    ASSUME TypeOK, TypeOK', IInv, Alone, PlaceInv, [Next]_vars PROVE PlaceInv'
<1>1. CASE Grow \/ MoveAway \/ Create \/ Toggle \/ Expire \/ UNCHANGED vars
  BY <1>1, QuietStep DEF Grow, MoveAway, Create, Toggle, Expire, vars, history
<1>2. ASSUME NEW w \in Workers, Load(w) \/ Lock(w) \/ Skip(w) \/ Missing(w) \/ Gone(w) \/ Unlock(w)
      PROVE  PlaceInv'
  <2>1. UNCHANGED <<row, copies, mishaps, overlapped>> /\ pc[w] # "recorded" /\ pc'[w] \notin Chunked
    BY <1>2 DEF Load, Lock, Skip, Missing, Gone, Unlock, history, TypeOK, Chunked
  <2>2. \A v \in Workers : v # w => pc'[v] = pc[v] /\ snap'[v] = snap[v] /\ chunk'[v] = chunk[v]
    BY <1>2 DEF Load, Lock, Skip, Missing, Gone, Unlock, Forget, TypeOK
  <2> QED BY <2>1, <2>2, QuietStep
<1> QED BY <1>1, <1>2, StatPlace, ReadPlace, RecordPlace, SavePlace, MishapPlace DEF Next, Step

\* Without polls that outlive their lock, a line is stored once, and once more
\* at most for each crash, failure and file replaced under a poll, unless a poll
\* stored events from a position another poll had moved since.
THEOREM DuplicatesNeedMishapsThm == ASSUME ~LongPolls PROVE Spec => []DuplicatesNeedMishaps
<1>1. Init => PlaceInv
  BY DEF Init, PlaceInv, KeepsPlace, Once, Mixed
<1>2. TypeOK /\ TypeOK' /\ IInv /\ Alone /\ PlaceInv /\ [Next]_vars => PlaceInv'
  BY PlaceStep
<1>3. PlaceInv => DuplicatesNeedMishaps
  BY DEF PlaceInv, Once, DuplicatesNeedMishaps
<1> QED BY <1>1, <1>2, <1>3, TypeCorrect, IInvThm, AloneThm, PTL DEF Spec

-----------------------------------------------------------------------------
(***************************************************************************)
(* What a stored event says.  The line nginx writes is flattened from the  *)
(* parts of its items, of which only the user's name may be several, so    *)
(* each part is at a known place; two presets then differ at a place where *)
(* the one's item does not fit the other's part.                           *)
(***************************************************************************)
LEMMA LeastOf ==
    ASSUME NEW U \in SUBSET Nat, U # {}
    PROVE  \E n \in U : \A m \in U : n =< m
<1> DEFINE R == OpToRel(<, Nat)
<1>1. IsWellFoundedOn(R, Nat)
  BY NatLessThanWellFounded
<1>2. PICK n \in U : \A m \in U : ~(<<m, n>> \in R)
  <2> HIDE DEF R
  <2> QED BY <1>1, WFMin
<1>3. \A m \in U : ~(m < n)
  BY <1>2 DEF OpToRel
<1> QED BY <1>3

\* The recursion of FlattenSeq on the first k sequences.
Flattens(g, s, k) == g = [i \in 1 .. k |-> IF i = 1 THEN s[i] ELSE g[i - 1] \o s[i]]

\* There is a function that meets it.
LEMMA FlattensExists ==
    ASSUME NEW s, NEW k \in Nat
    PROVE  \E g : Flattens(g, s, k)
<1> DEFINE P(j) == \E g : Flattens(g, s, j)
           U == {j \in Nat : ~P(j)}
<1>1. P(0)
  <2> DEFINE g == [i \in 1 .. 0 |-> {}]
  <2>1. Flattens(g, s, 0)
    BY DEF Flattens
  <2> QED BY <2>1
<1>2. ASSUME NEW j \in Nat, P(j) PROVE P(j + 1)
  <2>1. PICK g : Flattens(g, s, j)
    BY <1>2
  <2> DEFINE h == [i \in 1 .. j + 1 |-> IF i = 1 THEN s[i] ELSE g[i - 1] \o s[i]]
  <2>2. \A i \in 1 .. j : g[i] = IF i = 1 THEN s[i] ELSE g[i - 1] \o s[i]
    BY <2>1 DEF Flattens
  <2>3. \A i \in 1 .. j : h[i] = g[i]
    BY <2>2
  <2>4. \A i \in 1 .. j + 1 : i = 1 \/ i - 1 \in 1 .. j
    OBVIOUS
  <2>5. \A i \in 1 .. j + 1 : h[i] = IF i = 1 THEN s[i] ELSE h[i - 1] \o s[i]
    BY <2>3, <2>4
  <2>6. h = [i \in 1 .. j + 1 |-> IF i = 1 THEN s[i] ELSE h[i - 1] \o s[i]]
    BY <2>5
  <2> HIDE DEF h
  <2> QED BY <2>6 DEF Flattens
<1>3. U = {}
  <2> SUFFICES ASSUME U # {} PROVE FALSE
    OBVIOUS
  <2> HIDE DEF P
  <2>1. PICK n \in U : n \in Nat /\ \A m \in U : n =< m
    BY LeastOf
  <2>2. n # 0
    BY <1>1
  <2>3. n - 1 \in Nat /\ n - 1 \notin U /\ (n - 1) + 1 = n
    BY <2>1, <2>2
  <2>4. P(n - 1)
    BY <2>3
  <2> QED BY <1>2, <2>3, <2>4
<1> QED BY <1>3

\* What is flat of sequences of one element each, but for one: its elements at
\* their places.
Spread(f, s, w, k) ==
    LET n == Len(s[w]) IN
    /\ Len(f) = IF k < w THEN k ELSE k + n - 1
    /\ \A j \in 1 .. Len(f) : f[j] = IF j < w THEN s[j][1]
                                     ELSE IF j < w + n THEN s[w][j - w + 1] ELSE s[j - n + 1][1]

LEMMA FlattenSpreads ==
    ASSUME NEW P, NEW s \in Seq(Seq(P)), NEW w \in 1 .. Len(s), s[w] # <<>>,
           \A j \in 1 .. Len(s) : j # w => Len(s[j]) = 1
    PROVE  FlattenSeq(s) \in Seq(P) /\ Spread(FlattenSeq(s), s, w, Len(s))
<1>1. Len(s) \in Nat /\ Len(s) > 0 /\ \A j \in 1 .. Len(s) : s[j] \in Seq(P) /\ Len(s[j]) \in Nat
  BY LenProperties, ElementOfSeq
<1>2. PICK g : Flattens(g, s, Len(s)) /\ FlattenSeq(s) = g[Len(s)]
  <2> DEFINE h == CHOOSE f : Flattens(f, s, Len(s))
  <2>1. Flattens(h, s, Len(s))
    BY <1>1, FlattensExists
  <2>2. FlattenSeq(s) = h[Len(s)]
    BY <1>1 DEF FlattenSeq, Flattens
  <2> HIDE DEF h
  <2> QED BY <2>1, <2>2
<1> DEFINE Q(k) == g[k] \in Seq(P) /\ Spread(g[k], s, w, k)
           U == {k \in Nat : k \in 1 .. Len(s) /\ ~Q(k)}
           n == Len(s[w])
<1>3. n \in Nat /\ n > 0
  BY <1>1, EmptySeq
<1>4. \A k \in 1 .. Len(s) : g[k] = IF k = 1 THEN s[k] ELSE g[k - 1] \o s[k]
  BY <1>2 DEF Flattens
<1>5. Q(1)
  <2>1. g[1] = s[1] /\ s[1] \in Seq(P)
    BY <1>1, <1>4
  <2>2. CASE w = 1
    <3>1. Len(g[1]) = Len(s[w]) /\ g[1] = s[w]
      BY <2>1, <2>2
    <3>2. \A j \in 1 .. Len(s[w]) : j - w + 1 = j /\ j < w + Len(s[w]) /\ ~(j < w)
      BY <1>3, <2>2
    <3>3. ~(1 < w) /\ Len(g[1]) = 1 + Len(s[w]) - 1
      BY <1>3, <2>2, <3>1
    <3>4. \A j \in 1 .. Len(g[1]) : g[1][j] = IF j < w THEN s[j][1]
                                     ELSE IF j < w + Len(s[w]) THEN s[w][j - w + 1] ELSE s[j - Len(s[w]) + 1][1]
      BY <3>1, <3>2
    <3>5. Spread(g[1], s, w, 1)
      BY <3>3, <3>4 DEF Spread
    <3> QED BY <2>1, <3>5
  <2>3. CASE w # 1
    <3>1. Len(s[1]) = 1
      BY <1>1, <2>3
    <3> QED BY <1>3, <2>1, <2>3, <3>1 DEF Spread
  <2> QED BY <2>2, <2>3
<1>6. ASSUME NEW k \in 2 .. Len(s), Q(k - 1) PROVE Q(k)
  <2>0. k \in 1 .. Len(s) /\ k # 1
    OBVIOUS
  <2>1. g[k] = g[k - 1] \o s[k] /\ s[k] \in Seq(P)
    BY <1>1, <1>4, <2>0
  <2> DEFINE l == Len(g[k - 1])
  <2>a. g[k - 1] \in Seq(P)
    BY <1>6
  <2> DEFINE a == g[k - 1]
           b == s[k]
  <2>c. a \in Seq(P) /\ b \in Seq(P) /\ g[k] = a \o b
    BY <2>1, <2>a
  <2>d. /\ g[k] \in Seq(P) /\ Len(g[k]) = Len(a) + Len(b)
        /\ \A i \in 1 .. Len(a) + Len(b) : g[k][i] = IF i =< Len(a) THEN a[i] ELSE b[i - Len(a)]
    <3> HIDE DEF a, b
    <3> QED BY <2>c, ConcatProperties
  <2>2. /\ g[k] \in Seq(P) /\ Len(g[k]) = l + Len(s[k])
        /\ \A i \in 1 .. Len(g[k]) : g[k][i] = IF i =< l THEN g[k - 1][i] ELSE s[k][i - l]
    BY <2>d
  <2>3. l = IF k - 1 < w THEN k - 1 ELSE k - 1 + n - 1
    BY <1>6 DEF Spread
  <2>4. \A i \in 1 .. l : g[k - 1][i] = IF i < w THEN s[i][1]
                                        ELSE IF i < w + n THEN s[w][i - w + 1] ELSE s[i - n + 1][1]
    BY <1>6 DEF Spread
  <2>5. Len(s[k]) = IF k = w THEN n ELSE 1
    BY <2>0
  <2> HIDE DEF n, l
  <2>6. Len(g[k]) = IF k < w THEN k ELSE k + n - 1
    BY <1>3, <2>2, <2>3, <2>5
  <2>7. ASSUME NEW i \in 1 .. Len(g[k])
        PROVE  g[k][i] = IF i < w THEN s[i][1] ELSE IF i < w + n THEN s[w][i - w + 1] ELSE s[i - n + 1][1]
    <3>1. CASE i =< l
      <4>1. i \in 1 .. l
        BY <1>3, <2>3, <3>1
      <4> QED BY <2>2, <2>4, <3>1, <4>1
    <3>2. CASE i > l
      <4>1. g[k][i] = s[k][i - l] /\ i =< l + Len(s[k])
        BY <2>2, <2>3, <1>3, <2>5, <3>2
      <4>2. CASE k < w
        BY <1>3, <2>3, <2>5, <3>2, <4>1, <4>2
      <4>3. CASE k = w
        BY <1>3, <2>3, <2>5, <3>2, <4>1, <4>3
      <4>4. CASE k > w
        BY <1>3, <2>3, <2>5, <3>2, <4>1, <4>4
      <4> QED BY <4>2, <4>3, <4>4
    <3> QED BY <1>3, <2>3, <3>1, <3>2
  <2> QED BY <2>2, <2>6, <2>7 DEF Spread, n
<1>7. U = {}
  <2> SUFFICES ASSUME U # {} PROVE FALSE
    OBVIOUS
  <2> HIDE DEF Q
  <2>1. PICK k \in U : k \in Nat /\ \A m \in U : k =< m
    BY LeastOf
  <2>2. k # 1
    BY <1>5
  <2>3. k \in 2 .. Len(s) /\ k - 1 \in Nat /\ k - 1 \in 1 .. Len(s) /\ k - 1 \notin U
    BY <1>1, <2>1, <2>2
  <2>4. Q(k - 1)
    BY <2>3
  <2> QED BY <1>6, <2>3, <2>4
<1>8. Q(Len(s))
  <2> HIDE DEF Q
  <2> QED BY <1>1, <1>7
<1> QED BY <1>2, <1>8

\* What the items of the presets are.
ItemsOf == [shape : {"bare", "bracketed", "quoted"}, var : LogVariables \cup {"hyphen"}]

LEMMA CombinedItems ==
    /\ Combined \in Seq(ItemsOf) /\ Len(Combined) = 9
    /\ Combined[1] = Item("bare", "remote_addr") /\ Combined[2] = Item("bare", "hyphen")
    /\ Combined[3] = Item("bare", "remote_user") /\ Combined[4] = Item("bracketed", "time_local")
    /\ Combined[5] = Item("quoted", "request") /\ Combined[6] = Item("bare", "status")
    /\ Combined[7] = Item("bare", "body_bytes_sent") /\ Combined[8] = Item("quoted", "http_referer")
    /\ Combined[9] = Item("quoted", "http_user_agent")
<1> DEFINE I == ItemsOf
           a == Item("bare", "remote_addr")
           b == Item("bare", "hyphen")
           c == Item("bare", "remote_user")
           d == Item("bracketed", "time_local")
           e == Item("quoted", "request")
           f == Item("bare", "status")
           g == Item("bare", "body_bytes_sent")
           h == Item("quoted", "http_referer")
           k == Item("quoted", "http_user_agent")
<1>1. a \in I /\ b \in I /\ c \in I /\ d \in I /\ e \in I /\ f \in I /\ g \in I /\ h \in I /\ k \in I
  BY DEF Item, ItemsOf, LogVariables
<1>2. Combined = <<a, b, c, d, e, f, g, h, k>>
  BY DEF Combined
<1> HIDE DEF I, a, b, c, d, e, f, g, h, k
<1>3. Combined \in Seq(I) /\ Len(Combined) = 9
  BY <1>1, <1>2
<1>4. /\ Combined[1] = a /\ Combined[2] = b /\ Combined[3] = c /\ Combined[4] = d /\ Combined[5] = e
      /\ Combined[6] = f /\ Combined[7] = g /\ Combined[8] = h /\ Combined[9] = k
  BY <1>2
<1> QED BY <1>3, <1>4 DEF I, a, b, c, d, e, f, g, h, k

LEMMA HostItems ==
    /\ CombinedHost \in Seq(ItemsOf) /\ Len(CombinedHost) = 10
    /\ CombinedHost[1] = Item("bare", "host")
    /\ \A i \in 2 .. 10 : CombinedHost[i] = Combined[i - 1]
<1> DEFINE a == <<Item("bare", "host")>>
           I == ItemsOf
<1>1. a \in Seq(I) /\ Len(a) = 1 /\ a[1] = Item("bare", "host")
  <2> DEFINE e == Item("bare", "host")
  <2>1. e \in I
    BY DEF Item, ItemsOf, LogVariables
  <2>2. a = <<e>>
    OBVIOUS
  <2> HIDE DEF e, I, a
  <2>3. a \in Seq(I) /\ Len(a) = 1 /\ a[1] = e
    BY <2>1, <2>2
  <2> QED BY <2>3 DEF e
<1>2. Combined \in Seq(I) /\ Len(Combined) = 9
  BY CombinedItems
<1>3. CombinedHost = a \o Combined
  BY DEF CombinedHost
<1> HIDE DEF a, I
<1>4. /\ CombinedHost \in Seq(I) /\ Len(CombinedHost) = Len(a) + Len(Combined)
      /\ \A i \in 1 .. Len(a) + Len(Combined) :
           CombinedHost[i] = IF i =< Len(a) THEN a[i] ELSE Combined[i - Len(a)]
  BY <1>1, <1>2, <1>3, ConcatProperties
<1> QED BY <1>1, <1>2, <1>4 DEF I

LEMMA TimedItems ==
    /\ CombinedTimed \in Seq(ItemsOf) /\ Len(CombinedTimed) = 10
    /\ CombinedTimed[10] = Item("bare", "request_time")
    /\ \A i \in 1 .. 9 : CombinedTimed[i] = Combined[i]
<1> DEFINE b == <<Item("bare", "request_time")>>
           I == ItemsOf
<1>1. b \in Seq(I) /\ Len(b) = 1 /\ b[1] = Item("bare", "request_time")
  <2> DEFINE e == Item("bare", "request_time")
  <2>1. e \in I
    BY DEF Item, ItemsOf, LogVariables
  <2>2. b = <<e>>
    OBVIOUS
  <2> HIDE DEF e, I, b
  <2>3. b \in Seq(I) /\ Len(b) = 1 /\ b[1] = e
    BY <2>1, <2>2
  <2> QED BY <2>3 DEF e
<1>2. Combined \in Seq(I) /\ Len(Combined) = 9
  BY CombinedItems
<1>3. CombinedTimed = Combined \o b
  BY DEF CombinedTimed
<1> HIDE DEF b, I
<1>4. /\ CombinedTimed \in Seq(I) /\ Len(CombinedTimed) = Len(Combined) + Len(b)
      /\ \A i \in 1 .. Len(Combined) + Len(b) :
           CombinedTimed[i] = IF i =< Len(Combined) THEN Combined[i] ELSE b[i - Len(Combined)]
  BY <1>1, <1>2, <1>3, ConcatProperties
<1> QED BY <1>1, <1>2, <1>4 DEF I

\* Their items are bare, bracketed or quoted, and what nginx writes bare is one
\* word, but for the user's name, which is item w.
OneWord == {"host", "remote_addr", "status", "body_bytes_sent", "request_time"}
Items(g, w) ==
    /\ Len(g) \in Nat /\ DOMAIN g = 1 .. Len(g) /\ w \in 1 .. Len(g)
    /\ g[w] = Item("bare", "remote_user")
    /\ \A i \in 1 .. Len(g) :
         /\ g[i].shape \in {"bare", "bracketed", "quoted"}
         /\ g[i].var \in LogVariables \cup {"hyphen"}
         /\ g[i].shape = "bare" /\ i # w => g[i].var \in OneWord \cup {"hyphen"}
         /\ g[i].var = "remote_user" => i = w
UserAt(g) == IF g = CombinedHost THEN 4 ELSE 3

LEMMA PresetItems == ASSUME NEW g \in Presets PROVE Items(g, UserAt(g))
<1>0. Combined # CombinedHost /\ CombinedTimed # CombinedHost /\ Combined # CombinedTimed
  <2>1. CombinedHost[1] # CombinedTimed[1]
    <3>1. CombinedHost[1] = Item("bare", "host") /\ CombinedTimed[1] = Item("bare", "remote_addr")
      BY CombinedItems, HostItems, TimedItems
    <3> QED BY <3>1 DEF Item
  <2>2. Combined # CombinedHost
    <3>1. Len(Combined) = 9 /\ Len(CombinedHost) = 10
      BY CombinedItems, HostItems
    <3> QED BY <3>1
  <2>3. Combined # CombinedTimed
    <3>1. Len(Combined) = 9 /\ Len(CombinedTimed) = 10
      BY CombinedItems, TimedItems
    <3> QED BY <3>1
  <2> QED BY <2>1, <2>2, <2>3
<1>1. \A i \in 1 .. 9 : i = 1 \/ i = 2 \/ i = 3 \/ i = 4 \/ i = 5 \/ i = 6 \/ i = 7 \/ i = 8 \/ i = 9
  OBVIOUS
<1>a. \A i \in 1 .. 9 :
         /\ Combined[i].shape \in {"bare", "bracketed", "quoted"}
         /\ Combined[i].var \in LogVariables \cup {"hyphen"}
         /\ Combined[i].shape = "bare" /\ i # 3 => Combined[i].var \in OneWord \cup {"hyphen"}
         /\ Combined[i].var = "remote_user" => i = 3
  BY <1>1, CombinedItems DEF Item, OneWord, LogVariables
<1>2. CASE g = Combined
  <2>1. UserAt(g) = 3
    BY <1>0, <1>2 DEF UserAt
  <2> QED BY <1>2, <1>a, <2>1, CombinedItems DEF Items
<1>3. CASE g = CombinedHost
  <2>1. UserAt(g) = 4
    BY <1>3 DEF UserAt
  <2>2. \A i \in 1 .. 10 : i = 1 \/ (i \in 2 .. 10 /\ i - 1 \in 1 .. 9 /\ (i - 1 = 3 => i = 4))
    OBVIOUS
  <2>3. g \in Seq(ItemsOf)
    BY <1>3, HostItems
  <2>4. DOMAIN g = 1 .. Len(g) /\ Len(g) = 10
    BY <2>3, <1>3, HostItems
  <2>5. \A i \in 1 .. 10 :
         /\ g[i].shape \in {"bare", "bracketed", "quoted"}
         /\ g[i].var \in LogVariables \cup {"hyphen"}
         /\ g[i].shape = "bare" /\ i # 4 => g[i].var \in OneWord \cup {"hyphen"}
         /\ g[i].var = "remote_user" => i = 4
    <3>1. g[1] = Item("bare", "host")
      BY <1>3, HostItems
    <3> TAKE i \in 1 .. 10
    <3>2. CASE i = 1
      BY <3>1, <3>2 DEF Item, OneWord, LogVariables
    <3>3. CASE i # 1
      <4>1. i \in 2 .. 10 /\ i - 1 \in 1 .. 9 /\ (i # 4 => i - 1 # 3) /\ (i - 1 = 3 => i = 4)
        BY <3>3
      <4>2. g[i] = Combined[i - 1]
        BY <4>1, <1>3, HostItems
      <4> QED BY <1>a, <4>1, <4>2
    <3> QED BY <3>2, <3>3
  <2>6. g[4] = Item("bare", "remote_user")
    BY <1>3, HostItems, CombinedItems
  <2> QED BY <2>1, <2>4, <2>5, <2>6 DEF Items
<1>4. CASE g = CombinedTimed
  <2>1. UserAt(g) = 3
    BY <1>0, <1>4 DEF UserAt
  <2>3. g \in Seq(ItemsOf)
    BY <1>4, TimedItems
  <2>4. DOMAIN g = 1 .. Len(g) /\ Len(g) = 10
    BY <2>3, <1>4, TimedItems
  <2>5. \A i \in 1 .. 10 :
         /\ g[i].shape \in {"bare", "bracketed", "quoted"}
         /\ g[i].var \in LogVariables \cup {"hyphen"}
         /\ g[i].shape = "bare" /\ i # 3 => g[i].var \in OneWord \cup {"hyphen"}
         /\ g[i].var = "remote_user" => i = 3
    <3>1. g[10] = Item("bare", "request_time")
      BY <1>4, TimedItems
    <3> TAKE i \in 1 .. 10
    <3>2. CASE i = 10
      BY <3>1, <3>2 DEF Item, OneWord, LogVariables
    <3>3. CASE i # 10
      <4>1. i \in 1 .. 9
        BY <3>3
      <4>2. g[i] = Combined[i]
        BY <4>1, <1>4, TimedItems
      <4> QED BY <1>a, <4>1, <4>2
    <3> QED BY <3>2, <3>3
  <2>6. g[3] = Item("bare", "remote_user")
    BY <1>4, TimedItems, CombinedItems
  <2> QED BY <2>1, <2>4, <2>5, <2>6 DEF Items
<1> QED BY <1>2, <1>3, <1>4 DEF Presets

\* The part an item is written as, when that is one part.
Shown(item, r) ==
    IF item.var = "hyphen" THEN Part("bare", Dash) ELSE Part(item.shape, r[item.var])

LEMMA BehindTheName ==
    ASSUME NEW j \in Int, NEW w \in Int, NEW n \in Int, NEW l \in Int,
           w >= 1, j =< l + n - 1, j >= w + n
    PROVE  j - n + 1 \in 1 .. l /\ j - n + 1 # w
OBVIOUS

\* The parts of the items at their places, the user's name, item w, a part a word.
PartsInPlace(line, g, r, w, n) ==
    /\ Len(line) = Len(g) + n - 1
    /\ \A j \in 1 .. Len(g) + n - 1 :
         line[j] = IF j < w THEN Shown(g[j], r)
                   ELSE IF j < w + n THEN Part("bare", <<r["remote_user"][j - w + 1]>>)
                   ELSE Shown(g[j - n + 1], r)

\* That is what nginx writes in a preset.
LEMMA WrittenIs ==
    ASSUME NEW g \in Presets, NEW r, Loggable(r), NEW w, w = UserAt(g), NEW n, n = Len(r["remote_user"])
    PROVE  n \in Nat /\ n > 0 /\ PartsInPlace(Written(g, r), g, r, w, n)
<1> DEFINE P == [shape : {"bare", "bracketed", "quoted"}, text : {Dash} \cup Seq(STRING)]
           parts(item) ==
             CASE item.var = "hyphen" -> <<Part("bare", Dash)>>
               [] item.var # "hyphen" /\ item.shape = "bare" ->
                    [i \in DOMAIN r[item.var] |-> Part("bare", <<r[item.var][i]>>)]
               [] OTHER -> <<Part(item.shape, r[item.var])>>
           s == [i \in DOMAIN g |-> parts(g[i])]
<1>1. Items(g, w)
  BY PresetItems
<1>2. Written(g, r) = FlattenSeq(s)
  BY DEF Written
<1>3. \A v \in LogVariables : r[v] \in Seq(STRING)
  BY DEF Loggable
<1>4. n \in Nat /\ n > 0 /\ DOMAIN r["remote_user"] = 1 .. n
  <2>1. r["remote_user"] \in Seq(STRING) /\ r["remote_user"] # <<>>
    BY <1>3 DEF Loggable, LogVariables
  <2> QED BY <2>1, EmptySeq, LenProperties
<1>5. \A x : Part("bare", x) = [shape |-> "bare", text |-> x]
  BY DEF Part
\* An item that is not the user's name is one part.
<1>6. ASSUME NEW j \in 1 .. Len(g), j # w
      PROVE  parts(g[j]) = <<Shown(g[j], r)>> /\ Shown(g[j], r) \in P
  <2>1. g[j].shape \in {"bare", "bracketed", "quoted"} /\ g[j].var \in LogVariables \cup {"hyphen"}
        /\ (g[j].shape = "bare" => g[j].var \in OneWord \cup {"hyphen"})
    BY <1>1, <1>6 DEF Items
  <2>2. CASE g[j].var = "hyphen"
    BY <2>2 DEF Shown, Part
  <2>3. CASE g[j].var # "hyphen"
    <3>1. r[g[j].var] \in Seq(STRING)
      BY <1>3, <2>1, <2>3
    <3>2. Shown(g[j], r) = Part(g[j].shape, r[g[j].var])
      BY <2>3 DEF Shown
    <3>3. Shown(g[j], r) \in P
      BY <2>1, <3>1, <3>2 DEF Part
    <3>4. CASE g[j].shape # "bare"
      BY <2>3, <3>2, <3>3, <3>4
    <3>5. CASE g[j].shape = "bare"
      <4> DEFINE t == r[g[j].var]
      <4>1. t \in Seq(STRING) /\ Len(t) = 1
        BY <2>1, <2>3, <3>1, <3>5 DEF Loggable, OneWord
      <4>2. parts(g[j]) = [i \in DOMAIN t |-> Part("bare", <<t[i]>>)]
        BY <2>3, <3>5
      <4>3. Shown(g[j], r) = Part("bare", t)
        BY <3>2, <3>5
      <4> HIDE DEF t
      <4>4. DOMAIN t = 1 .. 1 /\ t = <<t[1]>>
        BY <4>1
      <4> DEFINE b == Part("bare", t)
      <4>5. [i \in DOMAIN t |-> Part("bare", <<t[i]>>)] = [i \in 1 .. 1 |-> b]
        BY <4>4
      <4> HIDE DEF b
      <4>6. [i \in 1 .. 1 |-> b] = <<b>>
        OBVIOUS
      <4> QED BY <3>3, <4>2, <4>3, <4>5, <4>6 DEF b
    <3> QED BY <3>4, <3>5
  <2> QED BY <2>2, <2>3
\* The user's name is a part a word.
<1>7. /\ parts(g[w]) = [i \in 1 .. n |-> Part("bare", <<r["remote_user"][i]>>)]
      /\ parts(g[w]) \in Seq(P) /\ Len(parts(g[w])) = n
  <2>1. g[w].var = "remote_user" /\ g[w].shape = "bare"
    BY <1>1 DEF Items, Item
  <2>2. parts(g[w]) = [i \in DOMAIN r["remote_user"] |-> Part("bare", <<r["remote_user"][i]>>)]
    BY <2>1
  <2>3. parts(g[w]) = [i \in 1 .. n |-> Part("bare", <<r["remote_user"][i]>>)]
    BY <1>4, <2>2
  <2>4. \A i \in 1 .. n : r["remote_user"][i] \in STRING
    <3>1. r["remote_user"] \in Seq(STRING)
      BY <1>3 DEF LogVariables
    <3> QED BY <1>4, <3>1, ElementOfSeq
  <2>5. \A i \in 1 .. n : Part("bare", <<r["remote_user"][i]>>) \in P
    BY <2>4 DEF Part
  <2> DEFINE u == [i \in 1 .. n |-> Part("bare", <<r["remote_user"][i]>>)]
  <2>6. u \in Seq(P) /\ Len(u) = n
    BY <1>4, <2>5
  <2> QED BY <2>3, <2>6
<1>8. DOMAIN g = 1 .. Len(g) /\ Len(g) \in Nat /\ w \in 1 .. Len(g)
  BY <1>1 DEF Items
<1>9. \A j \in 1 .. Len(g) : s[j] = parts(g[j])
  BY <1>8
<1>10. \A j \in 1 .. Len(g) : j # w => s[j] = <<Shown(g[j], r)>> /\ Shown(g[j], r) \in P
  BY <1>6, <1>9
<1>11. /\ s[w] = [i \in 1 .. n |-> Part("bare", <<r["remote_user"][i]>>)]
       /\ s[w] \in Seq(P) /\ Len(s[w]) = n
  BY <1>7, <1>8, <1>9
<1>12. s = [j \in 1 .. Len(g) |-> parts(g[j])]
  BY <1>8
<1> HIDE DEF parts, P
<1>13. \A j \in 1 .. Len(g) : s[j] \in Seq(P) /\ (j # w => Len(s[j]) = 1 /\ s[j][1] = Shown(g[j], r))
  <2> TAKE j \in 1 .. Len(g)
  <2> HIDE DEF s
  <2>1. CASE j = w
    BY <1>11, <2>1
  <2>2. CASE j # w
    <3> DEFINE b == Shown(g[j], r)
    <3>1. s[j] = <<b>> /\ b \in P
      BY <1>10, <2>2
    <3> HIDE DEF b
    <3>2. s[j] \in Seq(P) /\ Len(s[j]) = 1 /\ s[j][1] = b
      BY <3>1
    <3> QED BY <2>2, <3>2 DEF b
  <2> QED BY <2>1, <2>2
<1>14. s \in Seq(Seq(P)) /\ Len(s) = Len(g)
  BY <1>8, <1>12, <1>13
<1> HIDE DEF s
<1>15. s[w] # <<>>
  BY <1>4, <1>11, EmptySeq
<1>16. FlattenSeq(s) \in Seq(P) /\ Spread(FlattenSeq(s), s, w, Len(s))
  BY <1>8, <1>13, <1>14, <1>15, FlattenSpreads
<1> DEFINE f == Written(g, r)
<1>17. f \in Seq(P) /\ Spread(f, s, w, Len(g))
  BY <1>2, <1>14, <1>16
<1> HIDE DEF f
<1>18. /\ Len(f) = Len(g) + n - 1
       /\ \A j \in 1 .. Len(g) + n - 1 :
            f[j] = IF j < w THEN s[j][1] ELSE IF j < w + n THEN s[w][j - w + 1] ELSE s[j - n + 1][1]
  <2>1. ~(Len(g) < w)
    BY <1>8
  <2> QED BY <1>11, <1>17, <2>1 DEF Spread
<1>19. ASSUME NEW j \in 1 .. Len(g) + n - 1
       PROVE  f[j] = IF j < w THEN Shown(g[j], r)
                     ELSE IF j < w + n THEN Part("bare", <<r["remote_user"][j - w + 1]>>)
                     ELSE Shown(g[j - n + 1], r)
  <2>1. CASE j < w
    <3>1. j \in 1 .. Len(g) /\ j # w
      BY <1>8, <2>1
    <3> QED BY <1>13, <1>18, <2>1, <3>1
  <2>2. CASE ~(j < w) /\ j < w + n
    <3>1. j - w + 1 \in 1 .. n
      BY <1>4, <1>8, <2>2
    <3> QED BY <1>11, <1>18, <2>2, <3>1
  <2>3. CASE ~(j < w) /\ ~(j < w + n)
    <3>0. j \in Int /\ w \in Int /\ n \in Int /\ Len(g) \in Int /\ w >= 1 /\ j =< Len(g) + n - 1 /\ j >= w + n
      BY <1>4, <1>8, <2>3
    <3>1. j - n + 1 \in 1 .. Len(g) /\ j - n + 1 # w
      BY <3>0, BehindTheName
    <3> QED BY <1>13, <1>18, <2>3, <3>1
  <2> QED BY <2>1, <2>2, <2>3
<1> QED BY <1>4, <1>18, <1>19 DEF f, PartsInPlace

\* A line of one-part items, read in the format it was written in, says what was told.
LEMMA ReadsWhatWasTold ==
    ASSUME NEW g \in Presets, NEW r, Loggable(r), Parse(g, Written(g, r)) # Rejected
    PROVE  Len(r["remote_user"]) = 1 => /\ Parse(g, Written(g, r)) = Told(g, r)
                                        /\ \E a \in IpWords : r["remote_addr"] = <<a>>
<1> DEFINE w == UserAt(g)
           W == Written(g, r)
           n == Len(r["remote_user"])
<1>0. PartsInPlace(W, g, r, w, n)
  BY WrittenIs
<1> HIDE DEF n
<1> SUFFICES ASSUME n = 1
             PROVE  Parse(g, W) = Told(g, r) /\ \E a \in IpWords : r["remote_addr"] = <<a>>
  BY DEF n
<1>1. Items(g, w)
  BY PresetItems
<1>2. /\ Len(W) = Len(g) + 1 - 1
      /\ \A j \in 1 .. Len(g) + 1 - 1 :
           W[j] = IF j < w THEN Shown(g[j], r)
                  ELSE IF j < w + 1 THEN Part("bare", <<r["remote_user"][j - w + 1]>>)
                  ELSE Shown(g[j - 1 + 1], r)
  <2> HIDE DEF w, W
  <2> QED BY <1>0 DEF PartsInPlace
<1> HIDE DEF w, W
<1>3. Len(g) \in Nat /\ w \in 1 .. Len(g) /\ DOMAIN g = 1 .. Len(g) /\ g[w] = Item("bare", "remote_user")
  BY <1>1 DEF Items
<1>4. Part("bare", <<r["remote_user"][1]>>) = Shown(g[w], r)
  <2> DEFINE t == r["remote_user"]
  <2>1. t \in Seq(STRING) /\ Len(t) = 1
    BY DEF Loggable, LogVariables, n
  <2>2. Shown(g[w], r) = Part("bare", t)
    BY <1>3 DEF Shown, Item
  <2> HIDE DEF t
  <2>3. t = <<t[1]>>
    BY <2>1
  <2> QED BY <2>2, <2>3 DEF t
<1>5. ASSUME NEW j \in 1 .. Len(g) PROVE W[j] = Shown(g[j], r)
  <2>1. j \in 1 .. Len(g) + 1 - 1 /\ j - 1 + 1 = j
    BY <1>3
  <2>2. CASE j < w
    BY <1>2, <2>1, <2>2
  <2>3. CASE j = w
    <3>1. ~(j < w) /\ j < w + 1 /\ j - w + 1 = 1
      BY <1>3, <2>3
    <3> QED BY <1>2, <1>4, <2>1, <2>3, <3>1
  <2>4. CASE j > w
    <3>1. ~(j < w) /\ ~(j < w + 1)
      BY <1>3, <2>4
    <3> QED BY <1>2, <2>1, <3>1
  <2> QED BY <1>3, <2>2, <2>3, <2>4
<1>6. Groups(g, W) = [var \in Variables(g) |-> r[var]]
  <2>1. ASSUME NEW var \in Variables(g)
        PROVE  W[CHOOSE i \in DOMAIN g : g[i].var = var].text = r[var]
    <3>1. var # "hyphen" /\ \E i \in DOMAIN g : g[i].var = var
      BY DEF Variables
    <3>2. PICK j : j = CHOOSE i \in DOMAIN g : g[i].var = var
      OBVIOUS
    <3>3. j \in 1 .. Len(g) /\ g[j].var = var
      BY <1>3, <3>1, <3>2
    <3>4. W[j].text = r[var]
      <4>1. W[j] = Shown(g[j], r)
        BY <1>5, <3>3
      <4>2. Shown(g[j], r) = Part(g[j].shape, r[var])
        BY <3>1, <3>3 DEF Shown
      <4> QED BY <4>1, <4>2 DEF Part
    <3> QED BY <3>2, <3>4
  <2> QED BY <2>1 DEF Groups
<1>7. "remote_addr" \in Variables(g)
  <2>1. \E i \in DOMAIN g : g[i].var = "remote_addr"
    <3>1. CASE g = CombinedHost
      <4>1. 2 \in DOMAIN g /\ g[2] = Item("bare", "remote_addr")
        BY <1>3, <3>1, HostItems, CombinedItems
      <4> QED BY <4>1 DEF Item
    <3>2. CASE g = Combined \/ g = CombinedTimed
      <4>1. 1 \in DOMAIN g /\ g[1] = Item("bare", "remote_addr")
        BY <1>3, <3>2, TimedItems, CombinedItems
      <4> QED BY <4>1 DEF Item
    <3> QED BY <3>1, <3>2 DEF Presets
  <2> QED BY <2>1 DEF Variables
<1> DEFINE gr == Groups(g, W)
<1>8. /\ \E a \in IpWords : Get(gr, "remote_addr", <<>>) = <<a>>
      /\ Parse(g, W) = ParsedLine(gr)
  <2> HIDE DEF gr
  <2>1. Parse(g, W) = IF /\ Matches(g, W)
                         /\ \E a \in IpWords : Get(gr, "remote_addr", <<>>) = <<a>>
                         /\ HasTimeAndStatus(gr)
                      THEN ParsedLine(gr) ELSE Rejected
    BY DEF Parse, gr
  <2> QED BY <2>1 DEF W
<1>9. Get(gr, "remote_addr", <<>>) = r["remote_addr"]
  BY <1>6, <1>7 DEF Get
<1>10. Parse(g, W) = Told(g, r)
  <2> HIDE DEF gr
  <2>1. gr = [var \in Variables(g) |-> r[var]]
    BY <1>6 DEF gr
  <2> QED BY <1>8, <2>1 DEF Told
<1> QED BY <1>8, <1>9, <1>10 DEF W

\* What is not rejected matches, and has an address.
LEMMA Accepted ==
    ASSUME NEW f, NEW line, Parse(f, line) # Rejected
    PROVE  /\ Len(f) = Len(line) /\ \A i \in DOMAIN f : Fits(f[i], line[i])
           /\ \E a \in IpWords : Get(Groups(f, line), "remote_addr", <<>>) = <<a>>
BY DEF Parse, Matches

\* A line read in a preset was written in it, and its user's name is one word.
LEMMA ReadAsWritten ==
    ASSUME NEW f \in Presets, NEW g \in Presets, NEW r, Loggable(r), Parse(f, Written(g, r)) # Rejected
    PROVE  f = g /\ Len(r["remote_user"]) = 1
<1> DEFINE W == Written(g, r)
           n == Len(r["remote_user"])
           w == UserAt(g)
<1>0. n \in Nat /\ n > 0 /\ PartsInPlace(W, g, r, w, n)
  BY WrittenIs
<1>2. /\ Len(f) = Len(W) /\ \A i \in DOMAIN f : Fits(f[i], W[i])
      /\ \E a \in IpWords : Get(Groups(f, W), "remote_addr", <<>>) = <<a>>
  BY Accepted
<1>3. DOMAIN f = 1 .. Len(f)
  BY PresetItems DEF Items
<1>4. UserAt(CombinedHost) = 4 /\ UserAt(Combined) = 3 /\ UserAt(CombinedTimed) = 3
  <2>1. CombinedHost[1] = Item("bare", "host") /\ CombinedTimed[1] = Item("bare", "remote_addr")
        /\ Combined[1] = Item("bare", "remote_addr")
    BY CombinedItems, HostItems, TimedItems
  <2>2. CombinedHost # CombinedTimed /\ CombinedHost # Combined
    BY <2>1 DEF Item
  <2> QED BY <2>2 DEF UserAt
<1>5. Len(Combined) = 9 /\ Len(CombinedHost) = 10 /\ Len(CombinedTimed) = 10
  BY CombinedItems, HostItems, TimedItems
\* An item in brackets fits no part that is bare or in quotes.
<1>6. ASSUME NEW i \in DOMAIN f, f[i] = Item("bracketed", "time_local"), W[i].shape # "bracketed"
      PROVE  FALSE
  <2>1. Fits(f[i], W[i])
    BY <1>2
  <2> QED BY <1>6, <2>1 DEF Fits, Item
<1> HIDE DEF W, n, w
<1>1. /\ n \in Nat /\ n > 0 /\ Len(W) = Len(g) + n - 1
      /\ \A j \in 1 .. Len(g) + n - 1 :
           W[j] = IF j < w THEN Shown(g[j], r)
                  ELSE IF j < w + n THEN Part("bare", <<r["remote_user"][j - w + 1]>>)
                  ELSE Shown(g[j - n + 1], r)
  BY <1>0 DEF PartsInPlace
<1>7. CASE f = g
  <2>1. n = 1
    <3>1. Len(g) \in Nat
      BY <1>5 DEF Presets
    <3> QED BY <1>1, <1>2, <1>7, <3>1
  <2> QED BY <1>7, <2>1 DEF n
<1>8. CASE f = Combined /\ f # g
  <2>1. Len(g) = 10
    BY <1>5, <1>8 DEF Presets
  <2>2. Len(f) = 9 /\ Len(W) = 10 + n - 1
    BY <1>1, <1>5, <1>8, <2>1
  <2>3. Len(f) = Len(W) /\ n \in Nat /\ n > 0
    BY <1>1, <1>2
  <2>4. 10 + n - 1 = 9
    BY <2>2, <2>3
  <2>5. n \in Nat /\ n > 0
    BY <2>3
  <2> QED BY <2>4, <2>5
<1>9. CASE f = CombinedHost /\ g = Combined
  <2>1. n = 2 /\ w = 3 /\ DOMAIN f = 1 .. 10 /\ Len(g) + n - 1 = 10
    <3>1. Len(f) = 10 /\ Len(g) = 9 /\ w = 3
      BY <1>4, <1>5, <1>9 DEF w
    <3>2. 10 = 9 + n - 1
      BY <1>1, <1>2, <3>1
    <3>3. n = 2
      BY <1>1, <3>2
    <3>4. DOMAIN f = 1 .. 10
      BY <1>3, <3>1
    <3> QED BY <3>1, <3>2, <3>3, <3>4
  <2>2. W[2] = Part("bare", Dash)
    <3>1. W[2] = Shown(g[2], r)
      <4>1. 2 \in 1 .. Len(g) + n - 1 /\ 2 < w
        BY <2>1
      <4> QED BY <1>1, <4>1
    <3>2. g[2] = Item("bare", "hyphen")
      BY <1>9, CombinedItems
    <3> QED BY <3>1, <3>2 DEF Shown, Item
  <2>3. f[2] = Item("bare", "remote_addr") /\ 2 \in DOMAIN f
    BY <2>1, <1>9, HostItems, CombinedItems
  <2>4. \A i \in DOMAIN f : f[i].var = "remote_addr" => i = 2
    <3>1. /\ f[1] = Item("bare", "host") /\ f[3] = Item("bare", "hyphen") /\ f[4] = Item("bare", "remote_user")
          /\ f[5] = Item("bracketed", "time_local") /\ f[6] = Item("quoted", "request")
          /\ f[7] = Item("bare", "status") /\ f[8] = Item("bare", "body_bytes_sent")
          /\ f[9] = Item("quoted", "http_referer") /\ f[10] = Item("quoted", "http_user_agent")
      BY <1>9, HostItems, CombinedItems
    <3>2. DOMAIN f = 1 .. 10
      BY <2>1
    <3>3. \A i \in 1 .. 10 : i = 1 \/ i = 2 \/ i = 3 \/ i = 4 \/ i = 5 \/ i = 6 \/ i = 7 \/ i = 8 \/ i = 9 \/ i = 10
      OBVIOUS
    <3> QED BY <3>1, <3>2, <3>3 DEF Item
  <2>5. Get(Groups(f, W), "remote_addr", <<>>) = Dash
    <3>1. "remote_addr" \in Variables(f)
      BY <2>3 DEF Variables, Item
    <3>2. PICK j : j = CHOOSE i \in DOMAIN f : f[i].var = "remote_addr"
      OBVIOUS
    <3>3. j = 2
      BY <2>3, <2>4, <3>2 DEF Item
    <3>4. Groups(f, W)["remote_addr"] = W[2].text /\ "remote_addr" \in DOMAIN Groups(f, W)
      BY <3>1, <3>2, <3>3 DEF Groups
    <3> QED BY <2>2, <3>4 DEF Get, Part
  <2>6. PICK a \in IpWords : Dash = <<a>>
    BY <1>2, <2>5
  <2>7. a = "-"
    BY <2>6 DEF Dash
  <2> QED BY <2>6, <2>7, LinesAssumption
<1>10. CASE f = CombinedTimed /\ g = Combined
  <2>1. n = 2 /\ w = 3 /\ DOMAIN f = 1 .. 10 /\ Len(g) + n - 1 = 10
    <3>1. Len(f) = 10 /\ Len(g) = 9 /\ w = 3
      BY <1>4, <1>5, <1>10 DEF w
    <3>2. 10 = 9 + n - 1
      BY <1>1, <1>2, <3>1
    <3>3. n = 2
      BY <1>1, <3>2
    <3>4. DOMAIN f = 1 .. 10
      BY <1>3, <3>1
    <3> QED BY <3>1, <3>2, <3>3, <3>4
  <2>2. W[4].shape = "bare"
    BY <1>1, <2>1 DEF Part
  <2>3. f[4] = Item("bracketed", "time_local") /\ 4 \in DOMAIN f
    BY <2>1, <1>10, TimedItems, CombinedItems
  <2> QED BY <1>6, <2>2, <2>3
<1>11. CASE f = CombinedHost /\ g = CombinedTimed
  <2>1. n = 1 /\ w = 3 /\ DOMAIN f = 1 .. 10 /\ Len(g) + n - 1 = 10
    <3>1. Len(f) = 10 /\ Len(g) = 10 /\ w = 3
      BY <1>4, <1>5, <1>11 DEF w
    <3>2. 10 = 10 + n - 1
      BY <1>1, <1>2, <3>1
    <3>3. n = 1
      BY <1>1, <3>2
    <3>4. DOMAIN f = 1 .. 10
      BY <1>3, <3>1
    <3> QED BY <3>1, <3>2, <3>3, <3>4
  <2>2. W[5] = Shown(g[5], r)
    <3>1. 1 .. Len(g) + n - 1 = 1 .. 10
      BY <2>1
    <3>2. 5 \in 1 .. Len(g) + n - 1
      BY <3>1
    <3>3. n = 1 /\ w = 3
      BY <2>1
    <3>4. ~(5 < w) /\ ~(5 < w + n) /\ 5 - n + 1 = 5
      BY <3>3
    <3> QED BY <1>1, <3>2, <3>4
  <2>3. g[5] = Item("quoted", "request")
    BY <1>11, TimedItems, CombinedItems
  <2>4. W[5].shape = "quoted"
    BY <2>2, <2>3 DEF Shown, Part, Item
  <2>5. f[5] = Item("bracketed", "time_local") /\ 5 \in DOMAIN f
    BY <2>1, <1>11, HostItems, CombinedItems
  <2> QED BY <1>6, <2>4, <2>5
<1>12. CASE f = CombinedTimed /\ g = CombinedHost
  <2>1. n = 1 /\ w = 4 /\ DOMAIN f = 1 .. 10 /\ Len(g) + n - 1 = 10
    <3>1. Len(f) = 10 /\ Len(g) = 10 /\ w = 4
      BY <1>4, <1>5, <1>12 DEF w
    <3>2. 10 = 10 + n - 1
      BY <1>1, <1>2, <3>1
    <3>3. n = 1
      BY <1>1, <3>2
    <3>4. DOMAIN f = 1 .. 10
      BY <1>3, <3>1
    <3> QED BY <3>1, <3>2, <3>3, <3>4
  <2>2. W[4].shape = "bare"
    <3>1. 1 .. Len(g) + n - 1 = 1 .. 10
      BY <2>1
    <3>a. 4 \in 1 .. Len(g) + n - 1
      BY <3>1
    <3>b. n = 1 /\ w = 4
      BY <2>1
    <3>c. ~(4 < w) /\ 4 < w + n
      BY <3>b
    <3>2. W[4] = Part("bare", <<r["remote_user"][4 - w + 1]>>)
      BY <1>1, <3>a, <3>c
    <3> QED BY <3>2 DEF Part
  <2>3. f[4] = Item("bracketed", "time_local") /\ 4 \in DOMAIN f
    BY <2>1, <1>12, TimedItems, CombinedItems
  <2> QED BY <1>6, <2>2, <2>3
<1> QED BY <1>7, <1>8, <1>9, <1>10, <1>11, <1>12 DEF Presets

\* A line of texts in presets that does not fail says what was told, and is read in
\* the preset it was written in.
LEMMA ReadFaithfully ==
    ASSUME TextsOfPresets, NEW l \in Lines, l \notin Malformed
    PROVE  l \in Faithful
<1> SUFFICES ASSUME NEW t \in Texts[l]
             PROVE  /\ \E a \in IpWords : t.request["remote_addr"] = <<a>>
                    /\ ReadAs(t) = Told(Format, t.request)
                    /\ \A f \in Presets : Parse(f, Written(t.format, t.request)) # Rejected => f = t.format
  BY DEF Faithful
<1>1. /\ Format \in Presets /\ t.format \in Presets /\ Loggable(t.request)
      /\ Parse(Format, Written(t.format, t.request)) # Rejected
  BY DEF TextsOfPresets, ReadAs
<1>2. Format = t.format /\ Len(t.request["remote_user"]) = 1
  BY <1>1, ReadAsWritten
<1>3. /\ Parse(t.format, Written(t.format, t.request)) = Told(t.format, t.request)
      /\ \E a \in IpWords : t.request["remote_addr"] = <<a>>
  BY <1>1, <1>2, ReadsWhatWasTold
<1>4. \A f \in Presets : Parse(f, Written(t.format, t.request)) # Rejected => f = t.format
  BY <1>1, ReadAsWritten
<1> QED BY <1>2, <1>3, <1>4 DEF ReadAs

\* Only lines that parse are stored.
ParsedStored == \A l \in Lines : copies[l] > 0 => l \notin Malformed

LEMMA ParsedStoredStep == ASSUME TypeOK, ParsedStored, [Next]_vars PROVE ParsedStored'
<1>1. ASSUME NEW w \in Workers, Record(w) PROVE ParsedStored'
  <2> SUFFICES ASSUME NEW l \in Lines, copies'[l] > 0 PROVE l \notin Malformed
    BY DEF ParsedStored, Malformed, ReadAs
  <2>1. CASE copies[l] > 0
    BY <2>1 DEF ParsedStored
  <2>2. CASE ~(copies[l] > 0)
    <3>1. l[1] = chunk[w].src /\ l[2] \in Parsed(chunk[w])
      BY <1>1, <2>2 DEF Record
    <3>2. <<l[1], l[2]>> \notin Malformed
      BY <3>1 DEF Parsed
    <3>3. l = <<l[1], l[2]>>
      BY DEF Lines
    <3> QED BY <3>2, <3>3
  <2> QED BY <2>1, <2>2
<1>2. ASSUME UNCHANGED copies PROVE ParsedStored'
  BY <1>2 DEF ParsedStored, Malformed, ReadAs
<1>3. CASE UNCHANGED vars
  BY <1>2, <1>3 DEF vars
<1>4. CASE Grow \/ MoveAway \/ Create \/ Toggle \/ Expire
  BY <1>2, <1>4 DEF Grow, MoveAway, Create, Toggle, Expire
<1>5. ASSUME NEW w \in Workers,
             Load(w) \/ Lock(w) \/ Skip(w) \/ Missing(w) \/ Stat(w) \/ Read(w) \/ Gone(w) \/ Save(w)
               \/ Unlock(w) \/ Fail(w) \/ Crash(w)
      PROVE  ParsedStored'
  BY <1>2, <1>5 DEF Load, Lock, Skip, Missing, Stat, Read, Gone, Save, Unlock, Fail, Crash
<1> QED BY <1>1, <1>3, <1>4, <1>5 DEF Next, Step

\* In whichever of the presets nginx writes and the source is read, a stored event says
\* what nginx logged, of a request from an IP address; and no line of another preset is
\* stored as if it were one of this.
THEOREM StoredAsLoggedThm == ASSUME TextsOfPresets PROVE Spec => []StoredAsLogged
<1>1. Init => ParsedStored
  BY DEF Init, ParsedStored
<1>2. TypeOK /\ ParsedStored /\ [Next]_vars => ParsedStored'
  BY ParsedStoredStep
<1>3. ParsedStored => StoredAsLogged
  BY ReadFaithfully DEF ParsedStored, StoredAsLogged
<1> QED BY <1>1, <1>2, <1>3, TypeCorrect, PTL DEF Spec

-----------------------------------------------------------------------------
(***************************************************************************)
(* The key under the reader's lease, for any key and any timing of its     *)
(* own: redis_lock as RedisLock has it, whose bodies LogReader's polls are *)
(* when none of them is long.  RL!LockAssumption is what RedisLock assumes *)
(* of its constants, and MaxHold < Timeout that bodies are shorter than    *)
(* the key's time to live, which the code does not enforce.                *)
(***************************************************************************)
CONSTANTS NoWorker, Timeout, MaxHold
VARIABLES ttl, writer, place, age   \* `place` is the workers' pc in RedisLock

RL == INSTANCE RedisLock WITH pc <- place

\* The state keeps its shape whatever MaxHold is.
THEOREM LockTypeCorrect == ASSUME RL!LockAssumption PROVE RL!Spec => []RL!TypeOK
<1>1. RL!Init => RL!TypeOK
  BY RL!LockAssumption DEF RL!Init, RL!TypeOK
<1>2. RL!TypeOK /\ [RL!Next]_(RL!vars) => RL!TypeOK'
  <2> SUFFICES ASSUME RL!TypeOK, [RL!Next]_(RL!vars)
               PROVE  RL!TypeOK'
    OBVIOUS
  <2> USE RL!LockAssumption DEF RL!TypeOK
  <2>1. CASE RL!Tick
    <3>1. ttl' \in 0..Timeout
      BY <2>1 DEF RL!Tick
    <3>2. writer' \in Workers \cup {NoWorker} /\ place' = place
      BY <2>1 DEF RL!Tick
    <3>3. age' \in [Workers -> 0..MaxHold]
      BY <2>1 DEF RL!Tick
    <3> QED BY <3>1, <3>2, <3>3
  <2>2. ASSUME NEW w \in Workers, RL!Add(w) PROVE RL!TypeOK'
    BY <2>2 DEF RL!Add
  <2>3. ASSUME NEW w \in Workers, RL!Refuse(w) PROVE RL!TypeOK'
    BY <2>3 DEF RL!Refuse
  <2>4. ASSUME NEW w \in Workers, RL!GiveUp(w) PROVE RL!TypeOK'
    BY <2>4 DEF RL!GiveUp
  <2>5. ASSUME NEW w \in Workers, RL!Leave(w) PROVE RL!TypeOK'
    BY <2>5 DEF RL!Leave
  <2>6. ASSUME NEW w \in Workers, RL!Crash(w) PROVE RL!TypeOK'
    BY <2>6 DEF RL!Crash
  <2>7. CASE UNCHANGED RL!vars
    BY <2>7 DEF RL!vars
  <2> QED BY <2>1, <2>2, <2>3, <2>4, <2>5, <2>6, <2>7 DEF RL!Next
<1> QED BY <1>1, <1>2, PTL DEF RL!Spec

\* A body whose holder owns the key shares it with nobody: `writer` is one worker.
LEMMA OwnerIsAlone == RL!HolderOwnsKey => RL!MutualExclusion
  BY DEF RL!HolderOwnsKey, RL!MutualExclusion

\* While a body runs its key is still in Redis.
LEMMA KeyOutlivesBody ==
    ASSUME RL!LockAssumption, MaxHold < Timeout, RL!TypeOK, RL!HolderOwnsKey, NEW w \in Workers, place[w] = "body"
    PROVE  ttl > 0
<1>1. ttl \in Nat /\ age[w] \in Nat /\ age[w] =< MaxHold
  BY RL!LockAssumption DEF RL!TypeOK
<1>2. ttl + age[w] = Timeout
  BY DEF RL!HolderOwnsKey
<1> QED BY <1>1, <1>2, RL!LockAssumption

\* Every step keeps the key with the worker whose body it protects.
LEMMA OwnershipStep ==
    ASSUME RL!LockAssumption, MaxHold < Timeout, RL!TypeOK, RL!HolderOwnsKey, [RL!Next]_(RL!vars)
    PROVE  RL!HolderOwnsKey'
<1> SUFFICES ASSUME NEW w \in Workers, place'[w] = "body"
             PROVE  writer' = w /\ ttl' + age'[w] = Timeout
  BY DEF RL!HolderOwnsKey
<1> USE RL!LockAssumption
<1>1. CASE RL!Tick
  <2>1. place[w] = "body" /\ age[w] < MaxHold
    BY <1>1 DEF RL!Tick
  <2>2. writer = w /\ ttl + age[w] = Timeout /\ ttl > 0
    BY <2>1, KeyOutlivesBody DEF RL!HolderOwnsKey
  <2>3. age'[w] = age[w] + 1 /\ ttl' = ttl - 1
    BY <1>1, <2>1, <2>2 DEF RL!Tick
  <2>4. ttl' # 0
    BY <2>1, <2>2, <2>3 DEF RL!TypeOK
  <2> QED BY <1>1, <2>2, <2>3, <2>4 DEF RL!Tick, RL!TypeOK
<1>2. ASSUME NEW v \in Workers, RL!Add(v)
      PROVE  writer' = w /\ ttl' + age'[w] = Timeout
  <2>1. \A u \in Workers : place[u] # "body"
    BY <1>2, KeyOutlivesBody DEF RL!Add
  <2>2. w = v
    BY <1>2, <2>1 DEF RL!Add, RL!TypeOK
  <2> QED BY <1>2, <2>2 DEF RL!Add, RL!TypeOK
<1>3. ASSUME NEW v \in Workers, RL!Leave(v)
      PROVE  writer' = w /\ ttl' + age'[w] = Timeout
  \* writer would be both v and w
  BY <1>3 DEF RL!Leave, RL!TypeOK, RL!HolderOwnsKey
<1>4. ASSUME NEW v \in Workers, RL!Refuse(v) \/ RL!GiveUp(v) \/ RL!Crash(v)
      PROVE  writer' = w /\ ttl' + age'[w] = Timeout
  <2>1. place[w] = "body" /\ age'[w] = age[w]
    BY <1>4 DEF RL!Refuse, RL!GiveUp, RL!Crash, RL!TypeOK
  <2> QED BY <1>4, <2>1 DEF RL!Refuse, RL!GiveUp, RL!Crash, RL!HolderOwnsKey
<1>5. CASE UNCHANGED RL!vars
  BY <1>5 DEF RL!vars, RL!HolderOwnsKey
<1> QED BY <1>1, <1>2, <1>3, <1>4, <1>5 DEF RL!Next

\* The key of a running body stays its owner's, with the time it has left.
THEOREM HolderOwnsKeyThm == ASSUME RL!LockAssumption, MaxHold < Timeout PROVE RL!Spec => []RL!HolderOwnsKey
<1>1. RL!Init => RL!HolderOwnsKey
  BY DEF RL!Init, RL!HolderOwnsKey
<1>2. RL!TypeOK /\ RL!HolderOwnsKey /\ [RL!Next]_(RL!vars) => RL!HolderOwnsKey'
  BY OwnershipStep
<1> QED BY <1>1, <1>2, LockTypeCorrect, PTL DEF RL!Spec

\* Mutual exclusion, for any number of workers.
THEOREM MutualExclusionThm == ASSUME RL!LockAssumption, MaxHold < Timeout PROVE RL!Spec => []RL!MutualExclusion
  BY HolderOwnsKeyThm, OwnerIsAlone, PTL

\* The finally never deletes a key another worker wrote.
THEOREM OnlyWriterDeletesThm == ASSUME RL!LockAssumption, MaxHold < Timeout PROVE RL!Spec => RL!OnlyWriterDeletes
<1> DEFINE Fine == ttl > 0 /\ ttl' = 0 =>
                     \/ ttl = 1 /\ UNCHANGED place
                     \/ \E w \in Workers : writer = w /\ place[w] = "body" /\ place'[w] = "idle"
<1>1. RL!TypeOK /\ RL!HolderOwnsKey /\ [RL!Next]_(RL!vars) => [Fine]_(RL!vars)
  <2> SUFFICES ASSUME RL!TypeOK, RL!HolderOwnsKey, RL!Next PROVE Fine
    OBVIOUS
  <2>1. CASE RL!Tick
    BY <2>1, RL!LockAssumption DEF RL!Tick, RL!TypeOK
  <2>2. ASSUME NEW w \in Workers, RL!Leave(w) PROVE Fine
    BY <2>2 DEF RL!Leave, RL!TypeOK, RL!HolderOwnsKey
  <2>3. ASSUME NEW w \in Workers, RL!Add(w) \/ RL!Refuse(w) \/ RL!GiveUp(w) \/ RL!Crash(w)
        PROVE  Fine
    BY <2>3, RL!LockAssumption DEF RL!Add, RL!Refuse, RL!GiveUp, RL!Crash, RL!TypeOK
  <2> QED BY <2>1, <2>2, <2>3 DEF RL!Next
<1> QED BY <1>1, LockTypeCorrect, HolderOwnsKeyThm, PTL DEF RL!Spec, RL!OnlyWriterDeletes

\* redis_lock implements the lease the task modules are written against.
THEOREM LeaseRefinement == ASSUME RL!LockAssumption, MaxHold < Timeout PROVE RL!Spec => RL!L!Spec
<1> DEFINE Busy == \E w \in Workers : place[w] = "body"
<1>1. RL!Init => RL!L!Init
  BY DEF RL!Init, RL!L!Init, RL!AbstractHolder
<1>2. ASSUME RL!TypeOK, RL!HolderOwnsKey, NEW w \in Workers, place[w] = "body"
      PROVE  RL!AbstractHolder = w
  BY <1>2, OwnerIsAlone DEF RL!AbstractHolder, RL!MutualExclusion
<1>3. RL!TypeOK /\ RL!HolderOwnsKey /\ (RL!TypeOK /\ RL!HolderOwnsKey)' /\ [RL!Next]_(RL!vars)
        => [RL!L!Next]_(RL!AbstractHolder)
  <2> SUFFICES ASSUME RL!TypeOK, RL!HolderOwnsKey, RL!TypeOK', RL!HolderOwnsKey', [RL!Next]_(RL!vars)
               PROVE  RL!L!Next \/ UNCHANGED RL!AbstractHolder
    OBVIOUS
  <2>0. ASSUME NEW w \in Workers, place'[w] = "body" PROVE RL!AbstractHolder' = w
    BY <2>0, OwnerIsAlone DEF RL!AbstractHolder, RL!MutualExclusion, RL!HolderOwnsKey
  <2>1. CASE RL!Tick
    <3>1. CASE Busy
      BY <2>1, <3>1 DEF RL!Tick, RL!AbstractHolder
    <3>2. CASE ~Busy /\ ttl = 1
      <4>1. RL!AbstractHolder = "orphan" /\ RL!AbstractHolder' = "free"
        BY <2>1, <3>2 DEF RL!Tick, RL!AbstractHolder
      <4> QED BY <4>1 DEF RL!L!Next, RL!L!Expire
    <3>3. CASE ~Busy /\ ttl # 1
      BY <2>1, <3>3, RL!LockAssumption DEF RL!Tick, RL!AbstractHolder, RL!TypeOK
    <3> QED BY <3>1, <3>2, <3>3
  <2>2. ASSUME NEW w \in Workers, RL!Add(w) PROVE RL!L!Next
    <3>1. RL!AbstractHolder = "free"
      BY <2>2, KeyOutlivesBody DEF RL!Add, RL!AbstractHolder
    <3>2. RL!AbstractHolder' = w
      BY <2>2, <2>0 DEF RL!Add, RL!TypeOK
    <3> QED BY <3>1, <3>2 DEF RL!L!Next, RL!L!Acquire
  <2>3. ASSUME NEW w \in Workers, RL!Leave(w) PROVE RL!L!Next
    <3>1. RL!AbstractHolder = w
      BY <2>3, <1>2 DEF RL!Leave
    <3>2. \A v \in Workers : place'[v] # "body"
      BY <2>3 DEF RL!Leave, RL!TypeOK, RL!HolderOwnsKey
    <3>3. RL!AbstractHolder' = "free"
      BY <2>3, <3>2 DEF RL!Leave, RL!AbstractHolder
    <3> QED BY <3>1, <3>3 DEF RL!L!Next, RL!L!Release
  <2>4. ASSUME NEW w \in Workers, RL!Crash(w) PROVE RL!L!Next
    <3>1. RL!AbstractHolder = w /\ ttl > 0
      BY <2>4, <1>2, KeyOutlivesBody DEF RL!Crash
    <3>2. \A v \in Workers : place'[v] # "body"
      BY <2>4 DEF RL!Crash, RL!TypeOK, RL!HolderOwnsKey
    <3>3. RL!AbstractHolder' = "orphan"
      BY <2>4, <3>1, <3>2 DEF RL!Crash, RL!AbstractHolder
    <3> QED BY <3>1, <3>3 DEF RL!L!Next, RL!L!Crash
  <2>5. ASSUME NEW w \in Workers, RL!Refuse(w) \/ RL!GiveUp(w)
        PROVE  UNCHANGED RL!AbstractHolder
    <3>1. \A v \in Workers : (place'[v] = "body") <=> (place[v] = "body")
      BY <2>5 DEF RL!Refuse, RL!GiveUp, RL!TypeOK
    <3>2. ttl' = ttl
      BY <2>5 DEF RL!Refuse, RL!GiveUp
    <3>3. CASE \E v \in Workers : place[v] = "body"
      BY <3>1, <3>3, <1>2, <2>0
    <3>4. CASE ~ \E v \in Workers : place[v] = "body"
      BY <3>1, <3>2, <3>4 DEF RL!AbstractHolder
    <3> QED BY <3>3, <3>4
  <2>6. CASE UNCHANGED RL!vars
    BY <2>6 DEF RL!vars, RL!AbstractHolder
  <2> QED BY <2>1, <2>2, <2>3, <2>4, <2>5, <2>6 DEF RL!Next
<1> QED BY <1>1, <1>3, LockTypeCorrect, HolderOwnsKeyThm, PTL DEF RL!Spec, RL!L!Spec
=============================================================================
