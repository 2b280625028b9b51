--------------------------- MODULE CollectionProof ---------------------------
(***************************************************************************)
(* Theorems about Collection with one caller, for any records, metadata,   *)
(* capacity and bounds: the sidecar and the engine agree between calls, a  *)
(* vacuum prunes the sidecar, and a snapshot that every vacuum kept        *)
(* answers what it answered.                                               *)
(***************************************************************************)
EXTENDS Collection, FiniteSetTheorems, SequenceTheorems, WellFoundedInduction, TLAPS

Versions == [id : Keys, val : {0}, label : {{}}, from : Nat, to : Nat]

\* A version begins by the clock, and ends by the clock or is open.
IndexSound(ix) ==
  /\ ix \in [clock : Nat, rows : SUBSET Versions]
  /\ ix.clock <= MaxClock
  /\ \A v \in ix.rows : v.from <= ix.clock /\ (v.to <= ix.clock \/ v.to = Forever)

\* What a search at s finds, vector by vector.
Visible(ix, s) == {<<v.id, v.from>> : v \in AsOf(ix, s)}

-----------------------------------------------------------------------------
(* What a call carries from step to step.                                  *)

\* The metadata of a batch: for each id or for none.
ForEach(c) == c.metas = Carry \/ c.metas \in [c.ids -> Metas]

IsInsert(c) ==
  /\ c.pc \in {"insert", "grow", "retry"}
  /\ c = [pc |-> c.pc, ids |-> c.ids, metas |-> c.metas]
  /\ c.ids \in (SUBSET Keys) \ {{}} /\ ForEach(c)

IsDelete(c) ==
  /\ c.pc = "delete"
  /\ c = [pc |-> c.pc, ids |-> c.ids]
  /\ c.ids \in Seq(Keys) /\ Len(c.ids) > 0 /\ Distinct(c.ids)

IsStamp(c) ==
  /\ c.pc = "stamp"
  /\ c = [pc |-> c.pc, ids |-> c.ids, metas |-> c.metas, then |-> c.then]
  /\ c.then \in {"record", "edit", "forget"} /\ c.ids \in SUBSET Keys /\ ForEach(c)

IsRecord(c) ==
  /\ c.pc \in {"record", "edit", "forget"}
  /\ c = [pc |-> c.pc, ids |-> c.ids, metas |-> c.metas, stamp |-> c.stamp]
  /\ c.ids \in SUBSET Keys /\ ForEach(c) /\ c.stamp = eng.clock

IsVacuum(c) ==
  /\ c.pc \in {"vacuum", "prune"}
  /\ c = [pc |-> c.pc, oldest |-> c.oldest]
  /\ c.oldest \in 1..eng.clock + 1

CallSound(c) == c = Idle \/ IsInsert(c) \/ IsDelete(c) \/ IsStamp(c) \/ IsRecord(c) \/ IsVacuum(c)

\* The record of a call that has reached the sidecar, or will next.
Step(c) == IF c.pc = "stamp" THEN c.then ELSE c.pc

\* Ids that are open in the engine and not yet live, closed and still live.
Coming(c) == IF Step(c) \in {"retry", "record"} THEN c.ids ELSE {}
Logged(c) == IF Step(c) \in {"grow", "retry", "record"} THEN c.ids ELSE {}
Going(c) == IF Step(c) = "forget" THEN c.ids ELSE {}

\* The commits a call may still make.
Left(c) ==
  IF c.pc \in {"insert", "grow"} THEN 2
  ELSE IF c.pc = "retry" THEN 1
  ELSE IF c.pc = "delete" THEN Len(c.ids) ELSE 0

\* What a call expects to be live.
Expected(c) ==
  IF c.pc = "delete" THEN {c.ids[k] : k \in DOMAIN c.ids}
  ELSE IF Step(c) \in {"edit", "forget"} THEN c.ids ELSE {}

-----------------------------------------------------------------------------
(* The inductive invariant.                                                *)

\* The engine's open ids are the live ones, but for the call under way, and
\* so are those of the log.
EngineFollows(c) ==
  /\ IndexSound(eng) /\ IndexSound(wal)
  /\ OpenIds(eng) = (live \cup Coming(c)) \ Going(c)
  /\ OpenIds(wal) = (live \cup Logged(c)) \ Going(c)
  /\ wal.clock = eng.clock + (IF c.pc = "grow" THEN 1 ELSE 0)
  /\ eng.clock + Left(c) <= MaxClock
  /\ Expected(c) \subseteq live

\* Stamps are behind the clock; a name that is not live has the stamp of its
\* delete.
Stamped ==
  /\ \A k \in Keys : \A n \in DOMAIN history[k] : history[k][n].stamp <= eng.clock
  /\ \A k \in Keys : deletedAt[k] <= eng.clock \/ deletedAt[k] = Forever
  /\ \A k \in Named \ live : deletedAt[k] # Forever

\* The vectors of a deleted record ended by the stamp of the delete, and the
\* last of its call at the stamp.
Buried(c) ==
  /\ \A ix \in {eng, wal} : \A v \in ix.rows :
       deletedAt[v.id] # Forever /\ v.id \notin Logged(c) => v.to <= deletedAt[v.id]
  /\ \A k \in Keys : deletedAt[k] # Forever /\ (c.pc = "prune" => c.oldest <= deletedAt[k]) =>
       \E v \in eng.rows : v.to = deletedAt[k]
  /\ \A k \in Keys : deletedAt[k] # Forever => \E v \in wal.rows : v.to = deletedAt[k]
  /\ Step(c) = "forget" => \A ix \in {eng, wal} : \E v \in ix.rows : v.to = eng.clock

\* What was answered is still answered, by named records, and the log has it.
Answered(c) ==
  /\ floor <= eng.clock
  /\ c.pc = "prune" => c.oldest <= floor \/ eng.clock <= floor
  /\ \A s \in floor..eng.clock :
       s = eng.clock \/ seen[s] # NotSeen => Visible(eng, s) = Visible(wal, s)
  /\ \A s \in 0..MaxClock : s > eng.clock => seen[s] = NotSeen
  /\ \A s \in floor..eng.clock :
       seen[s] # NotSeen =>
         /\ Query(eng, history, s) = seen[s]
         /\ \A v \in AsOf(eng, s) : history[v.id] # <<>>

Sound(c) == CallSound(c) /\ EngineFollows(c) /\ Stamped /\ Buried(c) /\ Answered(c)

CollectionInv(t) ==
  /\ TypeOK /\ floor \in Nat
  /\ call = [u \in Threads |-> call[t]]
  /\ seen = [s \in 0..MaxClock |-> seen[s]]
  /\ IF growth = "fine" THEN Sound(call[t]) ELSE call[t] = Idle

-----------------------------------------------------------------------------
(* The index: a call of the engine ends versions of some ids and starts    *)
(* versions of others.                                                     *)

\* A version that ends.
Ended(v, at) == [v EXCEPT !.to = at]

\* Versions of `gone' end by the new clock, those of `new' start at it.
Advanced(ix, iy, gone, new) ==
  /\ iy = [clock |-> iy.clock, rows |-> iy.rows]
  /\ iy.clock \in Nat /\ ix.clock < iy.clock
  /\ \A v \in ix.rows :
       IF v.to = Forever /\ v.id \in gone
       THEN \E at \in ix.clock + 1..iy.clock : Ended(v, at) \in iy.rows
       ELSE v \in iy.rows
  /\ \A r \in iy.rows :
       \/ r \in ix.rows /\ ~(r.to = Forever /\ r.id \in gone)
       \/ \E v \in ix.rows : \E at \in ix.clock + 1..iy.clock :
            v.to = Forever /\ v.id \in gone /\ r = Ended(v, at)
       \/ r \in Versions /\ r.id \in new /\ r.from = iy.clock /\ r.to = Forever
  /\ \A k \in new : \E r \in iy.rows : r.id = k /\ r.from = iy.clock /\ r.to = Forever

LEMMA RowFacts ==
  ASSUME NEW ix, IndexSound(ix)
  PROVE  /\ ix.clock \in Nat /\ ix.clock < Forever
         /\ ix = [clock |-> ix.clock, rows |-> ix.rows]
         /\ \A v \in ix.rows : /\ v \in Versions /\ v.id \in Keys /\ v.from \in Nat /\ v.to \in Nat
                               /\ v.from <= ix.clock /\ v.to <= Forever
                               /\ v.to <= ix.clock \/ v.to = Forever
  BY Limits DEF IndexSound, Versions

\* A version that ends: its fields.
LEMMA EndedRow ==
  ASSUME NEW v \in Versions, NEW at \in Nat
  PROVE  /\ Ended(v, at) \in Versions
         /\ Ended(v, at).id = v.id /\ Ended(v, at).from = v.from
         /\ Ended(v, at).to = at
  BY DEF Versions, Ended

LEMMA AsOfNow ==
  ASSUME NEW ix, IndexSound(ix)
  PROVE  AsOf(ix, ix.clock) = OpenRows(ix)
  BY RowFacts, Limits DEF AsOf, OpenRows

\* Where a version of the new index comes from, field by field.
LEMMA AdvancedRow ==
  ASSUME NEW ix, NEW iy, NEW gone, NEW new, IndexSound(ix), Advanced(ix, iy, gone, new),
         iy.clock <= MaxClock, NEW r \in iy.rows
  PROVE  /\ r \in Versions /\ r.from \in Nat /\ r.to \in Nat /\ r.from <= iy.clock
         /\ \/ r \in ix.rows /\ (r.to = Forever => r.id \notin gone)
            \/ /\ ix.clock < r.to /\ r.to <= iy.clock /\ r.id \in gone
               /\ \E v \in ix.rows : v.to = Forever /\ v.id = r.id /\ v.from = r.from
            \/ r.id \in new /\ r.from = iy.clock /\ r.to = Forever
  <1>1. CASE r \in ix.rows /\ ~(r.to = Forever /\ r.id \in gone)
    BY <1>1, RowFacts DEF Advanced
  <1>2. ASSUME NEW v \in ix.rows, NEW at \in ix.clock + 1..iy.clock,
               v.to = Forever, v.id \in gone, r = Ended(v, at)
        PROVE  /\ r \in Versions /\ r.from \in Nat /\ r.to \in Nat /\ r.from <= iy.clock
               /\ ix.clock < r.to /\ r.to <= iy.clock /\ r.id \in gone
               /\ v.id = r.id /\ v.from = r.from
    <2>1. /\ v \in Versions /\ at \in Nat /\ ix.clock < at /\ at <= iy.clock /\ v.from <= ix.clock
          /\ v.from \in Nat /\ ix.clock \in Nat /\ iy.clock \in Nat
      BY RowFacts DEF Advanced
    <2>2. r \in Versions /\ r.id = v.id /\ r.from = v.from /\ r.to = at
      BY <2>1, <1>2, EndedRow
    <2> QED
      BY <2>1, <2>2, <1>2
  <1>3. CASE r \in Versions /\ r.id \in new /\ r.from = iy.clock /\ r.to = Forever
    BY <1>3, Limits DEF Advanced
  <1> QED
    BY <1>1, <1>2, <1>3 DEF Advanced

\* What becomes of a version of the old index.
LEMMA AdvancedFrom ==
  ASSUME NEW ix, NEW iy, NEW gone, NEW new, IndexSound(ix), Advanced(ix, iy, gone, new),
         NEW v \in ix.rows
  PROVE  \/ v \in iy.rows /\ (v.to = Forever => v.id \notin gone)
         \/ /\ v.to = Forever /\ v.id \in gone
            /\ \E r \in iy.rows : /\ r.id = v.id /\ r.from = v.from
                                  /\ ix.clock < r.to /\ r.to <= iy.clock
  <1>1. CASE v.to = Forever /\ v.id \in gone
    <2>1. PICK at \in ix.clock + 1..iy.clock : Ended(v, at) \in iy.rows
      BY <1>1 DEF Advanced
    <2>2. v \in Versions /\ at \in Nat /\ ix.clock < at /\ at <= iy.clock
      BY RowFacts DEF Advanced
    <2>3. /\ Ended(v, at).id = v.id /\ Ended(v, at).from = v.from
          /\ Ended(v, at).to = at
      BY <2>2, EndedRow
    <2> QED
      BY <1>1, <2>1, <2>2, <2>3
  <1>2. CASE ~(v.to = Forever /\ v.id \in gone)
    BY <1>2 DEF Advanced
  <1> QED
    BY <1>1, <1>2

\* A call of the engine: the index stays sound, what is open changes as it
\* should, and no earlier snapshot changes.
LEMMA AdvancedFacts ==
  ASSUME NEW ix, NEW iy, NEW gone, NEW new, IndexSound(ix), Advanced(ix, iy, gone, new),
         iy.clock <= MaxClock
  PROVE  /\ IndexSound(iy)
         /\ OpenIds(iy) = (OpenIds(ix) \ gone) \cup new
         /\ \A s \in Nat : s <= ix.clock => Visible(iy, s) = Visible(ix, s)
         /\ \A v \in ix.rows : v.to # Forever => v \in iy.rows
         /\ \A r \in iy.rows : r.id \notin gone \cup new => r \in ix.rows
  <1>1. /\ ix.clock \in Nat /\ iy.clock \in Nat /\ ix.clock < iy.clock /\ iy.clock < Forever
        /\ Forever \in Nat /\ iy = [clock |-> iy.clock, rows |-> iy.rows]
    BY RowFacts, Limits DEF Advanced
  <1>2. \A r \in iy.rows :
          /\ r \in Versions /\ r.from \in Nat /\ r.to \in Nat /\ r.from <= iy.clock
          /\ \/ r \in ix.rows /\ (r.to = Forever => r.id \notin gone)
             \/ /\ ix.clock < r.to /\ r.to <= iy.clock /\ r.id \in gone
                /\ \E v \in ix.rows : v.to = Forever /\ v.id = r.id /\ v.from = r.from
             \/ r.id \in new /\ r.from = iy.clock /\ r.to = Forever
    BY AdvancedRow
  <1>3. \A v \in ix.rows :
          \/ v \in iy.rows /\ (v.to = Forever => v.id \notin gone)
          \/ /\ v.to = Forever /\ v.id \in gone
             /\ \E r \in iy.rows : /\ r.id = v.id /\ r.from = v.from
                                   /\ ix.clock < r.to /\ r.to <= iy.clock
    BY AdvancedFrom
  <1>4. \A k \in new : \E r \in iy.rows : r.id = k /\ r.from = iy.clock /\ r.to = Forever
    BY DEF Advanced
  <1>5. \A v \in ix.rows : /\ v.from \in Nat /\ v.to \in Nat /\ v.from <= ix.clock
                           /\ v.to <= ix.clock \/ v.to = Forever
    BY RowFacts
  <1>6. IndexSound(iy)
    BY <1>1, <1>2, <1>5 DEF IndexSound
  <1>7. ASSUME NEW k
        PROVE  (\E r \in iy.rows : r.to = Forever /\ r.id = k)
                 <=> \/ k \notin gone /\ \E v \in ix.rows : v.to = Forever /\ v.id = k
                     \/ k \in new
    <2>1. ASSUME NEW r \in iy.rows, r.to = Forever, r.id = k
          PROVE  \/ k \notin gone /\ \E v \in ix.rows : v.to = Forever /\ v.id = k
                 \/ k \in new
      BY <2>1, <1>1, <1>2
    <2>2. ASSUME NEW v \in ix.rows, v.to = Forever, v.id = k, k \notin gone
          PROVE  v \in iy.rows
      BY <2>2, <1>3
    <2> QED
      BY <2>1, <2>2, <1>4
  <1>8. OpenIds(iy) = (OpenIds(ix) \ gone) \cup new
    BY <1>7 DEF OpenIds, OpenRows
  <1>9. ASSUME NEW s \in Nat, s <= ix.clock
        PROVE  Visible(iy, s) = Visible(ix, s)
    <2>1. ASSUME NEW r \in AsOf(iy, s)
          PROVE  \E v \in AsOf(ix, s) : v.id = r.id /\ v.from = r.from
      <3>1. r \in iy.rows /\ r.from <= s /\ s < r.to
        BY DEF AsOf
      <3> QED
        BY <3>1, <1>1, <1>2, <1>9 DEF AsOf
    <2>2. ASSUME NEW v \in AsOf(ix, s)
          PROVE  \E r \in AsOf(iy, s) : v.id = r.id /\ v.from = r.from
      <3>1. v \in ix.rows /\ v.from <= s /\ s < v.to
        BY DEF AsOf
      <3>2. CASE v \in iy.rows
        BY <3>1, <3>2 DEF AsOf
      <3>3. ASSUME NEW r \in iy.rows, r.id = v.id, r.from = v.from, ix.clock < r.to
            PROVE  r \in AsOf(iy, s)
        BY <3>1, <3>3, <1>9, <1>2, <1>1 DEF AsOf
      <3> QED
        BY <3>1, <3>2, <3>3, <1>3
    <2> QED
      BY <2>1, <2>2 DEF Visible
  <1> QED
    BY <1>2, <1>3, <1>6, <1>8, <1>9, <1>1

NewIds(ids) == {Row(k, 0, {}) : k \in ids}

\* insert_many: one commit, an open version of each id.
LEMMA InsertAdvances ==
  ASSUME NEW ix, IndexSound(ix), NEW ids \in SUBSET Keys, ids # {}
  PROVE  /\ Advanced(ix, InsertMany(ix, NewIds(ids)), ids, ids)
         /\ InsertMany(ix, NewIds(ids)).clock = ix.clock + 1
         /\ \E v \in InsertMany(ix, NewIds(ids)).rows : TRUE
  <1> DEFINE new == NewIds(ids)
             ts == ix.clock + 1
             C == Commit(ix, {}, new)
             New(n) == [id |-> n.id, val |-> n.val, label |-> n.label, from |-> ts, to |-> Forever]
  <1>1. new # {} /\ InsertMany(ix, new) = C
    BY DEF NewIds, InsertMany
  <1>0. \A k : Row(k, 0, {}).id = k /\ Row(k, 0, {}).val = 0 /\ Row(k, 0, {}).label = {}
    BY DEF Row
  <1>2. RowIds(new) = ids
    BY <1>0 DEF RowIds, NewIds
  <1>3. C = [clock |-> ts,
             rows |-> {IF v \in OpenRows(ix) /\ v.id \in ids THEN Ended(v, ts) ELSE v :
                         v \in ix.rows} \cup {New(n) : n \in new}]
    BY <1>2 DEF Commit, Ended
  <1>4. ix.clock \in Nat /\ ts \in Nat /\ ix.clock < ts /\ ts \in ix.clock + 1..ts /\ Forever \in Nat
    BY RowFacts, Limits
  <1>5. ASSUME NEW n \in new
        PROVE  New(n) \in Versions /\ New(n).id = n.id /\ n.id \in ids /\ New(n).from = ts /\ New(n).to = Forever
    <2>1. PICK k \in ids : n = Row(k, 0, {})
      BY DEF NewIds
    <2>2. n.id = k /\ n.val = 0 /\ n.label = {}
      BY <2>1, <1>0
    <2> HIDE DEF ts
    <2> QED
      BY <2>2, <1>4 DEF Versions
  <1>6. \A k \in ids : \E n \in new : n.id = k
    BY <1>0 DEF NewIds
  <1>7. C.clock = ts /\ C = [clock |-> C.clock, rows |-> C.rows]
    BY <1>3
  <1>8. ASSUME NEW v \in ix.rows
        PROVE  IF v.to = Forever /\ v.id \in ids THEN Ended(v, ts) \in C.rows
               ELSE v \in C.rows
    BY <1>3 DEF OpenRows
  <1>9. ASSUME NEW r \in C.rows
        PROVE  \/ r \in ix.rows /\ ~(r.to = Forever /\ r.id \in ids)
               \/ \E v \in ix.rows : v.to = Forever /\ v.id \in ids /\ r = Ended(v, ts)
               \/ \E n \in new : r = New(n)
    BY <1>3 DEF OpenRows
  <1>10. \A n \in new : New(n) \in C.rows
    BY <1>3
  <1> HIDE DEF C, New, ts, new
  <1>11. Advanced(ix, C, ids, ids)
    <2>1. \A v \in ix.rows :
            IF v.to = Forever /\ v.id \in ids
            THEN \E at \in ix.clock + 1..C.clock : Ended(v, at) \in C.rows
            ELSE v \in C.rows
      <3>1. ts \in ix.clock + 1..C.clock
        BY <1>4, <1>7
      <3> QED
        BY <3>1, <1>8
    <2>2. ASSUME NEW r \in C.rows
          PROVE  \/ r \in ix.rows /\ ~(r.to = Forever /\ r.id \in ids)
                 \/ \E v \in ix.rows : \E at \in ix.clock + 1..C.clock :
                      v.to = Forever /\ v.id \in ids /\ r = Ended(v, at)
                 \/ r \in Versions /\ r.id \in ids /\ r.from = C.clock /\ r.to = Forever
      <3>1. CASE \E v \in ix.rows : v.to = Forever /\ v.id \in ids /\ r = Ended(v, ts)
        BY <3>1, <1>4, <1>7
      <3>2. CASE \E n \in new : r = New(n)
        BY <3>2, <1>5, <1>7
      <3> QED
        BY <3>1, <3>2, <1>9
    <2>3. \A k \in ids : \E r \in C.rows : r.id = k /\ r.from = C.clock /\ r.to = Forever
      BY <1>5, <1>6, <1>7, <1>10
    <2> QED
      BY <2>1, <2>2, <2>3, <1>4, <1>7 DEF Advanced
  <1> QED
    BY <1>1, <1>6, <1>7, <1>10, <1>11 DEF new, ts

\* delete_many of distinct open ids: a commit each.
LEMMA AtTheTop ==
  ASSUME NEW m \in Nat, NEW n \in 0..m, ~(n < m)
  PROVE  n = m
  OBVIOUS

LEMMA AllRemoved ==
  ASSUME NEW ix, NEW ids \in Seq(Keys), Distinct(ids), {ids[k] : k \in DOMAIN ids} \subseteq OpenIds(ix)
  PROVE  RemovedCount(ix, ids) = Len(ids)
  <1>1. DOMAIN ids = 1..Len(ids) /\ Len(ids) \in Nat
    OBVIOUS
  <1>2. \A n \in 0..Len(ids) : Removable(ix, ids, n)
    BY <1>1 DEF Removable, Distinct
  <1> DEFINE R(n) == Removable(ix, ids, n) /\ (n < Len(ids) => ~Removable(ix, ids, n + 1))
  <1>3. ASSUME NEW n \in 0..Len(ids), R(n)
        PROVE  n = Len(ids)
    <2>1. CASE n < Len(ids)
      <3>1. n + 1 \in 0..Len(ids)
        BY <1>1, <2>1
      <3> QED
        BY <3>1, <2>1, <1>2, <1>3
    <2> QED
      BY <2>1, <1>1, AtTheTop
  <1>4. R(Len(ids)) /\ Len(ids) \in 0..Len(ids)
    BY <1>1, <1>2
  <1> HIDE DEF R
  <1>5. (CHOOSE n \in 0..Len(ids) : R(n)) = Len(ids)
    BY <1>3, <1>4
  <1> QED
    BY <1>5 DEF R, RemovedCount

LEMMA DeleteAdvances ==
  ASSUME NEW ix, IndexSound(ix), NEW ids \in Seq(Keys), Len(ids) > 0, Distinct(ids),
         {ids[k] : k \in DOMAIN ids} \subseteq OpenIds(ix)
  PROVE  /\ Advanced(ix, DeleteMany(ix, ids), {ids[k] : k \in DOMAIN ids}, {})
         /\ DeleteMany(ix, ids).clock = ix.clock + Len(ids)
         /\ \E r \in DeleteMany(ix, ids).rows : r.to = ix.clock + Len(ids)
  <1> DEFINE n == Len(ids)
             gone == {ids[k] : k \in DOMAIN ids}
             At(v) == {k \in 1..n : ids[k] = v.id}
             End(v) == ix.clock + CHOOSE k \in At(v) : TRUE
             D == DeleteMany(ix, ids)
             After(v) == IF v \in OpenRows(ix) /\ At(v) # {} THEN Ended(v, End(v)) ELSE v
  <1>1. RemovedCount(ix, ids) = n /\ DOMAIN ids = 1..n /\ n \in Nat /\ n > 0 /\ ix.clock \in Nat
    BY AllRemoved, RowFacts
  <1>2. D = [clock |-> ix.clock + n, rows |-> {After(v) : v \in ix.rows}]
    BY <1>1 DEF DeleteMany, Ended
  <1>3. \A v : At(v) # {} <=> v.id \in gone
    BY <1>1
  <1>4. ASSUME NEW v, v.id \in gone
        PROVE  End(v) \in ix.clock + 1..ix.clock + n
    <2>1. (CHOOSE k \in At(v) : TRUE) \in At(v)
      BY <1>4, <1>3
    <2>2. (CHOOSE k \in At(v) : TRUE) \in 1..n
      BY <2>1
    <2> QED
      BY <2>2, <1>1
  <1>5. \E v \in ix.rows : v.to = Forever /\ v.id = ids[n]
    <2>1. ids[n] \in OpenIds(ix)
      BY <1>1
    <2> QED
      BY <2>1 DEF OpenIds, OpenRows
  <1>6. ASSUME NEW v, v.id = ids[n]
        PROVE  End(v) = ix.clock + n /\ v.id \in gone
    <2>1. At(v) = {n}
      BY <1>1, <1>6 DEF Distinct
    <2> QED
      BY <2>1, <1>1, <1>6
  <1>a. ASSUME NEW v \in ix.rows
        PROVE  After(v) = IF v.to = Forever /\ v.id \in gone THEN Ended(v, End(v)) ELSE v
    <2>1. v \in OpenRows(ix) /\ At(v) # {} <=> v.to = Forever /\ v.id \in gone
      BY <1>3 DEF OpenRows
    <2> HIDE DEF n, At, End, gone
    <2> QED
      BY <2>1
  <1> HIDE DEF n, At, End, gone, After
  <1>b. \A v \in ix.rows : After(v) \in D.rows
    BY <1>2
  <1>7. D.clock = ix.clock + n /\ D = [clock |-> D.clock, rows |-> D.rows]
    BY <1>2
  <1>8. ASSUME NEW v \in ix.rows
        PROVE  IF v.to = Forever /\ v.id \in gone THEN Ended(v, End(v)) \in D.rows
               ELSE v \in D.rows
    BY <1>a, <1>b
  <1>9. ASSUME NEW r \in D.rows
        PROVE  \/ r \in ix.rows /\ ~(r.to = Forever /\ r.id \in gone)
               \/ \E v \in ix.rows : v.to = Forever /\ v.id \in gone /\ r = Ended(v, End(v))
    BY <1>2, <1>a
  <1> HIDE DEF D
  <1>10. Advanced(ix, D, gone, {})
    <2>1. ASSUME NEW v \in ix.rows
          PROVE  IF v.to = Forever /\ v.id \in gone
                 THEN \E at \in ix.clock + 1..D.clock : Ended(v, at) \in D.rows
                 ELSE v \in D.rows
      BY <1>4, <1>7, <1>8
    <2>2. ASSUME NEW r \in D.rows
          PROVE  \/ r \in ix.rows /\ ~(r.to = Forever /\ r.id \in gone)
                 \/ \E v \in ix.rows : \E at \in ix.clock + 1..D.clock :
                      v.to = Forever /\ v.id \in gone /\ r = Ended(v, at)
      BY <1>4, <1>7, <1>9
    <2>3. D.clock \in Nat /\ ix.clock < D.clock
      BY <1>1, <1>7
    <2> QED
      BY <2>1, <2>2, <2>3, <1>7 DEF Advanced
  <1>11. \E r \in D.rows : r.to = ix.clock + n
    <2>1. PICK v \in ix.rows : v.to = Forever /\ v.id = ids[n]
      BY <1>5
    <2>2. Ended(v, ix.clock + n) \in D.rows
      BY <2>1, <1>6, <1>8
    <2>3. v \in Versions /\ ix.clock + n \in Nat
      BY <1>1, <2>1, RowFacts
    <2>4. Ended(v, ix.clock + n).to = ix.clock + n
      BY <2>3, EndedRow
    <2> QED
      BY <2>2, <2>4
  <1> QED
    BY <1>7, <1>10, <1>11 DEF D, gone, n

\* vacuum takes versions that ended before the horizon.
LEMMA VacuumFacts ==
  ASSUME NEW ix, IndexSound(ix), NEW oldest \in Nat, oldest <= ix.clock + 1
  PROVE  /\ IndexSound(Vacuum(ix, oldest)) /\ Vacuum(ix, oldest).clock = ix.clock
         /\ Vacuum(ix, oldest).rows = {v \in ix.rows : v.to >= oldest}
         /\ OpenIds(Vacuum(ix, oldest)) = OpenIds(ix)
         /\ \A s \in Nat : oldest <= s \/ ix.clock <= s =>
              AsOf(Vacuum(ix, oldest), s) = AsOf(ix, s)
  <1>1. Vacuum(ix, oldest) = [clock |-> ix.clock, rows |-> {v \in ix.rows : v.to >= oldest}]
    BY DEF Vacuum, IndexSound
  <1>2. \A v \in ix.rows : v.from \in Nat /\ v.to \in Nat /\ (v.to <= ix.clock \/ v.to = Forever)
    BY RowFacts
  <1>3. ix.clock < Forever /\ ix.clock \in Nat /\ Forever \in Nat
    BY RowFacts, Limits
  <1>4. IndexSound(Vacuum(ix, oldest))
    BY <1>1 DEF IndexSound
  <1>5. OpenIds(Vacuum(ix, oldest)) = OpenIds(ix)
    BY <1>1, <1>3 DEF OpenIds, OpenRows
  <1>6. \A s \in Nat : oldest <= s \/ ix.clock <= s =>
              AsOf(Vacuum(ix, oldest), s) = AsOf(ix, s)
    BY <1>1, <1>2, <1>3 DEF AsOf
  <1> QED
    BY <1>1, <1>4, <1>5, <1>6

-----------------------------------------------------------------------------
(* Versions of the metadata.                                               *)

\* A nonempty set of natural numbers has a least element.
LEMMA LeastNat ==
  ASSUME NEW S \in SUBSET Nat, S # {}
  PROVE  \E m \in S : \A n \in S : m <= n
  <1>1. PICK m \in S : \A n \in S : ~(<<n, m>> \in OpToRel(<, Nat))
    BY NatLessThanWellFounded, WFMin
  <1>2. \A n \in S : ~(n < m)
    BY <1>1 DEF OpToRel
  <1> QED
    BY <1>2

\* A place with none after it in S is the last of S.
LEMMA LastIs ==
  ASSUME NEW S \in SUBSET Nat, NEW n \in S, \A m \in S : m <= n
  PROVE  LastOf(S) = n
  <1> DEFINE L(x) == \A m \in S : m <= x
  <1>1. \A x \in S : L(x) => x = n
    OBVIOUS
  <1>2. L(n)
    OBVIOUS
  <1> HIDE DEF L
  <1>3. (CHOOSE x \in S : L(x)) = n
    BY <1>1, <1>2
  <1> QED
    BY <1>3 DEF L, LastOf

\* A nonempty set of places has a last one.
LEMMA LastExists ==
  ASSUME NEW k \in Nat, NEW S \in SUBSET (1..k), S # {}
  PROVE  LastOf(S) \in S /\ \A m \in S : m <= LastOf(S)
  <1> DEFINE T == {k - n : n \in S}
  <1>1. \A n \in S : n \in Nat /\ n <= k /\ k - n \in Nat
    OBVIOUS
  <1>2. T \in SUBSET Nat /\ T # {}
    BY <1>1
  <1>3. PICK m \in T : \A j \in T : m <= j
    BY <1>2, LeastNat
  <1>4. PICK n \in S : m = k - n
    OBVIOUS
  <1>5. \A j \in S : k - n <= k - j
    BY <1>3, <1>4
  <1>6. \A j \in S : j <= n
    BY <1>1, <1>5
  <1> QED
    BY <1>1, <1>6, LastIs

LEMMA UpToFacts ==
  ASSUME NEW h \in Seq(Version), NEW s \in Nat, UpTo(h, s) # {}
  PROVE  /\ LastOf(UpTo(h, s)) \in 1..Len(h) /\ h[LastOf(UpTo(h, s))].stamp <= s
         /\ \A m \in 1..Len(h) : h[m].stamp <= s => m <= LastOf(UpTo(h, s))
  <1>1. Len(h) \in Nat /\ UpTo(h, s) = {n \in 1..Len(h) : h[n].stamp <= s}
    BY DEF UpTo
  <1>2. UpTo(h, s) \in SUBSET (1..Len(h))
    BY <1>1
  <1>3. LastOf(UpTo(h, s)) \in UpTo(h, s) /\ \A m \in UpTo(h, s) : m <= LastOf(UpTo(h, s))
    BY <1>1, <1>2, LastExists
  <1> QED
    BY <1>1, <1>3

\* The place a reader at s takes.
LEMMA UpToIs ==
  ASSUME NEW h \in Seq(Version), NEW s \in Nat, NEW n \in 1..Len(h), h[n].stamp <= s,
         \A m \in 1..Len(h) : h[m].stamp <= s => m <= n
  PROVE  h # <<>> /\ MetaAt(h, s) = h[n].meta
  <1>1. Len(h) \in Nat /\ UpTo(h, s) = {m \in 1..Len(h) : h[m].stamp <= s}
    BY DEF UpTo
  <1>2. UpTo(h, s) \in SUBSET Nat /\ n \in UpTo(h, s) /\ \A m \in UpTo(h, s) : m <= n
    BY <1>1
  <1>3. LastOf(UpTo(h, s)) = n
    BY <1>2, LastIs
  <1>4. h # <<>> /\ UpTo(h, s) # {}
    BY <1>2
  <1> QED
    BY <1>3, <1>4 DEF MetaAt

LEMMA StampsAreNat ==
  ASSUME NEW h \in Seq(Version)
  PROVE  \A n \in 1..Len(h) : h[n] \in Version /\ h[n].stamp \in Nat /\ h[n].meta \in Metas \cup {NoMeta}
  <1>1. \A n \in 1..Len(h) : h[n] \in Version
    OBVIOUS
  <1> QED
    BY <1>1 DEF Version

LEMMA MetaIs ==
  ASSUME NEW h \in Seq(Version), NEW s
  PROVE  MetaNow(h, s) \in Metas \cup {NoMeta}
  <1>1. CASE h = <<>>
    BY <1>1 DEF MetaNow
  <1>2. CASE h # <<>>
    <2>1. Len(h) \in 1..Len(h)
      BY <1>2
    <2>2. h[Len(h)].meta \in Metas \cup {NoMeta}
      BY <2>1, StampsAreNat
    <2> QED
      BY <1>2, <2>2 DEF MetaNow, Newest
  <1> QED
    BY <1>1, <1>2

\* A reader of the present reads the newest version.
LEMMA MetaAtNow ==
  ASSUME NEW h \in Seq(Version), NEW s \in Nat, \A n \in DOMAIN h : h[n].stamp <= s
  PROVE  MetaAt(h, s) = MetaNow(h, s)
  <1>1. CASE h = <<>>
    BY <1>1 DEF MetaAt, MetaNow
  <1>2. CASE h # <<>>
    <2>1. Len(h) \in 1..Len(h) /\ DOMAIN h = 1..Len(h) /\ \A m \in 1..Len(h) : m <= Len(h)
      BY <1>2
    <2>2. MetaAt(h, s) = h[Len(h)].meta
      BY <2>1, UpToIs
    <2> QED
      BY <1>2, <2>2 DEF MetaNow, Newest
  <1> QED
    BY <1>1, <1>2

\* A version with a later stamp changes no earlier answer.
LEMMA MetaAtAppend ==
  ASSUME NEW h \in Seq(Version), h # <<>>, NEW s \in Nat, NEW v \in Version, s < v.stamp
  PROVE  MetaAt(Append(h, v), s) = MetaAt(h, s)
  <1> DEFINE g == Append(h, v)
  <1>1. Len(h) \in Nat /\ Len(h) > 0 /\ DOMAIN h = 1..Len(h) /\ DOMAIN g = 1..Len(h) + 1
        /\ g[Len(h) + 1] = v /\ \A n \in 1..Len(h) : g[n] = h[n]
    OBVIOUS
  <1>2. v.stamp \in Nat /\ ~(v.stamp <= s)
    BY DEF Version
  <1>3. UpTo(g, s) = UpTo(h, s)
    BY <1>1, <1>2 DEF UpTo
  <1>4. g # <<>> /\ g[1] = h[1]
    BY <1>1
  <1>5. CASE UpTo(h, s) = {}
    BY <1>3, <1>4, <1>5 DEF MetaAt
  <1>6. CASE UpTo(h, s) # {}
    <2>1. LastOf(UpTo(h, s)) \in 1..Len(h)
      BY <1>6, UpToFacts
    <2>2. g[LastOf(UpTo(h, s))] = h[LastOf(UpTo(h, s))]
      BY <2>1, <1>1
    <2> QED
      BY <1>3, <1>4, <1>6, <2>2 DEF MetaAt
  <1> QED
    BY <1>5, <1>6

\* What pruning keeps: the newest version a reader at the horizon takes, and
\* all after it.
LEMMA PrunedIs ==
  ASSUME NEW h \in Seq(Version), NEW oldest \in Nat
  PROVE  /\ Pruned(h, oldest) \in Seq(Version)
         /\ h # <<>> <=> Pruned(h, oldest) # <<>>
         /\ \A n \in DOMAIN Pruned(h, oldest) : \E m \in DOMAIN h : Pruned(h, oldest)[n] = h[m]
         /\ MetaNow(Pruned(h, oldest), 0) = MetaNow(h, 0)
         /\ Cardinality(UpTo(Pruned(h, oldest), oldest)) <= 1
         /\ \A s \in Nat : UpTo(h, oldest) \subseteq UpTo(h, s) =>
              MetaAt(Pruned(h, oldest), s) = MetaAt(h, s)
  <1>1. DOMAIN h = 1..Len(h) /\ Len(h) \in Nat
    OBVIOUS
  <1>2. CASE UpTo(h, oldest) = {}
    <2>1. Pruned(h, oldest) = h
      BY <1>2 DEF Pruned
    <2>2. Cardinality({}) = 0
      BY FS_EmptySet
    <2>3. Cardinality(UpTo(h, oldest)) <= 1
      BY <1>2, <2>2
    <2> QED
      BY <2>1, <2>3
  <1>3. CASE UpTo(h, oldest) # {}
    <2> DEFINE L == LastOf(UpTo(h, oldest))
               g == SubSeq(h, L, Len(h))
               k == Len(h) - L + 1
    <2>1. L \in 1..Len(h) /\ h[L].stamp <= oldest /\ \A m \in 1..Len(h) : h[m].stamp <= oldest => m <= L
      BY <1>3, UpToFacts
    <2>2. Pruned(h, oldest) = g
      BY <1>3 DEF Pruned
    <2> HIDE DEF L
    <2>3. g \in Seq(Version) /\ Len(g) = k /\ \A n \in 1..k : g[n] = h[L + n - 1]
      BY <2>1, <1>1, SubSeqProperties
    <2>4. k \in Nat /\ k >= 1 /\ k = Len(h) - L + 1 /\ L \in Nat /\ L >= 1 /\ L <= Len(h)
      BY <2>1, <1>1
    <2> HIDE DEF g, k
    <2>5. DOMAIN g = 1..k /\ g # <<>>
      BY <2>3, <2>4
    <2>6. \A n \in 1..k : L + n - 1 \in 1..Len(h)
      BY <2>4, <1>1
    <2>7. UpTo(g, oldest) \subseteq {1}
      <3>1. ASSUME NEW n \in 1..k, g[n].stamp <= oldest
            PROVE  n = 1
        <4>1. L + n - 1 <= L
          BY <3>1, <2>1, <2>3, <2>6
        <4> QED
          BY <4>1, <2>4
      <3> QED
        BY <3>1, <2>5 DEF UpTo
    <2>8. Cardinality(UpTo(g, oldest)) <= 1
      <3>1. IsFiniteSet({1}) /\ Cardinality({1}) = 1
        BY FS_Singleton
      <3>2. Cardinality(UpTo(g, oldest)) <= Cardinality({1})
        BY <3>1, <2>7, FS_Subset
      <3> QED
        BY <3>1, <3>2
    <2>9. MetaNow(g, 0) = MetaNow(h, 0)
      <3>1. k \in 1..k /\ L + k - 1 = Len(h)
        BY <2>4, <1>1
      <3>2. g[Len(g)] = h[Len(h)]
        BY <3>1, <2>3
      <3>3. h # <<>>
        BY <2>4, <1>1
      <3> QED
        BY <3>2, <3>3, <2>5 DEF MetaNow, Newest
    <2>10. ASSUME NEW s \in Nat, UpTo(h, oldest) \subseteq UpTo(h, s)
           PROVE  MetaAt(g, s) = MetaAt(h, s)
      <3> DEFINE M == LastOf(UpTo(h, s))
      <3>1. L \in UpTo(h, s)
        BY <2>10, <2>1, <1>1 DEF UpTo
      <3>2. /\ M \in 1..Len(h) /\ h[M].stamp <= s
            /\ \A m \in 1..Len(h) : h[m].stamp <= s => m <= M
        BY <3>1, UpToFacts
      <3>3. h[L].stamp <= s
        BY <3>1 DEF UpTo
      <3> HIDE DEF M
      <3>4. L <= M /\ M \in Nat /\ M <= Len(h)
        BY <3>2, <3>3, <2>1, <1>1
      <3> DEFINE n == M - L + 1
      <3>5. n \in 1..k /\ L + n - 1 = M
        BY <3>4, <2>4, <1>1
      <3>6. g[n] = h[M]
        BY <3>5, <2>3
      <3>7. ASSUME NEW j \in 1..k, g[j].stamp <= s
            PROVE  j <= n
        <4>1. L + j - 1 <= M
          BY <3>7, <2>3, <2>6, <3>2
        <4> QED
          BY <4>1, <3>4, <2>4
      <3> HIDE DEF n
      <3>8. MetaAt(g, s) = h[M].meta
        <4>1. n \in 1..Len(g) /\ g[n].stamp <= s /\ \A j \in 1..Len(g) : g[j].stamp <= s => j <= n
          BY <3>2, <3>5, <3>6, <3>7, <2>3
        <4>2. MetaAt(g, s) = g[n].meta
          <5>1. g \in Seq(Version)
            BY <2>3
          <5> QED
            BY <4>1, <5>1, UpToIs
        <4> QED
          BY <4>2, <3>6
      <3>9. MetaAt(h, s) = h[M].meta
        BY <3>2, UpToIs
      <3> QED
        BY <3>8, <3>9
    <2>11. \A n \in DOMAIN g : \E m \in DOMAIN h : g[n] = h[m]
      BY <2>3, <2>5, <2>6, <1>1
    <2>12. h # <<>>
      BY <2>4, <1>1
    <2> QED
      BY <2>2, <2>3, <2>5, <2>8, <2>9, <2>10, <2>11, <2>12
  <1> QED
    BY <1>2, <1>3

-----------------------------------------------------------------------------
(* Answers.                                                                *)

\* What an index shows right after a call.
LEMMA AdvancedNow ==
  ASSUME NEW ix, NEW iy, NEW gone, NEW new, IndexSound(ix), Advanced(ix, iy, gone, new),
         iy.clock <= MaxClock
  PROVE  Visible(iy, iy.clock) = {p \in Visible(ix, ix.clock) : p[1] \notin gone}
                                 \cup {<<k, iy.clock>> : k \in new}
  <1>1. IndexSound(iy)
    BY AdvancedFacts
  <1>2. AsOf(iy, iy.clock) = OpenRows(iy) /\ AsOf(ix, ix.clock) = OpenRows(ix)
    BY <1>1, AsOfNow
  <1>3. iy.clock < Forever /\ iy.clock \in Nat /\ Forever \in Nat
    BY <1>1, RowFacts, Limits
  <1>4. ASSUME NEW r \in iy.rows, r.to = Forever
        PROVE  (r \in ix.rows /\ r.id \notin gone) \/ (r.id \in new /\ r.from = iy.clock)
    <2>1. \/ r \in ix.rows /\ (r.to = Forever => r.id \notin gone)
          \/ ix.clock < r.to /\ r.to <= iy.clock
          \/ r.id \in new /\ r.from = iy.clock /\ r.to = Forever
      BY AdvancedRow
    <2> QED
      BY <2>1, <1>3, <1>4
  <1>5. ASSUME NEW v \in ix.rows, v.to = Forever, v.id \notin gone
        PROVE  v \in iy.rows
    BY <1>5 DEF Advanced
  <1>6. \A k \in new : \E r \in iy.rows : r.id = k /\ r.from = iy.clock /\ r.to = Forever
    BY DEF Advanced
  <1>7. ASSUME NEW a, NEW b
        PROVE  (\E r \in iy.rows : r.to = Forever /\ r.id = a /\ r.from = b)
                 <=> \/ a \notin gone /\ \E v \in ix.rows : v.to = Forever /\ v.id = a /\ v.from = b
                     \/ a \in new /\ b = iy.clock
    BY <1>4, <1>5, <1>6
  <1>8. /\ Visible(iy, iy.clock) = {<<v.id, v.from>> : v \in OpenRows(iy)}
        /\ Visible(ix, ix.clock) = {<<v.id, v.from>> : v \in OpenRows(ix)}
    BY <1>2 DEF Visible
  <1>9. ASSUME NEW p \in Visible(iy, iy.clock)
        PROVE  (p \in Visible(ix, ix.clock) /\ p[1] \notin gone) \/ \E k \in new : p = <<k, iy.clock>>
    <2>1. PICK r \in iy.rows : r.to = Forever /\ p = <<r.id, r.from>>
      BY <1>8 DEF OpenRows
    <2> QED
      BY <2>1, <1>4, <1>8 DEF OpenRows
  <1>10. ASSUME NEW p \in Visible(ix, ix.clock), p[1] \notin gone
         PROVE  p \in Visible(iy, iy.clock)
    <2>1. PICK v \in ix.rows : v.to = Forever /\ p = <<v.id, v.from>>
      BY <1>8 DEF OpenRows
    <2> QED
      BY <2>1, <1>5, <1>10, <1>8 DEF OpenRows
  <1>11. ASSUME NEW k \in new
         PROVE  <<k, iy.clock>> \in Visible(iy, iy.clock)
    <2>1. PICK r \in iy.rows : r.id = k /\ r.from = iy.clock /\ r.to = Forever
      BY <1>6
    <2> QED
      BY <2>1, <1>8 DEF OpenRows
  <1> QED
    BY <1>9, <1>10, <1>11

\* A hit is told by the vector's id and first timestamp.
HitOf(p, hist, s) ==
  [id |-> p[1], vector |-> p[2], meta |-> MetaAt(hist[p[1]], s), named |-> hist[p[1]] # <<>>]

LEMMA QueryIs ==
  ASSUME NEW ix, NEW hist, NEW s
  PROVE  /\ Query(ix, hist, s) = {HitOf(p, hist, s) : p \in Visible(ix, s)}
         /\ (\A v \in AsOf(ix, s) : hist[v.id] # <<>>)
              <=> \A p \in Visible(ix, s) : hist[p[1]] # <<>>
  <1>1. \A v : HitOf(<<v.id, v.from>>, hist, s) = Hit(v, hist[v.id], MetaAt(hist[v.id], s))
    BY DEF HitOf, Hit
  <1>2. Query(ix, hist, s) = {HitOf(p, hist, s) : p \in Visible(ix, s)}
    BY <1>1 DEF Query, Visible
  <1>3. \A v : <<v.id, v.from>>[1] = v.id
    OBVIOUS
  <1>4. (\A v \in AsOf(ix, s) : hist[v.id] # <<>>) <=> \A p \in Visible(ix, s) : hist[p[1]] # <<>>
    BY <1>3 DEF Visible
  <1> QED
    BY <1>2, <1>4

\* Two indexes that show the same, and two sidecars that name and dress what
\* they show alike, give one answer.
LEMMA SameAnswer ==
  ASSUME NEW ix, NEW iy, NEW hist, NEW hist2, NEW s, Visible(ix, s) = Visible(iy, s),
         \A v \in AsOf(ix, s) : /\ hist[v.id] # <<>> /\ hist2[v.id] # <<>>
                                /\ MetaAt(hist[v.id], s) = MetaAt(hist2[v.id], s)
  PROVE  /\ Query(ix, hist, s) = Query(iy, hist2, s)
         /\ \A v \in AsOf(iy, s) : hist2[v.id] # <<>>
  <1>1. \A p \in Visible(ix, s) : /\ hist[p[1]] # <<>> /\ hist2[p[1]] # <<>>
                                  /\ MetaAt(hist[p[1]], s) = MetaAt(hist2[p[1]], s)
    BY DEF Visible
  <1>2. \A p \in Visible(ix, s) : HitOf(p, hist, s) = HitOf(p, hist2, s)
    BY <1>1 DEF HitOf
  <1>3. Query(ix, hist, s) = {HitOf(p, hist, s) : p \in Visible(ix, s)}
    BY QueryIs
  <1>4. Query(iy, hist2, s) = {HitOf(p, hist2, s) : p \in Visible(ix, s)}
    BY QueryIs
  <1>5. \A v \in AsOf(iy, s) : hist2[v.id] # <<>>
    BY <1>1, QueryIs
  <1> QED
    BY <1>2, <1>3, <1>4, <1>5

\* When the open ids are the live ones, the present is what a snapshot of the
\* clock gives, and get() agrees with it.
LEMMA AtRestAgree ==
  ASSUME NEW ix, IndexSound(ix), NEW hist \in [Keys -> Seq(Version)],
         \A k \in Keys : \A n \in DOMAIN hist[k] : hist[k][n].stamp <= ix.clock,
         NEW alive, OpenIds(ix) = alive, \A k \in alive : hist[k] # <<>>
  PROVE  /\ Query(ix, hist, ix.clock) = QueryLatest(ix, hist)
         /\ \A v \in AsOf(ix, ix.clock) : hist[v.id] # <<>>
         /\ Get(alive, hist) = {[id |-> hit.id, meta |-> hit.meta] : hit \in QueryLatest(ix, hist)}
         /\ \A hit \in QueryLatest(ix, hist) : hit.named
  <1>1. AsOf(ix, ix.clock) = OpenRows(ix) /\ ix.clock \in Nat /\ \A v \in ix.rows : v.id \in Keys
    BY AsOfNow, RowFacts
  <1>2. \A v \in AsOf(ix, ix.clock) : v.id \in Keys /\ v.id \in alive
    BY <1>1 DEF OpenIds, OpenRows
  <1>3. \A k \in Keys : MetaAt(hist[k], ix.clock) = MetaNow(hist[k], ix.clock)
    BY <1>1, MetaAtNow
  <1>4. Query(ix, hist, ix.clock) = QueryLatest(ix, hist)
    BY <1>2, <1>3 DEF Query, QueryLatest
  <1>5. \A v \in AsOf(ix, ix.clock) : hist[v.id] # <<>>
    BY <1>2
  <1>6. \A k \in alive : \E v \in AsOf(ix, ix.clock) : v.id = k
    BY <1>1 DEF OpenIds
  <1>7. \A h : MetaNow(h, ix.clock) = MetaNow(h, 0)
    BY DEF MetaNow
  <1> DEFINE H(v) == Hit(v, hist[v.id], MetaNow(hist[v.id], ix.clock))
  <1>8. QueryLatest(ix, hist) = {H(v) : v \in AsOf(ix, ix.clock)}
    BY DEF QueryLatest
  <1>9. \A v \in AsOf(ix, ix.clock) :
          H(v).id = v.id /\ H(v).meta = MetaNow(hist[v.id], 0) /\ H(v).named
    BY <1>5, <1>7 DEF Hit
  <1> HIDE DEF H
  <1>10. Get(alive, hist) = {[id |-> hit.id, meta |-> hit.meta] : hit \in QueryLatest(ix, hist)}
    BY <1>2, <1>6, <1>8, <1>9 DEF Get
  <1> QED
    BY <1>4, <1>5, <1>8, <1>9, <1>10

-----------------------------------------------------------------------------
(* The steps of one caller.                                                *)

\* What a step of a call leaves in its place.
LEMMA Continues ==
  ASSUME NEW t, Threads = {t}, call = [u \in Threads |-> call[t]], NEW x, call' = [call EXCEPT ![t] = x]
  PROVE  /\ call' = [u \in Threads |-> call'[t]] /\ call'[t] = x
         /\ AtRest' <=> x.pc = "idle"
  <1>1. call' = [u \in Threads |-> x] /\ call'[t] = x
    OBVIOUS
  <1> QED
    BY <1>1 DEF AtRest

\* What callers are told, and when.
LEMMA Observed ==
  ASSUME seen = [s \in 0..MaxClock |-> seen[s]], Observe, eng'.clock \in 0..MaxClock
  PROVE  /\ seen' = [s \in 0..MaxClock |-> seen'[s]]
         /\ ~AtRest' => seen' = seen
         /\ AtRest' => seen'[eng'.clock] = QueryLatest(eng', history')
         /\ \A s \in 0..MaxClock : s # eng'.clock => seen'[s] = seen[s]
  BY DEF Observe

LEMMA ClockFacts ==
  ASSUME IndexSound(eng)
  PROVE  /\ eng.clock \in Nat /\ MaxClock \in Nat /\ Forever \in Nat /\ Forever # eng.clock
         /\ eng.clock <= MaxClock /\ MaxClock < Forever /\ eng.clock \in 0..MaxClock
  BY Limits DEF IndexSound

\* A call starts: the engine and the sidecar stay, and what it will do is
\* within its bounds.
LEMMA StartSound ==
  ASSUME NEW t, Threads = {t}, CollectionInv(t), NEW x, Start(t, x), Observe,
         CallSound(x), x.pc \notin {"idle", "prune"}, Step(x) \notin {"grow", "retry", "record", "forget"},
         x.pc # "grow", eng.clock + Left(x) <= MaxClock, Expected(x) \subseteq live
  PROVE  CollectionInv(t)'
  <1> DEFINE c == call[t]
  <1>1. /\ c.pc = "idle" /\ growth = "fine" /\ call' = [call EXCEPT ![t] = x]
        /\ UNCHANGED <<eng, wal, capacity, growth, history, live, deletedAt, floor>>
    BY DEF Start, index, sidecar
  <1>2. Sound(c) /\ TypeOK /\ floor \in Nat
    BY <1>1 DEF CollectionInv
  <1>3. Step(c) = "idle" /\ Coming(c) = {} /\ Logged(c) = {} /\ Going(c) = {}
    BY <1>1 DEF Step, Coming, Logged, Going
  <1>4. Coming(x) = {} /\ Logged(x) = {} /\ Going(x) = {}
    BY DEF Coming, Logged, Going
  <1>5. call' = [u \in Threads |-> call'[t]] /\ call'[t] = x /\ ~AtRest'
    BY <1>1, Continues DEF CollectionInv
  <1>6. eng'.clock \in 0..MaxClock
    BY <1>1, <1>2, ClockFacts DEF Sound, EngineFollows
  <1>7. seen' = seen
    BY <1>5, <1>6, Observed DEF CollectionInv
  <1>8. EngineFollows(x)'
    <2>1. /\ IndexSound(eng) /\ IndexSound(wal) /\ OpenIds(eng) = live /\ OpenIds(wal) = live
          /\ wal.clock = eng.clock + 0
      BY <1>1, <1>2, <1>3 DEF Sound, EngineFollows
    <2> QED
      BY <2>1, <1>1, <1>4 DEF EngineFollows, IndexSound
  <1>9. Stamped'
    BY <1>1, <1>2 DEF Sound, Stamped, Named
  <1>10. Buried(x)'
    <2>1. x.pc # "prune" /\ c.pc # "prune" /\ Step(x) # "forget"
      BY <1>1
    <2> QED
      BY <2>1, <1>1, <1>2, <1>3, <1>4 DEF Sound, Buried
  <1>11. Answered(x)'
    BY <1>1, <1>2, <1>7 DEF Sound, Answered
  <1>12. CallSound(x)'
    BY <1>1 DEF CallSound, IsInsert, IsDelete, IsStamp, IsRecord, IsVacuum
  <1>13. TypeOK'
    BY <1>1, <1>2 DEF TypeOK, Named
  <1>14. seen' = [s \in 0..MaxClock |-> seen'[s]] /\ floor' \in Nat /\ growth' = "fine"
    BY <1>1, <1>2, <1>7 DEF CollectionInv
  <1> QED
    BY <1>5, <1>8, <1>9, <1>10, <1>11, <1>12, <1>13, <1>14 DEF CollectionInv, Sound

LEMMA AddSound ==
  ASSUME NEW t, Threads = {t}, CollectionInv(t), Add(t) \/ Update(t), Observe
  PROVE  CollectionInv(t)'
  <1>a. PICK ids \in (SUBSET Keys) \ {{}} : \E metas \in [ids -> Metas] \cup {Carry} :
          Start(t, [pc |-> "insert", ids |-> ids, metas |-> metas])
    BY DEF Add, Update, CollectionInv, TypeOK, Named
  <1>1. PICK metas \in [ids -> Metas] \cup {Carry} :
          Start(t, [pc |-> "insert", ids |-> ids, metas |-> metas])
    BY <1>a
  <1>2. Room(2)
    BY DEF Add, Update
  <1> DEFINE x == [pc |-> "insert", ids |-> ids, metas |-> metas]
  <1>3. x.pc = "insert" /\ x.ids = ids /\ x.metas = metas /\ x = [pc |-> x.pc, ids |-> x.ids, metas |-> x.metas]
    OBVIOUS
  <1> HIDE DEF x
  <1>4. Step(x) = "insert" /\ Left(x) = 2 /\ Expected(x) = {}
    BY <1>3 DEF Step, Left, Expected
  <1>5. CallSound(x)
    BY <1>3 DEF CallSound, IsInsert, ForEach
  <1>6. eng.clock + Left(x) <= MaxClock
    BY <1>2, <1>4 DEF Room
  <1>7. Start(t, x)
    BY <1>1 DEF x
  <1> QED
    BY <1>3, <1>4, <1>5, <1>6, <1>7, StartSound

LEMMA UpdateMetadataSound ==
  ASSUME NEW t, Threads = {t}, CollectionInv(t), UpdateMetadata(t), Observe
  PROVE  CollectionInv(t)'
  <1>a. PICK ids \in (SUBSET live) \ {{}} : \E metas \in [ids -> Metas] :
          Start(t, [pc |-> "stamp", ids |-> ids, metas |-> metas, then |-> "edit"])
    BY DEF UpdateMetadata
  <1>1. PICK metas \in [ids -> Metas] :
          Start(t, [pc |-> "stamp", ids |-> ids, metas |-> metas, then |-> "edit"])
    BY <1>a
  <1> DEFINE x == [pc |-> "stamp", ids |-> ids, metas |-> metas, then |-> "edit"]
  <1>2. /\ x.pc = "stamp" /\ x.ids = ids /\ x.metas = metas /\ x.then = "edit"
        /\ x = [pc |-> x.pc, ids |-> x.ids, metas |-> x.metas, then |-> x.then]
    OBVIOUS
  <1>3. Start(t, x)
    BY <1>1
  <1>4. growth = "fine" /\ ids \in SUBSET Keys
    BY <1>3 DEF Start, CollectionInv, TypeOK, Named
  <1>5. eng.clock \in Nat /\ eng.clock <= MaxClock
    BY <1>4, ClockFacts DEF CollectionInv, Sound, EngineFollows
  <1> HIDE DEF x
  <1>6. Step(x) = "edit" /\ Left(x) = 0 /\ Expected(x) = ids
    BY <1>2 DEF Step, Left, Expected
  <1>7. CallSound(x)
    BY <1>2, <1>4 DEF CallSound, IsStamp, ForEach
  <1>8. eng.clock + Left(x) <= MaxClock
    BY <1>5, <1>6
  <1> QED
    BY <1>2, <1>3, <1>6, <1>7, <1>8, StartSound

LEMMA DeleteRecordsSound ==
  ASSUME NEW t, Threads = {t}, ~RepeatedIds, CollectionInv(t), DeleteRecords(t), Observe
  PROVE  CollectionInv(t)'
  <1>1. PICK where \in {Metas \cup {NoMeta}} \cup {{m} : m \in Metas}, ids \in Sequences(Keys) :
          /\ Distinct(ids)
          /\ {ids[k] : k \in DOMAIN ids} \subseteq Matching(live, where)
          /\ Room(Len(ids))
          /\ Start(t, [pc |-> "delete", ids |-> ids])
    BY DEF DeleteRecords
  <1> DEFINE x == [pc |-> "delete", ids |-> ids]
  <1>2. x.pc = "delete" /\ x.ids = ids /\ x = [pc |-> x.pc, ids |-> x.ids]
    OBVIOUS
  <1>3. Start(t, x)
    BY <1>1
  <1>4. ids \in Seq(Keys) /\ Len(ids) > 0
    <2>1. PICK n \in 1..Cardinality(Keys) + 1 : ids \in [1..n -> Keys]
      BY DEF Sequences
    <2>2. n \in Nat /\ n > 0
      <3>1. Cardinality(Keys) \in Nat
        BY Limits, FS_CardinalityType
      <3> QED
        BY <3>1
    <2> QED
      BY <2>1, <2>2
  <1>5. {ids[k] : k \in DOMAIN ids} \subseteq live
    BY <1>1 DEF Matching
  <1> HIDE DEF x
  <1>6. Step(x) = "delete" /\ Left(x) = Len(ids) /\ Expected(x) = {ids[k] : k \in DOMAIN ids}
    BY <1>2 DEF Step, Left, Expected
  <1>7. CallSound(x)
    BY <1>1, <1>2, <1>4 DEF CallSound, IsDelete
  <1>8. eng.clock + Left(x) <= MaxClock
    BY <1>1, <1>6 DEF Room
  <1>9. Expected(x) \subseteq live
    BY <1>5, <1>6
  <1> QED
    BY <1>2, <1>3, <1>6, <1>7, <1>8, <1>9, StartSound

LEMMA VacuumAllSound ==
  ASSUME NEW t, Threads = {t}, CollectionInv(t), VacuumAll(t), Observe
  PROVE  CollectionInv(t)'
  <1>1. PICK oldest \in 1..eng.clock + 1 : Start(t, [pc |-> "vacuum", oldest |-> oldest])
    BY DEF VacuumAll
  <1> DEFINE x == [pc |-> "vacuum", oldest |-> oldest]
  <1>2. x.pc = "vacuum" /\ x.oldest = oldest /\ x = [pc |-> x.pc, oldest |-> x.oldest]
    OBVIOUS
  <1>3. Start(t, x)
    BY <1>1
  <1>4. growth = "fine"
    BY <1>3 DEF Start
  <1>5. eng.clock \in Nat /\ eng.clock <= MaxClock
    BY <1>4, ClockFacts DEF CollectionInv, Sound, EngineFollows
  <1> HIDE DEF x
  <1>6. Step(x) = "vacuum" /\ Left(x) = 0 /\ Expected(x) = {}
    BY <1>2 DEF Step, Left, Expected
  <1>7. CallSound(x)
    BY <1>1, <1>2 DEF CallSound, IsVacuum
  <1>8. eng.clock + Left(x) <= MaxClock
    BY <1>5, <1>6
  <1> QED
    BY <1>2, <1>3, <1>6, <1>7, <1>8, StartSound

\* The engine and the log make one commit, or one for each id; the sidecar
\* stays.
LEMMA BothCommit ==
  ASSUME TypeOK, floor \in Nat, NEW c, EngineFollows(c), Stamped, Buried(c), Answered(c),
         c.pc \notin {"grow", "prune"}, NEW gone, NEW new, NEW x,
         Advanced(eng, eng', gone, new), Advanced(wal, wal', gone, new),
         eng'.clock = wal'.clock, eng'.clock <= MaxClock,
         UNCHANGED <<history, live, deletedAt, floor, seen>>,
         Logged(c) \subseteq new, \A k \in gone \ new : deletedAt[k] = Forever,
         Logged(x) = new, x.pc \notin {"grow", "prune"},
         Step(x) = "forget" => \A ix \in {eng', wal'} : \E v \in ix.rows : v.to = eng'.clock
  PROVE  /\ IndexSound(eng)' /\ IndexSound(wal)'
         /\ OpenIds(eng)' = (OpenIds(eng) \ gone) \cup new
         /\ OpenIds(wal)' = (OpenIds(wal) \ gone) \cup new
         /\ Stamped' /\ Buried(x)' /\ Answered(x)'
  <1>1. IndexSound(eng) /\ IndexSound(wal) /\ wal.clock = eng.clock
    BY RowFacts DEF EngineFollows
  <1>2. /\ IndexSound(eng') /\ OpenIds(eng') = (OpenIds(eng) \ gone) \cup new
        /\ \A s \in Nat : s <= eng.clock => Visible(eng', s) = Visible(eng, s)
        /\ \A v \in eng.rows : v.to # Forever => v \in eng'.rows
        /\ \A r \in eng'.rows : r.id \notin gone \cup new => r \in eng.rows
    BY <1>1, AdvancedFacts
  <1>3. /\ IndexSound(wal') /\ OpenIds(wal') = (OpenIds(wal) \ gone) \cup new
        /\ \A s \in Nat : s <= wal.clock => Visible(wal', s) = Visible(wal, s)
        /\ \A v \in wal.rows : v.to # Forever => v \in wal'.rows
        /\ \A r \in wal'.rows : r.id \notin gone \cup new => r \in wal.rows
    BY <1>1, AdvancedFacts
  <1>4. eng.clock \in Nat /\ eng'.clock \in Nat /\ eng.clock < eng'.clock /\ MaxClock \in Nat /\ Forever \in Nat
    BY <1>1, RowFacts, Limits DEF Advanced
  <1>5. Visible(eng', eng'.clock) = Visible(wal', wal'.clock)
    <2>1. Visible(eng, eng.clock) = Visible(wal, eng.clock)
      BY <1>4 DEF Answered
    <2>2. /\ Visible(eng', eng'.clock) = {p \in Visible(eng, eng.clock) : p[1] \notin gone}
                                          \cup {<<k, eng'.clock>> : k \in new}
          /\ Visible(wal', wal'.clock) = {p \in Visible(wal, wal.clock) : p[1] \notin gone}
                                          \cup {<<k, wal'.clock>> : k \in new}
      BY <1>1, AdvancedNow
    <2> QED
      BY <2>1, <2>2, <1>1
  <1>6. Stamped'
    <2>1. \A k \in Keys : \A n \in DOMAIN history[k] : history[k][n].stamp \in Nat
      BY StampsAreNat DEF TypeOK
    <2>2. \A k \in Keys : deletedAt[k] \in Nat
      BY <1>4 DEF TypeOK, Stamp
    <2> QED
      BY <2>1, <2>2, <1>4 DEF Stamped, Named
  <1>7. Buried(x)'
    <2>1. \A ix \in {eng', wal'} : \A v \in ix.rows :
            deletedAt[v.id] # Forever /\ v.id \notin new => v.to <= deletedAt[v.id]
      <3>1. \A ix \in {eng, wal} : \A v \in ix.rows :
              deletedAt[v.id] # Forever /\ v.id \notin new => v.to <= deletedAt[v.id]
        BY DEF Buried
      <3> QED
        BY <3>1, <1>2, <1>3
    <2>2. \A k \in Keys : deletedAt[k] # Forever => \E v \in eng'.rows : v.to = deletedAt[k]
      BY <1>2 DEF Buried
    <2>3. \A k \in Keys : deletedAt[k] # Forever => \E v \in wal'.rows : v.to = deletedAt[k]
      BY <1>3 DEF Buried
    <2> QED
      BY <2>1, <2>2, <2>3 DEF Buried
  <1>8. Answered(x)'
    <2>1. floor <= eng'.clock
      BY <1>4 DEF Answered
    <2>2. \A s \in floor..eng'.clock :
            s = eng'.clock \/ seen[s] # NotSeen => Visible(eng', s) = Visible(wal', s)
      <3>1. ASSUME NEW s \in floor..eng'.clock, s # eng'.clock, seen[s] # NotSeen
            PROVE  Visible(eng', s) = Visible(wal', s)
        <4>1. s \in floor..eng.clock /\ s \in Nat /\ s <= eng.clock
          BY <3>1, <1>4, Limits DEF Answered
        <4>2. Visible(eng, s) = Visible(wal, s)
          BY <3>1, <4>1 DEF Answered
        <4> QED
          BY <4>1, <4>2, <1>1, <1>2, <1>3
      <3> QED
        BY <3>1, <1>5
    <2>3. \A s \in 0..MaxClock : s > eng'.clock => seen[s] = NotSeen
      BY <1>4 DEF Answered
    <2>4. ASSUME NEW s \in floor..eng'.clock, seen[s] # NotSeen
          PROVE  /\ Query(eng', history, s) = seen[s]
                 /\ \A v \in AsOf(eng', s) : history[v.id] # <<>>
      <3>1. s \in floor..eng.clock /\ s \in Nat /\ s <= eng.clock
        BY <2>4, <1>4 DEF Answered
      <3>2. /\ Query(eng, history, s) = seen[s]
            /\ \A v \in AsOf(eng, s) : history[v.id] # <<>>
        BY <3>1, <2>4 DEF Answered
      <3>3. Visible(eng, s) = Visible(eng', s)
        BY <3>1, <1>2
      <3> QED
        BY <3>2, <3>3, SameAnswer
    <2> QED
      BY <2>1, <2>2, <2>3, <2>4 DEF Answered
  <1> QED
    BY <1>2, <1>3, <1>6, <1>7, <1>8 DEF IndexSound, OpenIds, OpenRows

\* A call is one of its kinds, told by its step.
LEMMA CallKinds ==
  ASSUME NEW c, CallSound(c)
  PROVE  /\ c.pc \in {"insert", "grow", "retry"} => IsInsert(c) /\ Step(c) = c.pc
         /\ c.pc = "delete" => IsDelete(c) /\ Step(c) = c.pc
         /\ c.pc = "stamp" => IsStamp(c) /\ Step(c) = c.then
         /\ c.pc \in {"record", "edit", "forget"} => IsRecord(c) /\ Step(c) = c.pc
         /\ c.pc \in {"vacuum", "prune"} => IsVacuum(c) /\ Step(c) = c.pc
         /\ c.pc = "idle" => c = Idle /\ Step(c) = c.pc
  BY DEF CallSound, IsInsert, IsDelete, IsStamp, IsRecord, IsVacuum, Idle, Step

LEMMA AnotherStep ==
  ASSUME NEW c, c = [pc |-> c.pc, ids |-> c.ids, metas |-> c.metas], NEW q
  PROVE  [c EXCEPT !.pc = q] = [pc |-> q, ids |-> c.ids, metas |-> c.metas]
  <1> DEFINE p == c.pc
             i == c.ids
             m == c.metas
  <1>1. c = [pc |-> p, ids |-> i, metas |-> m]
    OBVIOUS
  <1> HIDE DEF p, i, m
  <1>2. [c EXCEPT !.pc = q] = [pc |-> q, ids |-> i, metas |-> m]
    BY <1>1
  <1> QED
    BY <1>2 DEF i, m

LEMMA InsertSound ==
  ASSUME NEW t, Threads = {t}, CollectionInv(t), CallInsert(t), Observe
  PROVE  CollectionInv(t)'
  <1> PICK c : c = call[t]
    OBVIOUS
  <1> DEFINE new == NewRows(c)
  <1>1. /\ c.pc \in {"insert", "retry"} /\ wal' = InsertMany(wal, new)
        /\ UNCHANGED <<capacity, history, live, deletedAt, floor>>
    BY DEF CallInsert, sidecar
  <1>2. growth = "fine" /\ Sound(c) /\ TypeOK /\ floor \in Nat
    BY <1>1 DEF CollectionInv, Idle
  <1>3. IsInsert(c) /\ Step(c) = c.pc
    BY <1>1, <1>2, CallKinds DEF Sound
  <1>4. /\ c = [pc |-> c.pc, ids |-> c.ids, metas |-> c.metas]
        /\ c.ids \in SUBSET Keys /\ c.ids # {} /\ ForEach(c)
    <2>1. c = [pc |-> c.pc, ids |-> c.ids, metas |-> c.metas] /\ ForEach(c)
      BY <1>3 DEF IsInsert
    <2>2. c.ids \in (SUBSET Keys) \ {{}}
      BY <1>3 DEF IsInsert
    <2>3. c.ids \in SUBSET Keys /\ c.ids # {}
      BY <2>2
    <2> QED
      BY <2>1, <2>3
  <1>5. new = NewIds(c.ids)
    BY DEF NewRows, NewIds
  <1>6. /\ IndexSound(eng) /\ IndexSound(wal) /\ wal.clock = eng.clock + 0
        /\ OpenIds(eng) = (live \cup Coming(c)) \ {} /\ OpenIds(wal) = (live \cup Coming(c)) \ {}
        /\ Coming(c) \subseteq c.ids /\ Logged(c) = Coming(c)
        /\ IF c.pc = "insert" THEN eng.clock + 2 <= MaxClock ELSE eng.clock + 1 <= MaxClock
    <2>1. Going(c) = {} /\ Logged(c) = Coming(c) /\ Coming(c) \subseteq c.ids
      BY <1>1, <1>3 DEF Going, Logged, Coming
    <2> QED
      BY <2>1, <1>1, <1>2 DEF Sound, EngineFollows, Left
  <1>7. eng.clock \in Nat /\ MaxClock \in Nat /\ wal.clock = eng.clock /\ eng.clock \in 0..MaxClock
    BY <1>6, ClockFacts, RowFacts
  <1>8. Advanced(wal, wal', c.ids, c.ids) /\ wal'.clock = wal.clock + 1
    BY <1>1, <1>4, <1>5, <1>6, InsertAdvances
  <1>9. CASE /\ eng' = InsertMany(eng, new) /\ UNCHANGED growth
             /\ Continue(t, [pc |-> "stamp", ids |-> c.ids, metas |-> c.metas, then |-> "record"])
    <2> DEFINE x == [pc |-> "stamp", ids |-> c.ids, metas |-> c.metas, then |-> "record"]
    <2>1. /\ x.pc = "stamp" /\ x.ids = c.ids /\ x.metas = c.metas /\ x.then = "record"
          /\ x = [pc |-> x.pc, ids |-> x.ids, metas |-> x.metas, then |-> x.then]
      OBVIOUS
    <2>2. call' = [call EXCEPT ![t] = x]
      BY <1>9 DEF Continue
    <2> HIDE DEF x
    <2>3. call' = [u \in Threads |-> call'[t]] /\ call'[t] = x /\ ~AtRest'
      BY <2>1, <2>2, Continues DEF CollectionInv
    <2>4. Advanced(eng, eng', c.ids, c.ids) /\ eng'.clock = eng.clock + 1
      BY <1>4, <1>5, <1>6, <1>9, InsertAdvances
    <2>5. eng'.clock = wal'.clock /\ eng'.clock <= MaxClock /\ eng'.clock \in Nat /\ eng'.clock \in 0..MaxClock
      BY <2>4, <1>6, <1>7, <1>8
    <2>6. seen' = seen
      BY <2>3, <2>5, Observed DEF CollectionInv
    <2>7. Step(x) = "record" /\ Coming(x) = c.ids /\ Logged(x) = c.ids /\ Going(x) = {}
          /\ Left(x) = 0 /\ Expected(x) = {}
      BY <2>1 DEF Step, Coming, Logged, Going, Left, Expected
    <2>8. /\ IndexSound(eng)' /\ IndexSound(wal)'
          /\ OpenIds(eng)' = (OpenIds(eng) \ c.ids) \cup c.ids
          /\ OpenIds(wal)' = (OpenIds(wal) \ c.ids) \cup c.ids
          /\ Stamped' /\ Buried(x)' /\ Answered(x)'
      <3>1. /\ c.pc \notin {"grow", "prune"} /\ x.pc \notin {"grow", "prune"} /\ Step(x) # "forget"
            /\ Logged(c) \subseteq c.ids /\ \A k \in c.ids \ c.ids : deletedAt[k] = Forever
        BY <1>1, <1>6, <2>1, <2>7
      <3>2. EngineFollows(c) /\ Stamped /\ Buried(c) /\ Answered(c)
        BY <1>2 DEF Sound
      <3>3. UNCHANGED <<history, live, deletedAt, floor, seen>>
        BY <1>1, <2>6
      <3> QED
        BY <1>2, <1>8, <2>4, <2>5, <2>7, <3>1, <3>2, <3>3, BothCommit
    <2>9. EngineFollows(x)'
      <3>1. OpenIds(eng)' = (live' \cup Coming(x)) \ Going(x) /\ OpenIds(wal)' = (live' \cup Logged(x)) \ Going(x)
        BY <2>8, <2>7, <1>6, <1>1
      <3>2. wal'.clock = eng'.clock + 0 /\ eng'.clock + Left(x) <= MaxClock /\ x.pc # "grow"
        BY <2>5, <2>7, <2>1
      <3>3. Expected(x) \subseteq live'
        BY <2>7
      <3> QED
        BY <2>8, <3>1, <3>2, <3>3 DEF EngineFollows, Coming, Logged, Going, Left, Expected, Step
    <2>10. CallSound(x)'
      BY <2>1, <1>4 DEF CallSound, IsStamp, ForEach
    <2>11. TypeOK'
      BY <1>1, <1>2, <1>9, <2>5 DEF TypeOK, Named
    <2>12. seen' = [s \in 0..MaxClock |-> seen'[s]] /\ floor' \in Nat /\ growth' = "fine"
      BY <1>1, <1>2, <1>9, <2>6 DEF CollectionInv
    <2> QED
      BY <2>3, <2>8, <2>9, <2>10, <2>11, <2>12 DEF CollectionInv, Sound
  <1>10. CASE c.pc = "insert" /\ Continue(t, [c EXCEPT !.pc = "grow"]) /\ UNCHANGED <<eng, growth>>
    <2> DEFINE x == [pc |-> "grow", ids |-> c.ids, metas |-> c.metas]
    <2>1. /\ x.pc = "grow" /\ x.ids = c.ids /\ x.metas = c.metas
          /\ x = [pc |-> x.pc, ids |-> x.ids, metas |-> x.metas]
      OBVIOUS
    <2>2. call' = [call EXCEPT ![t] = x]
      BY <1>10, <1>4, AnotherStep DEF Continue
    <2> HIDE DEF x
    <2>3. call' = [u \in Threads |-> call'[t]] /\ call'[t] = x /\ ~AtRest'
      BY <2>1, <2>2, Continues DEF CollectionInv
    <2>4. seen' = seen
      BY <2>3, <1>7, <1>10, Observed DEF CollectionInv
    <2>5. Step(x) = "grow" /\ Coming(x) = {} /\ Logged(x) = c.ids /\ Going(x) = {}
          /\ Left(x) = 2 /\ Expected(x) = {}
      BY <2>1 DEF Step, Coming, Logged, Going, Left, Expected
    <2>6. wal'.clock <= MaxClock /\ Coming(c) = {}
      BY <1>6, <1>7, <1>8, <1>3, <1>10 DEF Coming
    <2>7. /\ IndexSound(wal') /\ OpenIds(wal') = (OpenIds(wal) \ c.ids) \cup c.ids
          /\ \A s \in Nat : s <= wal.clock => Visible(wal', s) = Visible(wal, s)
          /\ \A v \in wal.rows : v.to # Forever => v \in wal'.rows
          /\ \A r \in wal'.rows : r.id \notin c.ids \cup c.ids => r \in wal.rows
      BY <1>6, <1>8, <2>6, AdvancedFacts
    <2>8. EngineFollows(x)'
      <3>1. OpenIds(eng)' = (live' \cup Coming(x)) \ Going(x) /\ OpenIds(wal)' = (live' \cup Logged(x)) \ Going(x)
        <4>1. OpenIds(eng)' = OpenIds(eng) /\ OpenIds(wal)' = OpenIds(wal')
          BY <1>10 DEF OpenIds, OpenRows
        <4> QED
          BY <4>1, <2>5, <2>6, <2>7, <1>6, <1>1
      <3>2. wal'.clock = eng'.clock + 1 /\ eng'.clock + Left(x) <= MaxClock /\ x.pc = "grow"
        BY <2>5, <2>1, <1>6, <1>7, <1>8, <1>10
      <3>3. IndexSound(eng)' /\ IndexSound(wal)' /\ Expected(x) \subseteq live'
        BY <2>5, <2>7, <1>6, <1>10 DEF IndexSound
      <3> QED
        BY <3>1, <3>2, <3>3 DEF EngineFollows, Coming, Logged, Going, Left, Expected, Step
    <2>9. Stamped'
      BY <1>1, <1>2, <1>10 DEF Sound, Stamped, Named
    <2>10. Buried(x)'
      <3>1. \A ix \in {eng', wal'} : \A v \in ix.rows :
              deletedAt[v.id] # Forever /\ v.id \notin c.ids => v.to <= deletedAt[v.id]
        BY <1>2, <1>6, <1>10, <2>7 DEF Sound, Buried
      <3>2. \A k \in Keys : deletedAt[k] # Forever => \E v \in eng'.rows : v.to = deletedAt[k]
        BY <1>2, <1>10 DEF Sound, Buried
      <3>3. \A k \in Keys : deletedAt[k] # Forever => \E v \in wal'.rows : v.to = deletedAt[k]
        BY <1>2, <2>7 DEF Sound, Buried
      <3> QED
        BY <3>1, <3>2, <3>3, <2>5, <1>1 DEF Buried
    <2>11. Answered(x)'
      <3>1. \A s \in floor..eng.clock :
              s = eng.clock \/ seen[s] # NotSeen => Visible(eng, s) = Visible(wal', s)
        BY <1>2, <1>7, <2>7 DEF Sound, Answered
      <3> QED
        BY <3>1, <1>1, <1>2, <1>10, <2>1, <2>4 DEF Sound, Answered
    <2>12. CallSound(x)'
      <3>1. x.ids \in (SUBSET Keys) \ {{}} /\ ForEach(x)
        BY <2>1, <1>4 DEF ForEach
      <3>2. IsInsert(x)
        BY <3>1, <2>1 DEF IsInsert
      <3> QED
        BY <3>2 DEF CallSound, IsInsert, ForEach
    <2>13. TypeOK'
      BY <1>1, <1>2, <1>7, <1>8, <1>10 DEF TypeOK, Named
    <2>14. seen' = [s \in 0..MaxClock |-> seen'[s]] /\ floor' \in Nat /\ growth' = "fine"
      BY <1>1, <1>2, <1>10, <2>4 DEF CollectionInv
    <2> QED
      BY <2>3, <2>8, <2>9, <2>10, <2>11, <2>12, <2>13, <2>14 DEF CollectionInv, Sound
  <1>11. CASE growth' = "refused" /\ Continue(t, Idle) /\ UNCHANGED eng
    <2>1. call' = [call EXCEPT ![t] = Idle]
      BY <1>11 DEF Continue
    <2>2. call' = [u \in Threads |-> call'[t]] /\ call'[t] = Idle
      BY <2>1, Continues DEF CollectionInv
    <2>3. seen' = [s \in 0..MaxClock |-> seen'[s]]
      BY <1>7, <1>11, Observed DEF CollectionInv
    <2>4. TypeOK'
      BY <1>1, <1>2, <1>7, <1>8, <1>11 DEF TypeOK, Named
    <2> QED
      BY <2>2, <2>3, <2>4, <1>1, <1>2, <1>11 DEF CollectionInv
  <1> QED
    BY <1>9, <1>10, <1>11 DEF CallInsert

LEMMA GrowSound ==
  ASSUME NEW t, Threads = {t}, CollectionInv(t), GrowArena(t), Observe
  PROVE  CollectionInv(t)'
  <1> PICK c : c = call[t]
    OBVIOUS
  <1>1. c.pc = "grow" /\ UNCHANGED <<history, live, deletedAt, floor>>
    BY DEF GrowArena, sidecar
  <1>2. growth = "fine" /\ Sound(c) /\ TypeOK /\ floor \in Nat
    BY <1>1 DEF CollectionInv, Idle
  <1>3. IsInsert(c) /\ Step(c) = "grow"
    BY <1>1, <1>2, CallKinds DEF Sound
  <1>4. /\ c = [pc |-> c.pc, ids |-> c.ids, metas |-> c.metas]
        /\ c.ids \in (SUBSET Keys) \ {{}} /\ ForEach(c)
    BY <1>3 DEF IsInsert
  <1>5. Coming(c) = {} /\ Logged(c) = c.ids /\ Going(c) = {} /\ Left(c) = 2
    BY <1>1, <1>3 DEF Coming, Logged, Going, Left
  <1>6. /\ IndexSound(eng) /\ IndexSound(wal) /\ wal.clock = eng.clock + 1
        /\ OpenIds(wal) = (live \cup c.ids) \ {} /\ eng.clock + 2 <= MaxClock
    BY <1>1, <1>2, <1>5 DEF Sound, EngineFollows
  <1>7. /\ eng.clock \in Nat /\ MaxClock \in Nat /\ wal.clock \in Nat /\ eng.clock \in 0..MaxClock
        /\ wal.clock \in 0..MaxClock
    BY <1>6, ClockFacts, RowFacts
  <1>8. CASE eng' = wal /\ Continue(t, [c EXCEPT !.pc = "retry"]) /\ UNCHANGED <<wal, growth>>
             /\ capacity' = 2 * capacity
    <2> DEFINE x == [pc |-> "retry", ids |-> c.ids, metas |-> c.metas]
    <2>1. /\ x.pc = "retry" /\ x.ids = c.ids /\ x.metas = c.metas
          /\ x = [pc |-> x.pc, ids |-> x.ids, metas |-> x.metas]
      OBVIOUS
    <2>2. call' = [call EXCEPT ![t] = x]
      BY <1>8, <1>4, AnotherStep DEF Continue
    <2> HIDE DEF x
    <2>3. call' = [u \in Threads |-> call'[t]] /\ call'[t] = x /\ ~AtRest'
      BY <2>1, <2>2, Continues DEF CollectionInv
    <2>4. seen' = seen
      BY <2>3, <1>7, <1>8, Observed DEF CollectionInv
    <2>5. Step(x) = "retry" /\ Coming(x) = c.ids /\ Logged(x) = c.ids /\ Going(x) = {}
          /\ Left(x) = 1 /\ Expected(x) = {}
      BY <2>1 DEF Step, Coming, Logged, Going, Left, Expected
    <2>6. EngineFollows(x)'
      <3>1. OpenIds(eng)' = (live' \cup Coming(x)) \ Going(x) /\ OpenIds(wal)' = (live' \cup Logged(x)) \ Going(x)
        <4>1. OpenIds(eng)' = OpenIds(wal) /\ OpenIds(wal)' = OpenIds(wal)
          BY <1>8 DEF OpenIds, OpenRows
        <4> QED
          BY <4>1, <2>5, <1>6, <1>1
      <3>2. wal'.clock = eng'.clock + 0 /\ eng'.clock + Left(x) <= MaxClock /\ x.pc # "grow"
        BY <2>5, <2>1, <1>6, <1>7, <1>8
      <3>3. IndexSound(eng)' /\ IndexSound(wal)' /\ Expected(x) \subseteq live'
        BY <2>5, <1>6, <1>8 DEF IndexSound
      <3> QED
        BY <3>1, <3>2, <3>3 DEF EngineFollows, Coming, Logged, Going, Left, Expected, Step
    <2>7. Stamped'
      <3>1. eng.clock <= eng'.clock /\ eng.clock \in Nat /\ eng'.clock \in Nat
        BY <1>6, <1>7, <1>8
      <3>2. \A k \in Keys : \A n \in DOMAIN history[k] : history[k][n].stamp \in Nat
        BY <1>2, StampsAreNat DEF TypeOK
      <3>3. \A k \in Keys : deletedAt[k] \in Nat
        BY <1>2, Limits DEF TypeOK, Stamp
      <3> QED
        BY <3>1, <3>2, <3>3, <1>1, <1>2 DEF Sound, Stamped, Named
    <2>8. Buried(x)'
      <3>1. \A v \in wal.rows : deletedAt[v.id] # Forever /\ v.id \notin c.ids => v.to <= deletedAt[v.id]
        BY <1>2, <1>5 DEF Sound, Buried
      <3>2. \A k \in Keys : deletedAt[k] # Forever => \E v \in wal.rows : v.to = deletedAt[k]
        BY <1>2 DEF Sound, Buried
      <3> QED
        BY <3>1, <3>2, <2>5, <1>1, <1>8 DEF Buried
    <2>9. Answered(x)'
      <3>1. floor <= eng'.clock
        BY <1>2, <1>6, <1>7, <1>8 DEF Sound, Answered
      <3>2. \A s \in 0..MaxClock : s > eng'.clock => seen[s] = NotSeen
        BY <1>2, <1>6, <1>7, <1>8 DEF Sound, Answered
      <3>3. ASSUME NEW s \in floor..eng'.clock, seen[s] # NotSeen
            PROVE  /\ Query(eng', history, s) = seen[s]
                   /\ \A v \in AsOf(eng', s) : history[v.id] # <<>>
        <4>1. s \in floor..eng.clock
          BY <3>3, <1>2, <1>6, <1>7, <1>8 DEF Sound, Answered
        <4>2. /\ Query(eng, history, s) = seen[s] /\ Visible(eng, s) = Visible(wal, s)
              /\ \A v \in AsOf(eng, s) : history[v.id] # <<>>
          BY <4>1, <3>3, <1>2 DEF Sound, Answered
        <4> QED
          BY <4>2, <1>8, SameAnswer
      <3> QED
        BY <3>1, <3>2, <3>3, <1>1, <1>8, <2>1, <2>4 DEF Answered
    <2>10. CallSound(x)'
      <3>1. x.ids \in (SUBSET Keys) \ {{}} /\ ForEach(x)
        BY <2>1, <1>4 DEF ForEach
      <3>2. IsInsert(x)
        BY <3>1, <2>1 DEF IsInsert
      <3> QED
        BY <3>2 DEF CallSound, IsInsert, ForEach
    <2>11. TypeOK'
      BY <1>1, <1>2, <1>7, <1>8 DEF TypeOK, Named
    <2>12. seen' = [s \in 0..MaxClock |-> seen'[s]] /\ floor' \in Nat /\ growth' = "fine"
      BY <1>1, <1>2, <1>8, <2>4 DEF CollectionInv
    <2> QED
      BY <2>3, <2>6, <2>7, <2>8, <2>9, <2>10, <2>11, <2>12 DEF CollectionInv, Sound
  <1>9. CASE growth' = "broken" /\ Continue(t, Idle) /\ UNCHANGED <<eng, wal, capacity>>
    <2>1. call' = [call EXCEPT ![t] = Idle]
      BY <1>9 DEF Continue
    <2>2. call' = [u \in Threads |-> call'[t]] /\ call'[t] = Idle
      BY <2>1, Continues DEF CollectionInv
    <2>3. seen' = [s \in 0..MaxClock |-> seen'[s]]
      BY <1>7, <1>9, Observed DEF CollectionInv
    <2>4. TypeOK'
      BY <1>1, <1>2, <1>9 DEF TypeOK, Named
    <2> QED
      BY <2>2, <2>3, <2>4, <1>1, <1>2, <1>9 DEF CollectionInv
  <1> QED
    BY <1>8, <1>9 DEF GrowArena

LEMMA DeleteSound ==
  ASSUME NEW t, Threads = {t}, CollectionInv(t), CallDelete(t), Observe
  PROVE  CollectionInv(t)'
  <1> PICK c : c = call[t]
    OBVIOUS
  <1> DEFINE gone == {c.ids[k] : k \in DOMAIN c.ids}
             x == [pc |-> "stamp", ids |-> gone, metas |-> Carry, then |-> "forget"]
  <1>1. /\ c.pc = "delete" /\ eng' = DeleteMany(eng, c.ids) /\ wal' = DeleteMany(wal, c.ids)
        /\ call' = [call EXCEPT ![t] = x]
        /\ UNCHANGED <<capacity, growth, history, live, deletedAt, floor>>
    BY DEF CallDelete, sidecar, Continue
  <1>2. growth = "fine" /\ Sound(c) /\ TypeOK /\ floor \in Nat
    BY <1>1 DEF CollectionInv, Idle
  <1>3. IsDelete(c) /\ Step(c) = "delete"
    BY <1>1, <1>2, CallKinds DEF Sound
  <1>4. c.ids \in Seq(Keys) /\ Len(c.ids) > 0 /\ Distinct(c.ids) /\ gone \subseteq Keys
    BY <1>3 DEF IsDelete
  <1>5. Coming(c) = {} /\ Logged(c) = {} /\ Going(c) = {} /\ Left(c) = Len(c.ids) /\ Expected(c) = gone
    BY <1>1, <1>3 DEF Coming, Logged, Going, Left, Expected
  <1>6. /\ x.pc = "stamp" /\ x.ids = gone /\ x.metas = Carry /\ x.then = "forget"
        /\ x = [pc |-> x.pc, ids |-> x.ids, metas |-> x.metas, then |-> x.then]
    OBVIOUS
  <1> HIDE DEF x
  <1>8. /\ IndexSound(eng) /\ IndexSound(wal) /\ wal.clock = eng.clock + 0
        /\ OpenIds(eng) = live /\ OpenIds(wal) = live /\ gone \subseteq live
        /\ eng.clock + Len(c.ids) <= MaxClock
    BY <1>1, <1>2, <1>5 DEF Sound, EngineFollows
  <1>9. eng.clock \in Nat /\ MaxClock \in Nat /\ wal.clock = eng.clock /\ Len(c.ids) \in Nat
    BY <1>4, <1>8, ClockFacts
  <1>10. /\ Advanced(eng, eng', gone, {}) /\ eng'.clock = eng.clock + Len(c.ids)
         /\ \E v \in eng'.rows : v.to = eng'.clock
    BY <1>1, <1>4, <1>8, DeleteAdvances
  <1>11. /\ Advanced(wal, wal', gone, {}) /\ wal'.clock = wal.clock + Len(c.ids)
         /\ \E v \in wal'.rows : v.to = wal'.clock
    BY <1>1, <1>4, <1>8, DeleteAdvances
  <1>12. eng'.clock = wal'.clock /\ eng'.clock <= MaxClock /\ eng'.clock \in Nat /\ eng'.clock \in 0..MaxClock
    BY <1>8, <1>9, <1>10, <1>11
  <1>13. call' = [u \in Threads |-> call'[t]] /\ call'[t] = x /\ ~AtRest'
    BY <1>1, <1>6, Continues DEF CollectionInv
  <1>14. seen' = seen
    BY <1>12, <1>13, Observed DEF CollectionInv
  <1>15. Step(x) = "forget" /\ Coming(x) = {} /\ Logged(x) = {} /\ Going(x) = gone
         /\ Left(x) = 0 /\ Expected(x) = gone
    BY <1>6 DEF Step, Coming, Logged, Going, Left, Expected
  <1> HIDE DEF gone
  <1>7. PICK new : new = {}
    OBVIOUS
  <1>16. /\ IndexSound(eng)' /\ IndexSound(wal)'
         /\ OpenIds(eng)' = (OpenIds(eng) \ gone) \cup new
         /\ OpenIds(wal)' = (OpenIds(wal) \ gone) \cup new
         /\ Stamped' /\ Buried(x)' /\ Answered(x)'
    <2>1. /\ c.pc \notin {"grow", "prune"} /\ x.pc \notin {"grow", "prune"}
          /\ Logged(c) \subseteq new /\ \A k \in gone \ new : deletedAt[k] = Forever
      BY <1>1, <1>2, <1>4, <1>5, <1>6, <1>8 DEF TypeOK
    <2>2. EngineFollows(c) /\ Stamped /\ Buried(c) /\ Answered(c)
      BY <1>2 DEF Sound
    <2>3. UNCHANGED <<history, live, deletedAt, floor, seen>>
      BY <1>1, <1>14
    <2>4. Step(x) = "forget" => \A ix \in {eng', wal'} : \E v \in ix.rows : v.to = eng'.clock
      BY <1>10, <1>11, <1>12
    <2>5. Advanced(eng, eng', gone, new) /\ Advanced(wal, wal', gone, new) /\ Logged(x) = new
      BY <1>7, <1>10, <1>11, <1>15
    <2> QED
      BY <1>2, <1>12, <2>1, <2>2, <2>3, <2>4, <2>5, BothCommit
  <1>17. EngineFollows(x)'
    <2>1. OpenIds(eng)' = (live' \cup Coming(x)) \ Going(x) /\ OpenIds(wal)' = (live' \cup Logged(x)) \ Going(x)
      BY <1>16, <1>15, <1>7, <1>8, <1>1
    <2>2. wal'.clock = eng'.clock + 0 /\ eng'.clock + Left(x) <= MaxClock /\ x.pc # "grow"
      BY <1>12, <1>15, <1>6
    <2>3. Expected(x) \subseteq live'
      BY <1>15, <1>1, <1>8
    <2> QED
      BY <1>16, <2>1, <2>2, <2>3 DEF EngineFollows, Coming, Logged, Going, Left, Expected, Step
  <1>18. CallSound(x)'
    <2>1. IsStamp(x)
      BY <1>4, <1>6 DEF IsStamp, ForEach
    <2> QED
      BY <2>1 DEF CallSound, IsStamp, ForEach
  <1>19. TypeOK'
    BY <1>1, <1>2, <1>12 DEF TypeOK, Named
  <1>20. seen' = [s \in 0..MaxClock |-> seen'[s]] /\ floor' \in Nat /\ growth' = "fine"
    BY <1>1, <1>2, <1>14 DEF CollectionInv
  <1> QED
    BY <1>13, <1>16, <1>17, <1>18, <1>19, <1>20 DEF CollectionInv, Sound

LEMMA ReadClockSound ==
  ASSUME NEW t, Threads = {t}, CollectionInv(t), ReadClock(t), Observe
  PROVE  CollectionInv(t)'
  <1> PICK c : c = call[t]
    OBVIOUS
  <1> PICK now : now = eng.clock
    OBVIOUS
  <1> DEFINE x == [pc |-> c.then, ids |-> c.ids, metas |-> c.metas, stamp |-> now]
  <1>1. /\ c.pc = "stamp" /\ call' = [call EXCEPT ![t] = x]
        /\ UNCHANGED <<eng, wal, capacity, growth, history, live, deletedAt, floor>>
    BY DEF ReadClock, index, sidecar, Continue
  <1>2. growth = "fine" /\ Sound(c) /\ TypeOK /\ floor \in Nat
    BY <1>1 DEF CollectionInv, Idle
  <1>3. IsStamp(c) /\ Step(c) = c.then
    BY <1>1, <1>2, CallKinds DEF Sound
  <1>4. c.then \in {"record", "edit", "forget"} /\ c.ids \in SUBSET Keys /\ ForEach(c)
    BY <1>3 DEF IsStamp
  <1>5. /\ x.pc = c.then /\ x.ids = c.ids /\ x.metas = c.metas /\ x.stamp = now
        /\ x = [pc |-> x.pc, ids |-> x.ids, metas |-> x.metas, stamp |-> x.stamp]
    OBVIOUS
  <1> HIDE DEF x
  <1>6. call' = [u \in Threads |-> call'[t]] /\ call'[t] = x /\ ~AtRest'
    BY <1>1, <1>4, <1>5, Continues DEF CollectionInv
  <1>7. eng'.clock \in 0..MaxClock
    BY <1>1, <1>2, ClockFacts DEF Sound, EngineFollows
  <1>8. seen' = seen
    BY <1>6, <1>7, Observed DEF CollectionInv
  <1>9. /\ Step(x) = Step(c) /\ Coming(x) = Coming(c) /\ Logged(x) = Logged(c) /\ Going(x) = Going(c)
        /\ Left(x) = Left(c) /\ Expected(x) = Expected(c)
    BY <1>1, <1>3, <1>4, <1>5 DEF Step, Coming, Logged, Going, Left, Expected
  <1>10. x.pc \notin {"grow", "prune"} /\ c.pc \notin {"grow", "prune"}
    BY <1>1, <1>4, <1>5
  <1>11. EngineFollows(x)'
    BY <1>1, <1>2, <1>9, <1>10 DEF Sound, EngineFollows, IndexSound, OpenIds, OpenRows,
       Coming, Logged, Going, Left, Expected, Step
  <1>12. Stamped'
    BY <1>1, <1>2 DEF Sound, Stamped, Named
  <1>13. Buried(x)'
    BY <1>1, <1>2, <1>9, <1>10 DEF Sound, Buried
  <1>14. Answered(x)'
    BY <1>1, <1>2, <1>8, <1>10 DEF Sound, Answered
  <1>15. CallSound(x)'
    <2>1. x.pc \in {"record", "edit", "forget"} /\ x.ids \in SUBSET Keys /\ ForEach(x) /\ x.stamp = eng'.clock
      BY <1>1, <1>4, <1>5 DEF ForEach
    <2> QED
      BY <2>1, <1>5 DEF CallSound, IsRecord, ForEach
  <1>16. TypeOK'
    BY <1>1, <1>2 DEF TypeOK, Named
  <1>17. seen' = [s \in 0..MaxClock |-> seen'[s]] /\ floor' \in Nat /\ growth' = "fine"
    BY <1>1, <1>2, <1>8 DEF CollectionInv
  <1> QED
    BY <1>6, <1>11, <1>12, <1>13, <1>14, <1>15, <1>16, <1>17 DEF CollectionInv, Sound

\* A call returns: what it did to the sidecar changes no earlier answer, and
\* the present is answered anew.
LEMMA ReturnAnswered ==
  ASSUME NEW c, Answered(c), IndexSound(eng), UNCHANGED <<eng, wal, floor>>,
         floor \in Nat, seen'[eng.clock] = QueryLatest(eng, history'),
         \A s \in 0..MaxClock : s # eng.clock => seen'[s] = seen[s],
         \A s \in floor..eng.clock : \A v \in AsOf(eng, s) :
           s # eng.clock /\ history[v.id] # <<>> =>
             history'[v.id] # <<>> /\ MetaAt(history'[v.id], s) = MetaAt(history[v.id], s),
         history' \in [Keys -> Seq(Version)],
         \A k \in Keys : \A n \in DOMAIN history'[k] : history'[k][n].stamp <= eng.clock,
         \A k \in OpenIds(eng) : history'[k] # <<>>
  PROVE  Answered(Idle)'
  <1>1. /\ eng.clock \in Nat /\ MaxClock \in Nat /\ eng.clock \in 0..MaxClock /\ floor \in 0..eng.clock
    BY ClockFacts DEF Answered
  <1>2. /\ Query(eng, history', eng.clock) = QueryLatest(eng, history')
        /\ \A v \in AsOf(eng, eng.clock) : history'[v.id] # <<>>
    <2> PICK hist : hist = history'
      OBVIOUS
    <2> PICK ix : ix = eng
      OBVIOUS
    <2>1. /\ IndexSound(ix) /\ hist \in [Keys -> Seq(Version)]
          /\ \A k \in Keys : \A n \in DOMAIN hist[k] : hist[k][n].stamp <= ix.clock
          /\ \A k \in OpenIds(ix) : hist[k] # <<>>
      OBVIOUS
    <2> QED
      BY <2>1, AtRestAgree
  <1>3. \A s \in floor..eng.clock :
          s = eng.clock \/ seen'[s] # NotSeen => Visible(eng, s) = Visible(wal, s)
    BY <1>1 DEF Answered
  <1>4. ASSUME NEW s \in floor..eng.clock, seen'[s] # NotSeen
        PROVE  /\ Query(eng, history', s) = seen'[s]
               /\ \A v \in AsOf(eng, s) : history'[v.id] # <<>>
    <2>1. CASE s = eng.clock
      BY <2>1, <1>2
    <2>2. CASE s # eng.clock
      <3>1. s \in 0..MaxClock /\ seen'[s] = seen[s]
        BY <2>2, <1>1
      <3>2. Query(eng, history, s) = seen[s] /\ \A v \in AsOf(eng, s) : history[v.id] # <<>>
        BY <3>1, <1>4 DEF Answered
      <3>3. \A v \in AsOf(eng, s) : /\ history[v.id] # <<>> /\ history'[v.id] # <<>>
                                    /\ MetaAt(history[v.id], s) = MetaAt(history'[v.id], s)
        BY <3>2, <2>2
      <3>4. Query(eng, history, s) = Query(eng, history', s)
        BY <3>3, SameAnswer
      <3> QED
        BY <3>1, <3>2, <3>3, <3>4
    <2> QED
      BY <2>1, <2>2
  <1>5. \A s \in 0..MaxClock : s > eng.clock => seen'[s] = NotSeen
    BY <1>1 DEF Answered
  <1> QED
    BY <1>1, <1>3, <1>4, <1>5 DEF Answered, Idle

\* What RecordAdd and RecordEdit make of the history.
LEMMA AppendedFacts ==
  ASSUME history \in [Keys -> Seq(Version)], NEW c, ForEach(c), c.ids \in SUBSET Keys, c.stamp \in Nat
  PROVE  /\ Appended(c) \in [Keys -> Seq(Version)]
         /\ \A k \in c.ids : Appended(c)[k] # <<>>
         /\ \A k \in Keys \ c.ids : Appended(c)[k] = history[k]
         /\ \A k \in Keys : \A n \in DOMAIN Appended(c)[k] :
              \/ Appended(c)[k][n].stamp = c.stamp
              \/ n \in DOMAIN history[k] /\ Appended(c)[k][n] = history[k][n]
         /\ \A k \in Keys : \A s \in Nat : history[k] # <<>> /\ s < c.stamp =>
              Appended(c)[k] # <<>> /\ MetaAt(Appended(c)[k], s) = MetaAt(history[k], s)
  <1> DEFINE V(k) == [stamp |-> c.stamp, meta |-> MetaFor(c, k)]
  <1>1. ASSUME NEW k \in c.ids
        PROVE  V(k) \in Version /\ V(k).stamp = c.stamp
    <2>1. MetaFor(c, k) \in Metas \cup {NoMeta}
      <3>1. CASE c.metas = Carry
        BY <3>1, MetaIs DEF MetaFor
      <3>2. CASE c.metas # Carry
        <4>1. c.metas \in [c.ids -> Metas]
          BY <3>2 DEF ForEach
        <4>2. c.metas[k] \in Metas
          BY <4>1
        <4> QED
          BY <3>2, <4>2 DEF MetaFor
      <3> QED
        BY <3>1, <3>2
    <2> QED
      BY <2>1 DEF Version
  <1>2. \A k \in Keys : Appended(c)[k] = IF k \in c.ids THEN Append(history[k], V(k)) ELSE history[k]
    BY DEF Appended
  <1>3. Appended(c) = [k \in Keys |-> Appended(c)[k]]
    BY DEF Appended
  <1> HIDE DEF V
  <1>4. ASSUME NEW k \in c.ids
        PROVE  /\ Appended(c)[k] \in Seq(Version) /\ Appended(c)[k] # <<>>
               /\ \A n \in DOMAIN Appended(c)[k] :
                    \/ Appended(c)[k][n].stamp = c.stamp
                    \/ n \in DOMAIN history[k] /\ Appended(c)[k][n] = history[k][n]
               /\ \A s \in Nat : history[k] # <<>> /\ s < c.stamp =>
                    MetaAt(Appended(c)[k], s) = MetaAt(history[k], s)
    <2>1. k \in Keys /\ history[k] \in Seq(Version) /\ V(k) \in Version /\ V(k).stamp = c.stamp
      BY <1>1
    <2>2. Appended(c)[k] = Append(history[k], V(k))
      BY <2>1, <1>2
    <2> PICK h : h = history[k]
      OBVIOUS
    <2> PICK v : v = V(k)
      OBVIOUS
    <2>3. h \in Seq(Version) /\ v \in Version /\ v.stamp = c.stamp
      BY <2>1
    <2>4. /\ Append(h, v) \in Seq(Version) /\ Append(h, v) # <<>>
          /\ DOMAIN h = 1..Len(h) /\ DOMAIN Append(h, v) = 1..Len(h) + 1
          /\ Append(h, v)[Len(h) + 1] = v /\ \A n \in 1..Len(h) : Append(h, v)[n] = h[n]
      BY <2>3
    <2>5. \A n \in DOMAIN Append(h, v) : n = Len(h) + 1 \/ n \in DOMAIN h
      BY <2>3, <2>4
    <2>6. \A s \in Nat : h # <<>> /\ s < c.stamp => MetaAt(Append(h, v), s) = MetaAt(h, s)
      BY <2>3, MetaAtAppend
    <2> QED
      BY <2>2, <2>3, <2>4, <2>5, <2>6
  <1>5. \A k \in Keys \ c.ids : Appended(c)[k] = history[k] /\ history[k] \in Seq(Version)
    BY <1>2
  <1>6. Appended(c) \in [Keys -> Seq(Version)]
    BY <1>3, <1>4, <1>5
  <1> QED
    BY <1>4, <1>5, <1>6

LEMMA IdleFacts ==
  /\ Coming(Idle) = {} /\ Logged(Idle) = {} /\ Going(Idle) = {} /\ Left(Idle) = 0 /\ Expected(Idle) = {}
  /\ Step(Idle) = "idle" /\ Idle.pc = "idle" /\ CallSound(Idle)
  BY DEF Coming, Logged, Going, Left, Expected, Step, Idle, CallSound

\* A call that has brought the sidecar in line returns.
LEMMA ReturnSound ==
  ASSUME NEW t, Threads = {t}, CollectionInv(t), growth = "fine", call' = [call EXCEPT ![t] = Idle], Observe,
         UNCHANGED <<eng, wal, capacity, growth, floor>>, call[t].pc # "grow",
         OpenIds(eng) = live', OpenIds(wal) = live',
         TypeOK', Stamped', Buried(Idle)',
         \A s \in floor..eng.clock : \A v \in AsOf(eng, s) :
           s # eng.clock /\ history[v.id] # <<>> =>
             history'[v.id] # <<>> /\ MetaAt(history'[v.id], s) = MetaAt(history[v.id], s)
  PROVE  CollectionInv(t)'
  <1> PICK c : c = call[t]
    OBVIOUS
  <1>1. Sound(c) /\ TypeOK /\ floor \in Nat
    BY DEF CollectionInv
  <1>2. IndexSound(eng) /\ IndexSound(wal) /\ wal.clock = eng.clock + 0 /\ Answered(c)
    BY <1>1 DEF Sound, EngineFollows
  <1>3. eng.clock \in Nat /\ eng.clock <= MaxClock /\ eng'.clock \in 0..MaxClock /\ eng'.clock = eng.clock
    BY <1>2, ClockFacts
  <1>4. call' = [u \in Threads |-> call'[t]] /\ call'[t] = Idle /\ AtRest'
    BY Continues, IdleFacts DEF CollectionInv
  <1>5. /\ seen' = [s \in 0..MaxClock |-> seen'[s]]
        /\ seen'[eng.clock] = QueryLatest(eng, history')
        /\ \A s \in 0..MaxClock : s # eng.clock => seen'[s] = seen[s]
    <2>1. eng' = eng
      OBVIOUS
    <2> QED
      BY <2>1, <1>3, <1>4, Observed DEF CollectionInv
  <1>6. EngineFollows(Idle)'
    <2>1. OpenIds(eng)' = live' /\ OpenIds(wal)' = live' /\ IndexSound(eng)' /\ IndexSound(wal)'
      BY <1>2 DEF OpenIds, OpenRows, IndexSound
    <2>2. wal'.clock = eng'.clock + 0 /\ eng'.clock + 0 <= MaxClock
      BY <1>2, <1>3
    <2> QED
      BY <2>1, <2>2, IdleFacts DEF EngineFollows, Idle, Coming, Logged, Going, Left, Expected, Step
  <1>7. Answered(Idle)'
    <2>1. history' \in [Keys -> Seq(Version)]
      BY DEF TypeOK
    <2>2. \A k \in Keys : \A n \in DOMAIN history'[k] : history'[k][n].stamp <= eng.clock
      BY <1>3 DEF Stamped
    <2>3. \A k \in OpenIds(eng) : history'[k] # <<>>
      BY DEF TypeOK, Named
    <2> QED
      BY <1>1, <1>2, <1>5, <2>1, <2>2, <2>3, ReturnAnswered
  <1>8. CallSound(Idle)'
    BY DEF CallSound
  <1>9. floor' \in Nat /\ growth' = "fine"
    BY <1>1
  <1> QED
    BY <1>4, <1>5, <1>6, <1>7, <1>8, <1>9 DEF CollectionInv, Sound

LEMMA RecordAddSound ==
  ASSUME NEW t, Threads = {t}, CollectionInv(t), RecordAdd(t), Observe
  PROVE  CollectionInv(t)'
  <1> PICK c : c = call[t]
    OBVIOUS
  <1>1. /\ c.pc = "record" /\ call' = [call EXCEPT ![t] = Idle] /\ history' = Appended(c)
        /\ live' = live \cup c.ids
        /\ deletedAt' = [k \in Keys |-> IF k \in c.ids THEN Forever ELSE deletedAt[k]]
        /\ UNCHANGED <<eng, wal, capacity, growth, floor>>
    BY DEF RecordAdd, index, Continue
  <1>2. growth = "fine" /\ Sound(c) /\ TypeOK /\ floor \in Nat
    BY <1>1 DEF CollectionInv, Idle
  <1>3. IsRecord(c) /\ Step(c) = "record"
    BY <1>1, <1>2, CallKinds DEF Sound
  <1>4. c.ids \in SUBSET Keys /\ ForEach(c) /\ c.stamp = eng.clock
    BY <1>3 DEF IsRecord
  <1>5. Coming(c) = c.ids /\ Logged(c) = c.ids /\ Going(c) = {} /\ c.pc # "prune"
    BY <1>1, <1>3 DEF Coming, Logged, Going
  <1>6. /\ IndexSound(eng) /\ OpenIds(eng) = live' /\ OpenIds(wal) = live'
        /\ wal.clock = eng.clock + 0 /\ eng.clock \in Nat
    BY <1>1, <1>2, <1>5, ClockFacts DEF Sound, EngineFollows
  <1>7. /\ Appended(c) \in [Keys -> Seq(Version)]
        /\ \A k \in c.ids : Appended(c)[k] # <<>>
        /\ \A k \in Keys \ c.ids : Appended(c)[k] = history[k]
        /\ \A k \in Keys : \A n \in DOMAIN Appended(c)[k] :
             \/ Appended(c)[k][n].stamp = c.stamp
             \/ n \in DOMAIN history[k] /\ Appended(c)[k][n] = history[k][n]
        /\ \A k \in Keys : \A s \in Nat : history[k] # <<>> /\ s < c.stamp =>
             Appended(c)[k] # <<>> /\ MetaAt(Appended(c)[k], s) = MetaAt(history[k], s)
    BY <1>2, <1>4, <1>6, AppendedFacts DEF TypeOK
  <1>8. TypeOK'
    <2>1. /\ eng'.clock \in Nat /\ wal'.clock >= eng'.clock /\ capacity' \in Nat
          /\ growth' \in {"fine", "refused", "broken"} /\ history' \in [Keys -> Seq(Version)]
      BY <1>1, <1>2, <1>7 DEF TypeOK
    <2>2. live' \subseteq Named'
      BY <1>1, <1>2, <1>4, <1>7 DEF TypeOK, Named
    <2>3. deletedAt' \in [Keys -> Stamp]
      BY <1>1, <1>2 DEF TypeOK, Stamp
    <2>4. \A k \in Keys : deletedAt'[k] # Forever => k \in Named' \ live'
      BY <1>1, <1>2, <1>7 DEF TypeOK, Named
    <2> QED
      BY <2>1, <2>2, <2>3, <2>4 DEF TypeOK, Stamp
  <1>9. Stamped'
    <2>1. \A k \in Keys : \A n \in DOMAIN history'[k] : history'[k][n].stamp <= eng'.clock
      BY <1>1, <1>2, <1>4, <1>6, <1>7 DEF Sound, Stamped
    <2>2. \A k \in Keys : deletedAt'[k] <= eng'.clock \/ deletedAt'[k] = Forever
      BY <1>1, <1>2 DEF Sound, Stamped
    <2>3. \A k \in Named' \ live' : deletedAt'[k] # Forever
      BY <1>1, <1>2, <1>7 DEF Sound, Stamped, Named
    <2> QED
      BY <2>1, <2>2, <2>3 DEF Stamped
  <1>10. Buried(Idle)'
    <2>1. \A k \in Keys : deletedAt'[k] # Forever => k \notin c.ids /\ deletedAt'[k] = deletedAt[k]
      BY <1>1
    <2>2. \A ix \in {eng, wal} : \A v \in ix.rows :
            v.id \in Keys /\ deletedAt'[v.id] # Forever => v.to <= deletedAt'[v.id]
      BY <2>1, <1>2, <1>5 DEF Sound, Buried
    <2>3. \A ix \in {eng, wal} : \A v \in ix.rows : v.id \in Keys
      BY <1>2, RowFacts DEF Sound, EngineFollows
    <2>4. \A ix \in {eng, wal} : \A k \in Keys : deletedAt'[k] # Forever => \E v \in ix.rows : v.to = deletedAt'[k]
      BY <2>1, <1>2, <1>5 DEF Sound, Buried
    <2> QED
      BY <2>2, <2>3, <2>4, <1>1, IdleFacts DEF Buried, Logged, Step, Idle
  <1>11. ASSUME NEW s \in floor..eng.clock, NEW v \in AsOf(eng, s), s # eng.clock, history[v.id] # <<>>
         PROVE  history'[v.id] # <<>> /\ MetaAt(history'[v.id], s) = MetaAt(history[v.id], s)
    <2>1. v.id \in Keys /\ s \in Nat /\ s < c.stamp
      BY <1>2, <1>4, <1>6, <1>11, RowFacts DEF AsOf
    <2> QED
      BY <2>1, <1>1, <1>7, <1>11
  <1> QED
    BY <1>1, <1>2, <1>6, <1>8, <1>9, <1>10, <1>11, ReturnSound

LEMMA RecordEditSound ==
  ASSUME NEW t, Threads = {t}, CollectionInv(t), RecordEdit(t), Observe
  PROVE  CollectionInv(t)'
  <1> PICK c : c = call[t]
    OBVIOUS
  <1>1. /\ c.pc = "edit" /\ call' = [call EXCEPT ![t] = Idle] /\ history' = Appended(c)
        /\ UNCHANGED <<eng, wal, capacity, growth, live, deletedAt, floor>>
    BY DEF RecordEdit, index, Continue
  <1>2. growth = "fine" /\ Sound(c) /\ TypeOK /\ floor \in Nat
    BY <1>1 DEF CollectionInv, Idle
  <1>3. IsRecord(c) /\ Step(c) = "edit"
    BY <1>1, <1>2, CallKinds DEF Sound
  <1>4. c.ids \in SUBSET Keys /\ ForEach(c) /\ c.stamp = eng.clock
    BY <1>3 DEF IsRecord
  <1>5. Coming(c) = {} /\ Logged(c) = {} /\ Going(c) = {} /\ c.pc # "prune" /\ Expected(c) = c.ids
    BY <1>1, <1>3 DEF Coming, Logged, Going, Expected
  <1>6. /\ IndexSound(eng) /\ OpenIds(eng) = live' /\ OpenIds(wal) = live' /\ c.ids \subseteq live
        /\ wal.clock = eng.clock + 0 /\ eng.clock \in Nat
    BY <1>1, <1>2, <1>5, ClockFacts DEF Sound, EngineFollows
  <1>7. /\ Appended(c) \in [Keys -> Seq(Version)]
        /\ \A k \in c.ids : Appended(c)[k] # <<>>
        /\ \A k \in Keys \ c.ids : Appended(c)[k] = history[k]
        /\ \A k \in Keys : \A n \in DOMAIN Appended(c)[k] :
             \/ Appended(c)[k][n].stamp = c.stamp
             \/ n \in DOMAIN history[k] /\ Appended(c)[k][n] = history[k][n]
        /\ \A k \in Keys : \A s \in Nat : history[k] # <<>> /\ s < c.stamp =>
             Appended(c)[k] # <<>> /\ MetaAt(Appended(c)[k], s) = MetaAt(history[k], s)
    BY <1>2, <1>4, <1>6, AppendedFacts DEF TypeOK
  <1>8. TypeOK'
    <2>1. Named' = Named
      BY <1>1, <1>2, <1>6, <1>7 DEF TypeOK, Named
    <2> QED
      BY <2>1, <1>1, <1>2, <1>7 DEF TypeOK, Stamp
  <1>9. Stamped'
    <2>1. \A k \in Keys : \A n \in DOMAIN history'[k] : history'[k][n].stamp <= eng'.clock
      BY <1>1, <1>2, <1>4, <1>6, <1>7 DEF Sound, Stamped
    <2>2. \A k \in Named' \ live' : deletedAt'[k] # Forever
      BY <1>1, <1>2, <1>6, <1>7 DEF Sound, Stamped, Named
    <2> QED
      BY <2>1, <2>2, <1>1, <1>2 DEF Sound, Stamped
  <1>10. Buried(Idle)'
    BY <1>1, <1>2, <1>5, IdleFacts DEF Sound, Buried, Logged, Step, Idle
  <1>11. ASSUME NEW s \in floor..eng.clock, NEW v \in AsOf(eng, s), s # eng.clock, history[v.id] # <<>>
         PROVE  history'[v.id] # <<>> /\ MetaAt(history'[v.id], s) = MetaAt(history[v.id], s)
    <2>1. v.id \in Keys /\ s \in Nat /\ s < c.stamp
      BY <1>2, <1>4, <1>6, <1>11, RowFacts DEF AsOf
    <2> QED
      BY <2>1, <1>1, <1>7, <1>11
  <1> QED
    BY <1>1, <1>2, <1>6, <1>8, <1>9, <1>10, <1>11, ReturnSound

LEMMA RecordDeleteSound ==
  ASSUME NEW t, Threads = {t}, CollectionInv(t), RecordDelete(t), Observe
  PROVE  CollectionInv(t)'
  <1> PICK c : c = call[t]
    OBVIOUS
  <1>1. /\ c.pc = "forget" /\ call' = [call EXCEPT ![t] = Idle] /\ live' = live \ c.ids
        /\ deletedAt' = [k \in Keys |-> IF k \in c.ids THEN c.stamp ELSE deletedAt[k]]
        /\ UNCHANGED <<eng, wal, capacity, growth, history, floor>>
    BY DEF RecordDelete, index, Continue
  <1>2. growth = "fine" /\ Sound(c) /\ TypeOK /\ floor \in Nat
    BY <1>1 DEF CollectionInv, Idle
  <1>3. IsRecord(c) /\ Step(c) = "forget"
    BY <1>1, <1>2, CallKinds DEF Sound
  <1>4. c.ids \in SUBSET Keys /\ c.stamp = eng.clock
    BY <1>3 DEF IsRecord
  <1>5. Coming(c) = {} /\ Logged(c) = {} /\ Going(c) = c.ids /\ c.pc # "prune" /\ Expected(c) = c.ids
    BY <1>1, <1>3 DEF Coming, Logged, Going, Expected
  <1>6. /\ IndexSound(eng) /\ IndexSound(wal) /\ OpenIds(eng) = live' /\ OpenIds(wal) = live'
        /\ c.ids \subseteq live /\ wal.clock = eng.clock + 0
        /\ eng.clock \in Nat /\ eng.clock # Forever /\ wal.clock = eng.clock
    BY <1>1, <1>2, <1>5, ClockFacts DEF Sound, EngineFollows
  <1>7. TypeOK'
    <2>1. Named' = Named /\ deletedAt' \in [Keys -> Stamp]
      BY <1>1, <1>2, <1>4, <1>6 DEF TypeOK, Named, Stamp
    <2> QED
      BY <2>1, <1>1, <1>2, <1>6 DEF TypeOK, Stamp
  <1>8. Stamped'
    <2>1. \A k \in Keys : deletedAt'[k] <= eng'.clock \/ deletedAt'[k] = Forever
      BY <1>1, <1>2, <1>4, <1>6 DEF Sound, Stamped
    <2>2. \A k \in Named' \ live' : deletedAt'[k] # Forever
      BY <1>1, <1>2, <1>4, <1>6 DEF Sound, Stamped, Named
    <2> QED
      BY <2>1, <2>2, <1>1, <1>2 DEF Sound, Stamped
  <1>9. Buried(Idle)'
    <2>1. ASSUME NEW ix \in {eng, wal}, NEW v \in ix.rows, deletedAt'[v.id] # Forever
          PROVE  v.to <= deletedAt'[v.id]
      <3>1. v.id \in Keys /\ (v.to <= eng.clock \/ v.to = Forever)
        BY <1>6, RowFacts
      <3>2. CASE v.id \in c.ids
        <4>1. v.id \notin OpenIds(ix)
          BY <3>2, <1>1, <1>6
        <4>2. v.to # Forever
          BY <4>1 DEF OpenIds, OpenRows
        <4> QED
          BY <4>2, <3>1, <3>2, <1>1, <1>4
      <3>3. CASE v.id \notin c.ids
        BY <3>1, <3>3, <2>1, <1>1, <1>2, <1>5 DEF Sound, Buried
      <3> QED
        BY <3>2, <3>3
    <2>2. ASSUME NEW ix \in {eng, wal}, NEW k \in Keys, deletedAt'[k] # Forever
          PROVE  \E v \in ix.rows : v.to = deletedAt'[k]
      <3>1. CASE k \in c.ids
        BY <3>1, <1>1, <1>2, <1>3, <1>4 DEF Sound, Buried
      <3>2. CASE k \notin c.ids
        BY <3>2, <2>2, <1>1, <1>2, <1>5 DEF Sound, Buried
      <3> QED
        BY <3>1, <3>2
    <2> QED
      BY <2>1, <2>2, <1>1, IdleFacts DEF Buried, Logged, Step, Idle
  <1> QED
    BY <1>1, <1>2, <1>6, <1>7, <1>8, <1>9, ReturnSound

LEMMA CallVacuumSound ==
  ASSUME NEW t, Threads = {t}, CollectionInv(t), CallVacuum(t), Observe
  PROVE  CollectionInv(t)'
  <1> PICK c : c = call[t]
    OBVIOUS
  <1> DEFINE x == [pc |-> "prune", oldest |-> c.oldest]
  <1>1. /\ c.pc = "vacuum" /\ call' = [call EXCEPT ![t] = x] /\ eng' = Vacuum(eng, c.oldest)
        /\ floor' = IF c.oldest > floor THEN IF c.oldest > eng.clock THEN eng.clock ELSE c.oldest ELSE floor
        /\ UNCHANGED <<wal, capacity, growth, history, live, deletedAt>>
    BY DEF CallVacuum, sidecar, Continue
  <1>2. growth = "fine" /\ Sound(c) /\ TypeOK /\ floor \in Nat
    BY <1>1 DEF CollectionInv, Idle
  <1>3. IsVacuum(c) /\ Step(c) = "vacuum"
    BY <1>1, <1>2, CallKinds DEF Sound
  <1>4. x.pc = "prune" /\ x.oldest = c.oldest /\ x = [pc |-> x.pc, oldest |-> x.oldest]
    OBVIOUS
  <1> HIDE DEF x
  <1>5. /\ Coming(c) = {} /\ Logged(c) = {} /\ Going(c) = {}
        /\ Coming(x) = {} /\ Logged(x) = {} /\ Going(x) = {}
        /\ Left(x) = 0 /\ Expected(x) = {} /\ Step(x) = "prune"
    BY <1>1, <1>3, <1>4 DEF Coming, Logged, Going, Left, Expected, Step
  <1>6. /\ IndexSound(eng) /\ IndexSound(wal) /\ OpenIds(eng) = live /\ OpenIds(wal) = live
        /\ wal.clock = eng.clock + 0
    BY <1>1, <1>2, <1>5 DEF Sound, EngineFollows
  <1>7. /\ eng.clock \in Nat /\ eng.clock <= MaxClock /\ eng.clock \in 0..MaxClock
        /\ c.oldest \in Nat /\ c.oldest <= eng.clock + 1 /\ floor <= eng.clock
    BY <1>2, <1>3, <1>6, ClockFacts DEF Sound, IsVacuum, Answered
  <1>8. /\ IndexSound(eng') /\ eng'.clock = eng.clock
        /\ eng'.rows = {v \in eng.rows : v.to >= c.oldest} /\ OpenIds(eng') = OpenIds(eng)
        /\ \A s \in Nat : c.oldest <= s \/ eng.clock <= s => AsOf(eng', s) = AsOf(eng, s)
    BY <1>1, <1>6, <1>7, VacuumFacts
  <1>9. /\ floor' \in Nat /\ floor <= floor' /\ floor' <= eng.clock
        /\ c.oldest <= floor' \/ eng.clock <= floor'
    BY <1>1, <1>2, <1>7
  <1>10. call' = [u \in Threads |-> call'[t]] /\ call'[t] = x /\ ~AtRest'
    BY <1>1, <1>4, Continues DEF CollectionInv
  <1>11. seen' = seen
    BY <1>7, <1>8, <1>10, Observed DEF CollectionInv
  <1>12. EngineFollows(x)'
    <2>1. /\ IndexSound(eng)' /\ IndexSound(wal)' /\ OpenIds(eng)' = live' /\ OpenIds(wal)' = live'
          /\ wal'.clock = eng'.clock + 0 /\ eng'.clock + 0 <= MaxClock
      BY <1>1, <1>6, <1>7, <1>8 DEF OpenIds, OpenRows, IndexSound
    <2> QED
      BY <2>1, <1>4, <1>5 DEF EngineFollows, Coming, Logged, Going, Left, Expected, Step
  <1>13. Stamped'
    BY <1>1, <1>2, <1>8 DEF Sound, Stamped, Named
  <1>14. Buried(x)'
    <2>1. \A ix \in {eng', wal'} : \A v \in ix.rows : deletedAt[v.id] # Forever => v.to <= deletedAt[v.id]
      BY <1>1, <1>2, <1>5, <1>8 DEF Sound, Buried
    <2>2. \A k \in Keys : deletedAt[k] # Forever /\ c.oldest <= deletedAt[k] =>
            \E v \in eng'.rows : v.to = deletedAt[k]
      <3>1. ASSUME NEW k \in Keys, deletedAt[k] # Forever, c.oldest <= deletedAt[k]
            PROVE  \E v \in eng'.rows : v.to = deletedAt[k]
        <4>1. PICK v \in eng.rows : v.to = deletedAt[k]
          BY <3>1, <1>1, <1>2 DEF Sound, Buried
        <4> QED
          BY <4>1, <3>1, <1>7, <1>8, <1>6, RowFacts
      <3> QED
        BY <3>1
    <2>3. \A k \in Keys : deletedAt[k] # Forever => \E v \in wal'.rows : v.to = deletedAt[k]
      BY <1>1, <1>2 DEF Sound, Buried
    <2> QED
      BY <2>1, <2>2, <2>3, <1>1, <1>4, <1>5 DEF Buried
  <1>15. Answered(x)'
    <2>1. ASSUME NEW s \in floor'..eng.clock
          PROVE  s \in floor..eng.clock /\ AsOf(eng', s) = AsOf(eng, s)
      BY <1>2, <1>7, <1>8, <1>9
    <2>2. ASSUME NEW s \in floor'..eng.clock
          PROVE  Visible(eng', s) = Visible(eng, s) /\ Query(eng', history, s) = Query(eng, history, s)
      BY <2>1 DEF Visible, Query
    <2>3. /\ \A s \in 0..MaxClock : s > eng'.clock => seen[s] = NotSeen
          /\ \A s \in floor..eng.clock :
               s = eng.clock \/ seen[s] # NotSeen => Visible(eng, s) = Visible(wal, s)
          /\ \A s \in floor..eng.clock :
               seen[s] # NotSeen => /\ Query(eng, history, s) = seen[s]
                                    /\ \A v \in AsOf(eng, s) : history[v.id] # <<>>
      BY <1>2, <1>8 DEF Sound, Answered
    <2>4. \A s \in floor'..eng.clock :
            s = eng.clock \/ seen[s] # NotSeen => Visible(eng', s) = Visible(wal, s)
      BY <2>1, <2>2, <2>3
    <2>5. \A s \in floor'..eng.clock :
            seen[s] # NotSeen => /\ Query(eng', history, s) = seen[s]
                                 /\ \A v \in AsOf(eng', s) : history[v.id] # <<>>
      BY <2>1, <2>2, <2>3
    <2> QED
      BY <2>3, <2>4, <2>5, <1>1, <1>4, <1>8, <1>9, <1>11 DEF Answered
  <1>16. CallSound(x)'
    <2>1. IsVacuum(x)'
      BY <1>3, <1>4, <1>8 DEF IsVacuum
    <2> QED
      BY <2>1 DEF CallSound
  <1>17. TypeOK'
    BY <1>1, <1>2, <1>8 DEF TypeOK, Named
  <1>18. seen' = [s \in 0..MaxClock |-> seen'[s]] /\ growth' = "fine"
    BY <1>1, <1>2, <1>11 DEF CollectionInv
  <1> QED
    BY <1>9, <1>10, <1>12, <1>13, <1>14, <1>15, <1>16, <1>17, <1>18 DEF CollectionInv, Sound

LEMMA PruneSound ==
  ASSUME NEW t, Threads = {t}, CollectionInv(t), PruneHistory(t), Observe
  PROVE  CollectionInv(t)'
  <1> PICK c : c = call[t]
    OBVIOUS
  <1>1. /\ c.pc = "prune" /\ call' = [call EXCEPT ![t] = Idle]
        /\ history' = [k \in Keys |-> IF k \in Gone(c.oldest) THEN <<>> ELSE Pruned(history[k], c.oldest)]
        /\ deletedAt' = [k \in Keys |-> IF k \in Gone(c.oldest) THEN Forever ELSE deletedAt[k]]
        /\ UNCHANGED <<eng, wal, capacity, growth, live, floor>>
    BY DEF PruneHistory, index, Continue
  <1>2. growth = "fine" /\ Sound(c) /\ TypeOK /\ floor \in Nat
    BY <1>1 DEF CollectionInv, Idle
  <1>3. IsVacuum(c) /\ Step(c) = "prune"
    BY <1>1, <1>2, CallKinds DEF Sound
  <1>4. Coming(c) = {} /\ Logged(c) = {} /\ Going(c) = {}
    BY <1>1, <1>3 DEF Coming, Logged, Going
  <1>5. /\ IndexSound(eng) /\ IndexSound(wal) /\ OpenIds(eng) = live' /\ OpenIds(wal) = live'
        /\ wal.clock = eng.clock + 0
    BY <1>1, <1>2, <1>4 DEF Sound, EngineFollows
  <1>6. /\ eng.clock \in Nat /\ eng.clock <= MaxClock /\ Forever \in Nat /\ eng.clock < Forever
        /\ c.oldest \in Nat /\ c.oldest <= eng.clock + 1 /\ floor <= eng.clock
        /\ c.oldest <= floor \/ eng.clock <= floor
    BY <1>1, <1>2, <1>3, <1>5, ClockFacts DEF Sound, IsVacuum, Answered
  <1>7. \A k \in Keys :
          /\ Pruned(history[k], c.oldest) \in Seq(Version)
          /\ history[k] # <<>> <=> Pruned(history[k], c.oldest) # <<>>
          /\ \A n \in DOMAIN Pruned(history[k], c.oldest) :
               \E m \in DOMAIN history[k] : Pruned(history[k], c.oldest)[n] = history[k][m]
          /\ \A s \in Nat : UpTo(history[k], c.oldest) \subseteq UpTo(history[k], s) =>
               MetaAt(Pruned(history[k], c.oldest), s) = MetaAt(history[k], s)
    <2>1. ASSUME NEW k \in Keys
          PROVE  history[k] \in Seq(Version) /\ c.oldest \in Nat
      BY <1>2, <1>6 DEF TypeOK
    <2> QED
      BY <2>1, PrunedIs
  <1>8. \A k \in Keys : /\ k \in Gone(c.oldest) => history'[k] = <<>> /\ deletedAt'[k] = Forever
                        /\ k \notin Gone(c.oldest) => /\ history'[k] = Pruned(history[k], c.oldest)
                                                      /\ deletedAt'[k] = deletedAt[k]
    BY <1>1
  <1>9. \A k \in Keys : k \in Gone(c.oldest) <=> deletedAt[k] # Forever /\ deletedAt[k] <= c.oldest
    BY DEF Gone
  <1>10. history' \in [Keys -> Seq(Version)]
    <2>1. ASSUME NEW k \in Keys
          PROVE  history'[k] \in Seq(Version)
      <3>1. CASE k \in Gone(c.oldest)
        <4>1. history'[k] = <<>>
          BY <3>1, <1>8
        <4> QED
          BY <4>1
      <3>2. CASE k \notin Gone(c.oldest)
        <4>1. history'[k] = Pruned(history[k], c.oldest)
          BY <3>2, <1>8
        <4> QED
          BY <4>1, <1>7
      <3> QED
        BY <3>1, <3>2
    <2> QED
      BY <2>1, <1>1
  <1>11. Named' = Named \ Gone(c.oldest)
    BY <1>7, <1>8, <1>9 DEF Named
  <1>12. TypeOK'
    <2>1. live \subseteq Named'
      BY <1>2, <1>9, <1>11 DEF TypeOK, Named
    <2>2. deletedAt' \in [Keys -> Stamp]
      BY <1>1, <1>2 DEF TypeOK, Stamp
    <2>3. \A k \in Keys : deletedAt'[k] # Forever => k \in Named' \ live
      BY <1>2, <1>8, <1>11 DEF TypeOK
    <2> QED
      BY <2>1, <2>2, <2>3, <1>1, <1>2, <1>10 DEF TypeOK, Stamp
  <1>13. Stamped'
    <2>1. \A k \in Keys : \A n \in DOMAIN history'[k] : history'[k][n].stamp <= eng.clock
      <3>1. ASSUME NEW k \in Keys, NEW n \in DOMAIN history'[k]
            PROVE  history'[k][n].stamp <= eng.clock
        <4>1. k \notin Gone(c.oldest)
          BY <3>1, <1>8
        <4>2. history'[k] = Pruned(history[k], c.oldest)
          BY <4>1, <1>8
        <4>3. PICK m \in DOMAIN history[k] : history'[k][n] = history[k][m]
          <5>1. n \in DOMAIN Pruned(history[k], c.oldest)
            BY <3>1, <4>2
          <5>2. \E m \in DOMAIN history[k] : Pruned(history[k], c.oldest)[n] = history[k][m]
            BY <5>1, <1>7
          <5> QED
            BY <5>2, <4>2
        <4> QED
          BY <4>3, <1>2 DEF Sound, Stamped
      <3> QED
        BY <3>1
    <2>2. \A k \in Keys : deletedAt'[k] <= eng.clock \/ deletedAt'[k] = Forever
      BY <1>2, <1>8 DEF Sound, Stamped
    <2>3. \A k \in Named' \ live : deletedAt'[k] # Forever
      <3>1. Named' \subseteq Keys
        BY DEF Named
      <3> QED
        BY <3>1, <1>2, <1>8, <1>11 DEF Sound, Stamped
    <2> QED
      BY <2>1, <2>2, <2>3, <1>1 DEF Stamped
  <1>14. Buried(Idle)'
    <2>1. \A ix \in {eng, wal} : \A v \in ix.rows : v.id \in Keys
      BY <1>5, RowFacts
    <2>2. \A ix \in {eng, wal} : \A v \in ix.rows : deletedAt'[v.id] # Forever => v.to <= deletedAt'[v.id]
      BY <2>1, <1>2, <1>4, <1>8 DEF Sound, Buried
    <2>3. ASSUME NEW k \in Keys, deletedAt'[k] # Forever
          PROVE  /\ \E v \in eng.rows : v.to = deletedAt'[k]
                 /\ \E v \in wal.rows : v.to = deletedAt'[k]
      <3>1. deletedAt'[k] = deletedAt[k] /\ deletedAt[k] # Forever /\ ~(deletedAt[k] <= c.oldest)
        BY <2>3, <1>8, <1>9
      <3>2. deletedAt[k] \in Nat
        BY <1>2, <1>6 DEF TypeOK, Stamp
      <3>3. c.oldest <= deletedAt[k]
        BY <3>1, <3>2, <1>6
      <3> QED
        BY <3>1, <3>3, <1>2 DEF Sound, Buried
    <2> QED
      BY <2>2, <2>3, <1>1, IdleFacts DEF Buried, Logged, Step, Idle
  <1>15. ASSUME NEW s \in floor..eng.clock, NEW v \in AsOf(eng, s), s # eng.clock, history[v.id] # <<>>
         PROVE  history'[v.id] # <<>> /\ MetaAt(history'[v.id], s) = MetaAt(history[v.id], s)
    <2>1. v \in eng.rows /\ v.id \in Keys /\ v.to \in Nat /\ s < v.to /\ s \in Nat /\ floor <= s /\ s < eng.clock
      BY <1>2, <1>5, <1>6, <1>15, RowFacts DEF AsOf
    <2>2. c.oldest <= s
      BY <2>1, <1>2, <1>6
    <2>3. v.id \notin Gone(c.oldest)
      <3>1. deletedAt[v.id] # Forever => v.to <= deletedAt[v.id]
        BY <2>1, <1>2, <1>4 DEF Sound, Buried
      <3>2. deletedAt[v.id] \in Nat
        BY <2>1, <1>2, <1>6 DEF TypeOK, Stamp
      <3> QED
        BY <3>1, <3>2, <2>1, <2>2, <1>6, <1>9
    <2>4. UpTo(history[v.id], c.oldest) \subseteq UpTo(history[v.id], s)
      <3>1. history[v.id] \in Seq(Version)
        BY <2>1, <1>2 DEF TypeOK
      <3>2. \A n \in DOMAIN history[v.id] : history[v.id][n].stamp \in Nat
        BY <3>1, StampsAreNat
      <3> QED
        BY <3>2, <2>1, <2>2, <1>6 DEF UpTo
    <2> QED
      BY <2>1, <2>3, <2>4, <1>7, <1>8, <1>15
  <1> QED
    BY <1>1, <1>2, <1>5, <1>12, <1>13, <1>14, <1>15, ReturnSound

-----------------------------------------------------------------------------
(* Theorems.                                                               *)

LEMMA InitCollection ==
  ASSUME NEW t, Threads = {t}, Init
  PROVE  CollectionInv(t)
  <1>1. /\ eng = EmptyIndex /\ wal = EmptyIndex /\ capacity = InitialCapacity /\ growth = "fine"
        /\ history = [k \in Keys |-> <<>>] /\ live = {} /\ deletedAt = [k \in Keys |-> Forever]
        /\ call = [u \in Threads |-> Idle] /\ floor = 0
        /\ seen = [ts \in 0..MaxClock |-> IF ts = 0 THEN {} ELSE NotSeen]
    BY DEF Init
  <1>2. eng.clock = 0 /\ wal.clock = 0 /\ eng.rows = {} /\ wal.rows = {}
    BY <1>1 DEF EmptyIndex
  <1>3. IndexSound(eng) /\ IndexSound(wal) /\ OpenIds(eng) = {} /\ OpenIds(wal) = {}
    <2>1. IndexSound(EmptyIndex)
      BY Limits DEF IndexSound, EmptyIndex
    <2> QED
      BY <2>1, <1>1, <1>2 DEF OpenIds, OpenRows
  <1>4. call[t] = Idle /\ call = [u \in Threads |-> call[t]]
    BY <1>1
  <1>5. TypeOK
    BY <1>1, <1>2, Limits DEF TypeOK, Named, Stamp
  <1>6. EngineFollows(Idle)
    BY <1>1, <1>2, <1>3, IdleFacts, Limits DEF EngineFollows
  <1>7. Stamped
    BY <1>1, <1>2 DEF Stamped, Named
  <1>8. Buried(Idle)
    BY <1>1, <1>2, IdleFacts DEF Buried
  <1>9. Answered(Idle)
    <2>1. AsOf(eng, 0) = {} /\ Query(eng, history, 0) = {}
      BY <1>2 DEF AsOf, Query
    <2>2. Visible(eng, 0) = Visible(wal, 0)
      BY <1>1
    <2>3. floor..eng.clock = {0}
      BY <1>1, <1>2
    <2>4. seen[0] = {} /\ \A s \in 0..MaxClock : s > 0 => seen[s] = NotSeen
      BY <1>1, Limits
    <2>5. floor <= eng.clock /\ \A s \in 0..MaxClock : s > eng.clock => seen[s] = NotSeen
      BY <2>4, <1>1, <1>2
    <2>6. \A s \in {0} : Query(eng, history, s) = seen[s] /\ \A v \in AsOf(eng, s) : history[v.id] # <<>>
      BY <2>1, <2>4
    <2>7. \A s \in {0} : Visible(eng, s) = Visible(wal, s)
      BY <2>2
    <2> QED
      BY <2>3, <2>5, <2>6, <2>7, IdleFacts DEF Answered
  <1>10. seen = [s \in 0..MaxClock |-> seen[s]]
    BY <1>1
  <1> QED
    BY <1>1, <1>4, <1>5, <1>6, <1>7, <1>8, <1>9, <1>10, IdleFacts DEF CollectionInv, Sound

LEMMA StepCollection ==
  ASSUME NEW t, Threads = {t}, ~RepeatedIds, CollectionInv(t), [Next]_vars
  PROVE  CollectionInv(t)'
  <1>1. CASE UNCHANGED vars
    <2> PICK c : c = call[t]
      OBVIOUS
    <2>1. /\ UNCHANGED <<eng, wal, capacity, growth, history, live, deletedAt, call, seen, floor>>
          /\ call'[t] = c
      BY <1>1 DEF vars, index, sidecar
    <2>2. TypeOK' /\ floor' \in Nat
      BY <2>1 DEF CollectionInv, TypeOK, Named
    <2>3. Sound(c) => EngineFollows(c)' /\ Stamped'
      BY <2>1 DEF Sound, EngineFollows, IndexSound, OpenIds, OpenRows, Stamped, Named
    <2>4. Sound(c) => Buried(c)' /\ Answered(c)'
      BY <2>1 DEF Sound, Buried, Answered
    <2>5. Sound(c) => CallSound(c)'
      BY <2>1 DEF Sound, CallSound, IsRecord, IsVacuum
    <2> QED
      BY <2>1, <2>2, <2>3, <2>4, <2>5 DEF CollectionInv, Sound
  <1>2. CASE Next
    <2>1. Write(t) /\ Observe
      BY <1>2 DEF Next
    <2>2. CASE Add(t) \/ Update(t)
      BY <2>1, <2>2, AddSound
    <2>3. CASE UpdateMetadata(t)
      BY <2>1, <2>3, UpdateMetadataSound
    <2>4. CASE DeleteRecords(t)
      BY <2>1, <2>4, DeleteRecordsSound
    <2>5. CASE VacuumAll(t)
      BY <2>1, <2>5, VacuumAllSound
    <2>6. CASE CallInsert(t)
      BY <2>1, <2>6, InsertSound
    <2>7. CASE GrowArena(t)
      BY <2>1, <2>7, GrowSound
    <2>8. CASE CallDelete(t)
      BY <2>1, <2>8, DeleteSound
    <2>9. CASE CallVacuum(t)
      BY <2>1, <2>9, CallVacuumSound
    <2>10. CASE ReadClock(t)
      BY <2>1, <2>10, ReadClockSound
    <2>11. CASE RecordAdd(t)
      BY <2>1, <2>11, RecordAddSound
    <2>12. CASE RecordEdit(t)
      BY <2>1, <2>12, RecordEditSound
    <2>13. CASE RecordDelete(t)
      BY <2>1, <2>13, RecordDeleteSound
    <2>14. CASE PruneHistory(t)
      BY <2>1, <2>14, PruneSound
    <2> QED
      BY <2>1, <2>2, <2>3, <2>4, <2>5, <2>6, <2>7, <2>8, <2>9, <2>10, <2>11, <2>12, <2>13, <2>14 DEF Write
  <1> QED
    BY <1>1, <1>2

\* The inductive invariant holds: what a call carries, which ids are open in
\* the engine and in the log at each of its steps, how stamps relate to the
\* clock and to the ends of vectors, and what earlier answers rest on.
THEOREM CollectionKept ==
  ASSUME NEW t, Threads = {t}, ~RepeatedIds
  PROVE  Spec => []CollectionInv(t)
  <1>1. Init => CollectionInv(t)
    BY InitCollection
  <1>2. CollectionInv(t) /\ [Next]_vars => CollectionInv(t)'
    BY StepCollection
  <1> QED
    BY <1>1, <1>2, PTL DEF Spec

\* With one caller, the dictionaries of the sidecar agree with each other, and
\* between calls get() and query() give the same named records with the same
\* metadata (collection.py: _record, _forget, _grow_arena after the engine's
\* insert_many and delete_many).
THEOREM SidecarAgrees ==
  ASSUME NEW t, Threads = {t}, ~RepeatedIds
  PROVE  Spec => []SidecarSound
  <1>1. CollectionInv(t) => SidecarSound
    <2> SUFFICES ASSUME CollectionInv(t) PROVE SidecarSound
      OBVIOUS
    <2>1. TypeOK
      BY DEF CollectionInv
    <2>2. ASSUME AtRest, growth = "fine"
          PROVE  /\ Get(live, history) = {[id |-> hit.id, meta |-> hit.meta] : hit \in QueryLatest(eng, history)}
                 /\ \A hit \in QueryLatest(eng, history) : hit.named
      <3>1. call[t].pc = "idle" /\ Sound(call[t])
        BY <2>2 DEF AtRest, CollectionInv
      <3>2. call[t] = Idle
        BY <3>1, CallKinds DEF Sound
      <3>3. IndexSound(eng) /\ OpenIds(eng) = live /\ Stamped
        BY <3>1, <3>2, IdleFacts DEF Sound, EngineFollows
      <3>4. /\ history \in [Keys -> Seq(Version)] /\ \A k \in live : history[k] # <<>>
            /\ \A k \in Keys : \A n \in DOMAIN history[k] : history[k][n].stamp <= eng.clock
        BY <2>1, <3>3 DEF TypeOK, Named, Stamped
      <3> QED
        BY <3>3, <3>4, AtRestAgree
    <2> QED
      BY <2>1, <2>2 DEF SidecarSound, SidecarFollows
  <1> QED
    BY <1>1, CollectionKept, PTL

\* With one caller, a snapshot that every vacuum kept answers for ever what the
\* collection answered when its clock last stood there (collection.py: query,
\* _version, _prune_history, and _grow_arena, which refills the arena).
THEOREM SnapshotsAnswer ==
  ASSUME NEW t, Threads = {t}, ~RepeatedIds
  PROVE  Spec => []SnapshotAnswers
  <1>1. CollectionInv(t) => SnapshotAnswers
    <2> SUFFICES ASSUME CollectionInv(t), growth = "fine",
                        NEW ts \in 1..eng.clock, ts >= floor, seen[ts] # NotSeen
                 PROVE  Query(eng, history, ts) = seen[ts]
      BY DEF SnapshotAnswers
    <2>1. Sound(call[t]) /\ floor \in Nat
      BY DEF CollectionInv
    <2>2. eng.clock \in Nat
      BY <2>1, ClockFacts DEF Sound, EngineFollows
    <2>3. ts \in floor..eng.clock
      BY <2>1, <2>2
    <2> QED
      BY <2>1, <2>3 DEF Sound, Answered
  <1> QED
    BY <1>1, CollectionKept, PTL

\* With one caller, a vacuum leaves no version of the sidecar that no snapshot
\* from its horizon on can read, and no deleted record unless the engine holds a
\* vector that the call ended which deleted it (collection.py: _prune_history).
THEOREM VacuumsPrune ==
  ASSUME NEW t, Threads = {t}, ~RepeatedIds
  PROVE  Spec => VacuumPrunes
  <1>1. ASSUME CollectionInv(t), Next
        PROVE  PruneStep
    <2> PICK c : c = call[t]
      OBVIOUS
    <2> SUFFICES ASSUME c.pc = "prune", NEW k \in Keys
                 PROVE  /\ Cardinality(UpTo(history'[k], c.oldest)) <= 1
                        /\ history'[k] # <<>> /\ k \notin live =>
                             \E v \in eng.rows : v.to = deletedAt'[k] /\ v.to >= c.oldest
      BY DEF PruneStep
    <2>1. PruneHistory(t)
      BY <1>1 DEF Next, Write, Add, Update, UpdateMetadata, DeleteRecords, VacuumAll, Start, CallInsert,
         GrowArena, CallDelete, CallVacuum, ReadClock, RecordAdd, RecordEdit, RecordDelete
    <2>2. growth = "fine" /\ Sound(c) /\ TypeOK
      BY <1>1 DEF CollectionInv, Idle
    <2>3. c.oldest \in Nat
      <3>1. IsVacuum(c) /\ IndexSound(eng)
        BY <2>2, CallKinds DEF Sound, EngineFollows
      <3> QED
        BY <3>1, ClockFacts DEF IsVacuum
    <2>4. history[k] \in Seq(Version)
      BY <2>2 DEF TypeOK
    <2>5. CASE k \in Gone(c.oldest)
      <3>1. history'[k] = <<>>
        BY <2>1, <2>5 DEF PruneHistory
      <3>2. UpTo(history'[k], c.oldest) = {} /\ Cardinality({}) = 0
        BY <3>1, FS_EmptySet DEF UpTo
      <3>3. Cardinality(UpTo(history'[k], c.oldest)) <= 1
        BY <3>2
      <3> QED
        BY <3>1, <3>3
    <2>6. CASE k \notin Gone(c.oldest)
      <3>1. history'[k] = Pruned(history[k], c.oldest) /\ deletedAt'[k] = deletedAt[k]
        BY <2>1, <2>6 DEF PruneHistory
      <3>2. Cardinality(UpTo(history'[k], c.oldest)) <= 1 /\ (history'[k] # <<>> => history[k] # <<>>)
        BY <3>1, <2>3, <2>4, PrunedIs
      <3>3. ASSUME history[k] # <<>>, k \notin live
            PROVE  \E v \in eng.rows : v.to = deletedAt[k] /\ v.to >= c.oldest
        <4>1. deletedAt[k] # Forever
          BY <3>3, <2>2 DEF Sound, Stamped, Named
        <4>2. deletedAt[k] \in Nat /\ ~(deletedAt[k] <= c.oldest)
          BY <4>1, <2>2, <2>6, Limits DEF Gone, TypeOK, Stamp
        <4>3. c.oldest <= deletedAt[k]
          BY <4>2, <2>3
        <4>4. \E v \in eng.rows : v.to = deletedAt[k]
          BY <4>1, <4>3, <2>2 DEF Sound, Buried
        <4> QED
          BY <4>3, <4>4
      <3> QED
        BY <3>1, <3>2, <3>3
    <2> QED
      BY <2>5, <2>6
  <1>2. CollectionInv(t) /\ [Next]_vars => [PruneStep]_vars
    BY <1>1
  <1> QED
    BY <1>2, CollectionKept, PTL DEF Spec, VacuumPrunes

=============================================================================
