---------------------------- MODULE BranchesProof ----------------------------
(***************************************************************************)
(* Theorems about BranchableMemory, for any ids, values, names, agents and *)
(* bounds: its books agree, a search as of a snapshot no purge reached     *)
(* gives what main held then, whatever is merged, deleted and purged, and  *)
(* the memory implements BranchStore.                                      *)
(***************************************************************************)
EXTENDS BranchableMemory, FiniteSetTheorems, SequenceTheorems, TLAPS

AllVals == Vals \cup BranchVals
AllRows(T) == [id : Ids, val : T, label : {{}}, from : Nat \ {0}, to : Nat]
NewRows(T) == [id : Ids, val : T, label : {{}}]

\* The versions of one id follow each other.
IndexSound(ix, T) ==
  /\ ix \in [clock : Nat, rows : SUBSET AllRows(T)]
  /\ \A v \in ix.rows : v.from <= ix.clock /\ v.from < v.to /\ (v.to <= ix.clock \/ v.to = Forever)
  /\ \A v, w \in ix.rows : v.id = w.id /\ v.from < w.to /\ w.from < v.to => v = w

Pairs(ix, s) == {<<v.id, v.val>> : v \in AsOf(ix, s)}

-----------------------------------------------------------------------------
(* The index.                                                              *)

NewRow(n, ts) == [id |-> n.id, val |-> n.val, label |-> n.label, from |-> ts, to |-> Forever]

\* Where a row of a commit comes from.
LEMMA CommitRow ==
  ASSUME NEW ix, NEW gone, NEW new, NEW r \in Commit(ix, gone, new).rows
  PROVE  \/ r \in ix.rows /\ ~(r.to = Forever /\ r.id \in gone \cup RowIds(new))
         \/ \E v \in ix.rows : /\ v.to = Forever /\ v.id \in gone \cup RowIds(new)
                               /\ r = [v EXCEPT !.to = ix.clock + 1]
         \/ \E n \in new : r = NewRow(n, ix.clock + 1)
  BY DEF Commit, OpenRows, NewRow

LEMMA CommitHas ==
  ASSUME NEW ix, NEW gone, NEW new
  PROVE  /\ Commit(ix, gone, new).clock = ix.clock + 1
         /\ \A v \in ix.rows :
              IF v.to = Forever /\ v.id \in gone \cup RowIds(new)
              THEN [v EXCEPT !.to = ix.clock + 1] \in Commit(ix, gone, new).rows
              ELSE v \in Commit(ix, gone, new).rows
         /\ \A n \in new : NewRow(n, ix.clock + 1) \in Commit(ix, gone, new).rows
  BY DEF Commit, OpenRows, NewRow

\* A row that ends: its fields.
LEMMA EndedRow ==
  ASSUME NEW T, NEW v \in AllRows(T), NEW ts \in Nat
  PROVE  /\ [v EXCEPT !.to = ts] \in AllRows(T)
         /\ [v EXCEPT !.to = ts].id = v.id /\ [v EXCEPT !.to = ts].val = v.val
         /\ [v EXCEPT !.to = ts].from = v.from /\ [v EXCEPT !.to = ts].to = ts
  BY DEF AllRows

LEMMA StartedRow ==
  ASSUME NEW T, NEW n \in NewRows(T), NEW ts \in Nat \ {0}
  PROVE  /\ NewRow(n, ts) \in AllRows(T)
         /\ NewRow(n, ts).id = n.id /\ NewRow(n, ts).val = n.val
         /\ NewRow(n, ts).from = ts /\ NewRow(n, ts).to = Forever
  BY Bounds DEF AllRows, NewRows, NewRow

\* A commit keeps the versions of an id one after the other.
LEMMA CommitSound ==
  ASSUME NEW T, NEW ix, IndexSound(ix, T), ix.clock + 1 < Forever, NEW gone,
         NEW new \in SUBSET NewRows(T), \A m, n \in new : m.id = n.id => m = n
  PROVE  IndexSound(Commit(ix, gone, new), T)
  <1> DEFINE ts == ix.clock + 1
             C == Commit(ix, gone, new)
             ended == gone \cup RowIds(new)
             Kept(r) == r \in ix.rows /\ ~(r.to = Forever /\ r.id \in ended)
             Ends(r, v) == v \in ix.rows /\ v.to = Forever /\ v.id \in ended /\ r = [v EXCEPT !.to = ts]
             Starts(r, n) == n \in new /\ r = NewRow(n, ts)
  <1>1. ts \in Nat /\ ts # 0 /\ ix.clock \in Nat /\ ts = ix.clock + 1 /\ ts < Forever /\ Forever \in Nat
    BY Bounds DEF IndexSound
  <1>2. C.clock = ts /\ C = [clock |-> C.clock, rows |-> C.rows]
    BY DEF Commit
  <1>3. ASSUME NEW r \in C.rows
        PROVE  Kept(r) \/ (\E v : Ends(r, v)) \/ (\E n : Starts(r, n))
    BY CommitRow
  <1>a. \A v \in AllRows(T) : v.from \in Nat /\ v.to \in Nat
    BY DEF AllRows
  <1>b. \A v, w \in ix.rows : v.id = w.id /\ v.from < w.to /\ w.from < v.to => v = w
    BY DEF IndexSound
  <1>c. \A v \in ix.rows : /\ v \in AllRows(T) /\ v.from <= ix.clock /\ v.from < v.to
                           /\ v.to <= ix.clock \/ v.to = Forever
    BY DEF IndexSound
  <1>d. \A n \in new : n \in NewRows(T) /\ n.id \in ended
    BY DEF RowIds
  <1> HIDE DEF ended
  <1>4. ASSUME NEW r, NEW v, Ends(r, v)
        PROVE  /\ r \in AllRows(T) /\ r.id = v.id /\ r.from = v.from /\ r.to = ts
               /\ v.from <= ix.clock /\ v.to = Forever
    <2>1. v \in AllRows(T) /\ v.from <= ix.clock /\ v.to = Forever /\ r = [v EXCEPT !.to = ts]
      BY <1>4, <1>c, <1>a, <1>1
    <2> HIDE DEF ts
    <2> QED
      BY <2>1, <1>1, EndedRow
  <1>5. ASSUME NEW r, NEW n, Starts(r, n)
        PROVE  r \in AllRows(T) /\ r.id = n.id /\ r.from = ts /\ r.to = Forever /\ r.id \in ended
    <2>1. n \in NewRows(T) /\ n.id \in ended /\ r = NewRow(n, ts)
      BY <1>5, <1>d
    <2> HIDE DEF ts
    <2> QED
      BY <2>1, <1>1, StartedRow
  <1>6. ASSUME NEW r, Kept(r)
        PROVE  /\ r \in AllRows(T) /\ r.from <= ix.clock /\ r.from < r.to /\ r.to \in Nat /\ r.from \in Nat
               /\ r.to <= ix.clock \/ (r.to = Forever /\ r.id \notin ended)
    BY <1>6, <1>a, <1>c
  <1> HIDE DEF ts, C
  <1>7. ASSUME NEW r \in C.rows
        PROVE  r \in AllRows(T) /\ r.from <= ts /\ r.from < r.to /\ (r.to <= ts \/ r.to = Forever)
    <2>1. CASE Kept(r)
      BY <2>1, <1>6, <1>1
    <2>2. CASE \E v : Ends(r, v)
      BY <2>2, <1>4, <1>1, <1>a
    <2>3. CASE \E n : Starts(r, n)
      BY <2>3, <1>5, <1>1
    <2> QED
      BY <2>1, <2>2, <2>3, <1>3
  <1>8. ASSUME NEW r \in C.rows, NEW q \in C.rows, r.id = q.id, r.from < q.to, q.from < r.to
        PROVE  r = q
    <2>1. ASSUME NEW p, NEW o, NEW n, Starts(p, n), p.id = o.id, o.from < p.to, p.from < o.to,
                 Kept(o) \/ \E v : Ends(o, v)
          PROVE  FALSE
      <3>1. p.from = ts /\ p.id \in ended
        BY <2>1, <1>5
      <3>2. CASE Kept(o)
        BY <3>1, <3>2, <2>1, <1>6, <1>1
      <3>3. CASE \E v : Ends(o, v)
        BY <3>1, <3>3, <2>1, <1>4, <1>1
      <3> QED
        BY <2>1, <3>2, <3>3
    <2>2. ASSUME NEW p, NEW o, NEW v, Ends(p, v), Kept(o), p.id = o.id, o.from < p.to, p.from < o.to
          PROVE  FALSE
      <3>1. v.id = o.id /\ v.from < o.to /\ o.from < v.to /\ v \in ix.rows /\ o \in ix.rows
        BY <2>2, <1>4, <1>6, <1>1
      <3>2. v = o
        BY <3>1, <1>b
      <3> QED
        BY <3>2, <2>2
    <2>3. CASE Kept(r) /\ Kept(q)
      BY <2>3, <1>8, <1>b
    <2>4. ASSUME NEW v, NEW w, Ends(r, v), Ends(q, w)
          PROVE  r = q
      <3>1. v.id = w.id /\ v.from < w.to /\ w.from < v.to /\ v \in ix.rows /\ w \in ix.rows
        BY <2>4, <1>8, <1>4, <1>1, <1>a, <1>c
      <3> QED
        BY <3>1, <2>4, <1>b
    <2>5. ASSUME NEW m, NEW n, Starts(r, m), Starts(q, n)
          PROVE  r = q
      BY <2>5, <1>5, <1>8
    <2> QED
      BY <1>8, <1>3, <2>1, <2>2, <2>3, <2>4, <2>5
  <1>9. C \in [clock : Nat, rows : SUBSET AllRows(T)]
    BY <1>2, <1>1, <1>7
  <1> QED
    <2>1. IndexSound(C, T)
      BY <1>9, <1>7, <1>8, <1>2 DEF IndexSound
    <2> QED
      BY <2>1 DEF C

LEMMA RowFacts ==
  ASSUME NEW T, NEW ix, IndexSound(ix, T)
  PROVE  /\ ix.clock \in Nat
         /\ \A v \in ix.rows : /\ v \in AllRows(T) /\ v.id \in Ids /\ v.val \in T /\ v.from \in Nat /\ v.to \in Nat
                               /\ v.from # 0 /\ v.from <= ix.clock /\ v.from < v.to
                               /\ v.to <= ix.clock \/ v.to = Forever
         /\ \A v, w \in ix.rows : v.id = w.id /\ v.from < w.to /\ w.from < v.to => v = w
  BY DEF IndexSound, AllRows

LEMMA AsOfNow ==
  ASSUME NEW T, NEW ix, IndexSound(ix, T), ix.clock < Forever
  PROVE  AsOf(ix, ix.clock) = OpenRows(ix)
  BY RowFacts, Bounds DEF AsOf, OpenRows

\* At any snapshot an id has one version.
LEMMA OneVersion ==
  ASSUME NEW T, NEW ix, IndexSound(ix, T), NEW s \in Nat,
         NEW v \in AsOf(ix, s), NEW w \in AsOf(ix, s), v.id = w.id
  PROVE  v = w
  BY RowFacts DEF AsOf

LEMMA OneOpenVersion ==
  ASSUME NEW T, NEW ix, IndexSound(ix, T), ix.clock < Forever,
         NEW v \in OpenRows(ix), NEW w \in OpenRows(ix), v.id = w.id
  PROVE  v = w
  BY AsOfNow, OneVersion, RowFacts

\* A commit does not change what the snapshots before it hold.
LEMMA CommitPast ==
  ASSUME NEW T, NEW ix, IndexSound(ix, T), ix.clock + 1 < Forever, NEW gone,
         NEW new \in SUBSET NewRows(T), NEW s \in Nat, s <= ix.clock
  PROVE  Pairs(Commit(ix, gone, new), s) = Pairs(ix, s)
  <1> DEFINE ts == ix.clock + 1
             C == Commit(ix, gone, new)
             ended == gone \cup RowIds(new)
  <1>1. ts \in Nat /\ ix.clock \in Nat /\ s < ts /\ ts < Forever /\ Forever \in Nat
    BY Bounds, RowFacts
  <1>2. \A v \in ix.rows : v \in AllRows(T) /\ v.from \in Nat /\ v.to \in Nat
    BY RowFacts
  <1>3. ASSUME NEW v \in AsOf(ix, s)
        PROVE  \E r \in AsOf(C, s) : r.id = v.id /\ r.val = v.val
    <2>1. v \in ix.rows /\ v.from <= s /\ s < v.to
      BY DEF AsOf
    <2>2. CASE v.to = Forever /\ v.id \in ended
      <3>1. [v EXCEPT !.to = ts] \in C.rows
        BY <2>1, <2>2, CommitHas
      <3>2. /\ [v EXCEPT !.to = ts].id = v.id /\ [v EXCEPT !.to = ts].val = v.val
            /\ [v EXCEPT !.to = ts].from = v.from /\ [v EXCEPT !.to = ts].to = ts
        <4> HIDE DEF ts
        <4> QED
          BY <2>1, <1>1, <1>2, EndedRow
      <3> HIDE DEF ts, C
      <3> QED
        BY <3>1, <3>2, <2>1, <1>1 DEF AsOf
    <2>3. CASE ~(v.to = Forever /\ v.id \in ended)
      <3>1. v \in C.rows
        BY <2>1, <2>3, CommitHas
      <3> HIDE DEF C
      <3> QED
        BY <3>1, <2>1 DEF AsOf
    <2> QED
      BY <2>2, <2>3
  <1>4. ASSUME NEW r \in AsOf(C, s)
        PROVE  \E v \in AsOf(ix, s) : r.id = v.id /\ r.val = v.val
    <2>1. r \in C.rows /\ r.from <= s /\ s < r.to
      BY DEF AsOf
    <2>2. CASE r \in ix.rows
      BY <2>1, <2>2 DEF AsOf
    <2>3. ASSUME NEW v \in ix.rows, v.to = Forever, r = [v EXCEPT !.to = ts]
          PROVE  v \in AsOf(ix, s) /\ r.id = v.id /\ r.val = v.val
      <3>1. r.id = v.id /\ r.val = v.val /\ r.from = v.from
        <4> HIDE DEF ts
        <4> QED
          BY <2>3, <1>1, <1>2, EndedRow
      <3> QED
        BY <3>1, <2>1, <2>3, <1>1, <1>2 DEF AsOf
    <2>4. ASSUME NEW n \in new, r = NewRow(n, ts)
          PROVE  FALSE
      <3>1. r.from = ts
        BY <2>4 DEF NewRow
      <3> HIDE DEF ts
      <3> QED
        BY <3>1, <2>1, <1>1
    <2> QED
      BY <2>1, <2>2, <2>3, <2>4, CommitRow
  <1> HIDE DEF C
  <1>5. Pairs(C, s) = Pairs(ix, s)
    BY <1>3, <1>4 DEF Pairs
  <1> QED
    BY <1>5 DEF C

\* The open rows after a commit: those it did not end and its own.
LEMMA CommitOpen ==
  ASSUME NEW T, NEW ix, IndexSound(ix, T), ix.clock + 1 < Forever, NEW gone,
         NEW new \in SUBSET NewRows(T)
  PROVE  OpenRows(Commit(ix, gone, new))
           = {v \in OpenRows(ix) : v.id \notin gone \cup RowIds(new)}
             \cup {NewRow(n, ix.clock + 1) : n \in new}
  <1> DEFINE ts == ix.clock + 1
             C == Commit(ix, gone, new)
             ended == gone \cup RowIds(new)
  <1>1. ts \in Nat /\ ts < Forever /\ Forever \in Nat
    BY Bounds, RowFacts
  <1>2. \A n \in new : NewRow(n, ts) \in C.rows /\ NewRow(n, ts).to = Forever
    BY CommitHas DEF NewRow
  <1>3. ASSUME NEW r \in C.rows, r.to = Forever
        PROVE  \/ r \in ix.rows /\ r.id \notin ended
               \/ \E n \in new : r = NewRow(n, ts)
    <2>1. ASSUME NEW v \in ix.rows, r = [v EXCEPT !.to = ts]
          PROVE  FALSE
      <3>1. r.to = ts
        <4> HIDE DEF ts
        <4> QED
          BY <2>1, <1>1, RowFacts, EndedRow
      <3> HIDE DEF ts
      <3> QED
        BY <3>1, <1>3, <1>1
    <2> QED
      BY <2>1, <1>3, CommitRow
  <1>4. ASSUME NEW v \in ix.rows, v.to = Forever, v.id \notin ended
        PROVE  v \in C.rows
    BY <1>4, CommitHas
  <1> HIDE DEF C, ts, ended
  <1>5. OpenRows(C) = {v \in OpenRows(ix) : v.id \notin ended} \cup {NewRow(n, ts) : n \in new}
    BY <1>2, <1>3, <1>4 DEF OpenRows
  <1> QED
    BY <1>5 DEF C, ts, ended

LEMMA CommitOpenIds ==
  ASSUME NEW T, NEW ix, IndexSound(ix, T), ix.clock + 1 < Forever, NEW gone,
         NEW new \in SUBSET NewRows(T)
  PROVE  OpenIds(Commit(ix, gone, new)) = (OpenIds(ix) \ gone) \cup RowIds(new)
  <1>1. \A n \in new : NewRow(n, ix.clock + 1).id = n.id
    BY DEF NewRow
  <1> QED
    BY <1>1, CommitOpen DEF OpenIds, RowIds

\* What main holds right after a commit.
LEMMA CommitNow ==
  ASSUME NEW T, NEW ix, IndexSound(ix, T), ix.clock + 1 < Forever, NEW gone,
         NEW new \in SUBSET NewRows(T), \A m, n \in new : m.id = n.id => m = n
  PROVE  Pairs(Commit(ix, gone, new), ix.clock + 1)
           = {p \in Pairs(ix, ix.clock) : p[1] \notin gone \cup RowIds(new)}
             \cup {<<n.id, n.val>> : n \in new}
  <1>1. /\ IndexSound(Commit(ix, gone, new), T) /\ Commit(ix, gone, new).clock = ix.clock + 1
        /\ ix.clock < Forever
    BY CommitSound, CommitHas, RowFacts, Bounds
  <1>2. /\ AsOf(Commit(ix, gone, new), ix.clock + 1) = OpenRows(Commit(ix, gone, new))
        /\ AsOf(ix, ix.clock) = OpenRows(ix)
    BY <1>1, AsOfNow
  <1>3. \A n \in new : NewRow(n, ix.clock + 1).id = n.id /\ NewRow(n, ix.clock + 1).val = n.val
    BY DEF NewRow
  <1> QED
    BY <1>2, <1>3, CommitOpen DEF Pairs

\* Vacuum takes away closed versions that no snapshot from the horizon on holds.
LEMMA VacuumSound ==
  ASSUME NEW T, NEW ix, IndexSound(ix, T), NEW h \in Nat
  PROVE  /\ IndexSound(Vacuum(ix, h), T)
         /\ Vacuum(ix, h).clock = ix.clock
         /\ Vacuum(ix, h).rows = {v \in ix.rows : v.to >= h}
         /\ \A s \in Nat : s + 1 >= h => AsOf(Vacuum(ix, h), s) = AsOf(ix, s)
         /\ ix.clock < Forever /\ h <= ix.clock + 1 => OpenRows(Vacuum(ix, h)) = OpenRows(ix)
  <1>1. ix \in [clock : Nat, rows : SUBSET AllRows(T)]
    BY DEF IndexSound
  <1>2. /\ Vacuum(ix, h) = [ix EXCEPT !.rows = {v \in ix.rows : v.to >= h}]
    BY DEF Vacuum
  <1>3. /\ Vacuum(ix, h) \in [clock : Nat, rows : SUBSET AllRows(T)]
        /\ Vacuum(ix, h).clock = ix.clock
        /\ Vacuum(ix, h).rows = {v \in ix.rows : v.to >= h}
    BY <1>1, <1>2
  <1>4. IndexSound(Vacuum(ix, h), T)
    BY <1>3 DEF IndexSound
  <1>5. ASSUME NEW s \in Nat, s + 1 >= h
        PROVE  AsOf(Vacuum(ix, h), s) = AsOf(ix, s)
    BY <1>3, <1>5, RowFacts DEF AsOf
  <1>6. ix.clock < Forever /\ h <= ix.clock + 1 => OpenRows(Vacuum(ix, h)) = OpenRows(ix)
    BY <1>3, RowFacts, Bounds DEF OpenRows
  <1> QED
    BY <1>3, <1>4, <1>5, <1>6

LEMMA EmptySound ==
  ASSUME NEW T
  PROVE  IndexSound(EmptyIndex, T) /\ OpenRows(EmptyIndex) = {} /\ OpenIds(EmptyIndex) = {}
  BY DEF IndexSound, EmptyIndex, OpenRows, OpenIds

\* A search for as many rows as there are ids finds them all.
LEMMA NearestAll ==
  ASSUME NEW T, T \subseteq Nat, NEW S \in SUBSET AllRows(T), \A v, w \in S : v.id = w.id => v = w,
         NEW k \in Nat, k >= Everything
  PROVE  Nearest(S, k) = S
  <1> SUFFICES ASSUME NEW v \in S
               PROVE  Cardinality({w \in S : Closer(w, v)}) < k
    BY DEF Nearest
  <1> DEFINE W == {w \in S : Closer(w, v)}
             f == [w \in W |-> w.id]
             I == Ids \ {v.id}
  <1>1. \A w \in S : w.id \in Ids /\ w.id \in Nat /\ w.val \in Nat
    BY Bounds DEF AllRows
  <1>2. \A w \in W : w.id \in I
    BY <1>1 DEF Closer
  <1>3. f \in Injection(W, I)
    BY <1>2 DEF Injection, IsInjective
  <1>4. IsFiniteSet(I) /\ Cardinality(I) = Cardinality(Ids) - 1 /\ Cardinality(Ids) \in Nat
    BY <1>1, Bounds, FS_RemoveElement, FS_CardinalityType
  <1>5. IsFiniteSet(W) /\ Cardinality(W) <= Cardinality(I)
    <2> HIDE DEF W, I, f
    <2> QED
      BY <1>3, <1>4, FS_Injection
  <1>6. Cardinality(W) \in Nat
    BY <1>5, FS_CardinalityType
  <1> QED
    BY <1>4, <1>5, <1>6 DEF Everything

-----------------------------------------------------------------------------
(* Main: what its books say of the index.                                  *)

Entries == [stamp : Nat, val : AllVals]

Shapes ==
  /\ IndexSound(index, AllVals) /\ index.clock \in 0..MaxClock
  /\ records \in [DOMAIN records -> [val : AllVals, deleted_at : Nat \cup {Nothing}]]
  /\ history \in [DOMAIN records -> Seq(Entries)]
  /\ versions \in [DOMAIN records -> Seq(0..MaxClock)]
  /\ DOMAIN records \subseteq Ids
  /\ \A id \in DOMAIN versions : versions[id] # <<>>
  /\ horizon \in Nat /\ horizon <= index.clock + 1
  /\ timeline \in Seq(SUBSET (Ids \X AllVals)) /\ Len(timeline) = index.clock

\* An id is live exactly if the engine has an open version of it; of an id
\* that is not, no version outlives the deletion.
RecordsSound ==
  /\ \A v \in index.rows : v.id \in DOMAIN records
  /\ \A v \in OpenRows(index) : Live(v.id) /\ records[v.id].val = v.val
  /\ \A id \in DOMAIN records : Live(id) => id \in OpenIds(index)
  /\ \A id \in DOMAIN records : ~Live(id) => records[id].deleted_at \in 0..index.clock
  /\ \A v \in index.rows : ~Live(v.id) => v.to <= records[v.id].deleted_at

\* The history has the write that made the row, and no other before its end.
WrittenAs(v, seq) ==
  \E n \in DOMAIN seq : /\ seq[n] = [stamp |-> v.from, val |-> v.val]
                        /\ \A m \in n + 1..Len(seq) : seq[m].stamp >= v.to
HistorySound == \A v \in index.rows : WrittenAs(v, history[v.id])

MainState(s) == IF s = 0 THEN {} ELSE timeline[s]

TimelineSound == \A s \in 1..index.clock : s + 1 >= horizon => timeline[s] = Pairs(index, s)

MainInv == Shapes /\ RecordsSound /\ HistorySound /\ TimelineSound

\* The payload of a version, while it was the latest, is the one stored with it.
LEMMA PayloadAt ==
  ASSUME MainInv, NEW v \in index.rows, NEW s \in Nat, v.from <= s, s < v.to
  PROVE  record_at(v.id, s) = v.val
  <1> DEFINE seq == Numbers(history, v.id)
             stamps == [n \in DOMAIN seq |-> seq[n].stamp]
  <1>1. v.id \in DOMAIN history /\ seq \in Seq(Entries) /\ seq = history[v.id]
    BY DEF MainInv, Shapes, RecordsSound, Numbers, Has
  <1>2. PICK n \in DOMAIN seq : /\ seq[n] = [stamp |-> v.from, val |-> v.val]
                                /\ \A m \in n + 1..Len(seq) : seq[m].stamp >= v.to
    BY <1>1 DEF MainInv, HistorySound, WrittenAs
  <1>3. v.from \in Nat /\ v.to \in Nat
    BY RowFacts DEF MainInv, Shapes
  <1>4. /\ DOMAIN seq = 1..Len(seq) /\ Len(seq) \in Nat
        /\ \A m \in DOMAIN seq : seq[m] \in Entries /\ seq[m].stamp \in Nat
    <2> HIDE DEF seq
    <2>1. DOMAIN seq = 1..Len(seq) /\ Len(seq) \in Nat /\ \A m \in DOMAIN seq : seq[m] \in Entries
      BY <1>1, LenProperties, ElementOfSeq
    <2> QED
      BY <2>1 DEF Entries
  <1> HIDE DEF seq
  <1>5. Len(stamps) = Len(seq) /\ DOMAIN stamps = DOMAIN seq
    <2>1. stamps \in Seq(Nat)
      BY <1>4 DEF Seq
    <2> QED
      BY <2>1, <1>4, LenProperties
  <1>6. \A m \in DOMAIN seq : stamps[m] = seq[m].stamp
    OBVIOUS
  <1> HIDE DEF stamps
  <1>7. n \in LastUpTo(stamps, s)
    BY <1>2, <1>3, <1>4, <1>5, <1>6 DEF LastUpTo
  <1>8. \A m \in LastUpTo(stamps, s) : m = n
    BY <1>7, <1>4, <1>5, <1>6 DEF LastUpTo
  <1>9. (CHOOSE m \in LastUpTo(stamps, s) : TRUE) = n /\ LastUpTo(stamps, s) # {}
    BY <1>7, <1>8
  <1>10. record_at(v.id, s) = IF LastUpTo(stamps, s) = {} THEN Nothing
                              ELSE seq[CHOOSE m \in LastUpTo(stamps, s) : TRUE].val
    BY DEF record_at, stamps, seq
  <1>11. record_at(v.id, s) = seq[n].val
    BY <1>9, <1>10
  <1> QED
    BY <1>11, <1>2

LEMMA ValsAreNumbers == AllVals \subseteq Nat /\ Nothing \notin AllVals /\ Nothing \notin Nat
  BY Bounds DEF AllVals

\* As long as it is nearest, a row of a snapshot is shown with its own payload.
LEMMA MainShows ==
  ASSUME MainInv, NEW s \in Nat, NEW k \in Nat, k >= Everything
  PROVE  /\ MainSearchAt(s, k) = {Hit(v.id, v.val, v.val) : v \in AsOf(index, s)}
         /\ Shown(MainSearchAt(s, k)) = Pairs(index, s)
  <1>1. IndexSound(index, AllVals)
    BY DEF MainInv, Shapes
  <1>2. AsOf(index, s) \in SUBSET AllRows(AllVals)
        /\ \A v, w \in AsOf(index, s) : v.id = w.id => v = w
    BY <1>1, OneVersion DEF IndexSound, AsOf
  <1>3. Nearest(AsOf(index, s), k) = AsOf(index, s)
    BY <1>2, NearestAll, ValsAreNumbers
  <1>4. \A v \in AsOf(index, s) : record_at(v.id, s) = v.val /\ v.val # Nothing
    BY PayloadAt, <1>1, RowFacts, ValsAreNumbers DEF AsOf
  <1>5. MainSearchAt(s, k) = {Hit(v.id, v.val, v.val) : v \in AsOf(index, s)}
    BY <1>3, <1>4 DEF MainSearchAt, WithRecord, Hit
  <1>6. \A v : Hit(v.id, v.val, v.val).id = v.id /\ Hit(v.id, v.val, v.val).val = v.val
               /\ Hit(v.id, v.val, v.val).payload = v.val
    BY DEF Hit
  <1> QED
    BY <1>5, <1>6 DEF Shown, Pairs

LEMMA EverythingNat == Everything \in Nat
  BY Bounds, FS_CardinalityType DEF Everything

LEMMA InvSnapshots ==
  ASSUME MainInv
  PROVE  Snapshots
  <1>1. ASSUME NEW s \in 1..index.clock, s + 1 >= horizon
        PROVE  Shown(MainSearchAt(s, Everything)) = timeline[s]
    <2>1. s \in Nat /\ Everything \in Nat /\ Everything >= Everything
      BY EverythingNat, Bounds DEF MainInv, Shapes
    <2>2. Shown(MainSearchAt(s, Everything)) = Pairs(index, s)
      BY <2>1, MainShows
    <2> QED
      BY <1>1, <2>2 DEF MainInv, TimelineSound
  <1> QED
    BY <1>1 DEF Snapshots

-----------------------------------------------------------------------------
(* A commit on main.                                                       *)

\* The rows a commit adds for the values `new' maps ids to.
Fresh(new) == {Row(id, new[id], {}) : id \in DOMAIN new}

LEMMA FreshRows ==
  ASSUME NEW T, NEW new, new \in [DOMAIN new -> T], DOMAIN new \subseteq Ids
  PROVE  /\ Fresh(new) \in SUBSET NewRows(T)
         /\ \A m, n \in Fresh(new) : m.id = n.id => m = n
         /\ RowIds(Fresh(new)) = DOMAIN new
         /\ {<<n.id, n.val>> : n \in Fresh(new)} = {<<id, new[id]>> : id \in DOMAIN new}
         /\ \A n \in Fresh(new) : n.id \in DOMAIN new /\ n.val = new[n.id]
         /\ Fresh(new) = {} <=> DOMAIN new = {}
  <1>1. \A id : /\ Row(id, new[id], {}).id = id /\ Row(id, new[id], {}).val = new[id]
    BY DEF Row
  <1>2. \A id \in DOMAIN new : Row(id, new[id], {}) \in NewRows(T)
    BY DEF Row, NewRows
  <1>3. \A n \in Fresh(new) : n \in NewRows(T) /\ n.id \in DOMAIN new /\ n.val = new[n.id]
                              /\ n = Row(n.id, new[n.id], {})
    BY <1>1, <1>2 DEF Fresh
  <1>4. \A id \in DOMAIN new : \E n \in Fresh(new) : n.id = id
    BY <1>1 DEF Fresh
  <1>5. RowIds(Fresh(new)) = DOMAIN new
    BY <1>3, <1>4 DEF RowIds
  <1>6. {<<n.id, n.val>> : n \in Fresh(new)} = {<<id, new[id]>> : id \in DOMAIN new}
    BY <1>3, <1>4
  <1>7. Fresh(new) = {} <=> DOMAIN new = {}
    BY <1>3, <1>4
  <1> QED
    BY <1>3, <1>5, <1>6, <1>7

\* A row of main after a commit at ts that stores `new' and ends `gone'.
LEMMA RowAfter ==
  ASSUME NEW ix, IndexSound(ix, AllVals), ix.clock + 1 < Forever, NEW gone, NEW new,
         new \in [DOMAIN new -> AllVals], DOMAIN new \subseteq Ids,
         NEW r \in Commit(ix, gone, Fresh(new)).rows
  PROVE  \/ r \in ix.rows /\ (r.to <= ix.clock \/ (r.to = Forever /\ r.id \notin gone \cup DOMAIN new))
         \/ /\ r.to = ix.clock + 1 /\ r.id \in gone \cup DOMAIN new
            /\ \E v \in ix.rows : v.to = Forever /\ v.id = r.id /\ v.val = r.val /\ v.from = r.from
         \/ r.from = ix.clock + 1 /\ r.to = Forever /\ r.id \in DOMAIN new /\ r.val = new[r.id]
  <1>1. /\ RowIds(Fresh(new)) = DOMAIN new
        /\ \A n \in Fresh(new) : n.id \in DOMAIN new /\ n.val = new[n.id]
    BY FreshRows
  <1>2. CASE r \in ix.rows /\ ~(r.to = Forever /\ r.id \in gone \cup RowIds(Fresh(new)))
    BY <1>1, <1>2, RowFacts
  <1>3. ASSUME NEW v \in ix.rows, v.to = Forever, v.id \in gone \cup RowIds(Fresh(new)),
               r = [v EXCEPT !.to = ix.clock + 1]
        PROVE  /\ r.to = ix.clock + 1 /\ r.id \in gone \cup DOMAIN new
               /\ v.id = r.id /\ v.val = r.val /\ v.from = r.from
    <2>1. v \in AllRows(AllVals) /\ ix.clock + 1 \in Nat
      BY RowFacts
    <2>2. r.id = v.id /\ r.val = v.val /\ r.from = v.from /\ r.to = ix.clock + 1
      BY <2>1, <1>3, EndedRow
    <2> QED
      BY <2>2, <1>1, <1>3
  <1>4. ASSUME NEW n \in Fresh(new), r = NewRow(n, ix.clock + 1)
        PROVE  r.from = ix.clock + 1 /\ r.to = Forever /\ r.id \in DOMAIN new /\ r.val = new[r.id]
    BY <1>1, <1>4 DEF NewRow
  <1> QED
    BY <1>2, <1>3, <1>4, CommitRow

\* The hypotheses of a step that commits on main.
CommitsMain(new, gone) ==
  /\ index.clock < MaxClock
  /\ new \in [DOMAIN new -> AllVals] /\ DOMAIN new \subseteq Ids /\ gone \subseteq DOMAIN records
  /\ index' = Commit(index, gone, Fresh(new))
  /\ Stored(new, gone, index.clock + 1)
  /\ timeline' = Append(timeline, After(new, gone))
  /\ horizon' = horizon

LEMMA StoredRecords ==
  ASSUME NEW new, NEW gone, NEW ts, Stored(new, gone, ts), Shapes,
         new \in [DOMAIN new -> AllVals], DOMAIN new \subseteq Ids, gone \subseteq DOMAIN records, ts \in Nat
  PROVE  /\ records' \in [DOMAIN records' -> [val : AllVals, deleted_at : Nat \cup {Nothing}]]
         /\ DOMAIN records' = DOMAIN new \cup DOMAIN records
         /\ \A id \in DOMAIN new : records'[id].val = new[id] /\ records'[id].deleted_at = Nothing
         /\ \A id \in DOMAIN records \ DOMAIN new :
              /\ records'[id].val = records[id].val
              /\ records'[id].deleted_at = IF id \in gone THEN ts ELSE records[id].deleted_at
         /\ \A id : Live(id)' <=> id \in DOMAIN new \/ (Live(id) /\ id \notin gone)
  <1> DEFINE R == [val : AllVals, deleted_at : Nat \cup {Nothing}]
             f == [id \in DOMAIN new |-> [val |-> new[id], deleted_at |-> Nothing]]
             g == [id \in DOMAIN records |->
                     IF id \in gone THEN [records[id] EXCEPT !.deleted_at = ts] ELSE records[id]]
  <1>1. records' = Over(f, g)
    BY DEF Stored
  <1>2. \A id \in DOMAIN records : records[id] \in R
    BY DEF Shapes
  <1>3. \A id \in DOMAIN new : f[id] \in R /\ f[id].val = new[id] /\ f[id].deleted_at = Nothing
    OBVIOUS
  <1>4. \A id \in DOMAIN records : /\ g[id] \in R /\ g[id].val = records[id].val
                                   /\ g[id].deleted_at = IF id \in gone THEN ts ELSE records[id].deleted_at
    BY <1>2
  <1>5. DOMAIN f = DOMAIN new /\ DOMAIN g = DOMAIN records
    OBVIOUS
  <1> HIDE DEF f, g
  <1>6. records' = [id \in DOMAIN new \cup DOMAIN records |-> IF id \in DOMAIN new THEN f[id] ELSE g[id]]
    BY <1>1, <1>5 DEF Over
  <1>7. /\ DOMAIN records' = DOMAIN new \cup DOMAIN records
        /\ \A id \in DOMAIN new : records'[id] = f[id]
        /\ \A id \in DOMAIN records \ DOMAIN new : records'[id] = g[id]
        /\ records' \in [DOMAIN records' -> R]
    BY <1>6, <1>3, <1>4
  <1>8. ts # Nothing
    BY ValsAreNumbers
  <1>9. \A id : Live(id)' <=> id \in DOMAIN new \/ (Live(id) /\ id \notin gone)
    BY <1>3, <1>4, <1>7, <1>8 DEF Live, Has
  <1> QED
    BY <1>3, <1>4, <1>7, <1>9

\* The sequences a commit lengthens.
LEMMA LoggedAt ==
  ASSUME NEW f, NEW entries, NEW S, f \in [DOMAIN f -> Seq(S)], entries \in [DOMAIN entries -> S]
  PROVE  /\ Logged(f, entries) \in [DOMAIN f \cup DOMAIN entries -> Seq(S)]
         /\ DOMAIN Logged(f, entries) = DOMAIN f \cup DOMAIN entries
         /\ \A id \in DOMAIN entries :
              /\ Numbers(f, id) \in Seq(S)
              /\ Logged(f, entries)[id] = Append(Numbers(f, id), entries[id])
         /\ \A id \in DOMAIN f \ DOMAIN entries : Logged(f, entries)[id] = f[id]
  <1>1. \A id \in DOMAIN entries : Numbers(f, id) \in Seq(S)
    BY DEF Numbers, Has
  <1>2. \A id \in DOMAIN entries : Append(Numbers(f, id), entries[id]) \in Seq(S)
    BY <1>1, AppendProperties
  <1>3. \A id \in DOMAIN f : f[id] \in Seq(S)
    OBVIOUS
  <1> QED
    BY <1>1, <1>2, <1>3 DEF Logged

\* A longer history still has the writes it had, when the new entry comes
\* after the row ended.
LEMMA StillWritten ==
  ASSUME NEW seq \in Seq(Entries), NEW e \in Entries, NEW v, v.to \in Nat, WrittenAs(v, seq), v.to <= e.stamp
  PROVE  WrittenAs(v, Append(seq, e))
  <1> DEFINE longer == Append(seq, e)
  <1>1. /\ Len(seq) \in Nat /\ DOMAIN seq = 1..Len(seq)
        /\ Len(longer) = Len(seq) + 1 /\ DOMAIN longer = 1..Len(longer)
        /\ \A m \in DOMAIN seq : longer[m] = seq[m]
        /\ longer[Len(seq) + 1] = e
    BY AppendProperties, LenProperties
  <1>2. PICK n \in DOMAIN seq : /\ seq[n] = [stamp |-> v.from, val |-> v.val]
                                /\ \A m \in n + 1..Len(seq) : seq[m].stamp >= v.to
    BY DEF WrittenAs
  <1> HIDE DEF longer
  <1>3. n \in DOMAIN longer /\ longer[n] = [stamp |-> v.from, val |-> v.val]
    BY <1>1, <1>2
  <1>4. e.stamp \in Nat
    BY DEF Entries
  <1>5. ASSUME NEW m \in n + 1..Len(longer)
        PROVE  longer[m].stamp >= v.to
    <2>1. CASE m = Len(seq) + 1
      BY <2>1, <1>1, <1>4
    <2>2. CASE m # Len(seq) + 1
      <3>1. m \in n + 1..Len(seq) /\ m \in DOMAIN seq
        BY <2>2, <1>1, <1>2
      <3> QED
        BY <3>1, <1>1, <1>2
    <2> QED
      BY <2>1, <2>2
  <1>6. WrittenAs(v, longer)
    BY <1>3, <1>5 DEF WrittenAs
  <1> QED
    BY <1>6 DEF longer

LEMMA NowWritten ==
  ASSUME NEW seq \in Seq(Entries), NEW v, v.from \in Nat, v.val \in AllVals
  PROVE  WrittenAs(v, Append(seq, [stamp |-> v.from, val |-> v.val]))
  <1> DEFINE e == [stamp |-> v.from, val |-> v.val]
             longer == Append(seq, e)
  <1>1. e \in Entries
    BY DEF Entries
  <1> HIDE DEF e
  <1>2. /\ Len(seq) \in Nat
        /\ Len(longer) = Len(seq) + 1 /\ DOMAIN longer = 1..Len(longer)
        /\ longer[Len(seq) + 1] = e
    BY <1>1, AppendProperties, LenProperties
  <1> HIDE DEF longer
  <1>3. Len(longer) \in DOMAIN longer /\ longer[Len(longer)] = e
        /\ \A m \in Len(longer) + 1..Len(longer) : FALSE
    BY <1>2
  <1>4. WrittenAs(v, longer)
    BY <1>3 DEF WrittenAs, e
  <1> QED
    BY <1>4 DEF longer, e

\* Only the place where a row started and its end matter to the history.
LEMMA WrittenEarlier ==
  ASSUME NEW seq \in Seq(Entries), NEW v, NEW w, v.from = w.from, v.val = w.val,
         v.to \in Nat, w.to \in Nat, w.to <= v.to, WrittenAs(v, seq)
  PROVE  WrittenAs(w, seq)
  <1>1. PICK n \in DOMAIN seq : /\ seq[n] = [stamp |-> v.from, val |-> v.val]
                                /\ \A m \in n + 1..Len(seq) : seq[m].stamp >= v.to
    BY DEF WrittenAs
  <1>2. ASSUME NEW m \in n + 1..Len(seq)
        PROVE  seq[m].stamp >= w.to
    <2>1. m \in DOMAIN seq
      BY LenProperties
    <2>2. seq[m].stamp \in Nat
      <3>1. seq[m] \in Entries
        BY <2>1, ElementOfSeq, LenProperties
      <3> QED
        BY <3>1 DEF Entries
    <2> QED
      BY <1>1, <2>2
  <1> QED
    BY <1>1, <1>2 DEF WrittenAs

LEMMA ClockFacts ==
  ASSUME MainInv
  PROVE  /\ IndexSound(index, AllVals)
         /\ index.clock \in Nat /\ index.clock <= MaxClock /\ MaxClock \in Nat
         /\ index.clock < Forever /\ index.clock + 1 < Forever /\ Forever \in Nat
         /\ AsOf(index, index.clock) = OpenRows(index)
         /\ horizon \in Nat /\ horizon <= index.clock + 1
  <1>1. /\ IndexSound(index, AllVals) /\ index.clock \in 0..MaxClock
        /\ horizon \in Nat /\ horizon <= index.clock + 1
    BY DEF MainInv, Shapes
  <1> QED
    BY <1>1, Bounds, AsOfNow

\* What main holds now.
LEMMA NowIs ==
  ASSUME MainInv
  PROVE  Now = Pairs(index, index.clock) /\ Now = MainState(index.clock)
  <1>1. timeline \in Seq(SUBSET (Ids \X AllVals)) /\ Len(timeline) = index.clock
    BY DEF MainInv, Shapes
  <1>2. CASE index.clock = 0
    <2>1. timeline = <<>>
      BY <1>1, <1>2, EmptySeq
    <2>2. AsOf(index, index.clock) = {}
      BY ClockFacts, RowFacts, <1>2 DEF AsOf
    <2> QED
      BY <2>1, <2>2, <1>2 DEF Now, Pairs, MainState
  <1>3. CASE index.clock # 0
    <2>1. index.clock \in 1..index.clock /\ index.clock + 1 >= horizon
      BY <1>3, ClockFacts
    <2>2. timeline[index.clock] = Pairs(index, index.clock)
      BY <2>1 DEF MainInv, TimelineSound
    <2>3. timeline # <<>>
      BY <1>1, <1>3
    <2> QED
      BY <2>2, <2>3, <1>1, <1>3 DEF Now, MainState
  <1> QED
    BY <1>2, <1>3

LEMMA CommitShapes ==
  ASSUME MainInv, NEW new, NEW gone, CommitsMain(new, gone)
  PROVE  Shapes' /\ index'.clock = index.clock + 1 /\ index'.clock <= MaxClock
  <1> DEFINE ts == index.clock + 1
  <1>1. /\ Fresh(new) \in SUBSET NewRows(AllVals)
        /\ \A m, n \in Fresh(new) : m.id = n.id => m = n
    BY FreshRows DEF CommitsMain
  <1>2. index' = Commit(index, gone, Fresh(new)) /\ index.clock < MaxClock
    BY DEF CommitsMain
  <1>3. IndexSound(index', AllVals) /\ index'.clock = ts
    BY <1>1, <1>2, CommitSound, CommitHas, ClockFacts
  <1>4. ts \in 0..MaxClock /\ ts \in Nat
    BY <1>2, ClockFacts
  <1>5. Shapes /\ Stored(new, gone, ts) /\ new \in [DOMAIN new -> AllVals]
        /\ DOMAIN new \subseteq Ids /\ gone \subseteq DOMAIN records
    BY DEF MainInv, CommitsMain
  <1> HIDE DEF ts
  <1>6. /\ records' \in [DOMAIN records' -> [val : AllVals, deleted_at : Nat \cup {Nothing}]]
        /\ DOMAIN records' = DOMAIN new \cup DOMAIN records
    BY <1>4, <1>5, StoredRecords
  <1>7. history' \in [DOMAIN records' -> Seq(Entries)]
    <2> DEFINE e == [id \in DOMAIN new |-> [stamp |-> ts, val |-> new[id]]]
    <2>1. history' = Logged(history, e)
      BY <1>5 DEF Stored
    <2>2. e \in [DOMAIN e -> Entries] /\ DOMAIN e = DOMAIN new
      BY <1>4, <1>5 DEF Entries
    <2>3. history \in [DOMAIN history -> Seq(Entries)] /\ DOMAIN history = DOMAIN records
      BY <1>5 DEF Shapes
    <2> HIDE DEF e
    <2>4. Logged(history, e) \in [DOMAIN history \cup DOMAIN e -> Seq(Entries)]
      BY <2>2, <2>3, LoggedAt
    <2>5. DOMAIN history \cup DOMAIN e = DOMAIN records'
      BY <2>2, <2>3, <1>6
    <2> QED
      BY <2>1, <2>4, <2>5
  <1>8. versions' \in [DOMAIN records' -> Seq(0..MaxClock)] /\ \A id \in DOMAIN versions' : versions'[id] # <<>>
    <2> DEFINE S == 0..MaxClock
               e == [id \in DOMAIN new \cup gone |-> ts]
    <2>1. versions' = Logged(versions, e)
      BY <1>5 DEF Stored
    <2>2. e \in [DOMAIN e -> S] /\ DOMAIN e = DOMAIN new \cup gone
      BY <1>4
    <2>3. versions \in [DOMAIN versions -> Seq(S)] /\ DOMAIN versions = DOMAIN records
          /\ \A id \in DOMAIN versions : versions[id] # <<>>
      BY <1>5 DEF Shapes
    <2> HIDE DEF e, S
    <2>4. /\ Logged(versions, e) \in [DOMAIN versions \cup DOMAIN e -> Seq(S)]
          /\ DOMAIN Logged(versions, e) = DOMAIN versions \cup DOMAIN e
          /\ \A id \in DOMAIN e : Numbers(versions, id) \in Seq(S)
                                  /\ Logged(versions, e)[id] = Append(Numbers(versions, id), e[id])
          /\ \A id \in DOMAIN versions \ DOMAIN e : Logged(versions, e)[id] = versions[id]
      BY <2>2, <2>3, LoggedAt
    <2>5. DOMAIN versions \cup DOMAIN e = DOMAIN records'
      BY <2>2, <2>3, <1>5, <1>6
    <2>6. \A q \in Seq(S), x \in S : Append(q, x) # <<>>
      BY AppendProperties, EmptySeq
    <2>7. \A id \in DOMAIN e : e[id] \in S
      BY <2>2
    <2>8. ASSUME NEW id \in DOMAIN versions'
          PROVE  versions'[id] # <<>>
      BY <2>1, <2>3, <2>4, <2>6, <2>7
    <2> QED
      BY <2>1, <2>4, <2>5, <2>8 DEF S
  <1>9. timeline' \in Seq(SUBSET (Ids \X AllVals)) /\ Len(timeline') = index'.clock
    <2>1. timeline \in Seq(SUBSET (Ids \X AllVals)) /\ Len(timeline) = index.clock
      BY <1>5 DEF Shapes
    <2>2. Now \in SUBSET (Ids \X AllVals)
      BY NowIs, RowFacts, ClockFacts DEF Pairs, AsOf
    <2>3. After(new, gone) \in SUBSET (Ids \X AllVals)
      BY <2>2, <1>5 DEF After
    <2>4. timeline' = Append(timeline, After(new, gone))
      BY DEF CommitsMain
    <2> QED
      BY <2>1, <2>3, <2>4, <1>3, AppendProperties DEF ts
  <1>10. horizon' \in Nat /\ horizon' <= index'.clock + 1
    BY <1>3, <1>4, ClockFacts DEF CommitsMain, ts
  <1>11. DOMAIN records' \subseteq Ids
    BY <1>5, <1>6 DEF Shapes
  <1> QED
    BY <1>3, <1>4, <1>6, <1>7, <1>8, <1>9, <1>10, <1>11 DEF Shapes, ts

\* The facts the parts of the invariant need of a commit.
LEMMA CommitFacts ==
  ASSUME MainInv, NEW new, NEW gone, CommitsMain(new, gone)
  PROVE  /\ index.clock + 1 \in Nat /\ index.clock \in Nat /\ index.clock + 1 < Forever /\ Forever \in Nat
         /\ Shapes /\ RecordsSound /\ HistorySound /\ TimelineSound
         /\ Stored(new, gone, index.clock + 1)
         /\ new \in [DOMAIN new -> AllVals] /\ DOMAIN new \subseteq Ids /\ gone \subseteq DOMAIN records
         /\ index' = Commit(index, gone, Fresh(new)) /\ index'.clock = index.clock + 1
         /\ IndexSound(index, AllVals) /\ IndexSound(index', AllVals)
  <1>1. Shapes' /\ index'.clock = index.clock + 1
    BY CommitShapes
  <1>2. IndexSound(index', AllVals)
    BY <1>1 DEF Shapes
  <1> QED
    BY <1>1, <1>2, ClockFacts DEF MainInv, CommitsMain

LEMMA CommitRows ==
  ASSUME MainInv, NEW new, NEW gone, CommitsMain(new, gone), NEW r \in index'.rows
  PROVE  \/ r \in index.rows /\ (r.to <= index.clock \/ (r.to = Forever /\ r.id \notin gone \cup DOMAIN new))
         \/ /\ r.to = index.clock + 1 /\ r.id \in gone \cup DOMAIN new
            /\ \E v \in index.rows : v.to = Forever /\ v.id = r.id /\ v.val = r.val /\ v.from = r.from
         \/ r.from = index.clock + 1 /\ r.to = Forever /\ r.id \in DOMAIN new /\ r.val = new[r.id]
  BY CommitFacts, RowAfter

LEMMA CommitIds ==
  ASSUME MainInv, NEW new, NEW gone, CommitsMain(new, gone)
  PROVE  OpenIds(index)' = (OpenIds(index) \ gone) \cup DOMAIN new
  <1>1. Fresh(new) \in SUBSET NewRows(AllVals) /\ RowIds(Fresh(new)) = DOMAIN new
    BY FreshRows, CommitFacts
  <1>2. OpenIds(Commit(index, gone, Fresh(new))) = (OpenIds(index) \ gone) \cup RowIds(Fresh(new))
    BY <1>1, CommitFacts, CommitOpenIds
  <1>3. OpenIds(index)' = OpenIds(Commit(index, gone, Fresh(new)))
    BY CommitFacts DEF OpenIds, OpenRows
  <1> QED
    BY <1>1, <1>2, <1>3

LEMMA CommitRecords ==
  ASSUME MainInv, NEW new, NEW gone, CommitsMain(new, gone)
  PROVE  RecordsSound'
  <1> DEFINE ts == index.clock + 1
  <1>1. /\ DOMAIN records' = DOMAIN new \cup DOMAIN records
        /\ \A id \in DOMAIN new : records'[id].val = new[id] /\ records'[id].deleted_at = Nothing
        /\ \A id \in DOMAIN records \ DOMAIN new :
             /\ records'[id].val = records[id].val
             /\ records'[id].deleted_at = IF id \in gone THEN ts ELSE records[id].deleted_at
        /\ \A id : Live(id)' <=> id \in DOMAIN new \/ (Live(id) /\ id \notin gone)
    BY CommitFacts, StoredRecords
  <1>2. ts \in Nat /\ index.clock \in Nat /\ index.clock < ts /\ ts < Forever /\ Forever \in Nat /\ index'.clock = ts
    BY CommitFacts
  <1>3. /\ \A v \in index.rows : v.id \in DOMAIN records
        /\ \A v \in OpenRows(index) : Live(v.id) /\ records[v.id].val = v.val
        /\ \A id \in DOMAIN records : Live(id) => id \in OpenIds(index)
        /\ \A id \in DOMAIN records : ~Live(id) => records[id].deleted_at \in 0..index.clock
        /\ \A v \in index.rows : ~Live(v.id) => v.to <= records[v.id].deleted_at
    BY CommitFacts DEF RecordsSound
  <1>4. \A v \in index.rows : v.to = Forever => v \in OpenRows(index)
    BY DEF OpenRows
  <1>5. gone \subseteq DOMAIN records
    BY CommitFacts
  <1>6. \A r \in index'.rows : r.to \in Nat /\ (r.to <= ts \/ r.to = Forever)
    BY CommitFacts, RowFacts
  <1>7. ASSUME NEW r \in index'.rows
        PROVE  \/ r \in index.rows /\ (r.to <= index.clock \/ (r.to = Forever /\ r.id \notin gone \cup DOMAIN new))
               \/ /\ r.to = ts /\ r.id \in gone \cup DOMAIN new
                  /\ \E v \in index.rows : v.to = Forever /\ v.id = r.id /\ v.val = r.val /\ v.from = r.from
               \/ r.from = ts /\ r.to = Forever /\ r.id \in DOMAIN new /\ r.val = new[r.id]
    BY CommitRows
  <1> HIDE DEF ts
  <1>8. ASSUME NEW r \in index'.rows
        PROVE  r.id \in DOMAIN records'
    BY <1>7, <1>1, <1>3
  <1>9. ASSUME NEW r \in index'.rows, r.to = Forever
        PROVE  Live(r.id)' /\ records'[r.id].val = r.val
    <2>1. CASE r \in index.rows /\ r.id \notin gone \cup DOMAIN new
      BY <2>1, <1>9, <1>1, <1>3, <1>4
    <2>2. CASE r.id \in DOMAIN new /\ r.val = new[r.id]
      BY <2>2, <1>1
    <2> QED
      BY <2>1, <2>2, <1>7, <1>9, <1>2
  <1>10. ASSUME NEW id \in DOMAIN records', Live(id)'
         PROVE  id \in OpenIds(index)'
    <2>1. Live(id) => id \in DOMAIN records
      BY DEF Live, Has
    <2> QED
      BY <2>1, <1>10, <1>1, <1>3, CommitIds
  <1>11. ASSUME NEW id \in DOMAIN records', ~Live(id)'
         PROVE  records'[id].deleted_at \in 0..index'.clock
    <2>1. id \in DOMAIN records \ DOMAIN new
      BY <1>11, <1>1
    <2>2. CASE id \in gone
      BY <2>1, <2>2, <1>1, <1>2
    <2>3. CASE id \notin gone
      BY <2>1, <2>3, <1>11, <1>1, <1>2, <1>3
    <2> QED
      BY <2>2, <2>3
  <1>12. ASSUME NEW r \in index'.rows, ~Live(r.id)'
         PROVE  r.to <= records'[r.id].deleted_at
    <2>1. r.id \in DOMAIN records \ DOMAIN new
      BY <1>12, <1>1, <1>8
    <2>2. r.to # Forever
      BY <1>9, <1>12
    <2>3. CASE r.id \in gone
      BY <2>1, <2>2, <2>3, <1>1, <1>6
    <2>4. CASE r.id \notin gone
      <3>1. r \in index.rows
        BY <2>1, <2>2, <2>4, <1>7
      <3> QED
        BY <3>1, <2>1, <2>4, <1>12, <1>1, <1>3
    <2> QED
      BY <2>3, <2>4
  <1> QED
    BY <1>8, <1>9, <1>10, <1>11, <1>12 DEF RecordsSound, OpenRows

LEMMA CommitHistory ==
  ASSUME MainInv, NEW new, NEW gone, CommitsMain(new, gone)
  PROVE  HistorySound'
  <1> DEFINE ts == index.clock + 1
             e == [id \in DOMAIN new |-> [stamp |-> ts, val |-> new[id]]]
  <1>1. ts \in Nat /\ index.clock \in Nat /\ index.clock < ts /\ ts < Forever /\ Forever \in Nat
    BY CommitFacts
  <1>2. history' = Logged(history, e) /\ DOMAIN e = DOMAIN new
    BY CommitFacts DEF Stored
  <1>3. \A id \in DOMAIN new : e[id] \in Entries /\ e[id] = [stamp |-> ts, val |-> new[id]] /\ e[id].stamp = ts
    BY <1>1, CommitFacts DEF Entries
  <1>4. /\ history \in [DOMAIN history -> Seq(Entries)] /\ DOMAIN history = DOMAIN records
        /\ \A v \in index.rows : v.id \in DOMAIN history /\ WrittenAs(v, history[v.id])
        /\ \A v \in index.rows : history[v.id] \in Seq(Entries)
    BY CommitFacts DEF Shapes, HistorySound, RecordsSound
  <1>5. \A v \in index.rows : v.to \in Nat
    BY CommitFacts, RowFacts
  <1>6. \A r \in index'.rows : r.to \in Nat /\ r.from \in Nat /\ r.val \in AllVals
    BY CommitFacts, RowFacts
  <1>7. ASSUME NEW r \in index'.rows
        PROVE  \/ r \in index.rows /\ (r.to <= index.clock \/ (r.to = Forever /\ r.id \notin gone \cup DOMAIN new))
               \/ /\ r.to = ts /\ r.id \in gone \cup DOMAIN new
                  /\ \E v \in index.rows : v.to = Forever /\ v.id = r.id /\ v.val = r.val /\ v.from = r.from
               \/ r.from = ts /\ r.to = Forever /\ r.id \in DOMAIN new /\ r.val = new[r.id]
    BY CommitRows
  <1>8. e \in [DOMAIN e -> Entries]
    BY <1>3
  <1> HIDE DEF ts, e
  <1>9. /\ \A id \in DOMAIN e : /\ Numbers(history, id) \in Seq(Entries)
                                /\ history'[id] = Append(Numbers(history, id), e[id])
        /\ \A id \in DOMAIN history \ DOMAIN e : history'[id] = history[id]
    <2>1. history \in [DOMAIN history -> Seq(Entries)]
      BY <1>4
    <2>2. /\ Logged(history, e) \in [DOMAIN history \cup DOMAIN e -> Seq(Entries)]
          /\ DOMAIN Logged(history, e) = DOMAIN history \cup DOMAIN e
          /\ \A id \in DOMAIN e :
               /\ Numbers(history, id) \in Seq(Entries)
               /\ Logged(history, e)[id] = Append(Numbers(history, id), e[id])
          /\ \A id \in DOMAIN history \ DOMAIN e : Logged(history, e)[id] = history[id]
      BY <2>1, <1>8, LoggedAt
    <2> QED
      BY <2>2, <1>2
  <1>10. \A id \in DOMAIN history : Numbers(history, id) = history[id]
    BY DEF Numbers, Has
  <1>11. ASSUME NEW r \in index'.rows, WrittenAs(r, history[r.id]), r.to <= ts,
                r.id \in DOMAIN history, history[r.id] \in Seq(Entries)
         PROVE  WrittenAs(r, history'[r.id])
    <2>1. CASE r.id \in DOMAIN e
      <3>1. history'[r.id] = Append(history[r.id], e[r.id]) /\ e[r.id] \in Entries /\ e[r.id].stamp = ts
        BY <2>1, <1>11, <1>9, <1>10, <1>3, <1>2
      <3> QED
        BY <3>1, <1>11, <1>6, StillWritten
    <2>2. CASE r.id \notin DOMAIN e
      BY <2>2, <1>9, <1>11
    <2> QED
      BY <2>1, <2>2
  <1>12. ASSUME NEW r \in index'.rows
         PROVE  WrittenAs(r, history'[r.id])
    <2>1. CASE r \in index.rows /\ r.to <= index.clock
      BY <2>1, <1>11, <1>4, <1>5, <1>1
    <2>2. CASE r \in index.rows /\ r.to = Forever /\ r.id \notin gone \cup DOMAIN new
      BY <2>2, <1>9, <1>2, <1>4
    <2>3. ASSUME NEW v \in index.rows, r.to = ts, v.to = Forever, v.id = r.id, v.val = r.val, v.from = r.from
          PROVE  WrittenAs(r, history'[r.id])
      <3>1. WrittenAs(r, history[r.id])
        BY <2>3, <1>1, <1>4, <1>5, WrittenEarlier
      <3> QED
        BY <3>1, <2>3, <1>1, <1>4, <1>11
    <2>4. CASE r.from = ts /\ r.to = Forever /\ r.id \in DOMAIN new /\ r.val = new[r.id]
      <3>1. /\ history'[r.id] = Append(Numbers(history, r.id), [stamp |-> r.from, val |-> r.val])
            /\ Numbers(history, r.id) \in Seq(Entries)
        BY <2>4, <1>9, <1>2, <1>3
      <3> QED
        BY <3>1, <1>6, NowWritten
    <2> QED
      BY <2>1, <2>2, <2>3, <2>4, <1>7
  <1> QED
    BY <1>12 DEF HistorySound

LEMMA CommitTimeline ==
  ASSUME MainInv, NEW new, NEW gone, CommitsMain(new, gone)
  PROVE  /\ TimelineSound'
         /\ \A s \in 0..index.clock : MainState(s)' = MainState(s)
         /\ MainState(index.clock)' = After(new, gone)
         /\ Now' = After(new, gone)
  <1> DEFINE ts == index.clock + 1
  <1>1. timeline' = Append(timeline, After(new, gone)) /\ horizon' = horizon
    BY DEF CommitsMain
  <1>2. timeline \in Seq(SUBSET (Ids \X AllVals)) /\ Len(timeline) = index.clock
    BY CommitFacts DEF Shapes
  <1>3. ts \in Nat /\ index.clock \in Nat /\ ts = index.clock + 1 /\ index'.clock = ts /\ horizon \in Nat
    BY CommitFacts, ClockFacts
  <1>4. /\ Len(timeline') = ts
        /\ \A s \in 1..index.clock : timeline'[s] = timeline[s]
        /\ timeline'[ts] = After(new, gone)
    <2> DEFINE S == {timeline[s] : s \in 1..Len(timeline)} \cup {After(new, gone)}
    <2>2. timeline \in Seq(S) /\ After(new, gone) \in S
      BY <1>2, LenProperties DEF Seq
    <2> HIDE DEF S
    <2> QED
      BY <2>2, <1>1, <1>2, <1>3, AppendProperties
  <1>5. After(new, gone) = Pairs(index', ts)
    <2>1. /\ Fresh(new) \in SUBSET NewRows(AllVals)
          /\ \A m, n \in Fresh(new) : m.id = n.id => m = n
          /\ RowIds(Fresh(new)) = DOMAIN new
          /\ {<<n.id, n.val>> : n \in Fresh(new)} = {<<id, new[id]>> : id \in DOMAIN new}
      BY FreshRows, CommitFacts
    <2>2. Pairs(Commit(index, gone, Fresh(new)), ts)
            = {p \in Pairs(index, index.clock) : p[1] \notin gone \cup RowIds(Fresh(new))}
              \cup {<<n.id, n.val>> : n \in Fresh(new)}
      BY <2>1, CommitNow, CommitFacts
    <2>3. gone \cup DOMAIN new = DOMAIN new \cup gone
      OBVIOUS
    <2> QED
      BY <2>1, <2>2, <2>3, NowIs, CommitFacts DEF After
  <1>6. \A s \in 0..index.clock : Pairs(index', s) = Pairs(index, s)
    <2>1. Fresh(new) \in SUBSET NewRows(AllVals)
      BY FreshRows, CommitFacts
    <2> QED
      BY <2>1, CommitPast, CommitFacts
  <1> HIDE DEF ts
  <1>7. ASSUME NEW s \in 1..index'.clock, s + 1 >= horizon'
        PROVE  timeline'[s] = Pairs(index', s)
    <2>1. CASE s = ts
      BY <2>1, <1>4, <1>5
    <2>2. CASE s # ts
      <3>1. s \in 1..index.clock /\ s \in 0..index.clock
        BY <2>2, <1>3
      <3>2. timeline[s] = Pairs(index, s)
        BY <3>1, <1>1, <1>7, CommitFacts DEF TimelineSound
      <3> QED
        BY <3>1, <3>2, <1>4, <1>6
    <2> QED
      BY <2>1, <2>2
  <1>8. \A s \in 0..index.clock : MainState(s)' = MainState(s)
    <2>1. \A s \in 0..index.clock : s # 0 => s \in 1..index.clock
      BY <1>3
    <2> QED
      BY <2>1, <1>4 DEF MainState
  <1>9. ts # 0
    BY <1>3
  <1>10. MainState(index.clock)' = After(new, gone)
    BY <1>9, <1>4, <1>3 DEF MainState
  <1>11. Now' = After(new, gone)
    <2>1. timeline' # <<>>
      BY <1>4, <1>9
    <2> QED
      BY <2>1, <1>4 DEF Now
  <1>12. TimelineSound'
    BY <1>7 DEF TimelineSound
  <1> QED
    BY <1>12, <1>8, <1>10, <1>11 DEF ts

LEMMA CommitMain ==
  ASSUME MainInv, NEW new, NEW gone, CommitsMain(new, gone)
  PROVE  MainInv'
  BY CommitShapes, CommitRecords, CommitHistory, CommitTimeline DEF MainInv

-----------------------------------------------------------------------------
(* The other steps of main.                                                *)

LEMMA MainInit ==
  ASSUME Init
  PROVE  MainInv
  <1>1. IndexSound(index, AllVals) /\ index.clock = 0 /\ index.rows = {} /\ OpenRows(index) = {}
    BY EmptySound DEF Init, EmptyIndex
  <1>2. DOMAIN records = {} /\ DOMAIN history = {} /\ DOMAIN versions = {}
    BY DEF Init
  <1>3. /\ records \in [DOMAIN records -> [val : AllVals, deleted_at : Nat \cup {Nothing}]]
        /\ history \in [DOMAIN records -> Seq(Entries)]
        /\ versions \in [DOMAIN records -> Seq(0..MaxClock)]
    BY DEF Init
  <1>4. timeline \in Seq(SUBSET (Ids \X AllVals)) /\ Len(timeline) = 0 /\ horizon = 0
    BY DEF Init
  <1>5. Shapes
    BY <1>1, <1>2, <1>3, <1>4, Bounds DEF Shapes
  <1>6. RecordsSound /\ HistorySound /\ TimelineSound
    BY <1>1, <1>2 DEF RecordsSound, HistorySound, TimelineSound
  <1> QED
    BY <1>5, <1>6 DEF MainInv

LEMMA MainSame ==
  ASSUME MainInv, UNCHANGED stored
  PROVE  MainInv'
  <1>1. /\ index' = index /\ records' = records /\ history' = history
        /\ versions' = versions /\ horizon' = horizon /\ timeline' = timeline
    BY DEF stored
  <1>2. Shapes'
    BY <1>1 DEF MainInv, Shapes
  <1>3. RecordsSound'
    BY <1>1 DEF MainInv, RecordsSound, Live, Has, OpenIds, OpenRows
  <1>4. HistorySound'
    BY <1>1 DEF MainInv, HistorySound
  <1>5. TimelineSound'
    BY <1>1 DEF MainInv, TimelineSound
  <1> QED
    BY <1>2, <1>3, <1>4, <1>5 DEF MainInv

PurgesMain(h) ==
  /\ h \in Nat /\ h <= index.clock + 1
  /\ index' = Vacuum(index, h)
  /\ records' = Without(records, Stale(h))
  /\ history' = Without(history, Stale(h))
  /\ versions' = Without(versions, Stale(h))
  /\ horizon' = IF h > horizon THEN h ELSE horizon
  /\ timeline' = timeline

\* What a purge leaves: rows that end at the horizon or later, and the ids
\* that are live or were deleted since.
LEMMA PurgeFacts ==
  ASSUME MainInv, NEW h, PurgesMain(h)
  PROVE  /\ IndexSound(index', AllVals) /\ index'.clock = index.clock
         /\ index'.rows = {v \in index.rows : v.to >= h}
         /\ OpenRows(index)' = OpenRows(index)
         /\ \A s \in Nat : s + 1 >= h => AsOf(index', s) = AsOf(index, s)
         /\ DOMAIN records' = DOMAIN records \ Stale(h)
         /\ \A id \in DOMAIN records' : /\ records'[id] = records[id] /\ history'[id] = history[id]
                                        /\ versions'[id] = versions[id]
         /\ \A v \in index'.rows : v.id \in DOMAIN records'
         /\ \A id \in DOMAIN records' : Live(id)' <=> Live(id)
         /\ \A id \in Stale(h) : ~Live(id) /\ ~Live(id)'
         /\ horizon' \in Nat /\ horizon' <= index.clock + 1 /\ horizon' >= horizon /\ horizon' >= h
  <1>1. h \in Nat /\ h <= index.clock + 1 /\ index' = Vacuum(index, h)
    BY DEF PurgesMain
  <1>2. /\ IndexSound(index', AllVals) /\ index'.clock = index.clock
        /\ index'.rows = {v \in index.rows : v.to >= h}
        /\ OpenRows(index') = OpenRows(index)
        /\ \A s \in Nat : s + 1 >= h => AsOf(index', s) = AsOf(index, s)
    <2>1. IndexSound(index, AllVals) /\ h \in Nat
      BY <1>1, ClockFacts
    <2>2. /\ IndexSound(Vacuum(index, h), AllVals)
          /\ Vacuum(index, h).clock = index.clock
          /\ Vacuum(index, h).rows = {v \in index.rows : v.to >= h}
          /\ \A s \in Nat : s + 1 >= h => AsOf(Vacuum(index, h), s) = AsOf(index, s)
          /\ index.clock < Forever /\ h <= index.clock + 1 => OpenRows(Vacuum(index, h)) = OpenRows(index)
      BY <2>1, VacuumSound
    <2> QED
      BY <1>1, <2>2, ClockFacts
  <1>3. OpenRows(index)' = OpenRows(index')
    BY DEF OpenRows
  <1>4. DOMAIN history = DOMAIN records /\ DOMAIN versions = DOMAIN records
    BY DEF MainInv, Shapes
  <1>5. /\ DOMAIN records' = DOMAIN records \ Stale(h)
        /\ \A id \in DOMAIN records' : /\ records'[id] = records[id] /\ history'[id] = history[id]
                                       /\ versions'[id] = versions[id]
    BY <1>4 DEF PurgesMain, Without
  <1>6. \A id \in Stale(h) : ~Live(id) /\ records[id].deleted_at < h /\ id \in DOMAIN records
    BY DEF Stale
  <1>7. ASSUME NEW v \in index'.rows
        PROVE  v.id \in DOMAIN records'
    <2>1. v \in index.rows /\ v.to >= h /\ v.to \in Nat
      BY <1>2, ClockFacts, RowFacts
    <2>2. v.id \in DOMAIN records /\ (~Live(v.id) => v.to <= records[v.id].deleted_at
                                                     /\ records[v.id].deleted_at \in Nat)
      BY <2>1, ClockFacts DEF MainInv, RecordsSound
    <2>3. v.id \notin Stale(h)
      BY <2>1, <2>2, <1>1, <1>6
    <2> QED
      BY <2>2, <2>3, <1>5
  <1>8. \A id \in DOMAIN records' : Live(id)' <=> Live(id)
    BY <1>5 DEF Live, Has
  <1>9. \A id \in Stale(h) : ~Live(id)'
    BY <1>5 DEF Live, Has
  <1>10. horizon' \in Nat /\ horizon' <= index.clock + 1 /\ horizon' >= horizon /\ horizon' >= h
    BY <1>1, ClockFacts DEF PurgesMain
  <1> QED
    BY <1>2, <1>3, <1>5, <1>6, <1>7, <1>8, <1>9, <1>10

LEMMA PurgeMain ==
  ASSUME MainInv, NEW h, PurgesMain(h)
  PROVE  MainInv'
  <1>1. /\ IndexSound(index', AllVals) /\ index'.clock = index.clock
        /\ index'.rows = {v \in index.rows : v.to >= h}
        /\ OpenRows(index)' = OpenRows(index)
        /\ \A s \in Nat : s + 1 >= h => AsOf(index', s) = AsOf(index, s)
    BY PurgeFacts
  <1>2. /\ DOMAIN records' = DOMAIN records \ Stale(h)
        /\ \A id \in DOMAIN records' : /\ records'[id] = records[id] /\ history'[id] = history[id]
                                       /\ versions'[id] = versions[id]
        /\ \A v \in index'.rows : v.id \in DOMAIN records'
        /\ \A id \in DOMAIN records' : Live(id)' <=> Live(id)
    BY PurgeFacts
  <1>3. /\ horizon' \in Nat /\ horizon' <= index.clock + 1 /\ horizon' >= horizon /\ horizon' >= h
        /\ horizon \in Nat /\ h \in Nat
    BY PurgeFacts, ClockFacts DEF PurgesMain
  <1>4. timeline' = timeline
    BY DEF PurgesMain
  <1>5. Shapes'
    <2>1. /\ records \in [DOMAIN records -> [val : AllVals, deleted_at : Nat \cup {Nothing}]]
          /\ history \in [DOMAIN records -> Seq(Entries)]
          /\ versions \in [DOMAIN records -> Seq(0..MaxClock)]
          /\ DOMAIN records \subseteq Ids
          /\ \A id \in DOMAIN versions : versions[id] # <<>>
      BY DEF MainInv, Shapes
    <2>2. /\ records' = [id \in DOMAIN records' |-> records[id]]
          /\ history' = [id \in DOMAIN records' |-> history[id]]
          /\ versions' = [id \in DOMAIN records' |-> versions[id]]
      BY <2>1 DEF PurgesMain, Without
    <2>3. /\ records' \in [DOMAIN records' -> [val : AllVals, deleted_at : Nat \cup {Nothing}]]
          /\ history' \in [DOMAIN records' -> Seq(Entries)]
          /\ versions' \in [DOMAIN records' -> Seq(0..MaxClock)]
          /\ DOMAIN records' \subseteq Ids
          /\ \A id \in DOMAIN versions' : versions'[id] # <<>>
      BY <2>1, <2>2, <1>2
    <2>4. /\ index.clock \in 0..MaxClock
          /\ timeline \in Seq(SUBSET (Ids \X AllVals)) /\ Len(timeline) = index.clock
      BY DEF MainInv, Shapes
    <2> QED
      BY <2>3, <2>4, <1>1, <1>3, <1>4 DEF Shapes
  <1>6. RecordsSound'
    <2>1. /\ \A v \in OpenRows(index) : Live(v.id) /\ records[v.id].val = v.val
          /\ \A id \in DOMAIN records : Live(id) => id \in OpenIds(index)
          /\ \A id \in DOMAIN records : ~Live(id) => records[id].deleted_at \in 0..index.clock
          /\ \A v \in index.rows : ~Live(v.id) => v.to <= records[v.id].deleted_at
      BY DEF MainInv, RecordsSound
    <2>2. OpenIds(index)' = OpenIds(index)
      BY <1>1 DEF OpenIds
    <2>3. \A v \in OpenRows(index) : v.id \in DOMAIN records'
      BY <1>1, <1>2 DEF OpenRows
    <2> QED
      BY <2>1, <2>2, <2>3, <1>1, <1>2 DEF RecordsSound
  <1>7. HistorySound'
    BY <1>1, <1>2 DEF MainInv, HistorySound
  <1>8. TimelineSound'
    <2>1. ASSUME NEW s \in 1..index.clock, s + 1 >= horizon'
          PROVE  timeline[s] = Pairs(index', s)
      <3>1. s \in Nat /\ s + 1 >= horizon /\ s + 1 >= h
        BY <2>1, <1>3
      <3>2. timeline[s] = Pairs(index, s)
        BY <3>1 DEF MainInv, TimelineSound
      <3> QED
        BY <3>1, <3>2, <1>1 DEF Pairs
    <2> QED
      BY <2>1, <1>1, <1>4 DEF TimelineSound
  <1> QED
    BY <1>5, <1>6, <1>7, <1>8 DEF MainInv

-----------------------------------------------------------------------------
(* The states of the branches.                                             *)

PartialFunctions(S, T) == UNION {[D -> T] : D \in SUBSET S}

StateType ==
  [name : Names, base : Nat, agent : Agents,
   delta : [clock : Nat, rows : SUBSET AllRows(BranchVals)], open : BOOLEAN,
   records : PartialFunctions(Ids, BranchVals), deleted : SUBSET Ids,
   expected : PartialFunctions(Ids, Nat), closed : BOOLEAN]

\* The delta is sound; while it is open it holds what the branch recorded,
\* and the branch expects a version of what it wrote or deleted and of nothing else.
DeltaMatches(b) ==
  /\ OpenIds(b.delta) = DOMAIN b.records
  /\ \A v \in OpenRows(b.delta) : b.records[v.id] = v.val
  /\ DOMAIN b.expected = DOMAIN b.records \cup b.deleted
  /\ b.deleted \cap DOMAIN b.records = {}

StateSound(b) ==
  /\ b \in StateType
  /\ IndexSound(b.delta, BranchVals) /\ b.delta.clock <= MaxLocal
  /\ \A id \in DOMAIN b.expected : b.expected[id] <= b.base
  /\ b.open => DeltaMatches(b)

CallTypes == [at : {"gate", "closing"}, on : DOMAIN states]

StatesInv ==
  /\ states \in Seq(StateType)
  /\ \A n \in DOMAIN states : StateSound(states[n]) /\ states[n].base <= index.clock
  /\ branches \in [DOMAIN branches -> DOMAIN states] /\ DOMAIN branches \subseteq Names
  /\ calls \in [Agents -> {Nothing} \cup CallTypes]

LEMMA PartialIs ==
  ASSUME NEW S, NEW T, NEW f
  PROVE  f \in PartialFunctions(S, T) <=> f \in [DOMAIN f -> T] /\ DOMAIN f \subseteq S
  BY DEF PartialFunctions

LEMMA PutType ==
  ASSUME NEW S, NEW T, NEW f \in PartialFunctions(S, T), NEW id \in S, NEW v \in T
  PROVE  Put(f, id, v) \in PartialFunctions(S, T)
  <1>1. f \in [DOMAIN f -> T] /\ DOMAIN f \subseteq S
    BY PartialIs
  <1>2. Put(f, id, v) = [x \in DOMAIN f \cup {id} |-> IF x = id THEN v ELSE f[x]]
    BY DEF Put, Over, Just
  <1>3. Put(f, id, v) \in [DOMAIN f \cup {id} -> T] /\ DOMAIN f \cup {id} \subseteq S
        /\ DOMAIN Put(f, id, v) = DOMAIN f \cup {id}
    BY <1>1, <1>2
  <1> QED
    BY <1>3, PartialIs

LEMMA WithoutIs ==
  ASSUME NEW S, NEW T, NEW f \in PartialFunctions(S, T), NEW gone
  PROVE  /\ Without(f, gone) \in PartialFunctions(S, T)
         /\ DOMAIN Without(f, gone) = DOMAIN f \ gone
         /\ \A x \in DOMAIN f \ gone : Without(f, gone)[x] = f[x]
  <1>1. f \in [DOMAIN f -> T] /\ DOMAIN f \subseteq S
    BY PartialIs
  <1>2. /\ Without(f, gone) \in [DOMAIN f \ gone -> T] /\ DOMAIN f \ gone \subseteq S
        /\ DOMAIN Without(f, gone) = DOMAIN f \ gone
        /\ \A x \in DOMAIN f \ gone : Without(f, gone)[x] = f[x]
    BY <1>1 DEF Without
  <1>3. Without(f, gone) \in PartialFunctions(S, T)
    BY <1>2, PartialIs
  <1> QED
    BY <1>2, <1>3

LEMMA EmptyIs ==
  ASSUME NEW S, NEW T
  PROVE  <<>> \in PartialFunctions(S, T) /\ DOMAIN <<>> = {}
  <1>1. <<>> \in [{} -> T] /\ DOMAIN <<>> = {}
    OBVIOUS
  <1> QED
    BY <1>1 DEF PartialFunctions

\* The version a branch expects is no later than its fork.
LEMMA VersionAt ==
  ASSUME MainInv, NEW id, NEW s \in Nat
  PROVE  version_at(id, s) \in Nat /\ version_at(id, s) <= s
  <1> DEFINE seq == Numbers(versions, id)
  <1>1. seq \in Seq(0..MaxClock)
    <2> DEFINE S == 0..MaxClock
    <2>1. versions \in [DOMAIN records -> Seq(S)]
      BY DEF MainInv, Shapes
    <2> HIDE DEF S
    <2>2. seq \in Seq(S)
      BY <2>1 DEF Numbers, Has
    <2> QED
      BY <2>2 DEF S
  <1>2. \A n \in DOMAIN seq : seq[n] \in Nat
    <2> HIDE DEF seq
    <2>1. \A n \in DOMAIN seq : seq[n] \in 0..MaxClock
      BY <1>1, ElementOfSeq, LenProperties
    <2> QED
      BY <2>1, Bounds
  <1>3. \A n \in LastUpTo(seq, s) : n \in DOMAIN seq /\ seq[n] <= s
    BY DEF LastUpTo
  <1>4. version_at(id, s) = IF LastUpTo(seq, s) = {} THEN 0
                            ELSE seq[CHOOSE n \in LastUpTo(seq, s) : TRUE]
    BY DEF version_at
  <1> HIDE DEF seq
  <1>5. LastUpTo(seq, s) # {} => (CHOOSE n \in LastUpTo(seq, s) : TRUE) \in LastUpTo(seq, s)
    OBVIOUS
  <1> QED
    BY <1>2, <1>3, <1>4, <1>5

\* A call that is on a state finds it.
LEMMA CallOn ==
  ASSUME StatesInv, NEW a \in Agents, calls[a] # Nothing
  PROVE  /\ calls[a] \in CallTypes /\ calls[a].on \in DOMAIN states
         /\ states[calls[a].on] \in StateType /\ StateSound(states[calls[a].on])
         /\ states[calls[a].on].base \in Nat /\ states[calls[a].on].base <= index.clock
         /\ DOMAIN states = 1..Len(states) /\ Len(states) \in Nat
  <1>1. calls[a] \in CallTypes /\ calls[a].on \in DOMAIN states
    BY DEF StatesInv, CallTypes
  <1>2. states[calls[a].on] \in StateType /\ StateSound(states[calls[a].on])
        /\ states[calls[a].on].base <= index.clock
    BY <1>1 DEF StatesInv, StateSound
  <1> QED
    BY <1>1, <1>2, LenProperties DEF StatesInv, StateType

\* A state is replaced by another sound one of the same fork.
LEMMA StateReplaced ==
  ASSUME StatesInv, NEW n \in DOMAIN states, NEW b, StateSound(b), b.base <= index.clock,
         states' = [states EXCEPT ![n] = b], branches' \in [DOMAIN branches' -> DOMAIN states],
         DOMAIN branches' \subseteq Names, calls' \in [Agents -> {Nothing} \cup CallTypes],
         index'.clock \in Nat, index.clock \in Nat, index.clock <= index'.clock
  PROVE  StatesInv' /\ DOMAIN states' = DOMAIN states
  <1>1. states \in Seq(StateType) /\ b \in StateType
    BY DEF StatesInv, StateSound
  <1>2. states' \in Seq(StateType) /\ DOMAIN states' = DOMAIN states /\ Len(states') = Len(states)
    BY <1>1, ExceptSeq
  <1>3. CallTypes' = CallTypes
    BY <1>2 DEF CallTypes
  <1>4. ASSUME NEW m \in DOMAIN states'
        PROVE  StateSound(states'[m]) /\ states'[m].base <= index'.clock
    <2>1. m \in DOMAIN states /\ states'[m] = IF m = n THEN b ELSE states[m]
      BY <1>2, <1>1
    <2>2. StateSound(states'[m]) /\ states'[m].base <= index.clock
      BY <2>1 DEF StatesInv
    <2>3. states'[m].base \in Nat
      BY <2>2 DEF StateSound, StateType
    <2> QED
      BY <2>2, <2>3
  <1> QED
    BY <1>2, <1>3, <1>4 DEF StatesInv

\* touch notes a version for the id, and changes nothing else.
LEMMA TouchIs ==
  ASSUME MainInv, NEW b, StateSound(b), NEW id \in Ids
  PROVE  /\ touch(b, id) \in PartialFunctions(Ids, Nat)
         /\ DOMAIN touch(b, id) = DOMAIN b.expected \cup {id}
         /\ \A x \in DOMAIN touch(b, id) : touch(b, id)[x] <= b.base
         /\ \A x \in DOMAIN b.expected : touch(b, id)[x] = b.expected[x]
         /\ id \notin DOMAIN b.expected => touch(b, id)[id] = version_at(id, b.base)
  <1>1. b.expected \in PartialFunctions(Ids, Nat) /\ b.base \in Nat
        /\ \A x \in DOMAIN b.expected : b.expected[x] <= b.base
    BY DEF StateSound, StateType
  <1> DEFINE v == version_at(id, b.base)
             e == b.expected
  <1>2. v \in Nat /\ v <= b.base
    BY <1>1, VersionAt
  <1>3. touch(b, id) = IF id \in DOMAIN e THEN e ELSE Put(e, id, v)
    BY DEF touch, Has
  <1>4. e \in PartialFunctions(Ids, Nat) /\ \A x \in DOMAIN e : e[x] <= b.base
    BY <1>1
  <1> HIDE DEF v, e
  <1>5. /\ Put(e, id, v) \in PartialFunctions(Ids, Nat)
        /\ DOMAIN Put(e, id, v) = DOMAIN e \cup {id}
        /\ Put(e, id, v)[id] = v
        /\ \A x \in DOMAIN e \ {id} : Put(e, id, v)[x] = e[x]
    <2> DEFINE N == Nat
    <2>1. e \in PartialFunctions(Ids, N) /\ v \in N
      BY <1>4, <1>2
    <2> HIDE DEF N
    <2>2. Put(e, id, v) \in PartialFunctions(Ids, N)
      BY <2>1, PutType
    <2> QED
      BY <2>2 DEF N, Put, Over, Just
  <1>6. /\ touch(b, id) \in PartialFunctions(Ids, Nat)
        /\ DOMAIN touch(b, id) = DOMAIN e \cup {id}
        /\ \A x \in DOMAIN touch(b, id) : touch(b, id)[x] <= b.base
        /\ \A x \in DOMAIN e : touch(b, id)[x] = e[x]
        /\ id \notin DOMAIN e => touch(b, id)[id] = v
    <2>1. CASE id \in DOMAIN e
      BY <2>1, <1>3, <1>4
    <2>2. CASE id \notin DOMAIN e
      BY <2>2, <1>2, <1>3, <1>4, <1>5
    <2> QED
      BY <2>1, <2>2
  <1> QED
    BY <1>6 DEF e, v

Touched(b, id) == [b EXCEPT !.expected = touch(b, id)]

LEMMA TouchedIs ==
  ASSUME MainInv, NEW b, StateSound(b), NEW id \in Ids
  PROVE  /\ Touched(b, id) \in StateType
         /\ Touched(b, id).name = b.name /\ Touched(b, id).base = b.base /\ Touched(b, id).agent = b.agent
         /\ Touched(b, id).delta = b.delta /\ Touched(b, id).open = b.open
         /\ Touched(b, id).records = b.records /\ Touched(b, id).deleted = b.deleted
         /\ Touched(b, id).expected = touch(b, id) /\ Touched(b, id).closed = b.closed
  <1>1. b \in StateType /\ touch(b, id) \in PartialFunctions(Ids, Nat)
    BY TouchIs DEF StateSound
  <1> QED
    BY <1>1 DEF StateType, Touched

-----------------------------------------------------------------------------
(* What a write of a branch makes of its state.                            *)

Added(b, id, v) ==
  [Touched(b, id) EXCEPT !.delta = Insert(@, Row(id, v, {})), !.records = Put(@, id, v),
                         !.deleted = @ \ {id}]

LEMMA JustFresh ==
  ASSUME NEW T, NEW id \in Ids, NEW v \in T
  PROVE  /\ Just(id, v) \in [DOMAIN Just(id, v) -> T] /\ DOMAIN Just(id, v) = {id}
         /\ Just(id, v)[id] = v
         /\ Fresh(Just(id, v)) = {Row(id, v, {})}
  BY DEF Just, Fresh

LEMMA MayWriteRoom ==
  ASSUME NEW n, MayWrite(n)
  PROVE  states[n].delta.clock < MaxLocal
  BY DEF MayWrite

LEMMA InsertDelta ==
  ASSUME NEW d, IndexSound(d, BranchVals), d.clock < MaxLocal, NEW id \in Ids, NEW v \in BranchVals
  PROVE  /\ IndexSound(Insert(d, Row(id, v, {})), BranchVals)
         /\ Insert(d, Row(id, v, {})).clock = d.clock + 1
         /\ OpenIds(Insert(d, Row(id, v, {}))) = OpenIds(d) \cup {id}
         /\ \A w \in OpenRows(Insert(d, Row(id, v, {}))) :
              (w \in OpenRows(d) /\ w.id # id) \/ (w.id = id /\ w.val = v)
  <1> DEFINE F == {Row(id, v, {})}
  <1>1. /\ F \in SUBSET NewRows(BranchVals) /\ RowIds(F) = {id}
        /\ \A m, n \in F : m.id = n.id => m = n
        /\ \A n \in F : n.id = id /\ n.val = v
    BY DEF Row, NewRows, RowIds
  <1>2. d.clock + 1 < Forever
    BY RowFacts, Bounds
  <1> HIDE DEF F
  <1>3. /\ IndexSound(Commit(d, {}, F), BranchVals) /\ Commit(d, {}, F).clock = d.clock + 1
        /\ OpenIds(Commit(d, {}, F)) = (OpenIds(d) \ {}) \cup RowIds(F)
        /\ OpenRows(Commit(d, {}, F))
             = {w \in OpenRows(d) : w.id \notin {} \cup RowIds(F)} \cup {NewRow(n, d.clock + 1) : n \in F}
    BY <1>1, <1>2, CommitSound, CommitHas, CommitOpenIds, CommitOpen
  <1>4. Insert(d, Row(id, v, {})) = Commit(d, {}, F)
    BY DEF Insert, F
  <1>5. \A n \in F : NewRow(n, d.clock + 1).id = id /\ NewRow(n, d.clock + 1).val = v
    BY <1>1 DEF NewRow
  <1> QED
    BY <1>1, <1>3, <1>4, <1>5

LEMMA DeleteDelta ==
  ASSUME NEW d, IndexSound(d, BranchVals), d.clock < MaxLocal, NEW id
  PROVE  /\ IndexSound(Delete(d, id), BranchVals)
         /\ Delete(d, id).clock = d.clock + 1
         /\ OpenIds(Delete(d, id)) = OpenIds(d) \ {id}
         /\ OpenRows(Delete(d, id)) = {w \in OpenRows(d) : w.id # id}
  <1>1. {} \in SUBSET NewRows(BranchVals) /\ RowIds({}) = {}
    BY DEF RowIds
  <1>2. d.clock + 1 < Forever
    BY RowFacts, Bounds
  <1>3. /\ IndexSound(Commit(d, {id}, {}), BranchVals) /\ Commit(d, {id}, {}).clock = d.clock + 1
    BY <1>1, <1>2, CommitSound, CommitHas
  <1>4. OpenIds(Commit(d, {id}, {})) = (OpenIds(d) \ {id}) \cup RowIds({})
    BY <1>1, <1>2, CommitOpenIds
  <1>5. OpenRows(Commit(d, {id}, {}))
          = {w \in OpenRows(d) : w.id \notin {id} \cup RowIds({})} \cup {NewRow(n, d.clock + 1) : n \in {}}
    BY <1>1, <1>2, CommitOpen
  <1>6. OpenRows(Commit(d, {id}, {})) = {w \in OpenRows(d) : w.id # id}
    BY <1>1, <1>5
  <1> QED
    BY <1>1, <1>3, <1>4, <1>6 DEF Delete

LEMMA AddedSound ==
  ASSUME MainInv, NEW b, StateSound(b), b.open, b.delta.clock < MaxLocal, NEW id \in Ids, NEW v \in BranchVals
  PROVE  /\ StateSound(Added(b, id, v))
         /\ Added(b, id, v).name = b.name /\ Added(b, id, v).base = b.base /\ Added(b, id, v).agent = b.agent
         /\ Added(b, id, v).open = b.open /\ Added(b, id, v).closed = b.closed
         /\ Added(b, id, v).expected = touch(b, id)
         /\ Added(b, id, v).records = Put(b.records, id, v)
         /\ Added(b, id, v).deleted = b.deleted \ {id}
  <1> DEFINE t == Touched(b, id)
             d == Insert(b.delta, Row(id, v, {}))
             r == Put(b.records, id, v)
             c == Added(b, id, v)
  <1>1. /\ t \in StateType /\ t.name = b.name /\ t.base = b.base /\ t.agent = b.agent
        /\ t.delta = b.delta /\ t.open = b.open /\ t.records = b.records /\ t.deleted = b.deleted
        /\ t.expected = touch(b, id) /\ t.closed = b.closed
    BY TouchedIs
  <1>2. /\ IndexSound(b.delta, BranchVals) /\ b.records \in PartialFunctions(Ids, BranchVals)
        /\ b.deleted \subseteq Ids /\ DeltaMatches(b) /\ b.delta.clock \in Nat
    BY RowFacts DEF StateSound, StateType
  <1>3. /\ IndexSound(d, BranchVals) /\ d.clock = b.delta.clock + 1
        /\ OpenIds(d) = OpenIds(b.delta) \cup {id}
        /\ \A w \in OpenRows(d) : (w \in OpenRows(b.delta) /\ w.id # id) \/ (w.id = id /\ w.val = v)
    BY <1>2, InsertDelta
  <1>4. /\ r \in PartialFunctions(Ids, BranchVals) /\ DOMAIN r = DOMAIN b.records \cup {id}
        /\ r[id] = v /\ \A x \in DOMAIN b.records \ {id} : r[x] = b.records[x]
    <2>1. r \in PartialFunctions(Ids, BranchVals)
      BY <1>2, PutType
    <2> QED
      BY <2>1 DEF Put, Over, Just
  <1>5. c = [t EXCEPT !.delta = d, !.records = r, !.deleted = b.deleted \ {id}]
    BY <1>1 DEF Added
  <1>6. d \in [clock : Nat, rows : SUBSET AllRows(BranchVals)]
    BY <1>3 DEF IndexSound
  <1>7. /\ touch(b, id) \in PartialFunctions(Ids, Nat)
        /\ DOMAIN touch(b, id) = DOMAIN b.expected \cup {id}
        /\ \A x \in DOMAIN touch(b, id) : touch(b, id)[x] <= b.base
    BY TouchIs
  <1> HIDE DEF t, d, r, c
  <1>8. /\ c \in StateType /\ c.name = b.name /\ c.base = b.base /\ c.agent = b.agent
        /\ c.delta = d /\ c.open = b.open /\ c.records = r /\ c.deleted = b.deleted \ {id}
        /\ c.expected = touch(b, id) /\ c.closed = b.closed
    <2>1. b.deleted \ {id} \in SUBSET Ids
      BY <1>2
    <2> QED
      BY <2>1, <1>1, <1>4, <1>5, <1>6 DEF StateType
  <1>9. \A w \in OpenRows(b.delta) : w.id \in DOMAIN b.records
    BY <1>2 DEF DeltaMatches, OpenIds
  <1>10. DeltaMatches(c)
    BY <1>2, <1>3, <1>4, <1>7, <1>8, <1>9 DEF DeltaMatches
  <1>11. c.delta.clock <= MaxLocal
    BY <1>2, <1>3, <1>8, Bounds
  <1>12. StateSound(c)
    BY <1>3, <1>7, <1>8, <1>10, <1>11 DEF StateSound
  <1> QED
    BY <1>8, <1>12 DEF c, r

\* The state after a delete that is not refused.
Erased(b, id) ==
  [Forgotten(Touched(b, id), id) EXCEPT !.deleted = @ \cup {id}, !.delta = Vacuum(@, @.clock + 1)]

LEMMA ErasedSound ==
  ASSUME MainInv, NEW b, StateSound(b), NEW id \in Ids,
         id \in DOMAIN b.records => b.open /\ b.delta.clock < MaxLocal
  PROVE  /\ StateSound(Erased(b, id))
         /\ Erased(b, id).name = b.name /\ Erased(b, id).base = b.base /\ Erased(b, id).agent = b.agent
         /\ Erased(b, id).open = b.open /\ Erased(b, id).closed = b.closed
         /\ Erased(b, id).expected = touch(b, id)
         /\ DOMAIN Erased(b, id).records = DOMAIN b.records \ {id}
         /\ \A x \in DOMAIN b.records \ {id} : Erased(b, id).records[x] = b.records[x]
         /\ Erased(b, id).deleted = b.deleted \cup {id}
  <1> DEFINE t == Touched(b, id)
             f == Forgotten(t, id)
             c == Erased(b, id)
  <1>1. /\ t \in StateType /\ t.name = b.name /\ t.base = b.base /\ t.agent = b.agent
        /\ t.delta = b.delta /\ t.open = b.open /\ t.records = b.records /\ t.deleted = b.deleted
        /\ t.expected = touch(b, id) /\ t.closed = b.closed
    BY TouchedIs
  <1>2. /\ IndexSound(b.delta, BranchVals) /\ b.records \in PartialFunctions(Ids, BranchVals)
        /\ b.deleted \subseteq Ids /\ (b.open => DeltaMatches(b)) /\ b.delta.clock \in Nat
        /\ b.delta.clock <= MaxLocal
    BY RowFacts DEF StateSound, StateType
  <1>3. PICK d : d = IF id \in DOMAIN b.records THEN Delete(b.delta, id) ELSE b.delta
    OBVIOUS
  <1>4. PICK r : r = IF id \in DOMAIN b.records THEN Without(b.records, {id}) ELSE b.records
    OBVIOUS
  <1>5. /\ IndexSound(d, BranchVals) /\ d.clock \in Nat /\ d.clock <= MaxLocal
        /\ b.open => OpenIds(d) = OpenIds(b.delta) \ {id} /\ OpenRows(d) \subseteq OpenRows(b.delta)
    <2>1. CASE id \in DOMAIN b.records
      BY <2>1, <1>2, <1>3, DeleteDelta, Bounds
    <2>2. CASE id \notin DOMAIN b.records
      BY <2>2, <1>2, <1>3 DEF DeltaMatches
    <2> QED
      BY <2>1, <2>2
  <1>6. /\ r \in PartialFunctions(Ids, BranchVals) /\ DOMAIN r = DOMAIN b.records \ {id}
        /\ \A x \in DOMAIN b.records \ {id} : r[x] = b.records[x]
    <2>1. PICK q : q = b.records
      OBVIOUS
    <2>2. /\ Without(q, {id}) \in PartialFunctions(Ids, BranchVals)
          /\ DOMAIN Without(q, {id}) = DOMAIN q \ {id}
          /\ \A x \in DOMAIN q \ {id} : Without(q, {id})[x] = q[x]
      <3>1. q \in PartialFunctions(Ids, BranchVals)
        BY <1>2, <2>1
      <3> QED
        BY <3>1, WithoutIs
    <2> QED
      BY <1>2, <1>4, <2>1, <2>2
  <1>7. d \in [clock : Nat, rows : SUBSET AllRows(BranchVals)]
    BY <1>5 DEF IndexSound
  <1> HIDE DEF t
  <1>8. /\ f \in StateType /\ f.name = b.name /\ f.base = b.base /\ f.agent = b.agent
        /\ f.delta = d /\ f.open = b.open /\ f.records = r /\ f.deleted = b.deleted
        /\ f.expected = touch(b, id) /\ f.closed = b.closed
    <2>1. CASE id \in DOMAIN b.records
      <3>1. f = [t EXCEPT !.delta = d, !.records = r]
        BY <2>1, <1>1, <1>3, <1>4 DEF Forgotten, Has
      <3> QED
        BY <3>1, <1>1, <1>6, <1>7 DEF StateType
    <2>2. CASE id \notin DOMAIN b.records
      BY <2>2, <1>1, <1>3, <1>4 DEF Forgotten, Has
    <2> QED
      BY <2>1, <2>2
  <1>9. PICK e : e = Vacuum(d, d.clock + 1)
    OBVIOUS
  <1>10. /\ IndexSound(e, BranchVals) /\ e.clock = d.clock /\ OpenRows(e) = OpenRows(d)
    <2>1. d.clock + 1 \in Nat /\ d.clock < Forever /\ d.clock + 1 <= d.clock + 1
      BY <1>5, Bounds
    <2>2. PICK h : h = d.clock + 1
      OBVIOUS
    <2> QED
      BY <2>1, <2>2, <1>5, <1>9, VacuumSound
  <1>11. e \in [clock : Nat, rows : SUBSET AllRows(BranchVals)]
    BY <1>10 DEF IndexSound
  <1>12. c = [f EXCEPT !.deleted = b.deleted \cup {id}, !.delta = e]
    BY <1>8, <1>9 DEF Erased, t
  <1>13. /\ touch(b, id) \in PartialFunctions(Ids, Nat)
         /\ DOMAIN touch(b, id) = DOMAIN b.expected \cup {id}
         /\ \A x \in DOMAIN touch(b, id) : touch(b, id)[x] <= b.base
    BY TouchIs
  <1> HIDE DEF f, c
  <1>14. /\ c \in StateType /\ c.name = b.name /\ c.base = b.base /\ c.agent = b.agent
         /\ c.delta = e /\ c.open = b.open /\ c.records = r /\ c.deleted = b.deleted \cup {id}
         /\ c.expected = touch(b, id) /\ c.closed = b.closed
    <2>1. b.deleted \cup {id} \in SUBSET Ids
      BY <1>2
    <2> QED
      BY <2>1, <1>8, <1>11, <1>12 DEF StateType
  <1>15. OpenIds(e) = OpenIds(d)
    BY <1>10 DEF OpenIds
  <1>16. ASSUME b.open
         PROVE  DeltaMatches(c)
    <2>1. \A w \in OpenRows(e) : w.id \in OpenIds(e)
      BY DEF OpenIds
    <2> QED
      BY <2>1, <1>2, <1>5, <1>6, <1>10, <1>13, <1>14, <1>15, <1>16 DEF DeltaMatches
  <1>17. StateSound(c)
    BY <1>5, <1>10, <1>13, <1>14, <1>16 DEF StateSound
  <1> QED
    BY <1>6, <1>14, <1>17 DEF c

-----------------------------------------------------------------------------
(* The steps and the states.                                               *)

StateOf(a) == states[calls[a].on]

\* What becomes of the state a call is on, when the call returns or moves on.
Replaces(a, b) == states' = [states EXCEPT ![calls[a].on] = b]

LEMMA BranchAddIs ==
  ASSUME MainInv, StatesInv, NEW a \in Agents, NEW id \in Ids, NEW v \in BranchVals, BranchAdd(a, id, v)
  PROVE  /\ calls[a] # Nothing /\ calls[a].at = "gate" /\ Return(a) /\ UNCHANGED stored /\ branches' = branches
         /\ StateOf(a).delta.clock < MaxLocal
         /\ Replaces(a, IF StateOf(a).open THEN Added(StateOf(a), id, v) ELSE Touched(StateOf(a), id))
  <1>1. calls[a] # Nothing /\ calls[a].at = "gate" /\ Return(a) /\ UNCHANGED stored /\ branches' = branches
    BY DEF BranchAdd, In
  <1>2. StateOf(a).delta.clock < MaxLocal
    BY MayWriteRoom DEF BranchAdd, StateOf
  <1>3. /\ StateSound(StateOf(a))
    BY <1>1, CallOn DEF StateOf
  <1>4. Touched(StateOf(a), id).open = StateOf(a).open
    BY <1>3, TouchedIs
  <1>5. states' = [states EXCEPT ![calls[a].on] =
                     IF ~Touched(StateOf(a), id).open THEN Touched(StateOf(a), id) ELSE Added(StateOf(a), id, v)]
    BY DEF BranchAdd, Touched, Added, StateOf
  <1>6. (IF ~Touched(StateOf(a), id).open THEN Touched(StateOf(a), id) ELSE Added(StateOf(a), id, v))
          = (IF StateOf(a).open THEN Added(StateOf(a), id, v) ELSE Touched(StateOf(a), id))
    BY <1>4
  <1> QED
    BY <1>1, <1>2, <1>5, <1>6 DEF Replaces

LEMMA BranchDeleteIs ==
  ASSUME MainInv, StatesInv, NEW a \in Agents, NEW id \in Ids, BranchDelete(a, id)
  PROVE  /\ calls[a] # Nothing /\ calls[a].at = "gate" /\ Return(a) /\ UNCHANGED stored /\ branches' = branches
         /\ id \in DOMAIN StateOf(a).records => StateOf(a).delta.clock < MaxLocal
         /\ Replaces(a, IF ~StateOf(a).open /\ id \in DOMAIN StateOf(a).records
                        THEN Touched(StateOf(a), id) ELSE Erased(StateOf(a), id))
  <1>1. calls[a] # Nothing /\ calls[a].at = "gate" /\ Return(a) /\ UNCHANGED stored /\ branches' = branches
    BY DEF BranchDelete, In
  <1>3. /\ StateSound(StateOf(a))
    BY <1>1, CallOn DEF StateOf
  <1>4. Touched(StateOf(a), id).open = StateOf(a).open /\ Touched(StateOf(a), id).records = StateOf(a).records
    BY <1>3, TouchedIs
  <1>2. id \in DOMAIN StateOf(a).records => StateOf(a).delta.clock < MaxLocal
    <2>1. Has(Touched(StateOf(a), id).records, id) => MayWrite(calls[a].on)
      BY DEF BranchDelete, Touched, StateOf
    <2> QED
      BY <2>1, <1>4, MayWriteRoom DEF Has, StateOf
  <1>5. states' = [states EXCEPT ![calls[a].on] =
                     IF ~Touched(StateOf(a), id).open /\ Has(Touched(StateOf(a), id).records, id)
                     THEN Touched(StateOf(a), id) ELSE Erased(StateOf(a), id)]
    BY DEF BranchDelete, Touched, Erased, StateOf
  <1>6. (IF ~Touched(StateOf(a), id).open /\ Has(Touched(StateOf(a), id).records, id)
         THEN Touched(StateOf(a), id) ELSE Erased(StateOf(a), id))
          = (IF ~StateOf(a).open /\ id \in DOMAIN StateOf(a).records
             THEN Touched(StateOf(a), id) ELSE Erased(StateOf(a), id))
    BY <1>4 DEF Has
  <1> QED
    BY <1>1, <1>2, <1>5, <1>6 DEF Replaces

LEMMA TouchedSound ==
  ASSUME MainInv, NEW b, StateSound(b), ~b.open, NEW id \in Ids
  PROVE  StateSound(Touched(b, id))
  <1>1. /\ Touched(b, id) \in StateType
        /\ Touched(b, id).delta = b.delta /\ Touched(b, id).open = b.open
        /\ Touched(b, id).base = b.base /\ Touched(b, id).expected = touch(b, id)
    BY TouchedIs
  <1>2. \A x \in DOMAIN touch(b, id) : touch(b, id)[x] <= b.base
    BY TouchIs
  <1> QED
    BY <1>1, <1>2 DEF StateSound

Released(b) == [b EXCEPT !.open = FALSE, !.delta = EmptyIndex]

LEMMA ReleasedSound ==
  ASSUME NEW b, StateSound(b)
  PROVE  /\ StateSound(Released(b))
         /\ Released(b).name = b.name /\ Released(b).base = b.base /\ Released(b).agent = b.agent
         /\ Released(b).open = FALSE /\ Released(b).closed = b.closed
         /\ Released(b).expected = b.expected
  <1>1. b \in StateType
    BY DEF StateSound
  <1>2. EmptyIndex \in [clock : Nat, rows : SUBSET AllRows(BranchVals)] /\ EmptyIndex.clock = 0
    BY DEF EmptyIndex
  <1>3. /\ Released(b) \in StateType
        /\ Released(b).name = b.name /\ Released(b).base = b.base /\ Released(b).agent = b.agent
        /\ Released(b).open = FALSE /\ Released(b).closed = b.closed
        /\ Released(b).expected = b.expected /\ Released(b).delta = EmptyIndex
    BY <1>1, <1>2 DEF StateType, Released
  <1>4. StateSound(Released(b))
    BY <1>2, <1>3, EmptySound, Bounds DEF StateSound
  <1> QED
    BY <1>3, <1>4

LEMMA ReleaseIs ==
  ASSUME StatesInv, NEW n \in DOMAIN states, Release(n)
  PROVE  /\ states' = [states EXCEPT ![n] = Released(states[n])]
         /\ branches' \in [DOMAIN branches' -> DOMAIN states] /\ DOMAIN branches' \subseteq Names
         /\ DOMAIN branches' = DOMAIN branches \ {states[n].name}
         /\ \A m \in DOMAIN branches' : branches'[m] = branches[m]
  <1>1. states \in Seq(StateType) /\ states[n] \in StateType /\ DOMAIN states = 1..Len(states)
    BY LenProperties DEF StatesInv, StateSound
  <1>2. states' = [states EXCEPT ![n] = Released(states[n])]
    BY <1>1 DEF Release, Released
  <1>3. branches \in [DOMAIN branches -> DOMAIN states] /\ DOMAIN branches \subseteq Names
    BY DEF StatesInv
  <1>4. branches' = Without(branches, {states[n].name})
    BY DEF Release
  <1> QED
    BY <1>2, <1>3, <1>4 DEF Without

LEMMA CallsReturn ==
  ASSUME StatesInv, NEW a \in Agents, Return(a)
  PROVE  calls' \in [Agents -> {Nothing} \cup CallTypes]
  BY DEF StatesInv, Return

LEMMA CallsClosing ==
  ASSUME StatesInv, NEW a \in Agents, calls[a] # Nothing, Closing(a)
  PROVE  /\ calls' \in [Agents -> {Nothing} \cup CallTypes]
         /\ calls' = [calls EXCEPT ![a] = [at |-> "closing", on |-> calls[a].on]]
  <1>1. calls \in [Agents -> {Nothing} \cup CallTypes] /\ calls[a] \in CallTypes
    BY DEF StatesInv
  <1>2. [calls[a] EXCEPT !.at = "closing"] = [at |-> "closing", on |-> calls[a].on]
        /\ [at |-> "closing", on |-> calls[a].on] \in CallTypes
    BY <1>1 DEF CallTypes
  <1>3. calls' = [calls EXCEPT ![a] = [calls[a] EXCEPT !.at = "closing"]]
    BY DEF Closing
  <1> QED
    BY <1>1, <1>2, <1>3

LEMMA StatesKept ==
  ASSUME StatesInv, states' = states, branches' = branches, calls' \in [Agents -> {Nothing} \cup CallTypes],
         index.clock \in Nat, index'.clock \in Nat, index.clock <= index'.clock
  PROVE  StatesInv'
  <1>1. ASSUME NEW n \in DOMAIN states
        PROVE  StateSound(states[n]) /\ states[n].base <= index'.clock
    <2>1. StateSound(states[n]) /\ states[n].base <= index.clock
      BY DEF StatesInv
    <2>2. states[n].base \in Nat
      BY <2>1 DEF StateSound, StateType
    <2> QED
      BY <2>1, <2>2
  <1>2. CallTypes' = CallTypes
    BY DEF CallTypes
  <1> QED
    BY <1>1, <1>2 DEF StatesInv

LEMMA NewStateSound ==
  ASSUME NEW a \in Agents, NEW name \in Names, NEW s \in Nat
  PROVE  /\ StateSound(NewState(a, name, s))
         /\ NewState(a, name, s).base = s /\ NewState(a, name, s).name = name /\ NewState(a, name, s).agent = a
         /\ NewState(a, name, s).open /\ ~NewState(a, name, s).closed
         /\ DOMAIN NewState(a, name, s).records = {} /\ NewState(a, name, s).deleted = {}
         /\ DOMAIN NewState(a, name, s).expected = {}
  <1> DEFINE b == NewState(a, name, s)
  <1>1. /\ b.base = s /\ b.name = name /\ b.agent = a /\ b.open = TRUE /\ b.closed = FALSE
        /\ b.records = <<>> /\ b.deleted = {} /\ b.expected = <<>> /\ b.delta = EmptyIndex
    BY DEF NewState
  <1>2. EmptyIndex \in [clock : Nat, rows : SUBSET AllRows(BranchVals)] /\ EmptyIndex.clock = 0
    BY DEF EmptyIndex
  <1>3. /\ <<>> \in PartialFunctions(Ids, BranchVals) /\ <<>> \in PartialFunctions(Ids, Nat)
        /\ DOMAIN <<>> = {}
    BY EmptyIs
  <1>4. b \in StateType
    BY <1>2, <1>3 DEF NewState, StateType
  <1> HIDE DEF b
  <1>5. DeltaMatches(b)
    BY <1>1, <1>3, EmptySound DEF DeltaMatches
  <1>6. StateSound(b)
    BY <1>1, <1>2, <1>3, <1>4, <1>5, EmptySound, Bounds DEF StateSound
  <1> QED
    BY <1>1, <1>3, <1>6 DEF b

LEMMA ForkIs ==
  ASSUME MainInv, StatesInv, NEW a \in Agents, NEW name \in Names, NEW s \in 0..index.clock, Fork(a, name, s)
  PROVE  /\ StatesInv'
         /\ s \in Nat
         /\ name \notin DOMAIN branches /\ DOMAIN branches' = DOMAIN branches \cup {name}
         /\ DOMAIN states' = DOMAIN states \cup {Len(states) + 1} /\ Len(states) + 1 \notin DOMAIN states
         /\ branches'[name] = Len(states) + 1 /\ \A m \in DOMAIN branches : branches'[m] = branches[m]
         /\ states'[Len(states) + 1] = NewState(a, name, s)
         /\ \A n \in DOMAIN states : states'[n] = states[n]
  <1> DEFINE n == Len(states) + 1
  <1>1. /\ states' = Append(states, NewState(a, name, s)) /\ branches' = Put(branches, name, n)
        /\ name \notin DOMAIN branches /\ UNCHANGED stored /\ calls' = calls
    BY DEF Fork, Has
  <1>2. s \in Nat /\ s <= index.clock /\ index.clock \in Nat
    BY ClockFacts
  <1>3. StateSound(NewState(a, name, s)) /\ NewState(a, name, s).base = s
        /\ NewState(a, name, s) \in StateType
    BY <1>2, NewStateSound DEF StateSound
  <1>4. states \in Seq(StateType) /\ branches \in [DOMAIN branches -> DOMAIN states]
        /\ DOMAIN branches \subseteq Names /\ calls \in [Agents -> {Nothing} \cup CallTypes]
    BY DEF StatesInv
  <1>5. /\ states' \in Seq(StateType) /\ Len(states') = n /\ Len(states) \in Nat /\ n \in Nat
        /\ DOMAIN states = 1..Len(states) /\ DOMAIN states' = 1..n
        /\ \A m \in DOMAIN states : states'[m] = states[m]
        /\ states'[n] = NewState(a, name, s)
    <2>1. Len(states) \in Nat
      BY <1>4, LenProperties
    <2> QED
      BY <2>1, <1>1, <1>3, <1>4, AppendProperties, LenProperties
  <1>6. DOMAIN states' = DOMAIN states \cup {n} /\ n \notin DOMAIN states
    BY <1>5
  <1> HIDE DEF n
  <1>7. /\ branches' \in [DOMAIN branches \cup {name} -> DOMAIN states']
        /\ DOMAIN branches' = DOMAIN branches \cup {name}
        /\ branches'[name] = n /\ \A m \in DOMAIN branches : branches'[m] = branches[m]
    BY <1>1, <1>4, <1>6 DEF Put, Over, Just
  <1>8. calls' \in [Agents -> {Nothing} \cup CallTypes']
    BY <1>1, <1>4, <1>6 DEF CallTypes
  <1>9. \A m \in DOMAIN states' : StateSound(states'[m]) /\ states'[m].base <= index'.clock
    BY <1>1, <1>2, <1>3, <1>5, <1>6 DEF StatesInv, stored
  <1>10. StatesInv'
    BY <1>4, <1>5, <1>7, <1>8, <1>9 DEF StatesInv
  <1> QED
    BY <1>1, <1>2, <1>5, <1>6, <1>7, <1>10 DEF n

LEMMA CloseIs ==
  ASSUME MainInv, StatesInv, NEW a \in Agents, Close(a)
  PROVE  /\ calls[a] # Nothing /\ calls[a].at = "closing" /\ UNCHANGED stored /\ branches' = branches
         /\ Return(a)
         /\ \E b : /\ Replaces(a, b) /\ StateSound(b) /\ b.base <= index.clock /\ b.closed
                   /\ b.name = StateOf(a).name /\ b.agent = StateOf(a).agent
                   /\ b.open => StateOf(a).open
  <1>1. calls[a] # Nothing /\ calls[a].at = "closing" /\ UNCHANGED stored /\ branches' = branches /\ Return(a)
    BY DEF Close, In
  <1>2. /\ StateOf(a) \in StateType /\ StateSound(StateOf(a)) /\ StateOf(a).base <= index.clock
    BY <1>1, CallOn DEF StateOf
  <1> DEFINE Marked == [StateOf(a) EXCEPT !.closed = TRUE]
  <1>3. Replaces(a, Spent(StateOf(a))) \/ Replaces(a, Marked)
    BY DEF Close, Replaces, StateOf
  <1>4. /\ Marked \in StateType /\ Marked.closed /\ Marked.base = StateOf(a).base /\ Marked.name = StateOf(a).name
        /\ Marked.agent = StateOf(a).agent /\ Marked.delta = StateOf(a).delta /\ Marked.open = StateOf(a).open
        /\ Marked.records = StateOf(a).records /\ Marked.deleted = StateOf(a).deleted
        /\ Marked.expected = StateOf(a).expected
    BY <1>2 DEF StateType
  <1> HIDE DEF Marked
  <1>5. StateSound(Marked)
    BY <1>2, <1>4 DEF StateSound, DeltaMatches
  <1>6. PICK b : b = StateOf(a)
    OBVIOUS
  <1>7. b.name \in Names /\ b.agent \in Agents
    BY <1>2, <1>6 DEF StateType
  <1>8. PICK e : e = NewState(b.agent, b.name, 0)
    OBVIOUS
  <1>9. /\ StateSound(e) /\ e.base = 0 /\ e.name = b.name /\ e.agent = b.agent
    BY <1>7, <1>8, NewStateSound
  <1>10. /\ Spent(b).base = 0 /\ Spent(b).name = b.name /\ Spent(b).agent = b.agent
         /\ Spent(b).open = FALSE /\ Spent(b).closed = TRUE /\ Spent(b).delta = e.delta
         /\ Spent(b).expected = e.expected /\ Spent(b) \in StateType
    BY <1>8, <1>9 DEF Spent, StateSound, StateType
  <1>11. StateSound(Spent(b))
    BY <1>9, <1>10 DEF StateSound
  <1>12. 0 <= index.clock
    BY ClockFacts
  <1> QED
    BY <1>1, <1>2, <1>3, <1>4, <1>5, <1>6, <1>10, <1>11, <1>12

-----------------------------------------------------------------------------
(* The invariant.                                                          *)

BranchesInv == MainInv /\ StatesInv

LEMMA AddCommits ==
  ASSUME MainInv, NEW id \in Ids, NEW v \in Vals, Add(id, v)
  PROVE  CommitsMain(Just(id, v), {}) /\ UNCHANGED <<branches, states, calls>>
  <1>1. v \in AllVals
    BY DEF AllVals
  <1>2. /\ Just(id, v) \in [DOMAIN Just(id, v) -> AllVals] /\ DOMAIN Just(id, v) = {id}
        /\ Fresh(Just(id, v)) = {Row(id, v, {})}
    BY <1>1, JustFresh
  <1>3. index' = Commit(index, {}, Fresh(Just(id, v))) /\ index'.clock = index.clock + 1
    BY <1>2, CommitHas DEF Add, Insert
  <1> QED
    BY <1>2, <1>3 DEF Add, CommitsMain

LEMMA DeleteCommits ==
  ASSUME MainInv, NEW id \in Ids, DeleteRecord(id)
  PROVE  /\ CommitsMain(<<>>, {id}) /\ UNCHANGED <<branches, states, calls>>
         /\ id \in OpenIds(index)
  <1>1. <<>> \in [DOMAIN <<>> -> AllVals] /\ DOMAIN <<>> = {} /\ Fresh(<<>>) = {}
    BY EmptyIs DEF Fresh
  <1>2. index' = Commit(index, {id}, Fresh(<<>>)) /\ index'.clock = index.clock + 1
    BY <1>1, CommitHas DEF DeleteRecord, Delete
  <1>3. id \in DOMAIN records
    BY DEF DeleteRecord, MainInv, RecordsSound, OpenIds, OpenRows
  <1> QED
    BY <1>1, <1>2, <1>3 DEF DeleteRecord, CommitsMain

LEMMA NothingStored ==
  ASSUME MainInv, NEW new, DOMAIN new = {}, NEW ts, Stored(new, {}, ts)
  PROVE  records' = records /\ history' = history /\ versions' = versions
  <1>1. /\ records = [id \in DOMAIN records |-> records[id]]
        /\ history = [id \in DOMAIN history |-> history[id]]
        /\ versions = [id \in DOMAIN versions |-> versions[id]]
    BY DEF MainInv, Shapes
  <1>2. records' = records
    <2> DEFINE f == [id \in DOMAIN new |-> [val |-> new[id], deleted_at |-> Nothing]]
               g == [id \in DOMAIN records |->
                       IF id \in {} THEN [records[id] EXCEPT !.deleted_at = ts] ELSE records[id]]
    <2>1. records' = Over(f, g) /\ DOMAIN f = {}
      BY DEF Stored
    <2>2. g = records
      BY <1>1
    <2> HIDE DEF f, g
    <2>3. Over(f, g) = [x \in DOMAIN records |-> records[x]]
      BY <2>1, <2>2 DEF Over
    <2> QED
      BY <2>1, <2>3, <1>1
  <1>3. history' = history
    <2> DEFINE e == [id \in DOMAIN new |-> [stamp |-> ts, val |-> new[id]]]
    <2>1. history' = Logged(history, e) /\ DOMAIN e = {}
      BY DEF Stored
    <2> HIDE DEF e
    <2>2. Logged(history, e) = [id \in DOMAIN history |-> history[id]]
      BY <2>1 DEF Logged
    <2> QED
      BY <2>1, <2>2, <1>1
  <1>4. versions' = versions
    <2> DEFINE e == [id \in DOMAIN new \cup {} |-> ts]
    <2>1. versions' = Logged(versions, e) /\ DOMAIN e = {}
      BY DEF Stored
    <2> HIDE DEF e
    <2>2. Logged(versions, e) = [id \in DOMAIN versions |-> versions[id]]
      BY <2>1 DEF Logged
    <2> QED
      BY <2>1, <2>2, <1>1
  <1> QED
    BY <1>2, <1>3, <1>4

\* The ids a merge deletes on main.
Gone(b) == {id \in b.deleted : Live(id)}

LEMMA MergeIs ==
  ASSUME MainInv, StatesInv, NEW a \in Agents, MergeBranch(a)
  PROVE  /\ calls[a] # Nothing /\ calls[a].at = "gate" /\ ~Fails(StateOf(a))
         /\ Release(calls[a].on) /\ Closing(a)
         /\ \/ CommitsMain(StateOf(a).records, Gone(StateOf(a)))
            \/ UNCHANGED stored /\ DOMAIN StateOf(a).records = {} /\ Gone(StateOf(a)) = {}
  <1> DEFINE new == StateOf(a).records
             gone == Gone(StateOf(a))
  <1>1. /\ calls[a] # Nothing /\ calls[a].at = "gate" /\ ~Fails(StateOf(a))
        /\ Release(calls[a].on) /\ Closing(a) /\ horizon' = horizon
    BY DEF MergeBranch, In, StateOf
  <1>2. StateSound(StateOf(a))
    BY <1>1, CallOn DEF StateOf
  <1>3. new \in [DOMAIN new -> AllVals] /\ DOMAIN new \subseteq Ids
    <2>1. new \in PartialFunctions(Ids, BranchVals)
      BY <1>2 DEF StateSound, StateType
    <2> QED
      BY <2>1, PartialIs DEF AllVals
  <1>4. gone \subseteq DOMAIN records
    <2>1. \A id : Live(id) => id \in DOMAIN records
      BY DEF Live, Has
    <2> QED
      BY <2>1 DEF Gone
  <1>5. /\ index' = ApplyChanges(index, gone, Fresh(new))
        /\ Stored(new, gone, index'.clock)
        /\ (gone = {} /\ DOMAIN new = {}) \/ index.clock < MaxClock
        /\ timeline' = IF gone = {} /\ DOMAIN new = {} THEN timeline ELSE Append(timeline, After(new, gone))
    BY DEF MergeBranch, StateOf, Gone, Fresh
  <1>6. Fresh(new) = {} <=> DOMAIN new = {}
    BY <1>3, FreshRows
  <1> HIDE DEF new, gone
  <1>7. CASE gone = {} /\ DOMAIN new = {}
    <2>1. index' = index /\ timeline' = timeline
      BY <1>5, <1>6, <1>7 DEF ApplyChanges
    <2>2. records' = records /\ history' = history /\ versions' = versions
      BY <1>5, <1>7, NothingStored
    <2> QED
      BY <1>1, <1>7, <2>1, <2>2 DEF new, gone, stored
  <1>8. CASE ~(gone = {} /\ DOMAIN new = {})
    <2>1. index' = Commit(index, gone, Fresh(new)) /\ index'.clock = index.clock + 1
      BY <1>5, <1>6, <1>8, CommitHas DEF ApplyChanges
    <2>2. CommitsMain(new, gone)
      BY <1>1, <1>3, <1>4, <1>5, <1>8, <2>1 DEF CommitsMain
    <2> QED
      BY <1>1, <2>2 DEF new, gone
  <1> QED
    BY <1>7, <1>8

LEMMA ProtectedNat ==
  ASSUME MainInv, StatesInv, NEW h \in Protected \cup {index.clock + 1}, Purge(h)
  PROVE  PurgesMain(h) /\ UNCHANGED <<branches, states, calls>>
  <1>1. \A name \in DOMAIN branches :
          states[branches[name]].base \in Nat /\ states[branches[name]].base <= index.clock
    <2>1. \A name \in DOMAIN branches : branches[name] \in DOMAIN states
      BY DEF StatesInv
    <2> QED
      BY <2>1 DEF StatesInv, StateSound, StateType
  <1>2. h \in Nat /\ h <= index.clock + 1
    BY <1>1, ClockFacts DEF Protected
  <1> QED
    BY <1>2 DEF Purge, PurgesMain

LEMMA InvInit ==
  ASSUME Init
  PROVE  BranchesInv
  <1>1. MainInv
    BY MainInit
  <1>2. states = <<>> /\ branches = <<>> /\ calls = [a \in Agents |-> Nothing]
    BY DEF Init
  <1>3. states \in Seq(StateType) /\ DOMAIN states = {} /\ DOMAIN branches = {}
        /\ branches \in [DOMAIN branches -> DOMAIN states]
    BY <1>2
  <1>4. calls \in [Agents -> {Nothing} \cup CallTypes]
    BY <1>2
  <1> QED
    BY <1>1, <1>3, <1>4 DEF BranchesInv, StatesInv

\* A commit on main moves its clock, and no state of a branch.
LEMMA InvOnMain ==
  ASSUME BranchesInv, NEW new, NEW gone, CommitsMain(new, gone), UNCHANGED <<branches, states, calls>>
  PROVE  BranchesInv'
  <1>1. MainInv' /\ index'.clock = index.clock + 1 /\ index.clock \in Nat
    BY CommitMain, CommitShapes, ClockFacts DEF BranchesInv
  <1>2. calls' \in [Agents -> {Nothing} \cup CallTypes]
    BY DEF BranchesInv, StatesInv
  <1>3. StatesInv'
    BY <1>1, <1>2, StatesKept DEF BranchesInv
  <1> QED
    BY <1>1, <1>3 DEF BranchesInv

LEMMA InvPurge ==
  ASSUME BranchesInv, NEW h \in Protected \cup {index.clock + 1}, Purge(h)
  PROVE  BranchesInv'
  <1>1. PurgesMain(h) /\ UNCHANGED <<branches, states, calls>>
    BY ProtectedNat DEF BranchesInv
  <1>2. MainInv' /\ index'.clock = index.clock /\ index.clock \in Nat
    BY <1>1, PurgeMain, PurgeFacts, ClockFacts DEF BranchesInv
  <1>3. calls' \in [Agents -> {Nothing} \cup CallTypes]
    BY <1>1 DEF BranchesInv, StatesInv
  <1>4. StatesInv'
    BY <1>1, <1>2, <1>3, StatesKept DEF BranchesInv
  <1> QED
    BY <1>2, <1>4 DEF BranchesInv

LEMMA InvFork ==
  ASSUME BranchesInv, NEW a \in Agents, NEW name \in Names, NEW s \in 0..index.clock, Fork(a, name, s)
  PROVE  BranchesInv'
  <1>1. MainInv'
    BY MainSame DEF BranchesInv, Fork
  <1> QED
    BY <1>1, ForkIs DEF BranchesInv

LEMMA InvSame ==
  ASSUME BranchesInv, UNCHANGED stored, UNCHANGED <<branches, states>>,
         calls' \in [Agents -> {Nothing} \cup CallTypes]
  PROVE  BranchesInv'
  <1>1. MainInv' /\ index' = index /\ index.clock \in Nat
    BY MainSame, ClockFacts DEF BranchesInv, stored
  <1>2. StatesInv'
    BY <1>1, StatesKept DEF BranchesInv
  <1> QED
    BY <1>1, <1>2 DEF BranchesInv

LEMMA CallIs ==
  ASSUME StatesInv, NEW a \in Agents, NEW n \in DOMAIN states, Call(a, n)
  PROVE  /\ calls' \in [Agents -> {Nothing} \cup CallTypes]
         /\ calls' = [calls EXCEPT ![a] = [at |-> "gate", on |-> n]]
         /\ calls[a] = Nothing /\ ~states[n].closed /\ (Shared \/ states[n].agent = a)
         /\ UNCHANGED stored /\ UNCHANGED <<branches, states>>
  BY DEF Call, StatesInv, CallTypes

LEMMA MergeRefusedIs ==
  ASSUME StatesInv, NEW a \in Agents, MergeRefused(a)
  PROVE  /\ calls' \in [Agents -> {Nothing} \cup CallTypes]
         /\ UNCHANGED stored /\ UNCHANGED <<branches, states>>
         /\ calls[a] # Nothing /\ calls[a].at = "gate"
         /\ \/ Return(a) /\ StateOf(a).name \in DOMAIN branches
            \/ Closing(a) /\ StateOf(a).name \notin DOMAIN branches
  <1>1. /\ UNCHANGED stored /\ UNCHANGED <<branches, states>>
        /\ calls[a] # Nothing /\ calls[a].at = "gate"
        /\ \/ Return(a) /\ StateOf(a).name \in DOMAIN branches
           \/ Closing(a) /\ StateOf(a).name \notin DOMAIN branches
    BY DEF MergeRefused, In, Has, StateOf
  <1> QED
    BY <1>1, CallsReturn, CallsClosing

\* A step of a call that replaces the state it is on and nothing of main.
LEMMA InvReplaces ==
  ASSUME BranchesInv, NEW a \in Agents, calls[a] # Nothing, UNCHANGED stored,
         NEW b, StateSound(b), b.base <= index.clock, Replaces(a, b),
         branches' \in [DOMAIN branches' -> DOMAIN states], DOMAIN branches' \subseteq Names,
         calls' \in [Agents -> {Nothing} \cup CallTypes]
  PROVE  BranchesInv'
  <1>1. MainInv' /\ index' = index /\ index.clock \in Nat
    BY MainSame, ClockFacts DEF BranchesInv, stored
  <1>2. calls[a].on \in DOMAIN states
    BY CallOn DEF BranchesInv
  <1>3. PICK n \in DOMAIN states : n = calls[a].on
    BY <1>2
  <1>4. states' = [states EXCEPT ![n] = b]
    BY <1>3 DEF Replaces
  <1>5. index'.clock \in Nat /\ index.clock <= index'.clock
    BY <1>1
  <1>6. StatesInv'
    BY <1>1, <1>4, <1>5, StateReplaced DEF BranchesInv
  <1> QED
    BY <1>1, <1>6 DEF BranchesInv

LEMMA BranchesTyped ==
  ASSUME StatesInv, branches' = branches
  PROVE  branches' \in [DOMAIN branches' -> DOMAIN states] /\ DOMAIN branches' \subseteq Names
  BY DEF StatesInv

LEMMA InvBranchAdd ==
  ASSUME BranchesInv, NEW a \in Agents, NEW id \in Ids, NEW v \in BranchVals, BranchAdd(a, id, v)
  PROVE  BranchesInv'
  <1>1. /\ calls[a] # Nothing /\ Return(a) /\ UNCHANGED stored /\ branches' = branches
        /\ StateOf(a).delta.clock < MaxLocal
        /\ Replaces(a, IF StateOf(a).open THEN Added(StateOf(a), id, v) ELSE Touched(StateOf(a), id))
    BY BranchAddIs DEF BranchesInv
  <1>2. PICK b : b = StateOf(a)
    OBVIOUS
  <1>3. StateSound(b) /\ b.base <= index.clock
    BY <1>1, <1>2, CallOn DEF StateOf, BranchesInv
  <1>4. calls' \in [Agents -> {Nothing} \cup CallTypes]
    BY <1>1, CallsReturn DEF BranchesInv
  <1>5. branches' \in [DOMAIN branches' -> DOMAIN states] /\ DOMAIN branches' \subseteq Names
    BY <1>1, BranchesTyped DEF BranchesInv
  <1>6. CASE b.open
    <2>1. StateSound(Added(b, id, v)) /\ Added(b, id, v).base = b.base
      BY <1>1, <1>2, <1>3, <1>6, AddedSound DEF BranchesInv
    <2> QED
      BY <1>1, <1>2, <1>3, <1>4, <1>5, <1>6, <2>1, InvReplaces
  <1>7. CASE ~b.open
    <2>1. StateSound(Touched(b, id)) /\ Touched(b, id).base = b.base
      BY <1>3, <1>7, TouchedSound, TouchedIs DEF BranchesInv
    <2> QED
      BY <1>1, <1>2, <1>3, <1>4, <1>5, <1>7, <2>1, InvReplaces
  <1> QED
    BY <1>6, <1>7

LEMMA InvBranchDelete ==
  ASSUME BranchesInv, NEW a \in Agents, NEW id \in Ids, BranchDelete(a, id)
  PROVE  BranchesInv'
  <1>1. /\ calls[a] # Nothing /\ Return(a) /\ UNCHANGED stored /\ branches' = branches
        /\ id \in DOMAIN StateOf(a).records => StateOf(a).delta.clock < MaxLocal
        /\ Replaces(a, IF ~StateOf(a).open /\ id \in DOMAIN StateOf(a).records
                       THEN Touched(StateOf(a), id) ELSE Erased(StateOf(a), id))
    BY BranchDeleteIs DEF BranchesInv
  <1>2. PICK b : b = StateOf(a)
    OBVIOUS
  <1>3. StateSound(b) /\ b.base <= index.clock
    BY <1>1, <1>2, CallOn DEF StateOf, BranchesInv
  <1>4. calls' \in [Agents -> {Nothing} \cup CallTypes]
    BY <1>1, CallsReturn DEF BranchesInv
  <1>5. branches' \in [DOMAIN branches' -> DOMAIN states] /\ DOMAIN branches' \subseteq Names
    BY <1>1, BranchesTyped DEF BranchesInv
  <1>6. CASE ~b.open /\ id \in DOMAIN b.records
    <2>1. StateSound(Touched(b, id)) /\ Touched(b, id).base = b.base
      BY <1>3, <1>6, TouchedSound, TouchedIs DEF BranchesInv
    <2> QED
      BY <1>1, <1>2, <1>3, <1>4, <1>5, <1>6, <2>1, InvReplaces
  <1>7. CASE ~(~b.open /\ id \in DOMAIN b.records)
    <2>1. id \in DOMAIN b.records => b.open /\ b.delta.clock < MaxLocal
      BY <1>1, <1>2, <1>7
    <2>2. b.open \in BOOLEAN
      BY <1>3 DEF StateSound, StateType
    <2>3. StateSound(Erased(b, id)) /\ Erased(b, id).base = b.base
      BY <1>3, <2>1, ErasedSound DEF BranchesInv
    <2>4. Replaces(a, Erased(b, id))
      BY <1>1, <1>2, <1>7
    <2> QED
      BY <1>1, <1>3, <1>4, <1>5, <2>3, <2>4, InvReplaces
  <1> QED
    BY <1>6, <1>7

LEMMA InvDiscard ==
  ASSUME BranchesInv, NEW a \in Agents, DiscardBranch(a)
  PROVE  BranchesInv'
  <1>1. /\ calls[a] # Nothing /\ Release(calls[a].on) /\ Closing(a) /\ UNCHANGED stored
    BY DEF DiscardBranch, In
  <1>2. PICK n \in DOMAIN states : n = calls[a].on /\ StateSound(states[n]) /\ states[n].base <= index.clock
    BY <1>1, CallOn DEF BranchesInv
  <1>3. /\ states' = [states EXCEPT ![n] = Released(states[n])]
        /\ branches' \in [DOMAIN branches' -> DOMAIN states] /\ DOMAIN branches' \subseteq Names
    BY <1>1, <1>2, ReleaseIs DEF BranchesInv
  <1>4. StateSound(Released(states[n])) /\ Released(states[n]).base = states[n].base
    BY <1>2, ReleasedSound
  <1>5. calls' \in [Agents -> {Nothing} \cup CallTypes]
    BY <1>1, CallsClosing DEF BranchesInv
  <1>6. Replaces(a, Released(states[n]))
    BY <1>2, <1>3 DEF Replaces
  <1> QED
    BY <1>1, <1>2, <1>3, <1>4, <1>5, <1>6, InvReplaces

LEMMA InvMerge ==
  ASSUME BranchesInv, NEW a \in Agents, MergeBranch(a)
  PROVE  BranchesInv'
  <1>1. /\ calls[a] # Nothing /\ Release(calls[a].on) /\ Closing(a)
        /\ \/ CommitsMain(StateOf(a).records, Gone(StateOf(a)))
           \/ UNCHANGED stored
    BY MergeIs DEF BranchesInv
  <1>2. PICK n \in DOMAIN states : n = calls[a].on /\ StateSound(states[n]) /\ states[n].base <= index.clock
    BY <1>1, CallOn DEF BranchesInv
  <1>3. /\ states' = [states EXCEPT ![n] = Released(states[n])]
        /\ branches' \in [DOMAIN branches' -> DOMAIN states] /\ DOMAIN branches' \subseteq Names
    BY <1>1, <1>2, ReleaseIs DEF BranchesInv
  <1>4. StateSound(Released(states[n])) /\ Released(states[n]).base = states[n].base
    BY <1>2, ReleasedSound
  <1>5. calls' \in [Agents -> {Nothing} \cup CallTypes]
    BY <1>1, CallsClosing DEF BranchesInv
  <1>6. MainInv' /\ index.clock \in Nat /\ index'.clock \in Nat /\ index.clock <= index'.clock
    <2>1. CASE CommitsMain(StateOf(a).records, Gone(StateOf(a)))
      BY <2>1, CommitMain, CommitShapes, ClockFacts DEF BranchesInv
    <2>2. CASE UNCHANGED stored
      BY <2>2, MainSame, ClockFacts DEF BranchesInv, stored
    <2> QED
      BY <1>1, <2>1, <2>2
  <1>7. StatesInv'
    BY <1>2, <1>3, <1>4, <1>5, <1>6, StateReplaced DEF BranchesInv
  <1> QED
    BY <1>6, <1>7 DEF BranchesInv

LEMMA InvClose ==
  ASSUME BranchesInv, NEW a \in Agents, Close(a)
  PROVE  BranchesInv'
  <1>1. /\ calls[a] # Nothing /\ UNCHANGED stored /\ branches' = branches /\ Return(a)
        /\ \E b : Replaces(a, b) /\ StateSound(b) /\ b.base <= index.clock
    BY CloseIs DEF BranchesInv
  <1>2. PICK b : Replaces(a, b) /\ StateSound(b) /\ b.base <= index.clock
    BY <1>1
  <1>3. calls' \in [Agents -> {Nothing} \cup CallTypes]
    BY <1>1, CallsReturn DEF BranchesInv
  <1>4. branches' \in [DOMAIN branches' -> DOMAIN states] /\ DOMAIN branches' \subseteq Names
    BY <1>1, BranchesTyped DEF BranchesInv
  <1> QED
    BY <1>1, <1>2, <1>3, <1>4, InvReplaces

\* Every step keeps the invariant.
LEMMA InvNext ==
  ASSUME BranchesInv, [Next]_vars
  PROVE  BranchesInv'
  <1>1. CASE Main
    <2>1. ASSUME NEW id \in Ids, NEW v \in Vals, Add(id, v)
          PROVE  BranchesInv'
      BY <2>1, AddCommits, InvOnMain DEF BranchesInv
    <2>2. ASSUME NEW id \in Ids, DeleteRecord(id)
          PROVE  BranchesInv'
      BY <2>2, DeleteCommits, InvOnMain DEF BranchesInv
    <2>3. ASSUME NEW h \in Protected \cup {index.clock + 1}, Purge(h)
          PROVE  BranchesInv'
      BY <2>3, InvPurge
    <2>4. ASSUME NEW a \in Agents, NEW name \in Names, NEW s \in 0..index.clock, Fork(a, name, s)
          PROVE  BranchesInv'
      BY <2>4, InvFork
    <2> QED
      BY <1>1, <2>1, <2>2, <2>3, <2>4 DEF Main
  <1>2. ASSUME NEW a \in Agents, Branch(a)
        PROVE  BranchesInv'
    <2>1. ASSUME NEW n \in DOMAIN states, Call(a, n)
          PROVE  BranchesInv'
      BY <2>1, CallIs, InvSame DEF BranchesInv
    <2>2. ASSUME NEW id \in Ids, BranchDelete(a, id)
          PROVE  BranchesInv'
      BY <2>2, InvBranchDelete
    <2>3. ASSUME NEW id \in Ids, NEW v \in BranchVals, BranchAdd(a, id, v)
          PROVE  BranchesInv'
      BY <2>3, InvBranchAdd
    <2>4. CASE MergeRefused(a)
      BY <2>4, MergeRefusedIs, InvSame DEF BranchesInv
    <2>5. CASE MergeBranch(a)
      BY <2>5, InvMerge
    <2>6. CASE DiscardBranch(a)
      BY <2>6, InvDiscard
    <2>7. CASE Close(a)
      BY <2>7, InvClose
    <2> QED
      BY <1>2, <2>1, <2>2, <2>3, <2>4, <2>5, <2>6, <2>7 DEF Branch
  <1>3. CASE UNCHANGED vars
    <2>1. UNCHANGED stored /\ UNCHANGED <<branches, states>> /\ calls' = calls
      BY <1>3 DEF vars
    <2>2. calls' \in [Agents -> {Nothing} \cup CallTypes]
      BY <2>1 DEF BranchesInv, StatesInv
    <2> QED
      BY <2>1, <2>2, InvSame
  <1> QED
    BY <1>1, <1>2, <1>3 DEF Next

LEMMA InvAlways == Spec => []BranchesInv
  <1>1. Init => BranchesInv
    BY InvInit
  <1>2. BranchesInv /\ [Next]_vars => BranchesInv'
    BY InvNext
  <1> QED
    BY <1>1, <1>2, PTL DEF Spec

LEMMA InvTypeOK ==
  ASSUME BranchesInv
  PROVE  TypeOK
  <1>1. /\ index.clock \in Stamp /\ horizon \in 0..MaxClock + 1 /\ Len(timeline) = index.clock
    BY ClockFacts DEF BranchesInv, MainInv, Shapes, Stamp
  <1>2. Maps(records, Ids, [val : Vals \cup BranchVals, deleted_at : Stamp \cup {Nothing}])
    <2>1. /\ DOMAIN records \subseteq Ids
          /\ \A id \in DOMAIN records : records[id] \in [val : AllVals, deleted_at : Nat \cup {Nothing}]
      BY DEF BranchesInv, MainInv, Shapes
    <2>2. ASSUME NEW id \in DOMAIN records
          PROVE  records[id].deleted_at \in Stamp \cup {Nothing}
      <3>1. CASE records[id].deleted_at = Nothing
        BY <3>1
      <3>2. CASE records[id].deleted_at # Nothing
        <4>1. records[id].deleted_at \in 0..index.clock
          BY <3>2 DEF Live, BranchesInv, MainInv, RecordsSound
        <4> QED
          BY <4>1, ClockFacts DEF BranchesInv, Stamp
      <3> QED
        BY <3>1, <3>2
    <2>3. \A id \in DOMAIN records : records[id] \in [val : AllVals, deleted_at : Stamp \cup {Nothing}]
      BY <2>1, <2>2
    <2> QED
      BY <2>1, <2>3 DEF Maps, AllVals
  <1>3. /\ DOMAIN history = DOMAIN records /\ DOMAIN versions = DOMAIN records
        /\ \A id \in DOMAIN versions : versions[id] \in Seq(Stamp) /\ versions[id] # <<>>
    <2> DEFINE S == 0..MaxClock
    <2>1. /\ DOMAIN history = DOMAIN records /\ versions \in [DOMAIN records -> Seq(S)]
          /\ \A id \in DOMAIN versions : versions[id] # <<>>
      BY DEF BranchesInv, MainInv, Shapes
    <2> HIDE DEF S
    <2>2. DOMAIN versions = DOMAIN records /\ \A id \in DOMAIN versions : versions[id] \in Seq(S)
      BY <2>1
    <2> QED
      BY <2>1, <2>2 DEF S, Stamp
  <1>4. Maps(branches, Names, DOMAIN states)
    BY DEF BranchesInv, StatesInv, Maps
  <1>5. ASSUME NEW n \in DOMAIN states
        PROVE  LET b == states[n]
               IN /\ Maps(b.records, Ids, BranchVals) /\ b.deleted \subseteq Ids
                  /\ Maps(b.expected, Ids, 0..b.base)
                  /\ b.delta.clock \in 0..MaxLocal /\ (b.open => OpenIds(b.delta) = DOMAIN b.records)
    <2>1. PICK b : b = states[n]
      OBVIOUS
    <2>2. StateSound(b) /\ b \in StateType
      BY <2>1 DEF BranchesInv, StatesInv, StateSound
    <2>3. /\ b.records \in PartialFunctions(Ids, BranchVals) /\ b.deleted \subseteq Ids
          /\ b.expected \in PartialFunctions(Ids, Nat) /\ b.base \in Nat
      BY <2>2 DEF StateType
    <2>4. Maps(b.records, Ids, BranchVals)
      BY <2>3, PartialIs DEF Maps
    <2>5. \A id \in DOMAIN b.expected : b.expected[id] \in Nat /\ b.expected[id] <= b.base
      BY <2>2, <2>3, PartialIs DEF StateSound
    <2>6. Maps(b.expected, Ids, 0..b.base)
      BY <2>3, <2>5, PartialIs DEF Maps
    <2>7. b.delta.clock \in 0..MaxLocal /\ (b.open => OpenIds(b.delta) = DOMAIN b.records)
      BY <2>2, RowFacts, Bounds DEF StateSound, DeltaMatches
    <2> QED
      BY <2>1, <2>3, <2>4, <2>6, <2>7
  <1> QED
    BY <1>1, <1>2, <1>3, <1>4, <1>5 DEF TypeOK

\* The books of the memory agree: records, history and versions know the same
\* ids, the live records are what the engine has open (a merge deletes by the
\* records, and the engine raises for an id it does not have), and an open delta
\* holds what its branch recorded.
THEOREM MemoryBooks == Spec => []MemorySound
  <1>1. ASSUME BranchesInv
        PROVE  MemorySound
    <2>1. TypeOK
      BY <1>1, InvTypeOK
    <2>2. RecordsMatch
      <3>1. /\ \A v \in index.rows : v.id \in DOMAIN records
            /\ \A v \in OpenRows(index) : Live(v.id)
            /\ \A id \in DOMAIN records : Live(id) => id \in OpenIds(index)
        BY <1>1 DEF BranchesInv, MainInv, RecordsSound
      <3> QED
        BY <3>1 DEF RecordsMatch, OpenIds, OpenRows
    <2> QED
      BY <2>1, <2>2 DEF MemorySound
  <1> QED
    BY <1>1, InvAlways, PTL

\* A search as of a snapshot no purge reached gives what main held then, each
\* vector with the payload it was stored with, whatever was written, merged,
\* deleted or purged since.
THEOREM SnapshotsKept == Spec => []Snapshots
  <1>1. BranchesInv => Snapshots
    BY InvSnapshots DEF BranchesInv
  <1> QED
    BY <1>1, InvAlways, PTL

-----------------------------------------------------------------------------
(* The refinement of BranchStore: what a search shows.                     *)

\* What a branch shows, over what main held at its fork.
View(b, m) ==
  {<<id, b.records[id]>> : id \in DOMAIN b.records}
  \cup {p \in m : p[1] \notin b.deleted \cup DOMAIN b.records}

LEMMA MainViewIs == BranchesInv => MainView = Now
  <1> SUFFICES ASSUME BranchesInv PROVE MainView = Now
    OBVIOUS
  <1>1. IndexSound(index, AllVals) /\ index.clock < Forever /\ AsOf(index, index.clock) = OpenRows(index)
    BY ClockFacts DEF BranchesInv
  <1>2. OpenRows(index) \in SUBSET AllRows(AllVals)
        /\ \A v, w \in OpenRows(index) : v.id = w.id => v = w
    BY <1>1, OneOpenVersion DEF IndexSound, OpenRows
  <1>3. Everything \in Nat /\ Everything >= Everything
    BY EverythingNat
  <1>4. Nearest(OpenRows(index), Everything) = OpenRows(index)
    BY <1>2, <1>3, NearestAll, ValsAreNumbers
  <1>5. \A v \in OpenRows(index) : record_now(v.id) = v.val /\ v.val # Nothing
    <2>1. \A v \in OpenRows(index) : v.val \in AllVals /\ v.id \in DOMAIN records /\ records[v.id].val = v.val
      BY <1>1, RowFacts DEF OpenRows, BranchesInv, MainInv, RecordsSound
    <2> QED
      BY <2>1, ValsAreNumbers DEF record_now, Has
  <1>6. MainSearch(Everything) = {Hit(v.id, v.val, v.val) : v \in OpenRows(index)}
    BY <1>4, <1>5 DEF MainSearch, WithRecord, Hit
  <1>7. \A v : /\ Hit(v.id, v.val, v.val).id = v.id /\ Hit(v.id, v.val, v.val).val = v.val
               /\ Hit(v.id, v.val, v.val).payload = v.val
    BY DEF Hit
  <1>8. MainView = Pairs(index, index.clock)
    BY <1>1, <1>6, <1>7 DEF MainView, Shown, Pairs
  <1> QED
    BY <1>8, NowIs DEF BranchesInv

\* An open branch shows its own writes over the fork.
LEMMA BranchShows ==
  ASSUME BranchesInv, NEW b, StateSound(b), b.open, b.base <= index.clock, horizon <= b.base + 1
  PROVE  Shown(BranchHits(b, Everything)) = View(b, MainState(b.base))
  <1>1. /\ b.records \in PartialFunctions(Ids, BranchVals) /\ b.deleted \subseteq Ids /\ b.base \in Nat
        /\ IndexSound(b.delta, BranchVals) /\ b.delta.clock \in Nat /\ b.delta.clock < Forever
        /\ DeltaMatches(b)
    BY RowFacts, Bounds DEF StateSound, StateType
  <1>2. OpenIds(b.delta) = DOMAIN b.records /\ \A v \in OpenRows(b.delta) : b.records[v.id] = v.val
    BY <1>1 DEF DeltaMatches
  <1>3. Everything \in Nat /\ Everything >= Everything
    BY EverythingNat
  <1>4. OpenRows(b.delta) \in SUBSET AllRows(BranchVals)
        /\ \A v, w \in OpenRows(b.delta) : v.id = w.id => v = w
    BY <1>1, OneOpenVersion DEF IndexSound, OpenRows
  <1>5. BranchVals \subseteq Nat
    BY Bounds
  <1>6. Nearest(OpenRows(b.delta), Everything) = OpenRows(b.delta)
    BY <1>3, <1>4, <1>5, NearestAll
  <1> DEFINE own == DeltaHits(b, Everything)
             under == BaseHits(b, Everything)
  <1>7. /\ own = {Hit(id, b.records[id], b.records[id]) : id \in DOMAIN b.records}
    BY <1>2, <1>6 DEF DeltaHits, Has, OpenIds
  <1>8. \A x, y : Hit(x, y, y).id = x /\ Hit(x, y, y).val = y /\ Hit(x, y, y).payload = y
    BY DEF Hit
  <1>9. under = {Hit(v.id, v.val, v.val) : v \in {w \in AsOf(index, b.base) : w.id \notin b.deleted}}
    <2>1. IsFiniteSet(b.deleted) /\ Cardinality(b.deleted) \in Nat
      BY <1>1, Bounds, FS_Subset, FS_CardinalityType
    <2>2. PICK k : k = Everything + Cardinality(b.deleted)
      OBVIOUS
    <2>3. k \in Nat /\ k >= Everything
      BY <2>1, <2>2, <1>3
    <2>4. MainSearchAt(b.base, k) = {Hit(v.id, v.val, v.val) : v \in AsOf(index, b.base)}
      BY <2>3, <1>1, MainShows DEF BranchesInv
    <2>5. CASE b.base = 0
      <3>1. AsOf(index, b.base) = {}
        BY <2>5, ClockFacts, RowFacts DEF AsOf, BranchesInv
      <3> QED
        BY <3>1, <2>5 DEF BaseHits
    <2>6. CASE b.base # 0
      <3>1. under = {h \in MainSearchAt(b.base, k) : h.id \notin b.deleted}
        BY <2>2, <2>6 DEF BaseHits
      <3> HIDE DEF under
      <3> QED
        BY <3>1, <2>4, <1>8
    <2> QED
      BY <2>5, <2>6
  <1> HIDE DEF own, under
  <1>10. Shown(own) = {<<id, b.records[id]>> : id \in DOMAIN b.records}
    BY <1>7, <1>8 DEF Shown
  <1>11. {d.id : d \in own} = DOMAIN b.records
    BY <1>7, <1>8
  <1>12. Pairs(index, b.base) = MainState(b.base)
    <2>1. CASE b.base = 0
      <3>1. AsOf(index, b.base) = {}
        BY <2>1, ClockFacts, RowFacts DEF AsOf, BranchesInv
      <3> QED
        BY <3>1, <2>1 DEF Pairs, MainState
    <2>2. CASE b.base # 0
      <3>1. b.base \in 1..index.clock /\ b.base + 1 >= horizon
        BY <2>2, <1>1, ClockFacts DEF BranchesInv
      <3> QED
        BY <3>1, <2>2 DEF BranchesInv, MainInv, TimelineSound, MainState
    <2> QED
      BY <2>1, <2>2
  <1>13. Shown({h \in under : \A d \in own : d.id # h.id})
           = {p \in MainState(b.base) : p[1] \notin b.deleted \cup DOMAIN b.records}
    <2>1. {h \in under : \A d \in own : d.id # h.id}
            = {Hit(v.id, v.val, v.val) :
                 v \in {w \in AsOf(index, b.base) : w.id \notin b.deleted \cup DOMAIN b.records}}
      BY <1>8, <1>9, <1>11
    <2>2. Shown({h \in under : \A d \in own : d.id # h.id})
            = {<<v.id, v.val>> :
                 v \in {w \in AsOf(index, b.base) : w.id \notin b.deleted \cup DOMAIN b.records}}
      BY <2>1, <1>8 DEF Shown
    <2>3. {<<v.id, v.val>> :
             v \in {w \in AsOf(index, b.base) : w.id \notin b.deleted \cup DOMAIN b.records}}
            = {p \in Pairs(index, b.base) : p[1] \notin b.deleted \cup DOMAIN b.records}
      BY DEF Pairs
    <2> QED
      BY <2>2, <2>3, <1>12
  <1>14. BranchHits(b, Everything) = own \cup {h \in under : \A d \in own : d.id # h.id}
    BY DEF BranchHits, own, under
  <1>15. \A S, U : Shown(S \cup U) = Shown(S) \cup Shown(U)
    BY DEF Shown
  <1> QED
    <2>1. PICK X : X = {h \in under : \A d \in own : d.id # h.id}
      OBVIOUS
    <2>2. BranchHits(b, Everything) = own \cup X
      BY <2>1, <1>14
    <2>3. Shown(own \cup X) = Shown(own) \cup Shown(X)
      BY <1>15
    <2>4. Shown(X) = {p \in MainState(b.base) : p[1] \notin b.deleted \cup DOMAIN b.records}
      BY <2>1, <1>13
    <2> QED
      BY <2>2, <2>3, <2>4, <1>10 DEF View

-----------------------------------------------------------------------------
(* What main changed since a fork, and whose branches are whose.           *)

LastStamp(id) == versions[id][Len(versions[id])]
At(m, id) == {p \in m : p[1] = id}

\* An id that main changed after a snapshot no purge reached has a later stamp.
ChangesLogged ==
  \A s, t \in 0..index.clock : s <= t /\ s + 1 >= horizon =>
    \A id \in Ids : At(MainState(s), id) # At(MainState(t), id)
                      => id \in DOMAIN versions /\ LastStamp(id) > s

\* The deletion is the last commit on an id that is not live.
LastsDeleted == \A id \in DOMAIN versions : ~Live(id) => LastStamp(id) <= records[id].deleted_at

\* Agents keep to their branches.  A listed branch is open and no purge went
\* past its fork; a call past the check is on a branch that is listed, or
\* about to mark closed one that no longer is.
Listed ==
  \A name \in DOMAIN branches :
    LET b == states[branches[name]]
    IN b.name = name /\ horizon <= b.base + 1 /\ b.open /\ ~b.closed
OnOwn ==
  \A a \in Agents : calls[a] # Nothing =>
    /\ StateOf(a).agent = a
    /\ ~StateOf(a).closed
    /\ calls[a].at = "gate" =>
         StateOf(a).name \in DOMAIN branches /\ branches[StateOf(a).name] = calls[a].on
    /\ calls[a].at = "closing" => \A name \in DOMAIN branches : branches[name] # calls[a].on
NotClosed ==
  \A n \in DOMAIN states : ~states[n].closed =>
    \/ states[n].name \in DOMAIN branches /\ branches[states[n].name] = n
    \/ LET a == states[n].agent IN calls[a] # Nothing /\ calls[a].at = "closing" /\ calls[a].on = n

Owned == Listed /\ OnOwn /\ NotClosed

RefInv == BranchesInv /\ ChangesLogged /\ LastsDeleted /\ Owned

LEMMA VersionsAfter ==
  ASSUME MainInv, NEW new, NEW gone, CommitsMain(new, gone)
  PROVE  /\ DOMAIN versions' = DOMAIN versions \cup DOMAIN new
         /\ \A id \in DOMAIN new \cup gone : LastStamp(id)' = index.clock + 1
         /\ \A id \in DOMAIN versions \ (DOMAIN new \cup gone) : LastStamp(id)' = LastStamp(id)
  <1> DEFINE S == 0..MaxClock
             ts == index.clock + 1
             e == [id \in DOMAIN new \cup gone |-> ts]
  <1>1. /\ versions' = Logged(versions, e) /\ gone \subseteq DOMAIN records
    <2>1. Stored(new, gone, ts) /\ gone \subseteq DOMAIN records
      BY CommitFacts
    <2> QED
      BY <2>1 DEF Stored
  <1>2. /\ versions \in [DOMAIN versions -> Seq(S)] /\ DOMAIN versions = DOMAIN records
    BY DEF MainInv, Shapes
  <1>3. ts \in S
    BY CommitShapes, ClockFacts
  <1>4. e \in [DOMAIN e -> S] /\ DOMAIN e = DOMAIN new \cup gone /\ \A id \in DOMAIN e : e[id] = ts
    BY <1>3
  <1> HIDE DEF S, ts, e
  <1>5. /\ Logged(versions, e) \in [DOMAIN versions \cup DOMAIN e -> Seq(S)]
        /\ DOMAIN Logged(versions, e) = DOMAIN versions \cup DOMAIN e
        /\ \A id \in DOMAIN e :
              /\ Numbers(versions, id) \in Seq(S)
              /\ Logged(versions, e)[id] = Append(Numbers(versions, id), e[id])
        /\ \A id \in DOMAIN versions \ DOMAIN e : Logged(versions, e)[id] = versions[id]
    BY <1>2, <1>4, LoggedAt
  <1>6. \A q \in Seq(S), x \in S : Append(q, x)[Len(Append(q, x))] = x
    BY AppendProperties
  <1>7. \A id \in DOMAIN e : versions'[id][Len(versions'[id])] = ts
    BY <1>1, <1>3, <1>4, <1>5, <1>6
  <1>8. \A id \in DOMAIN versions \ DOMAIN e : versions'[id] = versions[id]
    BY <1>1, <1>5
  <1>9. DOMAIN versions' = DOMAIN versions \cup DOMAIN new
    BY <1>1, <1>2, <1>4, <1>5
  <1> QED
    BY <1>4, <1>7, <1>8, <1>9 DEF LastStamp, ts

LEMMA CommitChanges ==
  ASSUME MainInv, ChangesLogged, LastsDeleted, NEW new, NEW gone, CommitsMain(new, gone)
  PROVE  ChangesLogged' /\ LastsDeleted'
  <1> DEFINE ts == index.clock + 1
  <1>1. /\ DOMAIN versions' = DOMAIN versions \cup DOMAIN new
        /\ \A id \in DOMAIN new \cup gone : LastStamp(id)' = ts
        /\ \A id \in DOMAIN versions \ (DOMAIN new \cup gone) : LastStamp(id)' = LastStamp(id)
    BY VersionsAfter
  <1>2. /\ \A s \in 0..index.clock : MainState(s)' = MainState(s)
        /\ MainState(index.clock)' = After(new, gone) /\ Now = MainState(index.clock)
    BY CommitTimeline, NowIs
  <1>3. /\ ts \in Nat /\ index.clock \in Nat /\ ts = index.clock + 1 /\ index'.clock = ts
        /\ horizon' = horizon /\ horizon \in Nat /\ horizon <= ts
        /\ gone \subseteq DOMAIN records /\ DOMAIN versions = DOMAIN records
    BY CommitFacts, ClockFacts DEF CommitsMain, Shapes
  <1>4. \A m : MainState(m)' = IF m' = 0 THEN {} ELSE timeline'[m']
    BY DEF MainState
  <1>5. timeline'[ts] = After(new, gone)
    BY <1>2, <1>3 DEF MainState
  <1>6. ASSUME NEW id, id \notin DOMAIN new \cup gone
        PROVE  At(After(new, gone), id) = At(MainState(index.clock), id)
    BY <1>2, <1>6 DEF At, After
  <1>7. ASSUME NEW id \in DOMAIN new \cup gone
        PROVE  id \in DOMAIN versions' /\ LastStamp(id)' = ts
    BY <1>1, <1>3, <1>7
  <1> HIDE DEF ts
  <1>8. ASSUME NEW s \in 0..index'.clock, NEW t \in 0..index'.clock, s <= t, s + 1 >= horizon',
               NEW id \in Ids, At(MainState(s)', id) # At(MainState(t)', id)
        PROVE  id \in DOMAIN versions' /\ LastStamp(id)' > s
    <2>1. s # ts
      <3>1. s = ts => t = ts
        BY <1>3, <1>8
      <3> QED
        BY <3>1, <1>8 
    <2>2. s \in 0..index.clock /\ s < ts /\ s \in Nat /\ MainState(s)' = MainState(s)
      BY <2>1, <1>2, <1>3
    <2>3. CASE id \in DOMAIN new \cup gone
      BY <2>3, <2>2, <1>7
    <2>4. CASE id \notin DOMAIN new \cup gone
      <3>1. \E u \in 0..index.clock : s <= u /\ At(MainState(s), id) # At(MainState(u), id)
        <4>1. CASE t = ts
          <5>1. MainState(t)' = After(new, gone)
            BY <4>1, <1>2, <1>3 DEF MainState
          <5>2. At(MainState(s), id) # At(MainState(index.clock), id)
            BY <5>1, <2>2, <2>4, <1>6, <1>8
          <5> QED
            BY <5>2, <2>2, <1>3
        <4>2. CASE t # ts
          <5>1. t \in 0..index.clock
            BY <4>2, <1>3
          <5> QED
            BY <5>1, <2>2, <1>2, <1>8
        <4> QED
          BY <4>1, <4>2
      <3>2. id \in DOMAIN versions /\ LastStamp(id) > s
        BY <3>1, <2>2, <1>3, <1>8 DEF ChangesLogged
      <3> QED
        BY <3>2, <2>4, <1>1
    <2> QED
      BY <2>3, <2>4
  <1>9. ChangesLogged'
    BY <1>8 DEF ChangesLogged
  <1>10. LastsDeleted'
    <2>1. /\ DOMAIN records' = DOMAIN new \cup DOMAIN records
          /\ \A id \in DOMAIN records \ DOMAIN new :
               /\ records'[id].deleted_at = IF id \in gone THEN ts ELSE records[id].deleted_at
          /\ \A id : Live(id)' <=> id \in DOMAIN new \/ (Live(id) /\ id \notin gone)
      <3>1. /\ Stored(new, gone, ts) /\ Shapes /\ ts \in Nat
            /\ new \in [DOMAIN new -> AllVals] /\ DOMAIN new \subseteq Ids /\ gone \subseteq DOMAIN records
        BY CommitFacts DEF ts
      <3> QED
        BY <3>1, StoredRecords
    <2>2. ASSUME NEW id \in DOMAIN versions', ~Live(id)'
          PROVE  LastStamp(id)' <= records'[id].deleted_at
      <3>1. id \in DOMAIN records \ DOMAIN new
        BY <2>1, <2>2, <1>1, <1>3
      <3>2. CASE id \in gone
        BY <3>1, <3>2, <2>1, <1>7, <1>3
      <3>3. CASE id \notin gone
        <4>1. ~Live(id) /\ id \in DOMAIN versions
          BY <3>1, <3>3, <2>1, <2>2, <1>3
        <4>2. LastStamp(id) <= records[id].deleted_at
          BY <4>1 DEF LastsDeleted
        <4> QED
          BY <3>1, <3>3, <4>1, <4>2, <2>1, <1>1
      <3> QED
        BY <3>2, <3>3
    <2> QED
      BY <2>2 DEF LastsDeleted
  <1> QED
    BY <1>9, <1>10

LEMMA PurgeChanges ==
  ASSUME MainInv, ChangesLogged, LastsDeleted, NEW h, PurgesMain(h)
  PROVE  ChangesLogged' /\ LastsDeleted'
  <1>1. /\ index'.clock = index.clock /\ index.clock \in Nat
        /\ DOMAIN records' = DOMAIN records \ Stale(h)
        /\ \A id \in DOMAIN records' : records'[id] = records[id] /\ versions'[id] = versions[id]
        /\ \A id \in DOMAIN records' : Live(id)' <=> Live(id)
        /\ horizon' \in Nat /\ horizon' >= horizon /\ horizon' >= h /\ horizon \in Nat /\ h \in Nat
    BY PurgeFacts, ClockFacts DEF PurgesMain
  <1>2. DOMAIN versions = DOMAIN records /\ DOMAIN versions' = DOMAIN records'
    <2>1. MainInv'
      BY PurgeMain
    <2> QED
      BY <2>1 DEF MainInv, Shapes
  <1>3. \A s : MainState(s)' = IF s' = 0 THEN {} ELSE timeline'[s']
    BY DEF MainState
  <1>4. \A s \in 0..index.clock : MainState(s)' = MainState(s)
    BY DEF MainState, PurgesMain
  <1>5. \A id \in DOMAIN versions' : LastStamp(id)' = LastStamp(id)
    BY <1>1, <1>2 DEF LastStamp
  <1>6. \A id \in Stale(h) : ~Live(id) /\ records[id].deleted_at < h /\ id \in DOMAIN records
    BY DEF Stale
  <1>7. \A id \in Stale(h) : /\ records[id].deleted_at \in Nat /\ LastStamp(id) \in Nat
                             /\ LastStamp(id) <= records[id].deleted_at
    <2> SUFFICES ASSUME NEW id \in Stale(h)
                 PROVE  /\ records[id].deleted_at \in Nat /\ LastStamp(id) \in Nat
                        /\ LastStamp(id) <= records[id].deleted_at
      OBVIOUS
    <2>1. records[id].deleted_at \in Nat
      BY <1>1, <1>6 DEF MainInv, RecordsSound
    <2>2. LastStamp(id) \in Nat
      <3> DEFINE S == 0..MaxClock
      <3>1. versions[id] \in Seq(S) /\ versions[id] # <<>>
        BY <1>2, <1>6 DEF MainInv, Shapes
      <3> HIDE DEF S
      <3>2. Len(versions[id]) \in 1..Len(versions[id])
        BY <3>1, EmptySeq, LenProperties
      <3>3. LastStamp(id) \in S
        BY <3>1, <3>2, ElementOfSeq DEF LastStamp
      <3> QED
        BY <3>3, ClockFacts DEF S
    <2> QED
      BY <2>1, <2>2, <1>2, <1>6 DEF LastsDeleted
  <1>8. ASSUME NEW s \in 0..index.clock, NEW t \in 0..index.clock, s <= t, s + 1 >= horizon',
               NEW id \in Ids, At(MainState(s), id) # At(MainState(t), id)
        PROVE  id \in DOMAIN versions' /\ LastStamp(id)' > s
    <2>1. s + 1 >= horizon /\ s + 1 >= h /\ s \in Nat
      BY <1>1, <1>8
    <2>2. id \in DOMAIN versions /\ LastStamp(id) > s
      BY <2>1, <1>8 DEF ChangesLogged
    <2>3. id \notin Stale(h)
      BY <2>1, <2>2, <1>1, <1>6, <1>7
    <2> QED
      BY <2>2, <2>3, <1>1, <1>2, <1>5
  <1>9. ChangesLogged'
    BY <1>1, <1>4, <1>8 DEF ChangesLogged
  <1>10. LastsDeleted'
    BY <1>1, <1>2, <1>5 DEF LastsDeleted
  <1> QED
    BY <1>9, <1>10

LEMMA SameChanges ==
  ASSUME ChangesLogged, LastsDeleted, UNCHANGED stored
  PROVE  ChangesLogged' /\ LastsDeleted'
  <1>1. /\ index' = index /\ records' = records /\ versions' = versions
        /\ horizon' = horizon /\ timeline' = timeline
    BY DEF stored
  <1>2. \A s : MainState(s)' = IF s' = 0 THEN {} ELSE timeline'[s']
    BY DEF MainState
  <1>3. \A s \in 0..index.clock : MainState(s)' = MainState(s)
    BY <1>1 DEF MainState
  <1>4. \A id : LastStamp(id)' = LastStamp(id) /\ (Live(id)' <=> Live(id))
    BY <1>1 DEF LastStamp, Live, Has
  <1>5. ChangesLogged'
    BY <1>1, <1>3, <1>4 DEF ChangesLogged
  <1>6. LastsDeleted'
    BY <1>1, <1>4 DEF LastsDeleted
  <1> QED
    BY <1>5, <1>6

-----------------------------------------------------------------------------
(* Agents that keep to their branches, and forks at or above the horizon.  *)

\* A step that touches no state and no list, and no call but its own.
LEMMA OwnedSame ==
  ASSUME StatesInv, Owned, UNCHANGED <<branches, states, calls>>,
         \A name \in DOMAIN branches : horizon' <= states[branches[name]].base + 1
  PROVE  Owned'
  <1>1. Listed'
    BY DEF Owned, Listed
  <1>2. OnOwn'
    BY DEF Owned, OnOwn, StateOf
  <1>3. NotClosed'
    BY DEF Owned, NotClosed
  <1> QED
    BY <1>1, <1>2, <1>3 DEF Owned

LEMMA OwnedCall ==
  ASSUME StatesInv, Owned, NEW a \in Agents, NEW n \in DOMAIN states, ~Shared, Call(a, n)
  PROVE  Owned'
  <1>1. /\ calls' = [calls EXCEPT ![a] = [at |-> "gate", on |-> n]]
        /\ calls[a] = Nothing /\ ~states[n].closed /\ states[n].agent = a
        /\ branches' = branches /\ states' = states /\ horizon' = horizon
    BY CallIs DEF stored
  <1>2. \A c \in Agents : calls'[c] = IF c = a THEN [at |-> "gate", on |-> n] ELSE calls[c]
    BY <1>1 DEF StatesInv
  <1>3. states[n].name \in DOMAIN branches /\ branches[states[n].name] = n
    BY <1>1 DEF Owned, NotClosed
  <1>4. Listed'
    BY <1>1 DEF Owned, Listed
  <1>5. OnOwn'
    BY <1>1, <1>2, <1>3 DEF Owned, OnOwn, StateOf
  <1>6. NotClosed'
    <2>1. \A m \in DOMAIN states : states[m].agent \in Agents
      BY DEF StatesInv, StateSound, StateType
    <2> QED
      BY <1>1, <1>2, <2>1 DEF Owned, NotClosed
  <1> QED
    BY <1>4, <1>5, <1>6 DEF Owned

\* What an agent's call does to the others' is nothing: nobody else is on its state.
LEMMA OthersElsewhere ==
  ASSUME StatesInv, Owned, NEW a \in Agents, calls[a] # Nothing, NEW c \in Agents, c # a, calls[c] # Nothing
  PROVE  calls[c].on # calls[a].on
  BY DEF Owned, OnOwn, StateOf

\* A call that returns from the gate and keeps what the list says of its state.
LEMMA OwnedReturns ==
  ASSUME StatesInv, Owned, NEW a \in Agents, calls[a] # Nothing, calls[a].at = "gate", Return(a),
         branches' = branches, horizon' = horizon, DOMAIN states' = DOMAIN states,
         \A m \in DOMAIN states :
            /\ states'[m].name = states[m].name /\ states'[m].base = states[m].base
            /\ states'[m].agent = states[m].agent
            /\ states'[m].open = states[m].open /\ states'[m].closed = states[m].closed
  PROVE  Owned'
  <1>1. \A c \in Agents : calls'[c] = IF c = a THEN Nothing ELSE calls[c]
    BY DEF StatesInv, Return
  <1>2. \A c \in Agents : calls[c] # Nothing => calls[c].on \in DOMAIN states
    BY CallOn
  <1>3. \A name \in DOMAIN branches : branches[name] \in DOMAIN states
    BY DEF StatesInv
  <1>4. Listed'
    BY <1>3 DEF Owned, Listed
  <1>5. OnOwn'
    BY <1>1, <1>2 DEF Owned, OnOwn, StateOf
  <1>6. NotClosed'
    <2>1. \A m \in DOMAIN states : states[m].agent \in Agents
      BY DEF StatesInv, StateSound, StateType
    <2>2. ASSUME NEW m \in DOMAIN states', ~states'[m].closed
          PROVE  \/ states'[m].name \in DOMAIN branches' /\ branches'[states'[m].name] = m
                 \/ /\ calls'[states'[m].agent] # Nothing /\ calls'[states'[m].agent].at = "closing"
                    /\ calls'[states'[m].agent].on = m
      <3>1. \/ states[m].name \in DOMAIN branches /\ branches[states[m].name] = m
            \/ /\ calls[states[m].agent] # Nothing /\ calls[states[m].agent].at = "closing"
               /\ calls[states[m].agent].on = m
        BY <2>2 DEF Owned, NotClosed
      <3>2. CASE calls[states[m].agent] # Nothing /\ calls[states[m].agent].at = "closing"
        <4>1. states[m].agent # a
          BY <3>2
        <4> QED
          BY <4>1, <3>1, <2>1, <2>2, <1>1
      <3> QED
        BY <3>1, <3>2, <2>2
    <2> QED
      BY <2>2 DEF NotClosed
  <1> QED
    BY <1>4, <1>5, <1>6 DEF Owned

\* A branch is taken off the list: its agent's call moves on to mark it closed.
LEMMA OwnedReleases ==
  ASSUME StatesInv, Owned, NEW a \in Agents, calls[a] # Nothing, calls[a].at = "gate", Closing(a),
         Release(calls[a].on), horizon' = horizon
  PROVE  Owned'
  <1>1. PICK n \in DOMAIN states : n = calls[a].on /\ StateSound(states[n])
    BY CallOn
  <1>2. /\ states' = [states EXCEPT ![n] = Released(states[n])]
        /\ DOMAIN branches' = DOMAIN branches \ {states[n].name}
        /\ \A m \in DOMAIN branches' : branches'[m] = branches[m]
    BY <1>1, ReleaseIs
  <1>3. /\ DOMAIN states' = DOMAIN states
        /\ \A m \in DOMAIN states : m # n => states'[m] = states[m]
        /\ states'[n] = Released(states[n])
    BY <1>2
  <1>4. /\ states'[n].name = states[n].name /\ states'[n].agent = states[n].agent
        /\ states'[n].closed = states[n].closed
    BY <1>1, <1>3, ReleasedSound
  <1>5. \A c \in Agents : calls'[c] = IF c = a THEN [at |-> "closing", on |-> n] ELSE calls[c]
    BY <1>1, CallsClosing DEF StatesInv
  <1>6. /\ states[n].agent = a /\ ~states[n].closed
        /\ states[n].name \in DOMAIN branches /\ branches[states[n].name] = n
    BY <1>1 DEF Owned, OnOwn, StateOf
  <1>7. \A name \in DOMAIN branches' : branches[name] \in DOMAIN states /\ branches[name] # n
    BY <1>2 DEF StatesInv, Owned, Listed
  <1>8. \A c \in Agents : c # a /\ calls[c] # Nothing => calls[c].on # n /\ calls[c].on \in DOMAIN states
    BY <1>1, OthersElsewhere, CallOn
  <1>9. Listed'
    BY <1>2, <1>3, <1>7 DEF Owned, Listed
  <1>10. OnOwn'
    <2>1. ASSUME NEW c \in Agents, calls'[c] # Nothing
          PROVE  /\ states'[calls'[c].on].agent = c /\ ~states'[calls'[c].on].closed
                 /\ calls'[c].at = "gate" =>
                      /\ states'[calls'[c].on].name \in DOMAIN branches'
                      /\ branches'[states'[calls'[c].on].name] = calls'[c].on
                 /\ calls'[c].at = "closing" => \A name \in DOMAIN branches' : branches'[name] # calls'[c].on
      <3>1. CASE c = a
        BY <3>1, <1>2, <1>3, <1>4, <1>5, <1>6, <1>7
      <3>2. CASE c # a
        <4>1. calls'[c] = calls[c] /\ states'[calls'[c].on] = states[calls[c].on]
              /\ calls[c].on # n
          BY <3>2, <2>1, <1>3, <1>5, <1>8
        <4>2. /\ states[calls[c].on].agent = c /\ ~states[calls[c].on].closed
              /\ calls[c].at = "gate" =>
                   /\ states[calls[c].on].name \in DOMAIN branches
                   /\ branches[states[calls[c].on].name] = calls[c].on
              /\ calls[c].at = "closing" => \A name \in DOMAIN branches : branches[name] # calls[c].on
          BY <4>1, <2>1 DEF Owned, OnOwn, StateOf
        <4> QED
          BY <4>1, <4>2, <1>2, <1>6
      <3> QED
        BY <3>1, <3>2
    <2> QED
      BY <2>1 DEF OnOwn, StateOf
  <1>11. NotClosed'
    <2>1. \A m \in DOMAIN states : states[m].agent \in Agents
      BY DEF StatesInv, StateSound, StateType
    <2>2. ASSUME NEW m \in DOMAIN states', ~states'[m].closed
          PROVE  \/ states'[m].name \in DOMAIN branches' /\ branches'[states'[m].name] = m
                 \/ /\ calls'[states'[m].agent] # Nothing /\ calls'[states'[m].agent].at = "closing"
                    /\ calls'[states'[m].agent].on = m
      <3>1. CASE m = n
        <4>1. states'[m].agent = a
          BY <3>1, <1>4, <1>6
        <4>2. calls'[a] = [at |-> "closing", on |-> n]
          BY <1>5
        <4>3. [at |-> "closing", on |-> n] # Nothing
          <5>1. n \in Nat
            BY CallOn
          <5> QED
            BY <5>1, Bounds
        <4> QED
          BY <3>1, <4>1, <4>2, <4>3
      <3>2. CASE m # n
        <4>1. /\ states'[m] = states[m] /\ m \in DOMAIN states
              /\ \/ states[m].name \in DOMAIN branches /\ branches[states[m].name] = m
                 \/ /\ calls[states[m].agent] # Nothing /\ calls[states[m].agent].at = "closing"
                    /\ calls[states[m].agent].on = m
          BY <2>2, <3>2, <1>3 DEF Owned, NotClosed
        <4>2. CASE states[m].name \in DOMAIN branches /\ branches[states[m].name] = m
          <5>1. states[m].name # states[n].name
            BY <4>2, <3>2, <1>6
          <5> QED
            BY <5>1, <4>1, <4>2, <1>2
        <4>3. CASE calls[states[m].agent] # Nothing /\ calls[states[m].agent].at = "closing"
                   /\ calls[states[m].agent].on = m
          <5>1. states[m].agent # a
            BY <4>3
          <5> QED
            BY <5>1, <4>1, <4>3, <2>1, <1>5
        <4> QED
          BY <4>1, <4>2, <4>3
      <3> QED
        BY <3>1, <3>2
    <2> QED
      BY <2>2 DEF NotClosed
  <1> QED
    BY <1>9, <1>10, <1>11 DEF Owned

\* A closed state is forgotten by the agent that closed it.
LEMMA OwnedCloses ==
  ASSUME MainInv, StatesInv, Owned, NEW a \in Agents, Close(a)
  PROVE  Owned'
  <1>1. /\ calls[a] # Nothing /\ calls[a].at = "closing" /\ UNCHANGED stored /\ branches' = branches
        /\ Return(a)
        /\ \E b : /\ Replaces(a, b) /\ StateSound(b) /\ b.base <= index.clock /\ b.closed
                  /\ b.name = StateOf(a).name /\ b.agent = StateOf(a).agent
                  /\ b.open => StateOf(a).open
    BY CloseIs
  <1>2. PICK n \in DOMAIN states : n = calls[a].on
    BY <1>1, CallOn
  <1>3. PICK b : states' = [states EXCEPT ![n] = b] /\ b.closed /\ b.name = states[n].name /\ b.agent = states[n].agent
    BY <1>1, <1>2 DEF Replaces, StateOf
  <1>4. /\ DOMAIN states' = DOMAIN states /\ horizon' = horizon
        /\ \A m \in DOMAIN states : m # n => states'[m] = states[m]
        /\ states'[n].closed
    BY <1>1, <1>3 DEF stored
  <1>5. \A c \in Agents : calls'[c] = IF c = a THEN Nothing ELSE calls[c]
    BY <1>1 DEF StatesInv, Return
  <1>6. \A name \in DOMAIN branches : branches[name] \in DOMAIN states /\ branches[name] # n
    BY <1>1, <1>2 DEF StatesInv, Owned, OnOwn
  <1>7. \A c \in Agents : c # a /\ calls[c] # Nothing => calls[c].on # n /\ calls[c].on \in DOMAIN states
    BY <1>1, <1>2, OthersElsewhere, CallOn
  <1>8. Listed'
    BY <1>1, <1>4, <1>6 DEF Owned, Listed
  <1>9. OnOwn'
    BY <1>1, <1>4, <1>5, <1>7 DEF Owned, OnOwn, StateOf
  <1>10. NotClosed'
    <2>1. \A m \in DOMAIN states : states[m].agent \in Agents
      BY DEF StatesInv, StateSound, StateType
    <2>2. ASSUME NEW m \in DOMAIN states', ~states'[m].closed
          PROVE  \/ states'[m].name \in DOMAIN branches' /\ branches'[states'[m].name] = m
                 \/ /\ calls'[states'[m].agent] # Nothing /\ calls'[states'[m].agent].at = "closing"
                    /\ calls'[states'[m].agent].on = m
      <3>1. m # n /\ states'[m] = states[m] /\ m \in DOMAIN states
        BY <2>2, <1>4
      <3>2. \/ states[m].name \in DOMAIN branches /\ branches[states[m].name] = m
            \/ /\ calls[states[m].agent] # Nothing /\ calls[states[m].agent].at = "closing"
               /\ calls[states[m].agent].on = m
        BY <3>1, <2>2 DEF Owned, NotClosed
      <3>3. CASE calls[states[m].agent] # Nothing /\ calls[states[m].agent].on = m
        <4>1. states[m].agent # a
          BY <3>1, <3>3, <1>2
        <4> QED
          BY <4>1, <3>1, <3>2, <2>1, <1>1, <1>5
      <3> QED
        BY <3>1, <3>2, <3>3, <1>1
    <2> QED
      BY <2>2 DEF NotClosed
  <1> QED
    BY <1>8, <1>9, <1>10 DEF Owned

LEMMA OwnedForks ==
  ASSUME MainInv, StatesInv, Owned, ~DeepForks,
         NEW a \in Agents, NEW name \in Names, NEW s \in 0..index.clock, Fork(a, name, s)
  PROVE  Owned'
  <1>1. PICK n : n = Len(states) + 1
    OBVIOUS
  <1>2. /\ s \in Nat
        /\ name \notin DOMAIN branches /\ DOMAIN branches' = DOMAIN branches \cup {name}
        /\ DOMAIN states' = DOMAIN states \cup {n} /\ n \notin DOMAIN states
        /\ branches'[name] = n /\ \A m \in DOMAIN branches : branches'[m] = branches[m]
        /\ states'[n] = NewState(a, name, s)
        /\ \A m \in DOMAIN states : states'[m] = states[m]
    BY <1>1, ForkIs
  <1>3. /\ NewState(a, name, s).base = s /\ NewState(a, name, s).name = name /\ NewState(a, name, s).agent = a
        /\ NewState(a, name, s).open /\ ~NewState(a, name, s).closed
    BY <1>2, NewStateSound
  <1>4. calls' = calls /\ horizon' = horizon /\ s + 1 >= horizon
    BY DEF Fork, stored
  <1>5. /\ \A m \in DOMAIN branches : branches[m] \in DOMAIN states
        /\ \A c \in Agents : calls[c] # Nothing => calls[c].on \in DOMAIN states
    BY CallOn DEF StatesInv
  <1>6. Listed'
    <2>1. ASSUME NEW m \in DOMAIN branches'
          PROVE  /\ states'[branches'[m]].name = m /\ horizon' <= states'[branches'[m]].base + 1
                 /\ states'[branches'[m]].open /\ ~states'[branches'[m]].closed
      <3>1. CASE m = name
        <4>1. horizon <= s + 1
          BY <1>2, <1>4, ClockFacts
        <4> QED
          BY <3>1, <4>1, <1>2, <1>3, <1>4
      <3>2. CASE m # name
        <4>1. m \in DOMAIN branches
          BY <3>2, <2>1, <1>2
        <4>2. branches'[m] = branches[m] /\ states'[branches[m]] = states[branches[m]]
          BY <4>1, <1>2, <1>5
        <4> QED
          BY <4>1, <4>2, <1>4 DEF Owned, Listed
      <3> QED
        BY <3>1, <3>2
    <2> QED
      BY <2>1 DEF Listed
  <1>7. OnOwn'
    <2>1. ASSUME NEW c \in Agents, calls'[c] # Nothing
          PROVE  /\ states'[calls'[c].on].agent = c /\ ~states'[calls'[c].on].closed
                 /\ calls'[c].at = "gate" =>
                      /\ states'[calls'[c].on].name \in DOMAIN branches'
                      /\ branches'[states'[calls'[c].on].name] = calls'[c].on
                 /\ calls'[c].at = "closing" => \A m \in DOMAIN branches' : branches'[m] # calls'[c].on
      <3>1. calls'[c] = calls[c] /\ calls[c].on \in DOMAIN states /\ states'[calls[c].on] = states[calls[c].on]
        BY <2>1, <1>2, <1>4, <1>5
      <3>2. /\ states[calls[c].on].agent = c /\ ~states[calls[c].on].closed
            /\ calls[c].at = "gate" =>
                 /\ states[calls[c].on].name \in DOMAIN branches
                 /\ branches[states[calls[c].on].name] = calls[c].on
            /\ calls[c].at = "closing" => \A m \in DOMAIN branches : branches[m] # calls[c].on
        BY <2>1, <1>4 DEF Owned, OnOwn, StateOf
      <3>3. \A m \in DOMAIN branches' : m \in DOMAIN branches \/ branches'[m] = n
        BY <1>2
      <3> QED
        BY <3>1, <3>2, <3>3, <1>2
    <2> QED
      BY <2>1 DEF OnOwn, StateOf
  <1>8. NotClosed'
    <2>1. ASSUME NEW m \in DOMAIN states', ~states'[m].closed
          PROVE  \/ states'[m].name \in DOMAIN branches' /\ branches'[states'[m].name] = m
                 \/ /\ calls'[states'[m].agent] # Nothing /\ calls'[states'[m].agent].at = "closing"
                    /\ calls'[states'[m].agent].on = m
      <3>1. CASE m = n
        BY <3>1, <1>2, <1>3
      <3>2. CASE m # n
        <4>1. m \in DOMAIN states /\ states'[m] = states[m]
          BY <3>2, <1>2
        <4>2. \/ states[m].name \in DOMAIN branches /\ branches[states[m].name] = m
              \/ /\ calls[states[m].agent] # Nothing /\ calls[states[m].agent].at = "closing"
                 /\ calls[states[m].agent].on = m
          BY <4>1, <2>1 DEF Owned, NotClosed
        <4> QED
          BY <4>1, <4>2, <1>2, <1>4
      <3> QED
        BY <3>1, <3>2
    <2> QED
      BY <2>1 DEF NotClosed
  <1> QED
    BY <1>6, <1>7, <1>8 DEF Owned

\* The state an agent's call is on, while it is at the gate, is listed and open.
LEMMA AtGate ==
  ASSUME StatesInv, Owned, NEW a \in Agents, calls[a] # Nothing, calls[a].at = "gate"
  PROVE  /\ calls[a].on \in DOMAIN states /\ StateSound(StateOf(a))
         /\ StateOf(a).open /\ horizon <= StateOf(a).base + 1
         /\ StateOf(a).name \in DOMAIN branches /\ branches[StateOf(a).name] = calls[a].on
  <1>1. calls[a].on \in DOMAIN states /\ StateSound(states[calls[a].on])
    BY CallOn
  <1>2. StateOf(a).name \in DOMAIN branches /\ branches[StateOf(a).name] = calls[a].on
    BY DEF Owned, OnOwn
  <1> QED
    BY <1>1, <1>2 DEF Owned, Listed, StateOf

\* A write of a branch replaces its state and keeps what the list says of it.
LEMMA OwnedReplaces ==
  ASSUME StatesInv, Owned, NEW a \in Agents, calls[a] # Nothing, calls[a].at = "gate", Return(a),
         branches' = branches, UNCHANGED stored, NEW b, Replaces(a, b),
         b.name = StateOf(a).name, b.base = StateOf(a).base, b.agent = StateOf(a).agent,
         b.open = StateOf(a).open, b.closed = StateOf(a).closed
  PROVE  Owned'
  <1>1. PICK n \in DOMAIN states : n = calls[a].on
    BY CallOn
  <1>2. states' = [states EXCEPT ![n] = b]
    BY <1>1 DEF Replaces
  <1>3. /\ DOMAIN states' = DOMAIN states
        /\ \A m \in DOMAIN states : states'[m] = IF m = n THEN b ELSE states[m]
    BY <1>2
  <1>4. \A m \in DOMAIN states :
            /\ states'[m].name = states[m].name /\ states'[m].base = states[m].base
            /\ states'[m].agent = states[m].agent
            /\ states'[m].open = states[m].open /\ states'[m].closed = states[m].closed
    BY <1>1, <1>3 DEF StateOf
  <1>5. horizon' = horizon
    BY DEF stored
  <1> QED
    BY <1>3, <1>4, <1>5, OwnedReturns

LEMMA AddedFields ==
  ASSUME MainInv, NEW b, StateSound(b), b.open, b.delta.clock < MaxLocal, NEW id \in Ids, NEW v \in BranchVals
  PROVE  /\ Added(b, id, v).name = b.name /\ Added(b, id, v).base = b.base /\ Added(b, id, v).agent = b.agent
         /\ Added(b, id, v).open = b.open /\ Added(b, id, v).closed = b.closed
  <1>1. PICK t : t = Touched(b, id)
    OBVIOUS
  <1>2. /\ t \in StateType
        /\ t.name = b.name /\ t.base = b.base /\ t.agent = b.agent /\ t.open = b.open /\ t.closed = b.closed
    BY <1>1, TouchedIs
  <1>3. Added(b, id, v) = [t EXCEPT !.delta = Insert(@, Row(id, v, {})), !.records = Put(@, id, v),
                                    !.deleted = @ \ {id}]
    BY <1>1 DEF Added
  <1> QED
    BY <1>2, <1>3 DEF StateType

\* What a step on a listed branch makes of its state.
LEMMA WrittenIs ==
  ASSUME BranchesInv, Owned, NEW a \in Agents, NEW id \in Ids, NEW v \in BranchVals, BranchAdd(a, id, v)
  PROVE  /\ calls[a] # Nothing /\ calls[a].at = "gate" /\ Return(a) /\ UNCHANGED stored /\ branches' = branches
         /\ StateSound(StateOf(a)) /\ StateSound(Added(StateOf(a), id, v))
         /\ Replaces(a, Added(StateOf(a), id, v))
  <1>1. /\ calls[a] # Nothing /\ calls[a].at = "gate" /\ Return(a) /\ UNCHANGED stored /\ branches' = branches
        /\ StateOf(a).delta.clock < MaxLocal
        /\ Replaces(a, IF StateOf(a).open THEN Added(StateOf(a), id, v) ELSE Touched(StateOf(a), id))
    BY BranchAddIs DEF BranchesInv
  <1>2. StateOf(a).open /\ StateSound(StateOf(a))
    BY <1>1, AtGate DEF BranchesInv
  <1>3. StateSound(Added(StateOf(a), id, v))
    BY <1>1, <1>2, AddedSound DEF BranchesInv
  <1> QED
    BY <1>1, <1>2, <1>3

LEMMA ErasedIs ==
  ASSUME BranchesInv, Owned, NEW a \in Agents, NEW id \in Ids, BranchDelete(a, id)
  PROVE  /\ calls[a] # Nothing /\ calls[a].at = "gate" /\ Return(a) /\ UNCHANGED stored /\ branches' = branches
         /\ StateSound(StateOf(a)) /\ StateSound(Erased(StateOf(a), id))
         /\ id \in DOMAIN StateOf(a).records => StateOf(a).open /\ StateOf(a).delta.clock < MaxLocal
         /\ Replaces(a, Erased(StateOf(a), id))
  <1>1. /\ calls[a] # Nothing /\ calls[a].at = "gate" /\ Return(a) /\ UNCHANGED stored /\ branches' = branches
        /\ id \in DOMAIN StateOf(a).records => StateOf(a).delta.clock < MaxLocal
        /\ Replaces(a, IF ~StateOf(a).open /\ id \in DOMAIN StateOf(a).records
                       THEN Touched(StateOf(a), id) ELSE Erased(StateOf(a), id))
    BY BranchDeleteIs DEF BranchesInv
  <1>2. StateOf(a).open /\ StateSound(StateOf(a))
    BY <1>1, AtGate DEF BranchesInv
  <1>3. StateSound(Erased(StateOf(a), id))
    BY <1>1, <1>2, ErasedSound DEF BranchesInv
  <1> QED
    BY <1>1, <1>2, <1>3

LEMMA RefInit == Init => RefInv
  <1> SUFFICES ASSUME Init PROVE RefInv
    OBVIOUS
  <1>1. BranchesInv
    BY InvInit
  <1>2. /\ DOMAIN branches = {} /\ DOMAIN versions = {} /\ DOMAIN states = {}
        /\ \A a \in Agents : calls[a] = Nothing
    BY DEF Init
  <1>3. index.clock = 0
    BY DEF Init, EmptyIndex
  <1>4. \A s, t \in 0..index.clock : s = t
    BY <1>3
  <1>5. ChangesLogged /\ LastsDeleted
    BY <1>2, <1>4 DEF ChangesLogged, LastsDeleted
  <1>6. Owned
    BY <1>2 DEF Owned, Listed, OnOwn, NotClosed
  <1> QED
    BY <1>1, <1>5, <1>6 DEF RefInv

LEMMA RefNext ==
  ASSUME ~Shared, ~DeepForks, RefInv, [Next]_vars
  PROVE  RefInv'
  <1>1. BranchesInv /\ MainInv /\ StatesInv /\ ChangesLogged /\ LastsDeleted /\ Owned /\ BranchesInv'
    BY InvNext DEF RefInv, BranchesInv
  <1> SUFFICES ChangesLogged' /\ LastsDeleted' /\ Owned'
    BY <1>1 DEF RefInv
  <1>2. ASSUME NEW new, NEW gone, CommitsMain(new, gone), UNCHANGED <<branches, states, calls>>
        PROVE  ChangesLogged' /\ LastsDeleted' /\ Owned'
    <2>1. ChangesLogged' /\ LastsDeleted'
      BY <1>1, <1>2, CommitChanges
    <2>2. \A name \in DOMAIN branches : horizon' <= states[branches[name]].base + 1
      BY <1>1, <1>2 DEF Owned, Listed, CommitsMain
    <2> QED
      BY <1>1, <1>2, <2>1, <2>2, OwnedSame
  <1>3. ASSUME NEW h \in Protected \cup {index.clock + 1}, Purge(h)
        PROVE  ChangesLogged' /\ LastsDeleted' /\ Owned'
    <2>1. PurgesMain(h) /\ UNCHANGED <<branches, states, calls>>
      BY <1>1, <1>3, ProtectedNat
    <2>2. ChangesLogged' /\ LastsDeleted'
      BY <1>1, <2>1, PurgeChanges
    <2>3. \A name \in DOMAIN branches : horizon' <= states[branches[name]].base + 1
      BY <1>1, <1>3 DEF Owned, Listed, Purge, Protected
    <2> QED
      BY <1>1, <2>1, <2>2, <2>3, OwnedSame
  <1>4. ASSUME UNCHANGED stored
        PROVE  ChangesLogged' /\ LastsDeleted'
    BY <1>1, <1>4, SameChanges
  <1>5. CASE Main
    <2>1. ASSUME NEW id \in Ids, NEW v \in Vals, Add(id, v)
          PROVE  ChangesLogged' /\ LastsDeleted' /\ Owned'
      BY <1>1, <1>2, <2>1, AddCommits
    <2>2. ASSUME NEW id \in Ids, DeleteRecord(id)
          PROVE  ChangesLogged' /\ LastsDeleted' /\ Owned'
      BY <1>1, <1>2, <2>2, DeleteCommits
    <2>3. ASSUME NEW a \in Agents, NEW name \in Names, NEW s \in 0..index.clock, Fork(a, name, s)
          PROVE  ChangesLogged' /\ LastsDeleted' /\ Owned'
      <3>1. UNCHANGED stored
        BY <2>3 DEF Fork
      <3>2. Owned'
        BY <1>1, <2>3, OwnedForks
      <3> QED
        BY <1>4, <3>1, <3>2
    <2> QED
      BY <1>3, <1>5, <2>1, <2>2, <2>3 DEF Main
  <1>6. ASSUME NEW a \in Agents, Branch(a)
        PROVE  ChangesLogged' /\ LastsDeleted' /\ Owned'
    <2>1. ASSUME NEW n \in DOMAIN states, Call(a, n)
          PROVE  ChangesLogged' /\ LastsDeleted' /\ Owned'
      <3>1. UNCHANGED stored
        BY <1>1, <2>1, CallIs
      <3>2. Owned'
        BY <1>1, <2>1, OwnedCall
      <3> QED
        BY <1>4, <3>1, <3>2
    <2>2. ASSUME NEW id \in Ids, BranchDelete(a, id)
          PROVE  ChangesLogged' /\ LastsDeleted' /\ Owned'
      <3>1. PICK b : b = StateOf(a)
        OBVIOUS
      <3>2. /\ calls[a] # Nothing /\ calls[a].at = "gate" /\ Return(a) /\ UNCHANGED stored /\ branches' = branches
            /\ StateSound(b) /\ Replaces(a, Erased(b, id))
            /\ id \in DOMAIN b.records => b.open /\ b.delta.clock < MaxLocal
        BY <1>1, <2>2, <3>1, ErasedIs
      <3>3. /\ Erased(b, id).name = b.name /\ Erased(b, id).base = b.base /\ Erased(b, id).agent = b.agent
            /\ Erased(b, id).open = b.open /\ Erased(b, id).closed = b.closed
        BY <1>1, <3>2, ErasedSound
      <3>4. Owned'
        BY <1>1, <3>1, <3>2, <3>3, OwnedReplaces
      <3> QED
        BY <1>4, <3>2, <3>4
    <2>3. ASSUME NEW id \in Ids, NEW v \in BranchVals, BranchAdd(a, id, v)
          PROVE  ChangesLogged' /\ LastsDeleted' /\ Owned'
      <3>1. PICK b : b = StateOf(a)
        OBVIOUS
      <3>2. /\ calls[a] # Nothing /\ calls[a].at = "gate" /\ Return(a) /\ UNCHANGED stored /\ branches' = branches
            /\ StateSound(b) /\ Replaces(a, Added(b, id, v))
        BY <1>1, <2>3, <3>1, WrittenIs
      <3>3. b.open /\ b.delta.clock < MaxLocal
        BY <1>1, <2>3, <3>1, <3>2, AtGate, BranchAddIs
      <3>4. /\ Added(b, id, v).name = b.name /\ Added(b, id, v).base = b.base /\ Added(b, id, v).agent = b.agent
            /\ Added(b, id, v).open = b.open /\ Added(b, id, v).closed = b.closed
        BY <1>1, <3>2, <3>3, AddedFields
      <3>5. Owned'
        BY <1>1, <3>1, <3>2, <3>4, OwnedReplaces
      <3> QED
        BY <1>4, <3>2, <3>5
    <2>4. CASE MergeRefused(a)
      <3>1. /\ UNCHANGED stored /\ UNCHANGED <<branches, states>>
            /\ calls[a] # Nothing /\ calls[a].at = "gate"
            /\ \/ Return(a) /\ StateOf(a).name \in DOMAIN branches
               \/ Closing(a) /\ StateOf(a).name \notin DOMAIN branches
        BY <1>1, <2>4, MergeRefusedIs
      <3>2. Return(a)
        BY <1>1, <3>1, AtGate
      <3>3. horizon' = horizon
        BY <3>1 DEF stored
      <3>4. Owned'
        BY <1>1, <3>1, <3>2, <3>3, OwnedReturns
      <3> QED
        BY <1>4, <3>1, <3>4
    <2>5. CASE MergeBranch(a)
      <3>1. /\ calls[a] # Nothing /\ calls[a].at = "gate"
            /\ Release(calls[a].on) /\ Closing(a)
            /\ \/ CommitsMain(StateOf(a).records, Gone(StateOf(a)))
               \/ UNCHANGED stored
        BY <1>1, <2>5, MergeIs
      <3>2. ChangesLogged' /\ LastsDeleted' /\ horizon' = horizon
        BY <1>1, <1>4, <3>1, CommitChanges DEF CommitsMain, stored
      <3>3. Owned'
        BY <1>1, <3>1, <3>2, OwnedReleases
      <3> QED
        BY <3>2, <3>3
    <2>6. CASE DiscardBranch(a)
      <3>1. /\ calls[a] # Nothing /\ calls[a].at = "gate"
            /\ Release(calls[a].on) /\ Closing(a) /\ UNCHANGED stored /\ horizon' = horizon
        BY <2>6 DEF DiscardBranch, In, stored
      <3>2. Owned'
        BY <1>1, <3>1, OwnedReleases
      <3> QED
        BY <1>4, <3>1, <3>2
    <2>7. CASE Close(a)
      <3>1. UNCHANGED stored
        BY <1>1, <2>7, CloseIs
      <3>2. Owned'
        BY <1>1, <2>7, OwnedCloses
      <3> QED
        BY <1>4, <3>1, <3>2
    <2> QED
      BY <1>6, <2>1, <2>2, <2>3, <2>4, <2>5, <2>6, <2>7 DEF Branch
  <1>7. CASE UNCHANGED vars
    <2>1. UNCHANGED stored /\ UNCHANGED <<branches, states, calls>> /\ horizon' = horizon
      BY <1>7 DEF vars, stored
    <2>2. \A name \in DOMAIN branches : horizon' <= states[branches[name]].base + 1
      BY <1>1, <2>1 DEF Owned, Listed
    <2> QED
      BY <1>1, <1>4, <2>1, <2>2, OwnedSame
  <1> QED
    BY <1>5, <1>6, <1>7 DEF Next

LEMMA RefAlways ==
  ASSUME ~Shared, ~DeepForks
  PROVE  Spec => []RefInv
  <1>1. Init => RefInv
    BY RefInit
  <1>2. RefInv /\ [Next]_vars => RefInv'
    BY RefNext
  <1> QED
    BY <1>1, <1>2, PTL DEF Spec

-----------------------------------------------------------------------------
(* The steps of the memory are steps of BranchStore.                       *)

\* What the branch of a name shows, by its records and its fork.
Seen(name) == View(states[branches[name]], MainState(states[branches[name]].base))
ForkOf(name) == [base |-> states[branches[name]].base, wrote |-> DOMAIN states[branches[name]].expected]

Abstract ==
  /\ MainView = Now /\ Now = MainState(index.clock) /\ Len(timeline) = index.clock
  /\ Views = [name \in DOMAIN branches |-> Seen(name)]
  /\ Forks = [name \in DOMAIN branches |-> ForkOf(name)]

LEMMA ListedFacts ==
  ASSUME RefInv, NEW name \in DOMAIN branches
  PROVE  /\ branches[name] \in DOMAIN states /\ StateSound(states[branches[name]])
         /\ states[branches[name]].open /\ states[branches[name]].name = name
         /\ states[branches[name]].base \in 0..index.clock
         /\ horizon <= states[branches[name]].base + 1
  <1>1. branches[name] \in DOMAIN states
    BY DEF RefInv, BranchesInv, StatesInv
  <1>2. StateSound(states[branches[name]]) /\ states[branches[name]].base <= index.clock
    BY <1>1 DEF RefInv, BranchesInv, StatesInv
  <1>3. states[branches[name]].base \in Nat /\ index.clock \in Nat
    BY <1>2, ClockFacts DEF StateSound, StateType, RefInv, BranchesInv
  <1> QED
    BY <1>1, <1>2, <1>3 DEF RefInv, Owned, Listed

LEMMA AbstractIs == RefInv => Abstract
  <1> SUFFICES ASSUME RefInv PROVE Abstract
    OBVIOUS
  <1>1. BranchesInv
    BY DEF RefInv
  <1>2. MainView = Now
    BY <1>1, MainViewIs
  <1>3. Now = MainState(index.clock) /\ Len(timeline) = index.clock
    BY <1>1, NowIs DEF BranchesInv, MainInv, Shapes
  <1>4. ASSUME NEW name \in DOMAIN branches
        PROVE  Shown(BranchHits(states[branches[name]], Everything)) = Seen(name)
    <2>1. PICK b : b = states[branches[name]]
      OBVIOUS
    <2>2. StateSound(b) /\ b.open /\ b.base <= index.clock /\ horizon <= b.base + 1
      BY <1>4, <2>1, ListedFacts
    <2>3. Shown(BranchHits(b, Everything)) = View(b, MainState(b.base))
      BY <1>1, <2>2, BranchShows
    <2> QED
      BY <2>1, <2>3 DEF Seen
  <1>5. Views = [name \in DOMAIN branches |-> Seen(name)]
    BY <1>4 DEF Views
  <1>6. Forks = [name \in DOMAIN branches |-> ForkOf(name)]
    BY DEF Forks, ForkOf
  <1> QED
    BY <1>2, <1>3, <1>5, <1>6 DEF Abstract

\* In two states, what a step does to the view of one branch.
LEMMA AbstractNext ==
  ASSUME RefInv, RefInv'
  PROVE  /\ MainView = Now /\ Views = [name \in DOMAIN branches |-> Seen(name)]
         /\ Forks = [name \in DOMAIN branches |-> ForkOf(name)]
         /\ Now = MainState(index.clock) /\ Len(timeline) = index.clock
         /\ MainView' = Now' /\ Views' = [name \in DOMAIN branches' |-> Seen(name)']
         /\ Forks' = [name \in DOMAIN branches' |-> ForkOf(name)']
  <1>1. RefInv' => Abstract'
    BY AbstractIs, PTL
  <1> QED
    BY <1>1, AbstractIs DEF Abstract

\* The view of a branch a step does not write, while main keeps its past.
LEMMA SeenSame ==
  ASSUME RefInv, NEW name \in DOMAIN branches, branches'[name] = branches[name],
         states'[branches[name]] = states[branches[name]],
         \A s \in 1..index.clock : timeline'[s] = timeline[s]
  PROVE  Seen(name)' = Seen(name) /\ ForkOf(name)' = ForkOf(name)
  <1>1. PICK b : b = states[branches[name]]
    OBVIOUS
  <1>2. b.base \in 0..index.clock /\ index.clock \in Nat
    BY <1>1, ListedFacts, ClockFacts DEF RefInv, BranchesInv
  <1>3. (IF b.base = 0 THEN {} ELSE timeline'[b.base]) = (IF b.base = 0 THEN {} ELSE timeline[b.base])
    BY <1>2
  <1>4. Seen(name) = View(b, IF b.base = 0 THEN {} ELSE timeline[b.base])
    BY <1>1 DEF Seen, MainState
  <1>5. Seen(name)' = View(b, IF b.base = 0 THEN {} ELSE timeline'[b.base])
    BY <1>1 DEF Seen, MainState, View
  <1> QED
    BY <1>1, <1>3, <1>4, <1>5 DEF ForkOf

\* A step that shows nothing.
LEMMA StepStutters ==
  ASSUME RefInv, RefInv', branches' = branches, timeline' = timeline,
         \A name \in DOMAIN branches : states'[branches[name]] = states[branches[name]]
  PROVE  UNCHANGED Store!vars
  <1>1. \A name \in DOMAIN branches : Seen(name)' = Seen(name) /\ ForkOf(name)' = ForkOf(name)
    BY SeenSame
  <1>2. Views' = Views /\ Forks' = Forks
    BY <1>1, AbstractNext
  <1>3. Now' = Now
    BY DEF Now
  <1>4. MainView' = MainView
    BY <1>3, AbstractNext
  <1> QED
    BY <1>2, <1>4 DEF Store!vars, Store!branches

\* A commit on main: its past stays, its next state is After.
LEMMA CommitShows ==
  ASSUME RefInv, RefInv', NEW new, NEW gone, CommitsMain(new, gone)
  PROVE  /\ \A s \in 1..index.clock : timeline'[s] = timeline[s]
         /\ timeline' # timeline
         /\ timeline' = Append(timeline, After(new, gone)) /\ MainView' = After(new, gone)
  <1>1. timeline \in Seq(SUBSET (Ids \X AllVals)) /\ Len(timeline) = index.clock
    BY DEF RefInv, BranchesInv, MainInv, Shapes
  <1>2. timeline' = Append(timeline, After(new, gone))
    BY DEF CommitsMain
  <1>3. Now' = After(new, gone)
    BY CommitTimeline DEF RefInv, BranchesInv
  <1>4. \A s \in 1..index.clock : timeline'[s] = timeline[s]
    BY <1>1, <1>2
  <1>5. Len(timeline') = index.clock + 1 /\ index.clock \in Nat
    BY <1>1, <1>2
  <1> QED
    BY <1>1, <1>2, <1>3, <1>4, <1>5, AbstractNext

LEMMA StepOnMain ==
  ASSUME RefInv, RefInv', NEW new, NEW gone, CommitsMain(new, gone), UNCHANGED <<branches, states, calls>>
  PROVE  UNCHANGED <<Forks, Views>> /\ timeline' # timeline
         /\ timeline' = Append(timeline, After(new, gone)) /\ MainView' = After(new, gone) /\ MainView = Now
  <1>1. /\ \A s \in 1..index.clock : timeline'[s] = timeline[s]
        /\ timeline' # timeline
        /\ timeline' = Append(timeline, After(new, gone)) /\ MainView' = After(new, gone)
    BY CommitShows
  <1>2. \A name \in DOMAIN branches : Seen(name)' = Seen(name) /\ ForkOf(name)' = ForkOf(name)
    BY <1>1, SeenSame
  <1> QED
    BY <1>1, <1>2, AbstractNext

LEMMA StepAdd ==
  ASSUME RefInv, RefInv', NEW id \in Ids, NEW v \in Vals, Add(id, v)
  PROVE  Store!Next
  <1>1. CommitsMain(Just(id, v), {}) /\ UNCHANGED <<branches, states, calls>>
    BY AddCommits DEF RefInv, BranchesInv
  <1>2. /\ UNCHANGED <<Forks, Views>> /\ timeline' # timeline
        /\ timeline' = Append(timeline, After(Just(id, v), {})) /\ MainView' = After(Just(id, v), {})
        /\ MainView = Now
    BY <1>1, StepOnMain
  <1>3. After(Just(id, v), {}) = {p \in Now : p[1] \notin {id}} \cup {<<id, v>>}
    BY DEF After, Just
  <1>4. Store!Write(id, v)
    BY <1>2, <1>3 DEF Store!Write, Store!Commit, Store!Set, Store!Without, Store!branches
  <1> QED
    BY <1>2, <1>4 DEF Store!Next, Store!OnMain

LEMMA StepDelete ==
  ASSUME RefInv, RefInv', NEW id \in Ids, DeleteRecord(id)
  PROVE  Store!Next
  <1>1. /\ CommitsMain(<<>>, {id}) /\ UNCHANGED <<branches, states, calls>>
        /\ id \in OpenIds(index)
    BY DeleteCommits DEF RefInv, BranchesInv
  <1>2. /\ UNCHANGED <<Forks, Views>> /\ timeline' # timeline
        /\ timeline' = Append(timeline, After(<<>>, {id})) /\ MainView' = After(<<>>, {id})
        /\ MainView = Now
    BY <1>1, StepOnMain
  <1>3. After(<<>>, {id}) = {p \in Now : p[1] \notin {id}}
    BY DEF After
  <1>4. \E p \in Now : p[1] = id
    <2>1. AsOf(index, index.clock) = OpenRows(index) /\ Now = Pairs(index, index.clock)
      BY ClockFacts, NowIs DEF RefInv, BranchesInv
    <2>2. PICK r \in OpenRows(index) : r.id = id
      BY <1>1 DEF OpenIds, OpenRows
    <2>3. <<r.id, r.val>> \in Now
      BY <2>1, <2>2 DEF Pairs
    <2> QED
      BY <2>2, <2>3
  <1>5. Store!Erase(id)
    BY <1>2, <1>3, <1>4 DEF Store!Erase, Store!Commit, Store!Has, Store!Without, Store!branches
  <1> QED
    BY <1>2, <1>5 DEF Store!Next, Store!OnMain

LEMMA StepFork ==
  ASSUME RefInv, RefInv', NEW a \in Agents, NEW name \in Names, NEW s \in 0..index.clock, Fork(a, name, s)
  PROVE  Store!Next
  <1>1. PICK n : n = Len(states) + 1
    OBVIOUS
  <1>2. /\ s \in Nat
        /\ name \notin DOMAIN branches /\ DOMAIN branches' = DOMAIN branches \cup {name}
        /\ branches'[name] = n /\ \A m \in DOMAIN branches : branches'[m] = branches[m]
        /\ states'[n] = NewState(a, name, s)
        /\ \A m \in DOMAIN states : states'[m] = states[m]
    BY <1>1, ForkIs DEF RefInv, BranchesInv
  <1>3. PICK b : b = NewState(a, name, s)
    OBVIOUS
  <1>4. b.base = s /\ DOMAIN b.records = {} /\ b.deleted = {} /\ DOMAIN b.expected = {}
    BY <1>2, <1>3, NewStateSound
  <1>5. timeline' = timeline /\ Now' = Now
    BY DEF Fork, stored, Now
  <1>6. \A m \in DOMAIN branches : Seen(m)' = Seen(m) /\ ForkOf(m)' = ForkOf(m)
    <2>1. \A m \in DOMAIN branches : branches[m] \in DOMAIN states
      BY ListedFacts
    <2> QED
      BY <2>1, <1>2, <1>5, SeenSame
  <1>7. Seen(name)' = Store!State(s)
    <2>1. Seen(name)' = View(b, IF b.base = 0 THEN {} ELSE timeline'[b.base])
      BY <1>2, <1>3 DEF Seen, MainState, View
    <2>2. \A m : View(b, m) = m
      BY <1>4 DEF View
    <2> QED
      BY <2>1, <2>2, <1>4, <1>5 DEF Store!State
  <1>8. ForkOf(name)' = [base |-> s, wrote |-> {}]
    BY <1>2, <1>3, <1>4 DEF ForkOf
  <1>9. /\ Views = [m \in DOMAIN branches |-> Seen(m)] /\ Forks = [m \in DOMAIN branches |-> ForkOf(m)]
        /\ Views' = [m \in DOMAIN branches' |-> Seen(m)'] /\ Forks' = [m \in DOMAIN branches' |-> ForkOf(m)']
        /\ MainView' = MainView /\ Len(timeline) = index.clock
    BY <1>5, AbstractNext
  <1>10. Forks' = [m \in DOMAIN Forks \cup {name} |-> IF m = name THEN [base |-> s, wrote |-> {}] ELSE Forks[m]]
    BY <1>2, <1>6, <1>8, <1>9
  <1>11. Views' = [m \in DOMAIN Forks \cup {name} |-> IF m = name THEN Store!State(s) ELSE Views[m]]
    BY <1>2, <1>6, <1>7, <1>9
  <1>12. Store!Fork(name, s)
    BY <1>2, <1>9, <1>10, <1>11 DEF Store!Fork
  <1> QED
    BY <1>5, <1>9, <1>12 DEF Store!Next, Store!OnBranches

\* A write of the branch: its own view becomes `view', the others stay.

\* A write of the branch: its own view changes, and no other.
LEMMA StepWrites ==
  ASSUME RefInv, RefInv', NEW a \in Agents, calls[a] # Nothing, calls[a].at = "gate",
         branches' = branches, UNCHANGED stored, NEW b, Replaces(a, b), NEW id \in Ids,
         b.base = StateOf(a).base, DOMAIN b.expected = DOMAIN StateOf(a).expected \cup {id},
         NEW name, name = StateOf(a).name
  PROVE  /\ name \in DOMAIN Forks /\ timeline' = timeline
         /\ Store!BranchWrites(name, id, View(b, MainState(b.base)))
         /\ Views[name] = View(StateOf(a), MainState(b.base))
  <1>1. PICK n \in DOMAIN states : n = calls[a].on
    BY AtGate DEF RefInv, BranchesInv
  <1>2. name \in DOMAIN branches /\ branches[name] = n
    BY <1>1, AtGate DEF RefInv, BranchesInv
  <1>3. states' = [states EXCEPT ![n] = b] /\ StateOf(a) = states[n]
    BY <1>1 DEF Replaces, StateOf
  <1>4. states'[n] = b /\ \A m \in DOMAIN states : m # n => states'[m] = states[m]
    BY <1>3
  <1>5. timeline' = timeline /\ Now' = Now
    BY DEF stored, Now
  <1>6. \A m \in DOMAIN branches : m # name => Seen(m)' = Seen(m) /\ ForkOf(m)' = ForkOf(m)
    <2> SUFFICES ASSUME NEW m \in DOMAIN branches, m # name
                 PROVE  Seen(m)' = Seen(m) /\ ForkOf(m)' = ForkOf(m)
      OBVIOUS
    <2>1. branches[m] # n /\ branches[m] \in DOMAIN states
      <3>1. states[branches[m]].name = m /\ states[branches[name]].name = name /\ branches[m] \in DOMAIN states
        BY <1>2, ListedFacts
      <3> QED
        BY <3>1, <1>2
    <2>2. states'[branches[m]] = states[branches[m]]
      BY <2>1, <1>4
    <2> QED
      BY <2>2, <1>5, SeenSame
  <1>7. Seen(name)' = View(b, MainState(b.base))
    BY <1>2, <1>4, <1>5 DEF Seen, MainState, View
  <1>8. ForkOf(name)' = [base |-> states[n].base, wrote |-> DOMAIN states[n].expected \cup {id}]
    BY <1>2, <1>3, <1>4 DEF ForkOf
  <1>9. /\ Views = [m \in DOMAIN branches |-> Seen(m)] /\ Forks = [m \in DOMAIN branches |-> ForkOf(m)]
        /\ Views' = [m \in DOMAIN branches' |-> Seen(m)'] /\ Forks' = [m \in DOMAIN branches' |-> ForkOf(m)']
        /\ MainView' = MainView
    BY <1>5, AbstractNext
  <1>10. ForkOf(name) = [base |-> states[n].base, wrote |-> DOMAIN states[n].expected]
    BY <1>2 DEF ForkOf
  <1>11. Forks' = [Forks EXCEPT ![name].wrote = @ \cup {id}]
    <2>1. [Forks EXCEPT ![name].wrote = @ \cup {id}]
            = [m \in DOMAIN branches |-> IF m = name THEN [Forks[name] EXCEPT !.wrote = @ \cup {id}] ELSE Forks[m]]
      BY <1>2, <1>9
    <2>2. [Forks[name] EXCEPT !.wrote = @ \cup {id}]
            = [base |-> states[n].base, wrote |-> DOMAIN states[n].expected \cup {id}]
      <3>1. Forks[name] = [base |-> states[n].base, wrote |-> DOMAIN states[n].expected]
        BY <1>2, <1>9, <1>10
      <3>2. \A x, y : [[base |-> x, wrote |-> y] EXCEPT !.wrote = @ \cup {id}] = [base |-> x, wrote |-> y \cup {id}]
        OBVIOUS
      <3> QED
        BY <3>1, <3>2
    <2> QED
      BY <2>1, <2>2, <1>2, <1>6, <1>8, <1>9
  <1>12. Views' = [Views EXCEPT ![name] = View(b, MainState(b.base))]
    BY <1>2, <1>6, <1>7, <1>9
  <1>13. Views[name] = View(StateOf(a), MainState(b.base))
    BY <1>2, <1>3, <1>9 DEF Seen
  <1> QED
    BY <1>2, <1>5, <1>9, <1>11, <1>12, <1>13 DEF Store!BranchWrites

LEMMA StepBranchAdd ==
  ASSUME RefInv, RefInv', NEW a \in Agents, NEW id \in Ids, NEW v \in BranchVals, BranchAdd(a, id, v)
  PROVE  Store!Next
  <1>1. PICK b : b = StateOf(a)
    OBVIOUS
  <1>2. PICK c : c = Added(b, id, v)
    OBVIOUS
  <1>3. /\ calls[a] # Nothing /\ calls[a].at = "gate" /\ UNCHANGED stored /\ branches' = branches
        /\ StateSound(b) /\ Replaces(a, c) /\ b.open /\ b.delta.clock < MaxLocal /\ MainInv
    <2>1. /\ calls[a] # Nothing /\ calls[a].at = "gate" /\ UNCHANGED stored /\ branches' = branches
          /\ StateSound(b) /\ Replaces(a, c)
      BY <1>1, <1>2, WrittenIs DEF RefInv
    <2>2. b.delta.clock < MaxLocal
      BY <1>1, BranchAddIs DEF RefInv, BranchesInv
    <2>3. b.open /\ MainInv
      BY <1>1, <2>1, AtGate DEF RefInv, BranchesInv
    <2> QED
      BY <2>1, <2>2, <2>3
  <1>4. /\ c.base = b.base /\ c.expected = touch(b, id)
        /\ c.records = Put(b.records, id, v) /\ c.deleted = b.deleted \ {id}
    <2>1. PICK t : t = Touched(b, id)
      OBVIOUS
    <2>2. /\ t \in StateType
          /\ t.base = b.base /\ t.records = b.records /\ t.deleted = b.deleted /\ t.expected = touch(b, id)
      BY <1>3, <2>1, TouchedIs
    <2>3. c = [t EXCEPT !.delta = Insert(@, Row(id, v, {})), !.records = Put(@, id, v),
                        !.deleted = @ \ {id}]
      BY <1>2, <2>1 DEF Added
    <2> QED
      BY <2>2, <2>3 DEF StateType
  <1>5. DOMAIN c.expected = DOMAIN b.expected \cup {id}
    <2>1. DOMAIN touch(b, id) = DOMAIN b.expected \cup {id}
      BY <1>3, TouchIs
    <2> QED
      BY <1>4, <2>1
  <1>6. PICK name : name = b.name
    OBVIOUS
  <1>7. PICK m : m = MainState(c.base)
    OBVIOUS
  <1>8. /\ name \in DOMAIN Forks /\ timeline' = timeline
        /\ Store!BranchWrites(name, id, View(c, m)) /\ Views[name] = View(b, m)
    BY <1>1, <1>3, <1>4, <1>5, <1>6, <1>7, StepWrites
  <1>9. /\ DOMAIN c.records = DOMAIN b.records \cup {id} /\ c.records[id] = v
        /\ \A x \in DOMAIN b.records \ {id} : c.records[x] = b.records[x]
    BY <1>4 DEF Put, Over, Just
  <1>10. View(c, m) = {p \in View(b, m) : p[1] \notin {id}} \cup {<<id, v>>}
    BY <1>4, <1>9 DEF View
  <1>11. Store!BranchWrite(name, id, v)
    BY <1>8, <1>10 DEF Store!BranchWrite, Store!Set, Store!Without
  <1> QED
    BY <1>8, <1>11 DEF Store!Next, Store!OnBranches

LEMMA StepBranchDelete ==
  ASSUME RefInv, RefInv', NEW a \in Agents, NEW id \in Ids, BranchDelete(a, id)
  PROVE  Store!Next
  <1>1. PICK b : b = StateOf(a)
    OBVIOUS
  <1>2. PICK c : c = Erased(b, id)
    OBVIOUS
  <1>3. /\ calls[a] # Nothing /\ calls[a].at = "gate" /\ UNCHANGED stored /\ branches' = branches
        /\ StateSound(b) /\ Replaces(a, c) /\ MainInv
        /\ id \in DOMAIN b.records => b.open /\ b.delta.clock < MaxLocal
    BY <1>1, <1>2, ErasedIs DEF RefInv, BranchesInv
  <1>4. /\ c.base = b.base /\ c.expected = touch(b, id)
        /\ DOMAIN c.records = DOMAIN b.records \ {id}
        /\ \A x \in DOMAIN b.records \ {id} : c.records[x] = b.records[x]
        /\ c.deleted = b.deleted \cup {id}
    BY <1>2, <1>3, ErasedSound
  <1>5. DOMAIN c.expected = DOMAIN b.expected \cup {id}
    <2>1. DOMAIN touch(b, id) = DOMAIN b.expected \cup {id}
      BY <1>3, TouchIs
    <2> QED
      BY <1>4, <2>1
  <1>6. PICK name : name = b.name
    OBVIOUS
  <1>7. PICK m : m = MainState(c.base)
    OBVIOUS
  <1>8. /\ name \in DOMAIN Forks /\ timeline' = timeline
        /\ Store!BranchWrites(name, id, View(c, m)) /\ Views[name] = View(b, m)
    BY <1>1, <1>3, <1>4, <1>5, <1>6, <1>7, StepWrites
  <1>9. View(c, m) = {p \in View(b, m) : p[1] \notin {id}}
    BY <1>4 DEF View
  <1>10. Store!BranchErase(name, id)
    BY <1>8, <1>9 DEF Store!BranchErase, Store!Without
  <1> QED
    BY <1>8, <1>10 DEF Store!Next, Store!OnBranches

\* A branch is taken off the list, and no other branch sees it go.
LEMMA StepReleases ==
  ASSUME RefInv, RefInv', NEW a \in Agents, calls[a] # Nothing, calls[a].at = "gate",
         Release(calls[a].on), \A s \in 1..index.clock : timeline'[s] = timeline[s],
         NEW name, name = StateOf(a).name
  PROVE  /\ name \in DOMAIN Forks /\ Store!Released(name)
         /\ Views[name] = View(StateOf(a), MainState(StateOf(a).base))
         /\ Forks[name] = [base |-> StateOf(a).base, wrote |-> DOMAIN StateOf(a).expected]
  <1>1. PICK n \in DOMAIN states : n = calls[a].on
    BY AtGate DEF RefInv, BranchesInv
  <1>2. name \in DOMAIN branches /\ branches[name] = n
    BY <1>1, AtGate DEF RefInv, BranchesInv
  <1>3. StateOf(a) = states[n]
    BY <1>1 DEF StateOf
  <1>4. /\ states' = [states EXCEPT ![n] = Released(states[n])]
        /\ DOMAIN branches' = DOMAIN branches \ {name}
        /\ \A m \in DOMAIN branches' : branches'[m] = branches[m]
    BY <1>1, <1>3, ReleaseIs DEF RefInv, BranchesInv
  <1>5. \A m \in DOMAIN branches' : Seen(m)' = Seen(m) /\ ForkOf(m)' = ForkOf(m)
    <2> SUFFICES ASSUME NEW m \in DOMAIN branches'
                 PROVE  Seen(m)' = Seen(m) /\ ForkOf(m)' = ForkOf(m)
      OBVIOUS
    <2>1. m \in DOMAIN branches /\ m # name /\ branches'[m] = branches[m]
      BY <1>4
    <2>2. branches[m] # n /\ branches[m] \in DOMAIN states
      <3>1. states[branches[m]].name = m /\ states[branches[name]].name = name /\ branches[m] \in DOMAIN states
        BY <1>2, <2>1, ListedFacts
      <3> QED
        BY <3>1, <2>1, <1>2
    <2>3. states'[branches[m]] = states[branches[m]]
      BY <2>2, <1>4
    <2> QED
      BY <2>1, <2>3, SeenSame
  <1>6. /\ Views = [m \in DOMAIN branches |-> Seen(m)] /\ Forks = [m \in DOMAIN branches |-> ForkOf(m)]
        /\ Views' = [m \in DOMAIN branches' |-> Seen(m)'] /\ Forks' = [m \in DOMAIN branches' |-> ForkOf(m)']
    BY AbstractNext
  <1>7. Forks' = [m \in DOMAIN Forks \ {name} |-> Forks[m]] /\ Views' = [m \in DOMAIN Forks \ {name} |-> Views[m]]
    BY <1>4, <1>5, <1>6
  <1>8. /\ Views[name] = View(states[n], MainState(states[n].base))
        /\ Forks[name] = [base |-> states[n].base, wrote |-> DOMAIN states[n].expected]
    BY <1>2, <1>6 DEF Seen, ForkOf
  <1> QED
    BY <1>2, <1>3, <1>6, <1>7, <1>8 DEF Store!Released

LEMMA StepDiscard ==
  ASSUME RefInv, RefInv', NEW a \in Agents, DiscardBranch(a)
  PROVE  Store!Next
  <1>1. /\ calls[a] # Nothing /\ calls[a].at = "gate" /\ Release(calls[a].on)
        /\ timeline' = timeline
    BY DEF DiscardBranch, In, stored
  <1>2. PICK name : name = StateOf(a).name
    OBVIOUS
  <1>3. name \in DOMAIN Forks /\ Store!Released(name)
    BY <1>1, <1>2, StepReleases
  <1>4. MainView' = MainView
    <2>1. Now' = Now
      BY <1>1 DEF Now
    <2> QED
      BY <2>1, AbstractNext
  <1>5. Store!Discard(name)
    BY <1>3, <1>4 DEF Store!Discard
  <1> QED
    BY <1>1, <1>3, <1>5 DEF Store!Next, Store!OnBranches

\* When no version the branch expects has changed, main is as the branch found
\* it wherever the branch wrote, at every commit since.
LEMMA NoConflictClean ==
  ASSUME RefInv, NEW b, StateSound(b), b.base \in 0..index.clock, horizon <= b.base + 1,
         Conflicts(b) = {}, NEW t \in b.base..index.clock, NEW id \in DOMAIN b.expected
  PROVE  At(MainState(t), id) = At(MainState(b.base), id)
  <1>1. b.expected \in PartialFunctions(Ids, Nat) /\ b.expected[id] <= b.base
    BY DEF StateSound, StateType
  <1>2. id \in Ids /\ b.expected[id] \in Nat
    BY <1>1, PartialIs
  <1>3. b.expected[id] = (LET seq == Numbers(versions, id) IN IF seq = <<>> THEN 0 ELSE seq[Len(seq)])
    BY DEF Conflicts
  <1>4. id \in DOMAIN versions => ~(LastStamp(id) > b.base)
    <2>1. ASSUME id \in DOMAIN versions
          PROVE  b.expected[id] = LastStamp(id)
      <3>1. versions[id] # <<>>
        BY <2>1 DEF RefInv, BranchesInv, MainInv, Shapes
      <3> QED
        BY <1>3, <2>1, <3>1 DEF Numbers, Has, LastStamp
    <2> QED
      BY <2>1, <1>1, <1>2
  <1>5. b.base \in 0..index.clock /\ t \in 0..index.clock /\ b.base <= t /\ b.base + 1 >= horizon
    BY ClockFacts DEF RefInv, BranchesInv
  <1> QED
    BY <1>2, <1>4, <1>5 DEF RefInv, ChangesLogged

LEMMA MergeClean ==
  ASSUME RefInv, NEW a \in Agents, calls[a] # Nothing, calls[a].at = "gate", ~Fails(StateOf(a)),
         NEW name, Forks[name] = [base |-> StateOf(a).base, wrote |-> DOMAIN StateOf(a).expected]
  PROVE  Strategy = "fail_on_conflict" => Store!Clean(name)
  <1> SUFFICES ASSUME Strategy = "fail_on_conflict" PROVE Store!Clean(name)
    OBVIOUS
  <1>1. PICK b : b = StateOf(a)
    OBVIOUS
  <1>2. Conflicts(b) = {}
    BY <1>1 DEF Fails
  <1>3. StateSound(b) /\ horizon <= b.base + 1
    BY <1>1, AtGate DEF RefInv, BranchesInv
  <1>4. b.base \in 0..index.clock
    <2>1. b.base \in Nat /\ b.base <= index.clock /\ index.clock \in Nat
      BY <1>1, CallOn, ClockFacts DEF RefInv, BranchesInv, StateOf
    <2> QED
      BY <2>1
  <1>5. Len(timeline) = index.clock
    BY AbstractIs DEF Abstract
  <1>6. ASSUME NEW t \in b.base..index.clock
        PROVE  {p \in MainState(t) : p[1] \in DOMAIN b.expected}
                 = {p \in MainState(b.base) : p[1] \in DOMAIN b.expected}
    <2>1. \A id \in DOMAIN b.expected : At(MainState(t), id) = At(MainState(b.base), id)
      BY <1>2, <1>3, <1>4, <1>6, NoConflictClean
    <2> QED
      BY <2>1 DEF At
  <1>7. Forks[name].base = b.base /\ Forks[name].wrote = DOMAIN b.expected
    BY <1>1
  <1>8. \A t : Store!State(t) = MainState(t)
    BY DEF Store!State, MainState
  <1> QED
    BY <1>5, <1>6, <1>7, <1>8 DEF Store!Clean, Store!Only

\* What a merge leaves on main: the branch's own writes, over main.
LEMMA MergeShows ==
  ASSUME RefInv, NEW a \in Agents, calls[a] # Nothing, calls[a].at = "gate",
         NEW name, Views[name] = View(StateOf(a), MainState(StateOf(a).base)),
         Forks[name] = [base |-> StateOf(a).base, wrote |-> DOMAIN StateOf(a).expected]
  PROVE  Store!Merged(name) = After(StateOf(a).records, Gone(StateOf(a)))
  <1>1. PICK b : b = StateOf(a)
    OBVIOUS
  <1>2. StateSound(b) /\ b.open
    BY <1>1, AtGate DEF RefInv, BranchesInv
  <1>3. DOMAIN b.expected = DOMAIN b.records \cup b.deleted
    BY <1>2 DEF StateSound, DeltaMatches
  <1>4. MainView = Now /\ Forks[name].wrote = DOMAIN b.records \cup b.deleted
    BY <1>1, <1>3, AbstractIs DEF Abstract
  <1>5. \A p \in Now : Live(p[1])
    <2>1. Now = Pairs(index, index.clock) /\ AsOf(index, index.clock) = OpenRows(index)
      BY NowIs, ClockFacts DEF RefInv, BranchesInv
    <2>2. \A v \in OpenRows(index) : Live(v.id)
      BY DEF RefInv, BranchesInv, MainInv, RecordsSound
    <2> QED
      BY <2>1, <2>2 DEF Pairs
  <1>6. PICK m : m = MainState(b.base)
    OBVIOUS
  <1>7. {p \in View(b, m) : p[1] \in DOMAIN b.records \cup b.deleted} = {<<id, b.records[id]>> : id \in DOMAIN b.records}
    BY DEF View
  <1>8. {p \in Now : p[1] \notin DOMAIN b.records \cup b.deleted} = {p \in Now : p[1] \notin DOMAIN b.records \cup Gone(b)}
    BY <1>5 DEF Gone
  <1>9. After(b.records, Gone(b))
          = {p \in Now : p[1] \notin DOMAIN b.records \cup Gone(b)} \cup {<<id, b.records[id]>> : id \in DOMAIN b.records}
    BY DEF After
  <1> QED
    BY <1>1, <1>4, <1>6, <1>7, <1>8, <1>9 DEF Store!Merged, Store!Only, Store!Without

LEMMA StepMerge ==
  ASSUME RefInv, RefInv', NEW a \in Agents, MergeBranch(a)
  PROVE  Store!Next
  <1>1. PICK b : b = StateOf(a)
    OBVIOUS
  <1>2. /\ calls[a] # Nothing /\ calls[a].at = "gate" /\ ~Fails(b)
        /\ Release(calls[a].on)
        /\ \/ CommitsMain(b.records, Gone(b))
           \/ UNCHANGED stored /\ DOMAIN b.records = {} /\ Gone(b) = {}
    BY <1>1, MergeIs DEF RefInv, BranchesInv
  <1>3. PICK name : name = b.name
    OBVIOUS
  <1>4. \A s \in 1..index.clock : timeline'[s] = timeline[s]
    BY <1>2, CommitShows DEF stored
  <1>5. /\ name \in DOMAIN Forks /\ Store!Released(name)
        /\ Views[name] = View(b, MainState(b.base))
        /\ Forks[name] = [base |-> b.base, wrote |-> DOMAIN b.expected]
    BY <1>1, <1>2, <1>3, <1>4, StepReleases
  <1>6. Strategy = "fail_on_conflict" => Store!Clean(name)
    BY <1>1, <1>2, <1>5, MergeClean
  <1>7. Store!Merged(name) = After(b.records, Gone(b))
    BY <1>1, <1>2, <1>5, MergeShows
  <1>8. Store!Commit(Store!Merged(name)) \/ (MainView = Store!Merged(name) /\ UNCHANGED <<timeline, MainView>>)
    <2>1. CASE CommitsMain(b.records, Gone(b))
      <3>1. timeline' = Append(timeline, After(b.records, Gone(b))) /\ MainView' = After(b.records, Gone(b))
        BY <2>1, CommitShows
      <3> QED
        BY <3>1, <1>7 DEF Store!Commit
    <2>2. CASE UNCHANGED stored /\ DOMAIN b.records = {} /\ Gone(b) = {}
      <3>1. timeline' = timeline /\ Now' = Now
        BY <2>2 DEF stored, Now
      <3>2. After(b.records, Gone(b)) = Now
        BY <2>2 DEF After
      <3> QED
        BY <3>1, <3>2, <1>7, AbstractNext
    <2> QED
      BY <1>2, <2>1, <2>2
  <1>9. Store!Merge(name)
    BY <1>5, <1>6, <1>8 DEF Store!Merge
  <1> QED
    BY <1>5, <1>9 DEF Store!Next

LEMMA StoreInit == Init => Store!Init
  <1> SUFFICES ASSUME Init PROVE Store!Init
    OBVIOUS
  <1>1. Abstract
    BY RefInit, AbstractIs
  <1>2. timeline = <<>> /\ DOMAIN branches = {}
    BY DEF Init
  <1>3. MainView = {}
    BY <1>1, <1>2 DEF Abstract, Now
  <1>4. Forks = <<>> /\ Views = <<>>
    BY <1>1, <1>2 DEF Abstract
  <1> QED
    BY <1>2, <1>3, <1>4 DEF Store!Init

LEMMA StoreNext ==
  ASSUME RefInv, RefInv', [Next]_vars
  PROVE  [Store!Next]_(Store!vars)
  <1>1. CASE Main
    <2>1. ASSUME NEW id \in Ids, NEW v \in Vals, Add(id, v)
          PROVE  Store!Next
      BY <2>1, StepAdd
    <2>2. ASSUME NEW id \in Ids, DeleteRecord(id)
          PROVE  Store!Next
      BY <2>2, StepDelete
    <2>3. ASSUME NEW h \in Protected \cup {index.clock + 1}, Purge(h)
          PROVE  UNCHANGED Store!vars
      BY <2>3, StepStutters DEF Purge
    <2>4. ASSUME NEW a \in Agents, NEW name \in Names, NEW s \in 0..index.clock, Fork(a, name, s)
          PROVE  Store!Next
      BY <2>4, StepFork
    <2> QED
      BY <1>1, <2>1, <2>2, <2>3, <2>4 DEF Main
  <1>2. ASSUME NEW a \in Agents, Branch(a)
        PROVE  [Store!Next]_(Store!vars)
    <2>1. ASSUME NEW n \in DOMAIN states, Call(a, n)
          PROVE  UNCHANGED Store!vars
      BY <2>1, StepStutters DEF Call, stored
    <2>2. ASSUME NEW id \in Ids, BranchDelete(a, id)
          PROVE  Store!Next
      BY <2>2, StepBranchDelete
    <2>3. ASSUME NEW id \in Ids, NEW v \in BranchVals, BranchAdd(a, id, v)
          PROVE  Store!Next
      BY <2>3, StepBranchAdd
    <2>4. ASSUME MergeRefused(a)
          PROVE  UNCHANGED Store!vars
      BY <2>4, StepStutters DEF MergeRefused, stored
    <2>5. ASSUME MergeBranch(a)
          PROVE  Store!Next
      BY <2>5, StepMerge
    <2>6. ASSUME DiscardBranch(a)
          PROVE  Store!Next
      BY <2>6, StepDiscard
    <2>7. ASSUME Close(a)
          PROVE  UNCHANGED Store!vars
      <3>1. calls[a] # Nothing /\ calls[a].at = "closing" /\ timeline' = timeline /\ branches' = branches
        BY <2>7 DEF Close, In, stored
      <3>2. \A name \in DOMAIN branches : branches[name] # calls[a].on
        BY <3>1 DEF RefInv, Owned, OnOwn
      <3>3. \A m \in DOMAIN states : m # calls[a].on => states'[m] = states[m]
        BY <2>7 DEF Close
      <3>4. \A name \in DOMAIN branches : states'[branches[name]] = states[branches[name]]
        BY <3>2, <3>3, ListedFacts
      <3> QED
        BY <3>1, <3>4, StepStutters
    <2> QED
      BY <1>2, <2>1, <2>2, <2>3, <2>4, <2>5, <2>6, <2>7 DEF Branch
  <1>3. CASE UNCHANGED vars
    <2>1. branches' = branches /\ timeline' = timeline /\ states' = states
      BY <1>3 DEF vars, stored
    <2> QED
      BY <2>1, StepStutters
  <1> QED
    BY <1>1, <1>2, <1>3 DEF Next

\* The memory keeps the promise of BranchStore: a branch sees its fork and its
\* own writes only, main never sees a write that is not merged, a merge commits
\* the branch's writes at one point of main's timeline, and one that has to fail
\* on conflicts overwrites nothing main changed since the fork.  It does where
\* agents keep to the branches they made and fork at snapshots no purge reached.
THEOREM BranchesImplement ==
  ASSUME ~Shared, ~DeepForks
  PROVE  Spec => Implements
  <1>1. Spec => []RefInv
    BY RefAlways
  <1>2. Init => Store!Init
    BY StoreInit
  <1>3. RefInv /\ RefInv' /\ [Next]_vars => [Store!Next]_(Store!vars)
    BY StoreNext
  <1> QED
    BY <1>1, <1>2, <1>3, PTL DEF Spec, Implements, Store!Spec

===============================================================================
