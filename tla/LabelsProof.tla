----------------------------- MODULE LabelsProof -----------------------------
(***************************************************************************)
(* Theorems about AgentMemory, for any ids, values, names and bounds: its  *)
(* books agree at every step of a merge or discard, main shows what was    *)
(* written on it and merged into it, and a branch that forked where no     *)
(* branch had a row sees its fork and its own writes.                      *)
(***************************************************************************)
EXTENDS AgentMemory, FiniteSetTheorems, SequenceTheorems, WellFoundedInduction, TLAPS

AllVals == MainVals \cup BranchVals
Bits == 0..MaxBranches
Engines == Ids \X Bits
AllRows == [id : Engines, val : AllVals, label : SUBSET Bits, from : Nat \ {0}, to : Nat]
NewRows == [id : Engines, val : AllVals, label : SUBSET Bits]
AllRecords == [id : Ids, val : AllVals, branch : Names \cup {"main"}, deleted_at : Nat \cup {Nothing}]
Stamps == [stamp : Nat, id : Ids, val : AllVals]
Wrote == UNION {[D -> BranchVals] : D \in SUBSET Ids}
AllViews == [name : Names, bit : 1..MaxBranches, base : Nat, deleted : SUBSET Ids, wrote : Wrote]

\* A row has the bit of its engine id.  A version begins by the clock, and ends
\* by the clock or is open.
IndexSound(ix) ==
  /\ ix \in [clock : Nat, rows : SUBSET AllRows]
  /\ \A v \in ix.rows : /\ v.label = {v.id[2]} /\ v.from <= ix.clock /\ v.from < v.to
                        /\ v.to <= ix.clock \/ v.to = Forever

\* An open row has a live record with its value, a live record an open row, and
\* the rows of a record that is not live ended by its deletion.
RowsRecorded(m) ==
  /\ \A v \in m.index.rows :
       /\ Has(m.records, v.id)
       /\ v.to = Forever => Live(m, v.id) /\ m.records[v.id].val = v.val
       /\ ~Live(m, v.id) => v.to <= m.records[v.id].deleted_at
  /\ \A e \in DOMAIN m.records : Live(m, e) => \E v \in m.index.rows : v.id = e /\ v.to = Forever

\* The history has the payload of a row, as the last one stored while it was the latest.
Written(seq, v) ==
  \E n \in DOMAIN seq :
    /\ seq[n] = [stamp |-> v.from, id |-> v.id[1], val |-> v.val]
    /\ \A k \in DOMAIN seq : k > n => seq[k].stamp >= v.to

MemSound(m) ==
  /\ m = [index |-> m.index, records |-> m.records, history |-> m.history]
  /\ IndexSound(m.index) /\ m.index.clock <= MaxClock
  /\ DOMAIN m.records \subseteq Engines /\ DOMAIN m.history = DOMAIN m.records
  /\ \A e \in DOMAIN m.records : m.records[e] \in AllRecords /\ m.records[e].id = e[1]
  /\ \A e \in DOMAIN m.history : m.history[e] \in Seq(Stamps)
  /\ RowsRecorded(m)
  /\ \A v \in m.index.rows : Written(m.history[v.id], v)

\* What main holds at a snapshot.
Held(m, s) == {<<v.id[1], v.val>> : v \in {w \in AsOf(m.index, s) : w.id[2] = MAIN}}

\* A live record is main's, or that of the open branch whose bit it has.
Belongs(m, e) ==
  \/ e[2] = MAIN /\ m.records[e].branch = "main"
  \/ \E name \in DOMAIN branches : m.records[e].branch = name /\ Open(name).bit = e[2]

\* What a branch stored and did not delete is what it has live and does not hide.
ViewHolds(m, view) ==
  \A id \in Ids :
    LET e == Engine(id, view.bit) IN
      /\ Has(view.wrote, id) <=> Live(m, e) /\ id \notin view.deleted
      /\ Has(view.wrote, id) => m.records[e].val = view.wrote[id]

Opened ==
  /\ DOMAIN branches \subseteq Names
  /\ \A name \in DOMAIN branches :
       /\ branches[name] \in DOMAIN views /\ Open(name).name = name
       /\ Open(name).base + 1 >= horizon
       /\ Free \/ name # task.name => ViewHolds(mem, Open(name))

Timed ==
  /\ Free => Clock \in DOMAIN timeline
  /\ \A s \in DOMAIN timeline :
       s \in 0..Clock /\ (s + 1 >= horizon => Held(mem, s) = timeline[s])

\* The live rows with a label bit.
OwnLive(m, bit) == {e \in DOMAIN m.records : Live(m, e) /\ e[2] = bit}

\* What main holds is what the call is to show, but for the ids still to do.
Settled(held, shows, promote, erase) ==
  \A p \in held \cup shows :
    p[1] \notin erase /\ (\A e \in promote : p[1] # e[1]) => p \in held /\ p \in shows

\* The rows of the branch are left to do, and main shows at the end what the
\* call is to show.
Underway ==
  /\ task.name \in DOMAIN branches
  /\ task.promote \cap task.drop = {}
  /\ task.promote \cup task.drop = OwnLive(mem, Open(task.name).bit)
  /\ task.erase \subseteq Ids /\ \A id \in task.erase : Live(mem, Engine(id, MAIN))
  /\ \A e \in task.promote : e[1] \notin task.erase
  /\ \A e \in task.promote, p \in task.shows : p[1] = e[1] => p = <<e[1], mem.records[e].val>>
  /\ \A e \in task.promote : <<e[1], mem.records[e].val>> \in task.shows
  /\ \A p \in task.shows : p[1] \notin task.erase
  /\ Settled(Held(mem, Clock), task.shows, task.promote, task.erase)

LabelsInv ==
  /\ MemSound(mem)
  /\ horizon \in 0..Clock + 1
  /\ views \in Seq(AllViews) /\ \A n \in DOMAIN views : Has(timeline, views[n].base)
  /\ BitsApart /\ Opened
  /\ \A e \in DOMAIN mem.records : Live(mem, e) => Belongs(mem, e)
  /\ Timed
  /\ task = [name |-> task.name, promote |-> task.promote, drop |-> task.drop, erase |-> task.erase,
             shows |-> task.shows]
  /\ ~Free => Underway

\* A view is listed as long as its branch is open.
Listed(n) == Has(branches, views[n].name) /\ branches[views[n].name] = n

\* Who is past _check_open has an open branch before it and in it, and who merges
\* or discards has the view for itself until it is closed.
CallsInv ==
  /\ calls \in [Agents -> [at : {"outside", "gate", "inside", "closing"}, on : Nat, ends : BOOLEAN]]
  /\ \A a \in Agents : calls[a].at # "outside" => calls[a].on \in DOMAIN views
  /\ \A a \in Agents : calls[a].at \in {"inside", "closing"} => calls[a].ends
  /\ \A a \in Agents : calls[a].at \in {"gate", "inside"} => Listed(calls[a].on)
  /\ \A a \in Agents : calls[a].at = "inside" => task.name = views[calls[a].on].name
  /\ \A a, b \in Agents : a # b /\ calls[a].at # "outside" /\ On(b, calls[a].on) => ~calls[a].ends
  /\ closed \subseteq DOMAIN views
  /\ \A n \in DOMAIN views \ closed :
       Listed(n) \/ \E a \in Agents : calls[a].at = "closing" /\ calls[a].on = n

-----------------------------------------------------------------------------
(* The index.                                                              *)

Contents(ix, s) == {<<v.id, v.val>> : v \in AsOf(ix, s)}

NewRow(n, ts) == [id |-> n.id, val |-> n.val, label |-> n.label, from |-> ts, to |-> Forever]

\* Where a row of a commit comes from.
LEMMA CommitRow ==
  ASSUME NEW ix, NEW gone, NEW new, NEW r \in Commit(ix, gone, new).rows
  PROVE  \/ r \in ix.rows /\ ~(r.to = Forever /\ r.id \in gone \cup RowIds(new))
         \/ \E v \in ix.rows : /\ v.to = Forever /\ v.id \in gone \cup RowIds(new)
                               /\ r = [v EXCEPT !.to = ix.clock + 1]
         \/ \E n \in new : r = NewRow(n, ix.clock + 1)
  BY DEF Commit, OpenRows, NewRow

LEMMA CommitHas ==
  ASSUME NEW ix, NEW gone, NEW new
  PROVE  /\ Commit(ix, gone, new).clock = ix.clock + 1
         /\ \A v \in ix.rows :
              IF v.to = Forever /\ v.id \in gone \cup RowIds(new)
              THEN [v EXCEPT !.to = ix.clock + 1] \in Commit(ix, gone, new).rows
              ELSE v \in Commit(ix, gone, new).rows
         /\ \A n \in new : NewRow(n, ix.clock + 1) \in Commit(ix, gone, new).rows
  BY DEF Commit, OpenRows, NewRow

\* A row that ends, and one that starts: their fields.
LEMMA EndedRow ==
  ASSUME NEW v \in AllRows, NEW ts \in Nat
  PROVE  /\ [v EXCEPT !.to = ts] \in AllRows
         /\ [v EXCEPT !.to = ts].id = v.id /\ [v EXCEPT !.to = ts].val = v.val
         /\ [v EXCEPT !.to = ts].label = v.label
         /\ [v EXCEPT !.to = ts].from = v.from /\ [v EXCEPT !.to = ts].to = ts
  BY DEF AllRows

LEMMA StartedRow ==
  ASSUME NEW n \in NewRows, NEW ts \in Nat \ {0}
  PROVE  /\ NewRow(n, ts) \in AllRows
         /\ NewRow(n, ts).id = n.id /\ NewRow(n, ts).val = n.val /\ NewRow(n, ts).label = n.label
         /\ NewRow(n, ts).from = ts /\ NewRow(n, ts).to = Forever
  BY Bounds DEF AllRows, NewRows, NewRow

LEMMA RowFacts ==
  ASSUME NEW ix, IndexSound(ix)
  PROVE  /\ ix.clock \in Nat
         /\ \A v \in ix.rows : /\ v \in AllRows /\ v.id \in Engines /\ v.val \in AllVals
                               /\ v.from \in Nat /\ v.to \in Nat /\ v.label = {v.id[2]}
                               /\ v.from # 0 /\ v.from <= ix.clock /\ v.from < v.to
                               /\ v.to <= ix.clock \/ v.to = Forever
  BY DEF IndexSound, AllRows

LEMMA CommitSound ==
  ASSUME NEW ix, IndexSound(ix), ix.clock + 1 < Forever, NEW gone,
         NEW new \in SUBSET NewRows, \A n \in new : n.label = {n.id[2]}
  PROVE  IndexSound(Commit(ix, gone, new))
  <1> DEFINE ts == ix.clock + 1
             C == Commit(ix, gone, new)
  <1>1. ts \in Nat /\ ts # 0 /\ ix.clock \in Nat /\ ts = ix.clock + 1 /\ ts < Forever /\ Forever \in Nat
    BY Bounds, RowFacts
  <1>2. C.clock = ts /\ C = [clock |-> C.clock, rows |-> C.rows]
    BY DEF Commit
  <1> HIDE DEF ts
  <1>3. ASSUME NEW v \in ix.rows, NEW r, r = [v EXCEPT !.to = ts]
        PROVE  r \in AllRows /\ r.label = {r.id[2]} /\ r.from <= ts /\ r.from < r.to /\ r.to <= ts
    <2>1. /\ v \in AllRows /\ v.label = {v.id[2]} /\ v.from <= ix.clock /\ v.from \in Nat
      BY RowFacts
    <2>2. r \in AllRows /\ r.id = v.id /\ r.label = v.label /\ r.from = v.from /\ r.to = ts
      BY <2>1, <1>3, <1>1, EndedRow
    <2> QED
      BY <2>1, <2>2, <1>1
  <1>4. ASSUME NEW n \in new, NEW r, r = NewRow(n, ts)
        PROVE  /\ r \in AllRows /\ r.label = {r.id[2]} /\ r.from <= ts /\ r.from < r.to
               /\ r.to = Forever
    <2>1. /\ r \in AllRows /\ r.id = n.id /\ r.label = n.label /\ r.from = ts /\ r.to = Forever
      BY <1>4, <1>1, StartedRow
    <2> QED
      BY <2>1, <1>1
  <1>5. ASSUME NEW r \in C.rows
        PROVE  /\ r \in AllRows /\ r.label = {r.id[2]} /\ r.from <= ts /\ r.from < r.to
               /\ r.to <= ts \/ r.to = Forever
    <2>1. CASE r \in ix.rows
      BY <2>1, <1>1, RowFacts
    <2> QED
      BY <2>1, <1>3, <1>4, CommitRow DEF ts
  <1> HIDE DEF C
  <1>6. C \in [clock : Nat, rows : SUBSET AllRows]
    BY <1>1, <1>2, <1>5
  <1>7. IndexSound(C)
    BY <1>2, <1>5, <1>6 DEF IndexSound
  <1> QED
    BY <1>7 DEF C

LEMMA AsOfNow ==
  ASSUME NEW ix, IndexSound(ix), ix.clock < Forever
  PROVE  AsOf(ix, ix.clock) = OpenRows(ix)
  BY RowFacts, Bounds DEF AsOf, OpenRows

\* A commit does not change what the snapshots before it hold.
LEMMA CommitPast ==
  ASSUME NEW ix, IndexSound(ix), ix.clock + 1 < Forever, NEW gone,
         NEW new \in SUBSET NewRows, NEW s \in Nat, s <= ix.clock
  PROVE  Contents(Commit(ix, gone, new), s) = Contents(ix, s)
  <1> DEFINE ts == ix.clock + 1
             C == Commit(ix, gone, new)
             ended == gone \cup RowIds(new)
  <1>1. ts \in Nat /\ ix.clock \in Nat /\ s < ts /\ ts < Forever /\ Forever \in Nat
    BY Bounds, RowFacts
  <1>2. \A v \in ix.rows : v \in AllRows /\ v.from \in Nat /\ v.to \in Nat
    BY RowFacts
  <1>3. ASSUME NEW v \in AsOf(ix, s)
        PROVE  \E r \in AsOf(C, s) : r.id = v.id /\ r.val = v.val
    <2>1. v \in ix.rows /\ v.from <= s /\ s < v.to
      BY DEF AsOf
    <2>2. CASE v.to = Forever /\ v.id \in ended
      <3>1. [v EXCEPT !.to = ts] \in C.rows
        BY <2>1, <2>2, CommitHas
      <3>2. /\ [v EXCEPT !.to = ts].id = v.id /\ [v EXCEPT !.to = ts].val = v.val
            /\ [v EXCEPT !.to = ts].from = v.from /\ [v EXCEPT !.to = ts].to = ts
        <4> HIDE DEF ts
        <4> QED
          BY <2>1, <1>1, <1>2, EndedRow
      <3> HIDE DEF ts, C
      <3> QED
        BY <3>1, <3>2, <2>1, <1>1 DEF AsOf
    <2>3. CASE ~(v.to = Forever /\ v.id \in ended)
      <3>1. v \in C.rows
        BY <2>1, <2>3, CommitHas
      <3> HIDE DEF C
      <3> QED
        BY <3>1, <2>1 DEF AsOf
    <2> QED
      BY <2>2, <2>3
  <1>4. ASSUME NEW r \in AsOf(C, s)
        PROVE  \E v \in AsOf(ix, s) : r.id = v.id /\ r.val = v.val
    <2>1. r \in C.rows /\ r.from <= s /\ s < r.to
      BY DEF AsOf
    <2>2. CASE r \in ix.rows
      BY <2>1, <2>2 DEF AsOf
    <2>3. ASSUME NEW v \in ix.rows, v.to = Forever, r = [v EXCEPT !.to = ts]
          PROVE  v \in AsOf(ix, s) /\ r.id = v.id /\ r.val = v.val
      <3>1. r.id = v.id /\ r.val = v.val /\ r.from = v.from
        <4> HIDE DEF ts
        <4> QED
          BY <2>3, <1>1, <1>2, EndedRow
      <3> QED
        BY <3>1, <2>1, <2>3, <1>1, <1>2 DEF AsOf
    <2>4. ASSUME NEW n \in new, r = NewRow(n, ts)
          PROVE  FALSE
      <3>1. r.from = ts
        BY <2>4 DEF NewRow
      <3> HIDE DEF ts
      <3> QED
        BY <3>1, <2>1, <1>1
    <2> QED
      BY <2>1, <2>2, <2>3, <2>4, CommitRow
  <1> HIDE DEF C
  <1>5. Contents(C, s) = Contents(ix, s)
    BY <1>3, <1>4 DEF Contents
  <1> QED
    BY <1>5 DEF C

\* The open rows after a commit: those it did not end and its own.
LEMMA CommitOpen ==
  ASSUME NEW ix, IndexSound(ix), ix.clock + 1 < Forever, NEW gone,
         NEW new \in SUBSET NewRows
  PROVE  OpenRows(Commit(ix, gone, new))
           = {v \in OpenRows(ix) : v.id \notin gone \cup RowIds(new)}
             \cup {NewRow(n, ix.clock + 1) : n \in new}
  <1> DEFINE ts == ix.clock + 1
             C == Commit(ix, gone, new)
             ended == gone \cup RowIds(new)
  <1>1. ts \in Nat /\ ts < Forever /\ Forever \in Nat
    BY Bounds, RowFacts
  <1>2. \A n \in new : NewRow(n, ts) \in C.rows /\ NewRow(n, ts).to = Forever
    BY CommitHas DEF NewRow
  <1>3. ASSUME NEW r \in C.rows, r.to = Forever
        PROVE  \/ r \in ix.rows /\ r.id \notin ended
               \/ \E n \in new : r = NewRow(n, ts)
    <2>1. ASSUME NEW v \in ix.rows, r = [v EXCEPT !.to = ts]
          PROVE  FALSE
      <3>1. r.to = ts
        <4> HIDE DEF ts
        <4> QED
          BY <2>1, <1>1, RowFacts, EndedRow
      <3> HIDE DEF ts
      <3> QED
        BY <3>1, <1>3, <1>1
    <2> QED
      BY <2>1, <1>3, CommitRow
  <1>4. ASSUME NEW v \in ix.rows, v.to = Forever, v.id \notin ended
        PROVE  v \in C.rows
    BY <1>4, CommitHas
  <1> HIDE DEF C, ts, ended
  <1>5. OpenRows(C) = {v \in OpenRows(ix) : v.id \notin ended} \cup {NewRow(n, ts) : n \in new}
    BY <1>2, <1>3, <1>4 DEF OpenRows
  <1> QED
    BY <1>5 DEF C, ts, ended

LEMMA CommitOpenIds ==
  ASSUME NEW ix, IndexSound(ix), ix.clock + 1 < Forever, NEW gone,
         NEW new \in SUBSET NewRows
  PROVE  OpenIds(Commit(ix, gone, new)) = (OpenIds(ix) \ gone) \cup RowIds(new)
  <1>1. \A n \in new : NewRow(n, ix.clock + 1).id = n.id
    BY DEF NewRow
  <1> QED
    BY <1>1, CommitOpen DEF OpenIds, RowIds

\* What main holds right after a commit.
LEMMA CommitNow ==
  ASSUME NEW ix, IndexSound(ix), ix.clock + 1 < Forever, NEW gone,
         NEW new \in SUBSET NewRows, \A n \in new : n.label = {n.id[2]}
  PROVE  Contents(Commit(ix, gone, new), ix.clock + 1)
           = {p \in Contents(ix, ix.clock) : p[1] \notin gone \cup RowIds(new)}
             \cup {<<n.id, n.val>> : n \in new}
  <1>1. /\ IndexSound(Commit(ix, gone, new)) /\ Commit(ix, gone, new).clock = ix.clock + 1
        /\ ix.clock < Forever
    BY CommitSound, CommitHas, RowFacts, Bounds
  <1>2. /\ AsOf(Commit(ix, gone, new), ix.clock + 1) = OpenRows(Commit(ix, gone, new))
        /\ AsOf(ix, ix.clock) = OpenRows(ix)
    BY <1>1, AsOfNow
  <1>3. \A n \in new : NewRow(n, ix.clock + 1).id = n.id /\ NewRow(n, ix.clock + 1).val = n.val
    BY DEF NewRow
  <1> QED
    BY <1>2, <1>3, CommitOpen DEF Contents

\* Vacuum takes away closed versions that no snapshot from the horizon on holds.
LEMMA VacuumSound ==
  ASSUME NEW ix, IndexSound(ix), NEW h \in Nat
  PROVE  /\ IndexSound(Vacuum(ix, h))
         /\ Vacuum(ix, h).clock = ix.clock
         /\ Vacuum(ix, h).rows = {v \in ix.rows : v.to >= h}
         /\ \A s \in Nat : s + 1 >= h => AsOf(Vacuum(ix, h), s) = AsOf(ix, s)
         /\ ix.clock < Forever /\ h <= ix.clock + 1 => OpenRows(Vacuum(ix, h)) = OpenRows(ix)
  <1>1. ix \in [clock : Nat, rows : SUBSET AllRows]
    BY DEF IndexSound
  <1>2. /\ Vacuum(ix, h) = [ix EXCEPT !.rows = {v \in ix.rows : v.to >= h}]
    BY DEF Vacuum
  <1>3. /\ Vacuum(ix, h) \in [clock : Nat, rows : SUBSET AllRows]
        /\ Vacuum(ix, h).clock = ix.clock
        /\ Vacuum(ix, h).rows = {v \in ix.rows : v.to >= h}
    BY <1>1, <1>2
  <1>4. IndexSound(Vacuum(ix, h))
    BY <1>3 DEF IndexSound
  <1>5. ASSUME NEW s \in Nat, s + 1 >= h
        PROVE  AsOf(Vacuum(ix, h), s) = AsOf(ix, s)
    BY <1>3, <1>5, RowFacts DEF AsOf
  <1>6. ix.clock < Forever /\ h <= ix.clock + 1 => OpenRows(Vacuum(ix, h)) = OpenRows(ix)
    BY <1>3, RowFacts, Bounds DEF OpenRows
  <1> QED
    BY <1>3, <1>4, <1>5, <1>6

\* Where a row of a commit comes from, by its fields.
LEMMA CommitRows ==
  ASSUME NEW ix, IndexSound(ix), ix.clock + 1 < Forever, NEW gone,
         NEW new \in SUBSET NewRows, NEW r \in Commit(ix, gone, new).rows
  PROVE  \/ r \in ix.rows /\ (r.id \in gone \cup RowIds(new) => r.to <= ix.clock)
         \/ /\ r.id \in gone \cup RowIds(new) /\ r.to = ix.clock + 1
            /\ \E v \in ix.rows : v.id = r.id /\ v.to = Forever /\ v.from = r.from /\ v.val = r.val
         \/ \E n \in new : r = NewRow(n, ix.clock + 1)
  <1>1. ASSUME NEW v \in ix.rows, r = [v EXCEPT !.to = ix.clock + 1]
        PROVE  r.id = v.id /\ r.to = ix.clock + 1 /\ v.from = r.from /\ v.val = r.val
    BY <1>1, RowFacts, EndedRow
  <1>2. CASE r \in ix.rows /\ ~(r.to = Forever /\ r.id \in gone \cup RowIds(new))
    BY <1>2, RowFacts
  <1> QED
    BY <1>1, <1>2, CommitRow

-----------------------------------------------------------------------------
(* The index with the records and the history.                             *)

\* What main holds is read off the contents of the index.
LEMMA HeldIs ==
  ASSUME NEW m, NEW s
  PROVE  Held(m, s) = {<<p[1][1], p[2]>> : p \in {q \in Contents(m.index, s) : q[1][2] = MAIN}}
  <1> DEFINE P == {q \in Contents(m.index, s) : q[1][2] = MAIN}
  <1>1. Held(m, s) = {<<v.id[1], v.val>> : v \in {w \in AsOf(m.index, s) : w.id[2] = MAIN}}
    BY DEF Held
  <1>2. ASSUME NEW v \in AsOf(m.index, s), v.id[2] = MAIN
        PROVE  \E p \in P : <<v.id[1], v.val>> = <<p[1][1], p[2]>>
    <2>1. <<v.id, v.val>> \in P
      BY <1>2 DEF Contents
    <2> QED
      BY <2>1
  <1>3. ASSUME NEW p \in P
        PROVE  \E v \in AsOf(m.index, s) : v.id[2] = MAIN /\ <<v.id[1], v.val>> = <<p[1][1], p[2]>>
    BY DEF Contents
  <1> HIDE DEF P
  <1>4. Held(m, s) = {<<p[1][1], p[2]>> : p \in P}
    BY <1>1, <1>2, <1>3
  <1> QED
    BY <1>4 DEF P

\* A payload stored later does not replace the one of a row that ended before.
LEMMA WrittenAppend ==
  ASSUME NEW seq \in Seq(Stamps), NEW v \in AllRows, NEW w \in AllRows, Written(seq, v),
         w.id = v.id, w.from = v.from, w.val = v.val, w.to <= v.to,
         NEW x \in Stamps, w.to <= x.stamp
  PROVE  Written(seq, w) /\ Written(Append(seq, x), w)
  <1>1. PICK n \in DOMAIN seq :
          /\ seq[n] = [stamp |-> v.from, id |-> v.id[1], val |-> v.val]
          /\ \A k \in DOMAIN seq : k > n => seq[k].stamp >= v.to
    BY DEF Written
  <1>a. \A k \in DOMAIN seq : seq[k] \in Stamps
    OBVIOUS
  <1>b. v.to \in Nat /\ w.to \in Nat /\ x.stamp \in Nat /\ \A k \in DOMAIN seq : seq[k].stamp \in Nat
    BY <1>a DEF AllRows, Stamps
  <1>2. /\ Len(seq) \in Nat /\ DOMAIN seq = 1..Len(seq)
        /\ DOMAIN Append(seq, x) = 1..(Len(seq) + 1) /\ Append(seq, x)[Len(seq) + 1] = x
        /\ \A k \in 1..Len(seq) : Append(seq, x)[k] = seq[k]
    OBVIOUS
  <1>3. \A k \in DOMAIN seq : k > n => seq[k].stamp >= w.to
    BY <1>1, <1>b
  <1>4. Written(seq, w)
    BY <1>1, <1>3 DEF Written
  <1>5. \A k \in DOMAIN Append(seq, x) : k > n => Append(seq, x)[k].stamp >= w.to
    BY <1>2, <1>3, <1>b
  <1>6. /\ n \in DOMAIN Append(seq, x)
        /\ Append(seq, x)[n] = [stamp |-> w.from, id |-> w.id[1], val |-> w.val]
    BY <1>1, <1>2
  <1>7. Written(Append(seq, x), w)
    BY <1>5, <1>6 DEF Written
  <1> QED
    BY <1>4, <1>7

\* A row that starts is stored with its payload.
LEMMA WrittenNew ==
  ASSUME NEW seq \in Seq(Stamps), NEW w, NEW x \in Stamps,
         x = [stamp |-> w.from, id |-> w.id[1], val |-> w.val]
  PROVE  Written(Append(seq, x), w)
  <1>1. /\ Len(seq) \in Nat /\ DOMAIN Append(seq, x) = 1..(Len(seq) + 1)
        /\ Append(seq, x)[Len(seq) + 1] = x
    OBVIOUS
  <1>2. Len(seq) + 1 \in DOMAIN Append(seq, x) /\ ~ \E k \in DOMAIN Append(seq, x) : k > Len(seq) + 1
    BY <1>1
  <1> QED
    BY <1>1, <1>2 DEF Written

LEMMA MemFacts ==
  ASSUME NEW m, MemSound(m)
  PROVE  /\ IndexSound(m.index) /\ m.index.clock \in Nat
         /\ m.index.clock + 1 < Forever /\ MaxClock \in Nat
         /\ \A v \in m.index.rows :
              /\ Has(m.records, v.id) /\ Has(m.history, v.id) /\ Written(m.history[v.id], v)
              /\ v.to = Forever => Live(m, v.id) /\ m.records[v.id].val = v.val
              /\ ~Live(m, v.id) => v.to <= m.records[v.id].deleted_at
         /\ \A e \in DOMAIN m.records :
              /\ e \in Engines /\ e = <<e[1], e[2]>> /\ e[1] \in Ids /\ e[2] \in Bits
              /\ m.records[e] \in AllRecords /\ m.records[e].id = e[1] /\ m.records[e].val \in AllVals
              /\ m.history[e] \in Seq(Stamps)
              /\ Live(m, e) => \E v \in m.index.rows : v.id = e /\ v.to = Forever
  <1>1. IndexSound(m.index) /\ m.index.clock \in Nat /\ m.index.clock <= MaxClock
    BY RowFacts DEF MemSound
  <1>2. m.index.clock + 1 < Forever /\ MaxClock \in Nat
    BY <1>1, Bounds
  <1>3. ASSUME NEW v \in m.index.rows
        PROVE  /\ Has(m.records, v.id) /\ Has(m.history, v.id) /\ Written(m.history[v.id], v)
               /\ v.to = Forever => Live(m, v.id) /\ m.records[v.id].val = v.val
               /\ ~Live(m, v.id) => v.to <= m.records[v.id].deleted_at
    BY DEF MemSound, RowsRecorded, Has
  <1>4. ASSUME NEW e \in DOMAIN m.records
        PROVE  /\ e \in Engines /\ m.records[e] \in AllRecords /\ m.records[e].id = e[1]
               /\ m.history[e] \in Seq(Stamps)
               /\ Live(m, e) => \E v \in m.index.rows : v.id = e /\ v.to = Forever
    BY DEF MemSound, RowsRecorded
  <1>5. ASSUME NEW e \in DOMAIN m.records
        PROVE  e = <<e[1], e[2]>> /\ e[1] \in Ids /\ e[2] \in Bits /\ m.records[e].val \in AllVals
    BY <1>4 DEF Engines, AllRecords
  <1> QED
    BY <1>1, <1>2, <1>3, <1>4, <1>5

\* A row is added: main's earlier snapshots stay as they were, and the latest
\* has the row if it is main's.
LEMMA AddMem ==
  ASSUME NEW m, MemSound(m), m.index.clock < MaxClock, NEW id \in Ids, NEW val \in AllVals,
         NEW bit \in Bits, NEW branch \in Names \cup {"main"}
  PROVE  LET a == AddUnlocked(m, id, val, bit, branch) IN
         /\ MemSound(a) /\ a.index.clock = m.index.clock + 1
         /\ DOMAIN a.records = DOMAIN m.records \cup {<<id, bit>>}
         /\ a.records[<<id, bit>>] = Record(id, val, branch)
         /\ \A e \in DOMAIN m.records : e # <<id, bit>> => a.records[e] = m.records[e]
         /\ \A s \in Nat : s <= m.index.clock => Held(a, s) = Held(m, s)
         /\ bit = MAIN => Held(a, m.index.clock + 1)
                            = {p \in Held(m, m.index.clock) : p[1] # id} \cup {<<id, val>>}
         /\ bit # MAIN => Held(a, m.index.clock + 1) = Held(m, m.index.clock)
  <1> DEFINE a == AddUnlocked(m, id, val, bit, branch)
             e == <<id, bit>>
             row == Row(e, val, {bit})
             ts == m.index.clock + 1
             C == Commit(m.index, {}, {row})
             seq == IF Has(m.history, e) THEN m.history[e] ELSE <<>>
             x == [stamp |-> C.clock, id |-> id, val |-> val]
  <1>1. /\ IndexSound(m.index) /\ m.index.clock \in Nat /\ ts < Forever
        /\ ts \in Nat /\ ts # 0 /\ ts <= MaxClock /\ Forever \in Nat
        /\ ts = m.index.clock + 1
    BY MemFacts, Bounds
  <1>2. /\ a = [index |-> C, records |-> Put(m.records, e, Record(id, val, branch)),
                history |-> Put(m.history, e, Append(seq, x))]
        /\ a.index = C /\ a = [index |-> a.index, records |-> a.records, history |-> a.history]
    BY DEF AddUnlocked, Engine, Insert
  <1>3. e \in Engines /\ e[1] = id /\ e[2] = bit
    BY DEF Engines
  <1>4. /\ row \in NewRows /\ row.id = e /\ row.label = {row.id[2]} /\ row.val = val
        /\ {row} \in SUBSET NewRows /\ {} \cup RowIds({row}) = {e}
    BY <1>3 DEF NewRows, Row, RowIds
  <1>5. IndexSound(C) /\ C.clock = ts
    BY <1>1, <1>4, CommitSound, CommitHas
  <1>6. /\ DOMAIN a.records = DOMAIN m.records \cup {e}
        /\ a.records[e] = Record(id, val, branch)
        /\ \A d \in DOMAIN m.records : d # e => a.records[d] = m.records[d]
    BY <1>2 DEF Put
  <1>7. /\ DOMAIN a.history = DOMAIN m.history \cup {e}
        /\ a.history[e] = Append(seq, x)
        /\ \A d \in DOMAIN m.history : d # e => a.history[d] = m.history[d]
    BY <1>2 DEF Put
  <1>8. DOMAIN m.history = DOMAIN m.records
    BY DEF MemSound
  <1>9. x \in Stamps /\ seq \in Seq(Stamps) /\ x.stamp = ts
    <2>1. CASE Has(m.history, e)
      BY <2>1, <1>1, <1>5, <1>8, MemFacts DEF Stamps, Has
    <2>2. CASE ~Has(m.history, e)
      BY <2>2, <1>1, <1>5 DEF Stamps
    <2> QED
      BY <2>1, <2>2
  <1>10. Record(id, val, branch) \in AllRecords /\ Record(id, val, branch).id = id
    BY DEF AllRecords, Record
  <1>11. /\ Live(a, e) /\ a.records[e].val = val
         /\ \A d \in DOMAIN m.records : d # e => (Live(a, d) <=> Live(m, d))
    BY <1>6 DEF Live, Has, Record
  <1> HIDE DEF row, ts
  <1>12. NewRow(row, ts) \in C.rows /\ NewRow(row, ts).to = Forever /\ NewRow(row, ts).from = ts
         /\ NewRow(row, ts).id = e /\ NewRow(row, ts).val = val
    <2>1. NewRow(row, ts) \in C.rows
      BY <1>1, <1>4, CommitHas
    <2>2. ts \in Nat \ {0}
      BY <1>1
    <2> QED
      BY <2>1, <2>2, <1>4, StartedRow
  <1>13. ASSUME NEW r \in C.rows
         PROVE  \/ r \in m.index.rows /\ (r.id = e => r.to <= m.index.clock)
                \/ /\ r.id = e /\ r.to = ts
                   /\ \E v \in m.index.rows : v.id = e /\ v.to = Forever /\ v.from = r.from /\ v.val = r.val
                \/ r = NewRow(row, ts)
    <2>1. m.index.clock + 1 < Forever
      BY <1>1
    <2> DEFINE new == {row}
    <2>2. new \in SUBSET NewRows /\ r \in Commit(m.index, {}, new).rows
      BY <1>4
    <2> HIDE DEF new
    <2>3. \/ r \in m.index.rows /\ (r.id \in {} \cup RowIds(new) => r.to <= m.index.clock)
          \/ /\ r.id \in {} \cup RowIds(new) /\ r.to = m.index.clock + 1
             /\ \E v \in m.index.rows : v.id = r.id /\ v.to = Forever /\ v.from = r.from /\ v.val = r.val
          \/ \E n \in new : r = NewRow(n, m.index.clock + 1)
      BY <2>1, <2>2, <1>1, CommitRows
    <2>4. \A d : d \in {} \cup RowIds(new) <=> d = e
      BY <1>4 DEF new
    <2> HIDE DEF e
    <2> QED
      BY <2>3, <2>4, <1>1 DEF new
  <1>14. \A r \in C.rows : r \in AllRows /\ r.to \in Nat /\ r.id \in Engines
    BY <1>5, RowFacts
  <1> HIDE DEF a, row, C, seq, x, ts
  <1>15. ASSUME NEW r \in C.rows
         PROVE  /\ Has(a.records, r.id)
                /\ r.to = Forever => Live(a, r.id) /\ a.records[r.id].val = r.val
                /\ ~Live(a, r.id) => r.to <= a.records[r.id].deleted_at
    <2>1. CASE r.id = e
      <3>1. r.to = Forever => r = NewRow(row, ts)
        <4>1. m.index.clock < Forever
          BY <1>1
        <4> QED
          BY <2>1, <4>1, <1>1, <1>13
      <3> QED
        BY <2>1, <3>1, <1>6, <1>11, <1>12 DEF Has
    <2>2. CASE r.id # e
      <3>1. r \in m.index.rows
        BY <2>2, <1>13, <1>12
      <3> QED
        BY <2>2, <3>1, <1>6, <1>11, MemFacts DEF Has
    <2> QED
      BY <2>1, <2>2
  <1>16. ASSUME NEW d \in DOMAIN a.records, Live(a, d)
         PROVE  \E v \in C.rows : v.id = d /\ v.to = Forever
    <2>1. CASE d = e
      BY <2>1, <1>12
    <2>2. CASE d # e
      <3>1. d \in DOMAIN m.records /\ Live(m, d)
        BY <2>2, <1>16, <1>6, <1>11
      <3>2. PICK v \in m.index.rows : v.id = d /\ v.to = Forever
        BY <3>1, MemFacts
      <3>3. v \in C.rows
        BY <3>2, <2>2, <1>4, CommitHas DEF C
      <3> QED
        BY <3>2, <3>3
    <2> QED
      BY <2>1, <2>2
  <1>17. ASSUME NEW r \in C.rows
         PROVE  Written(a.history[r.id], r)
    <2>1. CASE r = NewRow(row, ts)
      <3>1. x = [stamp |-> r.from, id |-> r.id[1], val |-> r.val] /\ r.id = e
        BY <2>1, <1>3, <1>5, <1>12 DEF x
      <3>2. Written(Append(seq, x), r)
        BY <3>1, <1>9, WrittenNew
      <3> QED
        BY <3>1, <3>2, <1>7
    <2>2. ASSUME NEW v \in m.index.rows, v.id = e, r.id = e, v.from = r.from, v.val = r.val,
                 r.to <= v.to, r.to <= ts
          PROVE  Written(a.history[r.id], r)
      <3>1. Has(m.history, e) /\ Written(m.history[e], v)
        BY <2>2, MemFacts
      <3>2. seq = m.history[e] /\ v \in AllRows
        BY <3>1, <1>1, RowFacts DEF seq
      <3>3. Written(Append(seq, x), r)
        BY <3>1, <3>2, <2>2, <1>9, <1>14, WrittenAppend
      <3> QED
        BY <3>3, <2>2, <1>7
    <2>3. CASE r \in m.index.rows /\ r.id = e /\ r.to <= m.index.clock
      <3>1. r.to \in Nat /\ r.to <= ts
        BY <2>3, <1>1, <1>14 DEF ts
      <3> QED
        BY <3>1, <2>2, <2>3
    <2>4. CASE r.id = e /\ r.to = ts /\ \E v \in m.index.rows : v.id = e /\ v.to = Forever /\ v.from = r.from /\ v.val = r.val
      <3>1. PICK v \in m.index.rows : v.id = e /\ v.to = Forever /\ v.from = r.from /\ v.val = r.val
        BY <2>4
      <3> QED
        BY <3>1, <2>2, <2>4, <1>1
    <2>5. CASE r \in m.index.rows /\ r.id # e
      BY <2>5, <1>7, MemFacts DEF Has
    <2> QED
      BY <2>1, <2>3, <2>4, <2>5, <1>13
  <1>18. MemSound(a)
    <2>1. IndexSound(a.index) /\ a.index.clock <= MaxClock
      BY <1>1, <1>2, <1>5
    <2>2. DOMAIN a.records \subseteq Engines /\ DOMAIN a.history = DOMAIN a.records
      BY <1>3, <1>6, <1>7, <1>8 DEF MemSound
    <2>3. \A d \in DOMAIN a.records : a.records[d] \in AllRecords /\ a.records[d].id = d[1]
      BY <1>3, <1>6, <1>10, MemFacts
    <2>4. \A d \in DOMAIN a.history : a.history[d] \in Seq(Stamps)
      <3>1. Append(seq, x) \in Seq(Stamps)
        BY <1>9
      <3> QED
        BY <3>1, <1>7, <1>8, MemFacts
    <2>5. RowsRecorded(a)
      BY <1>2, <1>15, <1>16 DEF RowsRecorded
    <2>6. \A v \in a.index.rows : Written(a.history[v.id], v)
      BY <1>2, <1>17
    <2> QED
      BY <1>2, <2>1, <2>2, <2>3, <2>4, <2>5, <2>6 DEF MemSound
  <1>19. ASSUME NEW s \in Nat, s <= m.index.clock
         PROVE  Held(a, s) = Held(m, s)
    <2>1. Contents(a.index, s) = Contents(m.index, s)
      BY <1>1, <1>2, <1>4, <1>19, CommitPast DEF C, ts
    <2> QED
      BY <2>1, HeldIs
  <1>20. Held(a, ts) = IF bit = MAIN THEN {p \in Held(m, m.index.clock) : p[1] # id} \cup {<<id, val>>}
                       ELSE Held(m, m.index.clock)
    <2> DEFINE K == Contents(m.index, m.index.clock)
    <2>1. Contents(a.index, ts) = {p \in K : p[1] # e} \cup {<<e, val>>}
      <3>1. \A n \in {row} : n.label = {n.id[2]}
        BY <1>4
      <3>2. Contents(C, ts) = {p \in K : p[1] \notin {e}} \cup {<<n.id, n.val>> : n \in {row}}
        <4>1. m.index.clock + 1 < Forever
          BY <1>1
        <4>2. Contents(C, m.index.clock + 1) = {p \in K : p[1] \notin {} \cup RowIds({row})} \cup {<<n.id, n.val>> : n \in {row}}
          BY <4>1, <3>1, <1>1, <1>4, CommitNow DEF C
        <4> QED
          BY <4>2, <1>1, <1>4
      <3> QED
        BY <3>2, <1>2, <1>4
    <2>2. \A p \in K : p = <<p[1], p[2]>> /\ p[1] \in Engines
      BY <1>1, RowFacts DEF Contents, AsOf
    <2>3. \A d \in Engines : d = <<d[1], d[2]>>
      BY DEF Engines
    <2> HIDE DEF K
    <2>4. Held(a, ts) = {<<p[1][1], p[2]>> : p \in {q \in {p \in K : p[1] # e} \cup {<<e, val>>} : q[1][2] = MAIN}}
      BY <2>1, HeldIs
    <2>5. Held(m, m.index.clock) = {<<p[1][1], p[2]>> : p \in {q \in K : q[1][2] = MAIN}}
      BY HeldIs DEF K
    <2>6. CASE bit = MAIN
      <3>1. \A q \in K : q[1][2] = MAIN => (q[1] # e <=> q[1][1] # id)
        BY <2>2, <2>3, <2>6
      <3>2. e[1] = id /\ e[2] = MAIN /\ <<e, val>>[1] = e /\ <<e, val>>[2] = val
        BY <2>6
      <3> HIDE DEF e
      <3>3. Held(a, ts) = {<<p[1][1], p[2]>> : p \in {q \in K : q[1][2] = MAIN /\ q[1][1] # id}} \cup {<<id, val>>}
        BY <2>4, <3>1, <3>2
      <3> QED
        BY <2>5, <2>6, <3>3
    <2>7. CASE bit # MAIN
      <3>1. {q \in {p \in K : p[1] # e} \cup {<<e, val>>} : q[1][2] = MAIN} = {q \in K : q[1][2] = MAIN}
        BY <2>7, <1>3
      <3> QED
        BY <2>4, <2>5, <2>7, <3>1
    <2> QED
      BY <2>6, <2>7
  <1> QED
    BY <1>2, <1>5, <1>6, <1>18, <1>19, <1>20 DEF a, ts

\* The rows of an engine id end: main's earlier snapshots stay as they were, and
\* the latest has lost the id if the row was main's.
LEMMA DeleteMem ==
  ASSUME NEW m, MemSound(m), m.index.clock < MaxClock, NEW e \in DOMAIN m.records
  PROVE  LET a == DeleteEngine(m, e) IN
         /\ MemSound(a) /\ a.index.clock = m.index.clock + 1
         /\ DOMAIN a.records = DOMAIN m.records
         /\ \A d \in DOMAIN m.records : /\ a.records[d].val = m.records[d].val
                                        /\ a.records[d].branch = m.records[d].branch
                                        /\ Live(a, d) <=> Live(m, d) /\ d # e
         /\ \A s \in Nat : s <= m.index.clock => Held(a, s) = Held(m, s)
         /\ e[2] = MAIN => Held(a, m.index.clock + 1) = {p \in Held(m, m.index.clock) : p[1] # e[1]}
         /\ e[2] # MAIN => Held(a, m.index.clock + 1) = Held(m, m.index.clock)
  <1> DEFINE a == DeleteEngine(m, e)
             ts == m.index.clock + 1
             C == Commit(m.index, {e}, {})
             r0 == m.records[e]
  <1>1. /\ IndexSound(m.index) /\ m.index.clock \in Nat /\ ts < Forever /\ ts = m.index.clock + 1
        /\ ts \in Nat /\ ts # 0 /\ ts <= MaxClock /\ Forever \in Nat /\ ts # Nothing
    BY MemFacts, Bounds
  <1>2. C.clock = ts
    BY CommitHas
  <1>3. a = [m EXCEPT !.index = C, !.records[e].deleted_at = ts]
    BY <1>2 DEF DeleteEngine, Delete
  <1>4. /\ a.index = C /\ a.history = m.history
        /\ a = [index |-> a.index, records |-> a.records, history |-> a.history]
        /\ a.records = [m.records EXCEPT ![e].deleted_at = ts]
    <2>1. m = [index |-> m.index, records |-> m.records, history |-> m.history]
      BY DEF MemSound
    <2> HIDE DEF C, ts, a
    <2> QED
      BY <2>1, <1>3
  <1> HIDE DEF a
  <1>5. /\ DOMAIN a.records = DOMAIN m.records
        /\ a.records[e] = [r0 EXCEPT !.deleted_at = ts]
        /\ \A d \in DOMAIN m.records : d # e => a.records[d] = m.records[d]
    BY <1>4
  <1>6. r0 \in AllRecords
    BY MemFacts
  <1> HIDE DEF ts, C, r0
  <1>7. [r0 EXCEPT !.deleted_at = ts] \in AllRecords
    BY <1>1, <1>6 DEF AllRecords
  <1>8. /\ a.records[e].id = r0.id /\ a.records[e].val = r0.val /\ a.records[e].branch = r0.branch
        /\ a.records[e].deleted_at = ts
    BY <1>5, <1>6 DEF AllRecords
  <1>9. \A d \in DOMAIN m.records : /\ a.records[d].val = m.records[d].val
                                    /\ a.records[d].branch = m.records[d].branch
                                    /\ Live(a, d) <=> Live(m, d) /\ d # e
    <2>1. a.records[e].val = m.records[e].val /\ a.records[e].branch = m.records[e].branch
      BY <1>8 DEF r0
    <2> QED
      BY <2>1, <1>1, <1>5, <1>8 DEF Live, Has
  <1>10. {e} \cup RowIds({}) = {e} /\ {} \in SUBSET NewRows
    BY DEF RowIds
  <1>11. IndexSound(C)
    <2>1. m.index.clock + 1 < Forever
      BY <1>1
    <2> DEFINE none == {}
    <2>2. none \in SUBSET NewRows /\ \A n \in none : n.label = {n.id[2]}
      OBVIOUS
    <2>3. C = Commit(m.index, {e}, none)
      BY DEF C
    <2> HIDE DEF none
    <2> QED
      BY <2>1, <2>2, <2>3, <1>1, CommitSound
  <1>12. ASSUME NEW r \in C.rows
         PROVE  \/ r \in m.index.rows /\ (r.id = e => r.to <= m.index.clock)
                \/ /\ r.id = e /\ r.to = ts
                   /\ \E v \in m.index.rows : v.id = e /\ v.to = Forever /\ v.from = r.from /\ v.val = r.val
    <2>1. m.index.clock + 1 < Forever
      BY <1>1
    <2> DEFINE none == {}
    <2>2. none \in SUBSET NewRows /\ r \in Commit(m.index, {e}, none).rows
      BY DEF C
    <2>3. RowIds(none) = {} /\ \A n \in none : FALSE
      BY DEF RowIds
    <2> HIDE DEF none
    <2>4. \/ r \in m.index.rows /\ (r.id \in {e} \cup RowIds(none) => r.to <= m.index.clock)
          \/ /\ r.id \in {e} \cup RowIds(none) /\ r.to = m.index.clock + 1
             /\ \E v \in m.index.rows : v.id = r.id /\ v.to = Forever /\ v.from = r.from /\ v.val = r.val
          \/ \E n \in none : r = NewRow(n, m.index.clock + 1)
      BY <2>1, <2>2, <1>1, CommitRows
    <2> QED
      BY <2>3, <2>4, <1>1
  <1>13. \A r \in C.rows : r \in AllRows /\ r.to \in Nat /\ r.id \in Engines
    BY <1>11, RowFacts
  <1>14. ASSUME NEW r \in C.rows
         PROVE  /\ Has(a.records, r.id) /\ r.id \in DOMAIN m.records
                /\ r.to = Forever => Live(a, r.id) /\ a.records[r.id].val = r.val
                /\ ~Live(a, r.id) => r.to <= a.records[r.id].deleted_at
    <2>1. CASE r.id = e
      <3>1. r.to # Forever /\ r.to <= ts
        BY <2>1, <1>1, <1>12, <1>13
      <3> QED
        BY <2>1, <3>1, <1>5, <1>8 DEF Has
    <2>2. CASE r.id # e
      <3>1. r \in m.index.rows
        BY <2>2, <1>12
      <3> QED
        BY <2>2, <3>1, <1>5, <1>9, MemFacts DEF Has
    <2> QED
      BY <2>1, <2>2
  <1>15. ASSUME NEW d \in DOMAIN a.records, Live(a, d)
         PROVE  \E v \in C.rows : v.id = d /\ v.to = Forever
    <2>1. d \in DOMAIN m.records /\ Live(m, d) /\ d # e
      BY <1>5, <1>9, <1>15
    <2>2. PICK v \in m.index.rows : v.id = d /\ v.to = Forever
      BY <2>1, MemFacts
    <2>3. v \in C.rows
      BY <2>1, <2>2, <1>10, CommitHas DEF C
    <2> QED
      BY <2>2, <2>3
  <1>16. ASSUME NEW r \in C.rows
         PROVE  Written(a.history[r.id], r)
    <2>1. CASE r \in m.index.rows
      BY <2>1, <1>4, MemFacts
    <2>2. ASSUME NEW v \in m.index.rows, v.id = e, r.id = e, v.to = Forever, v.from = r.from, v.val = r.val,
                 r.to = ts
          PROVE  Written(a.history[r.id], r)
      <3>1. /\ v \in AllRows /\ r \in AllRows /\ Written(m.history[e], v) /\ m.history[e] \in Seq(Stamps)
            /\ r.to <= v.to
        BY <2>2, <1>1, <1>13, MemFacts, RowFacts
      <3>2. PICK n \in DOMAIN m.history[e] :
              /\ m.history[e][n] = [stamp |-> v.from, id |-> v.id[1], val |-> v.val]
              /\ \A k \in DOMAIN m.history[e] : k > n => m.history[e][k].stamp >= v.to
        BY <3>1 DEF Written
      <3>a. \A k \in DOMAIN m.history[e] : m.history[e][k] \in Stamps
        BY <3>1
      <3>b. v.to \in Nat /\ r.to \in Nat /\ \A k \in DOMAIN m.history[e] : m.history[e][k].stamp \in Nat
        BY <3>1, <3>a DEF Stamps, AllRows
      <3>3. \A k \in DOMAIN m.history[e] : k > n => m.history[e][k].stamp >= r.to
        BY <3>1, <3>2, <3>b
      <3> QED
        BY <2>2, <3>2, <3>3, <1>4 DEF Written
    <2> QED
      BY <2>1, <2>2, <1>12
  <1>17. MemSound(a)
    <2>1. IndexSound(a.index) /\ a.index.clock <= MaxClock
      BY <1>1, <1>2, <1>4, <1>11
    <2>2. DOMAIN a.records \subseteq Engines /\ DOMAIN a.history = DOMAIN a.records
      BY <1>4, <1>5 DEF MemSound
    <2>3. \A d \in DOMAIN a.records : a.records[d] \in AllRecords /\ a.records[d].id = d[1]
      <3>1. r0.id = e[1]
        BY MemFacts DEF r0
      <3>2. a.records[e] \in AllRecords /\ a.records[e].id = e[1]
        BY <3>1, <1>5, <1>7, <1>8
      <3>3. \A d \in DOMAIN m.records : m.records[d] \in AllRecords /\ m.records[d].id = d[1]
        BY MemFacts
      <3> QED
        BY <3>2, <3>3, <1>5
    <2>4. \A d \in DOMAIN a.history : a.history[d] \in Seq(Stamps)
      BY <1>4 DEF MemSound
    <2>5. RowsRecorded(a)
      BY <1>4, <1>14, <1>15 DEF RowsRecorded
    <2>6. \A v \in a.index.rows : Written(a.history[v.id], v)
      BY <1>4, <1>16
    <2> QED
      BY <1>4, <2>1, <2>2, <2>3, <2>4, <2>5, <2>6 DEF MemSound
  <1>18. ASSUME NEW s \in Nat, s <= m.index.clock
         PROVE  Held(a, s) = Held(m, s)
    <2>1. m.index.clock + 1 < Forever
      BY <1>1
    <2>2. Contents(a.index, s) = Contents(m.index, s)
      BY <2>1, <1>1, <1>4, <1>10, <1>18, CommitPast DEF C
    <2> QED
      BY <2>2, HeldIs
  <1>19. Held(a, ts) = IF e[2] = MAIN THEN {p \in Held(m, m.index.clock) : p[1] # e[1]}
                       ELSE Held(m, m.index.clock)
    <2> DEFINE K == Contents(m.index, m.index.clock)
    <2>1. Contents(a.index, ts) = {p \in K : p[1] # e}
      <3>1. m.index.clock + 1 < Forever
        BY <1>1
      <3> DEFINE none == {}
      <3>2. none \in SUBSET NewRows /\ \A n \in none : n.label = {n.id[2]}
        OBVIOUS
      <3>3. C = Commit(m.index, {e}, none)
        BY DEF C
      <3>4. RowIds(none) = {} /\ none = {}
        BY DEF RowIds
      <3> HIDE DEF none
      <3>5. Contents(C, m.index.clock + 1) = {p \in K : p[1] \notin {e} \cup RowIds(none)} \cup {<<n.id, n.val>> : n \in none}
        BY <3>1, <3>2, <3>3, <1>1, CommitNow
      <3> QED
        BY <3>4, <3>5, <1>1, <1>4
    <2>2. \A p \in K : p = <<p[1], p[2]>> /\ p[1] \in Engines
      BY <1>1, RowFacts DEF Contents, AsOf
    <2>3. (\A d \in Engines : d = <<d[1], d[2]>>) /\ e \in Engines
      BY MemFacts DEF Engines
    <2> HIDE DEF K
    <2>4. Held(a, ts) = {<<p[1][1], p[2]>> : p \in {q \in {p \in K : p[1] # e} : q[1][2] = MAIN}}
      BY <2>1, HeldIs
    <2>5. Held(m, m.index.clock) = {<<p[1][1], p[2]>> : p \in {q \in K : q[1][2] = MAIN}}
      BY HeldIs DEF K
    <2>6. CASE e[2] = MAIN
      <3>1. \A q \in K : q[1][2] = MAIN => (q[1] # e <=> q[1][1] # e[1])
        BY <2>2, <2>3, <2>6
      <3>2. Held(a, ts) = {<<p[1][1], p[2]>> : p \in {q \in K : q[1][2] = MAIN /\ q[1][1] # e[1]}}
        BY <2>4, <3>1
      <3> QED
        BY <2>5, <2>6, <3>2
    <2>7. CASE e[2] # MAIN
      <3>1. {q \in {p \in K : p[1] # e} : q[1][2] = MAIN} = {q \in K : q[1][2] = MAIN}
        BY <2>7
      <3> QED
        BY <2>4, <2>5, <2>7, <3>1
    <2> QED
      BY <2>6, <2>7
  <1> QED
    BY <1>2, <1>4, <1>5, <1>9, <1>17, <1>18, <1>19 DEF a, ts

\* What a purge takes away, and what it leaves.
Ended(m, h) == {e \in DOMAIN m.records : ~Live(m, e) /\ m.records[e].deleted_at < h}
Purged(m, h) == [index |-> Vacuum(m.index, h), records |-> Without(m.records, Ended(m, h)),
                 history |-> Without(m.history, Ended(m, h))]

\* A vacuum takes away rows that no snapshot from the horizon on holds, and with
\* them the records that ended before it: every row of such a record goes.
LEMMA VacuumMem ==
  ASSUME NEW m, MemSound(m), NEW h \in Nat, h <= m.index.clock + 1
  PROVE  LET a == Purged(m, h)
             gone == Ended(m, h) IN
         /\ MemSound(a) /\ a.index.clock = m.index.clock
         /\ DOMAIN a.records = DOMAIN m.records \ gone
         /\ \A e \in DOMAIN a.records : a.records[e] = m.records[e]
         /\ \A e : Live(a, e) <=> Live(m, e)
         /\ \A s \in Nat : s + 1 >= h => Held(a, s) = Held(m, s)
  <1> DEFINE a == Purged(m, h)
             gone == Ended(m, h)
  <1>a. a = [index |-> Vacuum(m.index, h), records |-> Without(m.records, gone),
             history |-> Without(m.history, gone)]
    BY DEF Purged
  <1>b. gone = {e \in DOMAIN m.records : ~Live(m, e) /\ m.records[e].deleted_at < h}
    BY DEF Ended
  <1> HIDE DEF a, gone
  <1>1. IndexSound(m.index) /\ m.index.clock \in Nat /\ m.index.clock + 1 < Forever /\ Forever \in Nat
    BY MemFacts, Bounds
  <1>2. /\ IndexSound(Vacuum(m.index, h)) /\ Vacuum(m.index, h).clock = m.index.clock
        /\ Vacuum(m.index, h).rows = {v \in m.index.rows : v.to >= h}
        /\ \A s \in Nat : s + 1 >= h => AsOf(Vacuum(m.index, h), s) = AsOf(m.index, s)
    BY <1>1, VacuumSound
  <1>3. /\ a.index = Vacuum(m.index, h) /\ a = [index |-> a.index, records |-> a.records, history |-> a.history]
        /\ DOMAIN a.records = DOMAIN m.records \ gone /\ DOMAIN a.history = DOMAIN m.history \ gone
        /\ \A e \in DOMAIN a.records : a.records[e] = m.records[e]
        /\ \A e \in DOMAIN a.history : a.history[e] = m.history[e]
    BY <1>a DEF Without
  <1>4. \A e : Live(a, e) <=> Live(m, e)
    BY <1>3, <1>b DEF Live, Has
  <1>5. DOMAIN m.history = DOMAIN m.records
    BY DEF MemSound
  <1>6. ASSUME NEW v \in a.index.rows
        PROVE  v \in m.index.rows /\ v.id \notin gone /\ v.id \in DOMAIN a.records /\ v.id \in DOMAIN a.history
    <2>1. v \in m.index.rows /\ v.to >= h /\ v.to \in Nat
      BY <1>1, <1>2, <1>3, RowFacts
    <2>2. v.id \in DOMAIN m.records /\ (~Live(m, v.id) => v.to <= m.records[v.id].deleted_at)
      BY <2>1, MemFacts DEF Has
    <2>3. ~Live(m, v.id) => m.records[v.id].deleted_at \in Nat
      <3>1. m.records[v.id].deleted_at \in Nat \cup {Nothing}
        BY <2>2, MemFacts DEF AllRecords
      <3> QED
        BY <3>1, <2>2 DEF Live, Has
    <2> QED
      BY <2>1, <2>2, <2>3, <1>3, <1>5, <1>b
  <1>7. RowsRecorded(a)
    <2>1. ASSUME NEW v \in a.index.rows
          PROVE  /\ Has(a.records, v.id)
                 /\ v.to = Forever => Live(a, v.id) /\ a.records[v.id].val = v.val
                 /\ ~Live(a, v.id) => v.to <= a.records[v.id].deleted_at
      <3>1. v.id \in DOMAIN a.records /\ a.records[v.id] = m.records[v.id] /\ v \in m.index.rows
        BY <1>3, <1>6
      <3>2. /\ v.to = Forever => Live(m, v.id) /\ m.records[v.id].val = v.val
            /\ ~Live(m, v.id) => v.to <= m.records[v.id].deleted_at
        BY <3>1, MemFacts
      <3> QED
        BY <3>1, <3>2, <1>4 DEF Has
    <2>2. ASSUME NEW e \in DOMAIN a.records, Live(a, e)
          PROVE  \E v \in a.index.rows : v.id = e /\ v.to = Forever
      <3>1. PICK v \in m.index.rows : v.id = e /\ v.to = Forever
        BY <2>2, <1>3, <1>4, MemFacts
      <3>2. v \in a.index.rows
        BY <3>1, <1>1, <1>2, <1>3
      <3> QED
        BY <3>1, <3>2
    <2> QED
      BY <2>1, <2>2 DEF RowsRecorded
  <1>8. \A v \in a.index.rows : Written(a.history[v.id], v)
    BY <1>3, <1>6, MemFacts
  <1>9. MemSound(a)
    <2>1. IndexSound(a.index) /\ a.index.clock <= MaxClock
      BY <1>2, <1>3 DEF MemSound
    <2>2. DOMAIN a.records \subseteq Engines /\ DOMAIN a.history = DOMAIN a.records
      BY <1>3, <1>5 DEF MemSound
    <2>3. \A e \in DOMAIN a.records : a.records[e] \in AllRecords /\ a.records[e].id = e[1]
      BY <1>3, MemFacts
    <2>4. \A e \in DOMAIN a.history : a.history[e] \in Seq(Stamps)
      BY <1>3, <1>5, MemFacts
    <2> QED
      BY <1>3, <1>7, <1>8, <2>1, <2>2, <2>3, <2>4 DEF MemSound
  <1>10. \A s \in Nat : s + 1 >= h => Held(a, s) = Held(m, s)
    BY <1>2, <1>3 DEF Held
  <1> QED
    BY <1>2, <1>3, <1>4, <1>9, <1>10 DEF a, gone

\* A row of a branch becomes one of main's: a deletion and an insertion.
LEMMA PromoteMem ==
  ASSUME NEW m, MemSound(m), m.index.clock + 1 < MaxClock, NEW e \in DOMAIN m.records, e[2] # MAIN,
         Live(m, e)
  PROVE  LET a == PromoteOne(m, e)
             f == <<e[1], MAIN>> IN
         /\ MemSound(a) /\ a.index.clock = m.index.clock + 2
         /\ DOMAIN a.records = DOMAIN m.records \cup {f}
         /\ Live(a, f) /\ ~Live(a, e) /\ f # e /\ a.records[f].branch = "main"
         /\ \A d \in DOMAIN m.records :
              d # f => /\ a.records[d].val = m.records[d].val
                       /\ a.records[d].branch = m.records[d].branch
                       /\ Live(a, d) <=> Live(m, d) /\ d # e
         /\ \A s \in Nat : s <= m.index.clock => Held(a, s) = Held(m, s)
         /\ Held(a, m.index.clock + 2)
              = {p \in Held(m, m.index.clock) : p[1] # e[1]} \cup {<<e[1], m.records[e].val>>}
  <1> DEFINE b == DeleteEngine(m, e)
             id == m.records[e].id
             val == m.records[e].val
             f == <<e[1], MAIN>>
             a == AddUnlocked(b, id, val, MAIN, "main")
             c == m.index.clock
  <1>1. /\ c \in Nat /\ c < MaxClock /\ c + 1 < MaxClock /\ c = m.index.clock
        /\ id = e[1] /\ id \in Ids /\ val \in AllVals /\ MAIN \in Bits
        /\ e = <<e[1], e[2]>> /\ e # f
    <2>1. c \in Nat /\ MaxClock \in Nat /\ MaxBranches \in Nat
      BY MemFacts, Bounds
    <2>2. id = e[1] /\ e[1] \in Ids /\ val \in AllVals /\ e = <<e[1], e[2]>>
      BY MemFacts
    <2> QED
      BY <2>1, <2>2 DEF Bits, MAIN
  <1>2. /\ MemSound(b) /\ b.index.clock = c + 1
        /\ DOMAIN b.records = DOMAIN m.records
        /\ \A d \in DOMAIN m.records : /\ b.records[d].val = m.records[d].val
                                       /\ b.records[d].branch = m.records[d].branch
                                       /\ Live(b, d) <=> Live(m, d) /\ d # e
        /\ \A s \in Nat : s <= c => Held(b, s) = Held(m, s)
        /\ Held(b, c + 1) = Held(m, c)
    BY <1>1, DeleteMem
  <1> HIDE DEF b, id, val, c
  <1>3. /\ MemSound(a) /\ a.index.clock = c + 2
        /\ DOMAIN a.records = DOMAIN b.records \cup {f}
        /\ a.records[f] = Record(id, val, "main")
        /\ \A d \in DOMAIN b.records : d # f => a.records[d] = b.records[d]
        /\ \A s \in Nat : s <= c + 1 => Held(a, s) = Held(b, s)
        /\ Held(a, c + 2) = {p \in Held(b, c + 1) : p[1] # id} \cup {<<id, val>>}
    <2>1. MemSound(b) /\ b.index.clock < MaxClock /\ b.index.clock = c + 1 /\ c + 1 \in Nat /\ (c + 1) + 1 = c + 2
      BY <1>1, <1>2
    <2>2. /\ MemSound(a) /\ a.index.clock = b.index.clock + 1
          /\ DOMAIN a.records = DOMAIN b.records \cup {<<id, MAIN>>}
          /\ a.records[<<id, MAIN>>] = Record(id, val, "main")
          /\ \A d \in DOMAIN b.records : d # <<id, MAIN>> => a.records[d] = b.records[d]
          /\ \A s \in Nat : s <= b.index.clock => Held(a, s) = Held(b, s)
          /\ Held(a, b.index.clock + 1) = {p \in Held(b, b.index.clock) : p[1] # id} \cup {<<id, val>>}
      <3>1. "main" \in Names \cup {"main"} /\ id \in Ids /\ val \in AllVals /\ MAIN \in Bits
        BY <1>1
      <3> QED
        BY <2>1, <3>1, AddMem
    <2> QED
      BY <1>1, <2>1, <2>2
  <1>4. a = PromoteOne(m, e)
    BY DEF PromoteOne, a, b, id, val
  <1> HIDE DEF a, f
  <1>5. Live(a, f) /\ a.records[f].branch = "main"
    BY <1>3 DEF Live, Has, Record
  <1>6. ASSUME NEW d \in DOMAIN m.records, d # f
        PROVE  /\ a.records[d].val = m.records[d].val
               /\ a.records[d].branch = m.records[d].branch
               /\ Live(a, d) <=> Live(m, d) /\ d # e
    <2>1. d \in DOMAIN b.records /\ d \in DOMAIN a.records /\ a.records[d] = b.records[d]
      BY <1>2, <1>3, <1>6
    <2>2. Live(a, d) <=> Live(b, d)
      BY <2>1 DEF Live, Has
    <2> QED
      BY <1>2, <2>1, <2>2
  <1>7. \A s \in Nat : s <= c => Held(a, s) = Held(m, s)
    <2>1. \A s \in Nat : s <= c => s <= c + 1
      BY <1>1
    <2> QED
      BY <1>2, <1>3, <2>1
  <1>8. Held(a, c + 2) = {p \in Held(m, c) : p[1] # e[1]} \cup {<<e[1], val>>}
    BY <1>1, <1>2, <1>3
  <1>9. ~Live(a, e)
    BY <1>1, <1>6
  <1> QED
    BY <1>1, <1>2, <1>3, <1>4, <1>5, <1>6, <1>7, <1>8, <1>9 DEF f, c, val

-----------------------------------------------------------------------------
(* The invariant.                                                          *)

LEMMA EmptyMem ==
  ASSUME NEW m, m = [index |-> EmptyIndex, records |-> <<>>, history |-> <<>>]
  PROVE  MemSound(m) /\ m.index.clock = 0 /\ DOMAIN m.records = {} /\ Held(m, 0) = {}
  <1>1. m.index = EmptyIndex /\ m.records = <<>> /\ m.history = <<>>
    OBVIOUS
  <1>2. DOMAIN m.records = {} /\ DOMAIN m.history = {}
    BY <1>1
  <1>3. m.index.rows = {} /\ m.index.clock = 0
    BY <1>1 DEF EmptyIndex
  <1>4. IndexSound(m.index) /\ m.index.clock <= MaxClock
    BY <1>1, Bounds DEF IndexSound, EmptyIndex
  <1>5. Held(m, 0) = {}
    BY <1>3 DEF Held, AsOf
  <1> QED
    BY <1>2, <1>3, <1>4, <1>5 DEF MemSound, RowsRecorded

LEMMA LabelsInitially ==
  ASSUME Init
  PROVE  LabelsInv
  <1>1. MemSound(mem) /\ Clock = 0 /\ DOMAIN mem.records = {} /\ Held(mem, 0) = {}
    BY EmptyMem DEF Init, Clock
  <1>2. horizon \in 0..Clock + 1
    BY <1>1 DEF Init
  <1>3. views \in Seq(AllViews) /\ DOMAIN views = {} /\ DOMAIN branches = {}
    BY DEF Init
  <1>4. BitsApart
    BY <1>3 DEF BitsApart, Init
  <1>5. Opened
    BY <1>3 DEF Opened
  <1>6. DOMAIN timeline = {0} /\ timeline[0] = {}
    BY DEF Init, Put
  <1>7. Timed
    BY <1>1, <1>6 DEF Timed
  <1>8. Free /\ task = [name |-> task.name, promote |-> task.promote, drop |-> task.drop, erase |-> task.erase,
                        shows |-> task.shows]
    BY DEF Init, Free, Idle
  <1> QED
    BY <1>1, <1>2, <1>3, <1>4, <1>5, <1>7, <1>8 DEF LabelsInv

\* A branch's rows are the live ones with its bit.
LEMMA OwnRows ==
  ASSUME LabelsInv, NEW name \in DOMAIN branches
  PROVE  /\ name \in Names /\ name # "main" /\ branches[name] \in DOMAIN views
         /\ Open(name) \in AllViews /\ Open(name).name = name
         /\ Open(name).bit \in Bits /\ Open(name).bit # MAIN /\ Open(name).bit \in 1..MaxBranches
         /\ IdsOn(mem, Open(name)) = OwnLive(mem, Open(name).bit)
  <1>1. name \in Names /\ name # "main" /\ branches[name] \in DOMAIN views /\ Open(name).name = name
    BY Bounds DEF LabelsInv, Opened
  <1>2. Open(name) \in AllViews
    BY <1>1 DEF LabelsInv, Open
  <1>3. Open(name).bit \in Bits /\ Open(name).bit # MAIN /\ Open(name).bit \in 1..MaxBranches
    BY <1>2, Bounds DEF AllViews, Bits, MAIN
  <1>4. ASSUME NEW e \in DOMAIN mem.records, Live(mem, e)
        PROVE  mem.records[e].branch = name <=> e[2] = Open(name).bit
    <2>1. \/ e[2] = MAIN /\ mem.records[e].branch = "main"
          \/ \E other \in DOMAIN branches : mem.records[e].branch = other /\ Open(other).bit = e[2]
      BY <1>4 DEF LabelsInv, Belongs
    <2>2. \A other \in DOMAIN branches : Open(other).bit = Open(name).bit => other = name
      BY DEF LabelsInv, BitsApart
    <2> QED
      BY <1>1, <1>3, <2>1, <2>2
  <1> QED
    BY <1>1, <1>2, <1>3, <1>4 DEF IdsOn, OwnLive

\* Outside a merge or discard, main holds what the timeline says.
LEMMA NowHeld ==
  ASSUME LabelsInv, Free
  PROVE  Clock \in DOMAIN timeline /\ Now = Held(mem, Clock)
  <1>1. Clock \in DOMAIN timeline /\ Clock + 1 >= horizon
    BY MemFacts DEF LabelsInv, Timed, Clock
  <1> QED
    BY <1>1 DEF LabelsInv, Timed, Now

\* What a view holds depends on the live records with its bit.
LEMMA HoldsStill ==
  ASSUME NEW m, NEW a, NEW view, ViewHolds(m, view),
         \A id \in Ids : LET e == Engine(id, view.bit) IN
           (Live(a, e) <=> Live(m, e)) /\ (Live(m, e) => a.records[e].val = m.records[e].val)
  PROVE  ViewHolds(a, view)
  BY DEF ViewHolds

\* A call that ends at the next timestamp with main showing what the index holds.
LEMMA TimedNext ==
  ASSUME Timed, Clock \in Nat, NEW a, NEW now, NEW t, t \in Nat, t > Clock, a.index.clock = t,
         Held(a, t) = now, \A s \in Nat : s <= Clock => Held(a, s) = Held(mem, s),
         NEW line, line = Put(timeline, t, now)
  PROVE  /\ t \in DOMAIN line
         /\ \A s \in DOMAIN line : s \in 0..t /\ (s + 1 >= horizon => Held(a, s) = line[s])
         /\ \A s \in DOMAIN timeline : s \in DOMAIN line /\ line[s] = timeline[s]
  <1>1. DOMAIN line = DOMAIN timeline \cup {t} /\ line[t] = now
        /\ \A s \in DOMAIN timeline : s # t => line[s] = timeline[s]
    BY DEF Put
  <1>2. ASSUME NEW s \in DOMAIN timeline
        PROVE  s \in Nat /\ s <= Clock /\ s # t /\ (s + 1 >= horizon => Held(mem, s) = timeline[s])
    BY DEF Timed
  <1> QED
    BY <1>1, <1>2

\* A step of main alone: no row of a branch changes.
LEMMA MainStep ==
  ASSUME LabelsInv, Free, MemSound(mem'), Clock' = Clock + 1,
         NEW now, Main(now), Held(mem', Clock + 1) = now,
         \A s \in Nat : s <= Clock => Held(mem', s) = Held(mem, s),
         \A e \in Engines : e[2] # MAIN =>
           /\ Live(mem', e) <=> Live(mem, e)
           /\ Live(mem, e) => /\ mem'.records[e].val = mem.records[e].val
                              /\ mem'.records[e].branch = mem.records[e].branch,
         \A e \in DOMAIN mem'.records : Live(mem', e) /\ e[2] = MAIN => mem'.records[e].branch = "main",
         UNCHANGED <<branches, views, used, task, horizon>>
  PROVE  LabelsInv'
  <1>1. MemSound(mem) /\ Clock \in Nat /\ horizon \in 0..Clock + 1 /\ Timed
    BY MemFacts DEF LabelsInv, Clock
  <1>2. Clock + 1 \in Nat /\ Clock + 1 > Clock /\ mem'.index.clock = Clock + 1
    BY <1>1 DEF Clock
  <1>3. timeline' = Put(timeline, Clock + 1, now)
    BY <1>2 DEF Main
  <1>4. /\ Clock + 1 \in DOMAIN timeline'
        /\ \A s \in DOMAIN timeline' : s \in 0..Clock + 1 /\ (s + 1 >= horizon => Held(mem', s) = timeline'[s])
        /\ \A s \in DOMAIN timeline : s \in DOMAIN timeline' /\ timeline'[s] = timeline[s]
    <2> DEFINE a == mem'
               line == timeline'
               t == Clock + 1
    <2>1. /\ t \in Nat /\ t > Clock /\ a.index.clock = t /\ Held(a, t) = now
          /\ line = Put(timeline, t, now) /\ \A s \in Nat : s <= Clock => Held(a, s) = Held(mem, s)
      BY <1>2, <1>3
    <2> HIDE DEF a, line, t
    <2>2. /\ t \in DOMAIN line
          /\ \A s \in DOMAIN line : s \in 0..t /\ (s + 1 >= horizon => Held(a, s) = line[s])
          /\ \A s \in DOMAIN timeline : s \in DOMAIN line /\ line[s] = timeline[s]
      BY <1>1, <2>1, TimedNext
    <2> QED
      BY <2>2 DEF a, line, t
  <1>5. Timed'
    BY <1>2, <1>4 DEF Timed, Clock
  <1>6. (horizon \in 0..Clock + 1)'
    BY <1>1, <1>2 DEF Clock
  <1>7. (views \in Seq(AllViews) /\ \A n \in DOMAIN views : Has(timeline, views[n].base))'
    BY <1>4 DEF LabelsInv, Has
  <1>8. BitsApart'
    BY DEF LabelsInv, BitsApart, Open
  <1>9. Opened'
    <2>1. ASSUME NEW name \in DOMAIN branches
          PROVE  ViewHolds(mem', Open(name))
      <3>1. ViewHolds(mem, Open(name)) /\ Open(name).bit \in Bits /\ Open(name).bit # MAIN
        BY OwnRows DEF LabelsInv, Opened
      <3>2. ASSUME NEW id \in Ids
            PROVE  LET e == Engine(id, Open(name).bit) IN
                     /\ Live(mem', e) <=> Live(mem, e)
                     /\ Live(mem, e) => mem'.records[e].val = mem.records[e].val
        BY <3>1 DEF Engine, Engines
      <3> QED
        BY <3>1, <3>2, HoldsStill
    <2> QED
      BY <2>1 DEF LabelsInv, Opened, Open, Free
  <1>10. (\A e \in DOMAIN mem.records : Live(mem, e) => Belongs(mem, e))'
    <2>1. ASSUME NEW e \in DOMAIN mem'.records, Live(mem', e)
          PROVE  Belongs(mem, e)'
      <3>1. e \in Engines
        BY MemFacts
      <3>2. CASE e[2] = MAIN
        BY <2>1, <3>2 DEF Belongs
      <3>3. CASE e[2] # MAIN
        <4>1. Live(mem, e) /\ e \in DOMAIN mem.records /\ mem'.records[e].branch = mem.records[e].branch
          BY <2>1, <3>1, <3>3 DEF Live, Has
        <4>2. Belongs(mem, e)
          BY <4>1 DEF LabelsInv
        <4> QED
          BY <3>3, <4>1, <4>2 DEF Belongs, Open
      <3> QED
        BY <3>2, <3>3
    <2> QED
      BY <2>1 DEF Belongs, Open
  <1>11. (task = [name |-> task.name, promote |-> task.promote, drop |-> task.drop, erase |-> task.erase,
                  shows |-> task.shows])' /\ Free'
    BY DEF LabelsInv, Free
  <1> QED
    BY <1>5, <1>6, <1>7, <1>8, <1>9, <1>10, <1>11 DEF LabelsInv

LEMMA MainAddStep ==
  ASSUME LabelsInv, NEW id \in Ids, NEW v \in MainVals, MainAdd(id, v)
  PROVE  LabelsInv'
  <1> DEFINE e == <<id, MAIN>>
             now == With(id, v)
  <1>1. /\ MemSound(mem) /\ Free /\ mem.index.clock < MaxClock /\ v \in AllVals /\ MAIN \in Bits
        /\ mem' = AddUnlocked(mem, id, v, MAIN, "main") /\ "main" \in Names \cup {"main"}
        /\ Main(now) /\ UNCHANGED <<branches, views, used, task, horizon>>
    BY Bounds DEF LabelsInv, MainAdd, AllVals, Bits, MAIN, Clock
  <1>2. LET a == AddUnlocked(mem, id, v, MAIN, "main") IN
        /\ MemSound(a) /\ a.index.clock = mem.index.clock + 1
        /\ DOMAIN a.records = DOMAIN mem.records \cup {e}
        /\ a.records[e] = Record(id, v, "main")
        /\ \A d \in DOMAIN mem.records : d # e => a.records[d] = mem.records[d]
        /\ \A s \in Nat : s <= mem.index.clock => Held(a, s) = Held(mem, s)
        /\ Held(a, mem.index.clock + 1) = {p \in Held(mem, mem.index.clock) : p[1] # id} \cup {<<id, v>>}
    BY <1>1, AddMem
  <1>3. /\ MemSound(mem') /\ Clock' = Clock + 1
        /\ DOMAIN mem'.records = DOMAIN mem.records \cup {e}
        /\ mem'.records[e] = Record(id, v, "main")
        /\ \A d \in DOMAIN mem.records : d # e => mem'.records[d] = mem.records[d]
        /\ \A s \in Nat : s <= Clock => Held(mem', s) = Held(mem, s)
        /\ Held(mem', Clock + 1) = {p \in Held(mem, Clock) : p[1] # id} \cup {<<id, v>>}
    BY <1>1, <1>2 DEF Clock
  <1>4. Held(mem', Clock + 1) = now
    BY <1>1, <1>3, NowHeld DEF With
  <1>5. \A d \in Engines : d[2] # MAIN =>
          /\ Live(mem', d) <=> Live(mem, d)
          /\ Live(mem, d) => /\ mem'.records[d].val = mem.records[d].val
                             /\ mem'.records[d].branch = mem.records[d].branch
    BY <1>3 DEF Live, Has
  <1>6. \A d \in DOMAIN mem'.records : Live(mem', d) /\ d[2] = MAIN => mem'.records[d].branch = "main"
    <2>1. \A d \in DOMAIN mem.records : Live(mem, d) /\ d[2] = MAIN => mem.records[d].branch = "main"
      BY OwnRows DEF LabelsInv, Belongs
    <2> QED
      BY <1>3, <2>1 DEF Record, Live, Has
  <1> HIDE DEF now
  <1> QED
    BY <1>1, <1>3, <1>4, <1>5, <1>6, MainStep

LEMMA MainDeleteStep ==
  ASSUME LabelsInv, NEW id \in Ids, MainDelete(id)
  PROVE  LabelsInv'
  <1> DEFINE e == <<id, MAIN>>
             now == Less({id})
  <1>1. /\ MemSound(mem) /\ Free /\ mem.index.clock < MaxClock
        /\ mem' = DeleteEngine(mem, e)
        /\ Main(now) /\ UNCHANGED <<branches, views, used, task, horizon>>
    BY DEF LabelsInv, MainDelete, Clock, Engine
  <1>2. e \in DOMAIN mem.records
    <2>1. PICK w \in mem.index.rows : w.id = e
      BY DEF MainDelete, OpenIds, OpenRows, Engine
    <2> QED
      BY <1>1, <2>1, MemFacts DEF Has
  <1>3. LET a == DeleteEngine(mem, e) IN
        /\ MemSound(a) /\ a.index.clock = mem.index.clock + 1
        /\ DOMAIN a.records = DOMAIN mem.records
        /\ \A d \in DOMAIN mem.records : /\ a.records[d].val = mem.records[d].val
                                         /\ a.records[d].branch = mem.records[d].branch
                                         /\ Live(a, d) <=> Live(mem, d) /\ d # e
        /\ \A s \in Nat : s <= mem.index.clock => Held(a, s) = Held(mem, s)
        /\ Held(a, mem.index.clock + 1) = {p \in Held(mem, mem.index.clock) : p[1] # id}
    <2>1. e[1] = id /\ e[2] = MAIN
      OBVIOUS
    <2> HIDE DEF e
    <2> QED
      BY <1>1, <1>2, <2>1, DeleteMem
  <1>4. /\ MemSound(mem') /\ Clock' = Clock + 1
        /\ DOMAIN mem'.records = DOMAIN mem.records
        /\ \A d \in DOMAIN mem.records : /\ mem'.records[d].val = mem.records[d].val
                                         /\ mem'.records[d].branch = mem.records[d].branch
                                         /\ Live(mem', d) <=> Live(mem, d) /\ d # e
        /\ \A s \in Nat : s <= Clock => Held(mem', s) = Held(mem, s)
        /\ Held(mem', Clock + 1) = {p \in Held(mem, Clock) : p[1] # id}
    BY <1>1, <1>3 DEF Clock
  <1>5. Held(mem', Clock + 1) = now
    BY <1>1, <1>4, NowHeld DEF Less
  <1>6. \A d \in Engines : d[2] # MAIN =>
          /\ Live(mem', d) <=> Live(mem, d)
          /\ Live(mem, d) => /\ mem'.records[d].val = mem.records[d].val
                             /\ mem'.records[d].branch = mem.records[d].branch
    BY <1>4 DEF Live, Has
  <1>7. \A d \in DOMAIN mem'.records : Live(mem', d) /\ d[2] = MAIN => mem'.records[d].branch = "main"
    <2>1. \A d \in DOMAIN mem.records : Live(mem, d) /\ d[2] = MAIN => mem.records[d].branch = "main"
      BY OwnRows DEF LabelsInv, Belongs
    <2> QED
      BY <1>4, <2>1
  <1> HIDE DEF now
  <1> QED
    BY <1>1, <1>4, <1>5, <1>6, <1>7, MainStep

\* A branch's view changes what it wrote and deleted, and no other view changes.
LEMMA ViewChange ==
  ASSUME LabelsInv, NEW name \in DOMAIN branches, NEW d \in SUBSET Ids, NEW w \in Wrote,
         branches' = branches,
         views' = [views EXCEPT ![branches[name]].deleted = d, ![branches[name]].wrote = w]
  PROVE  /\ views' \in Seq(AllViews) /\ DOMAIN views' = DOMAIN views
         /\ Open(name)'.deleted = d /\ Open(name)'.wrote = w
         /\ \A n \in DOMAIN views : /\ views'[n].base = views[n].base /\ views'[n].bit = views[n].bit
                                    /\ views'[n].name = views[n].name
         /\ \A other \in DOMAIN branches : other # name => Open(other)' = Open(other)
  <1> DEFINE k == branches[name]
             view == [views[k] EXCEPT !.deleted = d, !.wrote = w]
  <1>1. k \in DOMAIN views /\ views \in Seq(AllViews) /\ views[k] \in AllViews
    BY OwnRows DEF LabelsInv, Open
  <1>2. /\ view \in AllViews /\ view.deleted = d /\ view.wrote = w
        /\ view.base = views[k].base /\ view.bit = views[k].bit /\ view.name = views[k].name
    BY <1>1 DEF AllViews
  <1>3. views' = [views EXCEPT ![k] = view]
    BY <1>1
  <1> HIDE DEF view
  <1>4. /\ views' \in Seq(AllViews) /\ DOMAIN views' = DOMAIN views /\ views'[k] = view
        /\ \A n \in DOMAIN views : n # k => views'[n] = views[n]
    <2>1. DOMAIN views' = DOMAIN views /\ views'[k] = view /\ \A n \in DOMAIN views : n # k => views'[n] = views[n]
      BY <1>1, <1>3
    <2>2. k \in 1..Len(views)
      BY <1>1
    <2>3. views' \in Seq(AllViews)
      <3> HIDE DEF k
      <3> QED
        <4>1. views \in Seq(AllViews) /\ view \in AllViews
          BY <1>1, <1>2
        <4>2. [views EXCEPT ![k] = view] \in Seq(AllViews)
          BY <4>1, <2>2, ExceptSeq
        <4> QED
          BY <4>2, <1>3
    <2> QED
      BY <2>1, <2>3
  <1>5. ASSUME NEW other \in DOMAIN branches, other # name
        PROVE  branches[other] # k /\ branches[other] \in DOMAIN views
    BY <1>5, OwnRows DEF Open
  <1> QED
    BY <1>2, <1>4, <1>5 DEF Open

LEMMA PutWrote ==
  ASSUME NEW f \in Wrote, NEW id \in Ids, NEW v \in BranchVals, NEW gone
  PROVE  /\ Put(f, id, v) \in Wrote /\ Without(f, gone) \in Wrote
         /\ DOMAIN Put(f, id, v) = DOMAIN f \cup {id} /\ DOMAIN Without(f, gone) = DOMAIN f \ gone
         /\ Put(f, id, v)[id] = v /\ \A x \in DOMAIN f : x # id => Put(f, id, v)[x] = f[x]
         /\ \A x \in DOMAIN f \ gone : Without(f, gone)[x] = f[x]
  <1>1. PICK D \in SUBSET Ids : f \in [D -> BranchVals]
    BY DEF Wrote
  <1>2. Put(f, id, v) \in [D \cup {id} -> BranchVals] /\ D \cup {id} \in SUBSET Ids
    BY <1>1 DEF Put
  <1>3. Without(f, gone) \in [D \ gone -> BranchVals] /\ D \ gone \in SUBSET Ids
    BY <1>1 DEF Without
  <1> QED
    BY <1>2, <1>3 DEF Wrote, Put, Without

\* The bits that are given out do not change with what the views wrote.
LEMMA BitsStay ==
  ASSUME LabelsInv, UNCHANGED <<branches, used>>,
         \A n \in DOMAIN views : views'[n].bit = views[n].bit
  PROVE  BitsApart' /\ \A name \in DOMAIN branches : Open(name)'.bit = Open(name).bit
  <1>1. \A name \in DOMAIN branches : Open(name)'.bit = Open(name).bit
    BY OwnRows DEF Open
  <1>2. /\ used = {MAIN} \cup {Open(name).bit : name \in DOMAIN branches}
        /\ \A m, n \in DOMAIN branches : m # n => Open(m).bit # Open(n).bit
    BY DEF LabelsInv, BitsApart
  <1>3. used' = {MAIN} \cup {Open(name)'.bit : name \in DOMAIN branches}
    BY <1>1, <1>2
  <1>4. \A m, n \in DOMAIN branches : m # n => Open(m)'.bit # Open(n)'.bit
    BY <1>1, <1>2
  <1> QED
    BY <1>1, <1>3, <1>4 DEF BitsApart

LEMMA ViewAddStep ==
  ASSUME LabelsInv, NEW name \in DOMAIN branches, NEW id \in Ids, NEW v \in BranchVals,
         NEW a \in Agents, calls[a].on = branches[name], ViewAdd(a, id, v)
  PROVE  LabelsInv'
  <1> DEFINE k == branches[name]
             bit == Open(name).bit
             e == <<id, bit>>
             d == Open(name).deleted \ {id}
             w == Put(Open(name).wrote, id, v)
  <1>1. /\ MemSound(mem) /\ Free /\ mem.index.clock < MaxClock /\ v \in AllVals
        /\ mem' = AddUnlocked(mem, id, v, bit, name) /\ name \in Names \cup {"main"}
        /\ bit \in Bits /\ bit # MAIN /\ Clock \in Nat
        /\ UNCHANGED <<branches, used, task, horizon>> /\ Main(Now)
    BY OwnRows, MemFacts DEF LabelsInv, ViewAdd, Enters, AllVals, Clock, Open
  <1>2. Open(name).wrote \in Wrote /\ Open(name).deleted \in SUBSET Ids /\ d \in SUBSET Ids /\ w \in Wrote
    BY OwnRows, PutWrote DEF AllViews
  <1>a. /\ DOMAIN w = DOMAIN Open(name).wrote \cup {id} /\ w[id] = v
        /\ \A x \in DOMAIN Open(name).wrote : x # id => w[x] = Open(name).wrote[x]
    BY DEF Put
  <1>3. views' = [views EXCEPT ![k].deleted = d, ![k].wrote = w]
    BY DEF ViewAdd, Open
  <1>4. LET m == AddUnlocked(mem, id, v, bit, name) IN
        /\ MemSound(m) /\ m.index.clock = mem.index.clock + 1
        /\ DOMAIN m.records = DOMAIN mem.records \cup {e}
        /\ m.records[e] = Record(id, v, name)
        /\ \A x \in DOMAIN mem.records : x # e => m.records[x] = mem.records[x]
        /\ \A s \in Nat : s <= mem.index.clock => Held(m, s) = Held(mem, s)
        /\ Held(m, mem.index.clock + 1) = Held(mem, mem.index.clock)
    <2> HIDE DEF bit
    <2> QED
      BY <1>1, AddMem
  <1>5. /\ MemSound(mem') /\ Clock' = Clock + 1
        /\ DOMAIN mem'.records = DOMAIN mem.records \cup {e}
        /\ mem'.records[e] = Record(id, v, name)
        /\ \A x \in DOMAIN mem.records : x # e => mem'.records[x] = mem.records[x]
        /\ \A s \in Nat : s <= Clock => Held(mem', s) = Held(mem, s)
        /\ Held(mem', Clock + 1) = Held(mem, Clock)
    BY <1>1, <1>4 DEF Clock
  <1> HIDE DEF bit, d, w, k
  <1>6. /\ views' \in Seq(AllViews) /\ DOMAIN views' = DOMAIN views
        /\ Open(name)'.deleted = d /\ Open(name)'.wrote = w
        /\ \A n \in DOMAIN views : /\ views'[n].base = views[n].base /\ views'[n].bit = views[n].bit
                                   /\ views'[n].name = views[n].name
        /\ \A other \in DOMAIN branches : other # name => Open(other)' = Open(other)
    BY <1>1, <1>2, <1>3, ViewChange DEF k
  <1>7. BitsApart' /\ \A other \in DOMAIN branches : Open(other)'.bit = Open(other).bit
    BY <1>1, <1>6, BitsStay
  <1>8. /\ Live(mem', e) /\ mem'.records[e].val = v /\ mem'.records[e].branch = name
        /\ \A x : x # e => (Live(mem', x) <=> Live(mem, x))
        /\ \A x : x # e /\ Live(mem, x) => /\ mem'.records[x].val = mem.records[x].val
                                           /\ mem'.records[x].branch = mem.records[x].branch
    BY <1>5 DEF Live, Has, Record
  <1>9. Timed' /\ \A s \in DOMAIN timeline : s \in DOMAIN timeline'
    <2> DEFINE m == mem'
               line == timeline'
               t == Clock + 1
    <2>1. /\ t \in Nat /\ t > Clock /\ m.index.clock = t /\ Held(m, t) = Now /\ Timed
          /\ line = Put(timeline, t, Now) /\ \A s \in Nat : s <= Clock => Held(m, s) = Held(mem, s)
      BY <1>1, <1>5, NowHeld DEF Main, Clock, LabelsInv
    <2> HIDE DEF m, line, t
    <2>2. /\ t \in DOMAIN line
          /\ \A s \in DOMAIN line : s \in 0..t /\ (s + 1 >= horizon => Held(m, s) = line[s])
          /\ \A s \in DOMAIN timeline : s \in DOMAIN line /\ line[s] = timeline[s]
      BY <1>1, <2>1, TimedNext
    <2> QED
      BY <1>1, <1>5, <2>2 DEF m, line, t, Timed, Clock
  <1>10. (horizon \in 0..Clock + 1)'
    BY <1>1, <1>5 DEF LabelsInv
  <1>11. (views \in Seq(AllViews) /\ \A n \in DOMAIN views : Has(timeline, views[n].base))'
    BY <1>6, <1>9 DEF LabelsInv, Has
  <1>12. ViewHolds(mem', Open(name)')
    <2>1. ViewHolds(mem, Open(name))
      BY <1>1 DEF LabelsInv, Opened
    <2>2. Open(name)'.bit = bit
      BY <1>7 DEF bit
    <2>3. ASSUME NEW i \in Ids
          PROVE  LET x == Engine(i, bit) IN
                   /\ Has(w, i) <=> Live(mem', x) /\ i \notin d
                   /\ Has(w, i) => mem'.records[x].val = w[i]
      <3>1. CASE i = id
        BY <3>1, <1>a, <1>8 DEF Has, Engine, d
      <3>2. CASE i # id
        <4>1. Has(w, i) <=> Has(Open(name).wrote, i)
          BY <3>2, <1>a DEF Has
        <4>2. Has(w, i) => w[i] = Open(name).wrote[i]
          BY <3>2, <4>1, <1>a DEF Has
        <4>3. /\ Has(Open(name).wrote, i) <=> Live(mem, <<i, bit>>) /\ i \notin Open(name).deleted
              /\ Has(Open(name).wrote, i) => mem.records[<<i, bit>>].val = Open(name).wrote[i]
          BY <2>1 DEF ViewHolds, Engine, bit
        <4>4. <<i, bit>> # e
          BY <3>2
        <4> QED
          BY <3>2, <4>1, <4>2, <4>3, <4>4, <1>8 DEF d, Engine
      <3> QED
        BY <3>1, <3>2
    <2> QED
      BY <1>6, <2>2, <2>3 DEF ViewHolds
  <1>13. ASSUME NEW other \in DOMAIN branches, other # name
         PROVE  ViewHolds(mem', Open(other))
    <2>1. ViewHolds(mem, Open(other)) /\ Open(other).bit # bit
      BY <1>1, <1>13 DEF LabelsInv, Opened, BitsApart, bit
    <2>2. ASSUME NEW i \in Ids
          PROVE  LET x == Engine(i, Open(other).bit) IN
                   /\ Live(mem', x) <=> Live(mem, x)
                   /\ Live(mem, x) => mem'.records[x].val = mem.records[x].val
      BY <2>1, <1>8 DEF Engine
    <2> QED
      BY <2>1, <2>2, HoldsStill
  <1>14. Opened'
    <2>1. ASSUME NEW other \in DOMAIN branches
          PROVE  /\ (branches[other] \in DOMAIN views)' /\ Open(other)'.name = other
                 /\ Open(other)'.base + 1 >= horizon' /\ ViewHolds(mem', Open(other)')
      BY <1>1, <1>6, <1>12, <1>13, OwnRows DEF LabelsInv, Opened, Open
    <2> QED
      BY <1>1, <2>1 DEF LabelsInv, Opened
  <1>15. (\A x \in DOMAIN mem.records : Live(mem, x) => Belongs(mem, x))'
    <2>1. ASSUME NEW x \in DOMAIN mem'.records, Live(mem', x)
          PROVE  Belongs(mem, x)'
      <3>1. CASE x = e
        <4>1. Open(name)'.bit = x[2] /\ mem'.records[x].branch = name /\ name \in DOMAIN branches'
          BY <3>1, <1>1, <1>7, <1>8 DEF bit
        <4> QED
          BY <4>1 DEF Belongs
      <3>2. CASE x # e
        <4>1. /\ Belongs(mem, x) /\ mem'.records[x].branch = mem.records[x].branch
          BY <3>2, <2>1, <1>8 DEF LabelsInv, Live, Has
        <4> QED
          BY <4>1, <1>1, <1>7 DEF Belongs
      <3> QED
        BY <3>1, <3>2
    <2> QED
      BY <2>1
  <1>16. (task = [name |-> task.name, promote |-> task.promote, drop |-> task.drop, erase |-> task.erase,
                  shows |-> task.shows])' /\ Free'
    BY <1>1 DEF LabelsInv, Free
  <1> QED
    BY <1>5, <1>7, <1>9, <1>10, <1>11, <1>14, <1>15, <1>16 DEF LabelsInv

LEMMA ViewDeleteStep ==
  ASSUME LabelsInv, NEW name \in DOMAIN branches, NEW id \in Ids,
         NEW a \in Agents, calls[a].on = branches[name], ViewDelete(a, id)
  PROVE  LabelsInv'
  <1> DEFINE k == branches[name]
             d == Open(name).deleted \cup {id}
             w == Without(Open(name).wrote, {id})
  <1>1. Free /\ UNCHANGED <<mem, branches, used, task, horizon, timeline>>
    BY DEF ViewDelete, Enters
  <1>2. Open(name).wrote \in Wrote /\ Open(name).deleted \in SUBSET Ids /\ d \in SUBSET Ids
    BY OwnRows DEF AllViews
  <1>3. /\ w \in Wrote /\ DOMAIN w = DOMAIN Open(name).wrote \ {id}
        /\ \A x \in DOMAIN w : w[x] = Open(name).wrote[x]
    <2>1. PICK D \in SUBSET Ids : Open(name).wrote \in [D -> BranchVals]
      BY <1>2 DEF Wrote
    <2>2. w \in [D \ {id} -> BranchVals] /\ D \ {id} \in SUBSET Ids
      BY <2>1 DEF Without
    <2> QED
      BY <2>1, <2>2 DEF Wrote, Without
  <1>4. views' = [views EXCEPT ![k].deleted = d, ![k].wrote = w]
    BY DEF ViewDelete, Open
  <1> HIDE DEF d, w, k
  <1>5. /\ views' \in Seq(AllViews) /\ DOMAIN views' = DOMAIN views
        /\ Open(name)'.deleted = d /\ Open(name)'.wrote = w
        /\ \A n \in DOMAIN views : /\ views'[n].base = views[n].base /\ views'[n].bit = views[n].bit
                                   /\ views'[n].name = views[n].name
        /\ \A other \in DOMAIN branches : other # name => Open(other)' = Open(other)
    BY <1>1, <1>2, <1>3, <1>4, ViewChange DEF k
  <1>6. BitsApart' /\ \A other \in DOMAIN branches : Open(other)'.bit = Open(other).bit
    BY <1>1, <1>5, BitsStay
  <1>7. ViewHolds(mem', Open(name)')
    <2>1. ASSUME NEW i \in Ids
          PROVE  LET x == Engine(i, Open(name).bit) IN
                   /\ Has(w, i) <=> Live(mem, x) /\ i \notin d
                   /\ Has(w, i) => mem.records[x].val = w[i]
      <3>1. LET x == Engine(i, Open(name).bit) IN
              /\ Has(Open(name).wrote, i) <=> Live(mem, x) /\ i \notin Open(name).deleted
              /\ Has(Open(name).wrote, i) => mem.records[x].val = Open(name).wrote[i]
        BY <1>1 DEF LabelsInv, Opened, ViewHolds
      <3> QED
        BY <3>1, <1>3 DEF d, Has
    <2> QED
      BY <2>1, <1>1, <1>5, <1>6 DEF ViewHolds
  <1>8. Opened'
    <2>1. ASSUME NEW other \in DOMAIN branches
          PROVE  /\ (branches[other] \in DOMAIN views)' /\ Open(other)'.name = other
                 /\ Open(other)'.base + 1 >= horizon' /\ ViewHolds(mem', Open(other)')
      BY <1>1, <1>5, <1>7, OwnRows DEF LabelsInv, Opened, Open
    <2> QED
      BY <1>1, <2>1 DEF LabelsInv, Opened
  <1>9. (\A x \in DOMAIN mem.records : Live(mem, x) => Belongs(mem, x))'
    BY <1>1, <1>6 DEF LabelsInv, Belongs
  <1>10. Timed' /\ Free' /\ MemSound(mem') /\ (horizon \in 0..Clock + 1)'
    BY <1>1 DEF LabelsInv, Timed, Free, Clock
  <1>11. (views \in Seq(AllViews) /\ \A n \in DOMAIN views : Has(timeline, views[n].base))'
    BY <1>1, <1>5 DEF LabelsInv, Has
  <1>12. (task = [name |-> task.name, promote |-> task.promote, drop |-> task.drop, erase |-> task.erase,
                  shows |-> task.shows])'
    BY <1>1 DEF LabelsInv
  <1> QED
    BY <1>6, <1>8, <1>9, <1>10, <1>11, <1>12 DEF LabelsInv

\* A nonempty set of natural numbers has a least element.
LEMMA LeastNat ==
  ASSUME NEW S \in SUBSET Nat, S # {}
  PROVE  \E m \in S : \A n \in S : m <= n
  <1>1. PICK m \in S : \A n \in S : ~(<<n, m>> \in OpToRel(<, Nat))
    BY NatLessThanWellFounded, WFMin
  <1>2. \A n \in S : ~(n < m)
    BY <1>1 DEF OpToRel
  <1> QED
    BY <1>2

\* A branch opens on the lowest bit that no open branch has: no live row has it.
LEMMA ForkStep ==
  ASSUME LabelsInv, NEW name \in Names, NEW s \in 0..Clock, Fork(name, s)
  PROVE  LabelsInv'
  <1> DEFINE bit == CHOOSE b \in FreeBits : \A c \in FreeBits : b <= c
             view == [name |-> name, bit |-> bit, base |-> s, deleted |-> {}, wrote |-> <<>>]
             k == Len(views) + 1
  <1>1. /\ Free /\ name \notin DOMAIN branches /\ s \in DOMAIN timeline /\ s + 1 >= horizon
        /\ FreeBits # {} /\ s \in Nat /\ views \in Seq(AllViews) /\ Len(views) \in Nat
        /\ UNCHANGED <<mem, task, horizon, timeline>>
    BY MemFacts DEF LabelsInv, Fork, Has, Clock
  <1>2. bit \in 1..MaxBranches /\ bit \notin used
    <2>1. FreeBits \in SUBSET Nat
      BY Bounds DEF FreeBits
    <2>2. \E b \in FreeBits : \A c \in FreeBits : b <= c
      BY <1>1, <2>1, LeastNat
    <2>3. bit \in FreeBits
      BY <2>2
    <2> QED
      BY <2>3 DEF FreeBits
  <1>3. /\ views' = Append(views, view) /\ used' = used \cup {bit}
        /\ branches' = Put(branches, name, k)
    BY DEF Fork
  <1> HIDE DEF bit
  <1>4. view \in AllViews
    <2>1. <<>> \in [{} -> BranchVals] /\ {} \in SUBSET Ids
      OBVIOUS
    <2>2. <<>> \in Wrote
      BY <2>1 DEF Wrote
    <2> QED
      BY <1>1, <1>2, <2>2 DEF AllViews
  <1>5. view.name = name /\ view.bit = bit /\ view.base = s /\ view.deleted = {} /\ DOMAIN view.wrote = {}
    OBVIOUS
  <1> HIDE DEF view
  <1>6. /\ views' \in Seq(AllViews) /\ DOMAIN views' = DOMAIN views \cup {k} /\ views'[k] = view
        /\ \A n \in DOMAIN views : views'[n] = views[n]
    BY <1>1, <1>3, <1>4
  <1>7. /\ DOMAIN branches' = DOMAIN branches \cup {name} /\ branches'[name] = k
        /\ \A other \in DOMAIN branches : branches'[other] = branches[other]
    BY <1>1, <1>3 DEF Put
  <1>8. /\ Open(name)' = view
        /\ \A other \in DOMAIN branches : other # name /\ Open(other)' = Open(other)
    BY <1>1, <1>6, <1>7, OwnRows DEF Open
  <1>9. BitsApart'
    <2>1. /\ used = {MAIN} \cup {Open(other).bit : other \in DOMAIN branches}
          /\ \A m, n \in DOMAIN branches : m # n => Open(m).bit # Open(n).bit
      BY DEF LabelsInv, BitsApart
    <2>2. used' = {MAIN} \cup {Open(other)'.bit : other \in DOMAIN branches'}
      BY <2>1, <1>3, <1>5, <1>7, <1>8
    <2>3. \A m, n \in DOMAIN branches' : m # n => Open(m)'.bit # Open(n)'.bit
      BY <2>1, <1>2, <1>5, <1>7, <1>8
    <2> QED
      BY <2>2, <2>3 DEF BitsApart
  <1>10. ViewHolds(mem, view)
    <2>1. ASSUME NEW i \in Ids, Live(mem, Engine(i, bit))
          PROVE  FALSE
      <3>1. Belongs(mem, Engine(i, bit)) /\ Engine(i, bit)[2] = bit
        BY <2>1 DEF LabelsInv, Live, Has, Engine
      <3>2. bit # MAIN /\ \A other \in DOMAIN branches : Open(other).bit # bit
        BY <1>2 DEF LabelsInv, BitsApart
      <3> QED
        BY <3>1, <3>2 DEF Belongs
    <2> QED
      BY <2>1, <1>5 DEF ViewHolds, Has
  <1>11. Opened'
    <2>1. ASSUME NEW other \in DOMAIN branches'
          PROVE  /\ (branches[other] \in DOMAIN views)' /\ Open(other)'.name = other
                 /\ Open(other)'.base + 1 >= horizon' /\ ViewHolds(mem', Open(other)')
      <3>1. CASE other = name
        BY <3>1, <1>1, <1>5, <1>6, <1>7, <1>8, <1>10
      <3>2. CASE other # name
        <4>1. other \in DOMAIN branches /\ ViewHolds(mem, Open(other)) /\ Open(other).base + 1 >= horizon
          BY <3>2, <1>1, <1>7 DEF LabelsInv, Opened
        <4> QED
          BY <4>1, <1>1, <1>6, <1>7, <1>8, OwnRows
      <3> QED
        BY <3>1, <3>2
    <2>2. DOMAIN branches' \subseteq Names
      BY <1>7 DEF LabelsInv, Opened
    <2> QED
      BY <2>1, <2>2 DEF Opened
  <1>12. (\A x \in DOMAIN mem.records : Live(mem, x) => Belongs(mem, x))'
    BY <1>1, <1>7, <1>8 DEF LabelsInv, Belongs
  <1>13. Timed' /\ Free' /\ MemSound(mem') /\ (horizon \in 0..Clock + 1)'
    BY <1>1 DEF LabelsInv, Timed, Free, Clock
  <1>14. (views \in Seq(AllViews) /\ \A n \in DOMAIN views : Has(timeline, views[n].base))'
    BY <1>1, <1>5, <1>6 DEF LabelsInv, Has
  <1>15. (task = [name |-> task.name, promote |-> task.promote, drop |-> task.drop, erase |-> task.erase,
                  shows |-> task.shows])'
    BY <1>1 DEF LabelsInv
  <1> QED
    BY <1>9, <1>11, <1>12, <1>13, <1>14, <1>15 DEF LabelsInv

\* A call takes the gate with the rows of its branch to do.
LEMMA BeginStep ==
  ASSUME LabelsInv, NEW name \in DOMAIN branches, NEW promote, NEW erase, NEW shows,
         NEW a \in Agents, calls[a].on = branches[name], Begin(a, promote, erase, shows), promote \subseteq IdsOn(mem, Open(name)),
         erase \subseteq Ids, \A id \in erase : Live(mem, Engine(id, MAIN)),
         \A e \in promote : /\ e[1] \notin erase /\ <<e[1], mem.records[e].val>> \in shows
                            /\ \A p \in shows : p[1] = e[1] => p = <<e[1], mem.records[e].val>>,
         \A p \in shows : p[1] \notin erase,
         Settled(Held(mem, Clock), shows, promote, erase)
  PROVE  LabelsInv'
  <1> DEFINE drop == IdsOn(mem, Open(name)) \ promote
  <1>1. /\ UNCHANGED <<mem, branches, views, used, horizon, timeline>> /\ Free
        /\ task' = [name |-> name, promote |-> promote, drop |-> drop, erase |-> erase, shows |-> shows]
    BY OwnRows DEF Begin, Enters, Open
  <1> HIDE DEF drop
  <1>2. /\ task'.name = name /\ task'.promote = promote /\ task'.drop = drop /\ task'.erase = erase
        /\ task'.shows = shows
        /\ task' = [name |-> task'.name, promote |-> task'.promote, drop |-> task'.drop, erase |-> task'.erase,
                    shows |-> task'.shows]
    BY <1>1
  <1>3. promote \cap drop = {} /\ promote \cup drop = IdsOn(mem, Open(name))
    BY DEF drop
  <1>4. promote \cup drop = OwnLive(mem, Open(name).bit)
    BY <1>3, OwnRows
  <1>5. Open(name)' = Open(name) /\ mem' = mem /\ Clock' = Clock
    BY <1>1 DEF Open, Clock
  <1>6. Underway'
    <2>1. task'.name \in DOMAIN branches' /\ task'.promote \cap task'.drop = {}
      BY <1>1, <1>2, <1>3
    <2>2. task'.promote \cup task'.drop = OwnLive(mem', views'[branches'[task'.name]].bit)
      BY <1>1, <1>2, <1>4, <1>5 DEF Open
    <2>3. /\ task'.erase \subseteq Ids /\ \A id \in task'.erase : Live(mem', Engine(id, MAIN))
          /\ \A e \in task'.promote : e[1] \notin task'.erase
          /\ \A p \in task'.shows : p[1] \notin task'.erase
      BY <1>2, <1>5
    <2>4. /\ \A e \in task'.promote, p \in task'.shows : p[1] = e[1] => p = <<e[1], mem'.records[e].val>>
          /\ \A e \in task'.promote : <<e[1], mem'.records[e].val>> \in task'.shows
      BY <1>2, <1>5
    <2>5. Settled(Held(mem', Clock'), task'.shows, task'.promote, task'.erase)
      BY <1>2, <1>5
    <2> QED
      BY <2>1, <2>2, <2>3, <2>4, <2>5 DEF Underway, Open
  <1>7. Opened'
    BY <1>1 DEF LabelsInv, Opened, Open
  <1>8. Timed'
    BY <1>1 DEF LabelsInv, Timed, Clock
  <1>9. BitsApart' /\ MemSound(mem') /\ (horizon \in 0..Clock + 1)'
        /\ (views \in Seq(AllViews) /\ \A n \in DOMAIN views : Has(timeline, views[n].base))'
    BY <1>1 DEF LabelsInv, BitsApart, Open, Clock, Has
  <1>10. (\A x \in DOMAIN mem.records : Live(mem, x) => Belongs(mem, x))'
    BY <1>1 DEF LabelsInv, Belongs, Open
  <1> QED
    BY <1>2, <1>6, <1>7, <1>8, <1>9, <1>10 DEF LabelsInv

LEMMA DiscardStep ==
  ASSUME LabelsInv, NEW name \in DOMAIN branches, NEW a \in Agents, calls[a].on = branches[name], Discard(a)
  PROVE  LabelsInv'
  <1>1. Begin(a, {}, {}, Now) /\ Free
    BY DEF Discard, Begin, Enters
  <1>2. Now = Held(mem, Clock)
    BY <1>1, NowHeld
  <1> DEFINE none == {}
  <1>3. Begin(a, none, none, Now) /\ none \subseteq IdsOn(mem, Open(name)) /\ none \subseteq Ids
        /\ (~ \E x \in none : TRUE) /\ Settled(Now, Now, none, none)
    BY <1>1 DEF Settled
  <1> HIDE DEF none
  <1> QED
    BY <1>2, <1>3, BeginStep

\* What a merge is to show: its promoted rows, and main's rows that its branch
\* neither wrote nor deleted.
LEMMA MergeStep ==
  ASSUME LabelsInv, NEW name \in DOMAIN branches, NEW a \in Agents, calls[a].on = branches[name], Merge(a)
  PROVE  LabelsInv'
  <1> DEFINE view == Open(name)
             promote == Promotable(mem, view)
             erase == {id \in view.deleted : Live(mem, Engine(id, MAIN))}
             shows == Overlaid(view)
             H == Held(mem, Clock)
  <1>1. Begin(a, promote, erase, shows) /\ Free
    BY DEF Merge, Begin, Enters, Open
  <1>2. Now = H
    BY <1>1, NowHeld
  <1>3. view.deleted \subseteq Ids /\ view.wrote \in Wrote /\ DOMAIN view.wrote \subseteq Ids
    BY OwnRows DEF AllViews, Wrote
  <1>4. promote \subseteq IdsOn(mem, view)
    BY DEF Promotable
  <1>5. \A id \in Ids :
          /\ Has(view.wrote, id) <=> Live(mem, <<id, view.bit>>) /\ id \notin view.deleted
          /\ Has(view.wrote, id) => mem.records[<<id, view.bit>>].val = view.wrote[id]
    BY <1>1 DEF LabelsInv, Opened, ViewHolds, Engine
  <1>6. ASSUME NEW e \in promote
        PROVE  /\ e[1] \in DOMAIN view.wrote /\ e[1] \notin view.deleted
               /\ mem.records[e].val = view.wrote[e[1]]
    <2>1. e \in DOMAIN mem.records /\ Live(mem, e) /\ e[2] = view.bit /\ mem.records[e].id \notin view.deleted
      BY OwnRows DEF Promotable, OwnLive
    <2>2. e = <<e[1], e[2]>> /\ e[1] \in Ids /\ mem.records[e].id = e[1]
      BY <2>1, MemFacts DEF LabelsInv
    <2> QED
      BY <1>5, <2>1, <2>2 DEF Has
  <1>7. shows = {p \in H : p[1] \notin DOMAIN view.wrote \cup view.deleted} \cup {<<id, view.wrote[id]>> : id \in DOMAIN view.wrote}
    BY <1>2 DEF Overlaid, Less, Pairs
  <1>8. erase \subseteq Ids /\ (\A id \in erase : Live(mem, Engine(id, MAIN))) /\ erase \subseteq view.deleted
    BY <1>3
  <1>9. ASSUME NEW id \in DOMAIN view.wrote
        PROVE  id \notin view.deleted /\ \E e \in promote : e[1] = id
    <2>1. id \in Ids /\ id \notin view.deleted /\ Live(mem, <<id, view.bit>>)
      BY <1>3, <1>5 DEF Has
    <2>2. <<id, view.bit>> \in DOMAIN mem.records /\ <<id, view.bit>>[1] = id /\ <<id, view.bit>>[2] = view.bit
      BY <2>1 DEF Live, Has
    <2>3. <<id, view.bit>> \in IdsOn(mem, view) /\ mem.records[<<id, view.bit>>].id = id
      BY <2>1, <2>2, OwnRows, MemFacts DEF LabelsInv, OwnLive
    <2>4. <<id, view.bit>> \in promote
      BY <2>1, <2>3 DEF Promotable
    <2> QED
      BY <2>1, <2>2, <2>4
  <1>10. ASSUME NEW p \in H, p[1] \in view.deleted
         PROVE  p[1] \in erase
    <2>1. PICK v \in AsOf(mem.index, Clock) : v.id[2] = MAIN /\ p = <<v.id[1], v.val>>
      BY DEF Held
    <2>2. IndexSound(mem.index) /\ mem.index.clock < Forever /\ MemSound(mem)
      BY MemFacts, Bounds DEF LabelsInv
    <2>3. v \in mem.index.rows /\ v.to = Forever
      BY <2>1, <2>2, AsOfNow DEF OpenRows, Clock
    <2>4. Live(mem, v.id) /\ v.id \in DOMAIN mem.records
      BY <2>2, <2>3, MemFacts DEF Has
    <2>5. v.id = <<v.id[1], v.id[2]>>
      BY <2>2, <2>4, MemFacts
    <2> QED
      BY <2>1, <2>4, <2>5, <1>10 DEF Engine
  <1> HIDE DEF view, promote, erase, shows, H
  <1>11. ASSUME NEW e \in promote
         PROVE  /\ e[1] \notin erase /\ <<e[1], mem.records[e].val>> \in shows
                /\ \A p \in shows : p[1] = e[1] => p = <<e[1], mem.records[e].val>>
    BY <1>6, <1>7, <1>8
  <1>12. \A p \in shows : p[1] \notin erase
    BY <1>7, <1>8, <1>9
  <1>13. ASSUME NEW p \in H \cup shows, p[1] \notin erase, \A e \in promote : p[1] # e[1]
         PROVE  p \in H /\ p \in shows
    <2>1. p[1] \notin DOMAIN view.wrote
      BY <1>9, <1>13
    <2>2. p \in H
      BY <2>1, <1>7, <1>13
    <2>3. p[1] \notin view.deleted
      BY <2>2, <1>10, <1>13
    <2> QED
      BY <2>1, <2>2, <2>3, <1>7
  <1>14. Settled(H, shows, promote, erase)
    BY <1>13 DEF Settled
  <1> QED
    BY <1>1, <1>4, <1>8, <1>11, <1>12, <1>14, BeginStep DEF view, H

\* The live record left to do is the branch's, and has its bit.
LEMMA TaskFacts ==
  ASSUME LabelsInv, ~Free
  PROVE  /\ MemSound(mem) /\ Clock \in Nat /\ Underway /\ Timed
         /\ task.name \in DOMAIN branches /\ Open(task.name).bit \in Bits /\ Open(task.name).bit # MAIN
         /\ \A e \in task.promote \cup task.drop :
              e \in DOMAIN mem.records /\ Live(mem, e) /\ e[2] = Open(task.name).bit /\ e \in Engines
         /\ \A id \in task.erase : /\ id \in Ids /\ <<id, MAIN>> \in DOMAIN mem.records
                                   /\ Live(mem, <<id, MAIN>>)
         /\ \A name \in DOMAIN branches : name # task.name => Open(name).bit # Open(task.name).bit
  <1>1. MemSound(mem) /\ Clock \in Nat /\ Underway /\ Timed
    BY MemFacts DEF LabelsInv, Clock
  <1>2. /\ task.name \in DOMAIN branches
        /\ \A e \in task.promote \cup task.drop :
             e \in DOMAIN mem.records /\ Live(mem, e) /\ e[2] = Open(task.name).bit
        /\ \A id \in task.erase : id \in Ids /\ Live(mem, Engine(id, MAIN))
    BY <1>1 DEF Underway, OwnLive
  <1>3. Open(task.name).bit \in Bits /\ Open(task.name).bit # MAIN
    BY <1>2, OwnRows
  <1>4. \A name \in DOMAIN branches : name # task.name => Open(name).bit # Open(task.name).bit
    BY <1>2 DEF LabelsInv, BitsApart
  <1> QED
    BY <1>1, <1>2, <1>3, <1>4, MemFacts DEF Engine, Live, Has

\* A step of a task: rows of its own branch, and rows of main, come and go.
LEMMA TaskStep ==
  ASSUME LabelsInv, ~Free, MemSound(mem'), Clock' \in Nat, Clock' > Clock,
         task' = [name |-> task.name, promote |-> task'.promote, drop |-> task'.drop, erase |-> task'.erase,
                  shows |-> task.shows],
         \A s \in Nat : s <= Clock => Held(mem', s) = Held(mem, s),
         \A e \in Engines : e[2] # MAIN /\ e[2] # Open(task.name).bit =>
           /\ Live(mem', e) <=> Live(mem, e)
           /\ Live(mem, e) => mem'.records[e].val = mem.records[e].val,
         \A e \in DOMAIN mem'.records : Live(mem', e) =>
           \/ e[2] = MAIN /\ mem'.records[e].branch = "main"
           \/ Live(mem, e) /\ mem'.records[e].branch = mem.records[e].branch,
         UNCHANGED <<branches, views, used, horizon, timeline>>,
         task'.promote \cap task'.drop = {},
         task'.promote \cup task'.drop = OwnLive(mem', Open(task.name).bit),
         task'.erase \subseteq task.erase, \A id \in task'.erase : Live(mem', Engine(id, MAIN)),
         task'.promote \subseteq task.promote,
         \A e \in task'.promote : mem'.records[e].val = mem.records[e].val,
         Settled(Held(mem', Clock'), task.shows, task'.promote, task'.erase)
  PROVE  LabelsInv'
  <1>1. /\ task = [name |-> task.name, promote |-> task.promote, drop |-> task.drop, erase |-> task.erase,
                   shows |-> task.shows]
        /\ horizon \in 0..Clock + 1
    BY DEF LabelsInv
  <1>2. /\ task'.name = task.name /\ task'.shows = task.shows
        /\ task' = [name |-> task'.name, promote |-> task'.promote, drop |-> task'.drop, erase |-> task'.erase,
                    shows |-> task'.shows]
    <2>1. task'.name = task.name /\ task'.shows = task.shows
      OBVIOUS
    <2> QED
      BY <2>1
  <1>3. Clock \in Nat /\ Timed /\ Underway /\ task.name \in DOMAIN branches /\ task.name # "main"
    BY TaskFacts, OwnRows
  <1>4. ~Free'
    <2>1. task'.name # "main"
      BY <1>2, <1>3
    <2>2. Idle.name = "main"
      BY DEF Idle
    <2> QED
      BY <2>1, <2>2 DEF Free, Idle
  <1>5. Timed'
    <2>1. ASSUME NEW s \in DOMAIN timeline
          PROVE  s \in 0..Clock' /\ (s + 1 >= horizon => Held(mem', s) = timeline[s])
      <3>1. s \in 0..Clock /\ (s + 1 >= horizon => Held(mem, s) = timeline[s])
        BY <1>3 DEF Timed
      <3> QED
        BY <3>1, <1>3
    <2> QED
      BY <2>1, <1>4 DEF Timed
  <1>6. (horizon \in 0..Clock + 1)'
    BY <1>1, <1>3
  <1>7. BitsApart' /\ (views \in Seq(AllViews) /\ \A n \in DOMAIN views : Has(timeline, views[n].base))'
    BY DEF LabelsInv, BitsApart, Open, Has
  <1>8. Opened'
    <2>1. ASSUME NEW name \in DOMAIN branches, name # task.name
          PROVE  ViewHolds(mem', Open(name))
      <3>1. /\ ViewHolds(mem, Open(name)) /\ Open(name).bit \in Bits /\ Open(name).bit # MAIN
            /\ Open(name).bit # Open(task.name).bit
        BY <2>1, OwnRows, TaskFacts DEF LabelsInv, Opened
      <3>2. ASSUME NEW id \in Ids
            PROVE  LET e == Engine(id, Open(name).bit) IN
                     /\ Live(mem', e) <=> Live(mem, e)
                     /\ Live(mem, e) => mem'.records[e].val = mem.records[e].val
        BY <3>1 DEF Engine, Engines
      <3> QED
        BY <3>1, <3>2, HoldsStill
    <2> QED
      BY <2>1, <1>2, <1>4 DEF LabelsInv, Opened, Open
  <1>9. (\A e \in DOMAIN mem.records : Live(mem, e) => Belongs(mem, e))'
    <2>1. ASSUME NEW e \in DOMAIN mem'.records, Live(mem', e)
          PROVE  Belongs(mem, e)'
      <3>1. CASE e[2] = MAIN /\ mem'.records[e].branch = "main"
        BY <3>1 DEF Belongs
      <3>2. CASE Live(mem, e) /\ mem'.records[e].branch = mem.records[e].branch
        <4>1. Belongs(mem, e)
          BY <3>2 DEF LabelsInv, Live, Has
        <4> QED
          BY <3>2, <4>1 DEF Belongs, Open
      <3> QED
        BY <2>1, <3>1, <3>2
    <2> QED
      BY <2>1
  <1>10. Underway'
    <2>1. task'.name \in DOMAIN branches' /\ task'.promote \cap task'.drop = {}
      BY <1>2, <1>3
    <2>2. task'.promote \cup task'.drop = OwnLive(mem', views'[branches'[task'.name]].bit)
      BY <1>2 DEF Open
    <2>3. /\ task'.erase \subseteq Ids /\ \A id \in task'.erase : Live(mem', Engine(id, MAIN))
          /\ \A e \in task'.promote : e[1] \notin task'.erase
          /\ \A p \in task'.shows : p[1] \notin task'.erase
      BY <1>2, <1>3 DEF Underway
    <2>4. /\ \A e \in task'.promote, p \in task'.shows : p[1] = e[1] => p = <<e[1], mem'.records[e].val>>
          /\ \A e \in task'.promote : <<e[1], mem'.records[e].val>> \in task'.shows
      <3>1. /\ \A e \in task.promote, p \in task.shows : p[1] = e[1] => p = <<e[1], mem.records[e].val>>
            /\ \A e \in task.promote : <<e[1], mem.records[e].val>> \in task.shows
        BY <1>3 DEF Underway
      <3> QED
        BY <3>1, <1>2
    <2>5. Settled(Held(mem', Clock'), task'.shows, task'.promote, task'.erase)
      BY <1>2
    <2> QED
      BY <2>1, <2>2, <2>3, <2>4, <2>5 DEF Underway, Open
  <1> QED
    BY <1>2, <1>4, <1>5, <1>6, <1>7, <1>8, <1>9, <1>10 DEF LabelsInv

LEMMA DropStep ==
  ASSUME LabelsInv, NEW e, Drop(e)
  PROVE  LabelsInv'
  <1>1. /\ task.promote = {} /\ e \in task.drop /\ mem.index.clock < MaxClock
        /\ mem' = DeleteEngine(mem, e)
        /\ task' = [task EXCEPT !.drop = task.drop \ {e}]
        /\ UNCHANGED <<branches, views, used, horizon, timeline>>
    BY DEF Drop, Clock
  <1>2. ~Free
    BY <1>1 DEF Free, Idle
  <1>3. /\ MemSound(mem) /\ Clock \in Nat /\ Underway
        /\ e \in DOMAIN mem.records /\ Live(mem, e) /\ e[2] = Open(task.name).bit /\ e[2] # MAIN
    BY <1>1, <1>2, TaskFacts
  <1>4. LET a == DeleteEngine(mem, e) IN
        /\ MemSound(a) /\ a.index.clock = mem.index.clock + 1
        /\ DOMAIN a.records = DOMAIN mem.records
        /\ \A d \in DOMAIN mem.records : /\ a.records[d].val = mem.records[d].val
                                         /\ a.records[d].branch = mem.records[d].branch
                                         /\ Live(a, d) <=> Live(mem, d) /\ d # e
        /\ \A s \in Nat : s <= mem.index.clock => Held(a, s) = Held(mem, s)
        /\ Held(a, mem.index.clock + 1) = Held(mem, mem.index.clock)
    BY <1>1, <1>3, DeleteMem
  <1>5. /\ MemSound(mem') /\ Clock' = Clock + 1
        /\ DOMAIN mem'.records = DOMAIN mem.records
        /\ \A d \in DOMAIN mem.records : /\ mem'.records[d].val = mem.records[d].val
                                         /\ mem'.records[d].branch = mem.records[d].branch
                                         /\ Live(mem', d) <=> Live(mem, d) /\ d # e
        /\ \A s \in Nat : s <= Clock => Held(mem', s) = Held(mem, s)
        /\ Held(mem', Clock') = Held(mem, Clock)
    BY <1>1, <1>4 DEF Clock
  <1>6. Clock' \in Nat /\ Clock' > Clock
    BY <1>3, <1>5
  <1>7. \A d \in Engines : d[2] # MAIN /\ d[2] # Open(task.name).bit =>
          /\ Live(mem', d) <=> Live(mem, d)
          /\ Live(mem, d) => mem'.records[d].val = mem.records[d].val
    BY <1>3, <1>5 DEF Live, Has
  <1>8. \A d \in DOMAIN mem'.records : Live(mem', d) =>
          \/ d[2] = MAIN /\ mem'.records[d].branch = "main"
          \/ Live(mem, d) /\ mem'.records[d].branch = mem.records[d].branch
    BY <1>5
  <1>9. /\ task' = [name |-> task.name, promote |-> task'.promote, drop |-> task'.drop, erase |-> task'.erase,
                     shows |-> task.shows]
        /\ task'.promote = task.promote /\ task'.drop = task.drop \ {e} /\ task'.erase = task.erase
    <2>1. task = [name |-> task.name, promote |-> task.promote, drop |-> task.drop, erase |-> task.erase,
                  shows |-> task.shows]
      BY DEF LabelsInv
    <2> QED
      BY <1>1, <2>1
  <1>10. task'.promote \cup task'.drop = OwnLive(mem', Open(task.name).bit)
    BY <1>1, <1>3, <1>5, <1>9 DEF Underway, OwnLive
  <1>11. \A id \in task'.erase : Live(mem', Engine(id, MAIN))
    BY <1>2, <1>3, <1>5, <1>9, TaskFacts DEF Engine
  <1>12. Settled(Held(mem', Clock'), task.shows, task'.promote, task'.erase)
    BY <1>1, <1>3, <1>5, <1>9 DEF Underway
  <1>13. /\ task'.promote \cap task'.drop = {} /\ task'.promote \subseteq task.promote
         /\ task'.erase \subseteq task.erase /\ \A d \in task'.promote : mem'.records[d].val = mem.records[d].val
    BY <1>1, <1>9
  <1> QED
    BY <1>1, <1>2, <1>5, <1>6, <1>7, <1>8, <1>9, <1>10, <1>11, <1>12, <1>13, TaskStep

LEMMA EraseStep ==
  ASSUME LabelsInv, NEW id, Erase(id)
  PROVE  LabelsInv'
  <1> DEFINE e == <<id, MAIN>>
  <1>1. /\ task.promote = {} /\ task.drop = {} /\ id \in task.erase /\ mem.index.clock < MaxClock
        /\ mem' = DeleteEngine(mem, e)
        /\ task' = [task EXCEPT !.erase = task.erase \ {id}]
        /\ UNCHANGED <<branches, views, used, horizon, timeline>>
    BY DEF Erase, Clock, Engine
  <1>2. ~Free
    BY <1>1 DEF Free, Idle
  <1>3. /\ MemSound(mem) /\ Clock \in Nat /\ Underway /\ Open(task.name).bit # MAIN
        /\ e \in DOMAIN mem.records /\ Live(mem, e) /\ e[2] = MAIN /\ e[1] = id
    BY <1>1, <1>2, TaskFacts
  <1>4. LET a == DeleteEngine(mem, e) IN
        /\ MemSound(a) /\ a.index.clock = mem.index.clock + 1
        /\ DOMAIN a.records = DOMAIN mem.records
        /\ \A d \in DOMAIN mem.records : /\ a.records[d].val = mem.records[d].val
                                         /\ a.records[d].branch = mem.records[d].branch
                                         /\ Live(a, d) <=> Live(mem, d) /\ d # e
        /\ \A s \in Nat : s <= mem.index.clock => Held(a, s) = Held(mem, s)
        /\ Held(a, mem.index.clock + 1) = {p \in Held(mem, mem.index.clock) : p[1] # id}
    <2> HIDE DEF e
    <2> QED
      BY <1>1, <1>3, DeleteMem
  <1>5. /\ MemSound(mem') /\ Clock' = Clock + 1
        /\ DOMAIN mem'.records = DOMAIN mem.records
        /\ \A d \in DOMAIN mem.records : /\ mem'.records[d].val = mem.records[d].val
                                         /\ mem'.records[d].branch = mem.records[d].branch
                                         /\ Live(mem', d) <=> Live(mem, d) /\ d # e
        /\ \A s \in Nat : s <= Clock => Held(mem', s) = Held(mem, s)
        /\ Held(mem', Clock') = {p \in Held(mem, Clock) : p[1] # id}
    BY <1>1, <1>4 DEF Clock
  <1>6. Clock' \in Nat /\ Clock' > Clock
    BY <1>3, <1>5
  <1>7. \A d \in Engines : d[2] # MAIN /\ d[2] # Open(task.name).bit =>
          /\ Live(mem', d) <=> Live(mem, d)
          /\ Live(mem, d) => mem'.records[d].val = mem.records[d].val
    BY <1>3, <1>5 DEF Live, Has
  <1>8. \A d \in DOMAIN mem'.records : Live(mem', d) =>
          \/ d[2] = MAIN /\ mem'.records[d].branch = "main"
          \/ Live(mem, d) /\ mem'.records[d].branch = mem.records[d].branch
    BY <1>5
  <1>9. /\ task' = [name |-> task.name, promote |-> task'.promote, drop |-> task'.drop, erase |-> task'.erase,
                     shows |-> task.shows]
        /\ task'.promote = task.promote /\ task'.drop = task.drop /\ task'.erase = task.erase \ {id}
    <2>1. task = [name |-> task.name, promote |-> task.promote, drop |-> task.drop, erase |-> task.erase,
                  shows |-> task.shows]
      BY DEF LabelsInv
    <2> QED
      BY <1>1, <2>1
  <1>10. task'.promote \cup task'.drop = OwnLive(mem', Open(task.name).bit)
    BY <1>1, <1>3, <1>5, <1>9 DEF Underway, OwnLive
  <1>11. \A i \in task'.erase : Live(mem', Engine(i, MAIN))
    BY <1>2, <1>3, <1>5, <1>9, TaskFacts DEF Engine
  <1>12. Settled(Held(mem', Clock'), task.shows, task'.promote, task'.erase)
    <2>1. \A p \in task.shows : p[1] # id
      BY <1>1, <1>3 DEF Underway
    <2>2. \A p \in Held(mem, Clock) \cup task.shows : p[1] \notin task.erase => p \in Held(mem, Clock) /\ p \in task.shows
      BY <1>1, <1>3 DEF Underway, Settled
    <2> QED
      BY <1>1, <1>5, <1>9, <2>1, <2>2 DEF Settled
  <1>13. /\ task'.promote \cap task'.drop = {} /\ task'.promote \subseteq task.promote
         /\ task'.erase \subseteq task.erase /\ \A d \in task'.promote : mem'.records[d].val = mem.records[d].val
    BY <1>1, <1>9
  <1> QED
    BY <1>1, <1>2, <1>5, <1>6, <1>7, <1>8, <1>9, <1>10, <1>11, <1>12, <1>13, TaskStep

LEMMA PromoteStep ==
  ASSUME LabelsInv, NEW e, Promote(e)
  PROVE  LabelsInv'
  <1> DEFINE f == <<e[1], MAIN>>
             val == mem.records[e].val
             bit == Open(task.name).bit
  <1>1. /\ e \in task.promote /\ mem.index.clock + 1 < MaxClock
        /\ mem' = PromoteOne(mem, e)
        /\ task' = [task EXCEPT !.promote = task.promote \ {e}]
        /\ UNCHANGED <<branches, views, used, horizon, timeline>>
    BY DEF Promote, Clock
  <1>2. ~Free
    BY <1>1 DEF Free, Idle
  <1>3. /\ MemSound(mem) /\ Clock \in Nat /\ Underway /\ bit # MAIN
        /\ e \in DOMAIN mem.records /\ Live(mem, e) /\ e[2] = bit /\ e[2] # MAIN
    BY <1>1, <1>2, TaskFacts
  <1>4. LET a == PromoteOne(mem, e) IN
        /\ MemSound(a) /\ a.index.clock = mem.index.clock + 2
        /\ DOMAIN a.records = DOMAIN mem.records \cup {f}
        /\ Live(a, f) /\ ~Live(a, e) /\ f # e /\ a.records[f].branch = "main"
        /\ \A d \in DOMAIN mem.records :
             d # f => /\ a.records[d].val = mem.records[d].val
                      /\ a.records[d].branch = mem.records[d].branch
                      /\ Live(a, d) <=> Live(mem, d) /\ d # e
        /\ \A s \in Nat : s <= mem.index.clock => Held(a, s) = Held(mem, s)
        /\ Held(a, mem.index.clock + 2) = {p \in Held(mem, mem.index.clock) : p[1] # e[1]} \cup {<<e[1], val>>}
    BY <1>1, <1>3, PromoteMem
  <1>5. /\ MemSound(mem') /\ Clock' = Clock + 2
        /\ DOMAIN mem'.records = DOMAIN mem.records \cup {f}
        /\ Live(mem', f) /\ ~Live(mem', e) /\ f # e /\ mem'.records[f].branch = "main"
        /\ \A d \in DOMAIN mem.records :
             d # f => /\ mem'.records[d].val = mem.records[d].val
                      /\ mem'.records[d].branch = mem.records[d].branch
                      /\ Live(mem', d) <=> Live(mem, d) /\ d # e
        /\ \A s \in Nat : s <= Clock => Held(mem', s) = Held(mem, s)
        /\ Held(mem', Clock') = {p \in Held(mem, Clock) : p[1] # e[1]} \cup {<<e[1], val>>}
    BY <1>1, <1>4 DEF Clock
  <1> HIDE DEF val, bit
  <1>6. Clock' \in Nat /\ Clock' > Clock
    BY <1>3, <1>5
  <1>7. \A d \in Engines : d[2] # MAIN /\ d[2] # bit =>
          /\ Live(mem', d) <=> Live(mem, d)
          /\ Live(mem, d) => mem'.records[d].val = mem.records[d].val
    BY <1>3, <1>5 DEF Live, Has
  <1>8. \A d \in DOMAIN mem'.records : Live(mem', d) =>
          \/ d[2] = MAIN /\ mem'.records[d].branch = "main"
          \/ Live(mem, d) /\ mem'.records[d].branch = mem.records[d].branch
    BY <1>5
  <1>9. /\ task' = [name |-> task.name, promote |-> task'.promote, drop |-> task'.drop, erase |-> task'.erase,
                    shows |-> task.shows]
        /\ task'.promote = task.promote \ {e} /\ task'.drop = task.drop /\ task'.erase = task.erase
    <2>1. task = [name |-> task.name, promote |-> task.promote, drop |-> task.drop, erase |-> task.erase,
                  shows |-> task.shows]
      BY DEF LabelsInv
    <2> QED
      BY <1>1, <2>1
  <1>10. task'.promote \cup task'.drop = OwnLive(mem', bit)
    <2>1. OwnLive(mem', bit) = OwnLive(mem, bit) \ {e}
      BY <1>3, <1>5 DEF OwnLive
    <2>2. task.promote \cup task.drop = OwnLive(mem, bit) /\ e \notin task.drop
      BY <1>1, <1>3 DEF Underway, bit
    <2> QED
      BY <2>1, <2>2, <1>9
  <1>11. \A i \in task'.erase : Live(mem', Engine(i, MAIN))
    <2>1. ASSUME NEW i \in task.erase
          PROVE  Live(mem', <<i, MAIN>>)
      <3>1. /\ <<i, MAIN>> \in DOMAIN mem.records /\ Live(mem, <<i, MAIN>>) /\ <<i, MAIN>>[2] = MAIN
        BY <1>2, TaskFacts
      <3>2. <<i, MAIN>> # e
        BY <3>1, <1>3
      <3> QED
        BY <3>1, <3>2, <1>5
    <2> QED
      BY <1>9, <2>1 DEF Engine
  <1>12. Settled(Held(mem', Clock'), task.shows, task'.promote, task'.erase)
    <2>1. /\ <<e[1], val>> \in task.shows /\ \A p \in task.shows : p[1] = e[1] => p = <<e[1], val>>
      BY <1>1, <1>3 DEF Underway, val
    <2>2. Settled(Held(mem, Clock), task.shows, task.promote, task.erase)
      BY <1>3 DEF Underway
    <2>3. ASSUME NEW p \in Held(mem', Clock') \cup task.shows, p[1] \notin task.erase,
                 \A d \in task.promote \ {e} : p[1] # d[1]
          PROVE  p \in Held(mem', Clock') /\ p \in task.shows
      <3>1. CASE p[1] = e[1]
        BY <3>1, <2>1, <2>3, <1>5
      <3>2. CASE p[1] # e[1]
        BY <3>2, <2>2, <2>3, <1>5 DEF Settled
      <3> QED
        BY <3>1, <3>2
    <2> QED
      BY <1>9, <2>3 DEF Settled
  <1>13. /\ task'.promote \cap task'.drop = {} /\ task'.promote \subseteq task.promote
         /\ task'.erase \subseteq task.erase /\ \A d \in task'.promote : mem'.records[d].val = mem.records[d].val
    <2>1. task'.promote \cap task'.drop = {} /\ task'.promote \subseteq task.promote /\ task'.erase \subseteq task.erase
      BY <1>3, <1>9 DEF Underway
    <2>2. ASSUME NEW d \in task'.promote
          PROVE  mem'.records[d].val = mem.records[d].val
      <3>1. d \in DOMAIN mem.records /\ d[2] # MAIN
        BY <1>2, <2>1, TaskFacts
      <3> QED
        BY <3>1, <1>5
    <2> QED
      BY <2>1, <2>2
  <1> QED
    BY <1>1, <1>2, <1>5, <1>6, <1>7, <1>8, <1>9, <1>10, <1>11, <1>12, <1>13, TaskStep DEF bit

\* Before the gate and inside it a call is on an open branch; inside, on that of the task.
LEMMA CallerListed ==
  ASSUME CallsInv, NEW a \in Agents, calls[a].at \in {"gate", "inside"}
  PROVE  /\ views[calls[a].on].name \in DOMAIN branches
         /\ calls[a].on = branches[views[calls[a].on].name]
  BY DEF CallsInv, Listed, Has

LEMMA CallerInside ==
  ASSUME LabelsInv, CallsInv, NEW a \in Agents, calls[a].at = "inside"
  PROVE  /\ ~Free /\ task.name \in DOMAIN branches /\ calls[a].on = branches[task.name]
         /\ views[calls[a].on].name = task.name
  <1>1. task.name = views[calls[a].on].name /\ task.name \in DOMAIN branches
        /\ calls[a].on = branches[task.name]
    BY CallerListed DEF CallsInv
  <1>2. task.name # "main"
    BY <1>1, OwnRows
  <1> QED
    BY <1>1, <1>2 DEF Free, Idle

\* Nothing is left to do: the branch has no live row, its bit is free, and main
\* holds what the call was to show.
LEMMA EndStep ==
  ASSUME LabelsInv, CallsInv, NEW a \in Agents, End(a)
  PROVE  LabelsInv'
  <1> DEFINE name == task.name
             bit == Open(name).bit
  <1>1. /\ ~Free /\ task.promote = {} /\ task.drop = {} /\ task.erase = {}
        /\ branches' = Without(branches, {name}) /\ used' = used \ {bit} /\ task' = Idle
        /\ timeline' = Put(timeline, Clock, task.shows) /\ UNCHANGED <<mem, views, horizon>>
    BY CallerInside DEF End, Release, Open
  <1>2. /\ MemSound(mem) /\ Clock \in Nat /\ Underway /\ Timed /\ name \in DOMAIN branches /\ bit # MAIN
        /\ \A other \in DOMAIN branches : other # name => Open(other).bit # bit
    BY <1>1, TaskFacts
  <1>3. OwnLive(mem, bit) = {} /\ Settled(Held(mem, Clock), task.shows, {}, {})
    BY <1>1, <1>2 DEF Underway
  <1>4. Held(mem, Clock) = task.shows
    BY <1>3 DEF Settled
  <1> HIDE DEF name, bit
  <1>5. /\ DOMAIN branches' = DOMAIN branches \ {name}
        /\ \A other \in DOMAIN branches' : branches'[other] = branches[other] /\ Open(other)' = Open(other)
    BY <1>1 DEF Without, Open
  <1>6. Free' /\ (task = [name |-> task.name, promote |-> task.promote, drop |-> task.drop, erase |-> task.erase,
                          shows |-> task.shows])'
    BY <1>1 DEF Free, Idle
  <1>7. /\ DOMAIN timeline' = DOMAIN timeline \cup {Clock} /\ timeline'[Clock] = task.shows
        /\ \A s \in DOMAIN timeline : s # Clock => timeline'[s] = timeline[s]
    BY <1>1 DEF Put
  <1>8. Timed'
    <2>1. ASSUME NEW s \in DOMAIN timeline'
          PROVE  s \in 0..Clock /\ (s + 1 >= horizon => Held(mem, s) = timeline'[s])
      BY <1>2, <1>4, <1>7 DEF Timed
    <2> QED
      BY <1>1, <1>7, <2>1 DEF Timed, Clock
  <1>9. BitsApart'
    <2>1. /\ used = {MAIN} \cup {Open(other).bit : other \in DOMAIN branches}
          /\ \A m, n \in DOMAIN branches : m # n => Open(m).bit # Open(n).bit
      BY DEF LabelsInv, BitsApart
    <2>2. Open(name).bit = bit
      BY DEF bit
    <2>3. used' = {MAIN} \cup {Open(other).bit : other \in DOMAIN branches'}
      BY <2>1, <2>2, <1>1, <1>2, <1>5
    <2>4. used' = {MAIN} \cup {Open(other)'.bit : other \in DOMAIN branches'}
      BY <2>3, <1>5
    <2>5. \A m, n \in DOMAIN branches' : m # n => Open(m)'.bit # Open(n)'.bit
      BY <2>1, <1>5
    <2> QED
      BY <2>4, <2>5 DEF BitsApart
  <1>10. Opened'
    <2>1. ASSUME NEW other \in DOMAIN branches'
          PROVE  /\ (branches[other] \in DOMAIN views)' /\ Open(other)'.name = other
                 /\ Open(other)'.base + 1 >= horizon' /\ ViewHolds(mem', Open(other)')
      <3>1. other \in DOMAIN branches /\ other # task.name
        BY <1>5 DEF name
      <3> QED
        BY <3>1, <1>1, <1>5 DEF LabelsInv, Opened
    <2>2. DOMAIN branches' \subseteq Names
      BY <1>5 DEF LabelsInv, Opened
    <2> QED
      BY <2>1, <2>2 DEF Opened
  <1>11. (\A e \in DOMAIN mem.records : Live(mem, e) => Belongs(mem, e))'
    <2>1. ASSUME NEW e \in DOMAIN mem.records, Live(mem, e)
          PROVE  Belongs(mem, e)'
      <3>1. Belongs(mem, e) /\ e[2] # bit
        BY <2>1, <1>3 DEF LabelsInv, OwnLive
      <3>2. CASE e[2] = MAIN /\ mem.records[e].branch = "main"
        BY <3>2, <1>1 DEF Belongs
      <3>3. ASSUME NEW other \in DOMAIN branches, mem.records[e].branch = other, Open(other).bit = e[2]
            PROVE  Belongs(mem, e)'
        <4>1. other # name
          BY <3>1, <3>3 DEF bit
        <4>2. other \in DOMAIN branches' /\ Open(other)' = Open(other)
          BY <4>1, <1>5
        <4> QED
          BY <3>3, <4>2, <1>1 DEF Belongs
      <3> QED
        BY <3>1, <3>2, <3>3 DEF Belongs
    <2> QED
      BY <2>1, <1>1
  <1>12. MemSound(mem') /\ (horizon \in 0..Clock + 1)'
    BY <1>1 DEF LabelsInv, Clock
  <1>13. (views \in Seq(AllViews) /\ \A n \in DOMAIN views : Has(timeline, views[n].base))'
    BY <1>1, <1>7 DEF LabelsInv, Has
  <1> QED
    BY <1>6, <1>8, <1>9, <1>10, <1>11, <1>12, <1>13 DEF LabelsInv

\* A purge keeps what the open branches forked from, and every row that is open.
LEMMA PurgeStep ==
  ASSUME LabelsInv, NEW h \in Protected \cup {Clock + 1}, Purge(h)
  PROVE  LabelsInv'
  <1>1. /\ Free /\ UNCHANGED <<branches, views, used, task, timeline>>
        /\ horizon' = IF h > horizon THEN h ELSE horizon
        /\ \A p \in Protected : h <= p
        /\ mem' = [index |-> Vacuum(mem.index, h), records |-> Without(mem.records, Stale(h)),
                   history |-> Without(mem.history, Stale(h))]
    BY DEF Purge
  <1>2. MemSound(mem) /\ Clock \in Nat /\ horizon \in 0..Clock + 1 /\ Timed
    BY MemFacts DEF LabelsInv, Clock
  <1>3. \A name \in DOMAIN branches : Open(name).base \in 0..Clock /\ Open(name).base + 1 \in Protected
    <2>1. ASSUME NEW name \in DOMAIN branches
          PROVE  Open(name).base \in 0..Clock /\ Open(name).base + 1 \in Protected
      <3>1. Has(timeline, Open(name).base)
        BY OwnRows DEF LabelsInv, Open
      <3> QED
        BY <3>1, <1>2 DEF Has, Timed, Protected, Open
    <2> QED
      BY <2>1
  <1>4. h \in Nat /\ h <= Clock + 1 /\ \A name \in DOMAIN branches : h <= Open(name).base + 1
    <2>1. \A name \in DOMAIN branches : h <= Open(name).base + 1
      BY <1>1, <1>3
    <2>2. CASE h = Clock + 1
      BY <1>2, <2>1, <2>2
    <2>3. CASE h \in Protected
      <3>1. PICK name \in DOMAIN branches : h = Open(name).base + 1
        BY <2>3 DEF Protected, Open
      <3> QED
        BY <1>2, <1>3, <2>1, <3>1
    <2> QED
      BY <2>2, <2>3
  <1>5. /\ MemSound(mem') /\ Clock' = Clock
        /\ DOMAIN mem'.records = DOMAIN mem.records \ Stale(h)
        /\ \A e \in DOMAIN mem'.records : mem'.records[e] = mem.records[e]
        /\ \A e : Live(mem', e) <=> Live(mem, e)
        /\ \A s \in Nat : s + 1 >= h => Held(mem', s) = Held(mem, s)
    <2>1. mem' = Purged(mem, h) /\ Stale(h) = Ended(mem, h)
      BY <1>1 DEF Purged, Ended, Stale
    <2>2. MemSound(mem) /\ h \in Nat /\ h <= mem.index.clock + 1
      BY <1>2, <1>4 DEF Clock
    <2> QED
      BY <2>1, <2>2, VacuumMem DEF Clock
  <1>6. horizon' \in 0..Clock + 1 /\ h <= horizon' /\ horizon <= horizon'
    BY <1>1, <1>2, <1>4
  <1>7. Timed'
    <2>1. ASSUME NEW s \in DOMAIN timeline
          PROVE  s \in 0..Clock /\ (s + 1 >= horizon' => Held(mem', s) = timeline[s])
      <3>1. s \in 0..Clock /\ (s + 1 >= horizon => Held(mem, s) = timeline[s])
        BY <1>2 DEF Timed
      <3>2. s + 1 >= horizon' => s + 1 >= horizon /\ s + 1 >= h
        BY <3>1, <1>2, <1>4, <1>6
      <3> QED
        BY <3>1, <3>2, <1>5
    <2>2. Free' => Clock \in DOMAIN timeline
      BY <1>1, NowHeld
    <2> QED
      BY <2>1, <2>2, <1>1, <1>5 DEF Timed
  <1>8. \A e : Live(mem, e) => e \in DOMAIN mem'.records /\ mem'.records[e] = mem.records[e]
    BY <1>5 DEF Live, Has
  <1>9. Opened'
    <2>1. ASSUME NEW name \in DOMAIN branches
          PROVE  ViewHolds(mem', Open(name)) /\ Open(name).base + 1 >= horizon'
      <3>1. ViewHolds(mem, Open(name)) /\ Open(name).base + 1 >= horizon
        BY <1>1 DEF LabelsInv, Opened
      <3>2. Open(name).base + 1 >= horizon'
        BY <3>1, <1>1, <1>2, <1>3, <1>4
      <3> QED
        BY <3>1, <3>2, <1>5, <1>8, HoldsStill
    <2> QED
      BY <2>1, <1>1 DEF LabelsInv, Opened, Open
  <1>10. (\A e \in DOMAIN mem.records : Live(mem, e) => Belongs(mem, e))'
    <2>1. ASSUME NEW e \in DOMAIN mem'.records, Live(mem', e)
          PROVE  Belongs(mem, e)'
      <3>1. e \in DOMAIN mem.records /\ Live(mem, e) /\ mem'.records[e] = mem.records[e]
        BY <2>1, <1>5
      <3>2. Belongs(mem, e)
        BY <3>1 DEF LabelsInv
      <3> QED
        BY <3>1, <3>2, <1>1 DEF Belongs, Open
    <2> QED
      BY <2>1
  <1>11. BitsApart' /\ (views \in Seq(AllViews) /\ \A n \in DOMAIN views : Has(timeline, views[n].base))'
    BY <1>1 DEF LabelsInv, BitsApart, Open, Has
  <1>12. Free' /\ (task = [name |-> task.name, promote |-> task.promote, drop |-> task.drop, erase |-> task.erase,
                           shows |-> task.shows])'
    BY <1>1 DEF LabelsInv, Free
  <1>13. (horizon \in 0..Clock + 1)'
    BY <1>5, <1>6
  <1> QED
    BY <1>5, <1>7, <1>9, <1>10, <1>11, <1>12, <1>13 DEF LabelsInv

\* A call that begins, or closes its view, is none of the memory's business.
LEMMA LabelsStay ==
  ASSUME LabelsInv, UNCHANGED <<mem, branches, views, used, task, horizon, timeline>>
  PROVE  LabelsInv'
  <1>1. Opened' /\ Timed' /\ (~Free' => Underway') /\ BitsApart'
    BY DEF LabelsInv, Opened, Timed, Underway, BitsApart, Open, Clock, Free
  <1>2. (\A e \in DOMAIN mem.records : Live(mem, e) => Belongs(mem, e))'
    BY DEF LabelsInv, Belongs, Open
  <1> QED
    BY <1>1, <1>2 DEF LabelsInv, Clock, Has

LEMMA CallStep ==
  ASSUME LabelsInv, CallsInv, NEW a \in Agents,
         \/ Discard(a) \/ Merge(a) \/ End(a) \/ Close(a)
         \/ \E n \in DOMAIN views, ends \in BOOLEAN : Call(a, n, ends)
         \/ \E id \in Ids : ViewDelete(a, id) \/ \E v \in BranchVals : ViewAdd(a, id, v)
  PROVE  LabelsInv'
  <1>1. CASE Discard(a)
    <2>1. calls[a].at = "gate"
      BY <1>1 DEF Discard, Begin, Enters
    <2> QED
      BY <1>1, <2>1, CallerListed, DiscardStep
  <1>2. CASE Merge(a)
    <2>1. calls[a].at = "gate"
      BY <1>2 DEF Merge, Begin, Enters
    <2> QED
      BY <1>2, <2>1, CallerListed, MergeStep
  <1>3. CASE End(a)
    BY <1>3, EndStep
  <1>4. CASE Close(a)
    BY <1>4, LabelsStay DEF Close
  <1>5. CASE \E n \in DOMAIN views, ends \in BOOLEAN : Call(a, n, ends)
    BY <1>5, LabelsStay DEF Call
  <1>6. ASSUME NEW id \in Ids, ViewDelete(a, id)
        PROVE  LabelsInv'
    <2>1. calls[a].at = "gate"
      BY <1>6 DEF ViewDelete, Enters
    <2> QED
      BY <1>6, <2>1, CallerListed, ViewDeleteStep
  <1>7. ASSUME NEW id \in Ids, NEW v \in BranchVals, ViewAdd(a, id, v)
        PROVE  LabelsInv'
    <2>1. calls[a].at = "gate"
      BY <1>7 DEF ViewAdd, Enters
    <2> QED
      BY <1>7, <2>1, CallerListed, ViewAddStep
  <1> QED
    BY <1>1, <1>2, <1>3, <1>4, <1>5, <1>6, <1>7

LEMMA LabelsNext ==
  ASSUME LabelsInv, CallsInv, Next
  PROVE  LabelsInv'
  <1>1. CASE \E id \in Ids : MainDelete(id) \/ \E v \in MainVals : MainAdd(id, v)
    BY <1>1, MainDeleteStep, MainAddStep
  <1>2. CASE \E name \in Names, s \in 0..Clock : Fork(name, s)
    BY <1>2, ForkStep
  <1>3. CASE \E a \in Agents :
               \/ \E n \in DOMAIN views, ends \in BOOLEAN : Call(a, n, ends)
               \/ Discard(a) \/ Merge(a) \/ End(a) \/ Close(a)
               \/ \E id \in Ids : ViewDelete(a, id) \/ \E v \in BranchVals : ViewAdd(a, id, v)
    BY <1>3, CallStep
  <1>4. CASE \E e \in DOMAIN mem.records : Promote(e) \/ Drop(e)
    BY <1>4, PromoteStep, DropStep
  <1>5. CASE \E id \in Ids : Erase(id)
    BY <1>5, EraseStep
  <1>6. CASE \E h \in Protected \cup {Clock + 1} : Purge(h)
    BY <1>6, PurgeStep
  <1> QED
    BY <1>1, <1>2, <1>3, <1>4, <1>5, <1>6 DEF Next

-----------------------------------------------------------------------------
(* The calls.                                                              *)

LEMMA CallsInitially ==
  ASSUME Init
  PROVE  CallsInv
  BY DEF Init, CallsInv, Outside, On

\* A step between two calls on branches, or of the loops of one.
LEMMA CallsStay ==
  ASSUME CallsInv, UNCHANGED <<branches, closed, calls>>, task'.name = task.name,
         DOMAIN views' = DOMAIN views, \A n \in DOMAIN views : views'[n].name = views[n].name
  PROVE  CallsInv'
  BY DEF CallsInv, Listed, Has, On

\* A call leaves the gate that neither merged nor discarded.
LEMMA CallsReturn ==
  ASSUME CallsInv, NEW a \in Agents, calls[a].at = "gate", Returns(a), UNCHANGED <<branches, closed, task>>,
         DOMAIN views' = DOMAIN views, \A n \in DOMAIN views : views'[n].name = views[n].name
  PROVE  CallsInv'
  <1>1. /\ calls'[a] = Outside /\ \A b \in Agents : b # a => calls'[b] = calls[b]
        /\ calls' \in [Agents -> [at : {"outside", "gate", "inside", "closing"}, on : Nat, ends : BOOLEAN]]
    BY DEF CallsInv, Returns, Outside
  <1>2. \A n \in DOMAIN views : Listed(n)' <=> Listed(n)
    BY DEF Listed, Has
  <1>3. \A n \in DOMAIN views \ closed :
          Listed(n)' \/ \E b \in Agents : calls'[b].at = "closing" /\ calls'[b].on = n
    BY <1>1, <1>2 DEF CallsInv
  <1> QED
    BY <1>1, <1>2, <1>3 DEF CallsInv, Outside, On

LEMMA CallsFork ==
  ASSUME LabelsInv, CallsInv, NEW name \in Names, NEW s \in 0..Clock, Fork(name, s)
  PROVE  CallsInv'
  <1> views \in Seq(AllViews)
    BY DEF LabelsInv
  <1>0. PICK k \in Nat : k = Len(views) + 1
    OBVIOUS
  <1>1. /\ name \notin DOMAIN branches /\ branches' = Put(branches, name, k)
        /\ UNCHANGED <<closed, calls, task>>
        /\ \E view : views' = Append(views, view) /\ view.name = name
    BY <1>0 DEF Fork, Has
  <1>2. /\ DOMAIN views' = DOMAIN views \cup {k} /\ k \notin DOMAIN views /\ views'[k].name = name
        /\ \A n \in DOMAIN views : views'[n] = views[n]
    BY <1>0, <1>1
  <1>3. /\ DOMAIN branches' = DOMAIN branches \cup {name} /\ branches'[name] = k
        /\ \A other \in DOMAIN branches : branches'[other] = branches[other]
    BY <1>1 DEF Put
  <1>4. Listed(k)' /\ \A n \in DOMAIN views : Listed(n) => Listed(n)'
    BY <1>2, <1>3 DEF Listed, Has
  <1>5. \A a \in Agents : calls[a].at # "outside" =>
          calls[a].on \in DOMAIN views /\ views'[calls[a].on].name = views[calls[a].on].name
    BY <1>2 DEF CallsInv
  <1>6. \A a \in Agents : calls[a].at \in {"gate", "inside"} => Listed(calls[a].on)'
    BY <1>1, <1>4, <1>5 DEF CallsInv
  <1>7. \A n \in DOMAIN views' \ closed :
          Listed(n)' \/ \E a \in Agents : calls[a].at = "closing" /\ calls[a].on = n
    BY <1>2, <1>4 DEF CallsInv
  <1> QED
    BY <1>1, <1>2, <1>5, <1>6, <1>7 DEF CallsInv, On

\* Nobody begins a call on a view that another is to close, nor to close one that
\* another has a call on.
LEMMA CallsCall ==
  ASSUME CallsInv, ~Overlaps, NEW a \in Agents, NEW n \in DOMAIN views, NEW ends \in BOOLEAN,
         Call(a, n, ends), DOMAIN views \subseteq Nat
  PROVE  CallsInv'
  <1> DEFINE call == [at |-> "gate", on |-> n, ends |-> ends]
  <1>1. /\ calls[a].at = "outside" /\ n \notin closed
        /\ \A b \in Agents : On(b, n) => ~ends /\ ~calls[b].ends
        /\ calls' = [calls EXCEPT ![a] = call] /\ UNCHANGED <<branches, views, closed, task>>
    BY DEF Call, Outside
  <1>2. /\ calls'[a] = call /\ \A b \in Agents : b # a => calls'[b] = calls[b]
        /\ calls' \in [Agents -> [at : {"outside", "gate", "inside", "closing"}, on : Nat, ends : BOOLEAN]]
    BY <1>1 DEF CallsInv
  <1>3. call.at = "gate" /\ call.on = n /\ call.ends = ends
    OBVIOUS
  <1> HIDE DEF call
  <1>4. Listed(n)
    BY <1>1 DEF CallsInv, On
  <1>5. \A m : Listed(m)' <=> Listed(m)
    BY <1>1 DEF Listed, Has
  <1>6. \A m \in DOMAIN views \ closed :
          Listed(m) \/ \E b \in Agents : calls'[b].at = "closing" /\ calls'[b].on = m
    BY <1>1, <1>2 DEF CallsInv
  <1>7. ASSUME NEW b \in Agents, NEW c \in Agents, b # c, calls'[b].at # "outside",
               calls'[c].at # "outside", calls'[c].on = calls'[b].on
        PROVE  ~calls'[b].ends
    <2>1. CASE b = a
      BY <2>1, <1>1, <1>2, <1>3, <1>7 DEF On
    <2>2. CASE c = a
      BY <2>2, <1>1, <1>2, <1>3, <1>7 DEF On
    <2>3. CASE b # a /\ c # a
      BY <2>3, <1>2, <1>7 DEF CallsInv, On
    <2> QED
      BY <2>1, <2>2, <2>3
  <1> QED
    BY <1>1, <1>2, <1>3, <1>4, <1>5, <1>6, <1>7 DEF CallsInv, On

LEMMA CallsBegin ==
  ASSUME LabelsInv, CallsInv, NEW a \in Agents, NEW promote, NEW erase, NEW shows,
         Begin(a, promote, erase, shows)
  PROVE  CallsInv'
  <1> DEFINE call == [calls[a] EXCEPT !.at = "inside"]
  <1>1. /\ Free /\ calls[a].at = "gate" /\ calls[a].ends /\ task'.name = views[calls[a].on].name
        /\ calls' = [calls EXCEPT ![a] = call] /\ UNCHANGED <<branches, views, closed>>
    BY DEF Begin, Enters
  <1>2. /\ call.at = "inside" /\ call.on = calls[a].on /\ call.ends = calls[a].ends
        /\ call \in [at : {"outside", "gate", "inside", "closing"}, on : Nat, ends : BOOLEAN]
    BY DEF CallsInv
  <1> HIDE DEF call
  <1>3. /\ calls'[a] = call /\ \A b \in Agents : b # a => calls'[b] = calls[b]
        /\ calls' \in [Agents -> [at : {"outside", "gate", "inside", "closing"}, on : Nat, ends : BOOLEAN]]
    BY <1>1, <1>2 DEF CallsInv
  <1>4. \A b \in Agents : calls[b].at # "inside"
    BY <1>1, CallerInside
  <1>5. \A m : Listed(m)' <=> Listed(m)
    BY <1>1 DEF Listed, Has
  <1>6. \A m \in DOMAIN views \ closed :
          Listed(m) \/ \E b \in Agents : calls'[b].at = "closing" /\ calls'[b].on = m
    BY <1>1, <1>3 DEF CallsInv
  <1>7. \A b \in Agents : /\ calls'[b].on = calls[b].on /\ calls'[b].ends = calls[b].ends
                          /\ calls'[b].at # "outside" <=> calls[b].at # "outside"
    BY <1>1, <1>2, <1>3
  <1>8. \A b, c \in Agents : b # c /\ calls'[b].at # "outside" /\ On(c, calls[b].on)' => ~calls'[b].ends
    BY <1>7 DEF CallsInv, On
  <1>9. \A b \in Agents : calls'[b].at = "inside" => b = a
    BY <1>3, <1>4
  <1> QED
    BY <1>1, <1>2, <1>3, <1>5, <1>6, <1>7, <1>8, <1>9 DEF CallsInv, On

\* The branch is gone for nobody but the one who ends it.
LEMMA CallsEnd ==
  ASSUME LabelsInv, CallsInv, NEW a \in Agents, End(a)
  PROVE  CallsInv'
  <1> DEFINE call == [calls[a] EXCEPT !.at = "closing"]
             n == calls[a].on
  <1>1. /\ calls[a].at = "inside" /\ branches' = Without(branches, {views[n].name})
        /\ calls' = [calls EXCEPT ![a] = call] /\ UNCHANGED <<views, closed>>
    BY DEF End, Release
  <1>2. /\ call.at = "closing" /\ call.on = n /\ call.ends = calls[a].ends /\ calls[a].ends
        /\ call \in [at : {"outside", "gate", "inside", "closing"}, on : Nat, ends : BOOLEAN]
    BY <1>1 DEF CallsInv
  <1> HIDE DEF call
  <1>3. /\ calls'[a] = call /\ \A b \in Agents : b # a => calls'[b] = calls[b]
        /\ calls' \in [Agents -> [at : {"outside", "gate", "inside", "closing"}, on : Nat, ends : BOOLEAN]]
    BY <1>1, <1>2 DEF CallsInv
  <1>4. Listed(n) /\ n \in DOMAIN views
    BY <1>1 DEF CallsInv
  <1>5. \A m \in DOMAIN views : m # n /\ Listed(m) => Listed(m)'
    BY <1>1, <1>4 DEF Listed, Has, Without
  <1>6. \A b \in Agents : b # a /\ calls[b].at # "outside" => calls[b].on # n
    BY <1>1, <1>2 DEF CallsInv, On
  <1>7. \A b \in Agents : b # a => calls[b].at # "inside"
    <2>1. \A b \in Agents : calls[b].at = "inside" => calls[b].on = branches[task.name]
      BY CallerInside
    <2> QED
      BY <1>1, <1>6, <2>1
  <1>8. \A b \in Agents : /\ calls'[b].on = calls[b].on /\ calls'[b].ends = calls[b].ends
                          /\ calls'[b].at # "outside" <=> calls[b].at # "outside"
    BY <1>1, <1>2, <1>3
  <1>9. \A b, c \in Agents : b # c /\ calls'[b].at # "outside" /\ On(c, calls[b].on)' => ~calls'[b].ends
    BY <1>8 DEF CallsInv, On
  <1>10. \A m \in DOMAIN views \ closed :
           Listed(m)' \/ \E b \in Agents : calls'[b].at = "closing" /\ calls'[b].on = m
    <2>1. ASSUME NEW m \in DOMAIN views \ closed, m # n
          PROVE  Listed(m) \/ \E b \in Agents : b # a /\ calls[b].at = "closing" /\ calls[b].on = m
      BY <2>1, <1>1 DEF CallsInv
    <2> QED
      BY <2>1, <1>2, <1>3, <1>5
  <1>11. \A b \in Agents : calls'[b].at \in {"gate", "inside"} => Listed(calls[b].on)'
    BY <1>2, <1>3, <1>5, <1>6 DEF CallsInv
  <1>12. \A b \in Agents : calls'[b].at # "inside"
    BY <1>2, <1>3, <1>7
  <1> QED
    BY <1>1, <1>2, <1>3, <1>8, <1>9, <1>10, <1>11, <1>12 DEF CallsInv, On

LEMMA CallsClose ==
  ASSUME CallsInv, NEW a \in Agents, Close(a)
  PROVE  CallsInv'
  <1>1. /\ calls[a].at = "closing" /\ closed' = closed \cup {calls[a].on}
        /\ calls'[a] = Outside /\ \A b \in Agents : b # a => calls'[b] = calls[b]
        /\ calls' \in [Agents -> [at : {"outside", "gate", "inside", "closing"}, on : Nat, ends : BOOLEAN]]
        /\ UNCHANGED <<branches, views, task>>
    BY DEF CallsInv, Close, Returns, Outside
  <1>2. calls[a].on \in DOMAIN views
    BY <1>1 DEF CallsInv
  <1>3. \A m : Listed(m)' <=> Listed(m)
    BY <1>1 DEF Listed, Has
  <1>4. \A m \in DOMAIN views \ closed' :
          Listed(m) \/ \E b \in Agents : calls'[b].at = "closing" /\ calls'[b].on = m
    BY <1>1 DEF CallsInv
  <1> QED
    BY <1>1, <1>2, <1>3, <1>4 DEF CallsInv, Outside, On

\* What a call writes into its view is not what the calls are about.
LEMMA CallsWrite ==
  ASSUME LabelsInv, CallsInv, NEW a \in Agents, NEW id \in Ids,
         ViewDelete(a, id) \/ \E v \in BranchVals : ViewAdd(a, id, v)
  PROVE  CallsInv'
  <1>1. calls[a].at = "gate" /\ Returns(a) /\ UNCHANGED <<branches, closed, task>>
    BY DEF ViewDelete, ViewAdd, Enters
  <1>2. \E d, w : views' = [views EXCEPT ![calls[a].on].deleted = d, ![calls[a].on].wrote = w]
    BY DEF ViewDelete, ViewAdd
  <1>3. views \in Seq(AllViews) /\ calls[a].on \in DOMAIN views
    BY <1>1 DEF CallsInv, LabelsInv
  <1>4. DOMAIN views' = DOMAIN views /\ \A n \in DOMAIN views : views'[n].name = views[n].name
    <2>1. PICK d, w : views' = [views EXCEPT ![calls[a].on].deleted = d, ![calls[a].on].wrote = w]
      BY <1>2
    <2>2. views[calls[a].on] \in AllViews
      BY <1>3
    <2> QED
      BY <2>1, <2>2 DEF AllViews
  <1> QED
    BY <1>1, <1>4, CallsReturn

LEMMA CallsNext ==
  ASSUME LabelsInv, CallsInv, ~Overlaps, Next
  PROVE  CallsInv'
  <1>1. CASE \E id \in Ids : MainDelete(id) \/ \E v \in MainVals : MainAdd(id, v)
    BY <1>1, CallsStay DEF MainDelete, MainAdd
  <1>2. CASE \E name \in Names, s \in 0..Clock : Fork(name, s)
    BY <1>2, CallsFork
  <1>3. ASSUME NEW a \in Agents,
               \/ \E n \in DOMAIN views, ends \in BOOLEAN : Call(a, n, ends)
               \/ Discard(a) \/ Merge(a) \/ End(a) \/ Close(a)
               \/ \E id \in Ids : ViewDelete(a, id) \/ \E v \in BranchVals : ViewAdd(a, id, v)
        PROVE  CallsInv'
    <2>1. DOMAIN views \subseteq Nat
      BY DEF LabelsInv
    <2>2. CASE \E n \in DOMAIN views, ends \in BOOLEAN : Call(a, n, ends)
      BY <2>1, <2>2, CallsCall
    <2>3. CASE Discard(a) \/ Merge(a)
      BY <2>3, CallsBegin DEF Discard, Merge
    <2>4. CASE End(a) \/ Close(a)
      BY <2>4, CallsEnd, CallsClose
    <2>5. CASE \E id \in Ids : ViewDelete(a, id) \/ \E v \in BranchVals : ViewAdd(a, id, v)
      BY <2>5, CallsWrite
    <2> QED
      BY <1>3, <2>2, <2>3, <2>4, <2>5
  <1>4. CASE \/ \E e \in DOMAIN mem.records : Promote(e) \/ Drop(e)
             \/ \E id \in Ids : Erase(id)
    <2>1. UNCHANGED <<branches, views, closed, calls>>
      BY <1>4 DEF Promote, Drop, Erase
    <2>2. task'.name = task.name
      BY <1>4 DEF Promote, Drop, Erase, LabelsInv
    <2> QED
      BY <2>1, <2>2, CallsStay
  <1>5. CASE \E h \in Protected \cup {Clock + 1} : Purge(h)
    BY <1>5, CallsStay DEF Purge
  <1> QED
    BY <1>1, <1>2, <1>3, <1>4, <1>5 DEF Next

-----------------------------------------------------------------------------
(* The theorems.                                                           *)

\* The invariant holds as long as nobody merges or discards a branch while another
\* thread has a call on it: the index, the records and the history tell one story,
\* each live row is main's or an open branch's, a merge or discard that is under
\* way has exactly what it has not done yet left to do, and whoever is past
\* _check_open still has an open branch when the gate is his (_View, _merge, _discard).
THEOREM LabelsInvHolds ==
  ASSUME ~Overlaps
  PROVE  Spec => [](LabelsInv /\ CallsInv)
  <1>1. Init => LabelsInv /\ CallsInv
    BY LabelsInitially, CallsInitially
  <1>2. LabelsInv /\ CallsInv /\ [Next]_vars => (LabelsInv /\ CallsInv)'
    <2>1. ASSUME LabelsInv, CallsInv, UNCHANGED vars
          PROVE  LabelsInv' /\ CallsInv'
      BY <2>1, LabelsStay, CallsStay DEF vars
    <2> QED
      BY <2>1, LabelsNext, CallsNext
  <1> QED
    BY <1>1, <1>2, PTL DEF Spec

LEMMA SoundInv ==
  ASSUME LabelsInv, CallsInv
  PROVE  MemorySound
  <1>1. /\ MemSound(mem) /\ Clock \in Nat /\ Clock <= MaxClock /\ MaxClock \in Nat
        /\ horizon \in 0..Clock + 1 /\ Timed
    BY MemFacts DEF LabelsInv, Clock, MemSound
  <1>2. DOMAIN mem.history = DOMAIN mem.records /\ DOMAIN mem.records \subseteq Ids \X (0..MaxBranches)
    BY <1>1 DEF MemSound, Engines, Bits
  <1>3. \A e \in DOMAIN mem.records : mem.records[e].id = e[1]
    BY <1>1, MemFacts
  <1>4. /\ DOMAIN branches \subseteq Names
        /\ \A name \in DOMAIN branches : branches[name] \in DOMAIN views /\ Open(name).name = name
    BY OwnRows
  <1>5. \A n \in DOMAIN views : views[n].deleted \subseteq Ids /\ Has(timeline, views[n].base)
    <2>1. ASSUME NEW n \in DOMAIN views
          PROVE  views[n] \in AllViews
      BY DEF LabelsInv
    <2> QED
      BY <2>1 DEF LabelsInv, AllViews
  <1>6. horizon \in 0..MaxClock + 1 /\ Clock \in 0..MaxClock
    BY <1>1
  <1>7. TypeOK
    BY <1>2, <1>3, <1>4, <1>5, <1>6 DEF TypeOK, CallsInv
  <1>8. RecordsMatch
    <2>1. ASSUME NEW e \in DOMAIN mem.records, Live(mem, e)
          PROVE  e \in OpenIds(mem.index)
      BY <1>1, <2>1, MemFacts DEF OpenIds, OpenRows
    <2>2. ASSUME NEW v \in mem.index.rows, v.to = Forever
          PROVE  v.id \in DOMAIN mem.records /\ Live(mem, v.id)
      BY <1>1, <2>2, MemFacts DEF Has
    <2> QED
      BY <2>1, <2>2 DEF RecordsMatch, OpenIds, OpenRows
  <1> QED
    BY <1>7, <1>8 DEF MemorySound, LabelsInv

\* The books of the memory agree at every step, those of a merge and a discard
\* included: the bits in use are those of the open branches, one each, and a
\* record is live exactly where the engine has an open row (_release, merge,
\* discard, purge).
THEOREM MemoryIsSound ==
  ASSUME ~Overlaps
  PROVE  Spec => []MemorySound
  BY LabelsInvHolds, SoundInv, PTL

\* The open rows that no branch has are main's.
LEMMA MainRows ==
  ASSUME LabelsInv
  PROVE  Searched(Latest, {}, used \ {MAIN}) = {v \in AsOf(mem.index, Clock) : v.id[2] = MAIN}
  <1>1. IndexSound(mem.index) /\ mem.index.clock < Forever /\ MemSound(mem)
    BY MemFacts, Bounds DEF LabelsInv
  <1>2. OpenRows(mem.index) = AsOf(mem.index, Clock)
    BY <1>1, AsOfNow DEF Clock
  <1>3. ASSUME NEW v \in OpenRows(mem.index)
        PROVE  Carries(v.label, {}, {}, used \ {MAIN}) <=> v.id[2] = MAIN
    <2>1. v.label = {v.id[2]} /\ Live(mem, v.id) /\ v.id \in DOMAIN mem.records
      BY <1>1, RowFacts, MemFacts DEF OpenRows, Has
    <2>2. Belongs(mem, v.id)
      BY <2>1 DEF LabelsInv
    <2>3. v.id[2] \in used
      BY <2>2 DEF Belongs, LabelsInv, BitsApart
    <2> QED
      BY <2>1, <2>3 DEF Carries
  <1> QED
    BY <1>2, <1>3 DEF Searched, Latest

LEMMA MainInv ==
  ASSUME LabelsInv
  PROVE  MainSees
  <1> SUFFICES ASSUME Free
               PROVE  MainSearch(Latest) = Now
    BY DEF MainSees
  <1> DEFINE S == {v \in AsOf(mem.index, Clock) : v.id[2] = MAIN}
  <1>1. IndexSound(mem.index) /\ mem.index.clock < Forever /\ MemSound(mem)
    BY MemFacts, Bounds DEF LabelsInv
  <1>2. ASSUME NEW v \in S
        PROVE  /\ RecordAt(v.id, Latest) = mem.records[v.id]
               /\ mem.records[v.id].id = v.id[1] /\ mem.records[v.id].val = v.val
    <2>1. v \in mem.index.rows /\ v.to = Forever
      BY <1>1, AsOfNow DEF OpenRows, Clock
    <2> QED
      BY <1>1, <2>1, MemFacts DEF RecordAt, Has
  <1>3. MainSearch(Latest) = Shown(S, Latest)
    BY MainRows DEF MainSearch
  <1> HIDE DEF S
  <1>4. Shown(S, Latest) = {<<v.id[1], v.val>> : v \in S}
    BY <1>2 DEF Shown
  <1>5. Held(mem, Clock) = {<<v.id[1], v.val>> : v \in S}
    BY DEF Held, S
  <1> QED
    BY <1>3, <1>4, <1>5, NowHeld

\* When no merge or discard is under way, a search of main shows what was written
\* on main and merged into it, and no row of an open, discarded or merged branch.
THEOREM MainIsSeen ==
  ASSUME ~Overlaps
  PROVE  Spec => []MainSees
  BY LabelsInvHolds, MainInv, PTL

\* The payload as of a snapshot that a row is in is the row's own.
LEMMA RecordThen ==
  ASSUME LabelsInv, NEW s \in Nat, s # Latest, NEW v \in AsOf(mem.index, s)
  PROVE  RecordAt(v.id, s).id = v.id[1] /\ RecordAt(v.id, s).val = v.val
  <1> DEFINE seq == mem.history[v.id]
             at == {n \in DOMAIN seq : seq[n].stamp <= s}
             Last(n) == \A m \in at : m <= n
  <1>1. IndexSound(mem.index) /\ MemSound(mem)
    BY MemFacts DEF LabelsInv
  <1>2. v \in mem.index.rows /\ v.from <= s /\ s < v.to /\ v.from \in Nat /\ v.to \in Nat
    BY <1>1, RowFacts DEF AsOf
  <1>3. seq \in Seq(Stamps) /\ Written(seq, v)
    BY <1>1, <1>2, MemFacts DEF Has
  <1>4. PICK n \in DOMAIN seq :
          /\ seq[n] = [stamp |-> v.from, id |-> v.id[1], val |-> v.val]
          /\ \A k \in DOMAIN seq : k > n => seq[k].stamp >= v.to
    BY <1>3 DEF Written
  <1>5. \A k \in DOMAIN seq : seq[k] \in Stamps /\ k \in Nat
    BY <1>3
  <1>6. \A k \in DOMAIN seq : seq[k].stamp \in Nat
    BY <1>5 DEF Stamps
  <1>7. RecordAt(v.id, s) = seq[CHOOSE k \in at : Last(k)]
    BY DEF RecordAt
  <1> HIDE DEF seq
  <1>8. n \in at
    BY <1>2, <1>4
  <1>9. \A k \in at : k <= n
    BY <1>2, <1>4, <1>5, <1>6
  <1>10. \A k \in at : Last(k) => k = n
    BY <1>5, <1>8, <1>9
  <1>11. Last(n)
    BY <1>9
  <1> HIDE DEF Last, at
  <1>12. (CHOOSE k \in at : Last(k)) = n
    BY <1>8, <1>10, <1>11
  <1>13. RecordAt(v.id, s) = [stamp |-> v.from, id |-> v.id[1], val |-> v.val]
    BY <1>4, <1>7, <1>12
  <1> QED
    BY <1>13

\* What a branch has stored, as a search with its bit shows it.
LEMMA OwnShown ==
  ASSUME LabelsInv, NEW name \in DOMAIN branches
  PROVE  Shown(Searched(Latest, {Open(name).bit}, {}), Latest)
           = {<<e[1], mem.records[e].val>> : e \in OwnLive(mem, Open(name).bit)}
  <1> DEFINE bit == Open(name).bit
             S == {v \in OpenRows(mem.index) : v.id[2] = bit}
  <1>1. IndexSound(mem.index) /\ MemSound(mem)
    BY MemFacts DEF LabelsInv
  <1>2. Searched(Latest, {bit}, {}) = S
    <2>1. \A v \in OpenRows(mem.index) : v.label = {v.id[2]}
      BY <1>1, RowFacts DEF OpenRows
    <2>2. \A v \in OpenRows(mem.index) : Carries(v.label, {}, {bit}, {}) <=> v.id[2] = bit
      BY <2>1 DEF Carries
    <2> HIDE DEF bit
    <2> QED
      BY <2>2 DEF Searched, Latest
  <1>3. ASSUME NEW v \in S
        PROVE  /\ RecordAt(v.id, Latest) = mem.records[v.id] /\ v.id \in OwnLive(mem, bit)
               /\ mem.records[v.id].id = v.id[1] /\ mem.records[v.id].val = v.val
    BY <1>1, MemFacts DEF RecordAt, Has, OpenRows, OwnLive
  <1>4. ASSUME NEW e \in OwnLive(mem, bit)
        PROVE  \E v \in S : v.id = e
    BY <1>1, MemFacts DEF OpenRows, OwnLive
  <1> HIDE DEF S, bit
  <1>5. Shown(S, Latest) = {<<v.id[1], mem.records[v.id].val>> : v \in S}
    BY <1>3 DEF Shown
  <1>6. Shown(S, Latest) = {<<e[1], mem.records[e].val>> : e \in OwnLive(mem, bit)}
    BY <1>3, <1>4, <1>5
  <1> QED
    BY <1>2, <1>6 DEF bit

\* Main as a branch that forked where no branch had a row sees it.
LEMMA BaseShown ==
  ASSUME LabelsInv, NEW name \in DOMAIN branches, CleanFork(Open(name))
  PROVE  LET s == Open(name).base IN
           /\ Sooner(s, Latest) = s /\ Has(timeline, s)
           /\ (IF s = 0 THEN {} ELSE Shown(Searched(s, {}, used \ {MAIN}), s)) = timeline[s]
  <1> DEFINE s == Open(name).base
             S == AsOf(mem.index, s)
  <1>1. IndexSound(mem.index) /\ MemSound(mem) /\ Clock \in Nat /\ Clock < Forever /\ Forever \in Nat /\ Timed
    BY MemFacts, Bounds DEF LabelsInv, Clock
  <1>2. Has(timeline, s) /\ s + 1 >= horizon
    BY OwnRows DEF LabelsInv, Opened, Open
  <1>3. s \in Nat /\ s < Forever /\ Held(mem, s) = timeline[s]
    BY <1>1, <1>2 DEF Timed, Has
  <1>4. \A v \in S : v.label = {v.id[2]} /\ v.label = {MAIN}
    BY <1>1, RowFacts DEF AsOf, CleanFork
  <1> HIDE DEF s
  <1>5. Held(mem, s) = {<<v.id[1], v.val>> : v \in S}
    BY <1>4 DEF Held
  <1>6. Searched(s, {}, used \ {MAIN}) = S
    <2>1. \A v \in S : Carries(v.label, {}, {}, used \ {MAIN})
      BY <1>4 DEF Carries
    <2> QED
      BY <1>3, <2>1 DEF Searched, Latest
  <1>7. \A v \in S : RecordAt(v.id, s).id = v.id[1] /\ RecordAt(v.id, s).val = v.val
    BY <1>3, RecordThen DEF Latest
  <1>8. s = 0 => S = {}
    BY <1>1, RowFacts DEF AsOf
  <1>9. Sooner(s, Latest) = s
    BY <1>3 DEF Sooner, Latest
  <1> HIDE DEF S
  <1>10. Shown(S, s) = {<<v.id[1], v.val>> : v \in S}
    BY <1>7 DEF Shown
  <1> QED
    BY <1>2, <1>3, <1>5, <1>6, <1>8, <1>9, <1>10 DEF s

LEMMA CleanInv ==
  ASSUME LabelsInv
  PROVE  CleanBranchSees
  <1> SUFFICES ASSUME Free, NEW name \in DOMAIN branches, CleanFork(Open(name))
               PROVE  Sees(Open(name))
    BY DEF CleanBranchSees
  <1> DEFINE view == Open(name)
             s == view.base
             base == IF s = 0 THEN {} ELSE Shown(Searched(s, {}, used \ {MAIN}), s)
             own == Shown(Searched(Latest, {view.bit}, {}), Latest)
             L == OwnLive(mem, view.bit)
  <1>1. Sooner(s, Latest) = s /\ base = timeline[s]
    BY BaseShown
  <1>2. own = {<<e[1], mem.records[e].val>> : e \in L}
    BY OwnShown
  <1>3. BranchSearch(view, Latest)
          = {p \in own \cup {q \in base : \A o \in own : o[1] # q[1]} : p[1] \notin view.deleted}
    BY <1>1 DEF BranchSearch
  <1>4. /\ DOMAIN view.wrote \subseteq Ids
        /\ \A id \in Ids :
             /\ id \in DOMAIN view.wrote <=> Live(mem, <<id, view.bit>>) /\ id \notin view.deleted
             /\ id \in DOMAIN view.wrote => mem.records[<<id, view.bit>>].val = view.wrote[id]
    BY OwnRows DEF LabelsInv, Opened, ViewHolds, Engine, Has, AllViews, Wrote
  <1>5. ASSUME NEW e \in L
        PROVE  e = <<e[1], view.bit>> /\ e[1] \in Ids /\ Live(mem, e)
    BY MemFacts DEF OwnLive, LabelsInv
  <1>6. ASSUME NEW id \in DOMAIN view.wrote
        PROVE  <<id, view.bit>> \in L
    BY <1>4 DEF OwnLive, Live, Has
  <1> HIDE DEF base, own, L, s, view
  <1>7. Pairs(view.wrote) = {p \in own : p[1] \notin view.deleted}
    <2>1. ASSUME NEW id \in DOMAIN view.wrote
          PROVE  <<id, view.wrote[id]>> \in own /\ id \notin view.deleted
      <3>1. <<id, mem.records[<<id, view.bit>>].val>> \in own
        BY <1>2, <1>6
      <3> QED
        BY <3>1, <1>4
    <2>2. ASSUME NEW e \in L, e[1] \notin view.deleted
          PROVE  e[1] \in DOMAIN view.wrote /\ mem.records[e].val = view.wrote[e[1]]
      BY <2>2, <1>4, <1>5
    <2> QED
      BY <2>1, <2>2, <1>2 DEF Pairs
  <1>8. ASSUME NEW q, q[1] \notin view.deleted
        PROVE  (\A o \in own : o[1] # q[1]) <=> q[1] \notin DOMAIN view.wrote
    <2>1. ASSUME NEW o \in own, o[1] = q[1]
          PROVE  q[1] \in DOMAIN view.wrote
      <3>1. PICK e \in L : o = <<e[1], mem.records[e].val>>
        BY <1>2
      <3> QED
        BY <3>1, <2>1, <1>4, <1>5, <1>8
    <2>2. ASSUME q[1] \in DOMAIN view.wrote
          PROVE  \E o \in own : o[1] = q[1]
      <3>1. <<q[1], view.bit>> \in L
        BY <2>2, <1>6
      <3>2. <<q[1], mem.records[<<q[1], view.bit>>].val>> \in own
        BY <3>1, <1>2
      <3> QED
        BY <3>2
    <2> QED
      BY <2>1, <2>2
  <1>9. BranchSearch(view, Latest)
          = Pairs(view.wrote) \cup {p \in timeline[s] : p[1] \notin DOMAIN view.wrote \cup view.deleted}
    BY <1>1, <1>3, <1>7, <1>8
  <1> QED
    BY <1>9 DEF Sees, view, s

\* When no merge or discard is under way, a branch that forked where no branch had
\* a row sees main as of its fork and its own writes, whatever main, its siblings
\* and purges did since (BranchView.search).
THEOREM CleanBranchIsSeen ==
  ASSUME ~Overlaps
  PROVE  Spec => []CleanBranchSees
  BY LabelsInvHolds, CleanInv, PTL

=============================================================================
