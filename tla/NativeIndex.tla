----------------------------- MODULE NativeIndex -----------------------------
(***************************************************************************)
(* The native index as the Python layers use it through native.py: a value *)
(* with a committed clock and the versions it holds, and one operator per  *)
(* call.  Every call is one step under the writer mutex of the engine;     *)
(* what happens inside it is the subject of ChronoIndex.  A value stands   *)
(* for a vector; where ranking matters it is the distance to the query.    *)
(***************************************************************************)
EXTENDS Naturals, Sequences, FiniteSets

CONSTANT Forever      \* the end of a version that is still open

EmptyIndex == [clock |-> 0, rows |-> {}]

OpenRows(ix) == {v \in ix.rows : v.to = Forever}
OpenIds(ix) == {v.id : v \in OpenRows(ix)}

\* What a search at snapshot s may return; the latest state is s = ix.clock.
AsOf(ix, s) == {v \in ix.rows : v.from <= s /\ s < v.to}

Row(id, val, label) == [id |-> id, val |-> val, label |-> label]
RowIds(new) == {n.id : n \in new}

\* One commit: the open versions of `gone' and of the new rows' ids end, the
\* new rows start, all at the next timestamp.
Commit(ix, gone, new) ==
  LET ts == ix.clock + 1
      ended == gone \cup RowIds(new)
  IN [clock |-> ts,
      rows |-> {IF v \in OpenRows(ix) /\ v.id \in ended THEN [v EXCEPT !.to = ts] ELSE v :
                  v \in ix.rows}
               \cup {[id |-> n.id, val |-> n.val, label |-> n.label,
                      from |-> ts, to |-> Forever] : n \in new}]

Insert(ix, row) == Commit(ix, {}, {row})
InsertMany(ix, new) == IF new = {} THEN ix ELSE Commit(ix, {}, new)

\* The caller checks that the id is open: delete raises KeyError otherwise.
Delete(ix, id) == Commit(ix, {id}, {})

ApplyChanges(ix, gone, new) ==
  IF gone = {} /\ new = {} THEN ix ELSE Commit(ix, gone, new)

\* Rows go one by one, each with its own timestamp, up to the first id that
\* has no open version: a repeated id has none the second time.
Removable(ix, ids, n) ==
  /\ \A k \in 1..n : ids[k] \in OpenIds(ix)
  /\ \A j, k \in 1..n : ids[j] = ids[k] => j = k

RemovedCount(ix, ids) ==
  CHOOSE n \in 0..Len(ids) :
    /\ Removable(ix, ids, n)
    /\ n < Len(ids) => ~Removable(ix, ids, n + 1)

DeleteMany(ix, ids) ==
  LET n == RemovedCount(ix, ids)
      At(v) == {k \in 1..n : ids[k] = v.id}
  IN [clock |-> ix.clock + n,
      rows |-> {IF v \in OpenRows(ix) /\ At(v) # {}
                THEN [v EXCEPT !.to = ix.clock + CHOOSE k \in At(v) : TRUE]
                ELSE v : v \in ix.rows}]

Vacuum(ix, oldest) == [ix EXCEPT !.rows = {v \in @ : v.to >= oldest}]

\* The k rows nearest to the query, for values that are distances; rows at one
\* distance rank by id.
Closer(v, w) == v.val < w.val \/ (v.val = w.val /\ v.id < w.id)
Nearest(S, k) == {v \in S : Cardinality({w \in S : Closer(w, v)}) < k}

\* The label filter: every bit of `all', one of `any' unless it asks for none,
\* and no bit of `none'.
Carries(label, all, any, none) ==
  /\ all \subseteq label
  /\ any = {} \/ any \cap label # {}
  /\ none \cap label = {}

=============================================================================
