--------------------------- MODULE BranchableMemory ---------------------------
(***************************************************************************)
(* branchable_memory.py: a main index with its records, their history and  *)
(* their version stamps, and branches that each own a private delta index. *)
(* A call on a branch looks at `closed' first and takes the write gate     *)
(* afterwards, so the calls of agents that share a branch interleave       *)
(* there.  What runs under the gate is one step (RWLock shows it may be).  *)
(* A value stands for a vector and the payload stored with it, and is its  *)
(* distance to the one query the searches ask.  Checkpoints are the        *)
(* subject of Generations.                                                 *)
(***************************************************************************)
EXTENDS NativeIndex, Functions

CONSTANTS Ids, Names, Agents, Nothing,
          Vals, BranchVals,  \* what main and what branches store
          Strategy,     \* "fail_on_conflict" or "last_writer_wins"
          Shared,       \* agents use branches other agents made (get_branch)
          DeepForks,    \* callers fork at snapshots below a horizon they purged
          MaxClock,     \* bound on the main index's clock
          MaxLocal,     \* bound on the writes of the open delta indexes together
          MaxBranches   \* bound on the branches ever made

ASSUME Bounds ==
  /\ Ids \subseteq Nat /\ IsFiniteSet(Ids)
  /\ Vals \cup BranchVals \subseteq Nat /\ Nothing \notin Nat \cup [at : {"gate", "closing"}, on : Nat]
  /\ MaxClock \in Nat /\ MaxLocal \in Nat
  /\ Forever \in Nat /\ MaxClock + 1 < Forever /\ MaxLocal < Forever

VARIABLES index,      \* _index
          records,    \* _records
          history,    \* _history
          versions,   \* _versions
          branches,   \* _branches: the number of the state each name stands for
          states,     \* every _BranchState ever made
          calls,      \* the state each agent's call is on, past _check_open
          horizon,    \* the largest horizon purged
          timeline    \* history variable: main's contents after each commit

stored == <<index, records, history, versions, horizon, timeline>>
vars == <<stored, branches, states, calls>>

Has(f, id) == id \in DOMAIN f
Over(f, g) == [x \in DOMAIN f \cup DOMAIN g |-> IF x \in DOMAIN f THEN f[x] ELSE g[x]]
Just(id, value) == [x \in {id} |-> value]
Put(f, id, value) == Over(Just(id, value), f)
Without(f, gone) == [id \in DOMAIN f \ gone |-> f[id]]
Numbers(f, id) == IF Has(f, id) THEN f[id] ELSE <<>>
LastUpTo(stamps, s) == {n \in DOMAIN stamps : stamps[n] <= s /\ \A m \in n + 1..Len(stamps) : stamps[m] > s}
Now == IF timeline = <<>> THEN {} ELSE timeline[Len(timeline)]

\* The history variable's next entry: `new' maps the ids stored to their values.
After(new, gone) ==
  {p \in Now : p[1] \notin DOMAIN new \cup gone} \cup {<<id, new[id]>> : id \in DOMAIN new}

Live(id) == Has(records, id) /\ records[id].deleted_at = Nothing

\* Mutant of version_at: the version main has now.
VersionNow(id, s) == LET seq == Numbers(versions, id) IN IF seq = <<>> THEN 0 ELSE seq[Len(seq)]

version_at(id, s) ==
  LET seq == Numbers(versions, id)
  IN IF LastUpTo(seq, s) = {} THEN 0 ELSE seq[CHOOSE n \in LastUpTo(seq, s) : TRUE]

\* The payload a search at snapshot s hands out: the last one stored by then.
record_at(id, s) ==
  LET seq == Numbers(history, id)
      at == LastUpTo([n \in DOMAIN seq |-> seq[n].stamp], s)
  IN IF at = {} THEN Nothing ELSE seq[CHOOSE n \in at : TRUE].val

record_now(id) == IF Has(records, id) THEN records[id].val ELSE Nothing

Hit(id, val, payload) == [id |-> id, val |-> val, payload |-> payload]
WithRecord(hits) == {h \in hits : h.payload # Nothing}

-----------------------------------------------------------------------------
(* Searches.                                                               *)

MainSearch(k) ==
  WithRecord({Hit(v.id, v.val, record_now(v.id)) : v \in Nearest(OpenRows(index), k)})

MainSearchAt(s, k) ==
  WithRecord({Hit(v.id, v.val, record_at(v.id, s)) : v \in Nearest(AsOf(index, s), k)})

BaseHits(b, k) ==
  LET padded == k + Cardinality(b.deleted)
  IN IF b.base = 0 THEN {}
     ELSE {h \in MainSearchAt(b.base, padded) : h.id \notin b.deleted}

DeltaHits(b, k) ==
  {Hit(v.id, v.val, b.records[v.id]) : v \in {w \in Nearest(OpenRows(b.delta), k) : Has(b.records, w.id)}}

\* The branch's own hits go over those of the fork, by id.
BranchHits(b, k) ==
  LET own == DeltaHits(b, k)
  IN own \cup {h \in BaseHits(b, k) : \A d \in own : d.id # h.id}

BranchSearch(b, k) == Nearest(BranchHits(b, k), k)

Everything == Cardinality(Ids)

-----------------------------------------------------------------------------
Init ==
  /\ index = EmptyIndex
  /\ records = <<>>
  /\ history = <<>>
  /\ versions = <<>>
  /\ branches = <<>>
  /\ states = <<>>
  /\ calls = [a \in Agents |-> Nothing]
  /\ horizon = 0
  /\ timeline = <<>>

\* Sequences by id, each of those that `entries' names one entry longer.
Logged(f, entries) ==
  [id \in DOMAIN f \cup DOMAIN entries |->
     IF id \in DOMAIN entries THEN Append(Numbers(f, id), entries[id]) ELSE f[id]]

\* Mutant of Stored: what a merge deletes is not marked as deleted.
StoredUnmarked(new, gone, stamp) ==
  /\ records' = Over([id \in DOMAIN new |-> [val |-> new[id], deleted_at |-> Nothing]], records)
  /\ history' = Logged(history, [id \in DOMAIN new |-> [stamp |-> stamp, val |-> new[id]]])
  /\ versions' = Logged(versions, [id \in DOMAIN new \cup gone |-> stamp])

\* The bookkeeping of a commit: `new' maps the ids stored to their values.
Stored(new, gone, stamp) ==
  /\ records' = Over([id \in DOMAIN new |-> [val |-> new[id], deleted_at |-> Nothing]],
                     [id \in DOMAIN records |->
                        IF id \in gone THEN [records[id] EXCEPT !.deleted_at = stamp] ELSE records[id]])
  /\ history' = Logged(history, [id \in DOMAIN new |-> [stamp |-> stamp, val |-> new[id]]])
  /\ versions' = Logged(versions, [id \in DOMAIN new \cup gone |-> stamp])

Add(id, v) ==
  /\ index.clock < MaxClock
  /\ index' = Insert(index, Row(id, v, {}))
  /\ Stored(Just(id, v), {}, index'.clock)
  /\ timeline' = Append(timeline, After(Just(id, v), {}))
  /\ UNCHANGED <<branches, states, calls, horizon>>

\* The engine raises KeyError for an id that is not there.
DeleteRecord(id) ==
  /\ index.clock < MaxClock
  /\ id \in OpenIds(index)
  /\ index' = Delete(index, id)
  /\ Stored(<<>>, {id}, index'.clock)
  /\ timeline' = Append(timeline, After(<<>>, {id}))
  /\ UNCHANGED <<branches, states, calls, horizon>>

NewState(a, name, s) ==
  [name |-> name, base |-> s, agent |-> a, delta |-> EmptyIndex, open |-> TRUE,
   records |-> <<>>, deleted |-> {}, expected |-> <<>>, closed |-> FALSE]

Fork(a, name, s) ==
  /\ ~Has(branches, name) /\ Len(states) < MaxBranches
  /\ s <= index.clock
  /\ DeepForks \/ s + 1 >= horizon
  /\ states' = Append(states, NewState(a, name, s))
  /\ branches' = Put(branches, name, Len(states) + 1)
  /\ UNCHANGED <<stored, calls>>

\* Mutant of Protected: the fork point itself may go.
ProtectedAfter == {states[branches[n]].base + 2 : n \in DOMAIN branches}

Protected == {states[branches[n]].base + 1 : n \in DOMAIN branches}

\* Mutant of Stale: records deleted at the horizon go as well.
StaleAt(h) == {id \in DOMAIN records : ~Live(id) /\ records[id].deleted_at <= h}

Stale(h) == {id \in DOMAIN records : ~Live(id) /\ records[id].deleted_at < h}

Purge(h) ==
  /\ \A p \in Protected : h <= p
  /\ index' = Vacuum(index, h)
  /\ records' = Without(records, Stale(h))
  /\ history' = Without(history, Stale(h))
  /\ versions' = Without(versions, Stale(h))
  /\ horizon' = IF h > horizon THEN h ELSE horizon
  /\ UNCHANGED <<branches, states, calls, timeline>>

-----------------------------------------------------------------------------
(* Calls on a branch: Call is _check_open; which call it is is said where  *)
(* the gate lets it in.                                                    *)

Call(a, n) ==
  /\ calls[a] = Nothing
  /\ n \in DOMAIN states /\ ~states[n].closed
  /\ Shared \/ states[n].agent = a
  /\ calls' = [calls EXCEPT ![a] = [at |-> "gate", on |-> n]]
  /\ UNCHANGED <<stored, branches, states>>

\* The open deltas together stay below their bound, and so does each of them.
RoomToWrite == FoldFunction(+, 0, [m \in DOMAIN states |-> states[m].delta.clock]) < MaxLocal
MayWrite(n) == RoomToWrite /\ states[n].delta.clock < MaxLocal

In(a, place) == calls[a] # Nothing /\ calls[a].at = place
Return(a) == calls' = [calls EXCEPT ![a] = Nothing]

touch(b, id) ==
  IF Has(b.expected, id) THEN b.expected ELSE Put(b.expected, id, version_at(id, b.base))

\* A closed delta refuses the insert, after the touch.
BranchAdd(a, id, v) ==
  /\ In(a, "gate")
  /\ LET n == calls[a].on
         b == [states[n] EXCEPT !.expected = touch(states[n], id)]
     IN /\ MayWrite(n)
        /\ states' = [states EXCEPT ![n] =
             IF ~b.open THEN b
             ELSE [b EXCEPT !.delta = Insert(@, Row(id, v, {})),
                            !.records = Put(@, id, v),
                            !.deleted = @ \ {id}]]
  /\ Return(a)
  /\ UNCHANGED <<stored, branches>>

\* Mutant of Forgotten: the delta forgets the vector, the branch keeps the record.
ForgottenInDelta(b, id) == IF ~Has(b.records, id) THEN b ELSE [b EXCEPT !.delta = Delete(@, id)]

\* What a delete takes out of the branch's own writes.
Forgotten(b, id) ==
  IF ~Has(b.records, id) THEN b
  ELSE [b EXCEPT !.delta = Delete(@, id), !.records = Without(@, {id})]

BranchDelete(a, id) ==
  /\ In(a, "gate")
  /\ LET n == calls[a].on
         b == [states[n] EXCEPT !.expected = touch(states[n], id)]
         refused == ~b.open /\ Has(b.records, id)
         left == Forgotten(b, id)
     IN /\ Has(b.records, id) => MayWrite(n)
        /\ states' = [states EXCEPT ![n] =
             IF refused THEN b
             ELSE [left EXCEPT !.deleted = @ \cup {id},
                               !.delta = Vacuum(@, @.clock + 1)]]
  /\ Return(a)
  /\ UNCHANGED <<stored, branches>>

Conflicts(b) ==
  {id \in DOMAIN b.expected :
     b.expected[id] # LET seq == Numbers(versions, id) IN IF seq = <<>> THEN 0 ELSE seq[Len(seq)]}

\* The branch is taken off the list by name, and its delta is closed.
Release(n) ==
  /\ branches' = Without(branches, {states[n].name})
  /\ states' = [states EXCEPT ![n].open = FALSE, ![n].delta = EmptyIndex]

\* Afterwards, outside of the gate, the state is marked closed.
Closing(a) == calls' = [calls EXCEPT ![a].at = "closing"]

Fails(b) == Strategy = "fail_on_conflict" /\ Conflicts(b) # {}

MergeRefused(a) ==
  /\ In(a, "gate")
  /\ LET b == states[calls[a].on]
     IN /\ Fails(b)
        /\ IF Has(branches, b.name) THEN Return(a) ELSE Closing(a)
  /\ UNCHANGED <<stored, branches, states>>

MergeBranch(a) ==
  /\ In(a, "gate")
  /\ LET b == states[calls[a].on]
         promoted == b.records
         gone == {id \in b.deleted : Live(id)}
         idle == gone = {} /\ DOMAIN promoted = {}
     IN /\ ~Fails(b)
        /\ idle \/ index.clock < MaxClock
        /\ index' = ApplyChanges(index, gone, {Row(id, promoted[id], {}) : id \in DOMAIN promoted})
        /\ Stored(promoted, gone, index'.clock)
        /\ timeline' = IF idle THEN timeline ELSE Append(timeline, After(promoted, gone))
  /\ Release(calls[a].on)
  /\ Closing(a)
  /\ UNCHANGED horizon

DiscardBranch(a) ==
  /\ In(a, "gate")
  /\ Release(calls[a].on)
  /\ Closing(a)
  /\ UNCHANGED stored

\* What a closed state holds is forgotten here if no call is on it: nothing
\* will read it.
Spent(b) == [NewState(b.agent, b.name, 0) EXCEPT !.open = FALSE, !.closed = TRUE]

Close(a) ==
  /\ In(a, "closing")
  /\ LET n == calls[a].on
         alone == \A c \in Agents \ {a} : calls[c] = Nothing \/ calls[c].on # n
     IN states' = [states EXCEPT ![n] = IF alone THEN Spent(@) ELSE [@ EXCEPT !.closed = TRUE]]
  /\ Return(a)
  /\ UNCHANGED <<stored, branches>>

Main ==
  \/ \E id \in Ids : DeleteRecord(id) \/ \E v \in Vals : Add(id, v)
  \/ \E h \in Protected \cup {index.clock + 1} : Purge(h)
  \/ \E a \in Agents, name \in Names, s \in 0..index.clock : Fork(a, name, s)

Branch(a) ==
  \/ \E n \in DOMAIN states : Call(a, n)
  \/ \E id \in Ids : BranchDelete(a, id) \/ \E v \in BranchVals : BranchAdd(a, id, v)
  \/ MergeRefused(a) \/ MergeBranch(a) \/ DiscardBranch(a) \/ Close(a)

Next == Main \/ \E a \in Agents : Branch(a)

Spec == Init /\ [][Next]_vars

-----------------------------------------------------------------------------
(* Properties.                                                             *)

\* What a set of hits shows, as pairs; a vector with the payload of another
\* write is shown as Nothing.
Shown(hits) == {<<h.id, IF h.val = h.payload THEN h.val ELSE Nothing>> : h \in hits}

Maps(f, S, T) == DOMAIN f \subseteq S /\ \A x \in DOMAIN f : f[x] \in T
Stamp == 0..MaxClock

TypeOK ==
  /\ index.clock \in Stamp
  /\ Maps(records, Ids, [val : Vals \cup BranchVals, deleted_at : Stamp \cup {Nothing}])
  /\ DOMAIN history = DOMAIN records /\ DOMAIN versions = DOMAIN records
  /\ \A id \in DOMAIN versions : versions[id] \in Seq(Stamp) /\ versions[id] # <<>>
  /\ Maps(branches, Names, DOMAIN states)
  /\ \A n \in DOMAIN states :
       LET b == states[n]
       IN /\ Maps(b.records, Ids, BranchVals) /\ b.deleted \subseteq Ids
          /\ Maps(b.expected, Ids, 0..b.base)
          /\ b.delta.clock \in 0..MaxLocal /\ (b.open => OpenIds(b.delta) = DOMAIN b.records)
  /\ horizon \in 0..MaxClock + 1
  /\ Len(timeline) = index.clock

\* A search as of a snapshot no purge reached gives what main held then, each
\* vector with the payload it was stored with, whatever was written, merged,
\* deleted or purged since.
Snapshots ==
  \A s \in 1..index.clock :
    s + 1 >= horizon => Shown(MainSearchAt(s, Everything)) = timeline[s]

\* The records say which ids are live as the engine does (a merge deletes by
\* the records, and the engine raises for an id it does not have).
RecordsMatch == {id \in DOMAIN records : Live(id)} = OpenIds(index)

\* The conflicts reported are the ids main really changed since the fork.
ConflictsTrue ==
  \A name \in DOMAIN branches :
    LET b == states[branches[name]]
    IN Conflicts(b) \subseteq
         {id \in DOMAIN b.expected :
            \E v \in index.rows : v.id = id /\ (v.from > b.base \/ v.to \in b.base + 1..index.clock)}

\* A branch search for k returns the k nearest of what the branch sees ("An
\* update doesn't shrink the pool").
TopK ==
  \A name \in DOMAIN branches :
    LET b == states[branches[name]]
    IN \A k \in 1..Everything :
         BranchSearch(b, k) = Nearest(BranchHits(b, Everything), k)

\* What main shows, where each open branch forked and the ids it wrote, and
\* what each open branch shows.
MainView == Shown(MainSearch(Everything))
Forks ==
  [name \in DOMAIN branches |->
     LET b == states[branches[name]] IN [base |-> b.base, wrote |-> DOMAIN b.expected]]
Views == [name \in DOMAIN branches |-> Shown(BranchHits(states[branches[name]], Everything))]

\* The memory keeps the promise of BranchStore: a branch sees its fork and its
\* own writes only, main never sees an unmerged write, a merge publishes them
\* all at once, and no merge overwrites what main changed meanwhile.
Store == INSTANCE BranchStore WITH
  Vals <- Vals \cup BranchVals, main <- MainView, past <- timeline,
  forks <- Forks, sees <- Views, FailsOnConflict <- Strategy = "fail_on_conflict"
Implements == Store!Spec

\* Records, history and versions know the same ids, a delta holds what its
\* branch recorded, and the live records are the engine's (_commit, merge, purge).
MemorySound == TypeOK /\ RecordsMatch
=============================================================================
