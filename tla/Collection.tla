------------------------------ MODULE Collection ------------------------------
(***************************************************************************)
(* collection.py: string ids and metadata beside the native index.  The    *)
(* index keeps versions of vectors; the collection keeps versions of the   *)
(* metadata next to it, stamped with the clock of the index.  One call is  *)
(* several steps of its thread: its arguments are checked against the      *)
(* sidecar, the index is called, its clock is read, the sidecar follows.   *)
(* AsyncCollection runs each call in a thread of its own, with no lock.    *)
(*                                                                         *)
(* The arena is full when it holds `capacity' versions; the collection     *)
(* then replays its log into a new, larger arena.                          *)
(***************************************************************************)
EXTENDS NativeIndex

CONSTANTS Keys,            \* engine ids of records, after stable_id
          Metas,           \* metadata and document of a record
          NoMeta,          \* empty metadata and no document
          Threads,
          InitialCapacity, \* max_vectors of the arena
          RepeatedIds,     \* may delete() be given one id twice?
          MaxClock,        \* bound on the commits of a run
          MaxVersions      \* bound on the metadata versions of a record

ASSUME Limits ==
  /\ Forever \in Nat /\ MaxClock \in Nat /\ MaxClock < Forever
  /\ InitialCapacity \in Nat /\ IsFiniteSet(Keys)

VARIABLES eng,             \* _index
          wal,             \* the index that a replay of its log gives
          capacity,        \* _max_vectors
          growth,          \* how the last growth of the arena ended
          history,         \* _history; _names has the same keys
          live,            \* _live
          deletedAt,       \* _deleted_at; Forever where there is none
          call,            \* what each thread is doing, and with what
          seen,            \* the answers given at each clock, at rest
          floor            \* the oldest snapshot every vacuum has kept

sidecar == <<history, live, deletedAt>>
index == <<eng, wal, capacity, growth>>
vars == <<index, sidecar, call, seen, floor>>

Version == [stamp : Nat, meta : Metas \cup {NoMeta}]
Idle == [pc |-> "idle"]
Carry == <<>>
NotSeen == {<<>>}

Init ==
  /\ eng = EmptyIndex /\ wal = EmptyIndex
  /\ capacity = InitialCapacity /\ growth = "fine"
  /\ history = [k \in Keys |-> <<>>]
  /\ live = {}
  /\ deletedAt = [k \in Keys |-> Forever]
  /\ call = [t \in Threads |-> Idle]
  /\ seen = [ts \in 0..MaxClock |-> IF ts = 0 THEN {} ELSE NotSeen]
  /\ floor = 0

-----------------------------------------------------------------------------
(* Reading.                                                                *)

Newest(versions) == versions[Len(versions)].meta

\* Positions of the versions a reader at s may take; the last one counts.
UpTo(versions, s) == {n \in DOMAIN versions : versions[n].stamp <= s}

LastOf(S) == CHOOSE n \in S : \A m \in S : m <= n

\* A read of the present takes the newest version, whatever its stamp.
MetaNow(versions, s) == IF versions = <<>> THEN NoMeta ELSE Newest(versions)

MetaAt(versions, s) ==
  IF versions = <<>> THEN NoMeta
  ELSE IF UpTo(versions, s) = {} THEN versions[1].meta
  ELSE versions[LastOf(UpTo(versions, s))].meta

\* A vector is told from another by the commit that wrote it.
Hit(v, versions, meta) ==
  [id |-> v.id, vector |-> v.from, meta |-> meta, named |-> versions # <<>>]

\* query(snapshot=s), with k past the number of records and no filter.
Query(ix, hist, s) == {Hit(v, hist[v.id], MetaAt(hist[v.id], s)) : v \in AsOf(ix, s)}

\* query() with no snapshot.
QueryLatest(ix, hist) ==
  {Hit(v, hist[v.id], MetaNow(hist[v.id], ix.clock)) : v \in AsOf(ix, ix.clock)}

\* get(): the live records, with no vector.
Get(alive, hist) == {[id |-> k, meta |-> MetaNow(hist[k], 0)] : k \in alive}

\* A where clause is the set of metadata it accepts.
Matching(S, where) == {k \in S : MetaNow(history[k], 0) \in where}

AtRest == \A t \in Threads : call[t].pc = "idle"

\* What callers are told between calls, at the clock of that moment.
Observe ==
  seen' = IF AtRest' THEN [seen EXCEPT ![eng'.clock] = QueryLatest(eng', history')] ELSE seen

-----------------------------------------------------------------------------
(* Writing.                                                                *)

\* After a growth that failed a run is over: what callers do then is not modelled.
Start(t, c) ==
  /\ call[t].pc = "idle" /\ growth = "fine"
  /\ call' = [call EXCEPT ![t] = c]
  /\ UNCHANGED <<index, sidecar, floor>>

Room(n) == eng.clock + n <= MaxClock

Short(ids) == \A k \in ids : Len(history[k]) < MaxVersions

\* Distinct ids, with metadata for each or for none.
Add(t) ==
  /\ Room(2)
  /\ \E ids \in (SUBSET Keys) \ {{}} : \E metas \in [ids -> Metas] \cup {Carry} :
       Short(ids) /\ Start(t, [pc |-> "insert", ids |-> ids, metas |-> metas])

\* update() with vectors is add() of ids that must be live.
Update(t) ==
  /\ Room(2)
  /\ \E ids \in (SUBSET live) \ {{}} : \E metas \in [ids -> Metas] \cup {Carry} :
       Short(ids) /\ Start(t, [pc |-> "insert", ids |-> ids, metas |-> metas])

\* A metadata-only edit does not call the index.
UpdateMetadata(t) ==
  \E ids \in (SUBSET live) \ {{}} : \E metas \in [ids -> Metas] :
    Short(ids) /\ Start(t, [pc |-> "stamp", ids |-> ids, metas |-> metas, then |-> "edit"])

Sequences(S) == UNION {[1..n -> S] : n \in 1..Cardinality(S) + 1}

Distinct(ids) == \A j, k \in DOMAIN ids : ids[j] = ids[k] => j = k

\* delete(ids), delete(where) and both: the ids that are live and match.
DeleteRecords(t) ==
  \E where \in {Metas \cup {NoMeta}} \cup {{m} : m \in Metas} : \E ids \in Sequences(Keys) :
    /\ RepeatedIds \/ Distinct(ids)
    /\ {ids[k] : k \in DOMAIN ids} \subseteq Matching(live, where)
    /\ Room(Len(ids))
    /\ Start(t, [pc |-> "delete", ids |-> ids])

\* vacuum(keep_snapshot), or clock + 1 when no snapshot is kept.
VacuumAll(t) ==
  \E oldest \in 1..eng.clock + 1 : Start(t, [pc |-> "vacuum", oldest |-> oldest])

Continue(t, c) == call' = [call EXCEPT ![t] = c]

NewRows(c) == {Row(k, 0, {}) : k \in c.ids}
Fits(ix, new, limit) == Cardinality(ix.rows) + Cardinality(new) <= limit

\* The log is written before the rows are placed, so a batch that does not
\* fit is in the log all the same.  The second time it is the caller's error.
CallInsert(t) ==
  LET c == call[t]
      new == NewRows(c) IN
  /\ c.pc \in {"insert", "retry"}
  /\ wal' = InsertMany(wal, new)
  /\ \/ /\ Fits(eng, new, capacity)
        /\ eng' = InsertMany(eng, new)
        /\ Continue(t, [pc |-> "stamp", ids |-> c.ids, metas |-> c.metas, then |-> "record"])
        /\ UNCHANGED growth
     \/ /\ ~Fits(eng, new, capacity) /\ c.pc = "insert"
        /\ Continue(t, [c EXCEPT !.pc = "grow"])
        /\ UNCHANGED <<eng, growth>>
     \/ /\ ~Fits(eng, new, capacity) /\ c.pc = "retry"
        /\ growth' = "refused" /\ Continue(t, Idle)
        /\ UNCHANGED eng
  /\ UNCHANGED <<capacity, sidecar, floor>>

\* Mutant of GrowArena: the new arena starts empty, nothing is replayed.
GrowEmpty(t) ==
  /\ call[t].pc = "grow"
  /\ eng' = [EmptyIndex EXCEPT !.clock = wal.clock] /\ capacity' = 2 * capacity
  /\ Continue(t, [call[t] EXCEPT !.pc = "retry"])
  /\ UNCHANGED <<wal, growth, sidecar, floor>>

\* Twice the capacity, refilled from the log.  The index stays closed if the
\* log holds more versions than that, the vacuumed ones included.
GrowArena(t) ==
  /\ call[t].pc = "grow"
  /\ \/ /\ Cardinality(wal.rows) <= 2 * capacity
        /\ eng' = wal /\ capacity' = 2 * capacity
        /\ Continue(t, [call[t] EXCEPT !.pc = "retry"])
        /\ UNCHANGED <<wal, growth>>
     \/ /\ Cardinality(wal.rows) > 2 * capacity
        /\ growth' = "broken" /\ Continue(t, Idle)
        /\ UNCHANGED <<eng, wal, capacity>>
  /\ UNCHANGED <<sidecar, floor>>

CallDelete(t) ==
  LET c == call[t] IN
  /\ c.pc = "delete"
  /\ eng' = DeleteMany(eng, c.ids) /\ wal' = DeleteMany(wal, c.ids)
  /\ Continue(t, [pc |-> "stamp", ids |-> {c.ids[k] : k \in DOMAIN c.ids},
                  metas |-> Carry, then |-> "forget"])
  /\ UNCHANGED <<capacity, growth, sidecar, floor>>

\* One stamp for the batch: the clock of the index as it is now.
ReadClock(t) ==
  LET c == call[t] IN
  /\ c.pc = "stamp"
  /\ Continue(t, [pc |-> c.then, ids |-> c.ids, metas |-> c.metas, stamp |-> eng.clock])
  /\ UNCHANGED <<index, sidecar, floor>>

MetaFor(c, k) == IF c.metas = Carry THEN MetaNow(history[k], 0) ELSE c.metas[k]

Appended(c) ==
  [k \in Keys |-> IF k \in c.ids
                  THEN Append(history[k], [stamp |-> c.stamp, meta |-> MetaFor(c, k)])
                  ELSE history[k]]

\* Mutant of RecordAdd: a record that is added again stays marked as deleted.
RecordAddOnly(t) ==
  LET c == call[t] IN
  /\ c.pc = "record"
  /\ history' = Appended(c)
  /\ live' = live \cup c.ids
  /\ Continue(t, Idle)
  /\ UNCHANGED <<index, deletedAt, floor>>

\* The sidecar follows an insert, an edit, a delete.
RecordAdd(t) ==
  LET c == call[t] IN
  /\ c.pc = "record"
  /\ history' = Appended(c)
  /\ live' = live \cup c.ids
  /\ deletedAt' = [k \in Keys |-> IF k \in c.ids THEN Forever ELSE deletedAt[k]]
  /\ Continue(t, Idle)
  /\ UNCHANGED <<index, floor>>

RecordEdit(t) ==
  LET c == call[t] IN
  /\ c.pc = "edit"
  /\ history' = Appended(c)
  /\ Continue(t, Idle)
  /\ UNCHANGED <<index, live, deletedAt, floor>>

RecordDelete(t) ==
  LET c == call[t] IN
  /\ c.pc = "forget"
  /\ live' = live \ c.ids
  /\ deletedAt' = [k \in Keys |-> IF k \in c.ids THEN c.stamp ELSE deletedAt[k]]
  /\ Continue(t, Idle)
  /\ UNCHANGED <<index, history, floor>>

CallVacuum(t) ==
  LET c == call[t] IN
  /\ c.pc = "vacuum"
  /\ eng' = Vacuum(eng, c.oldest)
  /\ floor' = IF c.oldest > floor THEN IF c.oldest > eng.clock THEN eng.clock ELSE c.oldest
              ELSE floor
  /\ Continue(t, [pc |-> "prune", oldest |-> c.oldest])
  /\ UNCHANGED <<wal, capacity, growth, sidecar>>

\* Mutant of Pruned: a version at the horizon does not hide older ones.
PrunedBefore(versions, oldest) ==
  IF UpTo(versions, oldest - 1) = {} THEN versions
  ELSE SubSeq(versions, LastOf(UpTo(versions, oldest - 1)), Len(versions))

\* The newest version at or below the horizon stays, older ones go.
Pruned(versions, oldest) ==
  IF UpTo(versions, oldest) = {} THEN versions
  ELSE SubSeq(versions, LastOf(UpTo(versions, oldest)), Len(versions))

\* Mutant of Gone: a record that was written before the horizon and is not
\* live is dropped, whenever it was deleted.
NotLive(oldest) ==
  {k \in Keys : k \notin live /\ history[k] # <<>> /\ history[k][Len(history[k])].stamp <= oldest}

Gone(oldest) == {k \in Keys : deletedAt[k] # Forever /\ deletedAt[k] <= oldest}

PruneHistory(t) ==
  LET c == call[t] IN
  /\ c.pc = "prune"
  /\ history' = [k \in Keys |-> IF k \in Gone(c.oldest) THEN <<>> ELSE Pruned(history[k], c.oldest)]
  /\ deletedAt' = [k \in Keys |-> IF k \in Gone(c.oldest) THEN Forever ELSE deletedAt[k]]
  /\ Continue(t, Idle)
  /\ UNCHANGED <<index, live, floor>>

Write(t) ==
  \/ Add(t) \/ Update(t) \/ UpdateMetadata(t) \/ DeleteRecords(t) \/ VacuumAll(t)
  \/ CallInsert(t) \/ GrowArena(t) \/ CallDelete(t) \/ CallVacuum(t)
  \/ ReadClock(t) \/ RecordAdd(t) \/ RecordEdit(t) \/ RecordDelete(t) \/ PruneHistory(t)

Next == \E t \in Threads : Write(t) /\ Observe

Spec == Init /\ [][Next]_vars

-----------------------------------------------------------------------------
(* Properties.                                                             *)

Stamp == Nat \cup {Forever}
Named == {k \in Keys : history[k] # <<>>}

\* Every variable keeps its type; _history, _names and _deleted_at agree on
\* which records they know.
TypeOK ==
  /\ eng.clock \in Nat /\ wal.clock >= eng.clock
  /\ capacity \in Nat /\ growth \in {"fine", "refused", "broken"}
  /\ history \in [Keys -> Seq(Version)]
  /\ live \subseteq Named
  /\ deletedAt \in [Keys -> Stamp]
  /\ \A k \in Keys : deletedAt[k] # Forever => k \in Named \ live

\* A snapshot that every vacuum kept answers, for ever, what the collection
\* answered when its clock last stood there: the vectors, each with the name,
\* the document and the metadata it had then (query, _version, _prune_history).
SnapshotAnswers ==
  AtRest /\ growth = "fine" =>
    \A ts \in 1..eng.clock :
      ts >= floor /\ seen[ts] # NotSeen => Query(eng, history, ts) = seen[ts]

\* Between calls, get() and query() give the same records with the same
\* metadata, and each has a name (add, delete against insert_many, delete_many).
SidecarFollows ==
  AtRest /\ growth = "fine" =>
    LET hits == QueryLatest(eng, history) IN
      /\ Get(live, history) = {[id |-> hit.id, meta |-> hit.meta] : hit \in hits}
      /\ \A hit \in hits : hit.named

\* What the last step of a vacuum leaves in the sidecar.
PruneStep ==
  \A t \in Threads : call[t].pc = "prune" =>
    \A k \in Keys :
      /\ Cardinality(UpTo(history'[k], call[t].oldest)) <= 1
      /\ history'[k] # <<>> /\ k \notin live =>
           \E v \in eng.rows : v.to = deletedAt'[k] /\ v.to >= call[t].oldest

\* No version of the sidecar is kept that no snapshot from the horizon on can
\* read, at the end of a vacuum, and no deleted record unless the engine still
\* holds a vector that the call ended which deleted it: the call has one stamp
\* in the sidecar (vacuum: "the sidecar grew without bound").
VacuumPrunes == [][PruneStep]_vars

\* Growing the arena loses no call (_grow_arena: the log refills the arena).
GrowthServes == growth = "fine"

\* The answer of a snapshot never changes once it was given, a new edit of
\* metadata included (collection.py: a historical vector is never dressed in
\* current metadata).
TokensFrozen ==
  [][\A ts \in 1..MaxClock :
       seen[ts] # NotSeen /\ floor' <= ts /\ growth' = "fine" => seen'[ts] = seen[ts]]_vars


\* The sidecar's own dictionaries agree with each other, and between calls with
\* the engine (_history, _names, _live, _deleted_at against insert_many and
\* delete_many).
SidecarSound == TypeOK /\ SidecarFollows
=============================================================================
