-------------------------------- MODULE Replay --------------------------------
(***************************************************************************)
(* streambench: a trace of operations is drawn against a live set of ids   *)
(* (trace.py) and replayed against one engine (engines.py) in one of the   *)
(* modes of runner.py, which keeps its own copy of the live set to compute *)
(* the truth it scores the engine against.  An engine keeps rows under ids *)
(* and answers exactly; the engines that are libraries or servers are      *)
(* modelled from the calls their adapters make.  A row is a position of    *)
(* the permuted pool.  Timing, ranking and report text are left out.       *)
(***************************************************************************)
EXTENDS Naturals, FiniteSetsExt, SequencesExt

CONSTANTS Engines,        \* the adapters under test, by name
          Modes,          \* the run_engine functions used
          Nothing,
          Open,           \* end of a version that is still current
          Pool,           \* vectors in the pool
          Live,           \* size of the initial live set
          Batch,          \* operations of a phase (per_epoch, batch, per_slice)
          Cycles,         \* cycles of a trace of operations
          Rounds,         \* epochs of a trace of replacements
          MinAnchors      \* how many untouched ids run_engine_concurrent asks for

ASSUME Sizes == /\ Pool \in Nat /\ Live \in 1..Pool
                /\ Batch \in 1..Live /\ Cycles \in Nat \ {0} /\ Rounds \in Nat \ {0}

VARIABLES trace,          \* the phases drawn so far
          live_ids,       \* the generator's live set, a sequence of ids
          cursor, next_id,
          engine, mode, shape,
          stage,          \* where the run is
          number,         \* phases replayed
          todo,           \* the engine calls of the phase that are still to make
          live,           \* the runner's live set: ids with their row and tag
          next,           \* the live set the phase produces
          held,           \* the versions the engine keeps
          tags,           \* what the engine knows of tags, <<id, tag>>
          clock, pinned, retained,
          missed          \* ids an operation named and the engine did not hold

drawn == <<trace, live_ids, cursor, next_id>>
choice == <<engine, mode, shape>>
runner == <<stage, number, todo, live, next>>
index == <<held, tags, clock, pinned, retained, missed>>
vars == <<drawn, choice, runner, index>>

\* The capability flags of the adapter classes.
rebuilds == engine \in {"faiss-hnsw", "annoy"}           \* cannot grow or delete
can_update_in_place == engine \in {"chronovec", "hnswlib", "chroma", "qdrant"}
supports_concurrent_reads == engine \in {"chronovec", "usearch", "chroma", "qdrant"}
supports_snapshots == engine = "chronovec"

Wanted == 1
Tags == {Wanted, 2}
Kinds == <<"insert", "update", "delete", "replace">>
Epochs == mode \in {"bulk", "interleaved", "filtered"}
-----------------------------------------------------------------------------
(* trace.py *)

Init ==
  /\ engine \in Engines /\ mode \in Modes
  /\ shape \in IF mode = "batching" THEN {"batched", "single"} ELSE {"batched"}
  /\ trace = <<>>
  /\ live_ids = [k \in 1..Live |-> k - 1] /\ cursor = Live /\ next_id = Live
  /\ stage = "draw" /\ number = 0 /\ todo = <<>> /\ live = <<>> /\ next = <<>>
  /\ held = {} /\ tags = {} /\ clock = 0
  /\ pinned = Nothing /\ retained = Nothing /\ missed = {}

\* draw: the pool is wrapped rather than run dry.
Draw == [k \in 1..Batch |-> (cursor + k - 1) % Pool]

\* Mutant of Fresh: new ids are counted from the size of the live set.
FreshBySize == [k \in 1..Batch |-> Len(live_ids) + k - 1]
Fresh == [k \in 1..Batch |-> next_id + k - 1]
Chosen == {SetToSortSeq(S, <) : S \in {T \in SUBSET (1..Len(live_ids)) : Cardinality(T) = Batch}}
At(places) == [k \in 1..Batch |-> live_ids[places[k]]]

\* seq with new[k] at places[k].
PutAt(seq, places, new) ==
  [j \in DOMAIN seq |-> IF \E k \in DOMAIN places : places[k] = j
                        THEN new[CHOOSE k \in DOMAIN places : places[k] = j] ELSE seq[j]]
RemovedAt(seq, places) ==
  LET kept == SetToSortSeq((DOMAIN seq) \ {places[k] : k \in DOMAIN places}, <)
  IN [k \in DOMAIN kept |-> seq[kept[k]]]

Phase(kind, ids, rows, retired) == [kind |-> kind, ids |-> ids, rows |-> rows, retired |-> retired]

Drew(phase, ids, rows, fresh) ==
  /\ trace' = Append(trace, phase)
  /\ live_ids' = ids
  /\ cursor' = cursor + (IF rows THEN Batch ELSE 0)
  /\ next_id' = next_id + (IF fresh THEN Batch ELSE 0)

\* A trace of epochs replaces, a trace of operations goes through the kinds.
Kind == IF Epochs THEN "replace" ELSE Kinds[(Len(trace) % 4) + 1]
Complete == Len(trace) = IF Epochs THEN Rounds ELSE 4 * Cycles

DrawPhase ==
  /\ stage = "draw" /\ ~Complete
  /\ \/ /\ Kind = "insert"
        /\ Drew(Phase("insert", Fresh, Draw, <<>>), live_ids \o Fresh, TRUE, TRUE)
     \/ \E places \in Chosen :
          \/ /\ Kind = "update"
             /\ Drew(Phase("update", At(places), Draw, <<>>), live_ids, TRUE, FALSE)
          \/ /\ Kind = "delete"
             /\ Drew(Phase("delete", At(places), <<>>, <<>>), RemovedAt(live_ids, places), FALSE, FALSE)
          \/ /\ Kind = "replace"
             /\ Drew(Phase("replace", Fresh, Draw, At(places)),
                     PutAt(live_ids, places, Fresh), TRUE, TRUE)
  /\ UNCHANGED <<choice, runner, index>>
-----------------------------------------------------------------------------
(* engines.py *)

Current(h) == {v \in h : v.end = Open}
Holds(h, id) == \E v \in Current(h) : v.id = id
New(ids, rows, ts) == {[id |-> ids[k], row |-> rows[k], begin |-> ts, end |-> Open] : k \in DOMAIN ids}

\* The ids a delete reaches: the index stops at the first one it does not
\* hold, the others pass over it.
Reached(ids) ==
  IF engine = "chronovec"
  THEN {ids[k] : k \in {j \in DOMAIN ids : \A i \in 1..j : Holds(held, ids[i])}}
  ELSE {ids[k] : k \in DOMAIN ids}

\* The index closes versions; the other engines forget them.
Closed(h, ids, ts) == {IF v.id \in ids /\ v.end = Open THEN [v EXCEPT !.end = ts] ELSE v : v \in h}
Forgotten(h, ids) == {v \in h : v.id \notin ids}
Without(h, ids, ts) == IF engine = "chronovec" THEN Closed(h, ids, ts) ELSE Forgotten(h, ids)

\* insert_many: an id that exists is rewritten where the engine can do that.
Rewritten(h, ids, rows, ts) == Without(h, {ids[k] : k \in DOMAIN ids}, ts) \cup New(ids, rows, ts)
Appended(h, ids, rows, ts) == h \cup New(ids, rows, ts)

\* An immutable engine builds from nothing, whatever it is asked to add.
Rebuilt(ids, rows, ts) == New(ids, rows, ts)

Added(h, ids, rows, ts) == CASE rebuilds -> Rebuilt(ids, rows, ts)
                             [] can_update_in_place -> Rewritten(h, ids, rows, ts)
                             [] OTHER -> Appended(h, ids, rows, ts)

Ins(ids, rows) == [call |-> "insert", ids |-> ids, rows |-> rows]
Del(ids) == [call |-> "delete", ids |-> ids, rows |-> <<>>]
Build(set) == [call |-> "build", ids |-> [k \in DOMAIN set |-> set[k].id],
               rows |-> [k \in DOMAIN set |-> set[k].row]]
EachIns(ids, rows) == [k \in DOMAIN ids |-> Ins(<<ids[k]>>, <<rows[k]>>)]
EachDel(ids) == [k \in DOMAIN ids |-> Del(<<ids[k]>>)]

\* Mutant of Applied: the new ids are retired and the old ones come back.
AppliedSwapped(p) == <<Del(p.ids), Ins(p.retired, p.rows)>>

\* apply: the whole phase is retired, then inserted.
Applied(p) == <<Del(p.retired), Ins(p.ids, p.rows)>>

\* replace_one, once for each replacement.
ReplacedOneByOne(p) ==
  FlattenSeq([k \in DOMAIN p.ids |-> <<Del(<<p.retired[k]>>), Ins(<<p.ids[k]>>, <<p.rows[k]>>)>>])

\* update_many, emulated where the engine has no update of its own.
Updated(p) == IF can_update_in_place THEN <<Ins(p.ids, p.rows)>>
              ELSE <<Del(p.ids), Ins(p.ids, p.rows)>>

\* The calls of one phase in run_engine, by mode.
BulkCalls(p, set) == IF rebuilds THEN <<Build(set)>> ELSE Applied(p)

\* run_engine_concurrent and run_engine_snapshot: the operation as it is.
PlainCalls(p) ==
  CASE p.kind = "insert" -> <<Ins(p.ids, p.rows)>>
    [] p.kind = "update" -> Updated(p)
    [] p.kind = "delete" -> <<Del(p.ids)>>
    [] p.kind = "replace" -> Applied(p)

\* run_engine_ops: what raises NotImplementedError becomes a build of the live
\* set the phase ends with.
OpsCalls(p, set) == IF rebuilds THEN <<Build(set)>> ELSE PlainCalls(p)

\* run_engine_equal_recall: one burst, the first insert of the trace.
EqualCalls(p) == IF p.kind = "insert" /\ number = 0 THEN <<Ins(p.ids, p.rows)>> ELSE <<>>

\* run_engine_batching: inserts and deletes only, in one call or one by one.
BatchingCalls(p) ==
  CASE p.kind = "insert" /\ shape = "batched" -> <<Ins(p.ids, p.rows)>>
    [] p.kind = "insert" /\ shape = "single" -> EachIns(p.ids, p.rows)
    [] p.kind = "delete" /\ shape = "batched" -> <<Del(p.ids)>>
    [] p.kind = "delete" /\ shape = "single" -> EachDel(p.ids)
    [] OTHER -> <<>>

\* run_engine_filtered: delete_filtered, then insert_filtered.
FilteredCalls(p) == Applied(p)

Calls(p, set) ==
  CASE mode = "bulk" -> BulkCalls(p, set)
    [] mode = "interleaved" -> ReplacedOneByOne(p)
    [] mode = "ops" -> OpsCalls(p, set)
    [] mode \in {"concurrent", "snapshot"} -> PlainCalls(p)
    [] mode = "equal" -> EqualCalls(p)
    [] mode = "batching" -> BatchingCalls(p)
    [] mode = "filtered" -> FilteredCalls(p)
-----------------------------------------------------------------------------
(* runner.py *)

ItemOf(ids, rows, ts) == [k \in DOMAIN ids |-> [id |-> ids[k], row |-> rows[k], tag |-> ts[k]]]
PlacesOf(ids) == [k \in DOMAIN ids |-> CHOOSE j \in DOMAIN live : live[j].id = ids[k]]

\* Mutant of rewritten: the runner keeps the row an update replaces.
unwritten(p, ts) == live
rewritten(p, ts) == PutAt(live, PlacesOf(p.ids), ItemOf(p.ids, p.rows, ts))

\* Mutant of shrunk: what is left after a delete closes up from the front.
shrunk_backwards(p) ==
  Reverse(SelectSeq(live, LAMBDA item : item.id \notin {p.ids[k] : k \in DOMAIN p.ids}))
shrunk(p) == SelectSeq(live, LAMBDA item : item.id \notin {p.ids[k] : k \in DOMAIN p.ids})

\* _next_live: the live set a phase produces.
next_live(p, ts) ==
  CASE p.kind = "insert" -> live \o ItemOf(p.ids, p.rows, ts)
    [] p.kind = "delete" -> shrunk(p)
    [] p.kind = "update" -> rewritten(p, ts)
    [] p.kind = "replace" -> PutAt(live, PlacesOf(p.retired), ItemOf(p.ids, p.rows, ts))

Initial == [k \in 1..Live |-> k - 1]
initial_ids == {Initial[k] : k \in 1..Live}

\* Mutant of touched: the ids a replacement retires are not counted.
touched_by_writes == UNION {{p.ids[k] : k \in DOMAIN p.ids} : p \in {trace[n] : n \in DOMAIN trace}}

touched == UNION {{p.ids[k] : k \in DOMAIN p.ids} \cup {p.retired[k] : k \in DOMAIN p.retired} :
                    p \in {trace[n] : n \in DOMAIN trace}}
anchors == initial_ids \ touched

\* What a mode asks of an engine before it runs it; in batching mode the
\* delete_many of an immutable engine raises.
NotInterleaved == mode = "interleaved" /\ rebuilds
NotConcurrent ==
  mode = "concurrent" /\ (~supports_concurrent_reads \/ Cardinality(anchors) < MinAnchors)
NoSnapshots == mode = "snapshot" /\ ~supports_snapshots
NoFilter == mode = "filtered" /\ rebuilds
NoDelete == mode = "batching" /\ rebuilds
Refused == NotInterleaved \/ NotConcurrent \/ NoSnapshots \/ NoFilter \/ NoDelete

Refuse ==
  /\ stage = "draw" /\ Complete /\ Refused
  /\ stage' = "refused"
  /\ UNCHANGED <<drawn, choice, number, todo, live, next, index>>

\* _draw_tags: any records may carry the wanted tag.
TagsFor(n) == IF mode = "filtered" THEN [1..n -> Tags] ELSE {[k \in 1..n |-> 2]}
Tagged(ids, ts) == {<<ids[k], ts[k]>> : k \in DOMAIN ids}

\* The engine is built from the initial live set; snapshot mode pins it.
Start ==
  /\ stage = "draw" /\ Complete /\ ~Refused
  /\ \E ts \in TagsFor(Live) : live' = ItemOf(Initial, Initial, ts) /\ tags' = Tagged(Initial, ts)
  /\ held' = Added({}, Initial, Initial, 1) /\ clock' = 1
  /\ pinned' = IF mode = "snapshot" THEN 1 ELSE Nothing
  /\ retained' = IF mode = "snapshot" THEN 1 ELSE Nothing
  /\ stage' = "measured"
  /\ UNCHANGED <<drawn, choice, number, todo, next, missed>>

\* Whether the runner's bookkeeping moves with a phase of this mode.
Follows(p) == \/ mode \notin {"equal", "batching"}
              \/ mode = "equal" /\ number = 0
              \/ mode = "batching" /\ p.kind \in {"insert", "delete"}

\* Mutant of Retagged: a fresh record goes in without its tag.
Untagged(p, ts) == {t \in tags : t[1] \notin {p.retired[k] : k \in DOMAIN p.retired}}

\* delete_filtered, then insert_filtered, on what the engine knows of tags.
Retagged(p, ts) ==
  {t \in tags : t[1] \notin {p.retired[k] : k \in DOMAIN p.retired}} \cup Tagged(p.ids, ts)

StartPhase ==
  /\ stage = "measured" /\ number < Len(trace)
  /\ LET p == trace[number + 1] IN
       \E ts \in TagsFor(Len(p.ids)) :
         LET set == IF Follows(p) THEN next_live(p, ts) ELSE live IN
           /\ next' = set
           /\ todo' = Calls(p, set)
           /\ tags' = IF mode = "filtered" THEN Retagged(p, ts) ELSE tags
  /\ stage' = "writing"
  /\ UNCHANGED <<drawn, choice, number, live, held, clock, pinned, retained, missed>>

\* One call of the phase.  A delete of an id that is not there stops the run
\* where rows go to the index one at a time (KeyError).
Execute ==
  /\ stage = "writing" /\ todo # <<>>
  /\ LET c == Head(todo)
         absent == {c.ids[k] : k \in {j \in DOMAIN c.ids : ~Holds(held, c.ids[j])}}
     IN
     IF c.call = "delete"
     THEN /\ held' = Without(held, Reached(c.ids), clock + 1)
          /\ missed' = missed \cup absent
          /\ stage' = IF absent # {} /\ shape = "single" /\ engine = "chronovec"
                      THEN "skipped" ELSE stage
     ELSE /\ held' = Added(held, c.ids, c.rows, clock + 1)
          /\ UNCHANGED <<missed, stage>>
  /\ clock' = clock + 1
  /\ todo' = Tail(todo)
  /\ UNCHANGED <<drawn, choice, number, live, next, tags, pinned, retained>>

\* Mutant of horizon: what is retained is not looked at.
horizon_now == clock + 1

horizon == IF retained # Nothing THEN retained ELSE clock + 1

\* maintain: the index vacuums below the horizon, the others do nothing.
maintained == IF engine = "chronovec" /\ mode \notin {"equal", "batching", "filtered"}
              THEN {v \in held : v.end >= horizon} ELSE held

\* The end of a phase: the runner's live set moves, the engine maintains.
EndPhase ==
  /\ stage = "writing" /\ todo = <<>>
  /\ live' = next
  /\ held' = maintained
  /\ number' = number + 1
  /\ stage' = "measured"
  /\ UNCHANGED <<drawn, choice, todo, next, tags, clock, pinned, retained, missed>>

\* Snapshot mode lets go of what it held, then maintains once more.
Release ==
  /\ stage = "measured" /\ number = Len(trace) /\ mode = "snapshot"
  /\ retained' = Nothing
  /\ stage' = "releasing"
  /\ UNCHANGED <<drawn, choice, number, todo, live, next, held, tags, clock, pinned, missed>>

Finish ==
  /\ \/ stage = "releasing" /\ held' = maintained
     \/ stage = "measured" /\ number = Len(trace) /\ mode # "snapshot" /\ UNCHANGED held
  /\ stage' = "done"
  /\ UNCHANGED <<drawn, choice, number, todo, live, next, tags, clock, pinned, retained, missed>>

Next == DrawPhase \/ Refuse \/ Start \/ StartPhase \/ Execute \/ EndPhase \/ Release \/ Finish

Spec == Init /\ [][Next]_vars
-----------------------------------------------------------------------------
Ids == 0..(Live + Batch * Max({2 * Cycles, Rounds}))
Rows == 0..(Pool - 1)
Contents == {<<v.id, v.row>> : v \in Current(held)}
Truth == {<<live[k].id, live[k].row>> : k \in DOMAIN live}
AsOf(ts) == {<<v.id, v.row>> : v \in {w \in held : w.begin <= ts /\ ts < w.end}}
Matching == {id \in {c[1] : c \in Contents} : <<id, Wanted>> \in tags}     \* search_filtered
Scored == mode \notin {"equal", "batching"}

\* Ids, rows and stages stay in range, and a live set names an id once
\* (OpsTrace, Epoch, run_engine and its kin).
TypeOK ==
  /\ live_ids \in Seq(Ids) /\ IsInjective(live_ids)
  /\ cursor \in Nat /\ next_id \in Ids /\ number \in 0..Len(trace)
  /\ stage \in {"draw", "refused", "measured", "writing", "releasing", "done", "skipped"}
  /\ live \in Seq([id : Ids, row : Rows, tag : Tags])
  /\ IsInjective([k \in DOMAIN live |-> live[k].id])
  /\ held \subseteq [id : Ids, row : Rows, begin : Nat, end : Nat \cup {Open}]
  /\ missed \subseteq Ids

\* After each phase the engine holds exactly the rows it is scored against,
\* whichever operations it has to emulate or rebuild for (run_engine,
\* run_engine_ops, run_engine_concurrent, run_engine_snapshot).
EngineHolds == stage = "measured" /\ Scored => Contents = Truth

\* The same for the burst that equal-recall mode inserts (insert_many).
BurstHolds == stage = "measured" /\ mode = "equal" => Contents = Truth

\* The trace is back at the size it started with at the end of each cycle, and
\* the runner follows it to the live set it was drawn to, in the same order
\* (build_ops_trace, _next_live).
RunnerFollows ==
  /\ Complete => Len(live_ids) = Live
  /\ stage = "done" /\ Scored => [k \in DOMAIN live |-> live[k].id] = live_ids

\* No delete names an id the engine does not hold (build_ops_trace).
DeletesHit == Scored => missed = {}

\* The same where inserts and deletes are replayed alone (run_engine_batching).
BatchesHit == mode = "batching" => missed = {}

\* A search at any moment of a run finds each id no phase touches, and only
\* ids of the trace (run_engine_concurrent).
AnchorsHold ==
  mode = "concurrent" /\ stage \in {"writing", "measured"} =>
    /\ \A id \in anchors : <<id, id>> \in Contents
    /\ {c[1] : c \in Contents} \subseteq initial_ids \cup touched

\* The pinned view answers as it did before the first phase, until released;
\* then nothing dead is kept (run_engine_snapshot).
PinnedView ==
  mode = "snapshot" =>
    /\ retained # Nothing => AsOf(pinned) = {<<id, id>> : id \in initial_ids}
    /\ stage = "done" => held = Current(held)

\* Between phases a filtered search reaches the rows that carry the tag and
\* no others, after any churn (_measure_filtered).
FilterExact ==
  stage = "measured" /\ mode = "filtered" =>
    Matching = {live[k].id : k \in {j \in DOMAIN live : live[j].tag = Wanted}}

\* No two live ids share a row, so the exact neighbours are unique (draw).
RowsDiffer == IsInjective([k \in DOMAIN live |-> live[k].row])


\* The trace, the runner and the deletes it replays agree on who is live
\* (build_ops_trace, _next_live, run_engine_ops).
RunnerSound == TypeOK /\ RunnerFollows /\ DeletesHit

\* What readers rely on during a run holds: the ids no phase touches, and the
\* answers of the pinned view (run_engine_concurrent, run_engine_snapshot).
ReadersServed == AnchorsHold /\ PinnedView
===============================================================================
