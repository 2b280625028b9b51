# Verification of chronovec

TLA+ models, TLC runs and TLAPS proofs for chronovec, an MVCC vector index with
a C++ core (`src/bindings/rust/chronovec-sys/native/src/chronovec.cpp`, below
*the core*), the Python layers over it (`src/chronovec`), a benchmark that
replays traces against it (`src/streambench`) and a tree-search agent that
lives on its memory branches (`src/examples/_lats_engine.py`).

## The system

| Component | State | Operations | How it meets the others |
|---|---|---|---|
| Index core, writers | pages (copy-on-write images behind atomic pointers, a payload store shared by all images of a page), the directory, `locations`, the retirement queue, `clock` and `committed` | insert, delete, insert_batch, apply_changes, split, vacuum, consolidate | one at a time under `writer_mutex`; publishes by atomic stores |
| Index core, searches | a pin in `ReaderRegistry`, a snapshot, a directory, a page image | `cv_search*` | takes no lock; protects itself from vacuum by its pin |
| Write-ahead log | the file, `pending` | stage, flush, replay | called by the writers before they apply |
| Native checkpoint | a file | save, load | save under `writer_mutex` |
| `Collection` | versioned metadata and names, the live set, deletion stamps, the arena's capacity | add, update, delete, query, get, vacuum, growth | calls one native index, reads its clock and brings its sidecar in line |
| `AsyncCollection` | none of its own | the collection's operations, each in a thread | shares one collection with no lock |
| `Client` | a registry of names, open collections, two files for each | create, open, delete, reset, close | every mutation rewrites both files |
| Memory checkpoints | files of one generation, a manifest | save, load | every mutator of a memory saves before it returns |
| `_RWLock` | a condition, a count of readers, the writer and its depth | read, write | gates both memories |
| `BranchableMemory` | a main index with records, history and versions; a private delta index per branch | add, delete, branch, merge, discard, purge, search | the abstract promise is `BranchStore` |
| `AgentMemory` | one index for all branches, told apart by label bits | the same | delegates to `BranchableMemory` for its other engine |
| Reference index | pages with a lock each, a directory lock, locations, a retirement queue | insert, delete, split, search, vacuum, save, load | used by DuckDB, the multi-vector index and the tests |
| streambench | a trace, the runner's live set, one engine | eight ways to replay | eight kinds of engine behind adapters |
| Tree-search agent | a tree, its branches, a checkpoint | run, run_async, publish, discard_all, save, resume | the largest client of memory branches |
| SQLite virtual table | a change buffer, savepoints, a dirty flag, shadow tables | xUpdate, xBegin/xSync/xCommit/xRollback | rebuilds from the shadow tables; not modelled |
| Arena, kernels, bindings, integrations, command line, embeddings, multi-vector index | | | not modelled, see the end |

### What is hard, and what makes each part correct

* **Lock-free searches against vacuum.** A page's payload is shared by every
  image of the page, so a search that holds an old image reads slots a vacuum
  may have freed and an insert refilled. Correct: no search ever scores a
  payload that is not the one of the version it saw.
* **Two clocks.** A call allocates a timestamp, publishes page by page and
  makes itself visible by one commit. Correct: each search answers from the
  history as of one committed timestamp, each call enters it in one step.
* **Copies.** Splits, merges and vacuum move versions between pages while
  `locations` and the retirement queue must keep pointing at them.
  Correct: nothing lost, nothing twice, no id with two open versions,
  every closed version queued.
* **Failure half-way.** Nothing in the core undoes what a failed call published.
* **Crash and recovery.** A block of rows is logged record by record and has
  no mark of its end. Correct: what was acknowledged survives, of an
  interrupted call a leading part of its rows does, and the log can always be
  opened and appended to again.
* **A second book beside the engine.** Collections and memories keep metadata
  versioned beside the engine's versions. Correct: a snapshot answers for ever
  what it answered first, metadata included, and vacuum forgets on both sides.
* **Files that belong together.** A collection is two files and a registry
  entry, a memory a manifest and the files it names. Correct: whoever dies at
  whatever point, what is opened next is of one mutation and no older than the
  last one acknowledged.
* **Speculation.** A branch must see its fork and its own writes, main nothing
  that was not merged, a merge must be one step and overwrite nothing.
* **Waves.** Nodes of a search tree are reserved before their branches exist,
  and tasks fill them in concurrently. Correct: no action is taken twice, no
  judge reads half a trajectory, the budget is spent, and no branch is left open
  but where its building was cut short.

`PROJECT.json` lists the hazards at their lines.

## Modules

| Module | Models |
|---|---|
| `PageImages` | the values a page image can have and the pure operations on it: visibility, closing, filling, clearing, copying |
| `SnapshotStore` | abstract: a history of versions, one step per write call, searches that answer as of one committed timestamp |
| `ChronoIndex` | the core: writers step by step, vacuum and consolidation, searches step by step; shown to implement `SnapshotStore` |
| `ChronoIndexInv` | the inductive invariants behind `SlotSafe`, `LocationsExact`, `OneOpen`, `ClosedIsQueued`, and behind `TimeTravel`, `SearchSound` and `Implements` |
| `WriteLog` | durability: what each call logs, applies and commits; failing writes and syncs; crashes at every step; replay; the native checkpoint |
| `NativeIndex` | operators: the engine as the Python layers call it, one change per call |
| `Collection` | `collection.py` and the threads of `async_collection.py` over `NativeIndex` |
| `Client` | `client.py` and the two files of a collection |
| `Generations` | the checkpoints of both memories |
| `MCFiles` | `Client` and `Generations` side by side |
| `RWLock` | the gate of both memories |
| `BranchStore` | abstract: a timeline of main states and what each branch sees |
| `BranchableMemory` | branches with private deltas over `NativeIndex`; shown to implement `BranchStore` |
| `AgentMemory` | branches as label bits in one index |
| `ReferenceIndex` | `index.py`, lock by lock |
| `Replay` | traces, modes and engines of streambench |
| `Lats` | the tree-search agent over memory branches |
| `MC*` | symmetry, file layouts and callers' behaviours for TLC |
| `ChronoIndexProof`, `RWLockProof`, `WriteLogProof`, `FilesProof`, `BranchesProof`, `CollectionProof`, `LabelsProof`, `ReferenceProof` | the proofs |

### How `ChronoIndex` corresponds to the code

* `image[p]` is `Descriptor::image`, `store[p]` the `VectorStore` and
  `RecordStore` that all clones of a page share; every published step of the
  code (`publish_page`, `publish_dir`, `commit`, the reader's atomic accesses)
  is an action of its own and anything between two of them is private to its
  thread. A payload is named by the call's timestamp and the row's place in the
  call, so that reading the wrong payload shows.
* `wpc` is the step the holder of `writer_mutex` is at. `Begin*` take the lock
  and the timestamp; `StartBlock`, `Close`, `FirstPage`, `Split`, `Place`,
  `PlaceMore`, `Publish`, `List`, `Commit` are the steps of the write calls:
  row by row for single inserts, `cv_apply_changes`, repeated ids and an empty
  directory, in rounds otherwise. `Vacuum` scans the retirement queue,
  `Reclaim` clears one page, `Consolidate` and `MergeMany` follow.
* `Throw` and `RefuseBlock` end a call in the middle, by an allocation that
  fails or by a vector that `prepare` refuses.
* Which page and which slot a row goes to is decided by distances in the code.
  The model chooses freely, so every choice the code can make is covered; the
  same holds for which rows a split sends where and which pages a merge packs.
* `Pin` .. `Unpin` are the steps of `cv_search_pass`. With `StoreBuffered` a
  pin becomes visible to vacuum by a later `Drain` step, as the release store
  followed by acquire loads allows.
* `safe_oldest` reads the pins one after the other; the model reads them at
  once. While vacuum holds `writer_mutex` nothing commits, so a search that
  pins after its slot was read resolves a snapshot no older than `committed`,
  which bounds `oldest` from above by one: what vacuum frees ended before it.
* An explicit snapshot is one the last vacuum still left readable
  (`horizon <= s + 1`): the caller of vacuum names the oldest snapshot it needs.
* `history` and `horizon` are history variables: what the committed calls
  promised, and the newest `oldest` given to a vacuum.

### How `WriteLog` corresponds to the code

* `versions` stands for the pages: durability does not depend on where a
  version lies, and `ChronoIndex` shows what pages make of a call. `close_current`
  is `ClosedIn`, an insert or a delete of one row is `Put`, the rows of a call
  one after the other `PutAll`. That this closed form is what `Put` makes of
  each row in turn, repeated ids included, is checked in `Log_power_cuts`
  (`PutsOneByOne`).
* `pc` is the step of the call that holds `writer_mutex`: `Begin*` (checks and
  `tick`), `Stage` (the records of a block enter `pending`), `Write` (one more
  record is in the file), `EndFlush` (fsync, `pending` is cleared), `Apply`,
  and `Stage` again for the next block of a batch, at last `Commit`.
  `cv_insert_impl` closes the old version before it stages anything, so
  `BeginInsert` changes `versions`.
* `file` is a sequence of records; a record that is there only in part, or
  does not match its checksum, is `Torn`. `durable` says how many of them have
  been synced. `Crash` empties the memory and leaves one of `Left(kind)`: after
  a crash of the process all that was written, after a power cut anything from
  the durable part up to that, the last record possibly torn.
* `Start`, `Replay`, `Open` are `cv_create_with_wal`: `Replay` does one record
  again at its timestamp, through the single insert; `Open` cuts the file after
  the last good record; `GiveUp` is `tick` refusing a record whose timestamp goes
  backwards. The parameter `after` of `replay_wal` is always 0.
* `FailWrite` leaves `pending` as it was and maybe a torn record: `flush`
  throws, and nothing calls `discard`. `EndFlush` may sync nothing when
  `MayFailSync`: the result of fsync is not looked at. `Refuse` ends a batch at
  a vector that `prepare` refuses, after earlier blocks were applied.
* `saved` is the checkpoint file. Its field `committed` is not in the file: it
  records what was visible when it was saved, for `CheckpointFaithful`. The
  temporary file, its fsync and the rename are one step. A loaded checkpoint
  has no log: the two are never combined by the code.
* Callers' timestamps are later than the clock here (`Skips`); equal ones are
  the subject of the note on `Index_failures.cfg`.
* `promised` holds the versions the acknowledged calls made. When an index is
  opened after a crash, a leading part of the interrupted call's rows
  (`Outcomes`) may be added, and stays promised.

`faulted` is a history variable: which of a write, a sync and a batch's vector
has failed so far. `SurvivesUntilFault` and `FaithfulUntilFault` promise only
while it is empty, and `LogSound` that replay accepts the log only while no
write failed; the code gives no more (see *Disagreements*). `FailWrite` keeps
the staged records, so a record can reach the file twice with a later one
between. It takes four failed calls, more than the runs' timestamps allow:
`Log_recovery` therefore also starts from the file such calls leave
(`InitRewritten`).

### How the Python models correspond to the code

**`NativeIndex`.** A value with a committed clock and versions, and one operator
per call of `native.py`: insert, insert_many, delete, delete_many (which stops
at the first id that has no open version), apply_changes, vacuum, search at a
snapshot. That each is one step is what `ChronoIndex` shows.

**`Collection`.** A call is the steps of its thread between two calls of the
engine: arguments are checked (`Add`, `Update`, `UpdateMetadata`,
`DeleteRecords`, `VacuumAll`), the engine is called (`CallInsert`,
`CallDelete`, `CallVacuum`), its clock is read (`ReadClock`), the sidecar
follows (`RecordAdd`, `RecordEdit`, `RecordDelete`, `PruneHistory`).
`GrowArena` is `_grow_arena`: the engine is closed and the log `wal` refills a
larger one, with everything a vacuum had removed. `seen` and `floor` are
history variables: the answers given at each clock, and the oldest snapshot
every vacuum kept. One thread is the synchronous collection, two are
`AsyncCollection`. A delete of several ids is a commit each in the engine and
one stamp, the clock after the last, in the sidecar (`collection.py:353`): a
vacuum between two of these commits drops the vector of a record and keeps its
name until a later vacuum. `VacuumPrunes` says exactly that: a record that is
kept was deleted by a call of which the engine still holds a row.

**`Client`.** `task` is the next file operation of the call under way: the
registry, `<base>.cvec`, `<base>.meta`, the two unlinks. What a collection holds
is the number of the mutation that left it. `Restart`, the death of the process,
comes before the operations `CrashBefore` names, and `SaveFails` at those
`FailAt` names. `FileOf` is what `with_suffix` makes of a name. An entry of
`_open` is a collection's contents or `Closed`: `delete_collection` of a name
that is registered but not open goes through `get_collection`, which leaves the
closed object in `_open`, and a later create returns that (`Recreate`): nothing
is registered, nothing written. `ClosedCounts` says whether that counts as a
creation that returned.

**`Generations`.** `Begin` is a mutation and the start of its save, `WritePart`
one file of the new generation (native index, deltas, metadata in the order of
`save`), `Publish` the replacement of the manifest, `RemoveOne` an unlink of the
generation before, `Raise` an error up to the manifest, `Crash` the death of
the process between any two steps. `Start` and `Load` open a store with either
engine.

**`RWLock`.** A block under the condition's lock is a step. A thread asks
(`wants`), is let in or falls asleep, and looks again after a `notify_all`.
Threads nest reads and writes; one that only reads does not ask to write
(`MayNest`): it would wait for its own read, and no method of the memories does.

**`BranchableMemory`.** `records`, `history`, `versions` are `_records`,
`_history`, `_versions`; a state is a `_BranchState` with its delta index,
records, deletions and expected versions. A call on a branch is two steps:
`Call` is `_check_open`, outside of the gate, the rest runs under the write
gate; `Close` marks the state closed, again outside. `Shared` lets agents use
each other's branches, `DeepForks` lets callers fork below a purge. `MaxLocal`
bounds the writes of each open delta and of all of them together.

**`AgentMemory`.** An engine id is an id with a label bit (`_overlay_id`). A call
on a branch is the steps of an agent (`calls`): `Call` is `_check_open`, which
comes before the write gate and is not repeated inside it; `ViewAdd`,
`ViewDelete`, `Discard` and `Merge` take the gate, on the view as it is by then;
`Close` sets `_closed`, after the gate was left. `Overlaps` lets a call that ends
a view overlap other calls on it. `task` is the merge or discard that holds the
gate: `Begin` takes it and lists what the loops run over, `Promote`, `Drop` and
`Erase` do one row each, a delete and an insert with a commit each or a delete,
and `End` releases the branch, by its name and its bit, whoever has them now.
Main's view is never merged or discarded; a checkpoint that fails, and a search
that passed the check before its view was released, are left out. `timeline` has
what main holds at each snapshot handed out. `wrote` in a view is a history
variable. `MergeKilled` in `MCAgentMemory`'s `KilledSpec` is the process dying
at the checkpoint inside a merge's deletes.

**`ReferenceIndex`.** Every block under one lock is a step, a block that takes a
second lock is two. The geometry that picks a page or divides one picks any. A
writer's steps: `Tick`, `ListPlaces` and `ClosePlace` (`_close_current_version`),
`Retire`, `ChoosePage`, `LookForRoom`, `PlaceRow`, `RecordPlace`, `SplitPage`;
vacuum: `BeginVacuum`, `ReclaimOne`, `EndVacuum`. A search looks at one page a
step. `SaveAndLoad` renumbers the pages and rebuilds the map and the queue. What
the code does to a list in a loop (the slots a split moves, the scan that
rebuilds the map, the sorted queue) is written in closed form, `InOrder` and
`Part`, so that it can be reasoned about without recursion.

**`Replay`.** `DrawPhase` is one operation of `trace.py`, any the generator may
draw. `StartPhase` turns it into engine calls, `Execute` makes one, `EndPhase`
moves the runner's live set and maintains the engine. `mode` is the
`run_engine*` function, `engine` the adapter: which calls it has, emulates by
others, rebuilds for or refuses. The libraries behind the adapters are modelled
from how `engines.py` uses them. Readers of the concurrent mode may look at any
state of a phase.

**`Lats`.** `Expand` and `Revisit` are iterations of `run`; in `run_async`,
`Claim` and `Reserve` pick a wave with no await in between, `WaveStarts` starts
a task for each reserved node (`Execute`, `Fork`, `AddAction`, `AddObservation`,
`Attach`, in threads), `Gathered`, `ScoreNext`, `WaveEnds` follow. `publish`
merges a branch per step; `save` writes the memory and then the sidecar. The
memory is what main and each open branch hold. UCT's arithmetic is left out: at
any node any child may score best. `mode` says how the caller behaves and what
raises: the tool (`ExpandFails`, `Raise`), the judge, or a step of a branch's
build, `memory.branch`, `embed` or `branch.add` (`BuildFails`, `Raise`). A run may
be cancelled at an await (`RunCancelled`), and a task that no run waits for at
its own (`Cancelled`), as `asyncio.run` does with what an exception left behind;
what its thread did stays done. `memory.lost` is a history variable: the branches
that were forked and that no node came to hold.

## Runs

| Run | Bounds | Question |
|---|---|---|
| `search` | 2 ids, 1 search, 4 pages of 2 slots, 3 timestamps, single rows | slot reuse, snapshot answers, refinement of `SnapshotStore` |
| `structure` | no search, 4 pages of 2 slots, 3 timestamps, batches of 2, budgets 0 and 1, refusals | locations, queue, open versions, time travel |
| `liveness` | 1 id, 1 search, 1 timestamp, batches of 4 (an id repeated), every switch on | searches return, though every split and vacuum replaces the directory they walk |
| `recovery` | 2 ids, batches of 2 in blocks of 1, 2 timestamps, one crash of either kind, failing writes, refused vectors | what was acknowledged survives until a fault; unless a write failed, the log replays and the index opens |
| `collection` | 2 records, 2 values of metadata, arena of 2, clock 4, 3 metadata versions, one caller | snapshots keep their answers; sidecar and engine agree; vacuum prunes the sidecar |
| `files` | 2 collections with 3 mutations each; or one store with either engine, up to 2 deltas and 4 saves | what is opened is whole, acknowledged, and leaves nothing behind |
| `lock` | 3 threads, nesting 3, 3 calls each | exclusion, exact counters, no lost wake-up, everybody gets in |
| `branches` | 2 ids, 2 branch names, clock 3, 2 delta writes, 2 branches ever | snapshots, records and engine, refinement of `BranchStore` |
| `labels` | 1 id, 2 branches, 2 bits, clock 5, 2 threads that may use one branch (`Overlaps = FALSE`); merges and discards row by row | isolation of main and of branches, bits, records |
| `reference` | 2 ids, 1 writer, 1 search, pages of 2, clock 4, 5 pages | searches through splits and vacuums; map, queue and pages agree |
| `replay` | 8 engines, 8 modes, live set of 4, phases of 2, 1 cycle or 2 epochs | engine, runner and truth agree after each phase |
| `lats` | 2 actions, depth 2, waves of 3, budget 4, 3 runs; exceptions and cancellation at every step of a build | tree, memory, publication, budget, termination |

Several properties are conjunctions of named parts, one per book that has to
agree: `LogSound`, `SidecarSound`, `Opens`, `GateSafe`, `MemorySound`,
`BookExact`, `RunnerSound`, `ReadersServed`, `TreeSound`, `MemoryMatchesTree`.
The module's type invariant is among the parts; each part has mutants of its
own in `PROJECT.json`.

**Why these bounds.** Two-slot pages are the smallest that can be full, half
full, split and merged. One search is enough for safety in the core: searches
write nothing another search reads except their pin, and a second pin only
lowers vacuum's horizon; the proof covers any number. Three timestamps allow a
version to be written, closed, vacuumed and its slot refilled under a search.
For the log, a batch in blocks of one is cut between its blocks, a change set
of two rows in the middle of its flush. An arena of two versions must grow at
the second update and may be refused at the next. Two branches of two bits use
them up and reuse them; a purge, a merge and a fork fit into a clock of 5 (3 for
the deltas, whose own clocks count apart). Rows of different ids do not meet in
the labels engine but in the loops of a merge: `Labels_branches` with `Ids = {1,
2}`, `MaxClock = 4` and `Agents = {a1}` passes too, in more time than a run
should take. Pages of two with five pages allow two splits. In `lats` a wave is
larger than the root has actions, so that reservations contend, and a tree of
depth 2 with four terminal nodes is exhausted by the budget of a run or two.
`structure`, `reference` and the Python models run out of pages, clock or names
on purpose, hence no deadlock check there; `lock` and `lats` end when the calls
do.

Three more configurations pass and are kept beside the runs:

| Configuration | Bounds | Shows |
|---|---|---|
| `Index_batches` | batches of 3 in blocks of 2, repeated ids, 1 search | `SlotInv` and all safety properties of the core, and the refinement |
| `Index_merge` | 3 slots, 6 pages, 5 timestamps | consolidation drops and packs pages and loses nothing |
| `Log_power_cuts` | 2 ids, 3 timestamps with skips, 2 power cuts, no faults | a crash in the recovery from a crash; `Survives` and `CheckpointFaithful` without conditions; `PutAll` against its reference |

`Log_power_cuts` with `Sync = FALSE` and `Crashes = {"process"}` passes too: a
process that dies loses nothing it wrote.

**Fairness.** `liveness` assumes weak fairness of a search's own steps and
nothing of the writers: the thread takes no lock and is scheduled again.
`recovery` assumes it of recovery, a loop of the process that opens the index;
calls and crashes get none. `lock` assumes that a thread inside a block leaves it
and that a runnable thread gets the condition's lock; with endless overlapping
readers the code gives a writer no promise, so calls are finite. `lats` assumes
it of the loop's code and of the tools, memory calls and judges a run waits for;
the caller owes nothing.

### Disagreements between the code and what is said of it

Each configuration lists properties that the code's text or a caller's
expectation states and the code does not keep; keep one of them to see its
counterexample (TLC stops at the first). Where the first column names constants,
copy the configuration, give them these values and check the property.

| Configuration | Violated | What happens |
|---|---|---|
| `Index_failures` | `TimeTravel` | a vector refused in a later block of a batch leaves the first block in the pages; the next commit shows it. With `MayThrow` instead of `MayRefuse` the same after any failure; with `Skips = {0, 1}` instead, a caller's timestamp equals a committed one |
| `Index_failures` with `MayThrow = TRUE`, `MayRefuse = FALSE`, `BlockSize = 2` | `LocationsExact`, `OneOpen` | the rows of a round enter `locations` at its end; thrown out of before, they are published and never found again, and the next insert of the id makes a second open version |
| `Index_search` with `StoreBuffered = TRUE` | `SlotSafe` | the pin is a release store and later loads may overtake it |
| `Index_repeats` | `VacuumReclaimsAll` | an id three times in one batch leaves versions with equal stamps; vacuum finds only the first |
| | `BudgetKept` | vacuum clears by (begin, end) without the id, so one budgeted entry can free several records |
| `Index_merge` with 2 slots, 5 pages, `MaxClock = 4` | `MergesBounded` | `wanted -= done` wraps when more empty pages are dropped than wanted |
| `Log_failures` | `NothingLost` | a write that fails half-way leaves a torn record; later, acknowledged calls are logged behind it and dropped by recovery. With `MayFailSync` instead: the result of fsync is not looked at |
| | `CheckpointFaithful` | a checkpoint stores the allocated clock; loaded, it shows what a failed call left |
| | `ReplayAccepted` | `flush` clears `pending` only when all of it is written (`chronovec.cpp:746`), so records that did reach the file are written again behind later ones; replay's `tick` throws (`chronovec.cpp:1147`), `cv_create_with_wal` returns no index, and does so for ever |
| `Log_promises` | `BlockEntire` | a crash in the middle of a block leaves records that verify, and replay applies them |
| | `LoggedFirst` | a single insert closes the old version before it logs |
| | `LabelsSurvive` | records carry no label, so recovered rows have label 0 |
| | `ErasedStaysErased` | replay brings back what vacuum reclaimed |
| `Log_power_cuts` with `Crashes = {"process", "power"}` | `Survives` | recovery answers from records that were never synced; a power cut then takes them |
| `Collection_promises` | `SidecarFollows` | `delete(ids=[a, a, b])`: the engine stops at the second `a`, the sidecar marks `b` deleted |
| | `GrowthServes` | the larger arena may still not hold what the log replays, or the batch that did not fit |
| | `TokensFrozen` | an edit of metadata alone does not move the clock: a token taken before it answers with the edit |
| `Collection_async` | `SidecarFollows` | two coroutines interleave between the engine's call, the clock and the sidecar |
| `Files_halves` | `Whole` | a crash between `.cvec` and `.meta` leaves halves of different mutations, which load accepts |
| | `Tidy` | a crash while a collection is created or deleted leaves a registry entry without files |
| | `NoOrphans` | a crash or an error before the manifest leaves files no manifest will ever name |
| `Files_crash` with `FileOf <- OneFile`, `ManifestOf <- OneManifest`, `Stores = {"agent.a", "agent.b"}` | `Reopens`, `Recovers` | names with a dot share files. `Recovers` also fails with `OwnManifest`, both `Engines` and `Renewed = TRUE`: a memory saved by one engine is not found by the other |
| `Files_crash` with `ClosedCounts = TRUE` | `Reopens` | `delete_collection` of a collection that is not open leaves the closed object in `_open` (`client.py:125-128`); a create of that name ("creating and persisting it if necessary", `client.py:67`) returns it, and registers and writes nothing. `reset()` of a fresh client does the same to every name |
| `Branches_promises` | `TopK` | ids the branch rewrote take places among the k of the base search ("An update doesn't shrink the pool", `branchable_memory.py:357`) |
| | `ConflictsTrue` | purge pops an id's versions, and a branch that expected one is told of a conflict main never had |
| `Branches_views` with `Shared = TRUE` and two agents | `Implements` | a branch is merged or discarded between another thread's `_check_open` and its gate. With `DeepForks` instead of `Shared`: a fork below a purge sees less than main held |
| `Labels_branches` with `Overlaps = TRUE` | `MemorySound` | two discards of one branch pass `_check_open` together; the second frees the bit that a new branch got in between (`memory.py:184`, `515`) |
| | `MainSees` | an add that passed the check before a discard inserts its row under a bit main no longer excludes |
| | `CleanBranchSees` | the same, under a bit a new branch has |
| `Labels_promises` | `BranchSees` | the bit of a released branch no longer keeps its old rows out of a fork made while they were there (`memory.py:164`) |
| | `ForkSees` | `as_of_fork` reads rows a former owner of the bit had at that snapshot |
| | `MainTravels` | `main.search(as_of=...)` meets rows of branches that are gone |
| | `MainSees` | the process dies at a checkpoint inside a merge's deletes: half of the merge is main's |
| `Reference_promises` | `RowsStay` | the clock moves before the row is written: a search at the clock finds neither version |
| | `OneVersion` | two writers of one id each place a version before either closes the other's |
| | `NoStandoff` | insert takes the directory's lock inside a page's, split and vacuum the other way round |
| `Replay_promises` | `BurstHolds` | `insert_many` falls back to `build`, which replaces an immutable engine's contents |
| | `BatchesHit` | inserts and deletes replayed alone: a delete names ids that never came |
| | `RowsDiffer` | the pool wraps, and two live ids share a vector |
| `Lats_promises` | `PublishAtomic` | publish merges branch by branch ("Atomically merge", `_lats_engine.py:481`) |
| | `Resumable` | a crash inside `save` leaves a sidecar that is torn or of another generation |
| | `Reattached` | a save in the middle of a wave stores nodes without branches |
| | `AllReleased` | after an exception the other tasks go on; `discard_all` misses the branches they make. With `Modes <- Careful` too: a build that raises or is cancelled after the fork leaves a branch no node holds, and those alone (`BranchesOwned`) |
| | `TrajectoryWhole` | a node whose tool raised stays in the tree, and `run` expands below it |

## Proofs

`ChronoIndexProof` proves `TypeCorrect`: `Spec => []TypeOK` from the
assumptions on the constants alone, one lemma per action.

It also proves `SlotInvariant` and `SlotReuse` under `~StoreBuffered`, that
is, when a pin is visible as soon as it is stored (*Disagreements* shows that
the assumption is needed). `SlotSafe` alone is not inductive. The argument of
`SlotInv`:

1. nothing committed is newer than the call in progress (`Timestamps`) and a
   snapshot is committed (`Snapshots`); a search's pin is 0 until its snapshot
   is resolved and the snapshot afterwards (`Pins`);
2. a published version has its payload in the store (`StoreMatches`), and the
   clone being filled keeps what is published (`DraftExtends`);
3. what vacuum is about to clear ended no later than any snapshot in use or
   still to be taken (`DoomedIsPast`): that is where the pins enter;
4. so every version visible in a held image is still in its slot of the
   published page (`HeldSurvives`), and by 2 its payload is in the store.

Its second part proves `BooksKept`, `LocationsKept`, `OneOpenVersion` and
`NothingForgotten`, the first three under `~MayThrow`: a call that is thrown out
of in the middle of a round loses the rows it had not listed yet, and leaves an
open version that the next insert of the id does not find (*Disagreements*).
`LocationsExact` and `OneOpen` speak of the moments between calls and need each
other in between; the argument of `BookInv`:

1. within a call, what the directory holds is what `locations` names and the
   rows of the round in progress (`Listed`, `Unlisted`), the clone adds to its
   page only rows of the call, in free slots (`Drafted`), and a page not handed
   out is empty (`Fresh`);
2. a row that is about to be placed meets no open version of its id (`Ready`,
   `ReadyDraft`): `close_current` finds the open version through `locations`, so
   by 1 it misses none; so that no id ever has two (`SingleOpen`);
3. splits and merges copy: there is a bijection between the cells before and the
   cells after that keeps every version (`SplitCopies`, `MergeCopies`, `Traces`),
   which carries 1 and 2 over.

`NothingForgotten` adds that a closed version is queued, or taken from the queue
and about to be cleared (`QueuedOrDoomed`). It assumes `[]StampsDiffer`, that no
two versions of an id carry the same stamps: a batch that has an id three times
makes two closed versions with equal stamps, and vacuum, which finds the versions
of an entry of the queue by id and stamps, meets the same one twice. The run
`structure`, whose batches are shorter, satisfies it.

Its third part proves `AnswersKept`, `TimeTravelled`, `SearchesSound` and the
refinement `IndexImplements` under `Undisturbed`: pins are visible at once, no
timestamp is given twice, nothing is thrown, and a batch that may be refused is
one block. Each is needed (*Disagreements*, `Index_failures` and the
`StoreBuffered` row): a call that stops in the middle leaves rows that the next
commit shows, and a call at the timestamp committed last changes what that
timestamp answered. `search` and `structure` satisfy it. The argument of
`AnswerInv`, on top of `SlotInv` and `BookInv`:

1. the timestamp of a call is later than all that is committed (`Late`), and
   every stamp on a version is committed or the call's own (`CellStamps`); so no
   search can tell how far a call has come, and at every timestamp that may be
   read the directory answers as the history (`Answers`);
2. that the commit turns the one history into the next needs to know what the
   call has done: its rows are still to be closed, still to be placed, in the
   clone, published (`Placed`), their ids closed (`Ended`), in the order each
   kind of call works in (`CallShape`, `CallOrder`, `DeletesFind`). Then the
   open versions are those of the history without the ids closed, and of each
   id the last row placed (`OpenNow`); when all rows are done those are the open
   versions of the next history (`CommitHistory`, `CommitAsOf`, `CommitSeen`);
3. what vacuum clears ended before every timestamp that may be read (by
   `SlotInv`), and splits and merges copy (by the bijection of the second part), so
   both keep what is seen of the directory and of the pages a search has left,
   though these may have been replaced;
4. what a search has collected and what it has left to scan make its answer
   (`Collected`): a page it loads moves from the second to the first, with the
   payload `SlotSafe` promises. With `Asked`, where its snapshot lies, that is
   the refinement: `Commit` is the abstract `Write`, `Pin` the `Call`, the load of
   an empty directory or the scan of the last page the `Answer`, `Unpin` the
   `Return`, and every other step a stutter.

`RWLockProof` proves `GateHolds` (types, exclusion, the counters) and
`WakeupsArrive` (no lost wake-up), for any number of threads, any nesting and any number of calls.
`Exclusive` is not inductive: that a writer finds `readers = 0` says nothing
unless `readers` counts the read blocks entered, and that the outermost exit
opens the gate nothing unless `depth` counts the writer's. `LockInv` therefore
adds to the types and `NoLostWakeup` that the counters are the numbers of blocks
(`Counted`), that write blocks are the writer's own (`OnlyWriter`), that others
are then outside (`OthersOut`), and that nesting stays within its bound
(`Room`). The counting steps rest on lemmas about the set of entered blocks: a
block entered adds one pair, the innermost left takes one away.

`WriteLogProof` proves `LogStaysSound`: `Spec => []LogSound` from the
assumptions on the constants. That replay accepts the log is about the file a
crash will leave, so the invariant says of the file, of what is staged and of
the clock that timestamps only grow along them (`LogOrdered`), under the
condition that no write failed; `Stamped` says that every timestamp logged or
staged is a real one, so that a version that was closed, also by replay, is
never taken for an open one.

Its second part proves `CheckpointsAreFaithful` with no further assumption,
and `AcknowledgedSurvives` under `Reliable`: the log is synced or only processes
die, and no crash of one kind follows one of the other. `Log_recovery` satisfies
it; the two assumptions it makes are needed, see `Log_power_cuts` under
*Disagreements*. The argument:

1. what a version set answers and what a sequence of records says are brought
   to the same terms: `Sees(versions, id, vec, ts)` and `Writes(rows, n, id, vec,
   ts)`, the first n rows make vec the answer for id at ts. Lemmas say what
   `ClosedIn`, `Put` and `PutAll` do to `Sees` (`PutAllSees`, `PutSees`) and how
   `Writes` splits over a sequence (`WritesSplit`);
2. as long as nothing failed, the file is the records that make what was
   promised (`Promises`) and behind them a leading part of the rows of the call
   in progress or interrupted (`Carries`); the former, and before a call ends
   the latter, are synced as far as a power cut may still come (`SyncedTo`).
   That is `LogKept`, and a crash keeps it: it cuts a suffix of what is not
   synced;
3. between crashes the memory sees what was promised, changed by the rows of
   the call that are applied; during replay it sees what the records up to `at`
   write (`MemoryFollows`). A single insert ends the old version before it logs
   anything: so rows that *end* a version are counted apart (`Ended`) from
   those that are placed (`Applied`);
4. where replay ends, 2 and 3 say that the memory sees what was promised and a
   leading part of the interrupted call: one of `Outcomes`, which `Open`
   chooses; so 2 and 3 hold again with nothing in doubt.

`FilesProof` proves `FilesWhole`, `FilesTidy`, `FilesOpen` and `FilesRecover`
over `FilesSpec`, each for any number of names, stores, branches and saves.

* The client's part rests on `RegistryInv`: which files a name may have, and
  whether it is registered, on disk and in memory, at each step of the call on
  it (`RegisteredAt`, one clause per step), and that every file is some name's
  (`Named`). It needs only that no two names share files (`Apart`) and holds
  whichever step a process dies before. On top of it `Matched` gives `Whole`,
  `Kept` gives `Opens` and `Settled` gives `Tidy`, each with just the steps it
  cannot survive as a hypothesis: the step between a mutation's two files; those
  of a deletion after its first file; those of a creation or deletion once it
  began. TLC shows each of them needed (*Disagreements*, `Files_halves`). `Opens`
  also needs `~ClosedCounts` (*Disagreements*, `Files_crash`): an entry of `_open`
  that is closed has no contents and need not be registered.
  `Kept` and `Settled` name those steps because the property is broken for a
  moment there: they say what holds instead until the call is over.
* `Recovers` needs to know that what is removed is no one's. `GenerationsInv`
  says that the generations a store has to do with, through its manifests, its
  save or the files that save will remove, are no other store's (`Disjoint`);
  that a save's generation is newer than the manifest until it is published and
  the manifest's afterwards, and what it will remove is of another
  (`SaveSound`); that at most one engine has a manifest of a store, and a
  process keeps to it (`EngineKept`); that what a manifest lists is there
  (`ManifestsSound`) and that a file holds what its generation began with
  (`FilesSound`). Together the manifest verifies (`WholeGeneration`), and by
  `AnswerKept` it is new enough. Hypotheses: stores have manifests of their own
  (`OwnManifests`), and a process does not start over the files of another
  engine (`OneEngine`); both are needed (`Files_crash` under *Disagreements*).

`BranchesProof` proves `MemoryBooks` and `SnapshotsKept` from the assumptions on
the constants alone, and the refinement `BranchesImplement` where agents keep to
the branches they made (`~Shared`) and fork at snapshots no purge reached
(`~DeepForks`), as in the run `branches`; both are needed (*Disagreements*,
`Branches_views`). Nothing bounds ids, agents, branches or the merges between them.

* What holds in every case is `BranchesInv`. Of main (`MainInv`): a row of the
  engine has a record, and an open one has the record's value, live
  (`RecordsSound`); the history still has the payload of every row that a search
  may be asked for, as the last one stored while the row was the latest
  (`HistorySound`); and at every snapshot no purge reached the engine's versions
  are what main held (`TimelineSound`). `Snapshots` alone is not inductive: a
  commit that ends a row keeps its payload found only because the history's
  stamps grow with the rows' (`StillWritten`). Of the branches
  (`StatesInv`): a delta is a sound index, and while it is open it has what the
  branch recorded and the branch expects a version of exactly what it wrote or
  deleted (`DeltaMatches`).
* The refinement adds three things (`RefInv`). `ChangesLogged`: an id that main
  holds otherwise at a later snapshot than at an earlier one has a version stamp
  after the earlier; that is why a branch that finds the versions it expects may
  overwrite. `LastsDeleted`, so that a purge, which forgets the stamps of what was
  deleted before the horizon, forgets none of those. `Owned`: a listed branch is
  open and above the horizon, and a call past `_check_open` is on a branch that
  is still listed, or that it is itself about to mark closed.
* Then a branch's search shows its records over main at the fork (`View`,
  `BranchShows`) and main's search what it holds now (`MainViewIs`), and each
  step maps: `Add` to `Write`, `DeleteRecord` to `Erase`, `Fork`, `BranchAdd` to
  `BranchWrite`, `BranchDelete` to `BranchErase`, `MergeBranch` to `Merge`
  (`MergeShows`, `MergeClean`), `DiscardBranch` to `Discard`; `Purge`, `Call`,
  `MergeRefused` and `Close` are stutters.

`CollectionProof` proves `SidecarAgrees`, `SnapshotsAnswer` and `VacuumsPrune`
for one caller whose deletes name an id once (`Threads = {t}`, `~RepeatedIds`),
as in the run `collection`; nothing else bounds records, metadata, capacity or
calls, and the arena may have to grow at any insert. Both assumptions are needed
(*Disagreements*, `Collection_promises` and `Collection_async`): the sidecar
follows the engine in steps of its own, and holds together between calls only if
no other call comes between. So `CollectionInv` says at each step of the call how
far apart the two are:

1. the engine's open ids are the live ones with those the call has inserted and
   not yet recorded (`Coming`), without those it has deleted and not yet
   forgotten (`Going`); the log's are the same but for a batch that it has and
   the full arena refused (`Logged`). That is `EngineFollows`. It also counts the
   commits the call has `Left`, the log being ahead while the arena grows;
2. stamps of the sidecar are behind the clock, and a name that is not live has
   the stamp of its delete (`Stamped`). The vectors of a deleted record ended by
   that stamp, one of them at it, in the log and, until a vacuum's horizon is
   past it, in the engine (`Buried`): so pruning forgets no name that a vector
   still visible at a kept snapshot needs, and keeps none without cause. The
   stamp is that of the whole call, hence the form of `VacuumPrunes`;
3. at every kept snapshot that was answered, the engine still gives that answer,
   of named records, and sees the vectors the log would give (`Answered`). The
   last part is why replacing the arena by a replay, which brings back what
   vacuums had removed, changes no answer that was promised.

Calls of the engine enter through one relation, `Advanced`: versions of some ids
end by the new clock, versions of others start at it, and nothing visible at an
earlier snapshot changes. An insert of a batch, a delete id by id and the replay's
copy of either satisfy it (`InsertAdvances`, `DeleteAdvances`), and what the
proofs need is derived from it once (`AdvancedFacts`, `AdvancedFrom`). Of the
sidecar, lemmas say what `MetaAt` finds after an append and after pruning
(`MetaAtAppend`, `PrunedIs`). The proof found a mistake in an earlier form of
`VacuumPrunes`, which asked for a row that ended at or after the horizon for each
*name*: it fails for three records, one more than TLC's instance has.

`LabelsProof` proves `MemoryIsSound`, `MainIsSeen` and `CleanBranchIsSeen` where
no call that ends a view overlaps another call on it (`~Overlaps`), for any ids,
names, bits and agents. That is needed (*Disagreements*, `Labels_branches`). It
makes `CallsInv` inductive: whoever is past `_check_open` is on a view that is
still listed under its name, or has released it and is about to close it; so a
row is never written, nor a bit released, for a view that is gone, which is all
that the steps under the gate need to know of the agents. Beside it the three rest
on one invariant, `LabelsInv`, which holds in the middle of a merge or a discard
too, while `MainSees` and `CleanBranchSees` speak of the moments when none is
under way (searches wait for the gate):

1. index, records and payload history tell one story (`MemSound`): a live record
   is one open row with its value and bit; each row's payload is still the last
   one stored while the row was the latest (`Written`), so a search at any
   snapshot hands out the payload stored with the vector; and the rows of a dead
   record ended when it was deleted, so a purge that drops the record and its
   history has dropped the rows;
2. a live row is main's, or an open branch's with its bit and its value as last
   written (`Belongs`), and an open branch still has every row it wrote and its
   fork point is above what purges reached (`Opened`, `ViewHolds`); so a bit that
   is given out again has no open row under it. Rows that *ended* under it remain:
   hence the condition of `CleanBranchSees`, and *Disagreements*,
   `Labels_promises`, for what happens without it;
3. at every snapshot no purge reached, main's rows are what main held (`Timed`);
4. a merge or discard under way has left to do exactly what it has not done
   (`Underway`): the branch's rows that are still live are those left to promote
   or to drop (`OwnLive`), and what main's rows show together with what is left
   is what main will show (`Settled`). When nothing is left, 1 to 3 hold without
   the branch, and its bit may go.

`ReferenceProof` proves `BookIsExact`, `HistoryKept` and `SearchesAnswer` for
one writer (`Writers = {w}`) and searches at snapshots all of whose calls have
returned (`~Latest`), as in the run `reference`; ids, pages, slots, searches and
the clock are arbitrary. Both assumptions are needed (*Disagreements*,
`Reference_promises`): with two writers TLC finds each of the three violated,
and with `Latest` and one writer `SearchAnswers`. The first two speak of the moments
between calls, so the invariant `RefInv` says what each step of a call leaves
undone. It is stated over `Layout`, the function from the cells in use to their
rows, so that a step is one of few things that can happen to a layout: a row
ends, is added, is dropped, or all rows are moved (`Moves`, a bijection of cells
that keeps each row):

1. where the call is, which locks it holds and whose row it has in hand (`Calls`);
2. rows begin and end at ticks of their own, up to `Begun` and `Ended`; the rows
   no call has closed are `Currently`, one of an id; and at every snapshot up to
   `Told` that vacuum keeps the layout tells what was current then (`Rows`). An
   upsert closes before it places: so what is told stops short of its tick until
   the call has returned;
3. the map names each row once but for `Unlisted`, the row placed and not
   recorded, and `Cleared`, the places vacuum emptied and has not rebuilt; the queue has
   each closed version once, in order, but for `Unqueued` (`Books`). With 2,
   `ClosePlace` finds the open version if there is one, and `ReclaimOne` the row
   of its entry: ticks are never shared, so the entry names one row;
4. what a search has got together with what its remaining pages show is its
   answer (`Reads`). A split empties no page a search still has to look at: it
   leaves the old one as it was. A vacuum clears rows that ended before every
   snapshot still searched, and a write only changes what is seen from its tick on.

Lemmas about the closed forms come first: that `InOrder` lists a set once in its
order (`InOrderIs`), and what `Part`, the rebuilt map and the targets of a split contain.

Model-checked only: `Replay` and `Lats`, a driver and a client of the index whose
states are mostly configuration (modes, kinds of engine, shapes of a tree), and
which TLC explores up to bounds that reach all of them. The liveness properties
(`SearchReturns`, `Reopens`, `GetsIn`, `BudgetSpent` with `RunsEnd`) are beyond
the prover.

## Plan

1. `FilteredSearch`: several passes over possibly different directories and
   snapshots, and the batch search that resolves a snapshot per query.
2. `VirtualTable`: savepoints, the dirty flag and the rebuild from the shadow
   tables, with SQLite's callbacks as environment.

## Not modelled

Distance kernels, screening codes and the routing graph (floating-point
heuristics that decide ranking, not visibility), the arena's memory mapping (its
exhaustion is `MayThrow` and `GrowArena`), the multi-vector index (its writes
are the engine's, its encodings arithmetic), the SQLite virtual table (its order
of callbacks is SQLite's), bindings of other languages (thin wrappers),
integrations, embeddings and the command line (no state of their own).
