--------------------------------- MODULE Lats ---------------------------------
(***************************************************************************)
(* The tree-search agent of examples/_lats_engine.py, the largest client   *)
(* of memory branches: every node of a search tree owns a branch with its  *)
(* action and its observation, and what led to a node is read back from    *)
(* the branches on its path.  run() expands one node at a time;            *)
(* run_async() reserves a wave of nodes, then gives each its branch in a   *)
(* task of its own.  A search is published, discarded, saved and resumed.  *)
(* Which child scores best is any child, what a judge answers any score,   *)
(* an observation is the path it was made on, and times are left out.      *)
(***************************************************************************)
EXTENDS Naturals, Sequences, SequencesExt, FiniteSetsExt

CONSTANTS Actions,        \* the sequence of action names
          MaxDepth, MaxIterations, Concurrency,
          Scores,         \* the values a judge gives
          None,
          Modes,          \* how the caller behaves: see mode
          MaxRuns         \* bound on the calls of run and run_async

ASSUME Sizes == /\ Actions # <<>> /\ IsInjective(Actions)
                /\ MaxDepth > 0 /\ MaxIterations > 0 /\ Concurrency > 0

VARIABLES nodes,      \* nodes, the root first: a node is its place in the list
          leaves,     \* leaves
          memory,     \* the AgentMemory: main's records and each open branch's;
                      \* `ended' and `lost' are history variables: the winners
                      \* published, and 0 for a search discarded; the branches
                      \* forked for nodes that never came to hold them
          tasks,      \* how far the task that gives a reserved node its branch is
          call,       \* the locals of the call under way
          disk,       \* the checkpoint: the memory's file and the sidecar
          runs,       \* how many runs were called
          mode        \* calls: which calls the caller makes; fails: what may
                      \* raise (execute, evaluate, or a step of a branch's build)
                      \* or be cancelled (cancel); again: runs on after a tool raised
                      \* or a search ended; waits: makes no call while tasks go on;
                      \* tears: the process may die inside a save

vars == <<nodes, leaves, memory, tasks, call, disk, runs, mode>>

Root == 1
Kinds == {"action", "observation"}
Idle == [pc |-> "idle"]

LATSNode(path, observations, parent) ==
  [path |-> path, observations |-> observations, parent |-> parent,
   branch |-> FALSE, visits |-> 0, total |-> 0, value |-> None]

Fresh == <<LATSNode(<<>>, <<>>, 0)>>

-----------------------------------------------------------------------------
(* The tree.                                                               *)

Children(ns, n) == {m \in DOMAIN ns : ns[m].parent = n}

\* A node and its ancestors.
Chain(ns, n) ==
  LET up[m \in 0..n] == IF m = 0 THEN {} ELSE {m} \cup up[ns[m].parent] IN up[n]

\* Mutant of Available: an action of the path is taken once more.
AvailableAgain(ns, n) ==
  LET expanded == {Last(ns[m].path) : m \in Children(ns, n)}
  IN SelectSeq(Actions, LAMBDA a : a \notin expanded)

\* Mutant of Available: a child without a branch does not count.
AvailableAttached(ns, n) ==
  LET expanded == {Last(ns[m].path) : m \in {c \in Children(ns, n) : ns[c].branch}}
  IN SelectSeq(Actions, LAMBDA a : a \notin ToSet(ns[n].path) \cup expanded)

Available(ns, n) ==
  LET expanded == {Last(ns[m].path) : m \in Children(ns, n)}
  IN SelectSeq(Actions, LAMBDA a : a \notin ToSet(ns[n].path) \cup expanded)

IsTerminal(ns, n) ==
  \/ Len(ns[n].path) >= MaxDepth
  \/ ToSet(Actions) \subseteq ToSet(ns[n].path)

Backpropagated(ns, n, v) ==
  [m \in DOMAIN ns |-> IF m \in Chain(ns, n)
                       THEN [ns[m] EXCEPT !.visits = @ + 1, !.total = @ + v] ELSE ns[m]]

\* Where _select stops: at the first node on its way down that is terminal or
\* has an action left.
Selected(ns) ==
  LET Stops(n) == IsTerminal(ns, n) \/ Available(ns, n) # <<>>
  IN {n \in DOMAIN ns : Stops(n) /\ \A m \in Chain(ns, n) \ {n} : ~Stops(m)}

\* Mutant of SelectedForBatch: nodes without a branch are walked into as well.
SelectedForBatchAny(ns, avoid) == Selected(ns) \ avoid

\* Where _select_for_batch may stop: the same, around the nodes to avoid and
\* those still without a branch; it turns back at a dead end.
SelectedForBatch(ns, avoid) ==
  LET Reachable(n) == (n = Root \/ ns[n].branch) /\ n \notin avoid
  IN {n \in Selected(ns) : \A m \in Chain(ns, n) : Reachable(m)}

-----------------------------------------------------------------------------
(* A node's branch and its score.                                          *)

Reserved(ns, n) ==
  Append(ns, LATSNode(Append(ns[n].path, Head(Available(ns, n))), ns[n].observations, n))

Observed(ns, n) ==
  [ns EXCEPT ![n].observations = Append(ns[ns[n].parent].observations, ns[n].path)]

Attached(ns, n) == [ns EXCEPT ![n].branch = TRUE]

Detached(ns, gone) ==
  [m \in DOMAIN ns |-> IF m \in gone THEN [ns[m] EXCEPT !.branch = FALSE] ELSE ns[m]]

\* The branch's name is taken: memory.branch raises.
Taken(mem, n) == n \in DOMAIN mem.open

Forked(mem, n) ==
  [mem EXCEPT !.open = [m \in DOMAIN @ \cup {n} |-> IF m = n THEN {} ELSE @[m]]]

Added(mem, n, kind) == [mem EXCEPT !.open[n] = @ \cup {<<n, kind>>}]

Released(mem, gone) ==
  [mem EXCEPT !.open = [m \in DOMAIN @ \ gone |-> @[m]]]

\* The fork's node will not hold it: what was to attach it raised or was cancelled.
Lost(mem, n) == [mem EXCEPT !.lost = @ \cup {n}]

Merged(mem, n) == [Released(mem, {n}) EXCEPT !.main = @ \cup mem.open[n]]

\* What scoring a node may answer: its value is kept; without a branch it raises.
ScoresOf(ns, n) ==
  IF ns[n].value # None THEN {ns[n].value} ELSE IF ns[n].branch THEN Scores ELSE {}

\* Mutant of Listed: a leaf is listed at every visit.
ListedAgain(ns, n) == Append(leaves, n)

Listed(ns, n) == IF ns[n].value = None THEN Append(leaves, n) ELSE leaves

ScoredNode(ns, n, v) == Backpropagated([ns EXCEPT ![n].value = v], n, v)

\* The records trajectory_search brings together from the node's branch and its
\* ancestors'; each of them sees main too.
trajectory_search(n) ==
  UNION {memory.main \cup memory.open[m] :
           m \in {c \in Chain(nodes, n) : nodes[c].branch /\ c \in DOMAIN memory.open}}

NewMemory == [main |-> {}, open |-> <<>>, ended |-> {}, lost |-> {}]

-----------------------------------------------------------------------------
Init ==
  /\ nodes = Fresh /\ leaves = <<>>
  /\ memory = NewMemory
  /\ tasks = <<>> /\ call = Idle
  /\ disk = [memory |-> None, sidecar |-> None]
  /\ runs = 0
  /\ mode \in Modes

Live == {n \in DOMAIN nodes : nodes[n].branch}

\* The caller may make a call of this kind.
Calls(kind) ==
  /\ call = Idle
  /\ kind \in mode.calls
  /\ mode.waits => tasks = <<>>

Starts(kind, locals) ==
  /\ Calls(kind)
  /\ runs < MaxRuns
  /\ mode.again \/ (memory.ended = {} /\ Live = DOMAIN nodes \ {Root})
  /\ call' = locals @@ [remaining |-> MaxIterations]
  /\ runs' = runs + 1
  /\ UNCHANGED <<nodes, leaves, memory, tasks, disk, mode>>

-----------------------------------------------------------------------------
(* run().                                                                  *)

RunCalled == Starts("run", [pc |-> "run"])

Ongoing == call' = [call EXCEPT !.remaining = @ - 1]

Iterating == call.pc = "run" /\ call.remaining > 0
IterationKeeps == UNCHANGED <<tasks, disk, runs, mode>>

\* An iteration that comes to a terminal node.
Revisit ==
  /\ Iterating
  /\ \E n \in Selected(nodes) :
       /\ IsTerminal(nodes, n)
       /\ \/ \E v \in ScoresOf(nodes, n) :
               /\ nodes' = ScoredNode(nodes, n, v) /\ leaves' = Listed(nodes, n)
               /\ Ongoing
          \/ /\ nodes[n].value = None /\ "evaluate" \in mode.fails
             /\ call' = Idle /\ UNCHANGED <<nodes, leaves>>
  /\ UNCHANGED memory /\ IterationKeeps

\* The tool raises: the new node stays in the tree, without a branch.
ExpandFails ==
  /\ Iterating /\ "execute" \in mode.fails
  /\ \E n \in Selected(nodes) : ~IsTerminal(nodes, n) /\ nodes' = Reserved(nodes, n)
  /\ call' = Idle
  /\ UNCHANGED <<leaves, memory>> /\ IterationKeeps

\* The tool answered, then memory.branch raises, or embed or branch.add before
\* either record is in: the node has no branch, and a branch has no node.
BuildFails ==
  /\ Iterating
  /\ \E n \in Selected(nodes) :
       LET child == Len(nodes) + 1
           forked == Forked(memory, child)
       IN /\ ~IsTerminal(nodes, n)
          /\ nodes' = Observed(Reserved(nodes, n), child)
          /\ IF Taken(memory, child) THEN UNCHANGED memory
             ELSE /\ "build" \in mode.fails
                  /\ memory' \in {memory, Lost(forked, child),
                                  Lost(Added(forked, child, "action"), child)}
  /\ call' = Idle
  /\ UNCHANGED leaves /\ IterationKeeps

\* An iteration that expands a node, and scores it when it is terminal.
Expand ==
  /\ Iterating
  /\ \E n \in Selected(nodes) :
       LET child == Len(nodes) + 1
           ns == Attached(Observed(Reserved(nodes, n), child), child)
           forked == Forked(memory, child)
       IN /\ ~IsTerminal(nodes, n) /\ ~Taken(memory, child)
          /\ memory' = Added(Added(forked, child, "action"), child, "observation")
          /\ \/ /\ ~IsTerminal(ns, child)
                /\ nodes' = ns /\ UNCHANGED leaves
                /\ Ongoing
             \/ /\ IsTerminal(ns, child)
                /\ \E v \in Scores : nodes' = ScoredNode(ns, child, v)
                /\ leaves' = Listed(ns, child)
                /\ Ongoing
             \/ /\ IsTerminal(ns, child) /\ "evaluate" \in mode.fails
                /\ nodes' = ns /\ UNCHANGED leaves
                /\ call' = Idle
  /\ IterationKeeps

RunReturns ==
  /\ call.pc = "run" /\ call.remaining = 0
  /\ call' = Idle
  /\ UNCHANGED <<nodes, leaves, memory, tasks, disk, runs, mode>>

run == RunCalled \/ Revisit \/ ExpandFails \/ BuildFails \/ Expand \/ RunReturns

-----------------------------------------------------------------------------
(* run_async().                                                            *)

NoWave == [count |-> 0, immediate |-> <<>>, pending |-> {}]

RunAsyncCalled == Starts("run_async", [pc |-> "pick"] @@ NoWave)

Claimed == ToSet(call.immediate)
BatchSize == Min({Concurrency, call.remaining})
Picking == call.pc = "pick" /\ call.remaining > 0 /\ call.count < BatchSize

\* Selections of a wave run on, with no await: a terminal node is claimed, under
\* any other a child is reserved.
Claim ==
  /\ Picking
  /\ \E n \in SelectedForBatch(nodes, Claimed) :
       /\ IsTerminal(nodes, n)
       /\ call' = [call EXCEPT !.count = @ + 1, !.immediate = Append(@, n)]
  /\ UNCHANGED <<nodes, leaves, memory, tasks, disk, runs, mode>>

Reserve ==
  /\ Picking
  /\ \E n \in SelectedForBatch(nodes, Claimed) :
       /\ ~IsTerminal(nodes, n)
       /\ nodes' = Reserved(nodes, n)
       /\ call' = [call EXCEPT !.count = @ + 1, !.pending = @ \cup {Len(nodes) + 1}]
  /\ UNCHANGED <<leaves, memory, tasks, disk, runs, mode>>

\* Mutant of WaveReturns: a wave cut short ends the run.
WaveReturnsShort == call.count < BatchSize

\* Mutant of WaveReturns: a wave without a selection is no reason to stop.
WaveReturnsNever == FALSE

\* Nothing at all was selected: the run is over, whatever is left of its budget.
WaveReturns == call.count = 0

\* The wave is picked: its tasks start, and what it took is counted.
WaveStarts ==
  /\ call.pc = "pick"
  /\ call.remaining > 0 => call.count = BatchSize \/ SelectedForBatch(nodes, Claimed) = {}
  /\ IF call.remaining = 0 \/ WaveReturns
     THEN call' = Idle /\ UNCHANGED tasks
     ELSE /\ call' = [call EXCEPT !.pc = "gather", !.remaining = @ - call.count]
          /\ tasks' = [n \in DOMAIN tasks \cup call.pending |->
                         IF n \in call.pending THEN "execute" ELSE tasks[n]]
  /\ UNCHANGED <<nodes, leaves, memory, disk, runs, mode>>

-----------------------------------------------------------------------------
(* _materialize_branch_async: one step up to each await, on the node's own *)
(* task.  gather hands on the first exception and lets the others go on.   *)

Ended(n) == [m \in DOMAIN tasks \ {n} |-> tasks[m]]
At(n, stage) == n \in DOMAIN tasks /\ tasks[n] = stage
TaskKeeps == UNCHANGED <<leaves, disk, runs, mode>>

\* Calls that are no coroutines hold the event loop; threads go on under them.
LoopFree == call.pc \notin {"run", "publish", "save"}

Execute(n) ==
  /\ At(n, "execute") /\ LoopFree
  /\ nodes' = Observed(nodes, n)
  /\ tasks' = [tasks EXCEPT ![n] = "fork"]
  /\ UNCHANGED <<memory, call>> /\ TaskKeeps

Fork(n) ==
  /\ At(n, "fork") /\ ~Taken(memory, n)
  /\ memory' = Forked(memory, n)
  /\ tasks' = [tasks EXCEPT ![n] = "action"]
  /\ UNCHANGED <<nodes, call>> /\ TaskKeeps

AddAction(n) ==
  /\ At(n, "action")
  /\ memory' = Added(memory, n, "action")
  /\ tasks' = [tasks EXCEPT ![n] = "observation"]
  /\ UNCHANGED <<nodes, call>> /\ TaskKeeps

AddObservation(n) ==
  /\ At(n, "observation")
  /\ memory' = Added(memory, n, "observation")
  /\ tasks' = [tasks EXCEPT ![n] = "attach"]
  /\ UNCHANGED <<nodes, call>> /\ TaskKeeps

Attach(n) ==
  /\ At(n, "attach") /\ LoopFree
  /\ nodes' = Attached(nodes, n)
  /\ tasks' = Ended(n)
  /\ UNCHANGED <<memory, call>> /\ TaskKeeps

\* A task that ends before it attached the branch it forked.
CutShort(n) == IF tasks[n] \in {"execute", "fork"} THEN memory ELSE Lost(memory, n)

\* The run under way waits for this task.
Awaited(n) == call.pc = "gather" /\ n \in call.pending

Raise(n) ==
  /\ LoopFree
  /\ \/ At(n, "execute") /\ "execute" \in mode.fails
     \/ At(n, "fork") /\ Taken(memory, n)
     \/ tasks[n] \in {"fork", "action", "observation"} /\ "build" \in mode.fails
  /\ tasks' = Ended(n)
  /\ call' = IF Awaited(n) THEN Idle ELSE call
  /\ memory' = CutShort(n)
  /\ UNCHANGED nodes /\ TaskKeeps

materialize(n) ==
  Execute(n) \/ Fork(n) \/ AddAction(n) \/ AddObservation(n) \/ Attach(n) \/ Raise(n)

\* A task that no run waits for is dropped at its await, with what its thread did:
\* asyncio.run cancels what an exception left behind, a timeout the whole run.
Cancelled(n) ==
  /\ "cancel" \in mode.fails /\ LoopFree /\ ~Awaited(n)
  /\ tasks' = Ended(n)
  /\ memory' = CutShort(n)
  /\ UNCHANGED <<nodes, call>> /\ TaskKeeps

-----------------------------------------------------------------------------
(* The rest of a wave.                                                     *)

Gathered ==
  /\ call.pc = "gather" /\ call.pending \cap DOMAIN tasks = {}
  /\ LET done == SetToSortSeq({n \in call.pending : IsTerminal(nodes, n)}, LAMBDA a, b : a < b)
     IN call' = [call EXCEPT !.pc = "score", !.immediate = @ \o done]
  /\ UNCHANGED <<nodes, leaves, memory, tasks, disk, runs, mode>>

\* The judge answers for the next node of the wave, or raises.
ScoreNext ==
  /\ call.pc = "score" /\ call.immediate # <<>>
  /\ LET n == Head(call.immediate)
     IN \/ /\ \E v \in ScoresOf(nodes, n) : nodes' = ScoredNode(nodes, n, v)
           /\ leaves' = Listed(nodes, n)
           /\ call' = [call EXCEPT !.immediate = Tail(@)]
        \/ /\ nodes[n].value = None /\ "evaluate" \in mode.fails
           /\ call' = Idle /\ UNCHANGED <<nodes, leaves>>
  /\ UNCHANGED <<memory, tasks, disk, runs, mode>>

\* The run is cancelled at one of its awaits.
RunCancelled ==
  /\ "cancel" \in mode.fails
  /\ call.pc = "gather" \/ (call.pc = "score" /\ call.immediate # <<>>)
  /\ call' = Idle
  /\ UNCHANGED <<nodes, leaves, memory, tasks, disk, runs, mode>>

WaveEnds ==
  /\ call.pc = "score" /\ call.immediate = <<>>
  /\ call' = NoWave @@ [call EXCEPT !.pc = "pick"]
  /\ UNCHANGED <<nodes, leaves, memory, tasks, disk, runs, mode>>

run_async ==
  \/ RunAsyncCalled \/ Claim \/ Reserve \/ WaveStarts
  \/ Gathered \/ ScoreNext \/ RunCancelled \/ WaveEnds

-----------------------------------------------------------------------------
(* The end of a search.                                                    *)

Rank(n) == <<nodes[n].value, nodes[n].visits>>
Beats(a, b) ==
  Rank(a)[1] > Rank(b)[1] \/ (Rank(a)[1] = Rank(b)[1] /\ Rank(a)[2] > Rank(b)[2])

\* The leaf a run returns: the first of the best.
Best == leaves[Min({i \in DOMAIN leaves :
                      \A j \in DOMAIN leaves : ~Beats(leaves[j], leaves[i])})]

\* Mutant of AncestorChain: the leaf alone is published.
LeafAlone(n) == {n}

AncestorChain(n) == Chain(nodes, n)

OnPath(n) == {m \in AncestorChain(n) : nodes[m].branch}

PublishCalled ==
  /\ Calls("publish")
  /\ leaves # <<>> /\ nodes[Best].branch
  /\ call' = [pc |-> "publish", winner |-> Best]
  /\ UNCHANGED <<nodes, leaves, memory, tasks, disk, runs, mode>>

\* The branches on the winner's path are merged one by one, the root's child first.
MergeNext ==
  /\ call.pc = "publish"
  /\ OnPath(call.winner) # {}
  /\ LET n == Min(OnPath(call.winner))
     IN memory' = Merged(memory, n) /\ nodes' = Detached(nodes, {n})
  /\ UNCHANGED <<leaves, tasks, call, disk, runs, mode>>

\* Mutant of DiscardRest: only the leaves give up their branches.
DiscardLeaves(ends) ==
  /\ memory' = [Released(memory, Live \cap ToSet(leaves)) EXCEPT !.ended = @ \cup {ends}]
  /\ nodes' = Detached(nodes, Live)
  /\ UNCHANGED <<leaves, tasks, disk, runs, mode>>

DiscardRest(ends) ==
  /\ memory' = [Released(memory, Live) EXCEPT !.ended = @ \cup {ends}]
  /\ nodes' = Detached(nodes, Live)
  /\ UNCHANGED <<leaves, tasks, disk, runs, mode>>

PublishReturns ==
  /\ call.pc = "publish"
  /\ OnPath(call.winner) = {}
  /\ DiscardRest(call.winner)
  /\ call' = Idle

discard_all == Calls("discard_all") /\ DiscardRest(0) /\ UNCHANGED call

-----------------------------------------------------------------------------
(* Checkpoints: the memory first, then the sidecar.                        *)

Item(n, node) ==
  [path |-> node.path, observations |-> node.observations, parent |-> node.parent,
   branch_name |-> IF node.branch THEN n ELSE None,
   visits |-> node.visits, total |-> node.total, value |-> node.value]

Restored(item) ==
  [LATSNode(item.path, item.observations, item.parent)
     EXCEPT !.branch = item.branch_name # None,
            !.visits = item.visits, !.total = item.total, !.value = item.value]

\* Mutant of Tree: the root is as __init__ makes it.
TreeBelow(items) == [n \in DOMAIN items |-> IF n = Root THEN Fresh[n] ELSE Restored(items[n])]

Tree(items) == [n \in DOMAIN items |-> Restored(items[n])]

SaveMemory ==
  /\ Calls("save") \/ ("save" \in mode.calls /\ ~mode.waits /\ call.pc = "gather")
  /\ disk' = [disk EXCEPT !.memory = memory]
  /\ call' = [pc |-> "save", back |-> call]
  /\ UNCHANGED <<nodes, leaves, memory, tasks, runs, mode>>

SaveSidecar ==
  /\ call.pc = "save"
  /\ disk' = [disk EXCEPT !.sidecar = [n \in DOMAIN nodes |-> Item(n, nodes[n])]]
  /\ call' = call.back
  /\ UNCHANGED <<nodes, leaves, memory, tasks, runs, mode>>

\* The process dies, inside a save perhaps while the sidecar is written over.
Crash ==
  /\ "crash" \in mode.calls /\ disk.sidecar # None
  /\ call.pc # "down" /\ (call.pc = "save" => mode.tears)
  /\ nodes' = Fresh /\ leaves' = <<>>
  /\ memory' = NewMemory
  /\ tasks' = <<>> /\ call' = [pc |-> "down"]
  /\ disk' \in {disk} \cup (IF call.pc = "save" THEN {[disk EXCEPT !.sidecar = None]} ELSE {})
  /\ UNCHANGED <<runs, mode>>

\* The sidecar is there, and the memory has every branch it names.
CanResume ==
  /\ disk.sidecar # None
  /\ \A n \in DOMAIN disk.sidecar :
       disk.sidecar[n].branch_name \in DOMAIN disk.memory.open \cup {None}

Resume ==
  /\ call.pc = "down" /\ CanResume
  /\ memory' = disk.memory
  /\ nodes' = Tree(disk.sidecar)
  /\ leaves' = SetToSortSeq({n \in DOMAIN disk.sidecar : disk.sidecar[n].value # None},
                            LAMBDA a, b : a < b)
  /\ call' = Idle
  /\ UNCHANGED <<tasks, disk, runs, mode>>

-----------------------------------------------------------------------------
publish == PublishCalled \/ MergeNext \/ PublishReturns
checkpoint == SaveMemory \/ SaveSidecar \/ Crash \/ Resume

Next ==
  \/ run \/ run_async
  \/ \E n \in DOMAIN tasks : materialize(n) \/ Cancelled(n)
  \/ publish \/ discard_all \/ checkpoint

Spec == Init /\ [][Next]_vars

\* A run goes on: the loop's code and the tools, memory calls and judges it waits for.
FairSpec ==
  /\ Spec
  /\ WF_vars(Revisit \/ Expand \/ ExpandFails \/ BuildFails \/ RunReturns)
  /\ WF_vars(Claim \/ Reserve \/ WaveStarts \/ Gathered \/ ScoreNext \/ WaveEnds)
  /\ \A n \in 1..(1 + MaxRuns * MaxIterations) : WF_vars(n \in DOMAIN tasks /\ materialize(n))
  /\ WF_vars(SaveSidecar)

-----------------------------------------------------------------------------
(* Properties.                                                             *)

\* The values have their types; a task is on a listed node that has no branch.
TypeOK ==
  /\ \A n \in DOMAIN nodes :
       /\ nodes[n].parent \in 0..(n - 1)
       /\ ToSet(nodes[n].path) \subseteq ToSet(Actions) /\ IsInjective(nodes[n].path)
       /\ nodes[n].visits \in Nat /\ nodes[n].total \in Nat
       /\ nodes[n].value \in Scores \cup {None}
  /\ \A n \in DOMAIN tasks : n \in DOMAIN nodes /\ ~nodes[n].branch
  /\ \A n \in DOMAIN memory.open : memory.open[n] \subseteq {n} \X Kinds
  /\ memory.lost \subseteq DOMAIN nodes

SumOver(field, ns) == FoldSet(LAMBDA n, sum : nodes[n][field] + sum, 0, ns)

\* What the UCT formula divides adds up, in every interleaving and after a
\* resume: a node with children was visited as often as they were together and
\* collected what they did, a leaf its own value at every visit (_backpropagate,
\* resume 580-587).
VisitsAdd ==
  \A n \in DOMAIN nodes :
    IF IsTerminal(nodes, n)
    THEN /\ nodes[n].value = None => nodes[n].visits = 0
         /\ nodes[n].value # None => nodes[n].total = nodes[n].visits * nodes[n].value
    ELSE /\ nodes[n].visits = SumOver("visits", Children(nodes, n))
         /\ nodes[n].total = SumOver("total", Children(nodes, n))

\* No two reservations of a wave, and no two runs, claim the same action under
\* one node (run_async 423-432).
ActionsClaimedOnce ==
  \A m, n \in DOMAIN nodes : nodes[m].path = nodes[n].path => m = n

\* The leaves a run chooses from are the scored nodes, each of them once,
\* after a resume as well (resume, 604-609).
LeavesOnce ==
  /\ IsInjective(leaves)
  /\ call.pc # "down" => ToSet(leaves) = {n \in DOMAIN nodes : nodes[n].value # None}

\* The judge of a node with a branch finds the action and the observation of every
\* step that led to it, and the node's own list of observations agrees
\* (trajectory_search: "full-trajectory context").
TrajectoryWhole ==
  \A n \in DOMAIN nodes :
    nodes[n].branch /\ call.pc # "publish" =>
      /\ (Chain(nodes, n) \ {Root}) \X Kinds \subseteq trajectory_search(n)
      /\ nodes[n].observations = [i \in 1..Len(nodes[n].path) |-> SubSeq(nodes[n].path, 1, i)]

\* Between calls, with no task under way, a branch is open in the memory if and only
\* if the tree's node holds it, or its building was cut short after the fork: those
\* are what discard_all (500-504) cannot release, and there are no others.
BranchesOwned ==
  call = Idle /\ tasks = <<>> =>
    /\ DOMAIN memory.open = Live \cup memory.lost
    /\ Live \cap memory.lost = {}

Trajectory(n) == (Chain(nodes, n) \ {Root}) \X Kinds

\* Between calls main holds the whole trajectories of the winners published, and
\* nothing of any other node (publish, 480-498).
PublishedWhole ==
  call = Idle => memory.main = UNION {Trajectory(n) : n \in memory.ended \ {0}}

\* A run_async that returns with budget left had nothing to select: no node takes
\* another visit ("Each of the max_iterations budget units is still exactly one
\* selection", 419-420; the regression guarded by
\* test_run_async_spends_its_full_budget_under_contention).
BudgetSpent ==
  [][call.pc = "pick" /\ call' = Idle =>
       call.remaining = 0 \/ SelectedForBatch(nodes, {}) = {}]_vars

\* A run that was called ends, whatever the tools and judges answer (435-466).
RunsEnd == call.pc \in {"run", "pick", "gather", "score"} ~> call.pc \in {"idle", "down"}

\* "Atomically merge the winning trajectory's deltas" (publish, 481): whoever reads
\* main sees all of a trajectory or nothing of it.
PublishAtomic ==
  \A n \in DOMAIN nodes :
    LET seen == Trajectory(n) \cap memory.main
    IN call.pc = "publish" /\ call.winner = n => seen \in {{}, Trajectory(n)}

\* A search that was saved can be resumed ("reloads both and reattaches every
\* not-yet-published-or-discarded node to its live branch", docs/use-cases/lats.md).
Resumable == call.pc = "down" => disk.sidecar # None /\ CanResume

\* Every node of a search that did not end comes back with its branch (resume, 558-559),
\* where no tool raised.
Reattached ==
  call = Idle /\ tasks = <<>> /\ memory.ended = {} => Live = DOMAIN nodes \ {Root}

\* Once discard_all ran after the last run ("Release all trajectory deltas", 501), the
\* memory has no branch of the search.
AllReleased == 0 \in memory.ended /\ runs = MaxRuns => DOMAIN memory.open = {}


\* The tree's statistics and claims are consistent in every interleaving of
\* waves, runs and resumes (_select_for_batch, _backpropagate, resume).
TreeSound == TypeOK /\ VisitsAdd /\ ActionsClaimedOnce /\ LeavesOnce

\* The memory holds what the tree says it holds: whole trajectories for the
\* judge, the open branches, and main after publication (run_async, publish,
\* discard_all).
MemoryMatchesTree == TrajectoryWhole /\ BranchesOwned /\ PublishedWhole
=============================================================================
