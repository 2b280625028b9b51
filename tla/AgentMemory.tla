----------------------------- MODULE AgentMemory -----------------------------
(***************************************************************************)
(* The labels engine of memory.py: branches share one native index with    *)
(* main and are told apart by a label bit on every row.  A branch's write  *)
(* of an id has an engine id of its own; a merge deletes those rows and    *)
(* inserts them again for main, one commit each; a released bit is given   *)
(* out again.  A call on a branch asks whether the view is closed before   *)
(* it takes the write gate, and nothing asks again inside: the two are two *)
(* steps of an agent, and merge and discard mark the view closed in a      *)
(* third, after the gate.  Under the gate a call is one step, but for      *)
(* merge and discard, which take one step for each row.  Main's view is    *)
(* never closed, so its calls are one step; nobody merges or discards it.  *)
(* A value stands for a vector and the payload stored with it.  Searches   *)
(* ask for at least as many results as there are ids.                      *)
(***************************************************************************)
EXTENDS NativeIndex

CONSTANTS Ids, MainVals, BranchVals, Names, Nothing,
          Agents,          \* the threads that use branches
          Overlaps,        \* whether a branch may be used by one thread while
                           \* another merges or discards it
          MaxBranches,     \* MAX_BRANCHES: how many label bits there are
          MaxClock,        \* bound on the clock
          MaxViews         \* bound on the views ever made

ASSUME Bounds ==
  /\ Forever \in Nat /\ MaxClock \in Nat /\ MaxClock + 1 < Forever
  /\ MaxBranches \in Nat /\ "main" \notin Names /\ Nothing \notin Nat
  /\ Overlaps \in BOOLEAN

VARIABLES mem,        \* _index, _records and _history
          branches,   \* _branches: the number of the view each name stands for
          views,      \* every _View ever made, main's apart; `wrote' is a history
                      \* variable: what the branch stored and did not delete
          closed,     \* the views whose _closed is set, by number
          calls,      \* what each agent is doing to which view
          used,       \* _used_bits
          task,       \* the merge or discard that holds the gate, and what it has left
          horizon,    \* the largest horizon purged
          timeline    \* history variable: main's contents at each snapshot handed out

vars == <<mem, branches, views, closed, calls, used, task, horizon, timeline>>

MAIN == 0
Has(f, x) == x \in DOMAIN f
Put(f, x, value) == [y \in DOMAIN f \cup {x} |-> IF y = x THEN value ELSE f[y]]
Without(f, gone) == [x \in DOMAIN f \ gone |-> f[x]]
Clock == mem.index.clock
Now == timeline[Clock]

\* The engine id of an id written under a label bit (_overlay_id).
Engine(id, bit) == <<id, bit>>

Record(id, val, branch) == [id |-> id, val |-> val, branch |-> branch, deleted_at |-> Nothing]
Live(m, e) == Has(m.records, e) /\ m.records[e].deleted_at = Nothing

-----------------------------------------------------------------------------
(* Changes of the index and the records together.                          *)

AddUnlocked(m, id, val, bit, branch) ==
  LET e == Engine(id, bit)
      index == Insert(m.index, Row(e, val, {bit}))
      seq == IF Has(m.history, e) THEN m.history[e] ELSE <<>>
  IN [index |-> index,
      records |-> Put(m.records, e, Record(id, val, branch)),
      history |-> Put(m.history, e, Append(seq, [stamp |-> index.clock, id |-> id, val |-> val]))]

\* Mutant of DeleteEngine: the record is not marked.
DeleteEngineOnly(m, e) == [m EXCEPT !.index = Delete(@, e)]

DeleteEngine(m, e) ==
  LET index == Delete(m.index, e)
  IN [m EXCEPT !.index = index, !.records[e].deleted_at = index.clock]

\* Mutant of IdsOn: the records of every branch.
IdsOnAny(m, view) == {e \in DOMAIN m.records : m.records[e].branch # "main" /\ Live(m, e)}

IdsOn(m, view) == {e \in DOMAIN m.records : m.records[e].branch = view.name /\ Live(m, e)}

PromoteOne(m, e) ==
  AddUnlocked(DeleteEngine(m, e), m.records[e].id, m.records[e].val, MAIN, "main")

Promotable(m, view) == {e \in IdsOn(m, view) : m.records[e].id \notin view.deleted}

Idle == [name |-> "main", promote |-> {}, drop |-> {}, erase |-> {}, shows |-> {}]
Free == task = Idle

\* An agent's call on a view: before the gate, inside it (merge and discard),
\* and between the gate and _closed = True.
Outside == [at |-> "outside", on |-> 0, ends |-> FALSE]
On(a, n) == calls[a].at # "outside" /\ calls[a].on = n

-----------------------------------------------------------------------------
Init ==
  /\ mem = [index |-> EmptyIndex, records |-> <<>>, history |-> <<>>]
  /\ branches = <<>>
  /\ views = <<>>
  /\ closed = {}
  /\ calls = [a \in Agents |-> Outside]
  /\ used = {MAIN}
  /\ task = Idle
  /\ horizon = 0
  /\ timeline = Put(<<>>, 0, {})

\* A call ends with main showing `now'.
Main(now) == timeline' = Put(timeline, mem'.index.clock, now)
With(id, val) == {p \in Now : p[1] # id} \cup {<<id, val>>}
Less(ids) == {p \in Now : p[1] \notin ids}

MainAdd(id, v) ==
  /\ Free /\ Clock < MaxClock
  /\ mem' = AddUnlocked(mem, id, v, MAIN, "main")
  /\ Main(With(id, v))
  /\ UNCHANGED <<branches, views, closed, calls, used, task, horizon>>

MainDelete(id) ==
  /\ Free /\ Clock < MaxClock /\ Engine(id, MAIN) \in OpenIds(mem.index)
  /\ mem' = DeleteEngine(mem, Engine(id, MAIN))
  /\ Main(Less({id}))
  /\ UNCHANGED <<branches, views, closed, calls, used, task, horizon>>

\* _allocate_bit: the lowest one free.
FreeBits == {b \in 1..MaxBranches : b \notin used}

Fork(name, s) ==
  /\ Free /\ ~Has(branches, name) /\ Len(views) < MaxViews
  /\ Has(timeline, s) /\ s + 1 >= horizon
  /\ FreeBits # {}
  /\ LET bit == CHOOSE b \in FreeBits : \A c \in FreeBits : b <= c
     IN /\ views' = Append(views, [name |-> name, bit |-> bit, base |-> s, deleted |-> {}, wrote |-> <<>>])
        /\ used' = used \cup {bit}
  /\ branches' = Put(branches, name, Len(views) + 1)
  /\ UNCHANGED <<mem, closed, calls, task, horizon, timeline>>

\* A call on a view begins: _check_open, whoever has the gate.
Call(a, n, ends) ==
  /\ calls[a] = Outside /\ n \notin closed
  /\ Overlaps \/ \A b \in Agents : On(b, n) => ~ends /\ ~calls[b].ends
  /\ calls' = [calls EXCEPT ![a] = [at |-> "gate", on |-> n, ends |-> ends]]
  /\ UNCHANGED <<mem, branches, views, closed, used, task, horizon, timeline>>

Enters(a, ends) == Free /\ calls[a].at = "gate" /\ calls[a].ends = ends
Returns(a) == calls' = [calls EXCEPT ![a] = Outside]

\* Inside the gate a view is taken for open, under the bit and name it has,
\* whatever became of them since.
ViewAdd(a, id, v) ==
  LET n == calls[a].on
  IN /\ Enters(a, FALSE) /\ Clock < MaxClock
     /\ mem' = AddUnlocked(mem, id, v, views[n].bit, views[n].name)
     /\ views' = [views EXCEPT ![n].deleted = @ \ {id}, ![n].wrote = Put(@, id, v)]
     /\ Main(Now)
     /\ Returns(a)
     /\ UNCHANGED <<branches, closed, used, task, horizon>>

\* The branch's own row of the id stays in the engine, hidden.
ViewDelete(a, id) ==
  LET n == calls[a].on
  IN /\ Enters(a, FALSE)
     /\ views' = [views EXCEPT ![n].deleted = @ \cup {id}, ![n].wrote = Without(@, {id})]
     /\ Returns(a)
     /\ UNCHANGED <<mem, branches, closed, used, task, horizon, timeline>>

\* Mutant of Release: the bit stays taken.
ReleaseNameOnly(view) == branches' = Without(branches, {view.name}) /\ UNCHANGED used

\* Whichever branch has the name by now, whoever has the bit.
Release(view) ==
  /\ branches' = Without(branches, {view.name})
  /\ used' = used \ {view.bit}

\* What main shows after a merge: the branch's writes over its own contents.
Pairs(f) == {<<id, f[id]>> : id \in DOMAIN f}
Overlaid(view) == Less(DOMAIN view.wrote \cup view.deleted) \cup Pairs(view.wrote)

\* A call that would pass the bound on the clock does not begin.
Begin(a, promote, erase, shows) ==
  LET view == views[calls[a].on]
      drop == IdsOn(mem, view) \ promote
  IN /\ Enters(a, TRUE)
     /\ Clock + 2 * Cardinality(promote) + Cardinality(drop) + Cardinality(erase) <= MaxClock
     /\ task' = [name |-> view.name, promote |-> promote, drop |-> drop, erase |-> erase, shows |-> shows]
     /\ calls' = [calls EXCEPT ![a].at = "inside"]
     /\ UNCHANGED <<mem, branches, views, closed, used, horizon, timeline>>

Discard(a) == Begin(a, {}, {}, Now)

\* No row of the loops before changes which of main's records the last one finds live.
Merge(a) ==
  LET view == views[calls[a].on]
  IN Begin(a, Promotable(mem, view), {id \in view.deleted : Live(mem, Engine(id, MAIN))},
           Overlaid(view))

\* First the rows that main gets, one by one ...
Promote(e) ==
  /\ e \in task.promote /\ Clock + 1 < MaxClock
  /\ mem' = PromoteOne(mem, e)
  /\ task' = [task EXCEPT !.promote = @ \ {e}]
  /\ UNCHANGED <<branches, views, closed, calls, used, horizon, timeline>>

\* ... then those that nobody gets ...
Drop(e) ==
  /\ task.promote = {} /\ e \in task.drop /\ Clock < MaxClock
  /\ mem' = DeleteEngine(mem, e)
  /\ task' = [task EXCEPT !.drop = @ \ {e}]
  /\ UNCHANGED <<branches, views, closed, calls, used, horizon, timeline>>

\* ... then what the branch deleted of main's, through _delete.
Erase(id) ==
  /\ task.promote = {} /\ task.drop = {} /\ id \in task.erase
  /\ Clock < MaxClock
  /\ mem' = DeleteEngine(mem, Engine(id, MAIN))
  /\ task' = [task EXCEPT !.erase = @ \ {id}]
  /\ UNCHANGED <<branches, views, closed, calls, used, horizon, timeline>>

\* The branch is released when nothing is left to do, the gate is left ...
End(a) ==
  /\ calls[a].at = "inside" /\ task.promote = {} /\ task.drop = {} /\ task.erase = {}
  /\ Release(views[calls[a].on])
  /\ calls' = [calls EXCEPT ![a].at = "closing"]
  /\ task' = Idle
  /\ timeline' = Put(timeline, Clock, task.shows)
  /\ UNCHANGED <<mem, views, closed, horizon>>

\* ... and only then is the view closed.
Close(a) ==
  /\ calls[a].at = "closing"
  /\ closed' = closed \cup {calls[a].on}
  /\ Returns(a)
  /\ UNCHANGED <<mem, branches, views, used, task, horizon, timeline>>

\* Not a step of Next: each of main's records that a merge deletes is checkpointed
\* at once (_delete): a process killed there comes back with that half of the
\* merge, the branch still open and nobody in a call.
MergeKilled ==
  /\ \E a \in Agents, id \in Ids :
       LET e == Engine(id, MAIN)
       IN /\ calls[a].at = "inside"
          /\ id \in views[calls[a].on].deleted \ task.erase
          /\ Has(mem.records, e) /\ mem.records[e].deleted_at = Clock
  /\ task' = Idle
  /\ calls' = [a \in Agents |-> Outside]
  /\ \E s \in DOMAIN timeline :
       /\ \A t \in DOMAIN timeline : t <= s
       /\ timeline' = Put(timeline, Clock, timeline[s])
  /\ UNCHANGED <<mem, branches, views, closed, used, horizon>>

Stale(h) == {e \in DOMAIN mem.records : ~Live(mem, e) /\ mem.records[e].deleted_at < h}

\* Mutant of Protected: the fork point itself may go.
ProtectedAfter == {views[branches[n]].base + 2 : n \in DOMAIN branches}

Protected == {views[branches[n]].base + 1 : n \in DOMAIN branches}

\* Mutant of Purge: the payload history is left behind.
PurgeRecords(h) ==
  /\ Free /\ \A p \in Protected : h <= p
  /\ mem' = [index |-> Vacuum(mem.index, h),
             records |-> Without(mem.records, Stale(h)),
             history |-> mem.history]
  /\ horizon' = IF h > horizon THEN h ELSE horizon
  /\ UNCHANGED <<branches, views, closed, calls, used, task, timeline>>

Purge(h) ==
  /\ Free /\ \A p \in Protected : h <= p
  /\ mem' = [index |-> Vacuum(mem.index, h),
             records |-> Without(mem.records, Stale(h)),
             history |-> Without(mem.history, Stale(h))]
  /\ horizon' = IF h > horizon THEN h ELSE horizon
  /\ UNCHANGED <<branches, views, closed, calls, used, task, timeline>>

Next ==
  \/ \E id \in Ids : MainDelete(id) \/ \E v \in MainVals : MainAdd(id, v)
  \/ \E name \in Names, s \in 0..Clock : Fork(name, s)
  \/ \E a \in Agents :
       \/ \E n \in DOMAIN views, ends \in BOOLEAN : Call(a, n, ends)
       \/ Discard(a) \/ Merge(a) \/ End(a) \/ Close(a)
       \/ \E id \in Ids : ViewDelete(a, id) \/ \E v \in BranchVals : ViewAdd(a, id, v)
  \/ \E e \in DOMAIN mem.records : Promote(e) \/ Drop(e)
  \/ \E id \in Ids : Erase(id)
  \/ \E h \in Protected \cup {Clock + 1} : Purge(h)

Spec == Init /\ [][Next]_vars

-----------------------------------------------------------------------------
(* Searches.                                                               *)

Latest == Forever       \* as_of=None

Searched(s, any, none) ==
  {v \in IF s = Latest THEN OpenRows(mem.index) ELSE AsOf(mem.index, s) : Carries(v.label, {}, any, none)}

\* The record a hit is handed out with: the last one stored by then.
RecordAt(e, s) ==
  IF s = Latest THEN mem.records[e]
  ELSE LET seq == mem.history[e]
           at == {n \in DOMAIN seq : seq[n].stamp <= s}
       IN seq[CHOOSE n \in at : \A m \in at : m <= n]

\* A hit as the pair of its id and value; a vector with another write's
\* payload shows as Nothing.
Shown(rows, s) ==
  {LET r == RecordAt(v.id, s) IN <<r.id, IF r.val = v.val THEN r.val ELSE Nothing>> : v \in rows}

MainSearch(s) == Shown(Searched(s, {}, used \ {MAIN}), s)

Sooner(s, t) == IF s < t THEN s ELSE t

BranchSearch(view, s) ==
  LET cutoff == Sooner(view.base, s)
      base == IF cutoff = 0 THEN {} ELSE Shown(Searched(cutoff, {}, used \ {MAIN}), cutoff)
      own == Shown(Searched(s, {view.bit}, {}), s)
  IN {p \in own \cup {q \in base : \A o \in own : o[1] # q[1]} : p[1] \notin view.deleted}

-----------------------------------------------------------------------------
(* Properties.                                                             *)

Open(name) == views[branches[name]]

TypeOK ==
  /\ Clock \in 0..MaxClock
  /\ DOMAIN mem.history = DOMAIN mem.records
  /\ DOMAIN mem.records \subseteq Ids \X (0..MaxBranches)
  /\ \A e \in DOMAIN mem.records : mem.records[e].id = e[1]
  /\ DOMAIN branches \subseteq Names
  /\ \A name \in DOMAIN branches : branches[name] \in DOMAIN views /\ Open(name).name = name
  /\ \A n \in DOMAIN views : views[n].deleted \subseteq Ids /\ Has(timeline, views[n].base)
  /\ closed \subseteq DOMAIN views
  /\ \A a \in Agents : calls[a].at # "outside" => calls[a].on \in DOMAIN views
  /\ horizon \in 0..MaxClock + 1

\* Main shows what was written on main and merged into it, never a row of an
\* open or discarded branch.
MainSees == Free => MainSearch(Latest) = Now

\* A branch sees main as of its fork and its own writes, whatever main, its
\* siblings and purges do since ("Visible means: written on main, or written
\* on this branch ... speculation in one branch is invisible to another").
Sees(view) ==
  BranchSearch(view, Latest) =
    Pairs(view.wrote)
    \cup {p \in timeline[view.base] : p[1] \notin DOMAIN view.wrote \cup view.deleted}
BranchSees == Free => \A name \in DOMAIN branches : Sees(Open(name))

\* ... which holds of the branches that forked where no branch had a row: a
\* bit that was released no longer keeps its old rows out.
CleanFork(view) == \A v \in AsOf(mem.index, view.base) : v.label = {MAIN}
CleanBranchSees == Free => \A name \in DOMAIN branches : CleanFork(Open(name)) => Sees(Open(name))

\* as_of_fork is "the state as it was when this branch was created".
ForkSees ==
  \A name \in DOMAIN branches :
    Open(name).base > 0 => BranchSearch(Open(name), Open(name).base) = timeline[Open(name).base]

\* main.search(as_of=s) shows what main held then.
MainTravels ==
  \A s \in DOMAIN timeline \ {0} : s + 1 >= horizon => MainSearch(s) = timeline[s]

\* The label bits in use are main's and those of the open branches, one each
\* (a bit kept would use them up, a bit shared would show a sibling's rows).
BitsApart ==
  /\ used = {MAIN} \cup {Open(name).bit : name \in DOMAIN branches}
  /\ \A m, n \in DOMAIN branches : m # n => Open(m).bit # Open(n).bit

\* A record is live where the engine has an open row, and only there: merge
\* and discard delete by the records, and the engine raises if it has no row.
RecordsMatch == {e \in DOMAIN mem.records : Live(mem, e)} = OpenIds(mem.index)


\* The books of the memory agree: records with the engine, bits with the
\* branches that are open (fork, _release, merge, discard, purge).
MemorySound == TypeOK /\ BitsApart /\ RecordsMatch
=============================================================================
