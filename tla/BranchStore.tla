----------------------------- MODULE BranchStore -----------------------------
(***************************************************************************)
(* What a memory with branches promises (branchable_memory.py): a timeline *)
(* of main states, and branches that each see main as it was at the fork,  *)
(* overlaid with their own writes and with nothing else.  A merge commits  *)
(* the branch's writes at one point of the timeline; when it has to fail   *)
(* on conflicts, main still is, at every id the branch wrote, as the       *)
(* branch found it.                                                        *)
(***************************************************************************)
EXTENDS Naturals, Sequences

CONSTANTS Ids, Vals, Names, FailsOnConflict

VARIABLES main,       \* what main holds: pairs of an id and its value
          past,       \* past[t]: what main held after commit t
          forks,      \* for each open branch: where it forked, the ids it wrote
          sees        \* for each open branch: what it sees

branches == <<forks, sees>>
vars == <<past, main, branches>>

Has(state, id) == \E p \in state : p[1] = id
Only(state, ids) == {p \in state : p[1] \in ids}
Without(state, ids) == {p \in state : p[1] \notin ids}
Set(state, id, v) == Without(state, {id}) \cup {<<id, v>>}
State(t) == IF t = 0 THEN {} ELSE past[t]

Init == past = <<>> /\ main = {} /\ forks = <<>> /\ sees = <<>>

Commit(state) == past' = Append(past, state) /\ main' = state

Write(id, v) == Commit(Set(main, id, v)) /\ UNCHANGED branches
Erase(id) == Has(main, id) /\ Commit(Without(main, {id})) /\ UNCHANGED branches

Fork(n, t) ==
  /\ n \notin DOMAIN forks
  /\ forks' = [m \in DOMAIN forks \cup {n} |-> IF m = n THEN [base |-> t, wrote |-> {}] ELSE forks[m]]
  /\ sees' = [m \in DOMAIN forks \cup {n} |-> IF m = n THEN State(t) ELSE sees[m]]
  /\ UNCHANGED main

BranchWrites(n, id, view) ==
  /\ forks' = [forks EXCEPT ![n].wrote = @ \cup {id}]
  /\ sees' = [sees EXCEPT ![n] = view]
  /\ UNCHANGED main

BranchWrite(n, id, v) == BranchWrites(n, id, Set(sees[n], id, v))
BranchErase(n, id) == BranchWrites(n, id, Without(sees[n], {id}))

Released(n) ==
  /\ forks' = [m \in DOMAIN forks \ {n} |-> forks[m]]
  /\ sees' = [m \in DOMAIN forks \ {n} |-> sees[m]]

\* Main is untouched since the fork wherever the branch wrote.
Clean(n) ==
  \A t \in forks[n].base..Len(past) :
    Only(State(t), forks[n].wrote) = Only(State(forks[n].base), forks[n].wrote)

Merged(n) == Only(sees[n], forks[n].wrote) \cup Without(main, forks[n].wrote)

\* A branch that changes nothing commits nothing.
Merge(n) ==
  /\ Released(n)
  /\ FailsOnConflict => Clean(n)
  /\ Commit(Merged(n)) \/ (main = Merged(n) /\ UNCHANGED <<past, main>>)

Discard(n) == Released(n) /\ UNCHANGED main

OnMain == \E id \in Ids : Erase(id) \/ \E v \in Vals : Write(id, v)

OnBranches ==
  \/ \E n \in Names, t \in 0..Len(past) : Fork(n, t)
  \/ \E n \in DOMAIN forks :
       \/ Discard(n)
       \/ \E id \in Ids : BranchErase(n, id) \/ \E v \in Vals : BranchWrite(n, id, v)

Next ==
  \/ past' # past /\ OnMain
  \/ UNCHANGED past /\ OnBranches
  \/ \E n \in DOMAIN forks : Merge(n)

Spec == Init /\ [][Next]_vars

=============================================================================
