--------------------------- MODULE SnapshotStore ---------------------------
(***************************************************************************)
(* What the index promises its callers, with no pages in it: a history of  *)
(* versions that every write call extends in one step, and searches that   *)
(* answer from the whole history as it stood at one committed timestamp.   *)
(* A search of the latest state answers as of some commit between its call *)
(* and its return; a search at an explicit snapshot answers as of it.      *)
(* Ranking is left out: an answer is every record the search could rank.   *)
(***************************************************************************)
EXTENDS Naturals, Sequences

CONSTANTS Ids, Readers, MAX_TS

VARIABLES now,       \* the last committed timestamp
          history,   \* every version ever committed
          search,    \* what each reader asked for, and how far it is
          answer     \* the answer a reader is about to return

vars == <<now, history, search, answer>>

Idle == [step |-> "idle", since |-> 0, at |-> 0]

AsOf(h, ts) == {[id |-> v.id, vec |-> v.vec] :
                  v \in {w \in h : w.begin <= ts /\ ts < w.end}}

\* The open versions of the ids in `gone' end at ts.
EndedAt(h, gone, ts) ==
  {IF v.id \in gone /\ v.end = MAX_TS THEN [v EXCEPT !.end = ts] ELSE v : v \in h}

\* Of several rows of one id in a call, the last one counts.
Winners(ids) == {k \in DOMAIN ids : \A l \in DOMAIN ids : l > k => ids[l] # ids[k]}

\* The history after a call that writes a row for each of `ids' at ts.
Upserted(h, ids, ts) ==
  EndedAt(h, {ids[k] : k \in DOMAIN ids}, ts) \cup
  {[id |-> ids[k], begin |-> ts, end |-> MAX_TS, vec |-> <<ts, k>>] : k \in Winners(ids)}

Init ==
  /\ now = 0
  /\ history = {}
  /\ search = [r \in Readers |-> Idle]
  /\ answer = [r \in Readers |-> {}]

\* One call: it ends versions and starts at most one version of each id.
Write ==
  /\ now' > now
  /\ LET new == {v \in history' : v.begin = now'} IN
       /\ \A v, w \in new : v.id = w.id => v = w
       /\ \A v \in new : v.end = MAX_TS
       /\ \E gone \in SUBSET Ids :
            history' = EndedAt(history, gone \cup {v.id : v \in new}, now') \cup new
  /\ UNCHANGED <<search, answer>>

\* at = 0 asks for the latest committed state.
Call(r) ==
  /\ search[r].step = "idle"
  /\ \E at \in 0..now :
       search' = [search EXCEPT ![r] = [step |-> "called", since |-> now, at |-> at]]
  /\ UNCHANGED <<now, history, answer>>

Answer(r) ==
  /\ search[r].step = "called"
  /\ \E ts \in IF search[r].at = 0 THEN search[r].since .. now ELSE {search[r].at} :
       answer' = [answer EXCEPT ![r] = AsOf(history, ts)]
  /\ search' = [search EXCEPT ![r].step = "answered"]
  /\ UNCHANGED <<now, history>>

Return(r) ==
  /\ search[r].step = "answered"
  /\ search' = [search EXCEPT ![r] = Idle]
  /\ answer' = [answer EXCEPT ![r] = {}]
  /\ UNCHANGED <<now, history>>

Next == Write \/ \E r \in Readers : Call(r) \/ Answer(r) \/ Return(r)

Spec == Init /\ [][Next]_vars

=============================================================================
