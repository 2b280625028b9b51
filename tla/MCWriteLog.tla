----------------------------- MODULE MCWriteLog -----------------------------
\* Symmetry and a log to start from for the model checking of WriteLog, and the
\* reference for PutAll.
EXTENDS WriteLog, SequencesExt

Symmetric == Permutations(Ids)

\* PutAll is what Put makes of the rows one by one, for every call of up to
\* three rows and every set of at most two older versions.
SomeRows ==
  UNION {[1..n -> {Row(op, id, 0, 2, k) : op \in {"insert", "delete"}, id \in Ids, k \in 1..2}] :
           n \in 0..3}
SomeVersions ==
  {[id |-> id, begin |-> 1, end |-> end, vec |-> <<0, 1, 1>>, label |-> 0] :
     id \in Ids, end \in {2, MAX_TS}}
PutsOneByOne ==
  pc = "down" /\ crashes = 0 =>
    \A vs \in SUBSET SomeVersions, rows \in SomeRows :
      PutAll(vs, rows) = FoldLeft(Put, vs, rows)

\* Two failed calls, whose records a third wrote before it failed at its own,
\* and the first of them again by a fourth that failed, too: the log a process
\* leaves that dies then.  Reaching it takes more timestamps than the runs have.
Rewritten(id) ==
  LET Logged1(ts) == RecordOf([op |-> "insert", id |-> id, label |-> 0, ts |-> ts,
                               vec |-> <<0, ts, 1>>])
  IN <<Logged1(1), Logged1(2), Logged1(1)>>

InitRewritten ==
  /\ versions = {} /\ clock = 0 /\ committed = 0
  /\ pending = <<>> /\ written = 0 /\ pc = "down" /\ call = NoCall /\ at = 0
  /\ file \in {Rewritten(id) : id \in Ids} /\ durable = 0 /\ saved = NoFile
  /\ promised = {} /\ doubt = NoCall /\ horizon = 0 /\ crashes = 1
  /\ faulted = {"write"}

FairSpecRewritten == (Init \/ InitRewritten) /\ [][Next]_vars /\ WF_vars(Recovery)
=============================================================================
