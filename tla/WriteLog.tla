------------------------------ MODULE WriteLog ------------------------------
(***************************************************************************)
(* Durability in chronovec.cpp: the write-ahead log, recovery by replay,   *)
(* and the native checkpoint.  The index itself is reduced to the set of   *)
(* versions it holds (ChronoIndex shows how pages keep them); what a call  *)
(* logs, when it applies and commits, and what a crash leaves are step by  *)
(* step.                                                                   *)
(*                                                                         *)
(* The environment: a crash ends the process ("process", the file keeps    *)
(* all that was written) or the machine ("power", it keeps all that was    *)
(* synced and any part of the rest).  A write may fail half-way and a sync *)
(* may fail; a batch may hold a vector that is refused.                    *)
(***************************************************************************)
EXTENDS Naturals, FiniteSets, Sequences, Functions

CONSTANTS Ids,
          Labels,          \* the labels rows carry; 0 is none
          MAX_TS,          \* the end of a version that is still open
          Torn,            \* a record that does not verify
          Sync,            \* sync_on_commit
          Crashes,         \* the kinds of crash, from {"process", "power"}
          MayFailWrite,    \* write() may fail, part of the record written
          MayFailSync,     \* fsync() may fail
          MayRefuse,       \* a batch may hold a vector that prepare refuses
          Skips,           \* how far a call's timestamp is ahead of the clock
          BlockSize,       \* rows a batch logs and applies at a time
          MaxBatch,        \* bound: rows of one call
          MaxClock,        \* bound: timestamps
          MaxCrashes       \* bound: crashes

LogRecord == [op : {"insert", "delete"}, ts : Nat, id : Ids, vec : Nat \X Nat \X Nat]
LogVersion == [id : Ids, begin : Nat, end : Nat, vec : Nat \X Nat \X Nat, label : Labels]

ASSUME LogAssumption ==
  /\ Labels \subseteq Nat /\ 0 \in Labels
  /\ MAX_TS \in Nat /\ MaxClock \in Nat /\ MaxClock < MAX_TS
  /\ {Sync, MayFailWrite, MayFailSync, MayRefuse} \subseteq BOOLEAN
  /\ Crashes \subseteq {"process", "power"}
  /\ Skips \subseteq Nat \ {0} /\ BlockSize \in Nat \ {0}
  /\ MaxBatch \in Nat \ {0} /\ MaxCrashes \in Nat
  /\ Torn \notin LogRecord

VARIABLES
  versions,    \* the versions the index in memory holds
  clock,       \* the last timestamp allocated
  committed,   \* the last timestamp visible
  pending,     \* staged records
  written,     \* how many of them this flush has written
  pc,          \* what the process is doing
  call,        \* the call that holds writer_mutex
  at           \* records replayed

memory == <<versions, clock, committed, pending, written, pc, call, at>>

VARIABLES
  file,        \* the log: records, or Torn
  durable,     \* how many of them a power cut cannot take
  saved        \* the checkpoint file; `committed' in it is a ghost

disk == <<file, durable, saved>>

VARIABLES
  promised,    \* history: the versions acknowledged calls made
  doubt,       \* history: the call a crash interrupted
  horizon,     \* history: the newest `oldest' any vacuum was given
  crashes,     \* how many crashes there were
  faulted      \* history: what failed, of a write, a sync and a batch's vector

ghosts == <<promised, doubt, horizon, crashes, faulted>>

vars == <<memory, disk, ghosts>>

NoCall == [kind |-> "none", ts |-> 0, rows |-> <<>>, from |-> 0, taken |-> 0]
NoFile == [versions |-> {}, clock |-> 0, committed |-> 0]

Init ==
  /\ versions = {} /\ clock = 0 /\ committed = 0
  /\ pending = <<>> /\ written = 0 /\ pc = "down" /\ call = NoCall /\ at = 0
  /\ file = <<>> /\ durable = 0 /\ saved = NoFile
  /\ promised = {} /\ doubt = NoCall /\ horizon = 0 /\ crashes = 0
  /\ faulted = {}

-----------------------------------------------------------------------------
(* What a row does to the versions, and what a record says of it.          *)

AsOf(vs, ts) == {<<v.id, v.vec>> : v \in {w \in vs : w.begin <= ts /\ ts < w.end}}

HasOpen(vs, id) == \E v \in vs : v.id = id /\ v.end = MAX_TS

\* close_current.
ClosedIn(vs, id, ts) ==
  {IF v.id = id /\ v.end = MAX_TS THEN [v EXCEPT !.end = ts] ELSE v : v \in vs}

\* Mutant of Put: the old version is not looked for.
PutOnly(vs, row) ==
  vs \cup IF row.op = "delete" THEN {}
          ELSE {[id |-> row.id, begin |-> row.ts, end |-> MAX_TS, vec |-> row.vec,
                 label |-> row.label]}

\* One row: its id's open version ends, and an insert starts a new one.
Put(vs, row) ==
  ClosedIn(vs, row.id, row.ts) \cup
  IF row.op = "delete" THEN {}
  ELSE {[id |-> row.id, begin |-> row.ts, end |-> MAX_TS, vec |-> row.vec,
         label |-> row.label]}

\* The rows of one call, which carry one timestamp, put one after the other:
\* what was open of their ids ends, and so does a row that another of the same
\* id follows.
PutAll(vs, rows) ==
  LET Follows(id, k) == \E j \in (k + 1)..Len(rows) : rows[j].id = id
  IN {IF v.end = MAX_TS /\ Follows(v.id, 0) THEN [v EXCEPT !.end = rows[1].ts] ELSE v : v \in vs}
     \cup {[id |-> rows[k].id, begin |-> rows[k].ts, vec |-> rows[k].vec,
            label |-> rows[k].label,
            end |-> IF Follows(rows[k].id, k) THEN rows[k].ts ELSE MAX_TS] :
             k \in {k \in 1..Len(rows) : rows[k].op = "insert"}}

\* stage: operation, timestamp, id and vector; not the label.
RecordOf(row) == [op |-> row.op, ts |-> row.ts, id |-> row.id, vec |-> row.vec]

-----------------------------------------------------------------------------
(* Calls, under writer_mutex.  One that throws for want of memory is       *)
(* ChronoIndex's concern.                                                  *)

\* Mutant of Stamps: a caller's timestamp may go backwards.
AnyStamps == 1..MaxClock

\* tick: the next timestamp, or a caller's own beyond the clock.
Stamps == {clock + skip : skip \in Skips} \cap 1..MaxClock

\* A payload is named by the run of the process, the timestamp and the row.
Row(op, id, label, ts, k) ==
  [op |-> op, id |-> id, label |-> label, ts |-> ts, vec |-> <<crashes, ts, k>>]

Begin(kind, ts, rows) ==
  /\ pc = "idle"
  /\ clock' = ts
  /\ call' = [NoCall EXCEPT !.kind = kind, !.ts = ts, !.rows = rows]
  /\ pc' = "stage"
  /\ UNCHANGED <<committed, pending, written, at, disk, ghosts>>

\* A single insert closes the old version before it logs anything.
BeginInsert ==
  \E id \in Ids, label \in Labels, ts \in Stamps :
    /\ Begin("insert", ts, <<Row("insert", id, label, ts, 1)>>)
    /\ versions' = ClosedIn(versions, id, ts)

BeginDelete ==
  \E id \in Ids, ts \in Stamps :
    Begin("delete", ts, <<Row("delete", id, 0, ts, 1)>>) /\ UNCHANGED versions

BeginBatch ==
  /\ clock < MaxClock
  /\ \E n \in 1..MaxBatch : \E ids \in [1..n -> Ids], labels \in [1..n -> Labels] :
       Begin("batch", clock + 1,
             [k \in 1..n |-> Row("insert", ids[k], labels[k], clock + 1, k)])
  /\ UNCHANGED versions

\* cv_apply_changes: distinct ids, the deleted ones open, deletes first.
BeginChanges ==
  /\ clock < MaxClock
  /\ \E n \in 1..MaxBatch : \E ids \in [1..n -> Ids], deletes \in 0..n :
       /\ IsInjective(ids)
       /\ \A k \in 1..deletes : HasOpen(versions, ids[k])
       /\ Begin("changes", clock + 1,
                [k \in 1..n |-> Row(IF k <= deletes THEN "delete" ELSE "insert",
                                    ids[k], 0, clock + 1, k)])
  /\ UNCHANGED versions

\* The call is over, acknowledged or failed.
EndCall == pc' = "idle" /\ call' = NoCall

\* The rows logged and applied together: a block of a batch, else all.
BlockEnd ==
  IF call.kind = "batch" /\ call.taken + BlockSize < Len(call.rows)
    THEN call.taken + BlockSize ELSE Len(call.rows)
Block == SubSeq(call.rows, call.from + 1, call.taken)

Stage ==
  /\ pc = "stage"
  /\ call' = [call EXCEPT !.from = call.taken, !.taken = BlockEnd]
  /\ pending' = pending \o [k \in 1..(BlockEnd - call.taken) |->
                              RecordOf(call.rows[call.taken + k])]
  /\ pc' = "write"
  /\ UNCHANGED <<versions, clock, committed, written, at, disk, ghosts>>

Fault(what) == faulted' = faulted \cup {what} /\ UNCHANGED <<promised, doubt, horizon, crashes>>

\* A row of the next block is not finite, or zero under cosine.
Refuse ==
  /\ MayRefuse /\ pc = "stage" /\ call.kind = "batch"
  /\ EndCall
  /\ Fault("vector")
  /\ UNCHANGED <<versions, clock, committed, pending, written, at, disk>>

\* flush: one record of `pending' more is in the file.
Write ==
  /\ pc = "write" /\ written < Len(pending)
  /\ file' = Append(file, pending[written + 1])
  /\ written' = written + 1
  /\ UNCHANGED <<versions, clock, committed, pending, pc, call, at, durable, saved, ghosts>>

\* Mutant of Flushed: there is no fsync.
FlushedNever == durable' = durable

\* All of `pending' is written; the result of fsync is not looked at.
Flushed ==
  durable' \in (IF Sync THEN {Len(file)} ELSE {durable}) \cup
               (IF MayFailSync THEN {durable} ELSE {})

EndFlush ==
  /\ pc = "write" /\ written = Len(pending)
  /\ Flushed
  /\ pending' = <<>> /\ written' = 0
  /\ pc' = "apply"
  /\ faulted' = IF MayFailSync /\ Sync /\ durable' # Len(file)
                   THEN faulted \cup {"sync"} ELSE faulted
  /\ UNCHANGED <<versions, clock, committed, call, at, file, saved, promised, doubt,
                 horizon, crashes>>

\* write() fails: the call throws, `pending' stays, and so may a part of a
\* record in the file.
FailWrite ==
  /\ MayFailWrite /\ pc = "write" /\ written < Len(pending)
  /\ file' \in {file, Append(file, Torn)}
  /\ written' = 0
  /\ EndCall
  /\ Fault("write")
  /\ UNCHANGED <<versions, clock, committed, pending, at, durable, saved>>

\* A delete of an id with no open version is logged before it is refused.
Apply ==
  /\ pc = "apply"
  /\ IF call.kind = "delete" /\ ~HasOpen(versions, call.rows[1].id)
       THEN EndCall /\ UNCHANGED versions
       ELSE /\ versions' = PutAll(versions, Block)
            /\ pc' = IF call.taken < Len(call.rows) THEN "stage" ELSE "commit"
            /\ UNCHANGED call
  /\ UNCHANGED <<clock, committed, pending, written, at, disk, ghosts>>

Commit ==
  /\ pc = "commit"
  /\ committed' = call.ts
  /\ promised' = PutAll(promised, call.rows)
  /\ EndCall
  /\ UNCHANGED <<versions, clock, pending, written, at, disk, doubt, horizon, crashes, faulted>>

\* cv_vacuum, as seen through the versions.
Vacuum ==
  /\ pc = "idle"
  /\ \E oldest \in 1..(committed + 1) :
       /\ versions' = {v \in versions : v.end >= oldest}
       /\ horizon' = IF oldest > horizon THEN oldest ELSE horizon
  /\ UNCHANGED <<clock, committed, pending, written, pc, call, at, disk, promised, doubt,
                 crashes, faulted>>

-----------------------------------------------------------------------------
(* The checkpoint: the whole index, written under writer_mutex to a        *)
(* temporary file that then replaces the old one.                          *)

\* Mutant of Quiet: the checkpoint does not wait for writer_mutex.
NotReplaying == pc \notin {"down", "replay"}

\* No call is in progress.
Quiet == pc = "idle"

Save ==
  /\ Quiet
  /\ saved' = [versions |-> versions, clock |-> clock, committed |-> committed]
  /\ UNCHANGED <<memory, file, durable, ghosts>>

\* Loading it: the clock it was saved with is the committed one, too.
LoadedAnswer(ts) == AsOf(saved.versions, ts)
LoadedClock == saved.clock

-----------------------------------------------------------------------------
(* Crashes and recovery.                                                   *)

InCall == pc \in {"stage", "write", "apply", "commit"}

\* What a crash can leave of the file: n records, and a torn one if there was
\* more or one was being written.
Left(kind) ==
  LET most == Len(file)
      least == IF kind = "power" THEN durable ELSE most
      writing == pc = "write" /\ written < Len(pending)
  IN {SubSeq(file, 1, n) : n \in least..most} \cup
     {Append(SubSeq(file, 1, n), Torn) :
        n \in {m \in least..most : m < most \/ writing}}

Crash ==
  /\ pc # "down" /\ crashes < MaxCrashes
  /\ \E kind \in Crashes :
       /\ file' \in Left(kind)
       /\ durable' = IF kind = "power" THEN Len(file') ELSE durable
  /\ doubt' = IF InCall THEN call ELSE doubt
  /\ crashes' = crashes + 1
  /\ versions' = {} /\ clock' = 0 /\ committed' = 0
  /\ pending' = <<>> /\ written' = 0 /\ pc' = "down" /\ call' = NoCall /\ at' = 0
  /\ UNCHANGED <<saved, promised, horizon, faulted>>

Start ==
  /\ pc = "down"
  /\ pc' = "replay"
  /\ UNCHANGED <<versions, clock, committed, pending, written, call, at, disk, ghosts>>

Verifies(n) == n \in DOMAIN file /\ file[n] # Torn

\* One record is done again: an insert or a delete at its timestamp, with no
\* label.  tick refuses a timestamp that goes backwards.
Replay ==
  /\ pc = "replay" /\ Verifies(at + 1)
  /\ LET record == file[at + 1] IN
       /\ record.ts >= clock
       /\ versions' = Put(versions, [op |-> record.op, id |-> record.id, ts |-> record.ts,
                                     vec |-> record.vec, label |-> 0])
       /\ clock' = record.ts /\ committed' = record.ts
  /\ at' = at + 1
  /\ UNCHANGED <<pending, written, pc, call, disk, ghosts>>

\* tick throws: the half-built index is destroyed, the caller gets none, and
\* the file stays as it is.
GiveUp ==
  /\ pc = "replay" /\ Verifies(at + 1) /\ file[at + 1].ts < clock
  /\ versions' = {} /\ clock' = 0 /\ committed' = 0 /\ at' = 0 /\ pc' = "down"
  /\ UNCHANGED <<pending, written, call, disk, ghosts>>

\* A mutant of Kept: one record too few.
CutShort == SubSeq(file, 1, at - 1)

\* The records that were replayed.
Kept == SubSeq(file, 1, at)

Smaller(m, n) == IF m < n THEN m ELSE n

SameAnswers(vs, ws) == \A ts \in 0..MaxClock : AsOf(vs, ts) = AsOf(ws, ts)

\* The interrupted call may have entered the log up to any of its rows, if
\* the log reaches its timestamp; whatever recovery made of it is from now on
\* promised.
Outcomes ==
  {PutAll(promised, SubSeq(doubt.rows, 1, n)) :
     n \in 0..(IF clock < doubt.ts THEN 0 ELSE Len(doubt.rows))}

\* Mutant of AtEnd: a torn record is not the end.
AtEndOfFile == at = Len(file)

AtEnd == ~Verifies(at + 1)

\* The log ends, or a record does not verify: the file is cut there and
\* opened for appending.
Open ==
  /\ pc = "replay" /\ AtEnd
  /\ file' = Kept
  /\ durable' = Smaller(durable, at)
  /\ pc' = "idle"
  /\ promised' = IF \E h \in Outcomes : SameAnswers(versions, h)
                   THEN CHOOSE h \in Outcomes : SameAnswers(versions, h)
                   ELSE promised
  /\ doubt' = NoCall
  /\ UNCHANGED <<versions, clock, committed, pending, written, call, at, saved, horizon,
                 crashes, faulted>>

Calls ==
  \/ BeginInsert \/ BeginDelete \/ BeginBatch \/ BeginChanges
  \/ Stage \/ Refuse \/ Write \/ EndFlush \/ FailWrite \/ Apply \/ Commit
  \/ Vacuum \/ Save

Recovery == Start \/ Replay \/ GiveUp \/ Open

Next == Calls \/ Crash \/ Recovery

Spec == Init /\ [][Next]_vars

\* The process that opens the index keeps running.
FairSpec == Spec /\ WF_vars(Recovery)

-----------------------------------------------------------------------------
(* Properties.                                                             *)

\* Every variable holds a value of its kind.
TypeOK ==
  /\ versions \subseteq LogVersion /\ promised \subseteq LogVersion
  /\ clock \in Nat /\ committed \in Nat /\ horizon \in Nat /\ crashes \in 0..MaxCrashes 
  /\ faulted \subseteq {"write", "sync", "vector"}
  /\ pending \in Seq(LogRecord) /\ written \in 0..Len(pending)
  /\ pc \in {"down", "replay", "idle", "stage", "write", "apply", "commit"}
  /\ file \in Seq(LogRecord \cup {Torn})
  /\ at \in 0..Len(file) /\ durable \in 0..Len(file)

\* Between calls, after any number of crashes, the index answers at every
\* readable timestamp for exactly the acknowledged calls, and for a leading
\* part of the rows of each call a crash interrupted.
Survives ==
  pc = "idle" =>
    \A ts \in (IF horizon = 0 THEN 0 ELSE horizon - 1)..committed :
      AsOf(versions, ts) = AsOf(promised, ts)

\* No id ever has two open versions, even if replay meets a record twice.
OneOpenVersion ==
  \A v, w \in versions : v.id = w.id /\ v.end = MAX_TS /\ w.end = MAX_TS => v = w

\* Recovery does not give up: the timestamps in the log do not go backwards,
\* so tick accepts every record (cv_create_with_wal).
ReplayAccepted ==
  pc = "replay" /\ Verifies(at + 1) => file[at + 1].ts >= clock

\* It holds unless a write failed: `pending' keeps its records, and those
\* that did reach the file come a second time, behind later ones.
AcceptedUntilFault == "write" \notin faulted => ReplayAccepted

\* The index a checkpoint restores answers as the saved one did, and shows
\* nothing that was not visible in it (cv_save_checkpoint, cv_load_checkpoint).
CheckpointFaithful ==
  \A ts \in 0..LoadedClock :
    LoadedAnswer(ts) = AsOf(saved.versions, Smaller(ts, saved.committed))

\* Both hold as long as nothing failed but the power; what failures do to them is
\* README.md's table of disagreements.
SurvivesUntilFault == faulted = {} => Survives
FaithfulUntilFault == faulted = {} => CheckpointFaithful

\* README: "replays the log; nothing lost".  Every row an acknowledged call
\* wrote is in the index between calls, until a vacuum may have taken it.
NothingLost ==
  pc = "idle" => \A v \in promised :
    v.end >= horizon => \E w \in versions : w.id = v.id /\ w.vec = v.vec

\* chronovec.cpp: "recovery replays a block entire or not at all".
\* Of the block a crash interrupted, replay has met all rows or none.
BlockEntire ==
  pc = "replay" /\ AtEnd /\ doubt.kind = "batch" =>
    LET met == {k \in DOMAIN doubt.rows :
                  \E n \in 1..at : file[n] = RecordOf(doubt.rows[k])}
    IN Cardinality(met) % BlockSize = 0 \/ met = DOMAIN doubt.rows

\* chronovec.cpp: "durable before the change is applied".  What a call has
\* done to the versions, its records say.
Logged(id, ts) == \E n \in DOMAIN file : Verifies(n) /\ file[n].id = id /\ file[n].ts = ts
LoggedFirst ==
  \A v \in versions :
    /\ v.begin > committed => Logged(v.id, v.begin)
    /\ v.end > committed /\ v.end # MAX_TS => Logged(v.id, v.end)

\* README: "nothing lost".  A row that is in the index after recovery has the
\* label it was inserted with.
LabelsSurvive ==
  pc = "idle" => \A v \in versions, w \in promised :
    v.id = w.id /\ v.vec = w.vec => v.label = w.label

\* compliance_deletion.py: after a vacuum "even time-travel queries cannot
\* recover the data".  Between calls no version that ended before a vacuum's
\* horizon is in the index.
ErasedStaysErased == pc = "idle" => \A v \in versions : v.end >= horizon

\* An index that is being opened becomes usable, unless a write failed.
Reopens == (pc = "replay" /\ "write" \notin faulted) ~> pc = "idle"

\* Whatever failed before, the log and the index it makes are well formed: an
\* id has at most one open version, and replay accepts every record unless a
\* write failed (Wal, cv_create_with_wal).
LogSound == TypeOK /\ OneOpenVersion /\ AcceptedUntilFault
=============================================================================
