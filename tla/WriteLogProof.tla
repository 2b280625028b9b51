---------------------------- MODULE WriteLogProof ----------------------------
(***************************************************************************)
(* What the write-ahead log keeps, for any number of ids, rows, calls and  *)
(* crashes: its soundness, then what acknowledged calls wrote survives     *)
(* crashes, and a checkpoint is faithful.                                  *)
(***************************************************************************)
EXTENDS WriteLog, SequenceTheorems, TLAPS

\* A row of a call.
LogRow == [op : {"insert", "delete"}, id : Ids, label : Labels, ts : Nat,
           vec : Nat \X Nat \X Nat]

\* The kinds of call.
Kinds == {"none", "insert", "delete", "batch", "changes"}

\* The rows of a call carry its timestamp; it has staged those up to `taken'.
CallOK(c) ==
  /\ c \in [kind : Kinds, ts : Nat, rows : Seq(LogRow), from : Nat, taken : Nat]
  /\ c.from <= c.taken /\ c.taken <= Len(c.rows)
  /\ c.ts <= MaxClock
  /\ \A k \in 1..Len(c.rows) : c.rows[k].ts = c.ts

\* A call is in progress exactly at its steps.
CallPlaced ==
  /\ InCall => call.ts = clock
  /\ ~InCall => call = NoCall
  /\ pc = "stage" => call.taken < Len(call.rows)
  /\ pc \in {"write", "apply", "commit"} => call.from < call.taken
  /\ pc = "commit" => call.taken = Len(call.rows)
  /\ call.kind \in {"insert", "delete"} => Len(call.rows) = 1 /\ call.rows[1].op = call.kind

\* Nothing is staged before the log is open.
Unopened ==
  /\ pc \in {"down", "replay"} => pending = <<>>
  /\ pc = "down" => clock = 0 /\ committed = 0 /\ at = 0 /\ versions = {}
  /\ pc # "write" => written = 0

\* The type invariant, strengthened by the shape of calls.
LogTypes == TypeOK /\ CallOK(call) /\ CallOK(doubt) /\ CallPlaced /\ Unopened

-----------------------------------------------------------------------------
(* Facts about the operators of WriteLog.                                  *)

\* A function on 1..n with values in S is a sequence over S.
LEMMA MakeSeq ==
  ASSUME NEW S, NEW n \in Nat, NEW f \in [1..n -> S]
  PROVE  f \in Seq(S) /\ Len(f) = n /\ \A k \in 1..n : f[k] \in S
  <1>1. f \in Seq(S)
    BY SeqDef
  <1>2. Len(f) \in Nat /\ DOMAIN f = 1..Len(f)
    BY <1>1, LenProperties
  <1> QED
    BY <1>1, <1>2

\* Closing, placing and replaying versions makes versions.
LEMMA ClosedInType ==
  ASSUME NEW vs \in SUBSET LogVersion, NEW id, NEW ts \in Nat
  PROVE  ClosedIn(vs, id, ts) \subseteq LogVersion
  BY DEF ClosedIn, LogVersion

LEMMA PutType ==
  ASSUME NEW vs \in SUBSET LogVersion, NEW row \in LogRow
  PROVE  Put(vs, row) \subseteq LogVersion
  BY ClosedInType, LogAssumption DEF Put, LogRow, LogVersion

LEMMA PutAllType ==
  ASSUME NEW vs \in SUBSET LogVersion, NEW rows \in Seq(LogRow)
  PROVE  PutAll(vs, rows) \subseteq LogVersion
  <1>1. \A k \in 1..Len(rows) : rows[k] \in LogRow
    BY ElementOfSeq
  <1>2. ASSUME NEW v \in vs, NEW j \in 1..Len(rows)
        PROVE  [v EXCEPT !.end = rows[1].ts] \in LogVersion
    <2>1. Len(rows) \in Nat /\ 1 \in 1..Len(rows)
      OBVIOUS
    <2>2. rows[1].ts \in Nat
      BY <1>1, <2>1 DEF LogRow
    <2> QED
      BY <2>2 DEF LogVersion
  <1>3. MAX_TS \in Nat
    BY LogAssumption
  <1>4. \A k \in 1..Len(rows), end \in Nat :
          [id |-> rows[k].id, begin |-> rows[k].ts, vec |-> rows[k].vec,
           label |-> rows[k].label, end |-> end] \in LogVersion
    BY <1>1 DEF LogRow, LogVersion
  <1>5. \A k \in 1..Len(rows) : rows[k].ts \in Nat
    BY <1>1 DEF LogRow
  <1>6. Len(rows) \in Nat
    OBVIOUS
  <1> QED
    BY <1>2, <1>3, <1>4, <1>5, <1>6 DEF PutAll

\* The rows of calls and the records of rows are of their types.
LEMMA RowType ==
  ASSUME NEW op \in {"insert", "delete"}, NEW id \in Ids, NEW label \in Labels,
         NEW ts \in Nat, NEW k \in Nat, crashes \in Nat
  PROVE  Row(op, id, label, ts, k) \in LogRow /\ Row(op, id, label, ts, k).ts = ts
  BY DEF Row, LogRow

LEMMA RecordType ==
  ASSUME NEW row \in LogRow
  PROVE  RecordOf(row) \in LogRecord
  BY DEF RecordOf, LogRow, LogRecord

\* The rows from m + 1 to n.
LEMMA Part ==
  ASSUME NEW rows \in Seq(LogRow), NEW m \in Nat, NEW n \in Nat, m <= n, n <= Len(rows)
  PROVE  /\ SubSeq(rows, m + 1, n) \in Seq(LogRow)
         /\ Len(SubSeq(rows, m + 1, n)) = n - m
         /\ \A k \in 1..(n - m) : SubSeq(rows, m + 1, n)[k] = rows[m + k]
  <1>1. \A i \in (m + 1)..n : rows[i] \in LogRow
    BY ElementOfSeq
  <1>2. /\ SubSeq(rows, m + 1, n) \in Seq(LogRow)
        /\ Len(SubSeq(rows, m + 1, n)) = IF m + 1 <= n THEN n - (m + 1) + 1 ELSE 0
        /\ \A i \in 1..(n - (m + 1) + 1) : SubSeq(rows, m + 1, n)[i] = rows[m + 1 + i - 1]
    BY <1>1, SubSeqProperties
  <1> QED
    BY <1>2
-----------------------------------------------------------------------------
(* The inductive invariant.                                                *)

\* The index is open: it is neither down nor being replayed.
Live == pc \notin {"down", "replay"}

\* As long as no write failed, records come in the order of their timestamps,
\* and only the block being flushed is staged.
LogOrdered ==
  /\ \A j, k \in 1..Len(file) :
       j <= k /\ file[j] # Torn /\ file[k] # Torn => file[j].ts <= file[k].ts
  /\ Live => \A k \in 1..Len(file) : file[k] # Torn /\ file[k].ts <= clock
  /\ Live /\ pc # "write" => pending = <<>>
  /\ pc = "write" =>
       /\ Len(pending) = call.taken - call.from
       /\ \A k \in 1..Len(pending) : pending[k] = RecordOf(call.rows[call.from + k])
  /\ pc = "replay" =>
       /\ \A k \in 1..at : file[k] # Torn
       /\ clock = IF at = 0 THEN 0 ELSE file[at].ts

-----------------------------------------------------------------------------
(* Types.                                                                  *)

\* No call is a call without rows.
LEMMA NoCallOK == CallOK(NoCall) /\ Len(NoCall.rows) = 0
  <1>1. << >> \in Seq(LogRow) /\ Len(<< >>) = 0
    BY EmptySeq
  <1> QED
    BY <1>1, LogAssumption DEF CallOK, NoCall, Kinds

\* The initial state is well typed; so is the state after each action.
LEMMA InitTypes == Init => LogTypes
  <1> SUFFICES ASSUME Init PROVE LogTypes
    OBVIOUS
  <1>1. TypeOK
    <2>1. \A S : << >> \in Seq(S) /\ Len(<< >>) = 0
      BY EmptySeq
    <2> QED
      BY <2>1, LogAssumption DEF Init, TypeOK
  <1>2. CallPlaced
    BY DEF Init, CallPlaced, InCall, NoCall
  <1> QED
    BY <1>1, <1>2, NoCallOK DEF Init, LogTypes, Unopened

\* Beginning a call keeps the types when its rows are rows.
LEMMA BeginTypes ==
  ASSUME LogTypes, NEW kind \in Kinds \ {"none"}, NEW ts \in Nat, ts <= MaxClock,
         NEW rows \in Seq(LogRow), Len(rows) > 0,
         \A k \in 1..Len(rows) : rows[k].ts = ts,
         kind \in {"insert", "delete"} => Len(rows) = 1 /\ rows[1].op = kind,
         Begin(kind, ts, rows), versions' \subseteq LogVersion
  PROVE  /\ LogTypes'
         /\ call' = [kind |-> kind, ts |-> ts, rows |-> rows, from |-> 0, taken |-> 0]
  <1>1. call' = [kind |-> kind, ts |-> ts, rows |-> rows, from |-> 0, taken |-> 0]
    BY DEF Begin, NoCall
  <1>2. TypeOK'
    BY DEF LogTypes, TypeOK, Begin, disk, ghosts
  <1>3. CallOK(call')
    BY <1>1 DEF CallOK
  <1>4. CallOK(doubt)'
    BY DEF LogTypes, Begin, ghosts, CallOK
  <1>5. CallPlaced'
    <2>1. pc' = "stage" /\ clock' = ts
      BY DEF Begin
    <2>2. /\ call'.ts = ts /\ call'.taken = 0
          /\ call'.rows = rows /\ call'.kind = kind
      BY <1>1
    <2> QED
      BY <2>1, <2>2 DEF CallPlaced, InCall
  <1>6. Unopened'
    BY DEF LogTypes, Unopened, Begin
  <1> QED
    BY <1>1, <1>2, <1>3, <1>4, <1>5, <1>6 DEF LogTypes, CallOK

\* A timestamp a call may get is new.
LEMMA StampType == ASSUME LogTypes, NEW ts \in Stamps PROVE ts \in Nat /\ ts <= MaxClock /\ ts > clock
  BY LogAssumption DEF LogTypes, TypeOK, Stamps

\* The rows of a single insert or delete.
LEMMA OneRow ==
  ASSUME NEW row \in LogRow
  PROVE  /\ <<row>> \in Seq(LogRow) /\ Len(<<row>>) = 1 /\ <<row>>[1] = row
         /\ \A k \in 1..Len(<<row>>) : <<row>>[k] = row
  OBVIOUS

LEMMA BeginInsertTypes ==
  ASSUME LogTypes, NEW id \in Ids, NEW label \in Labels, NEW ts \in Stamps,
         Begin("insert", ts, <<Row("insert", id, label, ts, 1)>>),
         versions' = ClosedIn(versions, id, ts)
  PROVE  /\ LogTypes'
         /\ call' = [kind |-> "insert", ts |-> ts, rows |-> <<Row("insert", id, label, ts, 1)>>,
                     from |-> 0, taken |-> 0]
  <1>1. ts \in Nat /\ ts <= MaxClock
    BY StampType
  <1>2. crashes \in Nat /\ versions \in SUBSET LogVersion
    BY LogAssumption DEF LogTypes, TypeOK
  <1>3. Row("insert", id, label, ts, 1) \in LogRow /\ Row("insert", id, label, ts, 1).ts = ts
        /\ Row("insert", id, label, ts, 1).op = "insert"
    BY <1>1, <1>2, RowType DEF Row
  <1>4. versions' \subseteq LogVersion
    BY <1>1, <1>2, ClosedInType
  <1> DEFINE row == Row("insert", id, label, ts, 1)
  <1>5. /\ <<row>> \in Seq(LogRow) /\ Len(<<row>>) = 1 /\ <<row>>[1] = row
        /\ \A k \in 1..Len(<<row>>) : <<row>>[k] = row
    BY <1>3, OneRow
  <1> HIDE DEF row
  <1>6. Begin("insert", ts, <<row>>) /\ row.ts = ts /\ row.op = "insert"
    BY <1>3 DEF row
  <1>7. /\ LogTypes'
        /\ call' = [kind |-> "insert", ts |-> ts, rows |-> <<row>>, from |-> 0, taken |-> 0]
    <2>1. "insert" \in Kinds \ {"none"} /\ Len(<<row>>) > 0 /\ \A k \in 1..Len(<<row>>) : <<row>>[k].ts = ts
      BY <1>5, <1>6 DEF Kinds
    <2> QED
      BY <2>1, <1>1, <1>4, <1>5, <1>6, BeginTypes
  <1> QED
    BY <1>7 DEF row

LEMMA BeginDeleteTypes ==
  ASSUME LogTypes, NEW id \in Ids, NEW ts \in Stamps,
         Begin("delete", ts, <<Row("delete", id, 0, ts, 1)>>), UNCHANGED versions
  PROVE  /\ LogTypes'
         /\ call' = [kind |-> "delete", ts |-> ts, rows |-> <<Row("delete", id, 0, ts, 1)>>,
                     from |-> 0, taken |-> 0]
  <1>1. ts \in Nat /\ ts <= MaxClock
    BY StampType
  <1>2. crashes \in Nat /\ versions \in SUBSET LogVersion /\ 0 \in Labels
    BY LogAssumption DEF LogTypes, TypeOK
  <1>3. Row("delete", id, 0, ts, 1) \in LogRow /\ Row("delete", id, 0, ts, 1).ts = ts
        /\ Row("delete", id, 0, ts, 1).op = "delete"
    BY <1>1, <1>2, RowType DEF Row
  <1> DEFINE row == Row("delete", id, 0, ts, 1)
  <1>5. /\ <<row>> \in Seq(LogRow) /\ Len(<<row>>) = 1 /\ <<row>>[1] = row
        /\ \A k \in 1..Len(<<row>>) : <<row>>[k] = row
    BY <1>3, OneRow
  <1> HIDE DEF row
  <1>6. Begin("delete", ts, <<row>>) /\ row.ts = ts /\ row.op = "delete"
    BY <1>3 DEF row
  <1>7. /\ LogTypes'
        /\ call' = [kind |-> "delete", ts |-> ts, rows |-> <<row>>, from |-> 0, taken |-> 0]
    <2>1. "delete" \in Kinds \ {"none"} /\ Len(<<row>>) > 0 /\ \A k \in 1..Len(<<row>>) : <<row>>[k].ts = ts
      BY <1>5, <1>6 DEF Kinds
    <2> QED
      BY <2>1, <1>1, <1>2, <1>5, <1>6, BeginTypes
  <1> QED
    BY <1>7 DEF row

LEMMA BeginBatchTypes ==
  ASSUME LogTypes, clock < MaxClock, NEW n \in 1..MaxBatch,
         NEW ids \in [1..n -> Ids], NEW labels \in [1..n -> Labels],
         Begin("batch", clock + 1,
               [k \in 1..n |-> Row("insert", ids[k], labels[k], clock + 1, k)]),
         UNCHANGED versions
  PROVE  /\ LogTypes'
         /\ call' = [kind |-> "batch", ts |-> clock + 1, from |-> 0, taken |-> 0,
                     rows |-> [k \in 1..n |-> Row("insert", ids[k], labels[k], clock + 1, k)]]
  <1> DEFINE rows == [k \in 1..n |-> Row("insert", ids[k], labels[k], clock + 1, k)]
  <1>1. clock + 1 \in Nat /\ clock + 1 <= MaxClock /\ n \in Nat /\ n > 0 /\ crashes \in Nat
    BY LogAssumption DEF LogTypes, TypeOK
  <1>2. ASSUME NEW k \in 1..n PROVE rows[k] \in LogRow /\ rows[k].ts = clock + 1
    <2>1. rows[k] = Row("insert", ids[k], labels[k], clock + 1, k)
      OBVIOUS
    <2>2. ids[k] \in Ids /\ labels[k] \in Labels /\ k \in Nat
      BY <1>1
    <2>3. Row("insert", ids[k], labels[k], clock + 1, k) \in LogRow
      BY <1>1, <2>2, RowType
    <2>4. Row("insert", ids[k], labels[k], clock + 1, k).ts = clock + 1
      BY DEF Row
    <2> HIDE DEF rows
    <2> QED
      BY <2>1, <2>3, <2>4
  <1>3. rows \in [1..n -> LogRow]
    BY <1>2
  <1> HIDE DEF rows
  <1>4. rows \in Seq(LogRow) /\ Len(rows) = n
    BY <1>1, <1>3, MakeSeq
  <1>5. Begin("batch", clock + 1, rows)
    BY DEF rows
  <1>6. versions' \subseteq LogVersion
    BY DEF LogTypes, TypeOK
  <1>7. "batch" \in Kinds \ {"none"} /\ "batch" \notin {"insert", "delete"}
    BY DEF Kinds
  <1>8. LogTypes' /\ call' = [kind |-> "batch", ts |-> clock + 1, rows |-> rows,
                              from |-> 0, taken |-> 0]
    BY <1>1, <1>2, <1>4, <1>5, <1>6, <1>7, BeginTypes
  <1> QED
    BY <1>8 DEF rows

LEMMA BeginChangesTypes ==
  ASSUME LogTypes, clock < MaxClock, NEW n \in 1..MaxBatch,
         NEW ids \in [1..n -> Ids], NEW deletes \in 0..n,
         Begin("changes", clock + 1,
               [k \in 1..n |-> Row(IF k <= deletes THEN "delete" ELSE "insert",
                                   ids[k], 0, clock + 1, k)]),
         UNCHANGED versions
  PROVE  /\ LogTypes'
         /\ call' = [kind |-> "changes", ts |-> clock + 1, from |-> 0, taken |-> 0,
                     rows |-> [k \in 1..n |-> Row(IF k <= deletes THEN "delete" ELSE "insert",
                                                  ids[k], 0, clock + 1, k)]]
  <1> DEFINE rows == [k \in 1..n |-> Row(IF k <= deletes THEN "delete" ELSE "insert",
                                         ids[k], 0, clock + 1, k)]
  <1>1. /\ clock + 1 \in Nat /\ clock + 1 <= MaxClock /\ n \in Nat /\ n > 0 /\ crashes \in Nat
        /\ 0 \in Labels
    BY LogAssumption DEF LogTypes, TypeOK
  <1>2. \A k \in 1..n : rows[k] \in LogRow /\ rows[k].ts = clock + 1
    BY <1>1, RowType
  <1>3. rows \in [1..n -> LogRow]
    BY <1>2
  <1> HIDE DEF rows
  <1>4. rows \in Seq(LogRow) /\ Len(rows) = n
    BY <1>1, <1>3, MakeSeq
  <1>5. Begin("changes", clock + 1, rows)
    BY DEF rows
  <1>6. versions' \subseteq LogVersion
    BY DEF LogTypes, TypeOK
  <1>7. "changes" \in Kinds \ {"none"} /\ "changes" \notin {"insert", "delete"}
    BY DEF Kinds
  <1>8. LogTypes' /\ call' = [kind |-> "changes", ts |-> clock + 1, rows |-> rows,
                              from |-> 0, taken |-> 0]
    BY <1>1, <1>2, <1>4, <1>5, <1>6, <1>7, BeginTypes
  <1> QED
    BY <1>8 DEF rows

\* Staging appends the records of a block, which has at least one row.
LEMMA StageFacts ==
  ASSUME LogTypes, Stage
  PROVE  /\ BlockEnd \in Nat /\ call.taken < BlockEnd /\ BlockEnd <= Len(call.rows)
         /\ pending' \in Seq(LogRecord)
         /\ Len(pending') = Len(pending) + (BlockEnd - call.taken)
         /\ \A k \in 1..Len(pending) : pending'[k] = pending[k]
         /\ \A k \in 1..(BlockEnd - call.taken) :
              pending'[Len(pending) + k] = RecordOf(call.rows[call.taken + k])
  <1> DEFINE block == [k \in 1..(BlockEnd - call.taken) |-> RecordOf(call.rows[call.taken + k])]
  <1>1. call.rows \in Seq(LogRow) /\ call.taken \in Nat /\ Len(call.rows) \in Nat
        /\ call.taken < Len(call.rows)
    BY DEF LogTypes, CallOK, CallPlaced, Stage
  <1>2. BlockEnd \in Nat /\ call.taken < BlockEnd /\ BlockEnd <= Len(call.rows)
    BY <1>1, LogAssumption DEF BlockEnd
  <1>3. \A k \in 1..(BlockEnd - call.taken) : block[k] \in LogRecord
    BY <1>1, <1>2, RecordType, ElementOfSeq
  <1>4. block \in [1..(BlockEnd - call.taken) -> LogRecord]
    BY <1>3
  <1>5. BlockEnd - call.taken \in Nat
    BY <1>1, <1>2
  <1>6. block \in Seq(LogRecord) /\ Len(block) = BlockEnd - call.taken
    BY <1>4, <1>5, MakeSeq
  <1>7. pending' = pending \o block
    BY DEF Stage
  <1>8. \A k \in 1..(BlockEnd - call.taken) : block[k] = RecordOf(call.rows[call.taken + k])
    OBVIOUS
  <1>9. pending \in Seq(LogRecord)
    BY DEF LogTypes, TypeOK
  <1> HIDE DEF block
  <1>10. /\ pending \o block \in Seq(LogRecord)
         /\ Len(pending \o block) = Len(pending) + Len(block)
         /\ \A i \in 1..(Len(pending) + Len(block)) :
              (pending \o block)[i] = IF i <= Len(pending) THEN pending[i] ELSE block[i - Len(pending)]
    BY <1>6, <1>9, ConcatProperties
  <1>11. Len(pending) \in Nat
    BY <1>9
  <1>12. \A k \in 1..Len(pending) : pending'[k] = pending[k]
    BY <1>5, <1>6, <1>7, <1>10, <1>11
  <1>13. \A k \in 1..(BlockEnd - call.taken) : pending'[Len(pending) + k] = block[k]
    BY <1>5, <1>6, <1>7, <1>10, <1>11
  <1> QED
    BY <1>2, <1>6, <1>7, <1>8, <1>10, <1>12, <1>13

LEMMA StageTypes == ASSUME LogTypes, Stage PROVE LogTypes'
  <1>1. /\ BlockEnd \in Nat /\ call.taken < BlockEnd /\ BlockEnd <= Len(call.rows)
        /\ pending' \in Seq(LogRecord) /\ Len(pending') >= Len(pending)
        /\ Len(pending') \in Nat /\ Len(pending) \in Nat
    <2>1. call.taken \in Nat /\ Len(pending) \in Nat
      BY DEF LogTypes, TypeOK, CallOK
    <2>2. /\ BlockEnd \in Nat /\ call.taken < BlockEnd /\ BlockEnd <= Len(call.rows)
          /\ pending' \in Seq(LogRecord) /\ Len(pending') = Len(pending) + (BlockEnd - call.taken)
      BY StageFacts
    <2> QED
      BY <2>1, <2>2
  <1>2. TypeOK'
    <2>1. written' \in 0..Len(pending')
      <3>1. written' = written /\ written \in 0..Len(pending)
        BY DEF LogTypes, TypeOK, Stage
      <3> QED
        BY <1>1, <3>1
    <2> QED
      BY <1>1, <2>1 DEF LogTypes, TypeOK, Stage, disk, ghosts
  <1>3. call' = [call EXCEPT !.from = call.taken, !.taken = BlockEnd]
    BY DEF Stage
  <1>4. CallOK(call)'
    <2>1. call \in [kind : Kinds, ts : Nat, rows : Seq(LogRow), from : Nat, taken : Nat]
      BY DEF LogTypes, CallOK
    <2>2. call' \in [kind : Kinds, ts : Nat, rows : Seq(LogRow), from : Nat, taken : Nat]
      BY <1>1, <1>3, <2>1
    <2>3. /\ call'.from = call.taken /\ call'.taken = BlockEnd /\ call'.rows = call.rows
          /\ call'.ts = call.ts
      BY <1>3, <2>1
    <2> QED
      BY <1>1, <2>1, <2>2, <2>3 DEF LogTypes, CallOK
  <1>5. CallOK(doubt)'
    BY DEF LogTypes, CallOK, Stage, ghosts
  <1>6. CallPlaced'
    <2>1. pc = "stage" /\ pc' = "write" /\ clock' = clock
      BY DEF Stage
    <2>2. /\ call'.from = call.taken /\ call'.taken = BlockEnd /\ call'.rows = call.rows
          /\ call'.kind = call.kind /\ call'.ts = call.ts
      BY <1>3 DEF LogTypes, CallOK
    <2> QED
      BY <1>1, <2>1, <2>2 DEF LogTypes, CallPlaced, InCall
  <1>7. Unopened'
    BY DEF LogTypes, Unopened, Stage
  <1> QED
    BY <1>2, <1>4, <1>5, <1>6, <1>7 DEF LogTypes

LEMMA RefuseTypes == ASSUME LogTypes, Refuse PROVE LogTypes'
  <1>1. TypeOK'
    BY DEF LogTypes, TypeOK, Refuse, EndCall, Fault, disk
  <1>2. call' = NoCall /\ pc' = "idle"
    BY DEF Refuse, EndCall
  <1>3. CallOK(doubt)' /\ Unopened'
    BY <1>2 DEF LogTypes, CallOK, Refuse, Fault, Unopened
  <1> QED
    BY <1>1, <1>2, <1>3, NoCallOK DEF LogTypes, CallPlaced, InCall, NoCall, CallOK

\* The file and what is appended to it.
LEMMA FileGrows ==
  ASSUME LogTypes, NEW r \in LogRecord \cup {Torn}
  PROVE  /\ Append(file, r) \in Seq(LogRecord \cup {Torn})
         /\ Len(file) \in Nat /\ Len(Append(file, r)) = Len(file) + 1
         /\ \A k \in 1..Len(file) : Append(file, r)[k] = file[k]
         /\ Append(file, r)[Len(file) + 1] = r
  <1>1. file \in Seq(LogRecord \cup {Torn})
    BY DEF LogTypes, TypeOK
  <1> QED
    BY <1>1, AppendProperties, LenProperties

LEMMA WriteTypes == ASSUME LogTypes, Write PROVE LogTypes'
  <1>1. /\ written \in Nat /\ written < Len(pending) /\ written' = written + 1
        /\ pending' = pending /\ pending \in Seq(LogRecord) /\ Len(pending) \in Nat
    BY DEF LogTypes, TypeOK, Write
  <1>2. pending[written + 1] \in LogRecord \cup {Torn}
    BY <1>1, ElementOfSeq
  <1>3. file' = Append(file, pending[written + 1])
    BY DEF Write
  <1>4. file' \in Seq(LogRecord \cup {Torn}) /\ Len(file') = Len(file) + 1 /\ Len(file) \in Nat
    BY <1>2, <1>3, FileGrows
  <1>5. TypeOK'
    <2>1. written' \in 0..Len(pending')
      BY <1>1
    <2>2. at' = at /\ durable' = durable /\ at \in 0..Len(file) /\ durable \in 0..Len(file)
      BY DEF LogTypes, TypeOK, Write
    <2>3. at' \in 0..Len(file') /\ durable' \in 0..Len(file')
      BY <1>4, <2>2
    <2> QED
      BY <1>4, <2>1, <2>3 DEF LogTypes, TypeOK, Write, ghosts
  <1>6. UNCHANGED <<pc, call, doubt, clock, at, versions, pending>>
    BY DEF Write, ghosts
  <1>7. CallOK(call)' /\ CallOK(doubt)' /\ CallPlaced'
    BY <1>6 DEF LogTypes, CallOK, CallPlaced, InCall
  <1>8. Unopened'
    BY <1>6 DEF LogTypes, Unopened, Write
  <1> QED
    BY <1>5, <1>7, <1>8 DEF LogTypes

LEMMA EndFlushTypes == ASSUME LogTypes, EndFlush PROVE LogTypes'
  <1>1. << >> \in Seq(LogRecord) /\ Len(<< >>) = 0
    BY EmptySeq
  <1>2. durable' \in {Len(file), durable}
    BY DEF EndFlush, Flushed
  <1>3. Len(file) \in Nat /\ durable' \in 0..Len(file)
    BY <1>2 DEF LogTypes, TypeOK
  <1>4. faulted' \subseteq {"write", "sync", "vector"}
    BY DEF LogTypes, TypeOK, EndFlush
  <1>5. pending' = << >> /\ written' = 0 /\ pc = "write" /\ pc' = "apply"
        /\ UNCHANGED <<versions, clock, committed, call, at, file, promised, doubt, horizon, crashes>>
    BY DEF EndFlush
  <1>6. TypeOK'
    BY <1>1, <1>3, <1>4, <1>5 DEF LogTypes, TypeOK
  <1>7. CallOK(call)' /\ CallOK(doubt)' /\ CallPlaced' /\ Unopened'
    BY <1>5 DEF LogTypes, CallOK, CallPlaced, InCall, Unopened
  <1> QED
    BY <1>6, <1>7 DEF LogTypes

LEMMA FailWriteTypes == ASSUME LogTypes, FailWrite PROVE LogTypes'
  <1>1. /\ file' \in Seq(LogRecord \cup {Torn}) /\ Len(file') \in Nat /\ Len(file) \in Nat
        /\ Len(file') >= Len(file)
    <2>1. file' = file \/ file' = Append(file, Torn)
      BY DEF FailWrite
    <2>2. file \in Seq(LogRecord \cup {Torn}) /\ Len(file) \in Nat
      BY DEF LogTypes, TypeOK
    <2> QED
      BY <2>1, <2>2, FileGrows
  <1>2. /\ pc' = "idle" /\ call' = NoCall /\ written' = 0
        /\ faulted' = faulted \cup {"write"}
        /\ UNCHANGED <<versions, clock, committed, pending, at, durable, promised, doubt, horizon, crashes>>
    BY DEF FailWrite, EndCall, Fault
  <1>3. at' \in 0..Len(file') /\ durable' \in 0..Len(file')
    BY <1>1, <1>2 DEF LogTypes, TypeOK
  <1>4. TypeOK'
    BY <1>1, <1>2, <1>3 DEF LogTypes, TypeOK
  <1>5. CallOK(call') /\ CallOK(doubt) /\ Len(call'.rows) = 0 /\ call'.kind = "none"
    BY <1>2, NoCallOK DEF LogTypes, NoCall
  <1>6. CallOK(call)' /\ CallOK(doubt)' /\ CallPlaced' /\ Unopened'
    BY <1>2, <1>5 DEF CallOK, CallPlaced, InCall, Unopened
  <1> QED
    BY <1>4, <1>6 DEF LogTypes

\* The block a call is at is a sequence of its rows.
LEMMA BlockFacts ==
  ASSUME LogTypes, pc = "apply"
  PROVE  /\ Block \in Seq(LogRow) /\ Len(Block) = call.taken - call.from /\ Len(Block) > 0
         /\ \A k \in 1..(call.taken - call.from) : Block[k] = call.rows[call.from + k]
  <1>1. /\ call.rows \in Seq(LogRow) /\ call.from \in Nat /\ call.taken \in Nat
        /\ call.from < call.taken /\ call.taken <= Len(call.rows)
    BY DEF LogTypes, CallOK, CallPlaced
  <1> QED
    BY <1>1, Part DEF Block

LEMMA ApplyTypes == ASSUME LogTypes, Apply PROVE LogTypes'
  <1>1. UNCHANGED <<clock, committed, pending, written, at, file, durable, promised, doubt,
                    horizon, crashes, faulted>> /\ pc = "apply"
    BY DEF Apply, disk, ghosts
  <1>2. CASE call' = NoCall /\ pc' = "idle" /\ versions' = versions
    <2>1. TypeOK'
      BY <1>1, <1>2 DEF LogTypes, TypeOK
    <2>2. CallOK(call') /\ CallOK(doubt) /\ Len(call'.rows) = 0 /\ call'.kind = "none"
      BY <1>2, NoCallOK DEF LogTypes, NoCall
    <2> QED
      BY <1>1, <1>2, <2>1, <2>2 DEF LogTypes, CallOK, CallPlaced, InCall, Unopened
  <1>3. CASE /\ versions' = PutAll(versions, Block) /\ call' = call
             /\ pc' = IF call.taken < Len(call.rows) THEN "stage" ELSE "commit"
    <2>1. versions' \subseteq LogVersion
      BY <1>1, <1>3, BlockFacts, PutAllType DEF LogTypes, TypeOK
    <2>2. pc' \in {"stage", "commit"}
      BY <1>3
    <2>3. TypeOK'
      BY <1>1, <2>1, <2>2 DEF LogTypes, TypeOK
    <2>4. call.taken \in Nat /\ Len(call.rows) \in Nat /\ call.taken <= Len(call.rows)
      BY DEF LogTypes, CallOK
    <2>5. CallPlaced'
      BY <1>1, <1>3, <2>4 DEF LogTypes, CallPlaced, InCall
    <2>6. CallOK(call)' /\ CallOK(doubt)' /\ Unopened'
      BY <1>1, <1>3 DEF LogTypes, CallOK, Unopened
    <2> QED
      BY <2>3, <2>5, <2>6 DEF LogTypes
  <1> QED
    BY <1>2, <1>3 DEF Apply, EndCall

LEMMA CommitTypes == ASSUME LogTypes, Commit PROVE LogTypes'
  <1>1. call.rows \in Seq(LogRow) /\ call.ts \in Nat
    BY DEF LogTypes, CallOK
  <1>2. promised' \subseteq LogVersion
    BY <1>1, PutAllType DEF LogTypes, TypeOK, Commit
  <1>3. /\ pc = "commit" /\ pc' = "idle" /\ call' = NoCall /\ committed' = call.ts
        /\ UNCHANGED <<versions, clock, pending, written, at, file, durable, doubt, horizon,
                       crashes, faulted>>
    BY DEF Commit, EndCall, disk
  <1>4. TypeOK'
    BY <1>1, <1>2, <1>3 DEF LogTypes, TypeOK
  <1>5. CallOK(call') /\ CallOK(doubt) /\ Len(call'.rows) = 0 /\ call'.kind = "none"
    BY <1>3, NoCallOK DEF LogTypes, NoCall
  <1> QED
    BY <1>3, <1>4, <1>5 DEF LogTypes, CallOK, CallPlaced, InCall, Unopened

LEMMA VacuumTypes == ASSUME LogTypes, Vacuum PROVE LogTypes'
  <1>1. PICK oldest \in 1..(committed + 1) :
          /\ versions' = {v \in versions : v.end >= oldest}
          /\ horizon' = IF oldest > horizon THEN oldest ELSE horizon
    BY DEF Vacuum
  <1>2. /\ UNCHANGED <<clock, committed, pending, written, pc, call, at, file, durable, promised,
                       doubt, crashes, faulted>>
        /\ pc = "idle"
    BY DEF Vacuum, disk
  <1>3. versions' \subseteq LogVersion /\ horizon' \in Nat
    BY <1>1 DEF LogTypes, TypeOK
  <1>4. TypeOK'
    BY <1>2, <1>3 DEF LogTypes, TypeOK
  <1> QED
    BY <1>2, <1>4 DEF LogTypes, CallOK, CallPlaced, InCall, Unopened

LEMMA SaveTypes == ASSUME LogTypes, Save PROVE LogTypes'
  <1>1. UNCHANGED <<memory, file, durable, ghosts>>
    BY DEF Save
  <1> QED
    BY <1>1 DEF LogTypes, TypeOK, CallOK, CallPlaced, InCall, Unopened, memory, ghosts

\* What a crash leaves of the file: the first n records, n reaching as far as
\* the kind of crash lets it, and perhaps a torn one.
LEMMA CrashLeaves ==
  ASSUME LogTypes, Crash
  PROVE  \E kind \in Crashes, n \in 0..Len(file) :
           /\ IF kind = "power" THEN durable <= n /\ durable' = Len(file')
                                ELSE n = Len(file) /\ durable' = durable
           /\ file' \in Seq(LogRecord \cup {Torn})
           /\ \A k \in 1..n : file'[k] = file[k]
           /\ \/ Len(file') = n
              \/ /\ Len(file') = n + 1 /\ file'[n + 1] = Torn
                 /\ n < Len(file) \/ (pc = "write" /\ written < Len(pending))
  <1>1. PICK kind \in Crashes : /\ file' \in Left(kind)
                                /\ durable' = IF kind = "power" THEN Len(file') ELSE durable
    BY DEF Crash
  <1> DEFINE least == IF kind = "power" THEN durable ELSE Len(file)
  <1>2. /\ file \in Seq(LogRecord \cup {Torn}) /\ Len(file) \in Nat /\ durable \in 0..Len(file)
        /\ least \in 0..Len(file)
    BY DEF LogTypes, TypeOK
  <1>3. PICK n \in least..Len(file) :
          \/ file' = SubSeq(file, 1, n)
          \/ /\ file' = Append(SubSeq(file, 1, n), Torn)
             /\ n < Len(file) \/ (pc = "write" /\ written < Len(pending))
    BY <1>1, <1>2 DEF Left
  <1>4. /\ SubSeq(file, 1, n) \in Seq(LogRecord \cup {Torn})
        /\ Len(SubSeq(file, 1, n)) = n
        /\ \A k \in 1..n : SubSeq(file, 1, n)[k] = file[k]
    <2>1. n \in Nat /\ n <= Len(file)
      BY <1>2, <1>3
    <2>2. \A i \in 1..n : file[i] \in LogRecord \cup {Torn}
      BY <1>2, <2>1, ElementOfSeq
    <2>3. /\ SubSeq(file, 1, n) \in Seq(LogRecord \cup {Torn})
          /\ Len(SubSeq(file, 1, n)) = IF 1 <= n THEN n - 1 + 1 ELSE 0
          /\ \A k \in 1..(n - 1 + 1) : SubSeq(file, 1, n)[k] = file[1 + k - 1]
      BY <2>1, <2>2, SubSeqProperties
    <2> QED
      BY <2>1, <2>3
  <1>5. n \in 0..Len(file) /\ IF kind = "power" THEN durable <= n ELSE n = Len(file)
    BY <1>2, <1>3
  <1> HIDE DEF least
  <1>6. CASE file' = SubSeq(file, 1, n)
    BY <1>1, <1>4, <1>5, <1>6
  <1>7. CASE /\ file' = Append(SubSeq(file, 1, n), Torn)
             /\ n < Len(file) \/ (pc = "write" /\ written < Len(pending))
    <2>1. /\ file' \in Seq(LogRecord \cup {Torn}) /\ Len(file') = n + 1
          /\ \A k \in 1..n : file'[k] = SubSeq(file, 1, n)[k]
          /\ file'[n + 1] = Torn
      BY <1>4, <1>7, AppendProperties
    <2> QED
      BY <1>1, <1>4, <1>5, <1>7, <2>1
  <1> QED
    BY <1>3, <1>6, <1>7

LEMMA CrashTypes == ASSUME LogTypes, Crash PROVE LogTypes'
  <1>1. /\ doubt' = IF InCall THEN call ELSE doubt
        /\ crashes < MaxCrashes /\ crashes' = crashes + 1
        /\ versions' = {} /\ clock' = 0 /\ committed' = 0
        /\ pending' = <<>> /\ written' = 0 /\ pc' = "down" /\ call' = NoCall /\ at' = 0
        /\ UNCHANGED <<promised, horizon, faulted>>
    BY DEF Crash
  <1>2. /\ file' \in Seq(LogRecord \cup {Torn}) /\ Len(file') \in Nat
        /\ durable' \in 0..Len(file')
    <2>1. Len(file) \in Nat /\ durable \in 0..Len(file)
      BY DEF LogTypes, TypeOK
    <2> QED
      BY <2>1, CrashLeaves
  <1>3. << >> \in Seq(LogRecord) /\ Len(<< >>) = 0
    BY EmptySeq
  <1>4. TypeOK'
    BY <1>1, <1>2, <1>3, LogAssumption DEF LogTypes, TypeOK
  <1>5. CallOK(call') /\ CallOK(doubt') /\ Len(call'.rows) = 0 /\ call'.kind = "none"
    BY <1>1, NoCallOK DEF LogTypes, NoCall
  <1> QED
    BY <1>1, <1>4, <1>5 DEF LogTypes, CallOK, CallPlaced, InCall, Unopened

LEMMA StartTypes == ASSUME LogTypes, Start PROVE LogTypes'
  BY DEF LogTypes, TypeOK, CallOK, CallPlaced, InCall, Unopened, Start, disk, ghosts

\* The row replay makes of a record.
RowOf(record) == [op |-> record.op, id |-> record.id, ts |-> record.ts,
                  vec |-> record.vec, label |-> 0]

\* What replay does, a record of the file at hand.
LEMMA ReplayFacts ==
  ASSUME LogTypes, Replay
  PROVE  /\ at \in Nat /\ at + 1 \in 1..Len(file) /\ at' = at + 1 /\ file[at + 1] # Torn
         /\ file[at + 1] \in LogRecord /\ RowOf(file[at + 1]) \in LogRow
         /\ versions' = Put(versions, RowOf(file[at + 1]))
         /\ clock' = file[at + 1].ts /\ committed' = file[at + 1].ts /\ file[at + 1].ts >= clock
         /\ UNCHANGED <<pending, written, pc, call, file, durable, saved, promised, doubt,
                        horizon, crashes, faulted>>
         /\ pc = "replay"
  <1>1. file \in Seq(LogRecord \cup {Torn}) /\ at \in Nat
    BY DEF LogTypes, TypeOK
  <1>2. at + 1 \in 1..Len(file) /\ file[at + 1] # Torn
    BY <1>1, LenProperties DEF Replay, Verifies
  <1>3. file[at + 1] \in LogRecord
    BY <1>1, <1>2, ElementOfSeq
  <1>4. RowOf(file[at + 1]) \in LogRow
    BY <1>3, LogAssumption DEF RowOf, LogRow, LogRecord
  <1> QED
    BY <1>1, <1>2, <1>3, <1>4 DEF Replay, RowOf, disk, ghosts

LEMMA ReplayTypes == ASSUME LogTypes, Replay PROVE LogTypes'
  <1>1. versions' \subseteq LogVersion
    BY ReplayFacts, PutType DEF LogTypes, TypeOK
  <1>2. file[at + 1].ts \in Nat
    BY ReplayFacts DEF LogRecord
  <1>3. at' \in 0..Len(file)
    BY ReplayFacts
  <1>4. TypeOK'
    BY <1>1, <1>2, <1>3, ReplayFacts DEF LogTypes, TypeOK
  <1> QED
    BY <1>4, ReplayFacts DEF LogTypes, CallOK, CallPlaced, InCall, Unopened

LEMMA GiveUpTypes == ASSUME LogTypes, GiveUp PROVE LogTypes'
  <1>1. TypeOK'
    BY DEF LogTypes, TypeOK, GiveUp, disk, ghosts
  <1> QED
    BY <1>1 DEF LogTypes, CallOK, CallPlaced, InCall, Unopened, GiveUp, disk, ghosts

\* What Open keeps of the file.
LEMMA OpenFacts ==
  ASSUME LogTypes, Open
  PROVE  /\ file' \in Seq(LogRecord \cup {Torn}) /\ Len(file') = at /\ at \in 0..Len(file)
         /\ \A k \in 1..at : file'[k] = file[k]
         /\ at = Len(file) \/ (at + 1 \in 1..Len(file) /\ file[at + 1] = Torn)
  <1>1. file \in Seq(LogRecord \cup {Torn}) /\ at \in 0..Len(file) /\ Len(file) \in Nat
    BY DEF LogTypes, TypeOK
  <1>2. \A i \in 1..at : file[i] \in LogRecord \cup {Torn}
    BY <1>1, ElementOfSeq
  <1>3. /\ SubSeq(file, 1, at) \in Seq(LogRecord \cup {Torn})
        /\ Len(SubSeq(file, 1, at)) = IF 1 <= at THEN at - 1 + 1 ELSE 0
        /\ \A k \in 1..(at - 1 + 1) : SubSeq(file, 1, at)[k] = file[1 + k - 1]
    BY <1>1, <1>2, SubSeqProperties
  <1>4. file' = SubSeq(file, 1, at)
    BY DEF Open, Kept
  <1>5. at = Len(file) \/ (at + 1 \in 1..Len(file) /\ file[at + 1] = Torn)
    BY <1>1, LenProperties DEF Open, AtEnd, Verifies
  <1> QED
    BY <1>1, <1>3, <1>4, <1>5

LEMMA OpenTypes == ASSUME LogTypes, Open PROVE LogTypes'
  <1>1. promised' \subseteq LogVersion
    <2>1. \A h \in Outcomes : h \subseteq LogVersion
      <3>1. SUFFICES ASSUME NEW n \in 0..Len(doubt.rows)
                     PROVE  PutAll(promised, SubSeq(doubt.rows, 1, n)) \subseteq LogVersion
        BY DEF Outcomes, LogTypes, CallOK
      <3>2. doubt.rows \in Seq(LogRow) /\ n \in Nat /\ n <= Len(doubt.rows)
        BY DEF LogTypes, CallOK
      <3>3. SubSeq(doubt.rows, 1, n) \in Seq(LogRow)
        <4>1. 0 + 1 = 1 /\ 0 \in Nat /\ 0 <= n
          BY <3>2
        <4>2. SubSeq(doubt.rows, 0 + 1, n) \in Seq(LogRow)
          BY <3>2, <4>1, Part
        <4> QED
          BY <4>1, <4>2
      <3>4. promised \in SUBSET LogVersion
        BY DEF LogTypes, TypeOK
      <3> QED
        BY <3>3, <3>4, PutAllType
    <2>2. promised' = promised \/ promised' \in Outcomes
      BY DEF Open
    <2> QED
      BY <2>1, <2>2 DEF LogTypes, TypeOK
  <1>2. durable' \in 0..Len(file') /\ at \in 0..Len(file')
    BY OpenFacts DEF LogTypes, TypeOK, Open, Smaller
  <1>3. /\ pc = "replay" /\ pc' = "idle" /\ doubt' = NoCall
        /\ UNCHANGED <<versions, clock, committed, pending, written, call, at, horizon, crashes,
                       faulted>>
    BY DEF Open
  <1>4. TypeOK'
    BY <1>1, <1>2, <1>3, OpenFacts DEF LogTypes, TypeOK
  <1> QED
    BY <1>3, <1>4, NoCallOK DEF LogTypes, CallOK, CallPlaced, InCall, Unopened

\* Every step keeps the types.
LEMMA TypesStep == ASSUME LogTypes, [Next]_vars PROVE LogTypes'
  <1>1. CASE UNCHANGED vars
    BY <1>1 DEF LogTypes, TypeOK, CallOK, CallPlaced, InCall, Unopened, vars, memory, disk, ghosts
  <1>2. ASSUME BeginInsert PROVE LogTypes'
    BY <1>2, BeginInsertTypes DEF BeginInsert
  <1>3. ASSUME BeginDelete PROVE LogTypes'
    BY <1>3, BeginDeleteTypes DEF BeginDelete
  <1>4. ASSUME BeginBatch PROVE LogTypes'
    BY <1>4, BeginBatchTypes DEF BeginBatch
  <1>5. ASSUME BeginChanges PROVE LogTypes'
    BY <1>5, BeginChangesTypes DEF BeginChanges
  <1> QED
    BY <1>1, <1>2, <1>3, <1>4, <1>5, StageTypes, RefuseTypes, WriteTypes, EndFlushTypes,
       FailWriteTypes, ApplyTypes, CommitTypes, VacuumTypes, SaveTypes, CrashTypes, StartTypes,
       ReplayTypes, GiveUpTypes, OpenTypes
       DEF Next, Calls, Recovery

-----------------------------------------------------------------------------
(* One open version.  It takes that no timestamp in a record is the end of *)
(* an open version.                                                        *)

\* An id has at most one open version.
OneOpen(vs) ==
  \A v, w \in vs : v.id = w.id /\ v.end = MAX_TS /\ w.end = MAX_TS => v = w

\* The clock and all timestamps logged or staged are real ones, not the end of time.
Stamped ==
  /\ clock <= MaxClock
  /\ \A k \in 1..Len(file) : file[k] # Torn => file[k].ts <= MaxClock
  /\ \A k \in 1..Len(pending) : pending[k].ts <= MaxClock

\* Closing an id leaves it no open version and others theirs.
LEMMA ClosedInOpen ==
  ASSUME NEW vs \in SUBSET LogVersion, OneOpen(vs), NEW id, NEW ts \in Nat, ts # MAX_TS
  PROVE  /\ OneOpen(ClosedIn(vs, id, ts))
         /\ \A v \in ClosedIn(vs, id, ts) : v.end = MAX_TS => v.id # id
  <1>1. ASSUME NEW v \in ClosedIn(vs, id, ts), v.end = MAX_TS
        PROVE  v \in vs /\ v.id # id
    <2>1. PICK w \in vs : v = IF w.id = id /\ w.end = MAX_TS THEN [w EXCEPT !.end = ts] ELSE w
      BY DEF ClosedIn
    <2>2. [w EXCEPT !.end = ts].end = ts
      BY DEF LogVersion
    <2> QED
      BY <1>1, <2>1, <2>2
  <1> QED
    BY <1>1 DEF OneOpen

\* A row placed is its id's one open version.
LEMMA PutOpen ==
  ASSUME NEW vs \in SUBSET LogVersion, OneOpen(vs), NEW row \in LogRow, row.ts # MAX_TS
  PROVE  OneOpen(Put(vs, row))
  <1>1. row.ts \in Nat
    BY DEF LogRow
  <1>2. /\ OneOpen(ClosedIn(vs, row.id, row.ts))
        /\ \A v \in ClosedIn(vs, row.id, row.ts) : v.end = MAX_TS => v.id # row.id
    BY <1>1, ClosedInOpen
  <1> QED
    BY <1>2 DEF Put, OneOpen

\* Of the rows after the k-th, one is about the id.
Followed(rows, id, k) == \E j \in (k + 1)..Len(rows) : rows[j].id = id

\* What is in PutAll.
LEMMA InPutAll ==
  ASSUME NEW vs \in SUBSET LogVersion, NEW rows \in Seq(LogRow), NEW v
  PROVE  v \in PutAll(vs, rows) <=>
           \/ v \in vs /\ ~(v.end = MAX_TS /\ Followed(rows, v.id, 0))
           \/ \E w \in vs : /\ w.end = MAX_TS /\ Followed(rows, w.id, 0)
                            /\ v = [w EXCEPT !.end = rows[1].ts]
           \/ \E k \in 1..Len(rows) :
                /\ rows[k].op = "insert"
                /\ v = [id |-> rows[k].id, begin |-> rows[k].ts, vec |-> rows[k].vec,
                        label |-> rows[k].label,
                        end |-> IF Followed(rows, rows[k].id, k) THEN rows[k].ts ELSE MAX_TS]
  BY DEF PutAll, Followed

\* The rows of a call leave each id at most one open version.
LEMMA PutAllOpen ==
  ASSUME NEW vs \in SUBSET LogVersion, OneOpen(vs), NEW rows \in Seq(LogRow),
         \A k \in 1..Len(rows) : rows[k].ts # MAX_TS
  PROVE  OneOpen(PutAll(vs, rows))
  <1> DEFINE Old(v) == v \in vs /\ ~Followed(rows, v.id, 0)
             New(v, k) == /\ rows[k].op = "insert" /\ ~Followed(rows, rows[k].id, k)
                          /\ v = [id |-> rows[k].id, begin |-> rows[k].ts, vec |-> rows[k].vec,
                                  label |-> rows[k].label, end |-> MAX_TS]
  <1>1. Len(rows) \in Nat
    OBVIOUS
  <1>2. ASSUME NEW v \in PutAll(vs, rows), v.end = MAX_TS
        PROVE  Old(v) \/ \E k \in 1..Len(rows) : New(v, k)
    <2>1. CASE v \in vs /\ ~(v.end = MAX_TS /\ Followed(rows, v.id, 0))
      BY <1>2, <2>1
    <2>2. ASSUME NEW w \in vs, w.end = MAX_TS, Followed(rows, w.id, 0),
                 v = [w EXCEPT !.end = rows[1].ts]
          PROVE  FALSE
      <3>1. 1 \in 1..Len(rows)
        BY <1>1, <2>2 DEF Followed
      <3>2. v.end = rows[1].ts
        BY <2>2 DEF LogVersion
      <3> QED
        BY <1>2, <3>1, <3>2
    <2>3. ASSUME NEW k \in 1..Len(rows), rows[k].op = "insert",
                 v = [id |-> rows[k].id, begin |-> rows[k].ts, vec |-> rows[k].vec,
                      label |-> rows[k].label,
                      end |-> IF Followed(rows, rows[k].id, k) THEN rows[k].ts ELSE MAX_TS]
          PROVE  New(v, k)
      BY <1>2, <2>3
    <2> QED
      BY <2>1, <2>2, <2>3, InPutAll
  <1>3. ASSUME NEW v, NEW w, NEW k \in 1..Len(rows), Old(v), New(w, k)
        PROVE  v.id # w.id
    BY <1>1, <1>3 DEF Followed
  <1>4. ASSUME NEW v, NEW w, NEW j \in 1..Len(rows), NEW k \in 1..Len(rows),
               New(v, j), New(w, k), v.id = w.id
        PROVE  v = w
    <2>1. j = k
      BY <1>1, <1>4 DEF Followed
    <2> QED
      BY <1>4, <2>1
  <1>5. SUFFICES ASSUME NEW v \in PutAll(vs, rows), NEW w \in PutAll(vs, rows),
                        v.id = w.id, v.end = MAX_TS, w.end = MAX_TS
                 PROVE  v = w
    BY DEF OneOpen
  <1>6. Old(v) \/ \E k \in 1..Len(rows) : New(v, k)
    BY <1>2, <1>5
  <1>7. Old(w) \/ \E k \in 1..Len(rows) : New(w, k)
    BY <1>2, <1>5
  <1>8. CASE Old(v) /\ Old(w)
    BY <1>5, <1>8 DEF OneOpen
  <1> HIDE DEF Old, New
  <1> QED
    BY <1>3, <1>4, <1>5, <1>6, <1>7, <1>8

\* Every step keeps them real.
LEMMA StampedStep == ASSUME LogTypes, Stamped, [Next]_vars PROVE Stamped'
  <1> USE DEF Stamped
  <1>1. ASSUME UNCHANGED <<file, pending>>, clock' <= MaxClock PROVE Stamped'
    BY <1>1
  <1>2. CASE Stage
    <2>1. /\ Len(pending) \in Nat /\ BlockEnd \in Nat /\ call.taken \in Nat
          /\ Len(pending') = Len(pending) + (BlockEnd - call.taken)
          /\ call.taken < BlockEnd /\ BlockEnd <= Len(call.rows)
          /\ \A k \in 1..Len(pending) : pending'[k] = pending[k]
          /\ \A k \in 1..(BlockEnd - call.taken) :
              pending'[Len(pending) + k] = RecordOf(call.rows[call.taken + k])
      <3>1. Len(pending) \in Nat /\ call.taken \in Nat
        BY DEF LogTypes, TypeOK, CallOK
      <3> QED
        BY <1>2, <3>1, StageFacts
    <2>2. \A k \in 1..Len(call.rows) : RecordOf(call.rows[k]).ts <= MaxClock
      BY DEF LogTypes, CallOK, RecordOf
    <2>3. ASSUME NEW k \in 1..Len(pending'), k > Len(pending)
          PROVE  pending'[k].ts <= MaxClock
      <3>1. k - Len(pending) \in 1..(BlockEnd - call.taken) /\ Len(pending) + (k - Len(pending)) = k
        BY <2>1, <2>3
      <3>2. pending'[k] = RecordOf(call.rows[call.taken + (k - Len(pending))])
        BY <2>1, <3>1
      <3>3. call.taken + (k - Len(pending)) \in 1..Len(call.rows)
        <4>1. /\ BlockEnd \in Nat /\ call.taken \in Nat
              /\ BlockEnd <= Len(call.rows) /\ Len(call.rows) \in Nat
          <5>1. Len(call.rows) \in Nat
            BY DEF LogTypes, CallOK
          <5> QED
            BY <2>1, <5>1
        <4> QED
          BY <3>1, <4>1
      <3> QED
        BY <2>2, <3>2, <3>3
    <2>4. file' = file /\ clock' = clock
      BY <1>2 DEF Stage, disk
    <2>5. ASSUME NEW k \in 1..Len(pending'), k <= Len(pending)
          PROVE  pending'[k].ts <= MaxClock
      <3>1. k \in 1..Len(pending)
        BY <2>1, <2>5
      <3> QED
        BY <2>1, <3>1
    <2>6. \A k \in 1..Len(pending') : pending'[k].ts <= MaxClock
      <3>1. \A k \in 1..Len(pending') : k <= Len(pending) \/ k > Len(pending)
        BY <2>1
      <3> QED
        BY <2>3, <2>5, <3>1
    <2> QED
      BY <2>4, <2>6
  <1>3. CASE Write
    <2>1. /\ file' = Append(file, pending[written + 1]) /\ pending' = pending
          /\ clock' = clock /\ written + 1 \in 1..Len(pending)
      BY <1>3 DEF Write, LogTypes, TypeOK
    <2>2. pending[written + 1] \in LogRecord
      BY <2>1, ElementOfSeq DEF LogTypes, TypeOK
    <2> QED
      BY <2>1, <2>2, FileGrows
  <1>4. CASE EndFlush
    <2>1. pending' = << >> /\ file' = file /\ clock' = clock
      BY <1>4 DEF EndFlush
    <2>2. Len(pending') = 0
      BY <2>1, EmptySeq
    <2> QED
      BY <2>1, <2>2
  <1>5. CASE FailWrite
    <2>1. pending' = pending /\ clock' = clock /\ (file' = file \/ file' = Append(file, Torn))
      BY <1>5 DEF FailWrite
    <2> QED
      BY <2>1, FileGrows
  <1>6. CASE Crash
    <2>1. pending' = << >> /\ clock' = 0
      BY <1>6 DEF Crash
    <2>2. Len(pending') = 0
      BY <2>1, EmptySeq
    <2>3. Len(file) \in Nat
      BY DEF LogTypes, TypeOK
    <2> QED
      BY <1>6, <2>1, <2>2, <2>3, CrashLeaves, LogAssumption
  <1>7. CASE Open
    <2>1. pending' = pending /\ clock' = clock
      BY <1>7 DEF Open
    <2>2. Len(file) \in Nat
      BY DEF LogTypes, TypeOK
    <2> QED
      BY <1>7, <2>1, <2>2, OpenFacts
  <1>8. ASSUME BeginInsert \/ BeginDelete \/ BeginBatch \/ BeginChanges
        PROVE  UNCHANGED <<file, pending>> /\ clock' <= MaxClock
    <2>1. clock \in Nat /\ MaxClock \in Nat
      BY LogAssumption DEF LogTypes, TypeOK
    <2>2. clock' \in Stamps \/ (clock < MaxClock /\ clock' = clock + 1)
      BY <1>8 DEF BeginInsert, BeginDelete, BeginBatch, BeginChanges, Begin
    <2>3. clock' <= MaxClock
      BY <2>1, <2>2, StampType
    <2> QED
      BY <1>8, <2>3 DEF BeginInsert, BeginDelete, BeginBatch, BeginChanges, Begin, disk
  <1>9. ASSUME Refuse \/ Apply \/ Commit \/ Vacuum \/ Save \/ Start
        PROVE  UNCHANGED <<file, pending, clock>>
    BY <1>9 DEF Refuse, Apply, Commit, Vacuum, Save, Start, disk, memory
  <1>10. ASSUME UNCHANGED vars PROVE UNCHANGED <<file, pending, clock>>
    BY <1>10 DEF vars, memory, disk
  <1>11. ASSUME GiveUp PROVE UNCHANGED <<file, pending>> /\ clock' <= MaxClock
    BY <1>11, LogAssumption DEF GiveUp, disk
  <1>12. ASSUME Replay PROVE UNCHANGED <<file, pending>> /\ clock' <= MaxClock
    BY <1>12, ReplayFacts
  <1> QED
    BY <1>1, <1>2, <1>3, <1>4, <1>5, <1>6, <1>7, <1>8, <1>9, <1>10, <1>11, <1>12
       DEF Next, Calls, Recovery

\* Every step leaves each id at most one open version.
LEMMA OneOpenStep ==
  ASSUME LogTypes, Stamped, OneOpen(versions), [Next]_vars PROVE OneOpen(versions')
  <1>1. ASSUME versions' \subseteq versions PROVE OneOpen(versions')
    BY <1>1 DEF OneOpen
  <1>2. versions \in SUBSET LogVersion /\ MaxClock < MAX_TS /\ MAX_TS \in Nat /\ MaxClock \in Nat
    BY LogAssumption DEF LogTypes, TypeOK
  <1>3. CASE BeginInsert
    <2>1. PICK id \in Ids, ts \in Stamps : versions' = ClosedIn(versions, id, ts)
      BY <1>3 DEF BeginInsert
    <2>2. ts \in Nat /\ ts # MAX_TS
      BY <1>2, StampType
    <2> QED
      BY <1>2, <2>1, <2>2, ClosedInOpen
  <1>4. CASE Apply
    <2>1. pc = "apply" /\ (versions' = versions \/ versions' = PutAll(versions, Block))
      BY <1>4 DEF Apply
    <2>2. call.from \in Nat /\ call.taken \in Nat /\ call.taken <= Len(call.rows)
          /\ call.ts <= MaxClock /\ call.ts \in Nat
          /\ \A k \in 1..Len(call.rows) : call.rows[k].ts = call.ts
      BY DEF LogTypes, CallOK
    <2>3. ASSUME NEW k \in 1..Len(Block) PROVE Block[k].ts # MAX_TS
      <3>1. /\ Block[k] = call.rows[call.from + k]
            /\ k \in 1..(call.taken - call.from)
        BY <2>1, BlockFacts
      <3>2. call.from + k \in 1..Len(call.rows)
        BY <2>2, <3>1
      <3>3. Block[k].ts = call.ts
        BY <2>2, <3>1, <3>2
      <3> QED
        BY <1>2, <2>2, <3>3
    <2> QED
      BY <1>1, <1>2, <2>1, <2>3, BlockFacts, PutAllOpen
  <1>5. CASE Replay
    <2>1. file[at + 1].ts <= MaxClock /\ file[at + 1].ts \in Nat
      BY <1>5, ReplayFacts DEF Stamped, LogRecord
    <2>2. RowOf(file[at + 1]).ts # MAX_TS
      BY <1>2, <2>1 DEF RowOf
    <2>3. RowOf(file[at + 1]) \in LogRow /\ versions' = Put(versions, RowOf(file[at + 1]))
      BY <1>5, ReplayFacts
    <2> QED
      BY <1>2, <2>2, <2>3, PutOpen
  <1>6. ASSUME BeginDelete \/ BeginBatch \/ BeginChanges PROVE versions' = versions
    BY <1>6 DEF BeginDelete, BeginBatch, BeginChanges
  <1>7. ASSUME \/ Stage \/ Refuse \/ Write \/ EndFlush \/ FailWrite \/ Commit \/ Save
               \/ Start \/ Open \/ UNCHANGED vars
        PROVE  versions' = versions
    BY <1>7 DEF Stage, Refuse, Write, EndFlush, FailWrite, Commit, Save, Start, Open, vars, memory
  <1>8. ASSUME Crash \/ GiveUp PROVE versions' = {}
    BY <1>8 DEF Crash, GiveUp
  <1>9. ASSUME Vacuum PROVE versions' \subseteq versions
    BY <1>9 DEF Vacuum
  <1> QED
    BY <1>1, <1>3, <1>4, <1>5, <1>6, <1>7, <1>8, <1>9 DEF Next, Calls, Recovery

-----------------------------------------------------------------------------
(* The order of the log.                                                   *)

\* The order of the log is a matter of these variables only.
LEMMA OrderedKept ==
  ASSUME LogOrdered, UNCHANGED <<file, clock, pending>>, pc' # "replay", pc' # "write",
         Live' => Live /\ pc # "write"
  PROVE  LogOrdered'
  BY DEF LogOrdered, Live

\* Each step that adds records, cuts the file or moves the clock keeps
\* the order of timestamps.
LEMMA StageOrdered == ASSUME LogTypes, LogOrdered, Stage PROVE LogOrdered'
  <1>1. pc = "stage" /\ pc' = "write" /\ UNCHANGED <<file, clock>>
        /\ call' = [call EXCEPT !.from = call.taken, !.taken = BlockEnd]
    BY DEF Stage, disk
  <1>2. call'.from = call.taken /\ call'.taken = BlockEnd /\ call'.rows = call.rows
    BY <1>1 DEF LogTypes, CallOK
  <1>3. pending = << >> /\ Len(pending) = 0
    <2>1. pending = << >>
      BY <1>1 DEF LogOrdered, Live
    <2> QED
      BY <2>1, EmptySeq
  <1>4. /\ BlockEnd \in Nat /\ call.taken \in Nat
        /\ Len(pending') = BlockEnd - call.taken
        /\ \A k \in 1..(BlockEnd - call.taken) : pending'[k] = RecordOf(call.rows[call.taken + k])
    BY <1>3, StageFacts DEF LogTypes, CallOK
  <1> QED
    BY <1>1, <1>2, <1>4 DEF LogOrdered, Live

\* What Write puts into the file.
LEMMA WriteFacts ==
  ASSUME LogTypes, LogOrdered, Write
  PROVE  /\ Len(file) \in Nat /\ Len(file') = Len(file) + 1
         /\ \A k \in 1..Len(file) : file'[k] = file[k]
         /\ call.from + written + 1 \in 1..call.taken
         /\ file'[Len(file) + 1] = RecordOf(call.rows[call.from + written + 1])
         /\ file'[Len(file) + 1] \in LogRecord
         /\ file'[Len(file) + 1].ts = clock
         /\ pc = "write" /\ written' = written + 1 /\ written \in Nat
         /\ UNCHANGED <<versions, clock, committed, pending, pc, call, at, durable, saved, ghosts>>
  <1>1. /\ pc = "write" /\ written < Len(pending) /\ file' = Append(file, pending[written + 1])
        /\ written' = written + 1
        /\ UNCHANGED <<versions, clock, committed, pending, pc, call, at, durable, saved, ghosts>>
    BY DEF Write
  <1>2. /\ written \in Nat /\ Len(pending) \in Nat /\ call.from \in Nat /\ call.taken \in Nat
        /\ call.taken <= Len(call.rows) /\ Len(call.rows) \in Nat
    BY DEF LogTypes, TypeOK, CallOK
  <1>3. /\ Len(pending) = call.taken - call.from
        /\ \A k \in 1..Len(pending) : pending[k] = RecordOf(call.rows[call.from + k])
    BY <1>1 DEF LogOrdered
  <1>4. written + 1 \in 1..Len(pending)
    BY <1>1, <1>2
  <1>5. /\ pending[written + 1] = RecordOf(call.rows[call.from + (written + 1)])
        /\ call.from + written + 1 \in 1..call.taken
        /\ call.from + (written + 1) = call.from + written + 1
    <2>1. pending[written + 1] = RecordOf(call.rows[call.from + (written + 1)])
      BY <1>3, <1>4
    <2>2. /\ call.from + written + 1 \in 1..call.taken
          /\ call.from + (written + 1) = call.from + written + 1
      <3>1. Len(pending) = call.taken - call.from
        BY <1>3
      <3> QED
        BY <1>2, <1>4, <3>1
    <2> QED
      BY <2>1, <2>2
  <1>6. pending[written + 1] \in LogRecord
    BY <1>4, ElementOfSeq DEF LogTypes, TypeOK
  <1>7. /\ Len(file) \in Nat /\ Len(file') = Len(file) + 1
        /\ \A k \in 1..Len(file) : file'[k] = file[k]
        /\ file'[Len(file) + 1] = pending[written + 1]
    BY <1>1, <1>6, FileGrows
  <1>8. call.rows[call.from + written + 1].ts = clock
    <2>1. call.from + written + 1 \in 1..Len(call.rows)
      BY <1>2, <1>5
    <2>2. \A k \in 1..Len(call.rows) : call.rows[k].ts = call.ts
      BY DEF LogTypes, CallOK
    <2>3. call.ts = clock
      BY <1>1 DEF LogTypes, CallPlaced, InCall
    <2> QED
      BY <2>1, <2>2, <2>3
  <1>9. RecordOf(call.rows[call.from + written + 1]).ts = clock
    BY <1>8 DEF RecordOf
  <1>10. file'[Len(file) + 1] = RecordOf(call.rows[call.from + written + 1])
    BY <1>5, <1>7
  <1>11. file'[Len(file) + 1] \in LogRecord
    BY <1>6, <1>7
  <1> QED
    BY <1>1, <1>2, <1>5, <1>7, <1>9, <1>10, <1>11

LEMMA WriteOrdered == ASSUME LogTypes, LogOrdered, Write PROVE LogOrdered'
  <1> DEFINE n == Len(file)
  <1>1. /\ n \in Nat /\ Len(file') = n + 1 /\ \A k \in 1..n : file'[k] = file[k]
        /\ file'[n + 1] \in LogRecord /\ file'[n + 1].ts = clock /\ clock \in Nat
        /\ pc = "write" /\ UNCHANGED <<pc, clock, pending, call>>
    BY WriteFacts DEF LogTypes, TypeOK
  <1>2. /\ \A k \in 1..n : file[k] # Torn /\ file[k].ts <= clock
        /\ \A j, k \in 1..n : j <= k /\ file[j] # Torn /\ file[k] # Torn => file[j].ts <= file[k].ts
    BY <1>1 DEF LogOrdered, Live
  <1> HIDE DEF n
  <1>3. file'[n + 1] # Torn
    BY <1>1, LogAssumption
  <1>4. \A k \in 1..(n + 1) : file'[k] # Torn /\ file'[k].ts <= clock
    BY <1>1, <1>2, <1>3
  <1>5. \A j, k \in 1..(n + 1) :
          j <= k /\ file'[j] # Torn /\ file'[k] # Torn => file'[j].ts <= file'[k].ts
    BY <1>1, <1>2, <1>4
  <1> QED
    BY <1>1, <1>4, <1>5 DEF LogOrdered, Live

LEMMA CrashOrdered == ASSUME LogTypes, LogOrdered, Crash PROVE LogOrdered'
  <1>1. pc' = "down"
    BY DEF Crash
  <1>2. PICK n \in 0..Len(file) :
          /\ \A k \in 1..n : file'[k] = file[k]
          /\ Len(file') = n \/ (Len(file') = n + 1 /\ file'[n + 1] = Torn)
    BY CrashLeaves
  <1>3. Len(file) \in Nat
    BY DEF LogTypes, TypeOK
  <1>4. \A j, k \in 1..Len(file') :
          j <= k /\ file'[j] # Torn /\ file'[k] # Torn => file'[j].ts <= file'[k].ts
    BY <1>2, <1>3 DEF LogOrdered
  <1> QED
    BY <1>1, <1>4 DEF LogOrdered, Live

LEMMA ReplayOrdered == ASSUME LogTypes, LogOrdered, Replay PROVE LogOrdered'
  <1>1. /\ at \in Nat /\ at' = at + 1 /\ file[at + 1] # Torn /\ clock' = file[at + 1].ts
        /\ UNCHANGED <<file, pc, pending, call>> /\ pc = "replay"
    BY ReplayFacts
  <1> QED
    BY <1>1 DEF LogOrdered, Live

LEMMA OpenOrdered == ASSUME LogTypes, LogOrdered, Open PROVE LogOrdered'
  <1>1. /\ Len(file') = at /\ at \in 0..Len(file) /\ \A k \in 1..at : file'[k] = file[k]
        /\ Len(file) \in Nat
    BY OpenFacts DEF LogTypes, TypeOK
  <1>2. pc = "replay" /\ pc' = "idle" /\ clock' = clock /\ pending' = pending
    BY DEF Open
  <1>3. /\ \A k \in 1..at : file[k] # Torn
        /\ clock = IF at = 0 THEN 0 ELSE file[at].ts
    BY <1>2 DEF LogOrdered
  <1>4. \A k \in 1..at : file'[k] # Torn /\ file'[k].ts <= clock
    BY <1>1, <1>3 DEF LogOrdered
  <1>5. pending' = << >>
    BY <1>2 DEF LogTypes, Unopened
  <1>6. \A j, k \in 1..Len(file') :
          j <= k /\ file'[j] # Torn /\ file'[k] # Torn => file'[j].ts <= file'[k].ts
    BY <1>1 DEF LogOrdered
  <1> QED
    BY <1>1, <1>2, <1>4, <1>5, <1>6 DEF LogOrdered, Live

\* Every step keeps the order, as long as no write failed.
LEMMA OrderedStep ==
  ASSUME LogTypes, LogOrdered, [Next]_vars, "write" \notin faulted'
  PROVE  LogOrdered'
  <1>1. CASE UNCHANGED vars
    BY <1>1 DEF vars, memory, disk, LogOrdered, Live
  <1>2. ASSUME BeginInsert \/ BeginDelete \/ BeginBatch \/ BeginChanges PROVE LogOrdered'
    <2>1. /\ pc = "idle" /\ pc' = "stage" /\ UNCHANGED <<file, pending>>
          /\ clock \in Nat /\ clock' \in Nat /\ clock <= clock'
      <3>1. clock \in Nat
        BY DEF LogTypes, TypeOK
      <3>2. \A ts \in Stamps : ts \in Nat /\ clock <= ts
        BY <3>1, StampType
      <3>3. clock' \in Stamps \/ clock' = clock + 1
        BY <1>2 DEF BeginInsert, BeginDelete, BeginBatch, BeginChanges, Begin
      <3>4. pc = "idle" /\ pc' = "stage" /\ UNCHANGED <<file, pending>>
        BY <1>2 DEF BeginInsert, BeginDelete, BeginBatch, BeginChanges, Begin, disk
      <3> QED
        BY <3>1, <3>2, <3>3, <3>4
    <2>2. \A k \in 1..Len(file) : file[k] # Torn => file[k].ts \in Nat
      <3>1. file \in Seq(LogRecord \cup {Torn})
        BY DEF LogTypes, TypeOK
      <3> QED
        BY <3>1, ElementOfSeq DEF LogRecord
    <2> QED
      BY <2>1, <2>2 DEF LogOrdered, Live
  <1>3. ASSUME Refuse \/ Apply \/ Commit \/ Vacuum PROVE LogOrdered'
    <2>1. UNCHANGED <<file, pending, clock>> /\ pc' # "write" /\ pc' # "replay" /\ Live /\ pc # "write"
      BY <1>3 DEF Refuse, Apply, Commit, Vacuum, EndCall, disk, Live
    <2> QED
      BY <2>1, OrderedKept
  <1>4. CASE Save
    BY <1>4 DEF Save, memory, LogOrdered, Live
  <1>5. CASE EndFlush
    BY <1>5 DEF EndFlush, LogOrdered, Live
  <1>6. CASE FailWrite
    BY <1>6 DEF FailWrite, Fault
  <1>7. CASE Start
    BY <1>7 DEF Start, LogTypes, Unopened, LogOrdered, Live, disk
  <1>8. CASE GiveUp
    BY <1>8 DEF GiveUp, LogOrdered, Live, disk
  <1> QED
    BY <1>1, <1>2, <1>3, <1>4, <1>5, <1>6, <1>7, <1>8, StageOrdered, WriteOrdered, CrashOrdered,
       ReplayOrdered, OpenOrdered
       DEF Next, Calls, Recovery

\* Faults are never forgotten.
LEMMA FaultsStay == ASSUME [Next]_vars PROVE faulted \subseteq faulted'
  <1>1. ASSUME BeginInsert \/ BeginDelete \/ BeginBatch \/ BeginChanges PROVE faulted' = faulted
    BY <1>1 DEF BeginInsert, BeginDelete, BeginBatch, BeginChanges, Begin, ghosts
  <1> QED
    BY <1>1 DEF Next, Calls, Recovery, Stage, Refuse, Write, EndFlush, FailWrite, Apply, Commit,
       Vacuum, Save, Crash, Start, Replay, GiveUp, Open, Fault, vars, ghosts

\* Replay meets no record older than the one before it.
LEMMA OrderedAccepted == ASSUME LogTypes, LogOrdered PROVE ReplayAccepted
  <1> SUFFICES ASSUME pc = "replay", Verifies(at + 1) PROVE file[at + 1].ts >= clock
    BY DEF ReplayAccepted
  <1>1. file \in Seq(LogRecord \cup {Torn}) /\ at \in Nat /\ Len(file) \in Nat
    BY DEF LogTypes, TypeOK
  <1>2. at + 1 \in 1..Len(file) /\ file[at + 1] # Torn
    BY <1>1, LenProperties DEF Verifies
  <1>3. file[at + 1] \in LogRecord
    BY <1>1, <1>2, ElementOfSeq
  <1>4. file[at + 1].ts \in Nat
    BY <1>3 DEF LogRecord
  <1>5. /\ \A k \in 1..at : file[k] # Torn
        /\ clock = IF at = 0 THEN 0 ELSE file[at].ts
    BY DEF LogOrdered
  <1>6. CASE at = 0
    BY <1>4, <1>5, <1>6
  <1>7. CASE at # 0
    <2>1. at \in 1..Len(file) /\ at + 1 \in 1..Len(file) /\ at <= at + 1 /\ file[at] # Torn
      BY <1>1, <1>2, <1>5, <1>7
    <2>2. file[at].ts <= file[at + 1].ts
      BY <1>2, <2>1 DEF LogOrdered
    <2>3. file[at].ts \in Nat
      <3>1. file[at] \in LogRecord
        BY <1>1, <2>1, ElementOfSeq
      <3> QED
        BY <3>1 DEF LogRecord
    <2> QED
      BY <1>4, <1>5, <1>7, <2>2, <2>3
  <1> QED
    BY <1>6, <1>7

\* The inductive invariant behind LogSound.
LogBase == LogTypes /\ Stamped /\ OneOpen(versions) /\ ("write" \notin faulted => LogOrdered)

\* It holds at first,
LEMMA BaseInit == Init => LogBase
  <1> SUFFICES ASSUME Init PROVE LogBase
    OBVIOUS
  <1>1. Len(<< >>) = 0
    BY EmptySeq
  <1>2. Stamped /\ OneOpen(versions) /\ LogOrdered
    BY <1>1, LogAssumption DEF Init, Stamped, OneOpen, LogOrdered, Live
  <1> QED
    BY <1>2, InitTypes DEF LogBase

\* and every step keeps it.
LEMMA BaseStep == LogBase /\ [Next]_vars => LogBase'
  <1> SUFFICES ASSUME LogBase, [Next]_vars PROVE LogBase'
    OBVIOUS
  <1>1. LogTypes' /\ Stamped' /\ OneOpen(versions')
    BY TypesStep, StampedStep, OneOpenStep DEF LogBase
  <1>2. ASSUME "write" \notin faulted' PROVE LogOrdered'
    BY <1>2, FaultsStay, OrderedStep DEF LogBase
  <1> QED
    BY <1>1, <1>2 DEF LogBase, OneOpen

\* Whatever crashes and fails, an id has at most one open version, and unless a
\* write failed replay accepts every record of the log.
THEOREM LogStaysSound == Spec => []LogSound
  <1>1. LogBase => LogSound
    BY OrderedAccepted DEF LogBase, LogSound, LogTypes, OneOpen, OneOpenVersion, AcceptedUntilFault
  <1> QED
    BY <1>1, BaseInit, BaseStep, PTL DEF Spec

-----------------------------------------------------------------------------
(* What survives a crash.                                                  *)

\* Payloads: the run of the process, the timestamp and the place of the row.
Vecs == Nat \X Nat \X Nat

\* A search as of ts finds payload x under an id.
Sees(vs, id, x, ts) == \E v \in vs : v.id = id /\ v.vec = x /\ v.begin <= ts /\ ts < v.end

\* Of the first n rows or records of r, one stamped up to ts is about the id.
Touches(r, n, id, ts) == \E k \in 1..n : r[k].id = id /\ r[k].ts <= ts

\* The last such row puts x there.
Writes(r, n, id, x, ts) ==
  \E k \in 1..n :
    /\ r[k].id = id /\ r[k].op = "insert" /\ r[k].vec = x /\ r[k].ts <= ts
    /\ \A j \in (k + 1)..n : ~(r[j].id = id /\ r[j].ts <= ts)

\* Every version began, and ended if it did, by ts.
Before(vs, ts) == \A v \in vs : v.begin <= ts /\ (v.end = MAX_TS \/ v.end <= ts)

-----------------------------------------------------------------------------
(* Versions: what a row does to what is seen.                              *)

\* The bounds are numbers, and the end of time is beyond them.
LEMMA LimitFacts == MaxClock \in Nat /\ MAX_TS \in Nat /\ MaxClock < MAX_TS
  BY LogAssumption

\* AsOf holds exactly what is seen.
LEMMA SeesAsOf ==
  ASSUME NEW vs \in SUBSET LogVersion, NEW ws \in SUBSET LogVersion, NEW ts \in Nat
  PROVE  AsOf(vs, ts) = AsOf(ws, ts) <=>
           \A id \in Ids, x \in Vecs : Sees(vs, id, x, ts) <=> Sees(ws, id, x, ts)
  <1>1. ASSUME NEW us \in SUBSET LogVersion, NEW id, NEW x
        PROVE  <<id, x>> \in AsOf(us, ts) <=> Sees(us, id, x, ts)
    BY DEF AsOf, Sees
  <1>2. ASSUME NEW us \in SUBSET LogVersion, NEW e \in AsOf(us, ts)
        PROVE  \E id \in Ids, x \in Vecs : e = <<id, x>>
    BY DEF AsOf, LogVersion, Vecs
  <1>3. ASSUME AsOf(vs, ts) = AsOf(ws, ts), NEW id \in Ids, NEW x \in Vecs
        PROVE  Sees(vs, id, x, ts) <=> Sees(ws, id, x, ts)
    BY <1>1, <1>3
  <1>4. ASSUME \A id \in Ids, x \in Vecs : Sees(vs, id, x, ts) <=> Sees(ws, id, x, ts)
        PROVE  AsOf(vs, ts) = AsOf(ws, ts)
    <2>1. ASSUME NEW id \in Ids, NEW x \in Vecs
          PROVE  <<id, x>> \in AsOf(vs, ts) <=> <<id, x>> \in AsOf(ws, ts)
      <3>1. <<id, x>> \in AsOf(vs, ts) <=> Sees(vs, id, x, ts)
        BY <1>1
      <3>2. <<id, x>> \in AsOf(ws, ts) <=> Sees(ws, id, x, ts)
        BY <1>1
      <3> QED
        BY <1>4, <3>1, <3>2
    <2>2. ASSUME NEW e \in AsOf(vs, ts) PROVE e \in AsOf(ws, ts)
      BY <1>2, <2>1
    <2>3. ASSUME NEW e \in AsOf(ws, ts) PROVE e \in AsOf(vs, ts)
      BY <1>2, <2>1
    <2> QED
      BY <2>2, <2>3
  <1> QED
    BY <1>3, <1>4

\* Closing an id hides it from the timestamp on.
LEMMA ClosedInSees ==
  ASSUME NEW vs \in SUBSET LogVersion, NEW b \in Nat, Before(vs, b),
         NEW t \in 0..MaxClock, b <= t, NEW id,
         NEW i, NEW x, NEW ts \in 0..MaxClock
  PROVE  Sees(ClosedIn(vs, id, t), i, x, ts) <=> Sees(vs, i, x, ts) /\ ~(i = id /\ t <= ts)
  <1> DEFINE Closed(v) == IF v.id = id /\ v.end = MAX_TS THEN [v EXCEPT !.end = t] ELSE v
  <1>1. ClosedIn(vs, id, t) = {Closed(v) : v \in vs}
    BY DEF ClosedIn
  <1>2. ASSUME NEW v \in vs
        PROVE  /\ Closed(v).id = v.id /\ Closed(v).vec = v.vec /\ Closed(v).begin = v.begin
               /\ Closed(v).end = IF v.id = id /\ v.end = MAX_TS THEN t ELSE v.end
    <2>1. /\ [v EXCEPT !.end = t].id = v.id /\ [v EXCEPT !.end = t].vec = v.vec
          /\ [v EXCEPT !.end = t].begin = v.begin /\ [v EXCEPT !.end = t].end = t
      BY DEF LogVersion
    <2> QED
      BY <2>1
  <1> HIDE DEF Closed
  <1>3. ASSUME NEW v \in vs
        PROVE  ts < Closed(v).end <=> ts < v.end /\ ~(v.id = id /\ t <= ts)
    <2>1. v.begin \in Nat /\ v.end \in Nat /\ (v.end = MAX_TS \/ v.end <= b)
      BY DEF LogVersion, Before
    <2> QED
      BY <1>2, <2>1, LimitFacts
  <1> QED
    BY <1>1, <1>2, <1>3 DEF Sees

\* Closing and placing at a later timestamp leave nothing beyond it.
LEMMA ClosedInBefore ==
  ASSUME NEW vs \in SUBSET LogVersion, NEW b \in Nat, Before(vs, b), NEW t \in Nat, b <= t, NEW id
  PROVE  Before(ClosedIn(vs, id, t), t)
  <1>1. SUFFICES ASSUME NEW v \in ClosedIn(vs, id, t)
                 PROVE  v.begin <= t /\ (v.end = MAX_TS \/ v.end <= t)
    BY DEF Before
  <1>2. PICK w \in vs : v = IF w.id = id /\ w.end = MAX_TS THEN [w EXCEPT !.end = t] ELSE w
    BY DEF ClosedIn
  <1>3. /\ w.begin \in Nat /\ w.end \in Nat
        /\ [w EXCEPT !.end = t].begin = w.begin /\ [w EXCEPT !.end = t].end = t
    BY DEF LogVersion
  <1>4. w.begin <= b /\ (w.end = MAX_TS \/ w.end <= b)
    BY DEF Before
  <1>5. v.begin = w.begin /\ (v.end = w.end \/ v.end = t)
    BY <1>2, <1>3
  <1> QED
    BY <1>3, <1>4, <1>5

LEMMA PutAllBefore ==
  ASSUME NEW vs \in SUBSET LogVersion, NEW b \in Nat, Before(vs, b), NEW c \in Nat, b <= c,
         NEW rows \in Seq(LogRow), \A k \in 1..Len(rows) : rows[k].ts <= c
  PROVE  Before(PutAll(vs, rows), c)
  <1>1. SUFFICES ASSUME NEW v \in PutAll(vs, rows)
                 PROVE  v.begin <= c /\ (v.end = MAX_TS \/ v.end <= c)
    BY DEF Before
  <1>2. \A w \in vs : /\ w.begin \in Nat /\ w.end \in Nat
                      /\ w.begin <= b /\ (w.end = MAX_TS \/ w.end <= b)
    BY DEF Before, LogVersion
  <1>3. CASE v \in vs
    BY <1>2, <1>3
  <1>4. ASSUME NEW w \in vs, w.end = MAX_TS, Followed(rows, w.id, 0),
               v = [w EXCEPT !.end = rows[1].ts]
        PROVE  v.begin <= c /\ v.end <= c
    <2>1. 1 \in 1..Len(rows) /\ rows[1].ts <= c
      BY <1>4 DEF Followed
    <2>2. v.begin = w.begin /\ v.end = rows[1].ts
      BY <1>4 DEF LogVersion
    <2> QED
      BY <1>2, <2>1, <2>2
  <1>5. ASSUME NEW k \in 1..Len(rows),
               v = [id |-> rows[k].id, begin |-> rows[k].ts, vec |-> rows[k].vec,
                    label |-> rows[k].label,
                    end |-> IF Followed(rows, rows[k].id, k) THEN rows[k].ts ELSE MAX_TS]
        PROVE  v.begin <= c /\ (v.end = MAX_TS \/ v.end <= c)
    BY <1>5
  <1> QED
    BY <1>3, <1>4, <1>5, InPutAll, ZenonT(60)

\* What is seen once a call's rows are put: from its timestamp on the last row of
\* each of its ids, else what was seen before.
LEMMA PutAllSees ==
  ASSUME NEW vs \in SUBSET LogVersion, NEW b \in Nat, Before(vs, b),
         NEW rows \in Seq(LogRow), NEW t \in 0..MaxClock, b <= t,
         \A k \in 1..Len(rows) : rows[k].ts = t,
         NEW i, NEW x, NEW ts \in 0..MaxClock
  PROVE  Sees(PutAll(vs, rows), i, x, ts) <=>
           \/ Writes(rows, Len(rows), i, x, ts)
           \/ Sees(vs, i, x, ts) /\ ~Touches(rows, Len(rows), i, ts)
  <1> DEFINE n == Len(rows)
             New(k) == [id |-> rows[k].id, begin |-> rows[k].ts, vec |-> rows[k].vec,
                        label |-> rows[k].label,
                        end |-> IF Followed(rows, rows[k].id, k) THEN rows[k].ts ELSE MAX_TS]
             Seen(v) == v.id = i /\ v.vec = x /\ v.begin <= ts /\ ts < v.end
  <1>1. n \in Nat /\ t \in Nat /\ ts \in Nat /\ ts < MAX_TS /\ t < MAX_TS
    BY LimitFacts
  <1>2. \A v \in vs : /\ v.begin \in Nat /\ v.end \in Nat
                      /\ v.begin <= b /\ (v.end = MAX_TS \/ v.end <= b)
    BY DEF Before, LogVersion
  <1>3. Touches(rows, n, i, ts) <=> Followed(rows, i, 0) /\ t <= ts
    BY <1>1 DEF Touches, Followed
  <1>4. ASSUME NEW k \in 1..n, rows[k].op = "insert"
        PROVE  Seen(New(k)) <=> /\ rows[k].id = i /\ rows[k].vec = x /\ rows[k].ts <= ts
                                /\ \A j \in (k + 1)..n : ~(rows[j].id = i /\ rows[j].ts <= ts)
    <2>1. \A j \in (k + 1)..n : rows[j].ts = t
      BY <1>1
    <2> QED
      BY <1>1, <2>1 DEF Followed
  <1>5. ASSUME NEW k \in 1..n, rows[k].op = "insert" PROVE New(k) \in PutAll(vs, rows)
    BY <1>5, InPutAll
  <1>6. ASSUME Writes(rows, n, i, x, ts) PROVE Sees(PutAll(vs, rows), i, x, ts)
    <2>1. PICK k \in 1..n : /\ rows[k].id = i /\ rows[k].op = "insert" /\ rows[k].vec = x /\ rows[k].ts <= ts
                            /\ \A j \in (k + 1)..n : ~(rows[j].id = i /\ rows[j].ts <= ts)
      BY <1>6 DEF Writes
    <2>2. Seen(New(k))
      BY <2>1, <1>4
    <2> HIDE DEF New
    <2> QED
      BY <2>1, <2>2, <1>5 DEF Sees
  <1>7. ASSUME NEW v \in vs, Seen(v), ~Touches(rows, n, i, ts)
        PROVE  Sees(PutAll(vs, rows), i, x, ts)
    <2>1. CASE v.end = MAX_TS /\ Followed(rows, v.id, 0)
      <3>1. [v EXCEPT !.end = rows[1].ts] \in PutAll(vs, rows)
        BY <2>1, InPutAll
      <3>2. 1 \in 1..n /\ rows[1].ts = t
        BY <2>1, <1>1 DEF Followed
      <3>3. ~(t <= ts)
        BY <1>3, <1>7, <2>1
      <3>4. LET w == [v EXCEPT !.end = rows[1].ts]
            IN w.id = v.id /\ w.vec = v.vec /\ w.begin = v.begin /\ w.end = rows[1].ts
        BY DEF LogVersion
      <3>5. Seen([v EXCEPT !.end = rows[1].ts])
        BY <1>1, <1>7, <3>2, <3>3, <3>4
      <3> QED
        BY <3>1, <3>5 DEF Sees
    <2>2. CASE ~(v.end = MAX_TS /\ Followed(rows, v.id, 0))
      <3>1. v \in PutAll(vs, rows)
        BY <2>2, InPutAll
      <3> QED
        BY <1>7, <3>1 DEF Sees
    <2> QED
      BY <2>1, <2>2
  <1>8. ASSUME NEW v \in PutAll(vs, rows), Seen(v)
        PROVE  \/ Writes(rows, n, i, x, ts)
               \/ Sees(vs, i, x, ts) /\ ~Touches(rows, n, i, ts)
    <2>1. CASE v \in vs /\ ~(v.end = MAX_TS /\ Followed(rows, v.id, 0))
      <3>1. ~Touches(rows, n, i, ts)
        <4>1. v.end = MAX_TS \/ v.end <= b
          BY <1>2, <2>1
        <4> QED
          BY <1>1, <1>2, <1>3, <1>8, <2>1, <4>1
      <3> QED
        BY <1>8, <2>1, <3>1 DEF Sees
    <2>2. ASSUME NEW w \in vs, w.end = MAX_TS, Followed(rows, w.id, 0),
                 v = [w EXCEPT !.end = rows[1].ts]
          PROVE  Sees(vs, i, x, ts) /\ ~Touches(rows, n, i, ts)
      <3>1. 1 \in 1..n /\ rows[1].ts = t
        BY <2>2, <1>1 DEF Followed
      <3>2. v.id = w.id /\ v.vec = w.vec /\ v.begin = w.begin /\ v.end = rows[1].ts
        BY <2>2 DEF LogVersion
      <3>3. Seen(w) /\ ~(t <= ts)
        BY <1>1, <1>8, <2>2, <3>1, <3>2
      <3> QED
        BY <1>3, <3>3 DEF Sees
    <2>3. ASSUME NEW k \in 1..n, rows[k].op = "insert", v = New(k)
          PROVE  Writes(rows, n, i, x, ts)
      BY <1>4, <1>8, <2>3 DEF Writes
    <2>4. \/ v \in vs /\ ~(v.end = MAX_TS /\ Followed(rows, v.id, 0))
          \/ \E w \in vs : /\ w.end = MAX_TS /\ Followed(rows, w.id, 0)
                           /\ v = [w EXCEPT !.end = rows[1].ts]
          \/ \E k \in 1..n : rows[k].op = "insert" /\ v = New(k)
      BY <1>8, InPutAll
    <2> HIDE DEF New
    <2> QED
      BY <2>1, <2>2, <2>3, <2>4
  <1> HIDE DEF New
  <1>9. ASSUME Sees(PutAll(vs, rows), i, x, ts) PROVE \E v \in PutAll(vs, rows) : Seen(v)
    BY <1>9 DEF Sees
  <1>10. ASSUME Sees(vs, i, x, ts) PROVE \E v \in vs : Seen(v)
    BY <1>10 DEF Sees
  <1> HIDE DEF Seen
  <1> QED
    BY <1>6, <1>7, <1>8, <1>9, <1>10

-----------------------------------------------------------------------------
(* Rows and records, one after the other.                                  *)

\* A row and a record of it, or a row of a part and the same row of the whole.
Alike(a, b) == a.id = b.id /\ a.op = b.op /\ a.vec = b.vec /\ a.ts = b.ts

\* The first m + n rows touch an id if the first m do or the n behind them.
LEMMA TouchesSplit ==
  ASSUME NEW r, NEW q, NEW m \in Nat, NEW n \in Nat, \A k \in 1..n : Alike(r[m + k], q[k]),
         NEW i, NEW ts
  PROVE  Touches(r, m + n, i, ts) <=> Touches(r, m, i, ts) \/ Touches(q, n, i, ts)
  <1>1. ASSUME NEW k \in 1..(m + n), r[k].id = i, r[k].ts <= ts, k > m
        PROVE  Touches(q, n, i, ts)
    <2>1. k - m \in 1..n /\ m + (k - m) = k
      BY <1>1
    <2>2. Alike(r[k], q[k - m])
      BY <2>1
    <2> QED
      BY <1>1, <2>1, <2>2 DEF Touches, Alike
  <1>2. ASSUME NEW k \in 1..n, q[k].id = i, q[k].ts <= ts
        PROVE  Touches(r, m + n, i, ts)
    <2>1. m + k \in 1..(m + n) /\ Alike(r[m + k], q[k])
      OBVIOUS
    <2> QED
      BY <1>2, <2>1 DEF Touches, Alike
  <1>3. \A k \in 1..m : k \in 1..(m + n)
    OBVIOUS
  <1>4. \A k \in 1..(m + n) : k \in 1..m \/ k > m
    OBVIOUS
  <1> QED
    BY <1>1, <1>2, <1>3, <1>4 DEF Touches

\* The last of the first m + n rows that touches an id is one of the n if any of
\* them does, else one of the m.
LEMMA WritesSplit ==
  ASSUME NEW r, NEW q, NEW m \in Nat, NEW n \in Nat, \A k \in 1..n : Alike(r[m + k], q[k]),
         NEW i, NEW x, NEW ts
  PROVE  Writes(r, m + n, i, x, ts) <=>
           \/ Writes(q, n, i, x, ts)
           \/ Writes(r, m, i, x, ts) /\ ~Touches(q, n, i, ts)
  <1> DEFINE At(p, k) == p[k].id = i /\ p[k].ts <= ts
             Put1(p, k) == p[k].op = "insert" /\ p[k].vec = x
  <1>1. ASSUME NEW k \in 1..n
        PROVE  (At(r, m + k) <=> At(q, k)) /\ (Put1(r, m + k) <=> Put1(q, k))
    BY DEF Alike
  <1>2. \A p, c : Writes(p, c, i, x, ts) <=>
           \E k \in 1..c : At(p, k) /\ Put1(p, k) /\ \A j \in (k + 1)..c : ~At(p, j)
    BY DEF Writes
  <1>3. \A p, c : Touches(p, c, i, ts) <=> \E k \in 1..c : At(p, k)
    BY DEF Touches
  <1> HIDE DEF At, Put1
  <1>4. ASSUME NEW k \in 1..(m + n), At(r, k), Put1(r, k),
               \A j \in (k + 1)..(m + n) : ~At(r, j)
        PROVE  \/ Writes(q, n, i, x, ts)
               \/ Writes(r, m, i, x, ts) /\ ~Touches(q, n, i, ts)
    <2>1. CASE k > m
      <3>1. k - m \in 1..n /\ m + (k - m) = k
        BY <2>1
      <3>2. At(q, k - m) /\ Put1(q, k - m)
        BY <1>1, <1>4, <3>1
      <3>3. ASSUME NEW j \in (k - m + 1)..n PROVE ~At(q, j)
        <4>1. m + j \in (k + 1)..(m + n) /\ j \in 1..n
          BY <3>1
        <4> QED
          BY <1>1, <1>4, <4>1
      <3> QED
        BY <1>2, <3>1, <3>2, <3>3
    <2>2. CASE k <= m
      <3>1. k \in 1..m /\ \A j \in (k + 1)..m : j \in (k + 1)..(m + n)
        BY <2>2
      <3>2. Writes(r, m, i, x, ts)
        BY <1>2, <1>4, <3>1
      <3>3. ASSUME NEW j \in 1..n PROVE ~At(q, j)
        <4>1. m + j \in (k + 1)..(m + n)
          BY <2>2
        <4> QED
          BY <1>1, <1>4, <4>1
      <3> QED
        BY <1>3, <3>2, <3>3
    <2> QED
      BY <2>1, <2>2
  <1>5. ASSUME Writes(q, n, i, x, ts) PROVE Writes(r, m + n, i, x, ts)
    <2>1. PICK k \in 1..n : At(q, k) /\ Put1(q, k) /\ \A j \in (k + 1)..n : ~At(q, j)
      BY <1>2, <1>5
    <2>2. m + k \in 1..(m + n) /\ At(r, m + k) /\ Put1(r, m + k)
      BY <1>1, <2>1
    <2>3. ASSUME NEW j \in (m + k + 1)..(m + n) PROVE ~At(r, j)
      <3>1. j - m \in (k + 1)..n /\ j - m \in 1..n /\ m + (j - m) = j
        OBVIOUS
      <3> QED
        BY <1>1, <2>1, <3>1
    <2> QED
      BY <1>2, <2>2, <2>3
  <1>6. ASSUME Writes(r, m, i, x, ts), ~Touches(q, n, i, ts) PROVE Writes(r, m + n, i, x, ts)
    <2>1. PICK k \in 1..m : At(r, k) /\ Put1(r, k) /\ \A j \in (k + 1)..m : ~At(r, j)
      BY <1>2, <1>6
    <2>2. ASSUME NEW j \in (k + 1)..(m + n) PROVE ~At(r, j)
      <3>1. CASE j > m
        <4>1. j - m \in 1..n /\ m + (j - m) = j
          BY <3>1
        <4> QED
          BY <1>1, <1>3, <1>6, <4>1
      <3>2. CASE j <= m
        BY <2>1, <3>2
      <3> QED
        BY <3>1, <3>2
    <2>3. k \in 1..(m + n)
      OBVIOUS
    <2> QED
      BY <1>2, <2>1, <2>2, <2>3
  <1>7. ASSUME Writes(r, m + n, i, x, ts)
        PROVE  \E k \in 1..(m + n) : /\ At(r, k) /\ Put1(r, k)
                                     /\ \A j \in (k + 1)..(m + n) : ~At(r, j)
    BY <1>2, <1>7
  <1> QED
    BY <1>4, <1>5, <1>6, <1>7

\* No rows write or touch anything.
LEMMA NoRows == \A r, i, x, ts : ~Writes(r, 0, i, x, ts) /\ ~Touches(r, 0, i, ts)
  BY DEF Writes, Touches

\* Two sequences that are alike as far as n.
LEMMA WritesAlike ==
  ASSUME NEW r, NEW q, NEW n \in Nat, \A k \in 1..n : Alike(r[k], q[k]), NEW i, NEW x, NEW ts
  PROVE  /\ Writes(r, n, i, x, ts) <=> Writes(q, n, i, x, ts)
         /\ Touches(r, n, i, ts) <=> Touches(q, n, i, ts)
  <1>1. \A k \in 1..n : Alike(r[0 + k], q[k])
    OBVIOUS
  <1>2. 0 + n = n /\ 0 \in Nat
    OBVIOUS
  <1>3. Writes(r, 0 + n, i, x, ts) <=>
           \/ Writes(q, n, i, x, ts)
           \/ Writes(r, 0, i, x, ts) /\ ~Touches(q, n, i, ts)
    BY <1>1, <1>2, WritesSplit
  <1>4. Touches(r, 0 + n, i, ts) <=> Touches(r, 0, i, ts) \/ Touches(q, n, i, ts)
    BY <1>1, <1>2, TouchesSplit
  <1> QED
    BY <1>2, <1>3, <1>4, NoRows

\* What is seen once one row is put.
LEMMA PutSees ==
  ASSUME NEW vs \in SUBSET LogVersion, NEW b \in Nat, Before(vs, b), NEW row \in LogRow,
         row.ts <= MaxClock, b <= row.ts, NEW i, NEW x, NEW ts \in 0..MaxClock
  PROVE  Sees(Put(vs, row), i, x, ts) <=>
           \/ row.id = i /\ row.op = "insert" /\ row.vec = x /\ row.ts <= ts
           \/ Sees(vs, i, x, ts) /\ ~(row.id = i /\ row.ts <= ts)
  <1> DEFINE old == ClosedIn(vs, row.id, row.ts)
             new == [id |-> row.id, begin |-> row.ts, end |-> MAX_TS, vec |-> row.vec,
                     label |-> row.label]
  <1>1. row.ts \in 0..MaxClock /\ ts < MAX_TS /\ row.op \in {"insert", "delete"}
    BY LimitFacts DEF LogRow
  <1>2. Sees(old, i, x, ts) <=> Sees(vs, i, x, ts) /\ ~(i = row.id /\ row.ts <= ts)
    BY <1>1, ClosedInSees
  <1>3. Put(vs, row) = old \cup IF row.op = "insert" THEN {new} ELSE {}
    BY <1>1 DEF Put
  <1>4. /\ new.id = row.id /\ new.vec = row.vec /\ new.begin = row.ts /\ new.end = MAX_TS
    OBVIOUS
  <1> HIDE DEF old, new
  <1>5. Sees(Put(vs, row), i, x, ts) <=>
           \/ Sees(old, i, x, ts)
           \/ row.op = "insert" /\ new.id = i /\ new.vec = x /\ new.begin <= ts /\ ts < new.end
    BY <1>3 DEF Sees
  <1> QED
    BY <1>1, <1>2, <1>4, <1>5

\* One row put leaves nothing beyond its timestamp.
LEMMA PutBefore ==
  ASSUME NEW vs \in SUBSET LogVersion, NEW b \in Nat, Before(vs, b), NEW row \in LogRow, b <= row.ts
  PROVE  Before(Put(vs, row), row.ts)
  <1>1. row.ts \in Nat
    BY DEF LogRow
  <1>2. Before(ClosedIn(vs, row.id, row.ts), row.ts)
    BY <1>1, ClosedInBefore
  <1> QED
    BY <1>1, <1>2 DEF Put, Before

-----------------------------------------------------------------------------
(* A checkpoint is faithful: between calls every version began, and ended  *)
(* if it did, by the committed timestamp, so loading the clock in its      *)
(* place shows nothing more.  A failed call is what can undo that.         *)

\* How many rows of the call are in the pages, and the rows whose ids' old
\* versions are closed: a single insert closes first.
Applied == IF pc \in {"write", "apply"} THEN call.from ELSE call.taken
Ended == IF call.kind = "insert" THEN 1 ELSE Applied

\* Nothing in memory is later than what is committed, but for what the call in
\* progress did; during replay everything is committed.
Trailing ==
  /\ Live =>
       /\ committed <= clock
       /\ Before(versions, IF Ended = 0 THEN committed ELSE clock)
  /\ pc = "replay" => committed = clock /\ Before(versions, clock)

\* What ends by a bound ends by a later one.
LEMMA BeforeLater ==
  ASSUME NEW vs \in SUBSET LogVersion, NEW b \in Nat, NEW c \in Nat, Before(vs, b), b <= c
  PROVE  Before(vs, c)
  <1>1. \A v \in vs : v.begin \in Nat /\ v.end \in Nat
    BY DEF LogVersion
  <1> QED
    BY <1>1 DEF Before

\* Types for Trailing.
LEMMA TrailFacts ==
  ASSUME LogTypes
  PROVE  /\ versions \in SUBSET LogVersion /\ promised \in SUBSET LogVersion
         /\ clock \in Nat /\ committed \in Nat /\ horizon \in Nat
         /\ call.from \in Nat /\ call.taken \in Nat /\ call.from <= call.taken
         /\ call.rows \in Seq(LogRow) /\ Len(call.rows) \in Nat /\ call.taken <= Len(call.rows)
         /\ call.ts \in Nat /\ call.ts <= MaxClock
         /\ \A k \in 1..Len(call.rows) : call.rows[k].ts = call.ts
  BY DEF LogTypes, TypeOK, CallOK

\* A call that ended left nothing of itself in the counts.
LEMMA NoCallApplied == call = NoCall => Applied = 0 /\ Ended = 0 /\ call.from = 0 /\ call.taken = 0
                                       /\ Len(call.rows) = 0
  BY NoCallOK DEF NoCall, Applied, Ended

\* What the four ways to begin a call have in common.
LEMMA BeginFacts ==
  ASSUME LogTypes, BeginInsert \/ BeginDelete \/ BeginBatch \/ BeginChanges
  PROVE  /\ pc = "idle" /\ pc' = "stage" /\ call = NoCall
         /\ call'.from = 0 /\ call'.taken = 0 /\ call'.kind \in Kinds \ {"none"}
         /\ clock < clock' /\ clock' \in Nat /\ clock' <= MaxClock
         /\ UNCHANGED <<committed, pending, written, at, disk, ghosts>>
         /\ \/ call'.kind # "insert" /\ versions' = versions
            \/ /\ call'.kind = "insert" /\ Len(call'.rows) = 1
               /\ call'.rows[1].ts = clock' /\ call'.rows[1].op = "insert"
               /\ versions' = ClosedIn(versions, call'.rows[1].id, clock')
  <1>1. clock \in Nat /\ MaxClock \in Nat /\ crashes \in Nat
    BY LogAssumption DEF LogTypes, TypeOK
  <1>2. pc = "idle" /\ pc' = "stage" /\ UNCHANGED <<committed, pending, written, at, disk, ghosts>>
    BY DEF BeginInsert, BeginDelete, BeginBatch, BeginChanges, Begin
  <1>3. call = NoCall
    BY <1>2 DEF LogTypes, CallPlaced, InCall
  <1>4. clock < clock' /\ clock' \in Nat /\ clock' <= MaxClock
    <2>1. clock' \in Stamps \/ (clock < MaxClock /\ clock' = clock + 1)
      BY DEF BeginInsert, BeginDelete, BeginBatch, BeginChanges, Begin
    <2> QED
      BY <1>1, <2>1, StampType
  <1>5. CASE BeginInsert
    <2>1. PICK id \in Ids, label \in Labels, ts \in Stamps :
            /\ Begin("insert", ts, <<Row("insert", id, label, ts, 1)>>)
            /\ versions' = ClosedIn(versions, id, ts)
      BY <1>5 DEF BeginInsert
    <2> DEFINE row == Row("insert", id, label, ts, 1)
    <2>2. row.id = id /\ row.ts = ts /\ row.op = "insert"
      BY DEF Row
    <2>3. clock' = ts
      BY <2>1 DEF Begin
    <2>4. call' = [kind |-> "insert", ts |-> ts, rows |-> <<row>>, from |-> 0, taken |-> 0]
      BY <2>1, BeginInsertTypes
    <2> HIDE DEF row
    <2>5. /\ call'.from = 0 /\ call'.taken = 0 /\ call'.kind = "insert" /\ call'.rows = <<row>>
      BY <2>4
    <2>6. Len(call'.rows) = 1 /\ call'.rows[1] = row
      BY <2>5
    <2> QED
      BY <1>2, <1>3, <1>4, <2>1, <2>2, <2>3, <2>5, <2>6 DEF Kinds
  <1>6. CASE BeginDelete
    <2>1. PICK id \in Ids, ts \in Stamps :
            Begin("delete", ts, <<Row("delete", id, 0, ts, 1)>>) /\ UNCHANGED versions
      BY <1>6 DEF BeginDelete
    <2> DEFINE row == Row("delete", id, 0, ts, 1)
    <2>4. call' = [kind |-> "delete", ts |-> ts, rows |-> <<row>>, from |-> 0, taken |-> 0]
      BY <2>1, BeginDeleteTypes
    <2> HIDE DEF row
    <2>5. /\ call'.from = 0 /\ call'.taken = 0 /\ call'.kind = "delete"
      BY <2>4
    <2> QED
      BY <1>2, <1>3, <1>4, <2>1, <2>5 DEF Kinds
  <1>7. CASE BeginBatch
    <2>1. clock < MaxClock /\ UNCHANGED versions
      BY <1>7 DEF BeginBatch
    <2>2. PICK n \in 1..MaxBatch : \E ids \in [1..n -> Ids], labels \in [1..n -> Labels] :
            Begin("batch", clock + 1,
                  [k \in 1..n |-> Row("insert", ids[k], labels[k], clock + 1, k)])
      BY <1>7 DEF BeginBatch
    <2>3. PICK ids \in [1..n -> Ids], labels \in [1..n -> Labels] :
          call' = [kind |-> "batch", ts |-> clock + 1, from |-> 0, taken |-> 0,
                   rows |-> [k \in 1..n |-> Row("insert", ids[k], labels[k], clock + 1, k)]]
      BY <2>1, <2>2, BeginBatchTypes
    <2>4. call'.from = 0 /\ call'.taken = 0 /\ call'.kind = "batch"
      BY <2>3
    <2> QED
      BY <1>2, <1>3, <1>4, <2>1, <2>4 DEF Kinds
  <1>8. CASE BeginChanges
    <2>1. clock < MaxClock /\ UNCHANGED versions
      BY <1>8 DEF BeginChanges
    <2>2. PICK n \in 1..MaxBatch : \E ids \in [1..n -> Ids], deletes \in 0..n :
            Begin("changes", clock + 1,
                  [k \in 1..n |-> Row(IF k <= deletes THEN "delete" ELSE "insert",
                                      ids[k], 0, clock + 1, k)])
      BY <1>8 DEF BeginChanges
    <2>3. PICK ids \in [1..n -> Ids], deletes \in 0..n :
          call' = [kind |-> "changes", ts |-> clock + 1, from |-> 0, taken |-> 0,
                   rows |-> [k \in 1..n |-> Row(IF k <= deletes THEN "delete" ELSE "insert",
                                                ids[k], 0, clock + 1, k)]]
      BY <2>1, <2>2, BeginChangesTypes
    <2>4. call'.from = 0 /\ call'.taken = 0 /\ call'.kind = "changes"
      BY <2>3
    <2> QED
      BY <1>2, <1>3, <1>4, <2>1, <2>4 DEF Kinds
  <1> QED
    BY <1>5, <1>6, <1>7, <1>8

\* What Apply does to a call and its rows.
LEMMA ApplyFacts ==
  ASSUME LogTypes, Apply
  PROVE  /\ pc = "apply" /\ Applied = call.from
         /\ UNCHANGED <<clock, committed, pending, written, at, disk, ghosts>>
         /\ \/ /\ call.kind = "delete" /\ ~HasOpen(versions, call.rows[1].id)
               /\ Len(call.rows) = 1 /\ call.rows[1].op = "delete"
               /\ call.from = 0 /\ call.taken = 1 /\ Ended = 0
               /\ pc' = "idle" /\ call' = NoCall /\ versions' = versions
            \/ /\ versions' = PutAll(versions, Block) /\ call' = call
               /\ pc' \in {"stage", "commit"} /\ Applied' = call.taken
               /\ Ended' = IF call.kind = "insert" THEN 1 ELSE call.taken
  <1>1. /\ pc = "apply" /\ Applied = call.from
        /\ UNCHANGED <<clock, committed, pending, written, at, disk, ghosts>>
    BY DEF Apply, Applied
  <1>2. CASE call.kind = "delete" /\ ~HasOpen(versions, call.rows[1].id)
    <2>1. /\ Len(call.rows) = 1 /\ call.rows[1].op = "delete" /\ call.from < call.taken
      BY <1>1, <1>2 DEF LogTypes, CallPlaced
    <2>2. call.from = 0 /\ call.taken = 1
      BY <2>1, TrailFacts
    <2>3. pc' = "idle" /\ call' = NoCall /\ versions' = versions
      BY <1>2 DEF Apply, EndCall
    <2>4. Ended = 0
      BY <1>1, <1>2, <2>2 DEF Ended
    <2> QED
      BY <1>1, <1>2, <2>1, <2>2, <2>3, <2>4
  <1>3. CASE ~(call.kind = "delete" /\ ~HasOpen(versions, call.rows[1].id))
    <2>1. /\ versions' = PutAll(versions, Block) /\ call' = call
          /\ pc' \in {"stage", "commit"}
      BY <1>3 DEF Apply
    <2> QED
      BY <1>1, <2>1 DEF Applied, Ended
  <1> QED
    BY <1>2, <1>3

\* The rows of a block have the call's timestamp.
LEMMA BlockStamps ==
  ASSUME LogTypes, pc = "apply"
  PROVE  \A k \in 1..Len(Block) : Block[k].ts = clock
  <1> SUFFICES ASSUME NEW k \in 1..Len(Block) PROVE Block[k].ts = clock
    OBVIOUS
  <1>1. Block[k] = call.rows[call.from + k] /\ k \in 1..(call.taken - call.from)
    BY BlockFacts
  <1>2. call.from + k \in 1..Len(call.rows)
    <2>1. /\ call.from \in Nat /\ call.taken \in Nat /\ Len(call.rows) \in Nat
          /\ call.from <= call.taken /\ call.taken <= Len(call.rows)
      BY TrailFacts
    <2> QED
      BY <1>1, <2>1
  <1>3. call.ts = clock
    BY DEF LogTypes, CallPlaced, InCall
  <1> QED
    BY <1>1, <1>2, <1>3, TrailFacts

\* Steps that move the clock or the versions keep Trailing.
LEMMA BeginTrailing ==
  ASSUME LogTypes, Trailing, BeginInsert \/ BeginDelete \/ BeginBatch \/ BeginChanges
  PROVE  Trailing'
  <1>1. /\ pc = "idle" /\ pc' = "stage" /\ call = NoCall /\ call'.from = 0 /\ call'.taken = 0
        /\ clock < clock' /\ clock' \in Nat /\ committed' = committed
    BY BeginFacts
  <1>2. committed <= clock /\ Before(versions, committed)
    BY <1>1, NoCallApplied DEF Trailing, Live
  <1>3. CASE call'.kind # "insert" /\ versions' = versions
    <2>1. Ended' = 0
      BY <1>1, <1>3 DEF Ended, Applied
    <2> QED
      BY <1>1, <1>2, <1>3, <2>1, TrailFacts DEF Trailing, Live, Before
  <1>4. CASE call'.kind = "insert" /\ versions' = ClosedIn(versions, call'.rows[1].id, clock')
    <2>1. Ended' = 1
      BY <1>4 DEF Ended
    <2>2. Before(versions', clock')
      BY <1>1, <1>2, <1>4, TrailFacts, ClosedInBefore
    <2> QED
      BY <1>1, <1>2, <2>1, <2>2, TrailFacts DEF Trailing, Live, Before
  <1> QED
    BY <1>3, <1>4, BeginFacts

LEMMA ApplyTrailing == ASSUME LogTypes, Trailing, Apply PROVE Trailing'
  <1>1. /\ pc = "apply" /\ clock' = clock /\ committed' = committed /\ committed <= clock
        /\ Before(versions, IF Ended = 0 THEN committed ELSE clock)
    BY ApplyFacts DEF Trailing, Live
  <1>2. CASE Ended = 0 /\ pc' = "idle" /\ call' = NoCall /\ versions' = versions
    <2>1. Ended' = 0
      BY <1>2, NoCallOK DEF Ended, Applied, NoCall
    <2> QED
      BY <1>1, <1>2, <2>1 DEF Trailing, Live, Before
  <1>3. CASE versions' = PutAll(versions, Block) /\ pc' \in {"stage", "commit"}
             /\ Ended' = IF call.kind = "insert" THEN 1 ELSE call.taken
    <2>1. Ended' # 0
      BY <1>1, <1>3, TrailFacts DEF LogTypes, CallPlaced
    <2>2. Before(versions, clock)
      BY <1>1, TrailFacts, BeforeLater
    <2>3. \A k \in 1..Len(Block) : Block[k].ts <= clock
      BY <1>1, BlockStamps, TrailFacts
    <2>4. Before(versions', clock)
      BY <1>1, <1>3, <2>2, <2>3, TrailFacts, BlockFacts, PutAllBefore
    <2> QED
      BY <1>1, <1>3, <2>1, <2>4 DEF Trailing, Live, Before
  <1> QED
    BY <1>2, <1>3, ApplyFacts

LEMMA ReplayTrailing == ASSUME LogTypes, Trailing, Replay PROVE Trailing'
  <1>1. /\ Before(versions, clock) /\ clock' = file[at + 1].ts /\ committed' = file[at + 1].ts
        /\ file[at + 1].ts >= clock /\ RowOf(file[at + 1]) \in LogRow
        /\ versions' = Put(versions, RowOf(file[at + 1])) /\ pc = "replay" /\ pc' = pc
    BY ReplayFacts DEF Trailing
  <1>2. RowOf(file[at + 1]).ts = file[at + 1].ts
    BY DEF RowOf
  <1>3. Before(versions', clock')
    BY <1>1, <1>2, TrailFacts, PutBefore
  <1> QED
    BY <1>1, <1>3 DEF Trailing, Live, Before

\* Every step keeps it.
LEMMA TrailingStep ==
  ASSUME LogTypes, Trailing, [Next]_vars, faulted' = {} PROVE Trailing'
  <1>1. ASSUME UNCHANGED <<versions, clock, committed>>, Live => Live', Live' => Live,
               pc' = "replay" => pc = "replay", Live => Ended' = Ended
        PROVE  Trailing'
    BY <1>1 DEF Trailing, Before
  <1>2. CASE Stage
    <2>1. Ended' = Ended
      BY <1>2 DEF Stage, Ended, Applied, LogTypes, CallOK
    <2> QED
      BY <1>1, <1>2, <2>1 DEF Stage, Live
  <1>3. CASE Write \/ EndFlush
    <2>1. Ended' = Ended
      BY <1>3 DEF Write, EndFlush, Ended, Applied
    <2> QED
      BY <1>1, <1>3, <2>1 DEF Write, EndFlush, Live
  <1>4. CASE Save
    <2>1. Ended' = Ended
      BY <1>4 DEF Save, memory, Ended, Applied
    <2> QED
      BY <1>1, <1>4, <2>1 DEF Save, memory, Live
  <1>5. CASE Commit
    <2>1. pc = "commit" /\ pc' = "idle" /\ call' = NoCall /\ committed' = call.ts
          /\ UNCHANGED <<versions, clock>>
      BY <1>5 DEF Commit, EndCall
    <2>2. call.ts = clock
      BY <2>1 DEF LogTypes, CallPlaced, InCall
    <2>3. Before(versions, clock)
      BY <2>1, TrailFacts, BeforeLater DEF Trailing, Live
    <2>4. Ended' = 0
      BY <2>1, NoCallOK DEF Ended, Applied, NoCall
    <2> QED
      BY <2>1, <2>2, <2>3, <2>4, TrailFacts DEF Trailing, Live, Before
  <1>6. CASE Vacuum
    <2>1. versions' \subseteq versions /\ UNCHANGED <<clock, committed, pc, call>>
      BY <1>6 DEF Vacuum
    <2>2. Ended' = Ended
      BY <2>1 DEF Ended, Applied
    <2> QED
      BY <2>1, <2>2 DEF Trailing, Live, Before
  <1>7. ASSUME Crash \/ GiveUp PROVE Trailing'
    BY <1>7 DEF Crash, GiveUp, Trailing, Live
  <1>8. CASE Start
    <2>1. pc' = "replay" /\ versions' = {} /\ clock' = 0 /\ committed' = 0
      BY <1>8 DEF Start, LogTypes, Unopened
    <2> QED
      BY <2>1 DEF Trailing, Live, Before
  <1>9. CASE Open
    <2>1. /\ pc = "replay" /\ pc' = "idle" /\ UNCHANGED <<versions, clock, committed, call>>
      BY <1>9 DEF Open
    <2>2. call = NoCall
      BY <2>1 DEF LogTypes, CallPlaced, InCall
    <2>3. Ended' = 0
      BY <2>1, <2>2, NoCallOK DEF Ended, Applied, NoCall
    <2> QED
      BY <2>1, <2>3, TrailFacts DEF Trailing, Live, Before
  <1>10. ASSUME Refuse \/ FailWrite PROVE FALSE
    BY <1>10 DEF Refuse, FailWrite, Fault
  <1>11. CASE UNCHANGED vars
    BY <1>11 DEF vars, memory, Trailing, Live, Ended, Applied, Before
  <1> QED
    BY <1>2, <1>3, <1>4, <1>5, <1>6, <1>7, <1>8, <1>9, <1>10, <1>11, BeginTrailing,
       ApplyTrailing, ReplayTrailing
       DEF Next, Calls, Recovery

\* What Save writes is faithful.
LEMMA SaveFaithful == ASSUME LogBase, Trailing, Save PROVE CheckpointFaithful'
  <1>1. /\ saved' = [versions |-> versions, clock |-> clock, committed |-> committed]
        /\ pc = "idle"
    BY DEF Save, Quiet
  <1>2. saved'.versions = versions /\ saved'.clock = clock /\ saved'.committed = committed
    BY <1>1
  <1>3. LogTypes /\ call = NoCall
    BY <1>1 DEF LogBase, LogTypes, CallPlaced, InCall
  <1>4. /\ committed <= clock /\ Before(versions, committed)
        /\ versions \in SUBSET LogVersion /\ clock \in Nat /\ committed \in Nat
    BY <1>1, <1>3, NoCallApplied, TrailFacts DEF Trailing, Live
  <1>5. clock < MAX_TS
    BY <1>4, LimitFacts DEF LogBase, Stamped
  <1>6. SUFFICES ASSUME NEW ts \in 0..clock
                 PROVE  AsOf(versions, ts) = AsOf(versions, Smaller(ts, committed))
    BY <1>2 DEF CheckpointFaithful, LoadedClock, LoadedAnswer
  <1>7. CASE ts <= committed
    <2>1. Smaller(ts, committed) = ts
      BY <1>4, <1>7 DEF Smaller
    <2> QED
      BY <2>1
  <1>8. CASE ts > committed
    <2>1. Smaller(ts, committed) = committed
      BY <1>4, <1>8 DEF Smaller
    <2>2. \A v \in versions : v.begin \in Nat /\ v.end \in Nat
      BY <1>4 DEF LogVersion
    <2>3. \A v \in versions : v.begin <= ts /\ ts < v.end <=> v.begin <= committed /\ committed < v.end
      BY <1>4, <1>5, <1>8, <2>2, LimitFacts DEF Before
    <2>4. {w \in versions : w.begin <= ts /\ ts < w.end}
            = {w \in versions : w.begin <= committed /\ committed < w.end}
      BY <2>3
    <2> QED
      BY <2>1, <2>4 DEF AsOf
  <1> QED
    BY <1>4, <1>7, <1>8

\* The inductive invariant behind FaithfulUntilFault,
FaithBase == LogBase /\ (faulted = {} => Trailing /\ CheckpointFaithful)

\* which every step keeps.
LEMMA FaithStep == FaithBase /\ [Next]_vars => FaithBase'
  <1> SUFFICES ASSUME FaithBase, [Next]_vars PROVE FaithBase'
    OBVIOUS
  <1>1. LogBase'
    BY BaseStep DEF FaithBase
  <1>2. SUFFICES ASSUME faulted' = {} PROVE Trailing' /\ CheckpointFaithful'
    BY <1>1 DEF FaithBase
  <1>3. LogTypes /\ Trailing /\ CheckpointFaithful
    BY <1>2, FaultsStay DEF FaithBase, LogBase
  <1>4. Trailing'
    BY <1>2, <1>3, TrailingStep
  <1>5. CASE Save
    BY <1>3, <1>4, <1>5, SaveFaithful DEF FaithBase
  <1>6. CASE UNCHANGED saved
    BY <1>3, <1>4, <1>6 DEF CheckpointFaithful, LoadedClock, LoadedAnswer
  <1>7. ASSUME BeginInsert \/ BeginDelete \/ BeginBatch \/ BeginChanges PROVE UNCHANGED saved
    BY <1>7, <1>3, BeginFacts DEF disk
  <1>8. Save \/ UNCHANGED saved
    BY <1>7 DEF Next, Calls, Recovery, Stage, Refuse, Write, EndFlush, FailWrite, Apply, Commit,
       Vacuum, Crash, Start, Replay, GiveUp, Open, vars, disk
  <1> QED
    BY <1>4, <1>5, <1>6, <1>8

\* As long as no write, sync or vector failed, the index a checkpoint restores
\* answers as the saved one did and shows nothing that was not visible in it,
\* whatever crashes.
THEOREM CheckpointsAreFaithful == Spec => []FaithfulUntilFault
  <1>1. Init => FaithBase
    <2>1. SUFFICES ASSUME Init PROVE Trailing /\ CheckpointFaithful
      BY BaseInit DEF FaithBase
    <2>2. Trailing
      BY <2>1 DEF Init, Trailing, Live
    <2>3. saved.versions = {} /\ saved = NoFile
      BY <2>1 DEF Init, NoFile
    <2> QED
      BY <2>2, <2>3 DEF CheckpointFaithful, LoadedAnswer, AsOf
  <1>2. FaithBase => FaithfulUntilFault
    BY DEF FaithBase, FaithfulUntilFault
  <1> QED
    BY <1>1, <1>2, FaithStep, PTL DEF Spec

-----------------------------------------------------------------------------
(* What the log says.  In the file, the acknowledged calls' records come   *)
(* first; those of the call in progress follow, or of the one a crash      *)
(* interrupted, as far as they got.                                        *)

\* The timestamp of the n-th record.
Stamp(f, n) == IF n = 0 THEN 0 ELSE f[n].ts

\* The first s records of f make the promised versions p; no vacuum, whose
\* newest `oldest' is h, went beyond them.
Promises(f, s, p, h) ==
  /\ \A id \in Ids, x \in Vecs, ts \in 0..MaxClock : Sees(p, id, x, ts) <=> Writes(f, s, id, x, ts)
  /\ Before(p, Stamp(f, s))
  /\ h <= Stamp(f, s) + 1

\* All of the first s + m records verify, and the last m are of the first rows.
Carries(f, s, rows, m) ==
  /\ s + m <= Len(f)
  /\ \A k \in 1..(s + m) : f[k] # Torn
  /\ \A k \in 1..m : f[s + k] = RecordOf(rows[k])

\* How many rows of the call are in the file.
Done == IF pc = "write" THEN call.from + written ELSE call.taken

\* A power cut that may still come takes none of the first n records.
SyncedTo(n) == "power" \in Crashes /\ crashes < MaxCrashes => n <= durable

\* While the index is open the file is the promise and what is written of the call
\* in progress; after a crash, the promise and a leading part of the interrupted
\* call, the record behind it possibly torn.
LogKept ==
  IF Live
    THEN /\ doubt = NoCall
         /\ Done <= Len(file)
         /\ Carries(file, Len(file) - Done, call.rows, Done)
         /\ Promises(file, Len(file) - Done, promised, horizon)
         /\ SyncedTo(Len(file) - written)
         /\ committed <= Stamp(file, Len(file) - Done)
    ELSE /\ \E s \in 0..Len(file), m \in 0..Len(doubt.rows) :
              /\ Carries(file, s, doubt.rows, m)
              /\ Promises(file, s, promised, horizon)
              /\ \/ Len(file) = s + m
                 \/ Len(file) = s + m + 1 /\ file[Len(file)] = Torn
         /\ SyncedTo(Len(file))

\* The index in memory answers for the acknowledged calls and the applied rows;
\* during replay for the records replayed.
MemoryFollows ==
  /\ Live =>
       \A id \in Ids, x \in Vecs, ts \in 0..MaxClock : horizon <= ts + 1 =>
         (Sees(versions, id, x, ts) <=>
            \/ Writes(call.rows, Applied, id, x, ts)
            \/ Sees(promised, id, x, ts) /\ ~Touches(call.rows, Ended, id, ts))
  /\ pc = "replay" =>
       \A id \in Ids, x \in Vecs, ts \in 0..MaxClock :
         Sees(versions, id, x, ts) <=> Writes(file, at, id, x, ts)

\* What a reader of the log may rely on: commits are synced where the power may
\* fail, and of crashes there are no two, or all of one kind.
Reliable ==
  /\ Sync \/ "power" \notin Crashes
  /\ MaxCrashes <= 1 \/ ~({"process", "power"} \subseteq Crashes)

\* Types for the file.
LEMMA FileFacts ==
  ASSUME LogTypes
  PROVE  /\ file \in Seq(LogRecord \cup {Torn}) /\ Len(file) \in Nat /\ written \in Nat
         /\ at \in 0..Len(file) /\ durable \in 0..Len(file) /\ crashes \in Nat
         /\ \A k \in 1..Len(file) : file[k] # Torn => file[k] \in LogRecord /\ file[k].ts \in Nat
  <1>1. file \in Seq(LogRecord \cup {Torn})
    BY DEF LogTypes, TypeOK
  <1>2. \A k \in 1..Len(file) : file[k] # Torn => file[k] \in LogRecord
    BY <1>1, ElementOfSeq
  <1> QED
    BY <1>1, <1>2, LogAssumption DEF LogTypes, TypeOK, LogRecord

\* How many rows are in the file is a number of the call's rows.
LEMMA DoneFacts ==
  ASSUME LogTypes
  PROVE  Done \in Nat /\ (pc # "write" => Done = call.taken /\ written = 0)
         /\ (call = NoCall => Done = 0 /\ written = 0)
  <1>1. written \in Nat /\ (pc # "write" => written = 0)
    BY FileFacts DEF LogTypes, Unopened
  <1>2. call = NoCall => pc # "write" /\ call.taken = 0
    BY NoCallApplied, TrailFacts DEF LogTypes, CallPlaced
  <1> QED
    BY <1>1, <1>2, TrailFacts DEF Done

\* Stamp is a timestamp, and grows along the file.
LEMMA StampFacts ==
  ASSUME LogTypes, Stamped, LogOrdered, NEW n \in 0..Len(file), \A k \in 1..n : file[k] # Torn
  PROVE  /\ Stamp(file, n) \in 0..MaxClock
         /\ Live => Stamp(file, n) <= clock
         /\ \A m \in 0..n : Stamp(file, m) \in Nat /\ Stamp(file, m) <= Stamp(file, n)
  <1>1. Len(file) \in Nat /\ clock \in Nat /\ MaxClock \in Nat
    BY FileFacts, TrailFacts, LimitFacts
  <1>2. ASSUME NEW m \in 1..n
        PROVE  file[m].ts \in Nat /\ file[m].ts <= MaxClock /\ (Live => file[m].ts <= clock)
    <2>1. m \in 1..Len(file) /\ file[m] # Torn
      BY <1>1
    <2> QED
      BY <2>1, FileFacts DEF Stamped, LogOrdered
  <1>3. CASE n = 0
    BY <1>1, <1>3 DEF Stamp
  <1>4. CASE n # 0
    <2>1. n \in 1..n
      BY <1>1, <1>4
    <2>2. ASSUME NEW m \in 0..n
          PROVE  Stamp(file, m) \in Nat /\ Stamp(file, m) <= Stamp(file, n)
      <3>1. CASE m = 0
        BY <1>2, <1>4, <2>1, <3>1 DEF Stamp
      <3>2. CASE m # 0
        <4>1. m \in 1..n /\ m \in 1..Len(file) /\ n \in 1..Len(file) /\ m <= n
          BY <1>1, <2>1, <3>2
        <4>2. file[m].ts <= file[n].ts
          BY <4>1 DEF LogOrdered
        <4> QED
          BY <1>2, <1>4, <3>2, <4>1, <4>2 DEF Stamp
      <3> QED
        BY <3>1, <3>2
    <2> QED
      BY <1>1, <1>2, <1>4, <2>1, <2>2 DEF Stamp
  <1> QED
    BY <1>3, <1>4

\* What f promises lies in its first s records.
LEMMA PromisesSame ==
  ASSUME NEW f, NEW g, NEW s \in Nat, \A k \in 1..s : f[k] = g[k], NEW p, NEW h, Promises(f, s, p, h)
  PROVE  Promises(g, s, p, h) /\ Stamp(g, s) = Stamp(f, s)
  <1>1. Stamp(g, s) = Stamp(f, s)
    BY DEF Stamp
  <1>2. \A k \in 1..s : Alike(f[k], g[k])
    BY DEF Alike
  <1>3. \A id \in Ids, x \in Vecs, ts \in 0..MaxClock :
          Writes(f, s, id, x, ts) <=> Writes(g, s, id, x, ts)
    BY <1>2, WritesAlike
  <1> QED
    BY <1>1, <1>3 DEF Promises

\* The rows that the last m records carry, put to what the first s promise, make
\* what all of them write.
LEMMA CarriesWrites ==
  ASSUME NEW f, NEW s \in Nat, NEW rows, NEW m \in Nat, Carries(f, s, rows, m),
         NEW id, NEW x, NEW ts
  PROVE  Writes(f, s + m, id, x, ts) <=>
           \/ Writes(rows, m, id, x, ts)
           \/ Writes(f, s, id, x, ts) /\ ~Touches(rows, m, id, ts)
  <1>1. ASSUME NEW k \in 1..m PROVE Alike(f[s + k], rows[k])
    <2>1. f[s + k] = RecordOf(rows[k])
      BY DEF Carries
    <2> QED
      BY <2>1 DEF Alike, RecordOf
  <1> QED
    BY <1>1, WritesSplit

\* What the steps below need of the state before.
Base == LogTypes /\ Stamped /\ LogOrdered /\ Trailing

\* Between the acknowledged records and the end of the file are those of the call.
LEMMA LiveFacts ==
  ASSUME Base, Live, LogKept
  PROVE  LET s == Len(file) - Done
         IN /\ s \in 0..Len(file) /\ s + Done = Len(file) /\ Done \in Nat /\ Len(file) \in Nat
            /\ Stamp(file, s) \in 0..MaxClock /\ Stamp(file, s) <= clock
            /\ Stamp(file, Len(file)) \in 0..MaxClock /\ Stamp(file, Len(file)) <= clock
            /\ Stamp(file, s) <= Stamp(file, Len(file))
            /\ doubt = NoCall
            /\ Carries(file, s, call.rows, Done) /\ Promises(file, s, promised, horizon)
            /\ SyncedTo(Len(file) - written) /\ committed <= Stamp(file, s)
            /\ \A k \in 1..Len(file) : file[k] # Torn
  <1> DEFINE s == Len(file) - Done
  <1>1. /\ Len(file) \in Nat /\ Done \in Nat /\ Done <= Len(file) /\ clock \in Nat
        /\ doubt = NoCall /\ Carries(file, s, call.rows, Done)
        /\ Promises(file, s, promised, horizon)
        /\ SyncedTo(Len(file) - written) /\ committed <= Stamp(file, s)
    BY FileFacts, DoneFacts, TrailFacts DEF Base, LogKept
  <1>2. s \in 0..Len(file) /\ s + Done = Len(file) /\ Len(file) \in 0..Len(file)
    BY <1>1
  <1> HIDE DEF s
  <1>3. \A k \in 1..Len(file) : file[k] # Torn
    BY <1>1, <1>2 DEF Carries
  <1>4. /\ Stamp(file, Len(file)) \in 0..MaxClock /\ Stamp(file, Len(file)) <= clock
        /\ Stamp(file, s) <= Stamp(file, Len(file))
    BY <1>2, <1>3, StampFacts DEF Base
  <1>5. Stamp(file, s) \in 0..MaxClock /\ Stamp(file, s) <= clock
    BY <1>1, <1>2, <1>3, StampFacts DEF Base
  <1>6. /\ s \in 0..Len(file) /\ s + Done = Len(file) /\ Done \in Nat /\ Len(file) \in Nat
        /\ Stamp(file, s) \in 0..MaxClock /\ Stamp(file, s) <= clock
        /\ Stamp(file, Len(file)) \in 0..MaxClock /\ Stamp(file, Len(file)) <= clock
        /\ Stamp(file, s) <= Stamp(file, Len(file))
        /\ doubt = NoCall
        /\ Carries(file, s, call.rows, Done) /\ Promises(file, s, promised, horizon)
        /\ SyncedTo(Len(file) - written) /\ committed <= Stamp(file, s)
        /\ \A k \in 1..Len(file) : file[k] # Torn
    BY <1>1, <1>2, <1>3, <1>4, <1>5
  <1> QED
    BY <1>6 DEF s

\* The file and what it promises are as they were; the call got no further.
LEMMA KeptSame ==
  ASSUME LogKept, Live, Live', UNCHANGED <<file, durable, promised, horizon, crashes, doubt>>,
         Done' = Done, written' = written, committed' = committed,
         call'.rows = call.rows
  PROVE  LogKept'
  BY DEF LogKept, Carries, Promises, Stamp, SyncedTo, Before, Sees, Writes

\* MemoryFollows is a matter of these variables only.
LEMMA FollowsSame ==
  ASSUME MemoryFollows, Live, Live', UNCHANGED <<versions, promised, horizon>>,
         call'.rows = call.rows, Applied' = Applied, Ended' = Ended
  PROVE  MemoryFollows'
  BY DEF MemoryFollows, Live, Sees, Writes, Touches

\* A call that begins is in neither the file
LEMMA BeginKept ==
  ASSUME Base, LogKept, BeginInsert \/ BeginDelete \/ BeginBatch \/ BeginChanges
  PROVE  LogKept'
  <1>1. /\ pc = "idle" /\ pc' = "stage" /\ call = NoCall /\ call'.taken = 0 /\ Live /\ Live'
        /\ UNCHANGED <<committed, written, file, durable, promised, horizon, crashes, doubt>>
    BY BeginFacts DEF Base, disk, ghosts, Live
  <1>2. Done = 0 /\ Done' = 0
    BY <1>1, DoneFacts DEF Done, Base
  <1>3. /\ Carries(file, Len(file), call.rows, 0) /\ Len(file) \in Nat /\ Len(file) - 0 = Len(file)
        /\ Promises(file, Len(file), promised, horizon)
    BY <1>1, <1>2, FileFacts DEF LogKept, Base
  <1>4. Carries(file, Len(file), call'.rows, 0)
    BY <1>3 DEF Carries
  <1>5. Carries(file', Len(file') - Done', call'.rows, Done')
    BY <1>1, <1>2, <1>3, <1>4
  <1>6. Promises(file', Len(file') - Done', promised', horizon')
    BY <1>1, <1>2, <1>3
  <1>7. committed' <= Stamp(file', Len(file') - Done') /\ Done' <= Len(file')
    BY <1>1, <1>2, <1>3 DEF LogKept
  <1>8. SyncedTo(Len(file) - written)' /\ doubt' = NoCall
    BY <1>1 DEF LogKept, SyncedTo
  <1> QED
    BY <1>1, <1>5, <1>6, <1>7, <1>8 DEF LogKept

\* nor, but for the version a single insert closes, in memory.
LEMMA BeginFollows ==
  ASSUME Base, MemoryFollows, BeginInsert \/ BeginDelete \/ BeginBatch \/ BeginChanges
  PROVE  MemoryFollows'
  <1>1. /\ pc = "idle" /\ pc' = "stage" /\ call = NoCall /\ call'.taken = 0
        /\ clock < clock' /\ clock' \in 0..MaxClock /\ UNCHANGED <<promised, horizon>>
    BY BeginFacts, LimitFacts DEF Base, ghosts
  <1>2. Applied = 0 /\ Ended = 0 /\ Applied' = 0
    BY <1>1, NoCallApplied DEF Applied
  <1>3. \A id \in Ids, x \in Vecs, ts \in 0..MaxClock : horizon <= ts + 1 =>
          (Sees(versions, id, x, ts) <=> Sees(promised, id, x, ts))
    BY <1>1, <1>2, NoRows DEF MemoryFollows, Live
  <1>4. SUFFICES ASSUME NEW id \in Ids, NEW x \in Vecs, NEW ts \in 0..MaxClock, horizon <= ts + 1
                 PROVE  Sees(versions', id, x, ts) <=>
                          \/ Writes(call'.rows, 0, id, x, ts)
                          \/ Sees(promised, id, x, ts) /\ ~Touches(call'.rows, Ended', id, ts)
    BY <1>1, <1>2 DEF MemoryFollows
  <1>5. ~Writes(call'.rows, 0, id, x, ts)
    BY NoRows
  <1>6. CASE call'.kind # "insert" /\ versions' = versions
    <2>1. Ended' = 0
      BY <1>2, <1>6 DEF Ended
    <2> QED
      BY <1>3, <1>4, <1>5, <1>6, <2>1, NoRows
  <1>7. CASE /\ call'.kind = "insert" /\ call'.rows[1].ts = clock'
             /\ versions' = ClosedIn(versions, call'.rows[1].id, clock')
    <2>1. Ended' = 1
      BY <1>7 DEF Ended
    <2>2. Touches(call'.rows, 1, id, ts) <=> call'.rows[1].id = id /\ clock' <= ts
      BY <1>7 DEF Touches
    <2>3. Before(versions, committed) /\ committed <= clock'
      BY <1>1, <1>2, TrailFacts DEF Base, Trailing, Live
    <2>4. Sees(versions', id, x, ts) <=>
            Sees(versions, id, x, ts) /\ ~(id = call'.rows[1].id /\ clock' <= ts)
      BY <1>1, <1>7, <2>3, TrailFacts, ClosedInSees DEF Base
    <2> QED
      BY <1>3, <1>4, <1>5, <2>1, <2>2, <2>4
  <1> QED
    BY <1>6, <1>7, BeginFacts DEF Base

\* Staging changes nothing in the file.
LEMMA StageKept ==
  ASSUME Base, LogKept, MemoryFollows, Stage PROVE LogKept' /\ MemoryFollows'
  <1>1. /\ pc = "stage" /\ pc' = "write" /\ UNCHANGED <<versions, committed, written, disk, ghosts>>
        /\ call' = [call EXCEPT !.from = call.taken, !.taken = BlockEnd]
    BY DEF Stage
  <1>2. call'.from = call.taken /\ call'.rows = call.rows /\ call'.kind = call.kind
    BY <1>1 DEF Base, LogTypes, CallOK
  <1>3. Done' = Done
    BY <1>1, <1>2, DoneFacts, TrailFacts DEF Done, Base
  <1>4. Applied' = Applied /\ Ended' = Ended
    BY <1>1, <1>2 DEF Applied, Ended
  <1>5. Live /\ Live'
    BY <1>1 DEF Live
  <1>6. LogKept'
    BY <1>1, <1>2, <1>3, <1>5, KeptSame DEF disk, ghosts
  <1>7. MemoryFollows'
    BY <1>1, <1>2, <1>4, <1>5, FollowsSame DEF ghosts
  <1> QED
    BY <1>6, <1>7

\* A record more is a row more that the file carries.
LEMMA WriteKept ==
  ASSUME Base, LogKept, MemoryFollows, Write PROVE LogKept' /\ MemoryFollows'
  <1> DEFINE s == Len(file) - Done
  <1>1. /\ Len(file) \in Nat /\ Len(file') = Len(file) + 1
        /\ \A k \in 1..Len(file) : file'[k] = file[k]
        /\ file'[Len(file) + 1] = RecordOf(call.rows[call.from + written + 1])
        /\ file'[Len(file) + 1] \in LogRecord
        /\ pc = "write" /\ written' = written + 1 /\ written \in Nat
        /\ UNCHANGED <<versions, committed, pc, call, durable, promised, horizon, crashes, doubt>>
    BY WriteFacts DEF Base, ghosts
  <1>2. Live /\ Live'
    BY <1>1 DEF Live
  <1>3. /\ s \in 0..Len(file) /\ s + Done = Len(file) /\ Done \in Nat
        /\ doubt = NoCall
        /\ Carries(file, s, call.rows, Done) /\ Promises(file, s, promised, horizon)
        /\ SyncedTo(Len(file) - written) /\ committed <= Stamp(file, s)
    BY <1>2, LiveFacts
  <1>4. Done = call.from + written /\ Done' = Done + 1 /\ call.from \in Nat
    <2>1. call.from \in Nat
      BY TrailFacts DEF Base
    <2>2. Done = call.from + written
      BY <1>1 DEF Done
    <2>3. Done' = call.from + (written + 1)
      BY <1>1 DEF Done
    <2> QED
      BY <1>1, <2>1, <2>2, <2>3
  <1>5. Len(file') - Done' = s /\ s + (Done + 1) = Len(file) + 1
    <2>1. \A d, e : d \in Nat /\ e \in Nat => (e + 1) - (d + 1) = e - d
      OBVIOUS
    <2>2. Len(file') - Done' = (Len(file) + 1) - (Done + 1)
      BY <1>1, <1>4
    <2>3. Len(file) \in Nat /\ Done \in Nat /\ s + Done = Len(file) /\ s \in 0..Len(file)
      BY <1>1, <1>3
    <2>4. s + (Done + 1) = Len(file) + 1
      BY <2>3
    <2> QED
      BY <2>1, <2>2, <2>3, <2>4
  <1> HIDE DEF s
  <1>6. Promises(file', s, promised, horizon) /\ Stamp(file', s) = Stamp(file, s)
    <2>1. \A k \in 1..s : file[k] = file'[k]
      BY <1>1, <1>3
    <2>2. s \in Nat /\ Promises(file, s, promised, horizon)
      BY <1>1, <1>3
    <2> QED
      BY <2>1, <2>2, PromisesSame
  <1>7. Carries(file', s, call.rows, Done + 1)
    <2>1. \A k \in 1..(s + (Done + 1)) : file'[k] # Torn
      <3>1. \A k \in 1..Len(file) : file'[k] # Torn
        BY <1>1, <1>3 DEF Carries
      <3>2. file'[Len(file) + 1] # Torn
        BY <1>1, LogAssumption
      <3> QED
        BY <1>1, <1>5, <3>1, <3>2
    <2>2. ASSUME NEW k \in 1..(Done + 1) PROVE file'[s + k] = RecordOf(call.rows[k])
      <3>1. CASE k = Done + 1
        <4>1. s + k = Len(file) + 1 /\ k = call.from + written + 1
          BY <1>3, <1>4, <1>5, <3>1
        <4> QED
          BY <1>1, <4>1
      <3>2. CASE k # Done + 1
        <4>1. k \in 1..Done /\ s + k \in 1..Len(file)
          BY <1>3, <3>2
        <4> QED
          BY <1>1, <1>3, <4>1 DEF Carries
      <3> QED
        BY <3>1, <3>2
    <2> QED
      BY <1>1, <1>5, <2>1, <2>2 DEF Carries
  <1>8. SyncedTo(Len(file) - written)'
    <2>1. Len(file') - written' = Len(file) - written
      BY <1>1
    <2> QED
      BY <1>1, <1>3, <2>1 DEF SyncedTo
  <1>9. Done' <= Len(file')
    BY <1>1, <1>3, <1>4
  <1>10. LogKept'
    BY <1>1, <1>2, <1>3, <1>4, <1>5, <1>6, <1>7, <1>8, <1>9 DEF LogKept
  <1>11. Applied' = Applied /\ Ended' = Ended
    BY <1>1 DEF Applied, Ended
  <1> QED
    BY <1>1, <1>2, <1>10, <1>11, FollowsSame

\* fsync makes all the file carries durable.
LEMMA EndFlushKept ==
  ASSUME Base, Reliable, LogKept, MemoryFollows, EndFlush, faulted' = {}
  PROVE  LogKept' /\ MemoryFollows'
  <1>1. /\ pc = "write" /\ pc' = "apply" /\ written = Len(pending) /\ written' = 0
        /\ UNCHANGED <<versions, committed, call, file, promised, horizon, crashes, doubt>>
    BY DEF EndFlush
  <1>2. Live /\ Live' /\ Len(file) \in Nat
    BY <1>1, FileFacts DEF Live, Base
  <1>3. Done' = Done
    <2>1. Len(pending) = call.taken - call.from
      BY <1>1 DEF Base, LogOrdered
    <2> QED
      BY <1>1, <2>1, TrailFacts DEF Done, Base
  <1>4. "power" \in Crashes => durable' = Len(file)
    <2>1. Sync => durable' = Len(file)
      <3>1. MayFailSync \/ ~MayFailSync
        OBVIOUS
      <3>2. CASE ~MayFailSync
        BY <3>2 DEF EndFlush, Flushed
      <3>3. ASSUME MayFailSync, Sync PROVE durable' = Len(file)
        BY <3>3 DEF EndFlush
      <3> QED
        BY <3>2, <3>3
    <2> QED
      BY <2>1 DEF Reliable
  <1>5. SyncedTo(Len(file) - written)'
    BY <1>1, <1>2, <1>4 DEF SyncedTo
  <1>6. LogKept'
    BY <1>1, <1>2, <1>3, <1>5 DEF LogKept
  <1>7. Applied' = Applied /\ Ended' = Ended
    BY <1>1 DEF Applied, Ended
  <1> QED
    BY <1>1, <1>2, <1>6, <1>7, FollowsSame

\* A delete of an id that is not open leaves the log one record longer and
\* changes no answer.
LEMMA RefusedKept ==
  ASSUME Base, LogKept, MemoryFollows, Apply,
         call.kind = "delete" /\ ~HasOpen(versions, call.rows[1].id)
  PROVE  LogKept' /\ MemoryFollows'
  <1> DEFINE s == Len(file) - Done
             n == Len(file)
             row == call.rows[1]
  <1>1. /\ pc = "apply" /\ pc' = "idle" /\ call' = NoCall /\ versions' = versions
        /\ Len(call.rows) = 1 /\ row.op = "delete" /\ call.from = 0 /\ call.taken = 1
        /\ Applied = 0 /\ Ended = 0
        /\ UNCHANGED <<clock, committed, pending, written, at, disk, ghosts>>
    <2>1. pc' = "idle" /\ call' = NoCall
      BY DEF Apply, EndCall
    <2> QED
      BY <2>1, ApplyFacts DEF Base
  <1>2. Live /\ Live' /\ Done = 1 /\ written = 0 /\ Done' = 0 /\ Applied' = 0 /\ Ended' = 0
    BY <1>1, DoneFacts, NoCallOK DEF Live, Base, NoCall, Done, Applied, Ended
  <1>3. /\ s \in 0..n /\ s + 1 = n /\ n \in Nat
        /\ Stamp(file, s) \in 0..MaxClock /\ Stamp(file, s) <= clock
        /\ Stamp(file, s) <= Stamp(file, n)
        /\ doubt = NoCall
        /\ Carries(file, s, call.rows, 1) /\ Promises(file, s, promised, horizon)
        /\ SyncedTo(n - written) /\ committed <= Stamp(file, s)
        /\ \A k \in 1..n : file[k] # Torn
    BY <1>2, LiveFacts
  <1> HIDE DEF s, n
  <1>4. row.ts = clock /\ clock \in Nat
    BY <1>1, TrailFacts DEF Base, LogTypes, CallPlaced, InCall
  <1>5. Stamp(file, n) = clock
    <2>1. file[s + 1] = RecordOf(row)
      BY <1>3 DEF Carries
    <2> QED
      BY <1>3, <1>4, <2>1 DEF Stamp, RecordOf
  <1>6. ASSUME NEW x \in Vecs, NEW ts \in 0..MaxClock, clock <= ts
        PROVE  ~Sees(promised, row.id, x, ts)
    <2>1. row.id \in Ids
      <3>1. call.rows \in Seq(LogRow) /\ 1 \in 1..Len(call.rows)
        BY <1>1, TrailFacts DEF Base
      <3>2. row \in LogRow
        BY <3>1, ElementOfSeq
      <3> QED
        BY <3>2 DEF LogRow
    <2>2. horizon <= ts + 1
      BY <1>3, <1>4, <1>6, TrailFacts DEF Promises, Base
    <2>3. Sees(versions, row.id, x, ts) <=> Sees(promised, row.id, x, ts)
      BY <1>1, <1>2, <2>1, <2>2, NoRows DEF MemoryFollows
    <2>4. Before(versions, committed)
      BY <1>1, <1>2 DEF Base, Trailing
    <2>5. \A v \in versions : v.id = row.id => v.end <= committed
      BY <2>4 DEF HasOpen, Before
    <2>6. \A v \in versions : v.end \in Nat
      BY TrailFacts DEF Base, LogVersion
    <2>7. ~Sees(versions, row.id, x, ts)
      BY <1>3, <1>4, <1>6, <2>5, <2>6, TrailFacts DEF Sees, Base
    <2> QED
      BY <2>3, <2>7
  <1>7. Promises(file, n, promised, horizon)
    <2>1. ASSUME NEW id \in Ids, NEW x \in Vecs, NEW ts \in 0..MaxClock
          PROVE  Sees(promised, id, x, ts) <=> Writes(file, n, id, x, ts)
      <3>1. Writes(file, n, id, x, ts) <=>
              \/ Writes(call.rows, 1, id, x, ts)
              \/ Writes(file, s, id, x, ts) /\ ~Touches(call.rows, 1, id, ts)
        <4>1. s \in Nat /\ 1 \in Nat /\ n = s + 1 /\ Carries(file, s, call.rows, 1)
          BY <1>3
        <4>2. Writes(file, s + 1, id, x, ts) <=>
                \/ Writes(call.rows, 1, id, x, ts)
                \/ Writes(file, s, id, x, ts) /\ ~Touches(call.rows, 1, id, ts)
          BY <4>1, CarriesWrites
        <4> QED
          BY <4>1, <4>2
      <3>2. ~Writes(call.rows, 1, id, x, ts)
        BY <1>1 DEF Writes
      <3>3. Touches(call.rows, 1, id, ts) <=> row.id = id /\ clock <= ts
        BY <1>4 DEF Touches
      <3>4. Sees(promised, id, x, ts) <=> Writes(file, s, id, x, ts)
        BY <1>3 DEF Promises
      <3> HIDE DEF row
      <3> QED
        BY <1>6, <3>1, <3>2, <3>3, <3>4
    <2>2. Before(promised, Stamp(file, n))
      BY <1>3, <1>4, <1>5, BeforeLater, TrailFacts DEF Promises, Base
    <2>3. horizon <= Stamp(file, n) + 1
      BY <1>3, <1>4, <1>5, TrailFacts DEF Promises, Base
    <2> QED
      BY <2>1, <2>2, <2>3 DEF Promises
  <1>8. Carries(file, n, NoCall.rows, 0)
    BY <1>3 DEF Carries, n
  <1>9. committed <= Stamp(file, n)
    BY <1>3, <1>4, <1>5, TrailFacts DEF Base
  <1>10. UNCHANGED <<file, durable, promised, horizon, crashes, doubt, committed, written>>
    BY <1>1 DEF disk, ghosts
  <1>11. Len(file') - Done' = n /\ Done' <= Len(file')
    BY <1>2, <1>3, <1>10 DEF n
  <1>12. SyncedTo(Len(file) - written)'
    BY <1>3, <1>10 DEF SyncedTo, n
  <1>13. LogKept'
    BY <1>1, <1>2, <1>3, <1>7, <1>8, <1>9, <1>10, <1>11, <1>12 DEF LogKept
  <1>14. MemoryFollows'
    <2>1. SUFFICES ASSUME NEW id \in Ids, NEW x \in Vecs, NEW ts \in 0..MaxClock, horizon <= ts + 1
                   PROVE  Sees(versions, id, x, ts) <=>
                            \/ Writes(call'.rows, 0, id, x, ts)
                            \/ Sees(promised, id, x, ts) /\ ~Touches(call'.rows, 0, id, ts)
      BY <1>1, <1>2, <1>10 DEF MemoryFollows
    <2>2. Sees(versions, id, x, ts) <=>
            \/ Writes(call.rows, 0, id, x, ts)
            \/ Sees(promised, id, x, ts) /\ ~Touches(call.rows, 0, id, ts)
      BY <1>1, <1>2, <2>1 DEF MemoryFollows
    <2> QED
      BY <2>2, NoRows
  <1> QED
    BY <1>13, <1>14

\* A block applied: memory sees the rows the file carries.
LEMMA AppliedKept ==
  ASSUME Base, LogKept, MemoryFollows, Apply,
         ~(call.kind = "delete" /\ ~HasOpen(versions, call.rows[1].id))
  PROVE  LogKept' /\ MemoryFollows'
  <1> DEFINE from == call.from
             taken == call.taken
  <1>1. /\ pc = "apply" /\ pc' \in {"stage", "commit"} /\ call' = call
        /\ versions' = PutAll(versions, Block)
        /\ Applied = from /\ Applied' = taken
        /\ Ended' = IF call.kind = "insert" THEN 1 ELSE taken
        /\ UNCHANGED <<clock, committed, pending, written, at, disk, ghosts>>
    <2>1. /\ pc' \in {"stage", "commit"} /\ call' = call /\ versions' = PutAll(versions, Block)
      BY DEF Apply
    <2>2. Applied' = taken /\ Ended' = IF call.kind = "insert" THEN 1 ELSE taken
      BY <2>1 DEF Applied, Ended
    <2> QED
      BY <2>1, <2>2, ApplyFacts DEF Base
  <1>2. /\ Live /\ Live' /\ Done' = Done
    BY <1>1, DoneFacts DEF Live, Base, Done
  <1>3. LogKept'
    BY <1>1, <1>2, KeptSame DEF disk, ghosts
  <1>4. /\ from \in Nat /\ taken \in Nat /\ from < taken /\ taken <= Len(call.rows)
        /\ taken - from \in Nat /\ from + (taken - from) = taken
    BY <1>1, TrailFacts DEF Base, LogTypes, CallPlaced
  <1>5. /\ Block \in Seq(LogRow) /\ Len(Block) = taken - from
        /\ \A k \in 1..(taken - from) : Block[k] = call.rows[from + k]
        /\ \A k \in 1..Len(Block) : Block[k].ts = clock
    BY <1>1, BlockFacts, BlockStamps DEF Base
  <1>6. Ended \in from..taken /\ Ended' = IF call.kind = "insert" THEN Ended ELSE taken
    <2>1. call.kind = "insert" => Len(call.rows) = 1
      BY DEF Base, LogTypes, CallPlaced
    <2>2. Ended = IF call.kind = "insert" THEN 1 ELSE from
      BY <1>1 DEF Ended
    <2>3. CASE call.kind = "insert"
      <3>1. from = 0 /\ taken = 1 /\ Ended = 1
        <4>1. Len(call.rows) = 1 /\ Ended = 1
          BY <2>1, <2>2, <2>3
        <4>2. taken <= 1 /\ from < taken /\ from \in Nat /\ taken \in Nat
          BY <1>4, <4>1
        <4> HIDE DEF from, taken
        <4> QED
          BY <4>1, <4>2
      <3> QED
        BY <1>1, <2>3, <3>1
    <2>4. CASE call.kind # "insert"
      BY <1>1, <1>4, <2>2, <2>4
    <2> QED
      BY <2>3, <2>4
  <1>7. /\ clock \in 0..MaxClock /\ versions \in SUBSET LogVersion
        /\ Before(versions, clock)
    <2>1. Before(versions, IF Ended = 0 THEN committed ELSE clock) /\ committed <= clock
      BY <1>2 DEF Base, Trailing
    <2>2. Before(versions, clock)
      BY <2>1, TrailFacts, BeforeLater DEF Base
    <2> QED
      BY <2>2, TrailFacts, LimitFacts DEF Base, Stamped
  <1>8. SUFFICES ASSUME NEW id \in Ids, NEW x \in Vecs, NEW ts \in 0..MaxClock, horizon <= ts + 1
                 PROVE  Sees(versions', id, x, ts) <=>
                          \/ Writes(call.rows, taken, id, x, ts)
                          \/ Sees(promised, id, x, ts) /\ ~Touches(call.rows, Ended', id, ts)
    BY <1>1, <1>2, <1>3 DEF MemoryFollows, ghosts
  <1> HIDE DEF from, taken
  <1>9. Sees(versions', id, x, ts) <=>
          \/ Writes(Block, taken - from, id, x, ts)
          \/ Sees(versions, id, x, ts) /\ ~Touches(Block, taken - from, id, ts)
    <2>1. clock \in Nat /\ clock <= clock
      BY <1>7, LimitFacts
    <2>2. Sees(PutAll(versions, Block), id, x, ts) <=>
            \/ Writes(Block, Len(Block), id, x, ts)
            \/ Sees(versions, id, x, ts) /\ ~Touches(Block, Len(Block), id, ts)
      BY <1>5, <1>7, <2>1, PutAllSees
    <2> QED
      BY <1>1, <1>5, <2>2
  <1>10. Sees(versions, id, x, ts) <=>
           \/ Writes(call.rows, from, id, x, ts)
           \/ Sees(promised, id, x, ts) /\ ~Touches(call.rows, Ended, id, ts)
    BY <1>1, <1>2, <1>8 DEF MemoryFollows
  <1>11. \A k \in 1..(taken - from) : Alike(call.rows[from + k], Block[k])
    BY <1>5 DEF Alike
  <1>12. Writes(call.rows, taken, id, x, ts) <=>
           \/ Writes(Block, taken - from, id, x, ts)
           \/ Writes(call.rows, from, id, x, ts) /\ ~Touches(Block, taken - from, id, ts)
    <2>1. Writes(call.rows, from + (taken - from), id, x, ts) <=>
           \/ Writes(Block, taken - from, id, x, ts)
           \/ Writes(call.rows, from, id, x, ts) /\ ~Touches(Block, taken - from, id, ts)
      BY <1>4, <1>11, WritesSplit
    <2> QED
      BY <1>4, <2>1
  <1>13. Touches(call.rows, taken, id, ts) <=>
           Touches(call.rows, from, id, ts) \/ Touches(Block, taken - from, id, ts)
    <2>1. Touches(call.rows, from + (taken - from), id, ts) <=>
           Touches(call.rows, from, id, ts) \/ Touches(Block, taken - from, id, ts)
      BY <1>4, <1>11, TouchesSplit, ZenonT(60)
    <2> QED
      BY <1>4, <2>1
  <1>14. /\ Touches(call.rows, from, id, ts) => Touches(call.rows, Ended, id, ts)
         /\ Touches(call.rows, Ended, id, ts) => Touches(call.rows, taken, id, ts)
    <2>1. /\ \A k \in 1..from : k \in 1..Ended
          /\ \A k \in 1..Ended : k \in 1..taken
      BY <1>4, <1>6
    <2> QED
      BY <2>1 DEF Touches
  <1>15. CASE call.kind # "insert"
    BY <1>6, <1>9, <1>10, <1>12, <1>13, <1>14, <1>15 DEF Ended, Applied, from
  <1>16. CASE call.kind = "insert"
    <2>1. Ended' = Ended /\ Ended = taken
      <3>1. Len(call.rows) = 1
        BY <1>16 DEF Base, LogTypes, CallPlaced
      <3>2. taken = 1 /\ Ended = 1
        BY <1>4, <1>16, <3>1 DEF Ended
      <3> QED
        BY <1>6, <1>16, <3>2
    <2> QED
      BY <2>1, <1>9, <1>10, <1>12, <1>13, <1>14
  <1> QED
    BY <1>15, <1>16

\* The call's rows become a promise, in the file and in memory alike.
LEMMA CommitKept ==
  ASSUME Base, LogKept, MemoryFollows, Commit PROVE LogKept' /\ MemoryFollows'
  <1> DEFINE s == Len(file) - Done
             n == Len(file)
             m == Len(call.rows)
  <1>1. /\ pc = "commit" /\ pc' = "idle" /\ call' = NoCall /\ committed' = call.ts
        /\ promised' = PutAll(promised, call.rows)
        /\ UNCHANGED <<versions, clock, written, file, durable, doubt, horizon, crashes>>
    BY DEF Commit, EndCall, disk
  <1>2. /\ call.ts = clock /\ call.taken = m /\ m \in Nat /\ m > 0 /\ clock \in Nat
        /\ call.rows \in Seq(LogRow) /\ \A k \in 1..m : call.rows[k].ts = clock
        /\ promised \in SUBSET LogVersion
    BY <1>1, TrailFacts DEF Base, LogTypes, CallPlaced, InCall
  <1>3. Live /\ Live' /\ Done = m /\ written = 0 /\ Done' = 0 /\ Applied' = 0 /\ Ended' = 0
    BY <1>1, <1>2, DoneFacts, NoCallOK DEF Live, Base, NoCall, Done, Applied, Ended
  <1>4. /\ s \in 0..n /\ s + m = n /\ n \in Nat
        /\ Stamp(file, s) \in 0..MaxClock /\ Stamp(file, s) <= clock
        /\ doubt = NoCall
        /\ Carries(file, s, call.rows, m) /\ Promises(file, s, promised, horizon)
        /\ SyncedTo(n - written)
        /\ \A k \in 1..n : file[k] # Torn
    BY <1>3, LiveFacts
  <1> HIDE DEF s, n
  <1>5. clock \in 0..MaxClock
    BY <1>2, LimitFacts DEF Base, Stamped
  <1>6. Stamp(file, n) = clock
    <2>1. m \in 1..m /\ file[s + m] = RecordOf(call.rows[m])
      BY <1>2, <1>4 DEF Carries
    <2>2. n # 0 /\ call.rows[m].ts = clock
      BY <1>2, <1>4, <2>1
    <2> QED
      BY <1>4, <2>1, <2>2 DEF Stamp, RecordOf
  <1>7. ASSUME NEW id \in Ids, NEW x \in Vecs, NEW ts \in 0..MaxClock
        PROVE  Sees(promised', id, x, ts) <=>
                 \/ Writes(call.rows, m, id, x, ts)
                 \/ Sees(promised, id, x, ts) /\ ~Touches(call.rows, m, id, ts)
    <2>1. Stamp(file, s) \in Nat /\ Before(promised, Stamp(file, s))
      BY <1>4 DEF Promises
    <2> QED
      BY <1>1, <1>2, <1>4, <1>5, <2>1, PutAllSees
  <1>8. Promises(file, n, promised', horizon)
    <2>1. ASSUME NEW id \in Ids, NEW x \in Vecs, NEW ts \in 0..MaxClock
          PROVE  Sees(promised', id, x, ts) <=> Writes(file, n, id, x, ts)
      <3>1. Writes(file, s + m, id, x, ts) <=>
              \/ Writes(call.rows, m, id, x, ts)
              \/ Writes(file, s, id, x, ts) /\ ~Touches(call.rows, m, id, ts)
        <4>1. s \in Nat /\ m \in Nat /\ Carries(file, s, call.rows, m)
          BY <1>2, <1>4
        <4> HIDE DEF m
        <4> QED
          BY <4>1, CarriesWrites
      <3>2. Sees(promised, id, x, ts) <=> Writes(file, s, id, x, ts)
        BY <1>4 DEF Promises
      <3> QED
        BY <1>4, <1>7, <3>1, <3>2
    <2>2. Before(promised', clock)
      <3>1. Stamp(file, s) \in Nat /\ Before(promised, Stamp(file, s))
        BY <1>4 DEF Promises
      <3>2. \A k \in 1..Len(call.rows) : call.rows[k].ts <= clock
        BY <1>2
      <3> QED
        BY <1>1, <1>2, <1>4, <3>1, <3>2, PutAllBefore
    <2>3. horizon <= clock + 1
      BY <1>2, <1>4, TrailFacts DEF Promises, Base
    <2> QED
      BY <1>6, <2>1, <2>2, <2>3 DEF Promises
  <1>9. Carries(file, n, NoCall.rows, 0)
    BY <1>4 DEF Carries, n
  <1>10. committed' <= Stamp(file, n)
    BY <1>1, <1>2, <1>6
  <1>11. Len(file') - Done' = n /\ Done' <= Len(file')
    BY <1>1, <1>3, <1>4 DEF n
  <1>12. SyncedTo(Len(file) - written)'
    BY <1>1, <1>4 DEF SyncedTo, n
  <1>13. LogKept'
    BY <1>1, <1>3, <1>4, <1>8, <1>9, <1>10, <1>11, <1>12 DEF LogKept
  <1>14. MemoryFollows'
    <2>1. SUFFICES ASSUME NEW id \in Ids, NEW x \in Vecs, NEW ts \in 0..MaxClock, horizon <= ts + 1
                   PROVE  Sees(versions, id, x, ts) <=>
                            \/ Writes(call'.rows, 0, id, x, ts)
                            \/ Sees(promised', id, x, ts) /\ ~Touches(call'.rows, 0, id, ts)
      BY <1>1, <1>3 DEF MemoryFollows
    <2>2. Applied = m /\ Ended = m
      <3>1. call.kind = "insert" => m = 1
        BY DEF Base, LogTypes, CallPlaced
      <3> QED
        BY <1>1, <1>2, <3>1 DEF Applied, Ended
    <2>3. Sees(versions, id, x, ts) <=>
            \/ Writes(call.rows, m, id, x, ts)
            \/ Sees(promised, id, x, ts) /\ ~Touches(call.rows, m, id, ts)
      BY <1>3, <2>1, <2>2 DEF MemoryFollows
    <2> QED
      BY <1>7, <2>3, NoRows
  <1> QED
    BY <1>13, <1>14

\* Vacuum takes versions no readable timestamp sees.
LEMMA VacuumKept ==
  ASSUME Base, LogKept, MemoryFollows, Vacuum PROVE LogKept' /\ MemoryFollows'
  <1>1. PICK oldest \in 1..(committed + 1) :
          /\ versions' = {v \in versions : v.end >= oldest}
          /\ horizon' = IF oldest > horizon THEN oldest ELSE horizon
    BY DEF Vacuum
  <1>2. /\ pc = "idle"
        /\ UNCHANGED <<clock, committed, written, pc, call, file, durable, promised, doubt, crashes>>
    BY DEF Vacuum, disk
  <1>3. Live /\ Live' /\ Done' = Done /\ Applied' = Applied /\ Ended' = Ended
    BY <1>2 DEF Live, Done, Applied, Ended
  <1>4. /\ Promises(file, Len(file) - Done, promised, horizon)
        /\ committed <= Stamp(file, Len(file) - Done) /\ Stamp(file, Len(file) - Done) \in Nat
        /\ committed \in Nat /\ horizon \in Nat
    BY <1>3, LiveFacts, TrailFacts, LimitFacts DEF Base
  <1>5. Promises(file, Len(file) - Done, promised, horizon')
    <2>1. horizon' <= Stamp(file, Len(file) - Done) + 1
      BY <1>1, <1>4 DEF Promises
    <2> QED
      BY <1>4, <2>1 DEF Promises
  <1>6. LogKept'
    BY <1>2, <1>3, <1>5 DEF LogKept, SyncedTo
  <1>7. ASSUME NEW id \in Ids, NEW x \in Vecs, NEW ts \in 0..MaxClock, horizon' <= ts + 1
        PROVE  /\ horizon <= ts + 1
               /\ Sees(versions', id, x, ts) <=> Sees(versions, id, x, ts)
    <2>1. horizon <= ts + 1 /\ oldest <= ts + 1
      BY <1>1, <1>4, <1>7
    <2>2. \A v \in versions : v.end \in Nat
      BY TrailFacts DEF Base, LogVersion
    <2>3. \A v \in versions : ts < v.end => v.end >= oldest
      BY <1>1, <1>4, <1>7, <2>1, <2>2
    <2> QED
      BY <1>1, <2>1, <2>3 DEF Sees
  <1>8. MemoryFollows'
    BY <1>2, <1>3, <1>7 DEF MemoryFollows
  <1> QED
    BY <1>6, <1>8

\* A crash cuts nothing that was promised, and of the call leaves leading rows.
LEMMA CrashKept ==
  ASSUME Base, Reliable, LogKept, Crash PROVE LogKept' /\ MemoryFollows'
  <1>1. /\ InCall => doubt' = call
        /\ ~InCall => doubt' = doubt
        /\ pc' = "down" /\ pc # "down"
        /\ crashes < MaxCrashes /\ crashes' = crashes + 1
        /\ UNCHANGED <<promised, horizon>>
    <2>1. doubt' = IF InCall THEN call ELSE doubt
      BY DEF Crash
    <2>2. /\ InCall => doubt' = call
          /\ ~InCall => doubt' = doubt
      BY <2>1 DEF InCall
    <2> QED
      BY <2>2 DEF Crash
  <1>2. ~Live' /\ MemoryFollows'
    BY <1>1 DEF Live, MemoryFollows
  <1>3. PICK kind \in Crashes, n \in 0..Len(file) :
          /\ IF kind = "power" THEN durable <= n /\ durable' = Len(file')
                               ELSE n = Len(file) /\ durable' = durable
          /\ file' \in Seq(LogRecord \cup {Torn})
          /\ \A k \in 1..n : file'[k] = file[k]
          /\ \/ Len(file') = n
             \/ /\ Len(file') = n + 1 /\ file'[n + 1] = Torn
                /\ n < Len(file) \/ (pc = "write" /\ written < Len(pending))
    BY CrashLeaves DEF Base
  <1>4. Len(file) \in Nat /\ written \in Nat /\ crashes \in Nat /\ durable \in Nat
        /\ MaxCrashes \in Nat
    BY FileFacts, LogAssumption DEF Base
  <1>5. SyncedTo(Len(file))'
    <2>1. SUFFICES ASSUME "power" \in Crashes, crashes + 1 < MaxCrashes
                   PROVE  Len(file') <= durable'
      BY <1>1 DEF SyncedTo
    <2>2. kind = "power"
      BY <1>4, <2>1, LogAssumption DEF Reliable
    <2>3. Len(file') \in Nat
      BY <1>3, <1>4
    <2> QED
      BY <1>3, <2>2, <2>3
  <1>6. CASE Live
    <2> DEFINE s == Len(file) - Done
               m == n - s
    <2>1. /\ s \in 0..Len(file) /\ s + Done = Len(file) /\ Done \in Nat
          /\ doubt = NoCall
          /\ Carries(file, s, call.rows, Done) /\ Promises(file, s, promised, horizon)
          /\ SyncedTo(Len(file) - written)
      BY <1>6, LiveFacts
    <2>2. written <= Done /\ Done <= Len(call.rows)
      <3>1. CASE pc = "write"
        <4>1. Done = call.from + written /\ call.from \in Nat /\ call.taken <= Len(call.rows)
              /\ call.taken \in Nat /\ Len(call.rows) \in Nat
          BY <3>1, TrailFacts DEF Done, Base
        <4>2. Len(pending) = call.taken - call.from /\ written <= Len(pending)
          BY <3>1 DEF Base, LogOrdered, LogTypes, TypeOK
        <4> QED
          BY <1>4, <4>1, <4>2
      <3>2. CASE pc # "write"
        BY <3>2, DoneFacts, TrailFacts DEF Base
      <3> QED
        BY <3>1, <3>2
    <2>3. Len(file) - written <= n
      <3>1. n \in Nat
        BY <1>4
      <3>2. CASE kind = "power"
        <4>1. Len(file) - written <= durable
          BY <1>1, <2>1, <3>2 DEF SyncedTo
        <4>2. durable <= n
          BY <1>3, <3>2
        <4> QED
          BY <1>4, <3>1, <4>1, <4>2
      <3>3. CASE kind # "power"
        <4>1. n = Len(file)
          BY <1>3, <3>3
        <4> QED
          BY <1>4, <4>1
      <3> QED
        BY <3>2, <3>3
    <2>4. m \in 0..Done /\ s + m = n /\ n \in Nat
      BY <1>4, <2>1, <2>2, <2>3
    <2> HIDE DEF s, m
    <2>5. doubt'.rows = call.rows
      <3>1. CASE InCall
        BY <1>1, <3>1
      <3>2. CASE ~InCall
        BY <1>1, <2>1, <3>2 DEF Base, LogTypes, CallPlaced
      <3> QED
        BY <3>1, <3>2
    <2>6. Promises(file', s, promised, horizon)
      <3>1. s \in Nat /\ \A k \in 1..s : file[k] = file'[k]
        BY <1>3, <1>4, <2>1, <2>4
      <3> QED
        BY <2>1, <3>1, PromisesSame
    <2>7. Carries(file', s, call.rows, m)
      <3>1. s + m <= Len(file')
        BY <1>3, <2>4
      <3>2. \A k \in 1..(s + m) : file'[k] # Torn
        BY <1>3, <2>1, <2>4 DEF Carries
      <3>3. ASSUME NEW k \in 1..m PROVE file'[s + k] = RecordOf(call.rows[k])
        <4>1. k \in 1..Done /\ s + k \in 1..n
          BY <2>1, <2>4
        <4> QED
          BY <1>3, <2>1, <4>1 DEF Carries
      <3> QED
        BY <3>1, <3>2, <3>3 DEF Carries
    <2>8. s \in 0..Len(file') /\ m \in 0..Len(call.rows)
      <3>1. Len(call.rows) \in Nat
        BY TrailFacts DEF Base
      <3> QED
        <4>1. m \in 0..Len(call.rows)
          <5>1. Done \in Nat
            BY DoneFacts DEF Base
          <5>2. Done <= Len(call.rows) /\ m \in 0..Done
            BY <2>2, <2>4
          <5> QED
            BY <3>1, <5>1, <5>2
        <4>2. s \in 0..Len(file')
          BY <1>3, <1>4, <2>1, <2>4
        <4> QED
          BY <4>1, <4>2
    <2>9. Len(file') = s + m \/ (Len(file') = s + m + 1 /\ file'[Len(file')] = Torn)
      BY <1>3, <2>4
    <2> QED
      BY <1>1, <1>2, <1>5, <2>5, <2>6, <2>7, <2>8, <2>9 DEF LogKept
  <1>7. CASE ~Live
    <2>1. pc = "replay" /\ SyncedTo(Len(file))
      BY <1>1, <1>7 DEF Live, LogKept
    <2>2. n = Len(file)
      BY <1>1, <1>3, <1>4, <2>1 DEF SyncedTo
    <2>3. Len(file') = Len(file) /\ \A k \in 1..Len(file) : file'[k] = file[k]
      BY <1>3, <1>4, <2>1, <2>2
    <2>4. doubt' = doubt
      BY <1>1, <2>1 DEF InCall
    <2>5. PICK s \in 0..Len(file), m \in 0..Len(doubt.rows) :
              /\ Carries(file, s, doubt.rows, m)
              /\ Promises(file, s, promised, horizon)
              /\ \/ Len(file) = s + m
                 \/ Len(file) = s + m + 1 /\ file[Len(file)] = Torn
      BY <1>7 DEF LogKept
    <2>6. Promises(file', s, promised, horizon)
      <3>1. s \in Nat /\ \A k \in 1..s : file[k] = file'[k]
        BY <1>4, <2>3
      <3> QED
        BY <2>5, <3>1, PromisesSame
    <2>7. s + m <= Len(file) /\ s \in Nat /\ m \in Nat
      BY <1>4, <2>5 DEF Carries
    <2>8. Carries(file', s, doubt.rows, m)
      <3>1. \A k \in 1..(s + m) : k \in 1..Len(file)
        BY <1>4, <2>7
      <3>2. \A k \in 1..m : s + k \in 1..Len(file)
        BY <1>4, <2>7
      <3> QED
        BY <2>3, <2>5, <3>1, <3>2 DEF Carries
    <2>9. \/ Len(file') = s + m
          \/ Len(file') = s + m + 1 /\ file'[Len(file')] = Torn
      BY <1>4, <2>3, <2>5, <2>7
    <2> QED
      BY <1>1, <1>2, <1>5, <2>3, <2>4, <2>6, <2>8, <2>9 DEF LogKept
  <1> QED
    BY <1>2, <1>6, <1>7

\* A record replayed: memory sees one record more.
LEMMA ReplayFollows ==
  ASSUME Base, LogKept, MemoryFollows, Replay PROVE LogKept' /\ MemoryFollows'
  <1> DEFINE record == file[at + 1]
             row == RowOf(record)
  <1>1. /\ at \in Nat /\ at + 1 \in 1..Len(file) /\ at' = at + 1 /\ record # Torn
        /\ record \in LogRecord /\ row \in LogRow /\ versions' = Put(versions, row)
        /\ record.ts >= clock /\ pc = "replay" /\ pc' = pc
        /\ UNCHANGED <<file, durable, promised, doubt, horizon, crashes>>
    BY ReplayFacts DEF Base
  <1>2. ~Live /\ ~Live'
    BY <1>1 DEF Live
  <1>3. LogKept'
    BY <1>1, <1>2 DEF LogKept, Carries, Promises, Stamp, SyncedTo, Before, Sees, Writes
  <1>4. /\ Before(versions, clock) /\ versions \in SUBSET LogVersion /\ clock \in Nat
        /\ row.ts <= MaxClock /\ clock <= row.ts /\ Alike(record, row)
    <2>1. row.ts = record.ts /\ Alike(record, row)
      BY DEF RowOf, Alike
    <2>2. record.ts <= MaxClock /\ record.ts \in Nat
      BY <1>1 DEF Base, Stamped, LogRecord
    <2>3. Before(versions, clock)
      BY <1>1 DEF Base, Trailing
    <2> HIDE DEF record, row
    <2> QED
      BY <1>1, <2>1, <2>2, <2>3, TrailFacts DEF Base
  <1>5. SUFFICES ASSUME NEW id \in Ids, NEW x \in Vecs, NEW ts \in 0..MaxClock
                 PROVE  Sees(versions', id, x, ts) <=> Writes(file, at + 1, id, x, ts)
    BY <1>1, <1>2, <1>3 DEF MemoryFollows
  <1>6. Sees(versions, id, x, ts) <=> Writes(file, at, id, x, ts)
    BY <1>1 DEF MemoryFollows
  <1> HIDE DEF row
  <1>7. Sees(versions', id, x, ts) <=>
           \/ row.id = id /\ row.op = "insert" /\ row.vec = x /\ row.ts <= ts
           \/ Sees(versions, id, x, ts) /\ ~(row.id = id /\ row.ts <= ts)
    BY <1>1, <1>4, PutSees
  <1> DEFINE one == [k \in {1} |-> row]
  <1>8. Writes(file, at + 1, id, x, ts) <=>
          \/ Writes(one, 1, id, x, ts)
          \/ Writes(file, at, id, x, ts) /\ ~Touches(one, 1, id, ts)
    <2>1. \A k \in 1..1 : Alike(file[at + k], one[k])
      BY <1>4
    <2> HIDE DEF one
    <2> QED
      BY <1>1, <2>1, WritesSplit
  <1>9. /\ Writes(one, 1, id, x, ts) <=> row.id = id /\ row.op = "insert" /\ row.vec = x /\ row.ts <= ts
        /\ Touches(one, 1, id, ts) <=> row.id = id /\ row.ts <= ts
    <2>1. one[1] = row
      OBVIOUS
    <2> HIDE DEF one
    <2> QED
      BY <2>1 DEF Writes, Touches
  <1> QED
    BY <1>6, <1>7, <1>8, <1>9

\* Where replay ends, memory sees one of the outcomes, which Open promises.
LEMMA OpenKept ==
  ASSUME Base, LogKept, MemoryFollows, Open PROVE LogKept' /\ MemoryFollows'
  <1>1. /\ pc = "replay" /\ pc' = "idle" /\ doubt' = NoCall /\ call = NoCall /\ call' = NoCall
        /\ durable' = Smaller(durable, at) /\ written = 0 /\ written' = 0
        /\ UNCHANGED <<versions, clock, committed, at, horizon, crashes>>
    <2>1. pc = "replay" /\ call = NoCall /\ written = 0
      BY DEF Open, Base, LogTypes, CallPlaced, InCall, Unopened
    <2> QED
      BY <2>1 DEF Open
  <1>2. /\ ~Live /\ Live' /\ Done' = 0 /\ Applied' = 0 /\ Ended' = 0
    BY <1>1, NoCallOK DEF Live, NoCall, Done, Applied, Ended
  <1>3. /\ Len(file') = at /\ at \in 0..Len(file) /\ \A k \in 1..at : file'[k] = file[k]
        /\ at = Len(file) \/ (at + 1 \in 1..Len(file) /\ file[at + 1] = Torn)
        /\ Len(file) \in Nat /\ durable \in Nat
    BY OpenFacts, FileFacts DEF Base
  <1>4. /\ \A k \in 1..at : file[k] # Torn
        /\ clock = Stamp(file, at) /\ committed = clock /\ Before(versions, clock)
        /\ clock \in 0..MaxClock /\ clock \in Nat
        /\ versions \in SUBSET LogVersion /\ promised \in SUBSET LogVersion
    <2>1. /\ \A k \in 1..at : file[k] # Torn
          /\ clock = Stamp(file, at) /\ committed = clock /\ Before(versions, clock)
      BY <1>1 DEF Base, LogOrdered, Trailing, Stamp
    <2> QED
      BY <2>1, TrailFacts, LimitFacts DEF Base, Stamped
  <1>5. PICK s \in 0..Len(file), m \in 0..Len(doubt.rows) :
              /\ Carries(file, s, doubt.rows, m)
              /\ Promises(file, s, promised, horizon)
              /\ \/ Len(file) = s + m
                 \/ Len(file) = s + m + 1 /\ file[Len(file)] = Torn
    BY <1>2 DEF LogKept
  <1>6. /\ doubt.rows \in Seq(LogRow) /\ doubt.ts \in 0..MaxClock /\ doubt.ts \in Nat
        /\ Len(doubt.rows) \in Nat /\ \A k \in 1..Len(doubt.rows) : doubt.rows[k].ts = doubt.ts
    BY LimitFacts DEF Base, LogTypes, CallOK
  <1>7. at = s + m /\ s \in Nat /\ m \in Nat /\ m <= Len(doubt.rows)
    <2>1. s \in Nat /\ m \in Nat /\ m <= Len(doubt.rows) /\ s + m <= Len(file)
      BY <1>3, <1>5, <1>6 DEF Carries
    <2>2. at >= s + m
      BY <1>3, <1>5, <2>1 DEF Carries
    <2>3. at <= s + m
      BY <1>3, <1>4, <1>5, <2>1
    <2> QED
      BY <1>3, <2>1, <2>2, <2>3
  <1>8. /\ Stamp(file, s) \in Nat /\ Stamp(file, s) <= clock
        /\ m > 0 => clock = doubt.ts
    <2>1. Stamp(file, s) \in Nat /\ Stamp(file, s) <= Stamp(file, at)
      BY <1>3, <1>4, <1>7, StampFacts DEF Base
    <2>2. ASSUME m > 0 PROVE clock = doubt.ts
      <3>1. file[s + m] = RecordOf(doubt.rows[m]) /\ s + m # 0 /\ m \in 1..Len(doubt.rows)
        BY <1>5, <1>7, <2>2 DEF Carries
      <3>2. doubt.rows[m].ts = doubt.ts
        BY <1>6, <3>1
      <3> QED
        BY <1>4, <1>7, <3>1, <3>2 DEF Stamp, RecordOf
    <2> QED
      BY <1>4, <2>1, <2>2
  <1>9. ASSUME NEW id \in Ids, NEW x \in Vecs, NEW ts \in 0..MaxClock
        PROVE  Sees(versions, id, x, ts) <=> Writes(file, at, id, x, ts)
    BY <1>1 DEF MemoryFollows
  <1> DEFINE Rows(n) == SubSeq(doubt.rows, 1, n)
             Outcome(n) == PutAll(promised, Rows(n))
  <1>10. ASSUME NEW n \in 0..Len(doubt.rows)
         PROVE  /\ Rows(n) \in Seq(LogRow) /\ Len(Rows(n)) = n
                /\ \A k \in 1..n : Rows(n)[k] = doubt.rows[k] /\ Rows(n)[k].ts = doubt.ts
                /\ Outcome(n) \in SUBSET LogVersion
    <2>1. /\ 0 + 1 = 1 /\ n - 0 = n /\ 0 \in Nat /\ n \in Nat /\ 0 <= n /\ n <= Len(doubt.rows)
          /\ \A k \in 1..n : 0 + k = k
      BY <1>6
    <2>2. /\ SubSeq(doubt.rows, 0 + 1, n) \in Seq(LogRow)
          /\ Len(SubSeq(doubt.rows, 0 + 1, n)) = n - 0
          /\ \A k \in 1..(n - 0) : SubSeq(doubt.rows, 0 + 1, n)[k] = doubt.rows[0 + k]
      BY <1>6, <2>1, Part
    <2>3. /\ Rows(n) \in Seq(LogRow) /\ Len(Rows(n)) = n
          /\ \A k \in 1..n : Rows(n)[k] = doubt.rows[k]
      BY <2>1, <2>2
    <2>4. \A k \in 1..n : k \in 1..Len(doubt.rows)
      BY <1>6
    <2> HIDE DEF Rows
    <2> QED
      BY <1>4, <1>6, <2>3, <2>4, PutAllType
  <1> HIDE DEF Rows
  <1>11. ASSUME NEW id \in Ids, NEW x \in Vecs, NEW ts \in 0..MaxClock
         PROVE  Sees(Outcome(m), id, x, ts) <=> Writes(file, at, id, x, ts)
    <2>1. /\ Before(promised, Stamp(file, s))
          /\ Sees(promised, id, x, ts) <=> Writes(file, s, id, x, ts)
      BY <1>5 DEF Promises
    <2>2. PICK t \in 0..MaxClock : Stamp(file, s) <= t /\ \A k \in 1..m : Rows(m)[k].ts = t
      <3>1. m \in 0..Len(doubt.rows)
        BY <1>6, <1>7
      <3>2. CASE m = 0
        <4>1. Stamp(file, s) \in 0..MaxClock /\ \A k \in 1..m : FALSE
          BY <1>4, <1>8, <3>2, LimitFacts
        <4>2. Stamp(file, s) <= Stamp(file, s)
          BY <1>8
        <4> QED
          BY <4>1, <4>2
      <3>3. CASE m # 0
        <4>1. m > 0
          BY <1>7, <3>3
        <4> QED
          BY <1>6, <1>8, <1>10, <3>1, <4>1
      <3> QED
        BY <3>2, <3>3
    <2>3. Sees(Outcome(m), id, x, ts) <=>
            \/ Writes(Rows(m), m, id, x, ts)
            \/ Sees(promised, id, x, ts) /\ ~Touches(Rows(m), m, id, ts)
      <3>1. m \in 0..Len(doubt.rows)
        BY <1>6, <1>7
      <3>2. Rows(m) \in Seq(LogRow) /\ Len(Rows(m)) = m
        BY <1>10, <3>1
      <3>3. \A k \in 1..Len(Rows(m)) : Rows(m)[k].ts = t
        BY <2>2, <3>2
      <3>4. Sees(PutAll(promised, Rows(m)), id, x, ts) <=>
            \/ Writes(Rows(m), Len(Rows(m)), id, x, ts)
            \/ Sees(promised, id, x, ts) /\ ~Touches(Rows(m), Len(Rows(m)), id, ts)
        BY <1>4, <1>8, <2>1, <2>2, <3>2, <3>3, PutAllSees
      <3> QED
        BY <3>2, <3>4
    <2>4. Writes(file, s + m, id, x, ts) <=>
            \/ Writes(doubt.rows, m, id, x, ts)
            \/ Writes(file, s, id, x, ts) /\ ~Touches(doubt.rows, m, id, ts)
      <3>1. s \in Nat /\ m \in Nat /\ Carries(file, s, doubt.rows, m)
        BY <1>5, <1>7
      <3> QED
        BY <3>1, CarriesWrites
    <2>5. /\ Writes(Rows(m), m, id, x, ts) <=> Writes(doubt.rows, m, id, x, ts)
          /\ Touches(Rows(m), m, id, ts) <=> Touches(doubt.rows, m, id, ts)
      <3>1. \A k \in 1..m : Rows(m)[k] = doubt.rows[k]
        BY <1>6, <1>7, <1>10
      <3>2. \A k \in 1..m : Alike(Rows(m)[k], doubt.rows[k])
        BY <3>1 DEF Alike
      <3> QED
        BY <1>7, <3>2, WritesAlike
    <2> QED
      BY <1>7, <2>1, <2>3, <2>4, <2>5
  <1> HIDE DEF Outcome
  <1>12. Outcome(m) \in Outcomes /\ SameAnswers(versions, Outcome(m))
    <2>1. m \in 0..(IF clock < doubt.ts THEN 0 ELSE Len(doubt.rows))
      BY <1>4, <1>6, <1>7, <1>8
    <2>2. Outcome(m) \in Outcomes
      BY <2>1 DEF Outcomes, Outcome, Rows
    <2>3. ASSUME NEW ts \in 0..MaxClock PROVE AsOf(versions, ts) = AsOf(Outcome(m), ts)
      <3>1. Outcome(m) \in SUBSET LogVersion
        BY <1>6, <1>7, <1>10 DEF Outcome
      <3>2. \A id \in Ids, x \in Vecs : Sees(versions, id, x, ts) <=> Sees(Outcome(m), id, x, ts)
        BY <1>9, <1>11 DEF Outcome
      <3>3. ts \in Nat
        BY LimitFacts
      <3> QED
        BY <1>4, <3>1, <3>2, <3>3, SeesAsOf
    <2> QED
      BY <2>2, <2>3 DEF SameAnswers
  <1>13. promised' \in Outcomes /\ SameAnswers(versions, promised')
    BY <1>12 DEF Open
  <1>14. PICK n \in 0..(IF clock < doubt.ts THEN 0 ELSE Len(doubt.rows)) : promised' = Outcome(n)
    BY <1>13 DEF Outcomes, Outcome, Rows
  <1>15. n \in 0..Len(doubt.rows) /\ promised' \in SUBSET LogVersion
         /\ \A k \in 1..n : doubt.ts <= clock
    <2>1. n \in 0..Len(doubt.rows) /\ \A k \in 1..n : doubt.ts <= clock
      BY <1>4, <1>6
    <2> QED
      BY <1>10, <1>14, <2>1 DEF Outcome
  <1>16. Before(promised', clock)
    <2>1. Before(promised, Stamp(file, s))
      BY <1>5 DEF Promises
    <2>2. Rows(n) \in Seq(LogRow) /\ Len(Rows(n)) = n /\ \A k \in 1..n : Rows(n)[k].ts <= clock
      BY <1>10, <1>15
    <2>3. \A k \in 1..Len(Rows(n)) : Rows(n)[k].ts <= clock
      BY <2>2
    <2>4. Before(PutAll(promised, Rows(n)), clock)
      BY <1>4, <1>8, <2>1, <2>2, <2>3, PutAllBefore
    <2> QED
      BY <1>14, <2>4 DEF Outcome
  <1>17. ASSUME NEW id \in Ids, NEW x \in Vecs, NEW ts \in 0..MaxClock
         PROVE  Sees(promised', id, x, ts) <=> Sees(versions, id, x, ts)
    <2>1. AsOf(versions, ts) = AsOf(promised', ts) /\ ts \in Nat
      BY <1>13, LimitFacts DEF SameAnswers
    <2> QED
      BY <1>4, <1>15, <2>1, SeesAsOf
  <1>18. Promises(file, at, promised', horizon)
    <2>1. horizon <= Stamp(file, s) + 1
      BY <1>5 DEF Promises
    <2>2. horizon <= Stamp(file, at) + 1
      BY <1>4, <1>8, <2>1, TrailFacts DEF Base
    <2> QED
      BY <1>4, <1>9, <1>16, <1>17, <2>2 DEF Promises
  <1>19. Promises(file', at, promised', horizon) /\ Stamp(file', at) = clock
    <2>1. at \in Nat /\ \A k \in 1..at : file[k] = file'[k]
      BY <1>3
    <2> QED
      BY <1>4, <1>18, <2>1, PromisesSame
  <1>20. Carries(file', at, NoCall.rows, 0)
    BY <1>3, <1>4 DEF Carries
  <1>21. SyncedTo(Len(file) - written)'
    <2>1. "power" \in Crashes /\ crashes < MaxCrashes => Len(file) <= durable
      BY <1>2 DEF LogKept, SyncedTo
    <2>2. Len(file') - written' = at
      BY <1>1, <1>3
    <2> QED
      BY <1>1, <1>3, <2>1, <2>2 DEF SyncedTo, Smaller
  <1>22. Len(file') - Done' = at /\ Done' <= Len(file')
    BY <1>2, <1>3
  <1>23. committed' <= Stamp(file', at)
    BY <1>1, <1>4, <1>19
  <1>24. LogKept'
    BY <1>1, <1>2, <1>19, <1>20, <1>21, <1>22, <1>23 DEF LogKept
  <1>25. MemoryFollows'
    <2>1. SUFFICES ASSUME NEW id \in Ids, NEW x \in Vecs, NEW ts \in 0..MaxClock
                   PROVE  Sees(versions, id, x, ts) <=>
                            \/ Writes(call'.rows, 0, id, x, ts)
                            \/ Sees(promised', id, x, ts) /\ ~Touches(call'.rows, 0, id, ts)
      BY <1>1, <1>2 DEF MemoryFollows
    <2> QED
      BY <1>17, NoRows
  <1> QED
    BY <1>24, <1>25

\* The inductive invariant behind SurvivesUntilFault.
KeptBase == LogBase /\ (faulted = {} => Trailing /\ LogKept /\ MemoryFollows)

\* It holds at first,
LEMMA KeptInit == Init => KeptBase
  <1> SUFFICES ASSUME Init PROVE Trailing /\ LogKept /\ MemoryFollows
    BY BaseInit DEF KeptBase
  <1>1. /\ pc = "down" /\ file = << >> /\ promised = {} /\ horizon = 0 /\ doubt = NoCall
        /\ durable = 0
    BY DEF Init
  <1>2. Trailing /\ MemoryFollows /\ ~Live
    BY <1>1 DEF Trailing, MemoryFollows, Live
  <1>3. Len(file) = 0 /\ Len(doubt.rows) = 0
    BY <1>1, EmptySeq, NoCallOK
  <1>4. Carries(file, 0, doubt.rows, 0)
    BY <1>3 DEF Carries
  <1>5. Promises(file, 0, promised, horizon)
    BY <1>1, NoRows DEF Promises, Sees, Before, Stamp
  <1>6. SyncedTo(Len(file))
    BY <1>1, <1>3 DEF SyncedTo
  <1>7. 0 \in 0..Len(file) /\ 0 \in 0..Len(doubt.rows) /\ Len(file) = 0 + 0
    BY <1>3
  <1>8. LogKept
    BY <1>2, <1>4, <1>5, <1>6, <1>7 DEF LogKept
  <1> QED
    BY <1>2, <1>8

\* each step keeps its parts while nothing has failed,
LEMMA KeptStep ==
  ASSUME Base, Reliable, LogKept, MemoryFollows, [Next]_vars, faulted' = {}
  PROVE  LogKept' /\ MemoryFollows'
  <1>1. ASSUME BeginInsert \/ BeginDelete \/ BeginBatch \/ BeginChanges
        PROVE  LogKept' /\ MemoryFollows'
    BY <1>1, BeginKept, BeginFollows
  <1>2. CASE Apply
    BY <1>2, RefusedKept, AppliedKept
  <1>3. ASSUME Refuse \/ FailWrite PROVE FALSE
    BY <1>3 DEF Refuse, FailWrite, Fault
  <1>4. CASE Save \/ UNCHANGED vars
    <2>1. UNCHANGED <<memory, file, durable, ghosts>>
      BY <1>4 DEF Save, vars, disk
    <2> QED
      BY <2>1 DEF memory, ghosts, LogKept, MemoryFollows, Live, Carries, Promises, Stamp, SyncedTo,
         Before, Sees, Writes, Touches, Done, Applied, Ended
  <1>5. CASE Start
    <2>1. /\ pc = "down" /\ pc' = "replay" /\ at' = 0 /\ versions' = {}
          /\ UNCHANGED <<file, durable, promised, horizon, doubt, crashes>>
      BY <1>5 DEF Start, disk, ghosts, Base, LogTypes, Unopened
    <2>2. LogKept'
      BY <2>1 DEF LogKept, Live, Carries, Promises, Stamp, SyncedTo, Before, Sees, Writes
    <2>3. MemoryFollows'
      BY <2>1, NoRows DEF MemoryFollows, Live, Sees
    <2> QED
      BY <2>2, <2>3
  <1>6. CASE GiveUp
    <2>1. /\ pc = "replay" /\ pc' = "down"
          /\ UNCHANGED <<file, durable, promised, horizon, doubt, crashes>>
      BY <1>6 DEF GiveUp, disk, ghosts
    <2> QED
      BY <2>1 DEF LogKept, MemoryFollows, Live, Carries, Promises, Stamp, SyncedTo, Before, Sees, Writes
  <1> QED
    BY <1>1, <1>2, <1>3, <1>4, <1>5, <1>6, StageKept, WriteKept, EndFlushKept, CommitKept,
       VacuumKept, CrashKept, ReplayFollows, OpenKept
       DEF Next, Calls, Recovery

\* and all of it.
LEMMA KeptBaseStep == ASSUME Reliable PROVE KeptBase /\ [Next]_vars => KeptBase'
  <1> SUFFICES ASSUME KeptBase, [Next]_vars PROVE KeptBase'
    OBVIOUS
  <1>1. LogBase'
    BY BaseStep DEF KeptBase
  <1>2. SUFFICES ASSUME faulted' = {} PROVE Trailing' /\ LogKept' /\ MemoryFollows'
    BY <1>1 DEF KeptBase
  <1>3. Base /\ LogKept /\ MemoryFollows
    BY <1>2, FaultsStay DEF KeptBase, LogBase, Base
  <1> QED
    BY <1>2, <1>3, TrailingStep, KeptStep DEF Base

\* Between calls the memory answers, where a vacuum left it the history to, as
\* the acknowledged calls do.
LEMMA KeptSurvives == ASSUME Base, LogKept, MemoryFollows PROVE Survives
  <1> SUFFICES ASSUME pc = "idle",
                      NEW ts \in (IF horizon = 0 THEN 0 ELSE horizon - 1)..committed
               PROVE  AsOf(versions, ts) = AsOf(promised, ts)
    BY DEF Survives
  <1>1. Live /\ call = NoCall
    BY DEF Live, Base, LogTypes, CallPlaced, InCall
  <1>2. /\ versions \in SUBSET LogVersion /\ promised \in SUBSET LogVersion
        /\ horizon \in Nat /\ committed \in Nat /\ committed <= MaxClock /\ MaxClock \in Nat
    <2>1. /\ committed <= Stamp(file, Len(file) - Done)
          /\ Stamp(file, Len(file) - Done) \in 0..MaxClock
      BY <1>1, LiveFacts
    <2> QED
      BY <2>1, TrailFacts, LimitFacts DEF Base
  <1>3. ts \in 0..MaxClock /\ ts \in Nat /\ horizon <= ts + 1
    BY <1>2
  <1>4. Applied = 0 /\ Ended = 0
    BY <1>1, NoCallApplied
  <1>5. ASSUME NEW id \in Ids, NEW x \in Vecs
        PROVE  Sees(versions, id, x, ts) <=> Sees(promised, id, x, ts)
    <2>1. Sees(versions, id, x, ts) <=>
            \/ Writes(call.rows, 0, id, x, ts)
            \/ Sees(promised, id, x, ts) /\ ~Touches(call.rows, 0, id, ts)
      BY <1>1, <1>3, <1>4 DEF MemoryFollows
    <2> QED
      BY <2>1, NoRows
  <1> QED
    BY <1>2, <1>3, <1>5, SeesAsOf

\* As long as no write, sync or vector failed, and the log is reliable, what
\* acknowledged calls wrote survives every crash: between calls the index answers,
\* at every timestamp no vacuum gave up, exactly as they and the leading rows of
\* the calls crashes interrupted make it (Wal, cv_create_with_wal).
THEOREM AcknowledgedSurvives == ASSUME Reliable PROVE Spec => []SurvivesUntilFault
  <1>1. KeptBase => SurvivesUntilFault
    BY KeptSurvives DEF KeptBase, LogBase, Base, SurvivesUntilFault
  <1>2. KeptBase /\ [Next]_vars => KeptBase'
    BY KeptBaseStep
  <1> QED
    BY <1>1, <1>2, KeptInit, PTL DEF Spec
=============================================================================
