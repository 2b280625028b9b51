--------------------------- MODULE ReferenceProof ---------------------------
(***************************************************************************)
(* Proofs about ReferenceIndex, for every number of ids, pages, slots and  *)
(* searches, and one writer.                                               *)
(***************************************************************************)
EXTENDS ReferenceIndex, FiniteSetTheorems, SequenceTheorems, WellFoundedInduction, TLAPS

-----------------------------------------------------------------------------
(* Sequences in order.                                                     *)

\* A strict total order on a set.
IsOrder(S, before) ==
  /\ \A x, y, z \in S : <<x, y>> \in before /\ <<y, z>> \in before => <<x, z>> \in before
  /\ \A x \in S : <<x, x>> \notin before
  /\ \A x, y \in S : x = y \/ <<x, y>> \in before \/ <<y, x>> \in before

Once(seq) == \A j, k \in DOMAIN seq : seq[j] = seq[k] => j = k
Elements(seq) == {seq[k] : k \in DOMAIN seq}
Before(S, before, x) == {y \in S : <<y, x>> \in before}

\* A set in order lists each of its members once.
LEMMA InOrderIs ==
  ASSUME NEW S, IsFiniteSet(S), NEW before, IsOrder(S, before), NEW f, f = InOrder(S, before)
  PROVE  /\ Cardinality(S) \in Nat
         /\ f \in [1..Cardinality(S) -> S]
         /\ Once(f) /\ Elements(f) = S
         /\ \A j, k \in DOMAIN f : j < k => <<f[j], f[k]>> \in before
  <1> DEFINE n == Cardinality(S)
             T == 0..(n - 1)
             rank == [x \in S |-> Cardinality(Before(S, before, x))]
  <1>1. n \in Nat
    BY FS_CardinalityType
  <1>2. ASSUME NEW x \in S
        PROVE  Before(S, before, x) \in SUBSET S /\ Before(S, before, x) # S
    BY DEF IsOrder, Before
  <1>3. \A x \in S : IsFiniteSet(Before(S, before, x)) /\ rank[x] \in Nat
    BY <1>2, FS_Subset, FS_CardinalityType
  <1>4. \A x \in S : rank[x] \in T
    <2> TAKE x \in S
    <2>1. Cardinality(Before(S, before, x)) <= n /\ Cardinality(Before(S, before, x)) # n
      BY <1>2, FS_Subset
    <2> QED
      BY <1>1, <1>3, <2>1
  <1>5. ASSUME NEW x \in S, NEW y \in S, <<x, y>> \in before
        PROVE  rank[x] < rank[y]
    <2>1. Before(S, before, x) \in SUBSET Before(S, before, y)
      BY <1>5 DEF IsOrder, Before
    <2>2. x \in Before(S, before, y) /\ x \notin Before(S, before, x)
      BY <1>5 DEF IsOrder, Before
    <2>3. /\ Cardinality(Before(S, before, x)) <= Cardinality(Before(S, before, y))
          /\ Cardinality(Before(S, before, x)) # Cardinality(Before(S, before, y))
      BY <1>3, <2>1, <2>2, FS_Subset
    <2> QED
      BY <1>3, <2>3
  <1>6. rank \in [S -> T]
    BY <1>4
  <1> HIDE DEF rank
  <1>7. \A x, y \in S : x = y \/ rank[x] < rank[y] \/ rank[y] < rank[x]
    BY <1>5 DEF IsOrder
  <1>8. \A x \in S : rank[x] \in Int
    BY <1>1, <1>6
  <1>9. \A x, y \in S : rank[x] = rank[y] => x = y
    BY <1>7, <1>8
  <1>10. \A x, y \in S : <<y, x>> \in before => rank[y] < rank[x]
    BY <1>5
  <1>11. ASSUME NEW x \in S, NEW y \in S, rank[x] < rank[y]
        PROVE  <<x, y>> \in before
    <2>1. rank[x] \in Int /\ rank[y] \in Int
      BY <1>8
    <2>2. x # y /\ <<y, x>> \notin before
      BY <1>11, <1>10, <2>1
    <2> QED
      BY <2>2 DEF IsOrder
  <1>12. IsFiniteSet(T) /\ Cardinality(T) = n
    BY <1>1, FS_Interval
  <1>13. rank \in Injection(S, T)
    BY <1>6, <1>9 DEF Injection, IsInjective
  <1>14. rank \in Surjection(S, T)
    BY <1>12, <1>13, FS_Injection
  <1>15. ASSUME NEW k \in 1..n
         PROVE  f[k] \in S /\ rank[f[k]] = k - 1
    <2>1. f[k] = CHOOSE x \in S : rank[x] = k - 1
      BY DEF InOrder, Before, rank
    <2>2. k - 1 \in T
      BY <1>1
    <2>3. \E x \in S : rank[x] = k - 1
      BY <1>14, <2>2 DEF Surjection
    <2> QED
      BY <2>1, <2>3
  <1>16. f \in [1..n -> S]
    BY <1>15 DEF InOrder
  <1>17. Once(f)
    BY <1>15, <1>16 DEF Once
  <1>18. Elements(f) = S
    <2>1. ASSUME NEW x \in S PROVE x \in Elements(f)
      <3>1. rank[x] + 1 \in 1..n
        BY <1>1, <1>4
      <3>2. f[rank[x] + 1] = x
        BY <1>1, <1>3, <1>9, <1>15, <3>1
      <3> QED
        BY <1>16, <3>1, <3>2 DEF Elements
    <2> QED
      BY <1>16, <2>1 DEF Elements
  <1>19. \A j, k \in 1..n : j < k => <<f[j], f[k]>> \in before
    BY <1>11, <1>15
  <1> QED
    BY <1>1, <1>16, <1>17, <1>18, <1>19

\* Positions or slots in increasing order.
LEMMA IncreasingIs ==
  ASSUME NEW S \in SUBSET Int, IsFiniteSet(S), NEW f, f = Increasing(S)
  PROVE  /\ Cardinality(S) \in Nat
         /\ f \in [1..Cardinality(S) -> S]
         /\ Once(f) /\ Elements(f) = S
         /\ \A j, k \in DOMAIN f : j < k => f[j] < f[k]
  <1> DEFINE before == {e \in S \X S : e[1] < e[2]}
  <1>1. IsOrder(S, before)
    BY DEF IsOrder
  <1>2. \A j, k \in S : <<j, k>> \in before => j < k
    OBVIOUS
  <1>3. f = InOrder(S, before)
    BY DEF Increasing
  <1> HIDE DEF before
  <1>4. /\ Cardinality(S) \in Nat
        /\ f \in [1..Cardinality(S) -> S]
        /\ Once(f) /\ Elements(f) = S
        /\ \A j, k \in DOMAIN f : j < k => <<f[j], f[k]>> \in before
    BY <1>1, <1>3, InOrderIs
  <1>5. \A j, k \in DOMAIN f : j < k => f[j] < f[k]
    BY <1>2, <1>4
  <1> QED
    BY <1>4, <1>5

\* What is left of a sequence keeps its order and comes once if it came once.
LEMMA PartIs ==
  ASSUME NEW X, NEW seq \in Seq(X), NEW at \in SUBSET DOMAIN seq, NEW part, part = Part(seq, at)
  PROVE  /\ part \in Seq(X)
         /\ Elements(part) = {seq[k] : k \in at}
         /\ Once(seq) => Once(part)
  <1> DEFINE order == Increasing(at)
             n == Cardinality(at)
  <1>1. DOMAIN seq = 1..Len(seq) /\ Len(seq) \in Nat /\ \A k \in DOMAIN seq : seq[k] \in X
    OBVIOUS
  <1>2. at \in SUBSET Int
    BY <1>1
  <1>3. IsFiniteSet(DOMAIN seq)
    BY <1>1, FS_Interval
  <1>4. IsFiniteSet(at)
    BY <1>3, FS_Subset
  <1> HIDE DEF order, n
  <1>5. /\ n \in Nat
        /\ order \in [1..n -> at]
        /\ Once(order) /\ Elements(order) = at
    BY <1>2, <1>4, IncreasingIs DEF order, n
  <1>6. part = [k \in 1..n |-> seq[order[k]]]
    BY DEF Part, order, n
  <1>7. \A k \in 1..n : order[k] \in at /\ order[k] \in DOMAIN seq /\ seq[order[k]] \in X
    BY <1>1, <1>5
  <1>8. part \in [1..n -> X] /\ DOMAIN part = 1..n
    BY <1>6, <1>7
  <1>9. part \in Seq(X)
    BY <1>5, <1>8, IsASeq
  <1>10. ASSUME NEW k \in at PROVE seq[k] \in Elements(part)
    <2>1. PICK j \in 1..n : order[j] = k
      BY <1>5 DEF Elements
    <2> QED
      BY <1>6, <1>8, <2>1 DEF Elements
  <1>11. ASSUME NEW x \in Elements(part) PROVE x \in {seq[k] : k \in at}
    BY <1>6, <1>7, <1>8, <1>11 DEF Elements
  <1>12. Once(seq) => Once(part)
    BY <1>5, <1>6, <1>7, <1>8 DEF Once
  <1> QED
    BY <1>9, <1>10, <1>11, <1>12

LEMMA AppendIs ==
  ASSUME NEW X, NEW seq \in Seq(X), NEW x
  PROVE  /\ Elements(Append(seq, x)) = Elements(seq) \cup {x}
         /\ Once(seq) /\ x \notin Elements(seq) => Once(Append(seq, x))
  <1> DEFINE t == Append(seq, x)
             n == Len(seq)
  <1>1. n \in Nat /\ DOMAIN seq = 1..n
    OBVIOUS
  <1>2. DOMAIN t = 1..(n + 1) /\ t[n + 1] = x /\ \A k \in 1..n : t[k] = seq[k]
    OBVIOUS
  <1> HIDE DEF t, n
  <1>3. 1..(n + 1) = 1..n \cup {n + 1}
    BY <1>1
  <1>4. Elements(t) = Elements(seq) \cup {x}
    BY <1>1, <1>2, <1>3 DEF Elements
  <1>5. ASSUME Once(seq), x \notin Elements(seq)
        PROVE  Once(t)
    <2>1. \A j, k \in 1..n : seq[j] # x /\ (seq[j] = seq[k] => j = k)
      BY <1>1, <1>5 DEF Elements, Once
    <2> QED
      BY <1>1, <1>2, <1>3, <2>1 DEF Once
  <1> QED
    BY <1>4, <1>5 DEF t

\* Two sequences end to end.
Joins(s, a, b) == s = a \o b

LEMMA JoinIs ==
  ASSUME NEW X, NEW a \in Seq(X), NEW b \in Seq(X), NEW s, Joins(s, a, b)
  PROVE  /\ s \in Seq(X) /\ Elements(s) = Elements(a) \cup Elements(b)
         /\ Once(a) /\ Once(b) /\ (\A x \in Elements(a) : x \notin Elements(b)) => Once(s)
  <1>m. PICK m : m = Len(a)
    OBVIOUS
  <1>n. PICK n : n = Len(b)
    OBVIOUS
  <1>1. /\ m \in Nat /\ n \in Nat /\ DOMAIN a = 1..m /\ DOMAIN b = 1..n
        /\ s \in Seq(X) /\ DOMAIN s = 1..(m + n)
        /\ \A k \in 1..(m + n) : s[k] = IF k <= m THEN a[k] ELSE b[k - m]
    BY <1>m, <1>n, ConcatProperties DEF Joins
  <1>2. \A k \in 1..(m + n) : (k \in 1..m /\ s[k] = a[k]) \/ (k - m \in 1..n /\ s[k] = b[k - m])
    <2> TAKE k \in 1..(m + n)
    <2>1. m \in Nat /\ n \in Nat
      BY <1>1
    <2>2. (k \in 1..m /\ k <= m) \/ (k - m \in 1..n /\ ~(k <= m))
      BY <2>1
    <2> QED
      BY <1>1, <2>2
  <1>3. \A k \in 1..m : k \in 1..(m + n) /\ s[k] = a[k]
    BY <1>1
  <1>4. \A k \in 1..n : k + m \in 1..(m + n) /\ s[k + m] = b[k]
    <2>1. \A k \in 1..n : k + m \in 1..(m + n) /\ ~(k + m <= m) /\ (k + m) - m = k
      BY <1>1
    <2> QED
      BY <1>1, <2>1
  <1>5. Elements(s) = Elements(a) \cup Elements(b)
    <2>1. \A x \in Elements(s) : x \in Elements(a) \cup Elements(b)
      BY <1>1, <1>2 DEF Elements
    <2>2. \A x \in Elements(a) : x \in Elements(s)
      BY <1>1, <1>3 DEF Elements
    <2>3. ASSUME NEW x \in Elements(b) PROVE x \in Elements(s)
      <3>1. PICK k \in 1..n : x = b[k]
        BY <1>1 DEF Elements
      <3>2. k + m \in DOMAIN s /\ s[k + m] = x
        BY <1>1, <1>4, <3>1
      <3> QED
        BY <3>2 DEF Elements
    <2> QED
      BY <2>1, <2>2, <2>3
  <1>6. ASSUME Once(a), Once(b), \A x \in Elements(a) : x \notin Elements(b) PROVE Once(s)
    <2>1. ASSUME NEW j \in 1..(m + n), NEW k \in 1..(m + n), s[j] = s[k] PROVE j = k
      <3>1. CASE j \in 1..m /\ s[j] = a[j] /\ k \in 1..m /\ s[k] = a[k]
        BY <1>1, <1>6, <2>1, <3>1 DEF Once
      <3>2. CASE j - m \in 1..n /\ s[j] = b[j - m] /\ k - m \in 1..n /\ s[k] = b[k - m]
        <4>1. j - m = k - m
          BY <1>1, <1>6, <2>1, <3>2 DEF Once
        <4> QED
          BY <1>1, <4>1
      <3>3. CASE j \in 1..m /\ s[j] = a[j] /\ k - m \in 1..n /\ s[k] = b[k - m]
        BY <1>1, <1>6, <2>1, <3>3 DEF Elements
      <3>4. CASE j - m \in 1..n /\ s[j] = b[j - m] /\ k \in 1..m /\ s[k] = a[k]
        BY <1>1, <1>6, <2>1, <3>4 DEF Elements
      <3> QED
        BY <1>2, <3>1, <3>2, <3>3, <3>4
    <2> QED
      BY <1>1, <2>1 DEF Once
  <1> QED
    BY <1>1, <1>5, <1>6

LEMMA JoinAt ==
  ASSUME NEW X, NEW a \in Seq(X), NEW b \in Seq(X), NEW s, Joins(s, a, b)
  PROVE  /\ s \in Seq(X) /\ Len(s) = Len(a) + Len(b)
         /\ \A k \in 1..Len(a) : s[k] = a[k]
         /\ \A k \in 1..Len(b) : s[Len(a) + k] = b[k]
  <1>m. PICK m : m = Len(a)
    OBVIOUS
  <1>n. PICK n : n = Len(b)
    OBVIOUS
  <1>1. /\ m \in Nat /\ n \in Nat /\ s \in Seq(X) /\ Len(s) = m + n
        /\ \A k \in 1..(m + n) : s[k] = IF k <= m THEN a[k] ELSE b[k - m]
    BY <1>m, <1>n, ConcatProperties DEF Joins
  <1>2. \A k \in 1..m : s[k] = a[k]
    BY <1>1
  <1>3. \A k \in 1..n : m + k \in 1..(m + n) /\ ~(m + k <= m) /\ (m + k) - m = k
    BY <1>1
  <1>4. \A k \in 1..n : s[m + k] = b[k]
    BY <1>1, <1>3
  <1> QED
    BY <1>1, <1>2, <1>4, <1>m, <1>n

\* How often a set can be listed, without repeating itself.
LEMMA OnceCounts ==
  ASSUME NEW X, NEW seq \in Seq(X), Once(seq)
  PROVE  Len(seq) = Cardinality(Elements(seq))
  <1>1. Len(seq) \in Nat /\ DOMAIN seq = 1..Len(seq)
    OBVIOUS
  <1>2. IsFiniteSet(1..Len(seq)) /\ Cardinality(1..Len(seq)) = Len(seq)
    <2>1. PICK n \in Nat : n = Len(seq)
      BY <1>1
    <2>2. IsFiniteSet(1..n) /\ Cardinality(1..n) = IF 1 > n THEN 0 ELSE n - 1 + 1
      BY FS_Interval
    <2> QED
      BY <2>1, <2>2
  <1>3. seq \in [1..Len(seq) -> Elements(seq)]
    BY <1>1 DEF Elements
  <1>4. seq \in Bijection(1..Len(seq), Elements(seq))
    <2>1. seq \in Injection(1..Len(seq), Elements(seq))
      BY <1>1, <1>3 DEF Injection, IsInjective, Once
    <2>2. seq \in Surjection(1..Len(seq), Elements(seq))
      BY <1>1, <1>3 DEF Surjection, Elements
    <2> QED
      BY <2>1, <2>2 DEF Bijection
  <1>5. ExistsBijection(1..Len(seq), Elements(seq))
    BY <1>4 DEF ExistsBijection
  <1> QED
    BY <1>2, <1>5, FS_Bijection

-----------------------------------------------------------------------------
(* The invariant, for the one writer w.  A layout says which row lies in   *)
(* which cell, a page and a slot of it.                                    *)

InUsePages == {directory[k] : k \in DOMAIN directory}
Cell == InUsePages \X Slots
Used == {c \in Cell : RowAt(c) # Free}
Layout == [c \in Used |-> RowAt(c)]

\* Rows began and ended by the given ticks, each at one of its own.
RowsSound(f, begun, ended) ==
  /\ \A c \in DOMAIN f : /\ f[c] \in Row
                         /\ f[c].begin <= begun /\ (f[c].end <= ended \/ f[c].end = MAX_TS)
  /\ \A c, d \in DOMAIN f : f[c].begin = f[d].begin => c = d

\* The rows that no call has closed, one of an id.
Current(f) == {c \in DOMAIN f : f[c].end = MAX_TS}
OneOfEach(f, cells) == \A c, d \in cells : f[c].id = f[d].id => c = d
InOrderUpTo(f, begun, ended) == RowsSound(f, begun, ended) /\ OneOfEach(f, Current(f))
Names(f, cells) == {<<f[c].id, f[c].begin>> : c \in cells}

SeenAt(f, snap) == {c \in DOMAIN f : f[c].begin <= snap /\ snap < f[c].end}
Tells(f, snap, rows) == Names(f, SeenAt(f, snap)) = rows /\ OneOfEach(f, SeenAt(f, snap))

\* The map lists each cell once, but for the one whose row is being entered; cells
\* that a vacuum has cleared are still there.
Mapped(f, map, unlisted, cleared) ==
  /\ \A id \in Ids : Once(map[id])
  /\ \A c \in DOMAIN f : c \in unlisted \/ c \in Elements(map[f[c].id])
  /\ \A id \in Ids : \A c \in Elements(map[id]) :
       \/ c \in DOMAIN f /\ c \notin unlisted /\ f[c].id = id
       \/ c \in cleared

\* The queue lists each closed row once, but for the one that is being closed.
InQueue(f, queue, unqueued) ==
  /\ Once(queue)
  /\ \A c \in DOMAIN f : c \in Current(f) \/ c \in unqueued \/ Entry(f[c]) \in Elements(queue)
  /\ \A e \in Elements(queue) : \E c \in DOMAIN f : c \notin Current(f) /\ c \notin unqueued /\ e = Entry(f[c])
  /\ \A j, k \in DOMAIN queue : j < k => queue[j].end <= queue[k].end

Closing(w) == op[w].at \in {"list", "close"}
Placing(w) == op[w].at \in {"choose", "room", "place", "split", "halve"}

\* The last tick whose call has returned; those that rows have begun and ended at.
Told(w) == IF Writing(w) THEN clock - 1 ELSE clock
Begun(w) == IF Closing(w) \/ op[w].at = "retire" \/ Placing(w) THEN clock - 1 ELSE clock
Ended(w) == IF Closing(w) THEN clock - 1 ELSE clock

Others(rows, id) == {v \in rows : v[1] # id}
Currently(w) ==
  IF Closing(w) THEN past[clock - 1]
  ELSE IF op[w].at = "retire" \/ Placing(w) THEN Others(past[clock - 1], op[w].id)
  ELSE past[clock]

Unlisted(w) == IF op[w].at = "record" THEN {<<op[w].page, op[w].slot>>} ELSE {}
Unqueued(w) == IF op[w].at = "retire" THEN {Head(op[w].todo)} ELSE {}
Cleared(w) == {c \in Cell : op[w].at = "reclaim" /\ c[1] \in op[w].changed /\ RowAt(c) = Free}

\* The call of the writer.
Call(w, at) == [at |-> at, call |-> op[w].call, id |-> op[w].id, ts |-> clock]
IsWrite(w) ==
  /\ op[w].call \in {"insert", "delete"} /\ op[w].id \in Ids /\ clock > 0
  /\ past[clock] = Others(past[clock - 1], op[w].id)
                     \cup (IF op[w].call = "insert" THEN {<<op[w].id, clock>>} ELSE {})
AtList(w) == op[w].at = "list" /\ op[w] = Call(w, "list") /\ IsWrite(w)
AtClose(w) ==
  /\ op[w].at = "close" /\ op[w] = WithPlaces(w, "close", op[w].todo) /\ op[w].ts = clock /\ IsWrite(w)
  /\ op[w].todo \in Seq(Cell)
  /\ \A c \in Current(Layout) : Layout[c].id = op[w].id => c \in Elements(op[w].todo)
AtRetire(w) ==
  /\ op[w].at = "retire" /\ op[w] = WithPlaces(w, "retire", <<Head(op[w].todo)>>) /\ op[w].ts = clock /\ IsWrite(w)
  /\ LET c == Head(op[w].todo) IN c \in Used /\ RowAt(c).id = op[w].id /\ RowAt(c).end = clock
AtChoose(w) == op[w].at = "choose" /\ op[w] = Call(w, "choose") /\ op[w].call = "insert" /\ IsWrite(w)
AtPage(w) ==
  /\ op[w].at \in {"room", "place", "split", "halve"}
  /\ op[w] = WithPage(w, op[w].at, op[w].page) /\ op[w].ts = clock /\ IsWrite(w)
  /\ op[w].page \in InUsePages
AtRecord(w) ==
  /\ op[w].at = "record"
  /\ op[w] = [at |-> "record", call |-> "insert", id |-> op[w].id, ts |-> clock,
              page |-> op[w].page, slot |-> op[w].slot]
  /\ IsWrite(w)
  /\ LET c == <<op[w].page, op[w].slot>>
     IN c \in Used /\ RowAt(c) = [id |-> op[w].id, begin |-> clock, end |-> MAX_TS]
AtReclaim(w) ==
  /\ op[w].at = "reclaim" /\ op[w] = Reclaiming(op[w].oldest, op[w].changed)
  /\ op[w].oldest \in 0..horizon /\ op[w].changed \subseteq InUsePages
Calls(w) ==
  \/ op[w].at = "idle" /\ op[w] = [at |-> "idle"]
  \/ AtList(w) \/ AtClose(w) \/ AtRetire(w) \/ AtChoose(w) \/ AtPage(w) \/ AtRecord(w) \/ AtReclaim(w)

\* What a search has got and what is left on its pages is its answer.
Shown(p, snap) == {<<v.id, v.begin>> : v \in visible(p, snap)}
Reads(w) ==
  \A r \in Readers :
    \/ read[r].at = "idle" /\ read[r] = [at |-> "idle"]
    \/ /\ read[r].at = "probe"
       /\ read[r] = [at |-> "probe", snap |-> read[r].snap, adaptive |-> read[r].adaptive,
                     todo |-> read[r].todo, got |-> read[r].got]
       /\ read[r].snap \in horizon..Told(w) /\ read[r].todo \subseteq DOMAIN pages
       /\ Named(read[r].got) \cup UNION {Shown(p, read[r].snap) : p \in read[r].todo} = past[read[r].snap]

Whole ==
  /\ op = [v \in Writers |-> op[v]] /\ read = [r \in Readers |-> read[r]]
  /\ past = [t \in 0..MaxClock |-> past[t]]

Frame == TypeOK /\ Whole /\ horizon <= clock /\ Once(directory)
Books(w) == Mapped(Layout, locations, Unlisted(w), Cleared(w)) /\ InQueue(Layout, retired, Unqueued(w))
Rows(w) ==
  /\ InOrderUpTo(Layout, Begun(w), Ended(w))
  /\ Names(Layout, Current(Layout)) = Currently(w)
  /\ \A snap \in horizon..Told(w) : Tells(Layout, snap, past[snap])

RefInv(w) == Frame /\ Calls(w) /\ Rows(w) /\ Books(w) /\ Reads(w)

-----------------------------------------------------------------------------
(* Layouts: a row ends, is added, is dropped; all rows are moved.          *)

RowEnds(f, g, c, ts) ==
  /\ c \in Current(f) /\ DOMAIN g = DOMAIN f
  /\ \A d \in DOMAIN f : d # c => g[d] = f[d]
  /\ g[c] = [id |-> f[c].id, begin |-> f[c].begin, end |-> ts]

RowAdded(f, g, c, row) ==
  /\ c \notin DOMAIN f /\ DOMAIN g = DOMAIN f \cup {c}
  /\ \A d \in DOMAIN f : g[d] = f[d]
  /\ g[c] = row

RowDropped(f, g, c) ==
  /\ c \in DOMAIN f /\ DOMAIN g = DOMAIN f \ {c}
  /\ \A d \in DOMAIN g : g[d] = f[d]

Moves(f, g, m) ==
  /\ \A c \in DOMAIN f : m[c] \in DOMAIN g /\ g[m[c]] = f[c]
  /\ \A c, d \in DOMAIN f : m[c] = m[d] => c = d
  /\ \A d \in DOMAIN g : \E c \in DOMAIN f : d = m[c]

LEMMA RowFacts ==
  ASSUME NEW row \in Row
  PROVE  /\ row.id \in Ids /\ row.begin \in 1..MaxClock /\ row.begin \in Nat
         /\ row.end \in Nat /\ row.end \in (1..MaxClock) \cup {MAX_TS}
         /\ row = [id |-> row.id, begin |-> row.begin, end |-> row.end]
         /\ MAX_TS \in Nat /\ MaxClock \in Nat /\ MaxClock < MAX_TS
  BY Bounds DEF Row

LEMMA EndedIs ==
  ASSUME NEW f, NEW g, NEW c, NEW ts \in 1..MaxClock, RowEnds(f, g, c, ts),
         InOrderUpTo(f, ts - 1, ts - 1)
  PROVE  /\ InOrderUpTo(g, ts - 1, ts)
         /\ Current(g) = Current(f) \ {c}
         /\ Names(g, Current(g)) = Others(Names(f, Current(f)), f[c].id)
  <1>1. ts \in Nat /\ ts < MAX_TS /\ ts # MAX_TS
    BY Bounds
  <1>2. \A d \in DOMAIN f : f[d] \in Row
    BY DEF InOrderUpTo, RowsSound
  <1>3. c \in DOMAIN f /\ f[c] \in Row /\ f[c].end = MAX_TS
    BY <1>2 DEF RowEnds, Current
  <1>4. g[c] \in Row /\ g[c].id = f[c].id /\ g[c].begin = f[c].begin /\ g[c].end = ts
    BY <1>3, RowFacts DEF RowEnds, Row
  <1>5. \A d \in DOMAIN f : g[d] \in Row /\ g[d].id = f[d].id /\ g[d].begin = f[d].begin
    BY <1>2, <1>4 DEF RowEnds
  <1>6. Current(g) = Current(f) \ {c}
    BY <1>1, <1>3, <1>4 DEF RowEnds, Current
  <1>7. RowsSound(g, ts - 1, ts)
    <2>1. \A d \in DOMAIN g : g[d] \in Row /\ g[d].begin <= ts - 1
      BY <1>5 DEF InOrderUpTo, RowsSound, RowEnds
    <2>2. ASSUME NEW d \in DOMAIN g PROVE g[d].end <= ts \/ g[d].end = MAX_TS
      <3>1. CASE d = c
        BY <1>1, <1>4, <3>1
      <3>2. CASE d # c
        <4>1. g[d] = f[d] /\ f[d] \in Row
          BY <1>2, <3>2 DEF RowEnds
        <4>2. f[d].end <= ts - 1 \/ f[d].end = MAX_TS
          BY DEF InOrderUpTo, RowsSound, RowEnds
        <4> QED
          BY <1>1, <4>1, <4>2, RowFacts
      <3> QED
        BY <3>1, <3>2
    <2>3. \A d, e \in DOMAIN g : g[d].begin = g[e].begin => d = e
      BY <1>5 DEF InOrderUpTo, RowsSound, RowEnds
    <2> QED
      BY <2>1, <2>2, <2>3 DEF RowsSound
  <1>8. OneOfEach(g, Current(g))
    BY <1>5, <1>6 DEF InOrderUpTo, OneOfEach, Current
  <1>9. \A d \in Current(f) : d = c \/ f[d].id # f[c].id
    BY <1>3 DEF InOrderUpTo, OneOfEach, RowEnds
  <1>10. Names(g, Current(g)) = Others(Names(f, Current(f)), f[c].id)
    <2>1. \A d \in Current(f) : g[d].id = f[d].id /\ g[d].begin = f[d].begin
      BY <1>5 DEF Current
    <2> QED
      BY <1>6, <1>9, <2>1 DEF Names, Others
  <1> QED
    BY <1>6, <1>7, <1>8, <1>10 DEF InOrderUpTo

LEMMA EndedTells ==
  ASSUME NEW f, NEW g, NEW c, NEW ts \in 1..MaxClock, RowEnds(f, g, c, ts),
         InOrderUpTo(f, ts - 1, ts - 1),
         NEW snap \in Nat, snap < ts, NEW rows, Tells(f, snap, rows)
  PROVE  Tells(g, snap, rows)
  <1>1. \A d \in DOMAIN f : f[d] \in Row
    BY DEF InOrderUpTo, RowsSound
  <1>2. c \in DOMAIN f /\ f[c].end = MAX_TS /\ snap < MAX_TS /\ ts \in Nat
    BY Bounds DEF RowEnds, Current
  <1>3. g[c].id = f[c].id /\ g[c].begin = f[c].begin /\ g[c].end = ts
    BY DEF RowEnds
  <1>4. \A d \in DOMAIN f : g[d].id = f[d].id /\ g[d].begin = f[d].begin
    BY <1>3 DEF RowEnds
  <1>5. SeenAt(g, snap) = SeenAt(f, snap)
    BY <1>2, <1>3 DEF SeenAt, RowEnds
  <1>6. SeenAt(f, snap) \subseteq DOMAIN f
    BY DEF SeenAt
  <1> QED
    BY <1>4, <1>5, <1>6 DEF Tells, Names, OneOfEach

LEMMA EndedBooks ==
  ASSUME NEW f, NEW g, NEW c, NEW ts \in 1..MaxClock, RowEnds(f, g, c, ts),
         InOrderUpTo(f, ts - 1, ts - 1),
         NEW map, Mapped(f, map, {}, {}), NEW queue, InQueue(f, queue, {})
  PROVE  Mapped(g, map, {}, {}) /\ InQueue(g, queue, {c})
  <1>1. Current(g) = Current(f) \ {c}
    BY EndedIs
  <1>2. c \in Current(f) /\ DOMAIN g = DOMAIN f /\ \A d \in DOMAIN f : d # c => g[d] = f[d]
    BY DEF RowEnds
  <1>3. \A d \in DOMAIN f : g[d].id = f[d].id
    BY <1>2 DEF RowEnds
  <1>4. Mapped(g, map, {}, {})
    BY <1>2, <1>3 DEF Mapped
  <1>5. \A d \in DOMAIN g : d \in Current(g) \/ d \in {c} \/ Entry(g[d]) \in Elements(queue)
    BY <1>1, <1>2 DEF InQueue
  <1>6. \A e \in Elements(queue) : \E d \in DOMAIN g : d \notin Current(g) /\ d \notin {c} /\ e = Entry(g[d])
    BY <1>1, <1>2 DEF InQueue
  <1> QED
    BY <1>4, <1>5, <1>6 DEF InQueue

\* The closed row joins the queue, behind all that closed before it.
LEMMA QueuedIs ==
  ASSUME NEW f, NEW c \in DOMAIN f, NEW ts \in 1..MaxClock, f[c].end = ts,
         RowsSound(f, ts - 1, ts),
         NEW queue \in Seq(Row), InQueue(f, queue, {c})
  PROVE  InQueue(f, Append(queue, Entry(f[c])), {})
  <1> DEFINE e0 == Entry(f[c])
             q == Append(queue, e0)
             n == Len(queue)
  <1>1. \A d \in DOMAIN f : f[d] \in Row
    BY DEF RowsSound
  <1>2. ts \in Nat /\ ts < MAX_TS /\ e0.end = ts /\ c \notin Current(f)
    BY Bounds DEF Entry, Current
  <1>3. /\ n \in Nat /\ DOMAIN queue = 1..n /\ DOMAIN q = 1..(n + 1)
        /\ \A k \in 1..n : q[k] = queue[k]
        /\ q[n + 1] = e0
    BY AppendProperties, <1>1 DEF Entry
  <1> HIDE DEF q, n
  <1>4. ASSUME NEW d \in DOMAIN f, Entry(f[d]) = e0 PROVE d = c
    <2>1. f[d].begin = f[c].begin
      BY <1>4 DEF Entry
    <2> QED
      BY <2>1 DEF RowsSound
  <1>5. e0 \notin Elements(queue)
    BY <1>4 DEF InQueue
  <1>6. Elements(q) = Elements(queue) \cup {e0}
    BY <1>3 DEF Elements
  <1>7. Once(q)
    <2>1. \A k \in 1..n : queue[k] # e0
      BY <1>3, <1>5 DEF Elements
    <2>2. \A j, k \in 1..n : q[j] = q[k] => j = k
      BY <1>3 DEF InQueue, Once
    <2> QED
      BY <1>3, <2>1, <2>2 DEF Once
  <1>8. \A k \in 1..n : queue[k].end <= ts
    <2> TAKE k \in 1..n
    <2>1. queue[k] \in Elements(queue)
      BY <1>3 DEF Elements
    <2>2. PICK d \in DOMAIN f : d \notin Current(f) /\ queue[k] = Entry(f[d])
      BY <2>1 DEF InQueue
    <2>3. f[d].end <= ts
      BY <2>2 DEF RowsSound, Current
    <2> QED
      BY <2>2, <2>3 DEF Entry
  <1>9. \A j, k \in DOMAIN q : j < k => q[j].end <= q[k].end
    <2>1. \A j, k \in 1..n : j < k => queue[j].end <= queue[k].end
      BY <1>3 DEF InQueue
    <2> QED
      BY <1>2, <1>3, <1>8, <2>1
  <1>10. \A d \in DOMAIN f : d \in Current(f) \/ Entry(f[d]) \in Elements(q)
    BY <1>6 DEF InQueue
  <1>11. \A e \in Elements(q) : \E d \in DOMAIN f : d \notin Current(f) /\ e = Entry(f[d])
    BY <1>2, <1>6 DEF InQueue
  <1> QED
    BY <1>7, <1>9, <1>10, <1>11 DEF InQueue, q

NoneIs(f, cells, id) == \A c \in cells : f[c].id # id
With(rows, id, ts) == rows \cup {<<id, ts>>}
NewRow(id, ts) == [id |-> id, begin |-> ts, end |-> MAX_TS]

LEMMA AddedIs ==
  ASSUME NEW f, NEW g, NEW c, NEW id \in Ids, NEW ts \in 1..MaxClock,
         RowAdded(f, g, c, NewRow(id, ts)),
         NEW begun \in Int, begun < ts, InOrderUpTo(f, begun, ts),
         NoneIs(f, Current(f), id)
  PROVE  /\ InOrderUpTo(g, ts, ts)
         /\ Current(g) = Current(f) \cup {c}
         /\ Names(g, Current(g)) = With(Names(f, Current(f)), id, ts)
  <1>1. ts \in Nat
    OBVIOUS
  <1>2. g[c] \in Row /\ g[c].id = id /\ g[c].begin = ts /\ g[c].end = MAX_TS
    BY DEF RowAdded, Row, NewRow
  <1>3. \A d \in DOMAIN f : d # c /\ g[d] = f[d] /\ f[d] \in Row /\ f[d].begin <= begun /\ f[d].begin \in Nat
    BY RowFacts DEF RowAdded, InOrderUpTo, RowsSound
  <1>4. DOMAIN g = DOMAIN f \cup {c}
    BY DEF RowAdded
  <1>5. Current(g) = Current(f) \cup {c}
    BY <1>2, <1>3, <1>4 DEF Current
  <1>6. \A d \in DOMAIN g : g[d] \in Row /\ g[d].begin <= ts /\ (g[d].end <= ts \/ g[d].end = MAX_TS)
    BY <1>1, <1>2, <1>3, <1>4 DEF InOrderUpTo, RowsSound
  <1>7. \A d, e \in DOMAIN g : g[d].begin = g[e].begin => d = e
    <2>1. \A d \in DOMAIN f : g[d].begin # ts
      BY <1>1, <1>3
    <2>2. \A d, e \in DOMAIN f : g[d].begin = g[e].begin => d = e
      BY <1>3 DEF InOrderUpTo, RowsSound
    <2> QED
      BY <1>2, <1>4, <2>1, <2>2
  <1>8. OneOfEach(g, Current(g))
    <2>1. \A d \in Current(f) : g[d].id = f[d].id /\ g[d].id # id
      BY <1>3 DEF Current, NoneIs
    <2> QED
      BY <1>2, <1>5, <2>1 DEF OneOfEach, InOrderUpTo
  <1>9. Names(g, Current(g)) = Names(f, Current(f)) \cup {<<id, ts>>}
    <2>1. \A d \in Current(f) : g[d] = f[d]
      BY <1>3 DEF Current
    <2> QED
      BY <1>2, <1>5, <2>1 DEF Names
  <1> QED
    BY <1>5, <1>6, <1>7, <1>8, <1>9 DEF InOrderUpTo, RowsSound, With

LEMMA AddedTells ==
  ASSUME NEW f, NEW g, NEW c, NEW id \in Ids, NEW ts \in 1..MaxClock,
         RowAdded(f, g, c, NewRow(id, ts)),
         NEW snap \in Nat, snap < ts, NEW rows, Tells(f, snap, rows)
  PROVE  Tells(g, snap, rows)
  <1>1. g[c].begin = ts /\ ~(ts <= snap)
    BY DEF RowAdded, NewRow
  <1>2. SeenAt(g, snap) = SeenAt(f, snap)
    BY <1>1 DEF SeenAt, RowAdded
  <1>3. \A d \in SeenAt(f, snap) : g[d] = f[d]
    BY DEF SeenAt, RowAdded
  <1> QED
    BY <1>2, <1>3 DEF Tells, Names, OneOfEach

LEMMA AddedBooks ==
  ASSUME NEW f, NEW g, NEW c, NEW id \in Ids, NEW ts \in 1..MaxClock,
         RowAdded(f, g, c, NewRow(id, ts)),
         NEW map, Mapped(f, map, {}, {}), NEW queue, InQueue(f, queue, {})
  PROVE  Mapped(g, map, {c}, {}) /\ InQueue(g, queue, {})
  <1>1. DOMAIN g = DOMAIN f \cup {c} /\ c \notin DOMAIN f /\ \A d \in DOMAIN f : g[d] = f[d]
    BY DEF RowAdded
  <1>2. Current(g) = Current(f) \cup {c}
    BY <1>1 DEF Current, RowAdded, NewRow
  <1>3. Mapped(g, map, {c}, {})
    BY <1>1 DEF Mapped
  <1>4. InQueue(g, queue, {})
    BY <1>1, <1>2 DEF InQueue
  <1> QED
    BY <1>3, <1>4

\* The new row's cell enters the map.
LEMMA MappedIs ==
  ASSUME NEW f, NEW c \in DOMAIN f, NEW X, c \in X, NEW map \in [Ids -> Seq(X)], f[c].id \in Ids,
         NEW new, new = [map EXCEPT ![f[c].id] = Append(@, c)],
         Mapped(f, map, {c}, {})
  PROVE  Mapped(f, new, {}, {})
  <1> DEFINE id0 == f[c].id
  <1>1. \A id \in Ids : map[id] \in Seq(X) /\ Once(map[id]) /\ c \notin Elements(map[id])
    BY DEF Mapped
  <1>2. \A id \in Ids : id # id0 => new[id] = map[id]
    OBVIOUS
  <1>3. new[id0] = Append(map[id0], c)
    OBVIOUS
  <1>4. Elements(new[id0]) = Elements(map[id0]) \cup {c} /\ Once(new[id0])
    BY <1>1, <1>3, AppendIs
  <1> HIDE DEF id0
  <1>5. \A id \in Ids : Once(new[id])
    BY <1>1, <1>2, <1>4
  <1>6. \A d \in DOMAIN f : d = c \/ d \in Elements(map[f[d].id])
    BY DEF Mapped
  <1>7. \A d \in DOMAIN f : d \in Elements(new[f[d].id])
    <2> TAKE d \in DOMAIN f
    <2>1. CASE d = c
      BY <1>4, <2>1 DEF id0
    <2>2. CASE d # c /\ f[d].id = id0
      BY <1>4, <1>6, <2>2
    <2>3. CASE d # c /\ f[d].id # id0
      <3>1. new[f[d].id] = map[f[d].id]
        BY <2>3 DEF id0
      <3> QED
        BY <1>6, <2>3, <3>1
    <2> QED
      BY <2>1, <2>2, <2>3
  <1>8. ASSUME NEW id \in Ids, NEW d \in Elements(new[id]) PROVE d \in DOMAIN f /\ f[d].id = id
    <2>1. (d = c /\ id = id0) \/ d \in Elements(map[id])
      BY <1>2, <1>4
    <2> QED
      BY <2>1 DEF Mapped, id0
  <1> QED
    BY <1>5, <1>7, <1>8 DEF Mapped

\* A row that ended before every snapshot that is kept is dropped.
LEMMA DroppedIs ==
  ASSUME NEW f, NEW g, NEW c, RowDropped(f, g, c), c \notin Current(f),
         NEW begun, NEW ended, InOrderUpTo(f, begun, ended)
  PROVE  /\ InOrderUpTo(g, begun, ended)
         /\ Current(g) = Current(f)
         /\ Names(g, Current(g)) = Names(f, Current(f))
  <1>1. DOMAIN g = DOMAIN f \ {c} /\ \A d \in DOMAIN g : d \in DOMAIN f /\ g[d] = f[d]
    BY DEF RowDropped
  <1>2. Current(g) = Current(f)
    BY <1>1 DEF Current
  <1>3. \A d \in Current(f) : g[d] = f[d]
    BY <1>1, <1>2 DEF Current
  <1>4. Names(g, Current(g)) = Names(f, Current(f))
    BY <1>2, <1>3 DEF Names
  <1>5. RowsSound(g, begun, ended)
    BY <1>1 DEF RowsSound, InOrderUpTo
  <1>6. OneOfEach(g, Current(g))
    BY <1>2, <1>3 DEF OneOfEach, InOrderUpTo
  <1> QED
    BY <1>2, <1>4, <1>5, <1>6 DEF InOrderUpTo

LEMMA DroppedTells ==
  ASSUME NEW f, NEW g, NEW c, RowDropped(f, g, c), f[c].end \in Nat,
         NEW snap \in Nat, f[c].end <= snap, NEW rows, Tells(f, snap, rows)
  PROVE  Tells(g, snap, rows)
  <1>1. SeenAt(g, snap) = SeenAt(f, snap)
    BY DEF SeenAt, RowDropped
  <1>2. \A d \in SeenAt(f, snap) : g[d] = f[d]
    BY <1>1 DEF SeenAt, RowDropped
  <1> QED
    BY <1>1, <1>2 DEF Tells, Names, OneOfEach

LEMMA DroppedBooks ==
  ASSUME NEW f, NEW g, NEW c, RowDropped(f, g, c),
         NEW begun, NEW ended, InOrderUpTo(f, begun, ended), c \notin Current(f),
         NEW map, NEW cleared, Mapped(f, map, {}, cleared),
         NEW queue \in Seq(Row), queue # <<>>, InQueue(f, queue, {}), Head(queue) = Entry(f[c])
  PROVE  Mapped(g, map, {}, cleared \cup {c}) /\ InQueue(g, Tail(queue), {})
  <1> DEFINE q == Tail(queue)
             n == Len(queue)
  <1>1. /\ n \in Nat \ {0} /\ DOMAIN queue = 1..n /\ DOMAIN q = 1..(n - 1)
        /\ \A k \in 1..(n - 1) : q[k] = queue[k + 1]
        /\ queue[1] = Entry(f[c])
    BY HeadTailProperties
  <1> HIDE DEF q, n
  <1>2. DOMAIN g = DOMAIN f \ {c} /\ \A d \in DOMAIN g : d \in DOMAIN f /\ g[d] = f[d]
    BY DEF RowDropped
  <1>3. Current(g) = Current(f)
    BY <1>2 DEF Current
  <1>4. Mapped(g, map, {}, cleared \cup {c})
    BY <1>2 DEF Mapped
  <1>5. \A j, k \in 1..n : queue[j] = queue[k] => j = k
    BY <1>1 DEF InQueue, Once
  <1>6. Elements(q) = Elements(queue) \ {Entry(f[c])}
    <2>1. ASSUME NEW k \in 1..(n - 1) PROVE q[k] \in Elements(queue) /\ q[k] # Entry(f[c])
      <3>1. k + 1 \in 1..n /\ 1 \in 1..n /\ k + 1 # 1
        BY <1>1
      <3> QED
        BY <1>1, <1>5, <3>1 DEF Elements
    <2>2. ASSUME NEW k \in 1..n, queue[k] # Entry(f[c]) PROVE queue[k] \in Elements(q)
      <3>1. k - 1 \in 1..(n - 1) /\ (k - 1) + 1 = k
        BY <1>1, <2>2
      <3>2. q[k - 1] = queue[k]
        BY <1>1, <3>1
      <3> QED
        BY <1>1, <3>1, <3>2 DEF Elements
    <2>3. \A e \in Elements(q) : e \in Elements(queue) /\ e # Entry(f[c])
      BY <1>1, <2>1 DEF Elements
    <2>4. \A e \in Elements(queue) : e # Entry(f[c]) => e \in Elements(q)
      BY <1>1, <2>2 DEF Elements
    <2> QED
      BY <2>3, <2>4
  <1>7. \A d \in DOMAIN f : Entry(f[d]) = Entry(f[c]) => d = c
    <2>1. c \in DOMAIN f
      BY DEF RowDropped
    <2> QED
      BY <2>1 DEF Entry, RowsSound, InOrderUpTo
  <1>8. Once(q)
    <2>1. \A j, k \in 1..(n - 1) : q[j] = q[k] => j + 1 = k + 1
      BY <1>1, <1>5
    <2> QED
      BY <1>1, <2>1 DEF Once
  <1>9. \A j, k \in DOMAIN q : j < k => q[j].end <= q[k].end
    <2>1. \A j, k \in 1..n : j < k => queue[j].end <= queue[k].end
      BY <1>1 DEF InQueue
    <2>2. \A j \in 1..(n - 1) : j + 1 \in 1..n
      BY <1>1
    <2>3. ASSUME NEW j \in 1..(n - 1), NEW k \in 1..(n - 1), j < k PROVE q[j].end <= q[k].end
      <3>1. j + 1 \in 1..n /\ k + 1 \in 1..n /\ j + 1 < k + 1
        BY <1>1, <2>3
      <3>2. queue[j + 1].end <= queue[k + 1].end
        BY <2>1, <3>1
      <3> QED
        BY <1>1, <3>2
    <2> QED
      BY <1>1, <2>3
  <1>10. \A d \in DOMAIN g : d \in Current(g) \/ Entry(g[d]) \in Elements(q)
    BY <1>2, <1>3, <1>6, <1>7 DEF InQueue
  <1>11. \A e \in Elements(q) : \E d \in DOMAIN g : d \notin Current(g) /\ e = Entry(g[d])
    BY <1>2, <1>3, <1>6 DEF InQueue
  <1> QED
    BY <1>4, <1>8, <1>9, <1>10, <1>11 DEF InQueue, q

\* Moving the rows changes neither what they tell nor the queue.
LEMMA MovedIs ==
  ASSUME NEW f, NEW g, NEW m, Moves(f, g, m),
         NEW begun, NEW ended, InOrderUpTo(f, begun, ended)
  PROVE  /\ InOrderUpTo(g, begun, ended)
         /\ Current(g) = {m[c] : c \in Current(f)}
         /\ Names(g, Current(g)) = Names(f, Current(f))
  <1>1. \A c \in DOMAIN f : m[c] \in DOMAIN g /\ g[m[c]] = f[c]
    BY DEF Moves
  <1>2. \A d \in DOMAIN g : \E c \in DOMAIN f : d = m[c] /\ g[d] = f[c]
    BY DEF Moves
  <1>3. Current(g) = {m[c] : c \in Current(f)}
    BY <1>1, <1>2 DEF Current
  <1>4. Names(g, Current(g)) = Names(f, Current(f))
    <2>1. \A c \in Current(f) : g[m[c]] = f[c]
      BY <1>1 DEF Current
    <2> QED
      BY <1>3, <2>1 DEF Names
  <1>5. RowsSound(g, begun, ended)
    <2>1. \A d \in DOMAIN g : /\ g[d] \in Row
                              /\ g[d].begin <= begun /\ (g[d].end <= ended \/ g[d].end = MAX_TS)
      BY <1>2 DEF RowsSound, InOrderUpTo
    <2>2. \A d, e \in DOMAIN g : g[d].begin = g[e].begin => d = e
      BY <1>2 DEF RowsSound, InOrderUpTo
    <2> QED
      BY <2>1, <2>2 DEF RowsSound
  <1>6. OneOfEach(g, Current(g))
    <2>1. \A c \in Current(f) : g[m[c]] = f[c]
      BY <1>1 DEF Current
    <2> QED
      BY <1>3, <2>1 DEF OneOfEach, InOrderUpTo
  <1> QED
    BY <1>3, <1>4, <1>5, <1>6 DEF InOrderUpTo

LEMMA MovedTells ==
  ASSUME NEW f, NEW g, NEW m, Moves(f, g, m), NEW snap, NEW rows, Tells(f, snap, rows)
  PROVE  Tells(g, snap, rows)
  <1>1. \A c \in DOMAIN f : m[c] \in DOMAIN g /\ g[m[c]] = f[c]
    BY DEF Moves
  <1>2. \A d \in DOMAIN g : \E c \in DOMAIN f : d = m[c] /\ g[d] = f[c]
    BY DEF Moves
  <1>3. SeenAt(g, snap) = {m[c] : c \in SeenAt(f, snap)}
    BY <1>1, <1>2 DEF SeenAt
  <1>4. \A c \in SeenAt(f, snap) : g[m[c]] = f[c]
    BY <1>1 DEF SeenAt
  <1>5. Names(g, SeenAt(g, snap)) = Names(f, SeenAt(f, snap))
    BY <1>3, <1>4 DEF Names
  <1>6. OneOfEach(g, SeenAt(g, snap))
    BY <1>3, <1>4 DEF Tells, OneOfEach
  <1> QED
    BY <1>5, <1>6 DEF Tells

LEMMA MovedQueue ==
  ASSUME NEW f, NEW g, NEW m, Moves(f, g, m), NEW queue, InQueue(f, queue, {})
  PROVE  InQueue(g, queue, {})
  <1>1. \A c \in DOMAIN f : m[c] \in DOMAIN g /\ g[m[c]] = f[c]
    BY DEF Moves
  <1>2. \A d \in DOMAIN g : \E c \in DOMAIN f : d = m[c] /\ g[d] = f[c]
    BY DEF Moves
  <1>3. \A d \in DOMAIN g : d \in Current(g) \/ Entry(g[d]) \in Elements(queue)
    BY <1>2 DEF InQueue, Current
  <1>4. \A e \in Elements(queue) : \E d \in DOMAIN g : d \notin Current(g) /\ e = Entry(g[d])
    BY <1>1 DEF InQueue, Current
  <1> QED
    BY <1>3, <1>4 DEF InQueue

\* Where a call has returned, its tick is told by the rows that nobody closed.
LEMMA NowTells ==
  ASSUME NEW f, NEW ts \in 0..MaxClock, InOrderUpTo(f, ts, ts)
  PROVE  SeenAt(f, ts) = Current(f) /\ Tells(f, ts, Names(f, Current(f)))
  <1>1. ts \in Nat /\ ts < MAX_TS /\ MAX_TS \in Nat
    BY Bounds
  <1>2. \A c \in DOMAIN f : /\ f[c].begin <= ts /\ f[c].end \in Nat
                            /\ f[c].end <= ts \/ f[c].end = MAX_TS
    BY RowFacts DEF InOrderUpTo, RowsSound
  <1>3. SeenAt(f, ts) = Current(f)
    BY <1>1, <1>2 DEF SeenAt, Current
  <1> QED
    BY <1>3 DEF Tells, InOrderUpTo

-----------------------------------------------------------------------------
(* Where the writer is.                                                    *)

StageIs(w) ==
  /\ op[w].at \in {"idle", "reclaim"} =>
       /\ Told(w) = clock /\ Begun(w) = clock /\ Ended(w) = clock
       /\ Currently(w) = past[clock] /\ Unlisted(w) = {} /\ Unqueued(w) = {}
  /\ op[w].at \in {"list", "close"} =>
       /\ Told(w) = clock - 1 /\ Begun(w) = clock - 1 /\ Ended(w) = clock - 1
       /\ Currently(w) = past[clock - 1] /\ Unlisted(w) = {} /\ Unqueued(w) = {}
  /\ op[w].at \in {"retire", "choose", "room", "place", "split", "halve"} =>
       /\ Told(w) = clock - 1 /\ Begun(w) = clock - 1 /\ Ended(w) = clock
       /\ Currently(w) = Others(past[clock - 1], op[w].id) /\ Unlisted(w) = {}
       /\ op[w].at = "retire" => Unqueued(w) = {Head(op[w].todo)}
       /\ op[w].at # "retire" => Unqueued(w) = {}
  /\ op[w].at = "record" =>
       /\ Told(w) = clock - 1 /\ Begun(w) = clock /\ Ended(w) = clock
       /\ Currently(w) = past[clock] /\ Unlisted(w) = {<<op[w].page, op[w].slot>>} /\ Unqueued(w) = {}
  /\ op[w].at # "reclaim" => Cleared(w) = {}

LEMMA Stages == ASSUME NEW w PROVE StageIs(w) /\ StageIs(w)'
  <1>1. StageIs(w)
    BY DEF StageIs, Told, Begun, Ended, Currently, Unlisted, Unqueued, Cleared, Closing, Placing, Writing
  <1>2. StageIs(w)'
    BY DEF StageIs, Told, Begun, Ended, Currently, Unlisted, Unqueued, Cleared, Closing, Placing, Writing
  <1> QED
    BY <1>1, <1>2

\* The steps of the writer's call are those named.
LEMMA CallIs ==
  ASSUME NEW w, Calls(w)
  PROVE  /\ op[w].at \in {"idle", "list", "close", "retire", "choose", "room", "place", "split",
                          "halve", "record", "reclaim"}
         /\ op[w].at = "list" => AtList(w)
         /\ op[w].at = "close" => AtClose(w)
         /\ op[w].at = "retire" => AtRetire(w)
         /\ op[w].at = "choose" => AtChoose(w)
         /\ op[w].at \in {"room", "place", "split", "halve"} => AtPage(w)
         /\ op[w].at = "record" => AtRecord(w)
         /\ op[w].at = "reclaim" => AtReclaim(w)
         /\ op[w].at = "idle" => op[w] = [at |-> "idle"]
  BY DEF Calls, AtList, AtClose, AtRetire, AtChoose, AtPage, AtRecord, AtReclaim

-----------------------------------------------------------------------------
(* The layout of the pages in use.                                         *)

LEMMA FreeIsNoRow == Free \notin Row /\ Free.begin = 0 /\ Free.end = 0
  BY DEF Free, Row

LEMMA CellIs ==
  ASSUME TypeOK, NEW c \in Cell
  PROVE  /\ c = <<c[1], c[2]>> /\ c[1] \in InUsePages /\ c[1] \in DOMAIN pages /\ c[2] \in Slots
         /\ pages[c[1]] \in [Slots -> Row \cup {Free}]
         /\ RowAt(c) = pages[c[1]][c[2]] /\ RowAt(c) \in Row \cup {Free}
  <1>1. c = <<c[1], c[2]>> /\ c[1] \in InUsePages /\ c[2] \in Slots
    BY DEF Cell
  <1>2. \A k \in DOMAIN directory : directory[k] \in DOMAIN pages
    BY ElementOfSeq DEF TypeOK
  <1>3. c[1] \in DOMAIN pages
    BY <1>1, <1>2 DEF InUsePages
  <1>4. pages[c[1]] \in [Slots -> Row \cup {Free}]
    BY <1>3, ElementOfSeq DEF TypeOK
  <1> QED
    BY <1>1, <1>3, <1>4 DEF RowAt

LEMMA LayoutIs ==
  ASSUME TypeOK
  PROVE  /\ DOMAIN Layout = Used /\ Used \subseteq Cell
         /\ \A c \in Used : Layout[c] = RowAt(c) /\ Layout[c] \in Row
         /\ \A c \in Cell : c \notin Used => RowAt(c) = Free
  <1>1. \A c \in Used : c \in Cell /\ RowAt(c) # Free /\ Layout[c] = RowAt(c)
    BY DEF Used, Layout
  <1>2. \A c \in Used : RowAt(c) \in Row
    BY <1>1, CellIs
  <1> QED
    BY <1>1, <1>2 DEF Used, Layout

LEMMA SameStore ==
  ASSUME UNCHANGED store
  PROVE  /\ pages' = pages /\ directory' = directory
         /\ InUsePages' = InUsePages /\ Cell' = Cell /\ Used' = Used /\ Layout' = Layout
         /\ \A c : RowAt(c)' = RowAt(c)
         /\ \A p, snap : Shown(p, snap)' = Shown(p, snap)
  BY DEF store, InUsePages, Cell, Used, Layout, RowAt, Shown, visible, occupied, free_slots

\* A search that goes on keeps its answer.
LEMMA ReadsKept ==
  ASSUME NEW w, Reads(w), read' = read, Told(w)' >= Told(w), Told(w) \in Int, Told(w)' \in Int,
         horizon \in Int, horizon' \in Int,
         \A r \in Readers : read[r].at = "probe" => horizon' <= read[r].snap,
         \A snap \in horizon..Told(w) : past'[snap] = past[snap],
         DOMAIN pages \subseteq DOMAIN pages',
         \A p \in DOMAIN pages : \A snap \in horizon..Told(w) : Shown(p, snap)' = Shown(p, snap)
  PROVE  Reads(w)'
  <1> SUFFICES ASSUME NEW r \in Readers, read[r].at # "idle"
               PROVE  /\ read[r].snap \in horizon'..Told(w)' /\ read[r].todo \subseteq DOMAIN pages'
                      /\ Named(read[r].got) \cup UNION {Shown(p, read[r].snap)' : p \in read[r].todo}
                           = past'[read[r].snap]
    BY DEF Reads, Named
  <1>1. /\ read[r].at = "probe" /\ read[r].snap \in horizon..Told(w) /\ read[r].todo \subseteq DOMAIN pages
        /\ Named(read[r].got) \cup UNION {Shown(p, read[r].snap) : p \in read[r].todo} = past[read[r].snap]
    BY DEF Reads
  <1>2. UNION {Shown(p, read[r].snap)' : p \in read[r].todo} = UNION {Shown(p, read[r].snap) : p \in read[r].todo}
    BY <1>1
  <1> QED
    BY <1>1, <1>2

-----------------------------------------------------------------------------
(* Steps that leave the pages as they are.                                 *)

LEMMA Weaker ==
  ASSUME NEW f, NEW b \in Int, NEW e \in Int, NEW b1 \in Int, NEW e1 \in Int, b <= b1, e <= e1,
         InOrderUpTo(f, b, e)
  PROVE  InOrderUpTo(f, b1, e1)
  <1>1. \A c \in DOMAIN f : f[c] \in Row /\ f[c].begin \in Nat /\ f[c].end \in Nat
    BY RowFacts DEF InOrderUpTo, RowsSound
  <1> QED
    BY <1>1 DEF InOrderUpTo, RowsSound

LEMMA ClockIs == ASSUME TypeOK PROVE clock \in 0..MaxClock /\ clock \in Nat /\ horizon \in 0..MaxClock
  BY Bounds DEF TypeOK

LEMMA FrameKept ==
  ASSUME Frame, NEW w \in Writers, NEW x, Goes(w, x), UNCHANGED <<clock, store, past, horizon, read>>,
         locations' \in [Ids -> Seq(Place)], retired' \in Seq(Row),
         owner' \in Writers \cup {Nobody}, holder' \in [DOMAIN pages -> Writers \cup {Nobody}]
  PROVE  Frame' /\ op'[w] = x
  <1>1. TypeOK'
    BY DEF Frame, TypeOK, store, Place
  <1>2. op'[w] = x /\ op' = [v \in Writers |-> op'[v]]
    BY DEF Frame, Whole, Goes
  <1>3. Whole'
    BY <1>2 DEF Frame, Whole
  <1>4. Once(directory)'
    BY DEF Frame, Once, store
  <1> QED
    BY <1>1, <1>2, <1>3, <1>4 DEF Frame

LEMMA QuietStep ==
  ASSUME NEW w, Writers = {w}, RefInv(w), NEW x, Goes(w, x),
         UNCHANGED <<clock, store, locations, past, horizon, read>>, retired' \in Seq(Row),
         owner' \in Writers \cup {Nobody}, holder' \in [DOMAIN pages -> Writers \cup {Nobody}],
         Calls(w)', Told(w)' >= Told(w), Told(w)' \in Int, Rows(w)', Books(w)'
  PROVE  RefInv(w)'
  <1>1. Frame'
    <2>1. locations' \in [Ids -> Seq(Place)]
      BY DEF RefInv, Frame, TypeOK
    <2> QED
      BY <2>1, FrameKept DEF RefInv
  <1>2. Reads(w)'
    <2>1. Told(w) \in Int /\ horizon \in Int
      BY ClockIs DEF RefInv, Frame, Told
    <2>2. \A r \in Readers : read[r].at = "probe" => read[r].snap \in horizon..Told(w)
      BY DEF RefInv, Reads
    <2>3. \A r \in Readers : read[r].at = "probe" => horizon' <= read[r].snap
      BY <2>1, <2>2
    <2> QED
      BY <2>3, <2>1, SameStore, ReadsKept DEF RefInv
  <1> QED
    BY <1>1, <1>2 DEF RefInv

\* What the lemmas below take from the invariant.
LEMMA Facts ==
  ASSUME NEW w, Writers = {w}, RefInv(w)
  PROVE  /\ TypeOK /\ Whole /\ Calls(w) /\ Reads(w) /\ w \in Writers
         /\ clock \in 0..MaxClock /\ clock \in Nat /\ horizon \in 0..clock /\ Once(directory)
         /\ InOrderUpTo(Layout, Begun(w), Ended(w))
         /\ Names(Layout, Current(Layout)) = Currently(w)
         /\ \A snap \in horizon..Told(w) : Tells(Layout, snap, past[snap])
         /\ Mapped(Layout, locations, Unlisted(w), Cleared(w))
         /\ InQueue(Layout, retired, Unqueued(w))
         /\ \A x : Goes(w, x) => op'[w] = x /\ op' = [v \in Writers |-> op'[v]]
         /\ locations \in [Ids -> Seq(Place)] /\ retired \in Seq(Row)
         /\ owner \in Writers \cup {Nobody} /\ holder \in [DOMAIN pages -> Writers \cup {Nobody}]
  <1>1. \A x : Goes(w, x) => op'[w] = x /\ op' = [v \in Writers |-> op'[v]]
    BY DEF RefInv, Frame, Whole, Goes
  <1>2. clock \in 0..MaxClock /\ clock \in Nat /\ horizon \in 0..clock
    BY ClockIs DEF RefInv, Frame
  <1> QED
    BY <1>1, <1>2 DEF RefInv, Frame, Rows, Books, TypeOK

\* Once no version of its id is open, a delete ends and an insert chooses a page.
LEMMA ClosedGoesOn ==
  ASSUME NEW w, Writers = {w}, RefInv(w), Closed(w), IsWrite(w), op[w].ts = clock, Told(w) = clock - 1,
         UNCHANGED <<clock, store, locations, past, horizon, read>>, retired' \in Seq(Row),
         owner' \in Writers \cup {Nobody}, holder' \in [DOMAIN pages -> Writers \cup {Nobody}],
         InOrderUpTo(Layout, clock - 1, clock),
         Names(Layout, Current(Layout)) = Others(past[clock - 1], op[w].id),
         Mapped(Layout, locations, {}, {}), InQueue(Layout, retired', {})
  PROVE  RefInv(w)'
  <1>1. /\ clock \in Nat \ {0} /\ op[w].id \in Ids /\ op[w].call \in {"insert", "delete"}
        /\ past[clock] = Others(past[clock - 1], op[w].id)
                           \cup (IF op[w].call = "insert" THEN {<<op[w].id, clock>>} ELSE {})
    BY Facts DEF IsWrite
  <1>2. clock - 1 \in Int /\ clock \in Int /\ clock - 1 <= clock /\ horizon \in Int
    BY <1>1, Facts
  <1>3. Layout' = Layout /\ clock' = clock /\ past' = past
    BY SameStore
  <1>4. \A snap \in horizon..(clock - 1) : Tells(Layout, snap, past[snap])
    BY Facts
  <1>5. CASE op[w].call = "insert"
    <2> DEFINE x == [at |-> "choose", call |-> "insert", id |-> op[w].id, ts |-> op[w].ts]
    <2>1. Goes(w, x)
      BY <1>5 DEF Closed
    <2>2. op'[w] = x
      BY <2>1, Facts
    <2>3. AtChoose(w)'
      BY <1>3, <1>5, <2>2 DEF AtChoose, Call, IsWrite
    <2>4. /\ Told(w)' = clock - 1 /\ Begun(w)' = clock - 1 /\ Ended(w)' = clock
          /\ Currently(w)' = Others(past[clock - 1], op[w].id)
          /\ Unlisted(w)' = {} /\ Unqueued(w)' = {} /\ Cleared(w)' = {}
      BY <1>3, <2>2, Stages DEF StageIs
    <2>5. Rows(w)'
      BY <1>3, <1>4, <2>4 DEF Rows
    <2>6. Books(w)'
      BY <1>3, <2>4 DEF Books
    <2>7. Calls(w)'
      BY <2>3 DEF Calls
    <2>8. Told(w)' >= Told(w) /\ Told(w)' \in Int
      BY <1>2, <2>4
    <2> HIDE DEF x
    <2> QED
      BY <2>1, <2>5, <2>6, <2>7, <2>8, QuietStep
  <1>6. CASE op[w].call = "delete"
    <2>1. Goes(w, [at |-> "idle"])
      BY <1>6 DEF Closed, Ends
    <2>2. op'[w] = [at |-> "idle"]
      BY <2>1, Facts
    <2>3. /\ Told(w)' = clock /\ Begun(w)' = clock /\ Ended(w)' = clock
          /\ Currently(w)' = past[clock]
          /\ Unlisted(w)' = {} /\ Unqueued(w)' = {} /\ Cleared(w)' = {}
      BY <1>3, <2>2, Stages DEF StageIs
    <2>4. past[clock] = Names(Layout, Current(Layout))
      BY <1>1, <1>6
    <2>5. InOrderUpTo(Layout, clock, clock)
      BY <1>2, Weaker
    <2>6. \A snap \in horizon..clock : Tells(Layout, snap, past[snap])
      <3>1. Tells(Layout, clock, past[clock])
        BY <2>4, <2>5, NowTells, Facts
      <3>2. \A snap \in horizon..clock : snap = clock \/ snap \in horizon..(clock - 1)
        BY <1>2
      <3> QED
        BY <1>4, <3>1, <3>2
    <2>7. Rows(w)'
      BY <1>3, <2>3, <2>4, <2>5, <2>6 DEF Rows
    <2>8. Books(w)'
      BY <1>3, <2>3 DEF Books
    <2>9. Calls(w)'
      BY <2>2 DEF Calls
    <2>10. Told(w)' >= Told(w) /\ Told(w)' \in Int
      BY <1>2, <2>3
    <2> QED
      BY <2>1, <2>7, <2>8, <2>9, <2>10, QuietStep
  <1> QED
    BY <1>1, <1>5, <1>6

LEMMA NoneOpenKeeps ==
  ASSUME NEW w, Writers = {w}, RefInv(w), NoneOpen(w)
  PROVE  RefInv(w)'
  <1>1. AtClose(w) /\ op[w].at = "close" /\ op[w].todo = <<>>
    BY CallIs, Facts DEF NoneOpen
  <1>2. IsWrite(w) /\ op[w].ts = clock /\ \A c \in Current(Layout) : Layout[c].id # op[w].id
    <2>1. Elements(op[w].todo) = {}
      BY <1>1 DEF Elements
    <2> QED
      BY <1>1, <2>1 DEF AtClose
  <1>3. /\ Told(w) = clock - 1 /\ Begun(w) = clock - 1 /\ Ended(w) = clock - 1
        /\ Currently(w) = past[clock - 1] /\ Unlisted(w) = {} /\ Unqueued(w) = {} /\ Cleared(w) = {}
    BY <1>1, Stages DEF StageIs
  <1>4. /\ UNCHANGED <<clock, store, locations, past, horizon, read>> /\ retired' = retired
        /\ owner' = owner /\ holder' = holder /\ Closed(w)
    BY DEF NoneOpen, book, ghost
  <1>5. /\ owner' \in Writers \cup {Nobody} /\ holder' \in [DOMAIN pages -> Writers \cup {Nobody}]
        /\ retired' \in Seq(Row) /\ clock - 1 \in Int /\ clock \in Int /\ clock - 1 <= clock
    BY <1>4, Facts
  <1>6. /\ InOrderUpTo(Layout, clock - 1, clock - 1) /\ Mapped(Layout, locations, {}, {})
        /\ InQueue(Layout, retired, {})
    BY <1>3, Facts
  <1>7. InOrderUpTo(Layout, clock - 1, clock)
    BY <1>5, <1>6, Weaker
  <1>8. Names(Layout, Current(Layout)) = Others(past[clock - 1], op[w].id)
    <2>1. Names(Layout, Current(Layout)) = past[clock - 1]
      BY <1>3, Facts
    <2>2. \A v \in Names(Layout, Current(Layout)) : v[1] # op[w].id
      BY <1>2 DEF Names
    <2> QED
      BY <2>1, <2>2 DEF Others
  <1> QED
    BY <1>2, <1>3, <1>4, <1>5, <1>6, <1>7, <1>8, ClosedGoesOn

LEMMA RetireKeeps ==
  ASSUME NEW w, Writers = {w}, RefInv(w), Retire(w)
  PROVE  RefInv(w)'
  <1> DEFINE c == Head(op[w].todo)
  <1>1. AtRetire(w) /\ op[w].at = "retire"
    BY CallIs, Facts DEF Retire
  <1>2. IsWrite(w) /\ op[w].ts = clock /\ c \in Used /\ RowAt(c).id = op[w].id /\ RowAt(c).end = clock
    BY <1>1 DEF AtRetire
  <1>3. /\ Told(w) = clock - 1 /\ Begun(w) = clock - 1 /\ Ended(w) = clock
        /\ Currently(w) = Others(past[clock - 1], op[w].id) /\ Unlisted(w) = {} /\ Unqueued(w) = {c}
        /\ Cleared(w) = {}
    BY <1>1, Stages DEF StageIs
  <1>4. /\ UNCHANGED <<clock, store, locations, past, horizon, read>> /\ owner' = owner /\ Closed(w)
        /\ holder' = [holder EXCEPT ![c[1]] = Nobody]
        /\ retired' = Append(retired, [end |-> op[w].ts, id |-> op[w].id, begin |-> RowAt(c).begin])
    BY DEF Retire, ghost
  <1>5. clock \in 1..MaxClock /\ clock - 1 \in Int
    BY <1>2, Facts DEF IsWrite
  <1>6. c \in DOMAIN Layout /\ Layout[c] = RowAt(c) /\ Layout[c] \in Row
    BY <1>2, LayoutIs, Facts
  <1> HIDE DEF c
  <1>7. retired' = Append(retired, Entry(Layout[c]))
    BY <1>2, <1>4, <1>6 DEF Entry
  <1>8. retired' \in Seq(Row)
    <2>1. Entry(Layout[c]) \in Row
      BY <1>6, RowFacts DEF Entry, Row
    <2> QED
      BY <1>7, <2>1, AppendProperties, Facts
  <1>9. /\ owner' \in Writers \cup {Nobody} /\ holder' \in [DOMAIN pages -> Writers \cup {Nobody}]
    BY <1>4, Facts
  <1>10. /\ InOrderUpTo(Layout, clock - 1, clock) /\ Mapped(Layout, locations, {}, {})
         /\ InQueue(Layout, retired, {c}) /\ retired \in Seq(Row)
         /\ Names(Layout, Current(Layout)) = Others(past[clock - 1], op[w].id)
    BY <1>3, Facts
  <1>11. InQueue(Layout, retired', {})
    <2>1. RowsSound(Layout, clock - 1, clock)
      BY <1>10 DEF InOrderUpTo
    <2> QED
      BY <1>2, <1>5, <1>6, <1>7, <1>10, <2>1, QueuedIs
  <1> QED
    BY <1>2, <1>3, <1>4, <1>8, <1>9, <1>10, <1>11, ClosedGoesOn

\* A step that only moves the call on.
LEMMA SameStage ==
  ASSUME NEW w, Writers = {w}, RefInv(w), NEW x, Goes(w, x),
         UNCHANGED <<clock, store, book, past, horizon, read>>,
         owner' \in Writers \cup {Nobody}, holder' \in [DOMAIN pages -> Writers \cup {Nobody}],
         Calls(w)', Told(w)' = Told(w), Begun(w)' = Begun(w), Ended(w)' = Ended(w),
         Currently(w)' = Currently(w), Unlisted(w)' = Unlisted(w), Unqueued(w)' = Unqueued(w),
         Cleared(w)' = Cleared(w)
  PROVE  RefInv(w)'
  <1>1. UNCHANGED <<clock, store, locations, past, horizon, read>> /\ retired' = retired /\ retired' \in Seq(Row)
    BY Facts DEF book
  <1>2. Layout' = Layout
    BY SameStore
  <1>3. Rows(w) /\ Books(w)
    BY DEF RefInv
  <1>4. Rows(w)'
    BY <1>1, <1>2, <1>3 DEF Rows
  <1>5. Books(w)'
    BY <1>1, <1>2, <1>3 DEF Books
  <1>6. Told(w)' >= Told(w) /\ Told(w)' \in Int
    BY Facts DEF Told
  <1> QED
    BY <1>1, <1>4, <1>5, <1>6, QuietStep

PlacingSteps == {"choose", "room", "place", "split", "halve"}

LEMMA PlacingStep ==
  ASSUME NEW w, Writers = {w}, RefInv(w), NEW x, Goes(w, x),
         UNCHANGED <<clock, store, book, past, horizon, read>>,
         owner' \in Writers \cup {Nobody}, holder' \in [DOMAIN pages -> Writers \cup {Nobody}],
         op[w].at \in PlacingSteps, x.at \in PlacingSteps, x.id = op[w].id, Calls(w)'
  PROVE  RefInv(w)'
  <1>1. op'[w] = x
    BY Facts
  <1>2. clock' = clock /\ past' = past
    OBVIOUS
  <1>3. StageIs(w) /\ StageIs(w)'
    BY Stages
  <1>4. /\ Told(w) = clock - 1 /\ Begun(w) = clock - 1 /\ Ended(w) = clock
        /\ Currently(w) = Others(past[clock - 1], op[w].id) /\ Unlisted(w) = {} /\ Unqueued(w) = {}
        /\ Cleared(w) = {}
    BY <1>3 DEF StageIs, PlacingSteps
  <1>5. /\ Told(w)' = clock - 1 /\ Begun(w)' = clock - 1 /\ Ended(w)' = clock
        /\ Currently(w)' = Others(past[clock - 1], op[w].id) /\ Unlisted(w)' = {} /\ Unqueued(w)' = {}
        /\ Cleared(w)' = {}
    BY <1>1, <1>2, <1>3 DEF StageIs, PlacingSteps
  <1> QED
    BY <1>4, <1>5, SameStage

\* What a call that places a row knows of itself.
LEMMA PlacingIs ==
  ASSUME NEW w, Writers = {w}, RefInv(w), op[w].at \in PlacingSteps
  PROVE  IsWrite(w) /\ op[w].call = "insert" /\ op[w].ts = clock /\ op[w].id \in Ids
  <1>1. AtChoose(w) \/ AtPage(w)
    BY CallIs, Facts DEF PlacingSteps
  <1> QED
    BY <1>1 DEF AtChoose, AtPage, Call, WithPage, IsWrite

LEMMA ToPage ==
  ASSUME NEW w, Writers = {w}, RefInv(w), op[w].at \in PlacingSteps, UNCHANGED <<clock, past>>,
         NEW at \in {"room", "place", "split", "halve"}, NEW p \in InUsePages', Goes(w, WithPage(w, at, p))
  PROVE  Calls(w)'
  <1>1. IsWrite(w) /\ op[w].call = "insert" /\ op[w].ts = clock
    BY PlacingIs
  <1>2. op'[w] = [at |-> at, call |-> "insert", id |-> op[w].id, ts |-> clock, page |-> p]
    BY <1>1, Facts DEF WithPage
  <1>3. AtPage(w)'
    BY <1>1, <1>2 DEF AtPage, WithPage, IsWrite
  <1> QED
    BY <1>3 DEF Calls

LEMMA ToChoose ==
  ASSUME NEW w, Writers = {w}, RefInv(w), op[w].at \in PlacingSteps, UNCHANGED <<clock, past>>,
         ChooseAgain(w)
  PROVE  Calls(w)'
  <1>1. IsWrite(w) /\ op[w].call = "insert" /\ op[w].ts = clock
    BY PlacingIs
  <1>2. op'[w] = [at |-> "choose", call |-> "insert", id |-> op[w].id, ts |-> clock]
    BY <1>1, Facts DEF ChooseAgain
  <1>3. AtChoose(w)'
    BY <1>1, <1>2 DEF AtChoose, Call, IsWrite
  <1> QED
    BY <1>3 DEF Calls

LEMMA LookForRoomKeeps ==
  ASSUME NEW w, Writers = {w}, RefInv(w), LookForRoom(w)
  PROVE  RefInv(w)'
  <1>1. /\ op[w].at = "room" /\ op[w].at \in PlacingSteps
        /\ UNCHANGED <<clock, store, book, past, horizon, read>> /\ UNCHANGED <<owner, holder>>
    BY DEF LookForRoom, PlacingSteps, ghost
  <1>2. PICK at \in {"place", "split"} : Goes(w, WithPage(w, at, op[w].page))
    BY DEF LookForRoom
  <1>3. op[w].page \in InUsePages'
    BY <1>1, CallIs, SameStore, Facts DEF AtPage
  <1>4. Calls(w)'
    BY <1>1, <1>2, <1>3, ToPage
  <1>5. /\ owner' \in Writers \cup {Nobody} /\ holder' \in [DOMAIN pages -> Writers \cup {Nobody}]
    BY <1>1, Facts
  <1>6. WithPage(w, at, op[w].page).at \in PlacingSteps /\ WithPage(w, at, op[w].page).id = op[w].id
    BY DEF WithPage, PlacingSteps
  <1> QED
    BY <1>1, <1>2, <1>4, <1>5, <1>6, PlacingStep

LEMMA BeginSplitKeeps ==
  ASSUME NEW w, Writers = {w}, RefInv(w), BeginSplit(w)
  PROVE  RefInv(w)'
  <1>1. /\ op[w].at = "split" /\ op[w].at \in PlacingSteps
        /\ UNCHANGED <<clock, store, book, past, horizon, read>> /\ UNCHANGED holder /\ owner' = w
    BY DEF BeginSplit, PlacingSteps, ghost
  <1>2. Goes(w, WithPage(w, "halve", op[w].page))
    BY DEF BeginSplit
  <1>3. op[w].page \in InUsePages'
    BY <1>1, CallIs, SameStore, Facts DEF AtPage
  <1>4. Calls(w)'
    BY <1>1, <1>2, <1>3, ToPage
  <1>5. /\ owner' \in Writers \cup {Nobody} /\ holder' \in [DOMAIN pages -> Writers \cup {Nobody}]
    BY <1>1, Facts
  <1>6. /\ WithPage(w, "halve", op[w].page).at \in PlacingSteps
        /\ WithPage(w, "halve", op[w].page).id = op[w].id
    BY DEF WithPage, PlacingSteps
  <1> QED
    BY <1>1, <1>2, <1>4, <1>5, <1>6, PlacingStep

\* A step back to the choice of a page.
LEMMA ChoosesAgain ==
  ASSUME NEW w, Writers = {w}, RefInv(w), op[w].at \in PlacingSteps,
         UNCHANGED <<clock, store, book, past, horizon, read>>, ChooseAgain(w),
         owner' \in Writers \cup {Nobody}, holder' \in [DOMAIN pages -> Writers \cup {Nobody}]
  PROVE  RefInv(w)'
  <1> DEFINE x == [at |-> "choose", call |-> "insert", id |-> op[w].id, ts |-> op[w].ts]
  <1>1. Goes(w, x) /\ x.at \in PlacingSteps /\ x.id = op[w].id
    BY DEF ChooseAgain, PlacingSteps
  <1>2. Calls(w)'
    BY ToChoose
  <1> HIDE DEF x
  <1> QED
    BY <1>1, <1>2, PlacingStep

LEMMA ListPlacesKeeps ==
  ASSUME NEW w, Writers = {w}, RefInv(w), ListPlaces(w)
  PROVE  RefInv(w)'
  <1> DEFINE list == locations[op[w].id]
             x == WithPlaces(w, "close", Reverse(list))
  <1>1. /\ op[w].at = "list" /\ Goes(w, x)
        /\ UNCHANGED <<clock, store, book, past, horizon, read>> /\ UNCHANGED <<owner, holder>>
    BY DEF ListPlaces, ghost
  <1>2. AtList(w) /\ IsWrite(w) /\ op[w].id \in Ids /\ op[w].ts = clock
    BY <1>1, CallIs, Facts DEF AtList, IsWrite, Call
  <1>3. op'[w] = [at |-> "close", call |-> op[w].call, id |-> op[w].id, ts |-> clock, todo |-> Reverse(list)]
    BY <1>1, <1>2, Facts DEF WithPlaces
  <1>4. /\ Told(w) = clock - 1 /\ Begun(w) = clock - 1 /\ Ended(w) = clock - 1
        /\ Currently(w) = past[clock - 1] /\ Unlisted(w) = {} /\ Unqueued(w) = {} /\ Cleared(w) = {}
    BY <1>1, Stages DEF StageIs
  <1>5. /\ Told(w)' = clock - 1 /\ Begun(w)' = clock - 1 /\ Ended(w)' = clock - 1
        /\ Currently(w)' = past[clock - 1] /\ Unlisted(w)' = {} /\ Unqueued(w)' = {} /\ Cleared(w)' = {}
    BY <1>1, <1>3, Stages DEF StageIs
  <1>6. Mapped(Layout, locations, {}, {})
    BY <1>4, Facts
  <1>7. list \in Seq(Place) /\ \A k \in DOMAIN list : list[k] \in Cell
    <2>1. list \in Seq(Place)
      BY <1>2, Facts
    <2>2. \A c \in Elements(list) : c \in DOMAIN Layout
      BY <1>2, <1>6 DEF Mapped
    <2>3. \A c \in Elements(list) : c \in Cell
      BY <2>2, LayoutIs, Facts
    <2> QED
      BY <2>1, <2>3 DEF Elements
  <1>8. Reverse(list) \in Seq(Cell) /\ Elements(Reverse(list)) = Elements(list)
    <2> DEFINE n == Len(list)
    <2>1. n \in Nat /\ DOMAIN list = 1..n /\ Reverse(list) = [k \in 1..n |-> list[(n - k) + 1]]
      BY <1>7 DEF Reverse
    <2> HIDE DEF list, n
    <2>2. \A k \in 1..n : (n - k) + 1 \in 1..n /\ (n - ((n - k) + 1)) + 1 = k
      BY <2>1
    <2>3. Reverse(list) \in [1..n -> Cell]
      BY <1>7, <2>1, <2>2
    <2>4. Reverse(list) \in Seq(Cell)
      BY <2>1, <2>3, IsASeq
    <2>5. \A k \in 1..n : Reverse(list)[k] = list[(n - k) + 1] /\ Reverse(list)[(n - k) + 1] = list[k]
      BY <2>1, <2>2
    <2>6. \A c \in Elements(Reverse(list)) : c \in Elements(list)
      BY <2>1, <2>2, <2>5 DEF Elements
    <2>7. \A c \in Elements(list) : c \in Elements(Reverse(list))
      BY <2>1, <2>2, <2>5 DEF Elements
    <2> QED
      BY <2>4, <2>6, <2>7
  <1>9. \A c \in Current(Layout) : Layout[c].id = op[w].id => c \in Elements(list)
    BY <1>6 DEF Mapped, Current
  <1> HIDE DEF list
  <1>10. AtClose(w)'
    <2>1. Cell' = Cell /\ Layout' = Layout
      BY <1>1, SameStore
    <2>2. op'[w] = WithPlaces(w, "close", op[w].todo)' /\ IsWrite(w)'
      BY <1>1, <1>2, <1>3 DEF WithPlaces, IsWrite
    <2> QED
      BY <1>1, <1>3, <1>8, <1>9, <2>1, <2>2 DEF AtClose
  <1>11. Calls(w)'
    BY <1>10 DEF Calls
  <1>12. /\ owner' \in Writers \cup {Nobody} /\ holder' \in [DOMAIN pages -> Writers \cup {Nobody}]
    BY <1>1, Facts
  <1> HIDE DEF x
  <1> QED
    BY <1>1, <1>4, <1>5, <1>11, <1>12, SameStage

-----------------------------------------------------------------------------
(* Steps that change a row, the map or the pages.                          *)

LEMMA StoreStep ==
  ASSUME NEW w, Writers = {w}, RefInv(w), NEW x, Goes(w, x), UNCHANGED <<clock, past, horizon, read>>,
         pages' \in Seq([Slots -> Row \cup {Free}]), DOMAIN pages \subseteq DOMAIN pages',
         directory' \in Seq(DOMAIN pages'), Once(directory'),
         locations' \in [Ids -> Seq(Place')], retired' \in Seq(Row),
         owner' \in Writers \cup {Nobody}, holder' \in [DOMAIN pages' -> Writers \cup {Nobody}],
         Calls(w)', Told(w)' >= Told(w), Told(w)' \in Int, Rows(w)', Books(w)',
         \A p \in DOMAIN pages : \A snap \in horizon..Told(w) : Shown(p, snap)' = Shown(p, snap)
  PROVE  RefInv(w)'
  <1>1. TypeOK'
    BY Facts DEF TypeOK
  <1>2. Whole'
    BY Facts DEF Whole
  <1>3. Once(directory)'
    BY DEF Once
  <1>4. Frame'
    BY <1>1, <1>2, <1>3 DEF Frame, RefInv
  <1>5. Told(w) \in Int /\ horizon \in Int
    BY Facts DEF Told
  <1>6. \A r \in Readers : read[r].at = "probe" => read[r].snap \in horizon..Told(w)
    BY DEF RefInv, Reads
  <1>7. \A r \in Readers : read[r].at = "probe" => horizon' <= read[r].snap
    BY <1>5, <1>6
  <1>8. Reads(w)'
    BY <1>5, <1>7, ReadsKept DEF RefInv
  <1> QED
    BY <1>4, <1>8 DEF RefInv

\* A row as a search at a snapshot sees it.
SeesRow(row, snap) == row # Free /\ row.begin <= snap /\ snap < row.end

\* One cell is written.
Writes(c, row) == pages' = [pages EXCEPT ![c[1]][c[2]] = row] /\ directory' = directory

Written(c, row) ==
  /\ pages' \in Seq([Slots -> Row \cup {Free}]) /\ DOMAIN pages' = DOMAIN pages
  /\ directory' \in Seq(DOMAIN pages')
  /\ InUsePages' = InUsePages /\ Cell' = Cell /\ Place' = Place
  /\ RowAt(c)' = row /\ \A d \in Cell : d # c => RowAt(d)' = RowAt(d)
  /\ \A p \in DOMAIN pages : \A s \in Slots :
       IF p = c[1] /\ s = c[2] THEN pages'[p][s] = row ELSE pages'[p][s] = pages[p][s]

LEMMA CellSet ==
  ASSUME TypeOK, NEW c \in Cell, NEW row, row \in Row \cup {Free}, Writes(c, row)
  PROVE  Written(c, row)
  <1>1. /\ c = <<c[1], c[2]>> /\ c[1] \in DOMAIN pages /\ c[2] \in Slots
        /\ pages[c[1]] \in [Slots -> Row \cup {Free}]
    BY CellIs
  <1>2. pages \in Seq([Slots -> Row \cup {Free}]) /\ directory \in Seq(DOMAIN pages)
    BY DEF TypeOK
  <1> DEFINE new == [pages[c[1]] EXCEPT ![c[2]] = row]
  <1>3. new \in [Slots -> Row \cup {Free}]
    BY <1>1
  <1>4. pages' = [pages EXCEPT ![c[1]] = new] /\ directory' = directory
    BY DEF Writes
  <1>5. \A s \in Slots : new[s] = IF s = c[2] THEN row ELSE pages[c[1]][s]
    BY <1>1
  <1> HIDE DEF new
  <1>6. pages' \in Seq([Slots -> Row \cup {Free}]) /\ Len(pages') = Len(pages)
    BY <1>1, <1>2, <1>3, <1>4, ExceptSeq
  <1>7. DOMAIN pages' = DOMAIN pages /\ pages'[c[1]] = new
        /\ \A p \in DOMAIN pages : p # c[1] => pages'[p] = pages[p]
    BY <1>1, <1>4
  <1>8. InUsePages' = InUsePages /\ Cell' = Cell /\ Place' = Place
    BY <1>4, <1>7 DEF InUsePages, Cell, Place
  <1>9. \A p \in DOMAIN pages : \A s \in Slots :
              IF p = c[1] /\ s = c[2] THEN pages'[p][s] = row ELSE pages'[p][s] = pages[p][s]
    BY <1>5, <1>7
  <1>10. RowAt(c)' = row
    BY <1>1, <1>9 DEF RowAt
  <1>11. \A d \in Cell : d # c => RowAt(d)' = RowAt(d)
    <2> TAKE d \in Cell
    <2>1. d = <<d[1], d[2]>> /\ d[1] \in DOMAIN pages /\ d[2] \in Slots
      BY CellIs
    <2> QED
      BY <1>1, <1>9, <2>1 DEF RowAt
  <1> QED
    BY <1>2, <1>4, <1>6, <1>7, <1>8, <1>9, <1>10, <1>11 DEF Written

LEMMA ShownIs ==
  ASSUME NEW p, NEW snap
  PROVE  /\ Shown(p, snap) = {<<pages[p][s].id, pages[p][s].begin>> :
                                s \in {t \in Slots : SeesRow(pages[p][t], snap)}}
         /\ Shown(p, snap)' = {<<pages'[p][s].id, pages'[p][s].begin>> :
                                s \in {t \in Slots : SeesRow(pages'[p][t], snap)}}
  <1>1. Shown(p, snap) = {<<pages[p][s].id, pages[p][s].begin>> :
                                s \in {t \in Slots : SeesRow(pages[p][t], snap)}}
    BY DEF Shown, visible, occupied, free_slots, SeesRow
  <1>2. Shown(p, snap)' = {<<pages'[p][s].id, pages'[p][s].begin>> :
                                s \in {t \in Slots : SeesRow(pages'[p][t], snap)}}
    BY DEF Shown, visible, occupied, free_slots, SeesRow
  <1> QED
    BY <1>1, <1>2

\* A search sees of a cell what it saw before.
LEMMA ShownSame ==
  ASSUME NEW p, NEW snap,
         \A s \in Slots : /\ SeesRow(pages'[p][s], snap) <=> SeesRow(pages[p][s], snap)
                          /\ SeesRow(pages[p][s], snap) =>
                               /\ pages'[p][s].id = pages[p][s].id
                               /\ pages'[p][s].begin = pages[p][s].begin
  PROVE  Shown(p, snap)' = Shown(p, snap)
  BY ShownIs

LEMMA RecordPlaceKeeps ==
  ASSUME NEW w, Writers = {w}, RefInv(w), RecordPlace(w)
  PROVE  RefInv(w)'
  <1> DEFINE c == <<op[w].page, op[w].slot>>
  <1>1. AtRecord(w) /\ op[w].at = "record"
    BY CallIs, Facts DEF RecordPlace
  <1>2. /\ IsWrite(w) /\ op[w].id \in Ids /\ c \in Used
        /\ RowAt(c) = [id |-> op[w].id, begin |-> clock, end |-> MAX_TS]
    BY <1>1 DEF AtRecord, IsWrite
  <1>3. /\ Told(w) = clock - 1 /\ Begun(w) = clock /\ Ended(w) = clock
        /\ Currently(w) = past[clock] /\ Unlisted(w) = {c} /\ Unqueued(w) = {} /\ Cleared(w) = {}
    BY <1>1, Stages DEF StageIs
  <1>4. /\ UNCHANGED <<clock, past, horizon, read>> /\ pages' = pages /\ directory' = directory
        /\ retired' = retired /\ owner' = owner /\ Goes(w, [at |-> "idle"])
        /\ locations' = [locations EXCEPT ![op[w].id] = Append(@, c)]
        /\ holder' = [holder EXCEPT ![op[w].page] = Nobody]
    BY DEF RecordPlace, Ends, store, ghost
  <1>5. c \in DOMAIN Layout /\ Layout[c] = RowAt(c) /\ c \in Cell /\ c \in Place
    BY <1>2, LayoutIs, CellIs, Facts DEF Place
  <1> HIDE DEF c
  <1>6. op'[w] = [at |-> "idle"]
    BY <1>4, Facts
  <1>7. /\ Told(w)' = clock /\ Begun(w)' = clock /\ Ended(w)' = clock
        /\ Currently(w)' = past[clock] /\ Unlisted(w)' = {} /\ Unqueued(w)' = {} /\ Cleared(w)' = {}
    BY <1>4, <1>6, Stages DEF StageIs
  <1>8. /\ InOrderUpTo(Layout, clock, clock) /\ Names(Layout, Current(Layout)) = past[clock]
        /\ Mapped(Layout, locations, {c}, {}) /\ InQueue(Layout, retired, {})
    BY <1>3, Facts
  <1>9. \A snap \in horizon..(clock - 1) : Tells(Layout, snap, past[snap])
    BY <1>3, Facts
  <1>10. clock \in 0..MaxClock /\ clock \in Int /\ horizon \in Int /\ locations \in [Ids -> Seq(Place)]
    BY Facts
  <1>11. Mapped(Layout, locations', {}, {})
    <2>1. Layout[c].id = op[w].id
      BY <1>2, <1>5
    <2> QED
      BY <1>2, <1>4, <1>5, <1>8, <1>10, <2>1, MappedIs
  <1>12. Layout' = Layout /\ Place' = Place /\ DOMAIN pages' = DOMAIN pages
         /\ \A p, snap : Shown(p, snap)' = Shown(p, snap)
    BY <1>4, SameStore DEF Place, store
  <1>13. locations' \in [Ids -> Seq(Place')]
    <2>1. Append(locations[op[w].id], c) \in Seq(Place)
      BY <1>2, <1>5, <1>10, AppendProperties
    <2> QED
      BY <1>4, <1>10, <1>12, <2>1
  <1>14. \A snap \in horizon..clock : Tells(Layout, snap, past[snap])
    <2>1. Tells(Layout, clock, past[clock])
      BY <1>8, <1>10, NowTells
    <2>2. \A snap \in horizon..clock : snap = clock \/ snap \in horizon..(clock - 1)
      BY <1>10
    <2> QED
      BY <1>9, <2>1, <2>2
  <1>15. Rows(w)'
    BY <1>4, <1>7, <1>8, <1>12, <1>14 DEF Rows
  <1>16. Books(w)'
    BY <1>4, <1>7, <1>8, <1>11, <1>12 DEF Books
  <1>17. Calls(w)'
    BY <1>6 DEF Calls
  <1>18. /\ pages' \in Seq([Slots -> Row \cup {Free}]) /\ directory' \in Seq(DOMAIN pages')
         /\ Once(directory') /\ retired' \in Seq(Row)
    BY <1>4, Facts DEF TypeOK
  <1>19. owner' \in Writers \cup {Nobody} /\ holder' \in [DOMAIN pages' -> Writers \cup {Nobody}]
    BY <1>4, <1>12, Facts
  <1>20. Told(w)' >= Told(w) /\ Told(w)' \in Int
    BY <1>3, <1>7, <1>10
  <1> QED
    BY <1>4, <1>12, <1>13, <1>15, <1>16, <1>17, <1>18, <1>19, <1>20, StoreStep

LEMMA TickKeeps ==
  ASSUME NEW w, Writers = {w}, RefInv(w), NEW id \in Ids, NEW call \in {"insert", "delete"},
         Tick(w, call, id)
  PROVE  RefInv(w)'
  <1> DEFINE x == [at |-> "list", call |-> call, id |-> id, ts |-> clock + 1]
             rows == Others(past[clock], id) \cup (IF call = "insert" THEN {<<id, clock + 1>>} ELSE {})
  <1>1. /\ op[w].at = "idle" /\ clock < MaxClock /\ clock' = clock + 1 /\ Goes(w, x)
        /\ past' = [past EXCEPT ![clock + 1] = rows]
        /\ UNCHANGED <<store, book, owner, holder, read, horizon>>
    BY DEF Tick, Others
  <1>2. clock \in Nat /\ clock + 1 \in 0..MaxClock /\ MaxClock \in Nat /\ horizon \in 0..clock
    BY <1>1, Facts, Bounds
  <1>3. op'[w] = x /\ op' = [v \in Writers |-> op'[v]]
    BY <1>1, Facts
  <1> HIDE DEF rows
  <1>4. past' = [t \in 0..MaxClock |-> past'[t]] /\ past'[clock + 1] = rows
        /\ \A t \in 0..MaxClock : t # clock + 1 => past'[t] = past[t]
    BY <1>1, <1>2, Facts DEF Whole
  <1>5. clock' - 1 = clock /\ past'[clock' - 1] = past[clock] /\ \A t \in 0..clock : past'[t] = past[t]
    BY <1>1, <1>2, <1>4
  <1>6. /\ Told(w) = clock /\ Begun(w) = clock /\ Ended(w) = clock
        /\ Currently(w) = past[clock] /\ Unlisted(w) = {} /\ Unqueued(w) = {} /\ Cleared(w) = {}
    BY <1>1, Stages DEF StageIs
  <1>7. /\ Told(w)' = clock /\ Begun(w)' = clock /\ Ended(w)' = clock
        /\ Currently(w)' = past[clock] /\ Unlisted(w)' = {} /\ Unqueued(w)' = {} /\ Cleared(w)' = {}
    BY <1>3, <1>5, Stages DEF StageIs
  <1>8. Frame'
    <2>1. TypeOK'
      BY <1>1, <1>2, Facts DEF TypeOK, store, book, Place
    <2>2. Whole'
      BY <1>1, <1>3, <1>4, Facts DEF Whole
    <2>3. Once(directory)' /\ horizon' <= clock'
      BY <1>1, <1>2, Facts DEF Once, store
    <2> QED
      BY <2>1, <2>2, <2>3 DEF Frame
  <1>9. AtList(w)'
    BY <1>1, <1>2, <1>3, <1>4, <1>5 DEF AtList, Call, IsWrite, rows
  <1>10. Layout' = Layout /\ locations' = locations /\ retired' = retired
         /\ \A p, snap : Shown(p, snap)' = Shown(p, snap)
    BY <1>1, SameStore DEF book
  <1>11. Rows(w)'
    <2>1. InOrderUpTo(Layout, clock, clock) /\ Names(Layout, Current(Layout)) = past[clock]
      BY <1>6, Facts
    <2>2. \A snap \in horizon..clock : Tells(Layout, snap, past[snap])
      BY <1>6, Facts
    <2>3. \A snap \in horizon..clock : past'[snap] = past[snap]
      BY <1>2, <1>5
    <2>4. horizon' = horizon
      BY <1>1
    <2>5. \A snap \in horizon..clock : Tells(Layout, snap, past'[snap])
      BY <2>2, <2>3
    <2> QED
      BY <1>7, <1>10, <2>1, <2>4, <2>5 DEF Rows
  <1>12. Books(w)'
    <2>1. Mapped(Layout, locations, {}, {}) /\ InQueue(Layout, retired, {})
      BY <1>6, Facts
    <2> QED
      BY <1>7, <1>10, <2>1 DEF Books
  <1>13. Reads(w)'
    <2>1. \A r \in Readers : read[r].at = "probe" => read[r].snap \in horizon..Told(w)
      BY DEF RefInv, Reads
    <2>2. Told(w) \in Int /\ Told(w)' \in Int /\ Told(w)' >= Told(w) /\ horizon \in Int /\ horizon' = horizon
      BY <1>1, <1>2, <1>6, <1>7
    <2>3. \A r \in Readers : read[r].at = "probe" => horizon' <= read[r].snap
      BY <2>1, <2>2
    <2>4. \A snap \in horizon..Told(w) : past'[snap] = past[snap]
      BY <1>2, <1>5, <1>6
    <2>5. read' = read /\ DOMAIN pages \subseteq DOMAIN pages' /\ Reads(w)
      BY <1>1 DEF store, RefInv
    <2> QED
      BY <1>10, <2>2, <2>3, <2>4, <2>5, ReadsKept
  <1>14. Calls(w)'
    BY <1>9 DEF Calls
  <1> QED
    BY <1>8, <1>11, <1>12, <1>13, <1>14 DEF RefInv

LEMMA HeadOrTail ==
  ASSUME NEW X, NEW seq \in Seq(X), seq # <<>>
  PROVE  Head(seq) \in X /\ Tail(seq) \in Seq(X) /\ \A x \in Elements(seq) : x = Head(seq) \/ x \in Elements(Tail(seq))
  <1> DEFINE n == Len(seq)
             t == Tail(seq)
  <1>1. /\ n \in Nat \ {0} /\ DOMAIN seq = 1..n /\ Head(seq) = seq[1] /\ Head(seq) \in X /\ t \in Seq(X)
        /\ DOMAIN t = 1..(n - 1) /\ \A k \in 1..(n - 1) : t[k] = seq[k + 1]
    BY HeadTailProperties
  <1> HIDE DEF n, t
  <1>2. ASSUME NEW k \in 1..n, k # 1 PROVE seq[k] \in Elements(t)
    <2>1. k - 1 \in 1..(n - 1) /\ (k - 1) + 1 = k
      BY <1>1, <1>2
    <2>2. t[k - 1] = seq[k]
      BY <1>1, <2>1
    <2> QED
      BY <1>1, <2>1, <2>2 DEF Elements
  <1> QED
    BY <1>1, <1>2 DEF Elements, t

\* The first place is not the open version: the call looks at the next.
LEMMA PassPlaceKeeps ==
  ASSUME NEW w, Writers = {w}, RefInv(w), ClosePlace(w), ~IsOpen(w, Head(op[w].todo))
  PROVE  RefInv(w)'
  <1> DEFINE x == WithPlaces(w, "close", Tail(op[w].todo))
  <1>1. /\ AtClose(w) /\ op[w].at = "close" /\ op[w].todo # <<>> /\ op[w].todo \in Seq(Cell)
        /\ Goes(w, x) /\ UNCHANGED <<clock, store, book, past, horizon, read>> /\ UNCHANGED <<owner, holder>>
    BY CallIs, Facts DEF ClosePlace, AtClose, store, ghost
  <1>2. IsWrite(w) /\ op[w].ts = clock /\ \A c \in Current(Layout) : Layout[c].id = op[w].id => c \in Elements(op[w].todo)
    BY <1>1 DEF AtClose
  <1>3. op'[w] = [at |-> "close", call |-> op[w].call, id |-> op[w].id, ts |-> clock, todo |-> Tail(op[w].todo)]
    BY <1>1, <1>2, Facts DEF WithPlaces
  <1>4. /\ Tail(op[w].todo) \in Seq(Cell)
        /\ \A c \in Elements(op[w].todo) : c = Head(op[w].todo) \/ c \in Elements(Tail(op[w].todo))
    BY <1>1, HeadOrTail
  <1>5. ASSUME NEW c \in Current(Layout), Layout[c].id = op[w].id PROVE c \in Elements(Tail(op[w].todo))
    <2>1. c \in Used /\ Layout[c] = RowAt(c) /\ Layout[c].end = MAX_TS
      BY LayoutIs, Facts DEF Current
    <2>2. c # Head(op[w].todo)
      BY <1>5, <2>1 DEF IsOpen
    <2> QED
      BY <1>2, <1>4, <1>5, <2>2
  <1>6. Cell' = Cell /\ Layout' = Layout /\ clock' = clock
    BY <1>1, SameStore
  <1>7. AtClose(w)'
    <2>1. op'[w] = WithPlaces(w, "close", op[w].todo)' /\ IsWrite(w)'
      BY <1>1, <1>2, <1>3 DEF WithPlaces, IsWrite
    <2> QED
      BY <1>3, <1>4, <1>5, <1>6, <2>1 DEF AtClose
  <1>8. Calls(w)'
    BY <1>7 DEF Calls
  <1>9. /\ Told(w) = clock - 1 /\ Begun(w) = clock - 1 /\ Ended(w) = clock - 1
        /\ Currently(w) = past[clock - 1] /\ Unlisted(w) = {} /\ Unqueued(w) = {} /\ Cleared(w) = {}
    BY <1>1, Stages DEF StageIs
  <1>10. /\ Told(w)' = clock - 1 /\ Begun(w)' = clock - 1 /\ Ended(w)' = clock - 1
         /\ Currently(w)' = past[clock - 1] /\ Unlisted(w)' = {} /\ Unqueued(w)' = {} /\ Cleared(w)' = {}
    BY <1>1, <1>3, Stages DEF StageIs
  <1>11. owner' \in Writers \cup {Nobody} /\ holder' \in [DOMAIN pages -> Writers \cup {Nobody}]
    <2>1. owner' = owner /\ holder' = holder
      BY <1>1, Zenon
    <2> QED
      BY <2>1, Facts
  <1> HIDE DEF x
  <1> QED
    BY <1>1, <1>8, <1>9, <1>10, <1>11, SameStage

\* The first place is the open version: it ends at the tick of the call.
LEMMA EndPlaceKeeps ==
  ASSUME NEW w, Writers = {w}, RefInv(w), ClosePlace(w), IsOpen(w, Head(op[w].todo))
  PROVE  RefInv(w)'
  <1>c. PICK c : c = Head(op[w].todo)
    OBVIOUS
  <1>o. PICK old : old = RowAt(c)
    OBVIOUS
  <1>r. PICK row : row = [id |-> old.id, begin |-> old.begin, end |-> clock]
    BY Zenon
  <1>x. PICK x : x = WithPlaces(w, "retire", <<c>>)
    BY Zenon
  <1>1. /\ AtClose(w) /\ op[w].at = "close" /\ op[w].todo # <<>> /\ op[w].todo \in Seq(Cell)
        /\ pages' = [pages EXCEPT ![c[1]][c[2]].end = op[w].ts] /\ holder' = [holder EXCEPT ![c[1]] = w]
        /\ Goes(w, x) /\ UNCHANGED <<clock, past, horizon, read, locations, retired, owner, directory>>
    <2>1. op[w].at = "close" /\ op[w].todo # <<>>
      BY DEF ClosePlace
    <2>2. AtClose(w) /\ op[w].todo \in Seq(Cell)
      BY <2>1, CallIs, Facts DEF AtClose
    <2>3. /\ pages' = [pages EXCEPT ![c[1]][c[2]].end = op[w].ts] /\ holder' = [holder EXCEPT ![c[1]] = w]
          /\ Goes(w, x)
      BY <1>c, <1>x, Zenon DEF ClosePlace
    <2>4. UNCHANGED <<clock, past, horizon, read, locations, retired, owner, directory>>
      <3>1. UNCHANGED <<clock, directory, book, owner, read, ghost>>
        BY Zenon DEF ClosePlace
      <3> QED
        BY <3>1 DEF book, ghost
    <2> QED
      BY <2>1, <2>2, <2>3, <2>4
  <1>2. /\ IsWrite(w) /\ op[w].ts = clock /\ c \in Cell /\ old.id = op[w].id /\ old.end = MAX_TS
        /\ op[w].id \in Ids
    BY <1>1, HeadOrTail, <1>c, <1>o DEF AtClose, IsOpen, IsWrite
  <1>3. clock \in 1..MaxClock /\ clock \in Nat /\ MAX_TS \in Nat /\ clock < MAX_TS /\ horizon \in 0..clock /\ clock > 0
    BY <1>2, Facts, Bounds DEF IsWrite
  <1>4. old \in Row /\ c \in Used
    <2>1. old \in Row \cup {Free} /\ old # Free
      BY <1>2, <1>3, CellIs, FreeIsNoRow, Facts, <1>o
    <2> QED
      BY <1>2, <1>o, <2>1 DEF Used
  <1>5. old = [id |-> old.id, begin |-> old.begin, end |-> MAX_TS] /\ row \in Row /\ row \in Row \cup {Free}
    BY <1>2, <1>3, <1>4, <1>r, RowFacts DEF Row
  <1>6. pages' = [pages EXCEPT ![c[1]][c[2]] = row]
    <2>1. [old EXCEPT !.end = op[w].ts] = row
      BY <1>2, <1>5, <1>r
    <2>2. pages' = [pages EXCEPT ![c[1]][c[2]] = [@ EXCEPT !.end = op[w].ts]]
      BY <1>1
    <2> QED
      BY <1>o, <2>1, <2>2 DEF RowAt
  <1>7. Layout[c] = old /\ Layout[c].end = MAX_TS /\ c \in DOMAIN Layout /\ c \in Current(Layout) /\ DOMAIN Layout = Used
    BY <1>2, <1>4, <1>o, LayoutIs, Facts DEF Current
  <1>8. /\ pages' \in Seq([Slots -> Row \cup {Free}]) /\ DOMAIN pages' = DOMAIN pages
        /\ directory' \in Seq(DOMAIN pages') /\ Cell' = Cell /\ Place' = Place
        /\ RowAt(c)' = row /\ \A d \in Cell : d # c => RowAt(d)' = RowAt(d)
        /\ \A p \in DOMAIN pages : \A s \in Slots :
             IF p = c[1] /\ s = c[2] THEN pages'[p][s] = row ELSE pages'[p][s] = pages[p][s]
    <2>1. directory' = directory
      BY <1>1
    <2>2. TypeOK /\ Writes(c, row) /\ c \in Cell /\ row \in Row \cup {Free}
      BY <1>2, <1>5, <1>6, <2>1, Facts DEF Writes
    <2>3. Written(c, row)
      BY <2>2, CellSet
    <2> QED
      BY <2>3, Zenon DEF Written
  <1>9. row # Free /\ row.id = old.id /\ row.begin = old.begin /\ row.end = clock
    BY <1>5, <1>r, FreeIsNoRow
  <1>10. Used' = Used
    BY <1>4, <1>8, <1>9 DEF Used
  <1>11. RowEnds(Layout, Layout', c, clock)
    <2>1. Layout' = [d \in Used |-> RowAt(d)']
      BY <1>10 DEF Layout
    <2>2. Layout'[c] = [id |-> Layout[c].id, begin |-> Layout[c].begin, end |-> clock]
      BY <1>4, <1>7, <1>8, <1>r, <2>1
    <2>3. \A d \in Used : d # c => Layout'[d] = Layout[d]
      BY <1>8, <2>1, LayoutIs, Facts
    <2> QED
      BY <1>7, <2>1, <2>2, <2>3 DEF RowEnds
  <1>12. /\ Told(w) = clock - 1 /\ Begun(w) = clock - 1 /\ Ended(w) = clock - 1
         /\ Currently(w) = past[clock - 1] /\ Unlisted(w) = {} /\ Unqueued(w) = {} /\ Cleared(w) = {}
    BY <1>1, Stages DEF StageIs
  <1>13. op'[w] = [at |-> "retire", call |-> op[w].call, id |-> op[w].id, ts |-> clock, todo |-> <<c>>]
    <2>1. op'[w] = x
      BY <1>1, Facts
    <2> QED
      BY <1>2, <1>x, <2>1 DEF WithPlaces
  <1>14. /\ op'[w].at = "retire" /\ op'[w].id = op[w].id /\ op'[w].call = op[w].call /\ op'[w].ts = clock
         /\ Head(op'[w].todo) = c /\ clock' = clock /\ past' = past
    <2>1. clock' = clock /\ past' = past
      BY <1>1, Zenon
    <2>2. op'[w].todo = <<c>>
      BY <1>13
    <2>3. op'[w].at = "retire" /\ op'[w].id = op[w].id /\ op'[w].call = op[w].call /\ op'[w].ts = clock
      BY <1>13
    <2> QED
      BY <2>1, <2>2, <2>3
  <1>15. /\ Told(w)' = clock - 1 /\ Begun(w)' = clock - 1 /\ Ended(w)' = clock
         /\ Currently(w)' = Others(past[clock - 1], op[w].id) /\ Unlisted(w)' = {} /\ Unqueued(w)' = {c}
         /\ Cleared(w)' = {}
    BY <1>14, Stages DEF StageIs
  <1>16. /\ InOrderUpTo(Layout, clock - 1, clock - 1) /\ Names(Layout, Current(Layout)) = past[clock - 1]
         /\ Mapped(Layout, locations, {}, {}) /\ InQueue(Layout, retired, {})
         /\ \A snap \in horizon..(clock - 1) : Tells(Layout, snap, past[snap])
    BY <1>12, Facts
  <1>17. Rows(w)'
    <2>1. /\ InOrderUpTo(Layout', clock - 1, clock)
          /\ Names(Layout', Current(Layout')) = Others(past[clock - 1], Layout[c].id)
      BY <1>3, <1>11, <1>16, EndedIs
    <2>2. \A snap \in horizon..(clock - 1) : Tells(Layout', snap, past[snap])
      <3> TAKE snap \in horizon..(clock - 1)
      <3>1. snap \in Nat /\ snap < clock
        BY <1>3
      <3> QED
        BY <1>3, <1>11, <1>16, <3>1, EndedTells
    <2>3. Current(Layout)' = Current(Layout')
      BY DEF Current
    <2> QED
      BY <1>1, <1>2, <1>7, <1>15, <2>1, <2>2, <2>3 DEF Rows
  <1>18. Books(w)'
    <2>1. Mapped(Layout', locations, {}, {}) /\ InQueue(Layout', retired, {c})
      BY <1>3, <1>11, <1>16, EndedBooks
    <2> QED
      BY <1>1, <1>15, <2>1 DEF Books
  <1>19. Calls(w)'
    <2>1. c \in Used' /\ RowAt(c)'.id = op[w].id /\ RowAt(c)'.end = clock
      BY <1>2, <1>4, <1>8, <1>9, <1>10
    <2>2. op'[w] = WithPlaces(w, "retire", <<c>>)'
      BY <1>13 DEF WithPlaces
    <2>3. IsWrite(w)' /\ op'[w].ts = clock'
      BY <1>2, <1>14 DEF IsWrite
    <2>4. AtRetire(w)'
      BY <1>14, <2>1, <2>2, <2>3 DEF AtRetire
    <2> QED
      BY <2>4 DEF Calls
  <1>20. \A p \in DOMAIN pages : \A snap \in horizon..Told(w) : Shown(p, snap)' = Shown(p, snap)
    <2> TAKE p \in DOMAIN pages
    <2> TAKE snap \in horizon..Told(w)
    <2>1. snap \in Int /\ snap < clock /\ snap < MAX_TS
      BY <1>3, <1>12
    <2>2. SeesRow(row, snap) <=> SeesRow(old, snap)
      BY <1>2, <1>4, <1>9, <2>1, FreeIsNoRow DEF SeesRow
    <2>3. \A s \in Slots : \/ pages'[p][s] = pages[p][s]
                           \/ pages'[p][s] = row /\ pages[p][s] = old
      BY <1>8, <1>o DEF RowAt
    <2>4. \A s \in Slots : /\ SeesRow(pages'[p][s], snap) <=> SeesRow(pages[p][s], snap)
                           /\ SeesRow(pages[p][s], snap) =>
                               /\ pages'[p][s].id = pages[p][s].id
                               /\ pages'[p][s].begin = pages[p][s].begin
      BY <1>9, <2>2, <2>3
    <2> QED
      BY <2>4, ShownSame
  <1>21. /\ Once(directory') /\ retired' \in Seq(Row) /\ locations' \in [Ids -> Seq(Place')]
         /\ owner' \in Writers \cup {Nobody} /\ holder' \in [DOMAIN pages' -> Writers \cup {Nobody}]
    BY <1>1, <1>8, Facts
  <1>22. Told(w)' >= Told(w) /\ Told(w)' \in Int /\ DOMAIN pages \subseteq DOMAIN pages'
    BY <1>3, <1>8, <1>12, <1>15
  <1> QED
    BY <1>1, <1>8, <1>17, <1>18, <1>19, <1>20, <1>21, <1>22, StoreStep

LEMMA ClosePlaceKeeps ==
  ASSUME NEW w, Writers = {w}, RefInv(w), ClosePlace(w)
  PROVE  RefInv(w)'
  BY PassPlaceKeeps, EndPlaceKeeps

LEMMA LeastOf ==
  ASSUME NEW S \in SUBSET Nat, S # {}
  PROVE  \E m \in S : \A n \in S : m <= n
  <1>1. PICK m \in S : \A n \in S : ~(<<n, m>> \in OpToRel(<, Nat))
    BY NatLessThanWellFounded, WFMin
  <1>2. \A n \in S : ~(n < m)
    BY <1>1 DEF OpToRel
  <1> QED
    BY <1>2

LEMMA FullPageKeeps ==
  ASSUME NEW w, Writers = {w}, RefInv(w), PlaceRow(w), free_slots(op[w].page) = {}
  PROVE  RefInv(w)'
  <1>1. /\ op[w].at = "place" /\ op[w].at \in PlacingSteps /\ ChooseAgain(w)
        /\ UNCHANGED <<clock, store, book, past, horizon, read>> /\ UNCHANGED <<owner, holder>>
    BY DEF PlaceRow, PlacingSteps, store, ghost
  <1>2. owner' \in Writers \cup {Nobody} /\ holder' \in [DOMAIN pages -> Writers \cup {Nobody}]
    BY <1>1, Facts
  <1> QED
    BY <1>1, <1>2, ChoosesAgain

\* A row that began at the clock is in a free cell.
LEMMA AddRowKeeps ==
  ASSUME NEW w, Writers = {w}, RefInv(w), PlaceRow(w), free_slots(op[w].page) # {}
  PROVE  RefInv(w)'
  <1>p. PICK p : p = op[w].page
    OBVIOUS
  <1>s. PICK s : s = free_slot(p)
    OBVIOUS
  <1>c. PICK c : c = <<p, s>>
    OBVIOUS
  <1>i. PICK id : id = op[w].id
    OBVIOUS
  <1>r. PICK row : row = NewRow(id, clock)
    OBVIOUS
  <1> DEFINE x == [at |-> "record", call |-> "insert", id |-> op[w].id, ts |-> op[w].ts,
                   page |-> p, slot |-> free_slot(p)]
  <1>1. /\ op[w].at = "place" /\ op[w].at \in PlacingSteps /\ Goes(w, x)
        /\ holder' = [holder EXCEPT ![p] = w]
        /\ UNCHANGED <<clock, past, horizon, read, locations, retired, owner, directory>>
    BY <1>p DEF PlaceRow, PlacingSteps, book, ghost
  <1>2. AtPage(w) /\ p \in InUsePages
    BY <1>1, <1>p, CallIs, Facts DEF AtPage
  <1>3. IsWrite(w) /\ op[w].call = "insert" /\ op[w].ts = clock /\ id \in Ids
    BY <1>1, <1>i, PlacingIs
  <1>4. /\ clock \in 1..MaxClock /\ clock \in Nat /\ MAX_TS \in Nat /\ clock < MAX_TS /\ horizon \in 0..clock
        /\ past[clock] = Others(past[clock - 1], id) \cup {<<id, clock>>}
    BY <1>3, <1>i, Facts, Bounds DEF IsWrite
  <1>5. s \in Slots /\ pages[p][s] = Free
    <2>1. free_slots(p) \in SUBSET Nat /\ free_slots(p) # {} /\ Slots \subseteq Nat
      BY <1>p, Bounds DEF free_slots, Slots
    <2>2. \E m \in free_slots(p) : \A n \in free_slots(p) : m <= n
      BY <2>1, LeastOf
    <2>3. s \in free_slots(p)
      BY <1>s, <2>2 DEF free_slot
    <2> QED
      BY <2>3 DEF free_slots
  <1>6. c \in Cell /\ RowAt(c) = Free /\ c \notin Used
    BY <1>2, <1>5, <1>c DEF Cell, RowAt, Used
  <1>7. row \in Row /\ row # Free /\ row \in Row \cup {Free} /\ row.begin = clock
    BY <1>3, <1>4, <1>r, FreeIsNoRow DEF Row, NewRow
  <1>8. Writes(c, row)
    <2>1. pages' = [pages EXCEPT ![p][s] = [id |-> op[w].id, begin |-> op[w].ts, end |-> MAX_TS]]
      BY <1>p, <1>s DEF PlaceRow
    <2>2. c[1] = p /\ c[2] = s
      BY <1>c
    <2>3. directory' = directory
      BY <1>1
    <2> QED
      BY <1>3, <1>i, <1>r, <2>1, <2>2, <2>3 DEF Writes, NewRow
  <1>9. Written(c, row)
    BY <1>6, <1>7, <1>8, CellSet, Facts
  <1>10. /\ pages' \in Seq([Slots -> Row \cup {Free}]) /\ DOMAIN pages' = DOMAIN pages
         /\ directory' \in Seq(DOMAIN pages') /\ Cell' = Cell /\ Place' = Place
         /\ RowAt(c)' = row /\ \A d \in Cell : d # c => RowAt(d)' = RowAt(d)
         /\ \A q \in DOMAIN pages : \A t \in Slots :
              IF q = c[1] /\ t = c[2] THEN pages'[q][t] = row ELSE pages'[q][t] = pages[q][t]
    BY <1>9, Zenon DEF Written
  <1>11. Used' = Used \cup {c}
    BY <1>6, <1>7, <1>10 DEF Used
  <1>12. RowAdded(Layout, Layout', c, row)
    <2>1. Layout' = [d \in Used \cup {c} |-> RowAt(d)']
      BY <1>11 DEF Layout
    <2>2. \A d \in Used : d # c /\ Layout'[d] = Layout[d]
      BY <1>6, <1>10, <2>1, LayoutIs, Facts
    <2>3. DOMAIN Layout = Used
      BY LayoutIs, Facts
    <2> QED
      BY <1>6, <1>10, <2>1, <2>2, <2>3 DEF RowAdded
  <1>13. op'[w] = x
    BY <1>1, Facts
  <1>14. /\ op'[w].at = "record" /\ op'[w].id = id /\ op'[w].call = "insert" /\ op'[w].ts = clock
         /\ op'[w].page = p /\ op'[w].slot = s
         /\ op'[w] = [at |-> "record", call |-> "insert", id |-> id, ts |-> clock, page |-> p, slot |-> s]
    BY <1>3, <1>13, <1>i, <1>s
  <1> HIDE DEF x
  <1>15. clock' = clock /\ past' = past /\ horizon' = horizon
    BY <1>1, Zenon
  <1>16. /\ Told(w) = clock - 1 /\ Begun(w) = clock - 1 /\ Ended(w) = clock
         /\ Currently(w) = Others(past[clock - 1], id) /\ Unlisted(w) = {} /\ Unqueued(w) = {}
         /\ Cleared(w) = {}
    BY <1>1, <1>i, Stages DEF StageIs
  <1>17. /\ Told(w)' = clock - 1 /\ Begun(w)' = clock /\ Ended(w)' = clock
         /\ Currently(w)' = past[clock] /\ Unlisted(w)' = {c} /\ Unqueued(w)' = {} /\ Cleared(w)' = {}
    BY <1>14, <1>15, <1>c, Stages DEF StageIs
  <1>18. /\ InOrderUpTo(Layout, clock - 1, clock) /\ Mapped(Layout, locations, {}, {})
         /\ Names(Layout, Current(Layout)) = Others(past[clock - 1], id) /\ InQueue(Layout, retired, {})
         /\ \A snap \in horizon..(clock - 1) : Tells(Layout, snap, past[snap])
    BY <1>16, Facts
  <1>19. Rows(w)'
    <2>1. ASSUME NEW d \in Current(Layout) PROVE Layout[d].id # id
      <3>1. <<Layout[d].id, Layout[d].begin>> \in Names(Layout, Current(Layout))
        BY DEF Names
      <3>2. <<Layout[d].id, Layout[d].begin>>[1] # id
        BY <1>18, <3>1 DEF Others
      <3> QED
        BY <3>2
    <2>2. RowAdded(Layout, Layout', c, NewRow(id, clock))
      BY <1>12, <1>r
    <2>3. /\ id \in Ids /\ clock \in 1..MaxClock /\ clock - 1 \in Int /\ clock - 1 < clock
          /\ InOrderUpTo(Layout, clock - 1, clock) /\ NoneIs(Layout, Current(Layout), id)
      BY <1>3, <1>4, <1>18, <2>1 DEF NoneIs
    <2>4. /\ InOrderUpTo(Layout', clock, clock)
          /\ Names(Layout', Current(Layout')) = With(Names(Layout, Current(Layout)), id, clock)
      BY <2>2, <2>3, AddedIs
    <2>5. /\ InOrderUpTo(Layout', clock, clock)
          /\ Names(Layout', Current(Layout')) = Others(past[clock - 1], id) \cup {<<id, clock>>}
      BY <1>18, <2>4 DEF With
    <2>6. \A snap \in horizon..(clock - 1) : Tells(Layout', snap, past[snap])
      <3> TAKE snap \in horizon..(clock - 1)
      <3>1. snap \in Nat /\ snap < clock
        BY <1>4
      <3> QED
        BY <1>3, <1>4, <1>18, <2>2, <3>1, AddedTells
    <2>7. Current(Layout)' = Current(Layout')
      BY DEF Current
    <2> QED
      BY <1>4, <1>15, <1>17, <2>5, <2>6, <2>7 DEF Rows
  <1>20. Books(w)'
    <2>1. Mapped(Layout', locations, {c}, {}) /\ InQueue(Layout', retired, {})
      <3>1. RowAdded(Layout, Layout', c, NewRow(id, clock))
        BY <1>12, <1>r
      <3> QED
        BY <1>3, <1>4, <1>18, <3>1, AddedBooks
    <2> QED
      BY <1>1, <1>17, <2>1 DEF Books
  <1>21. Calls(w)'
    <2>1. IsWrite(w)'
      BY <1>3, <1>4, <1>14, <1>15, <1>i DEF IsWrite
    <2>2. c \in Used' /\ RowAt(c)' = [id |-> id, begin |-> clock, end |-> MAX_TS]
      BY <1>10, <1>11, <1>r DEF NewRow
    <2>3. AtRecord(w)'
      BY <1>14, <1>15, <1>c, <2>1, <2>2 DEF AtRecord
    <2> QED
      BY <2>3 DEF Calls
  <1>22. \A q \in DOMAIN pages : \A snap \in horizon..Told(w) : Shown(q, snap)' = Shown(q, snap)
    <2> TAKE q \in DOMAIN pages
    <2> TAKE snap \in horizon..Told(w)
    <2>1. snap \in Int /\ snap < clock
      BY <1>4, <1>16
    <2>2. ~SeesRow(row, snap) /\ ~SeesRow(Free, snap)
      BY <1>4, <1>7, <2>1 DEF SeesRow
    <2>3. \A t \in Slots : \/ pages'[q][t] = pages[q][t]
                           \/ pages'[q][t] = row /\ pages[q][t] = Free
      BY <1>5, <1>10, <1>c
    <2>4. \A t \in Slots : /\ SeesRow(pages'[q][t], snap) <=> SeesRow(pages[q][t], snap)
                           /\ SeesRow(pages[q][t], snap) =>
                               /\ pages'[q][t].id = pages[q][t].id
                               /\ pages'[q][t].begin = pages[q][t].begin
      BY <2>2, <2>3
    <2> QED
      BY <2>4, ShownSame
  <1>23. /\ Once(directory') /\ retired' \in Seq(Row) /\ locations' \in [Ids -> Seq(Place')]
         /\ owner' \in Writers \cup {Nobody} /\ holder' \in [DOMAIN pages' -> Writers \cup {Nobody}]
    BY <1>1, <1>10, Facts
  <1>24. Told(w)' >= Told(w) /\ Told(w)' \in Int /\ DOMAIN pages \subseteq DOMAIN pages'
    BY <1>4, <1>10, <1>16, <1>17
  <1> QED
    BY <1>1, <1>10, <1>19, <1>20, <1>21, <1>22, <1>23, <1>24, StoreStep

LEMMA PlaceRowKeeps ==
  ASSUME NEW w, Writers = {w}, RefInv(w), PlaceRow(w)
  PROVE  RefInv(w)'
  BY FullPageKeeps, AddRowKeeps

-----------------------------------------------------------------------------
(* Steps that make pages.                                                  *)

\* n pages are made; those that were there stay as they are.
Grows(n) ==
  /\ n \in Nat /\ pages' \in Seq([Slots -> Row \cup {Free}]) /\ Len(pages') = Len(pages) + n
  /\ \A p \in DOMAIN pages : pages'[p] = pages[p]
  /\ holder' = holder \o [k \in 1..n |-> Nobody]

LEMMA WiderSeq ==
  ASSUME NEW S, NEW T, S \subseteq T, NEW seq \in Seq(S)
  PROVE  seq \in Seq(T)
  BY SeqDef, SMT

LEMMA GrownIs ==
  ASSUME TypeOK, NEW n, Grows(n)
  PROVE  /\ DOMAIN pages = 1..Len(pages) /\ DOMAIN pages' = 1..(Len(pages) + n) /\ Len(pages) \in Nat
         /\ DOMAIN pages \subseteq DOMAIN pages' /\ Place \subseteq Place'
         /\ locations \in [Ids -> Seq(Place')]
         /\ holder' \in [DOMAIN pages' -> Writers \cup {Nobody}]
         /\ \A p \in DOMAIN pages : \A snap : Shown(p, snap)' = Shown(p, snap)
  <1> DEFINE N == Len(pages)
  <1>1. /\ pages \in Seq([Slots -> Row \cup {Free}]) /\ pages' \in Seq([Slots -> Row \cup {Free}])
        /\ n \in Nat /\ Len(pages') = N + n /\ holder' = holder \o [k \in 1..n |-> Nobody]
        /\ holder \in [DOMAIN pages -> Writers \cup {Nobody}] /\ locations \in [Ids -> Seq(Place)]
    BY DEF TypeOK, Grows
  <1>2. N \in Nat /\ DOMAIN pages = 1..N /\ DOMAIN pages' = 1..(N + n)
    BY <1>1
  <1> HIDE DEF N
  <1>3. DOMAIN pages \subseteq DOMAIN pages'
    BY <1>1, <1>2
  <1>4. Place \subseteq Place'
    BY <1>3 DEF Place
  <1>5. locations \in [Ids -> Seq(Place')]
    <2>1. \A id \in Ids : locations[id] \in Seq(Place')
      BY <1>1, <1>4, WiderSeq
    <2> QED
      BY <1>1, <2>1
  <1>6. holder' \in [DOMAIN pages' -> Writers \cup {Nobody}]
    <2> DEFINE more == [k \in 1..n |-> Nobody]
               H == Writers \cup {Nobody}
    <2>1. holder \in Seq(H) /\ Len(holder) = N
      BY <1>1, <1>2, IsASeq
    <2>2. more \in Seq(H) /\ Len(more) = n
      BY <1>1, IsASeq
    <2> HIDE DEF more, H
    <2>3. holder' = holder \o more
      BY <1>1 DEF more
    <2>4. holder' \in Seq(H) /\ Len(holder') = N + n
      BY <2>1, <2>2, <2>3, ConcatProperties
    <2>5. holder' \in [1..(N + n) -> H]
      BY <2>4, LenProperties
    <2> QED
      BY <1>2, <2>5 DEF H
  <1>7. \A p \in DOMAIN pages : \A snap : Shown(p, snap)' = Shown(p, snap)
    <2> TAKE p \in DOMAIN pages
    <2> TAKE snap
    <2>1. pages'[p] = pages[p]
      BY DEF Grows
    <2> QED
      BY <2>1, ShownSame
  <1> QED
    BY <1>2, <1>3, <1>4, <1>5, <1>6, <1>7 DEF N

\* The index has pages: one of them is looked at.
LEMMA PickPageKeeps ==
  ASSUME NEW w, Writers = {w}, RefInv(w), ChoosePage(w), directory # <<>>
  PROVE  RefInv(w)'
  <1>1. /\ op[w].at = "choose" /\ op[w].at \in PlacingSteps
        /\ UNCHANGED <<clock, store, book, past, horizon, read>> /\ UNCHANGED <<owner, holder>>
    BY DEF ChoosePage, PlacingSteps, ghost
  <1>2. PICK k \in DOMAIN directory : Goes(w, WithPage(w, "room", directory[k]))
    BY DEF ChoosePage
  <1>3. directory[k] \in InUsePages'
    BY <1>1, SameStore DEF InUsePages
  <1>4. Calls(w)'
    BY <1>1, <1>2, <1>3, ToPage
  <1>5. owner' \in Writers \cup {Nobody} /\ holder' \in [DOMAIN pages -> Writers \cup {Nobody}]
    BY <1>1, Facts
  <1>6. /\ WithPage(w, "room", directory[k]).at \in PlacingSteps
        /\ WithPage(w, "room", directory[k]).id = op[w].id
    BY DEF WithPage, PlacingSteps
  <1> QED
    BY <1>1, <1>2, <1>4, <1>5, <1>6, PlacingStep

\* The first page of an empty index.
LEMMA FirstPageKeeps ==
  ASSUME NEW w, Writers = {w}, RefInv(w), ChoosePage(w), directory = <<>>
  PROVE  RefInv(w)'
  <1>n. PICK n : n = Len(pages) + 1
    OBVIOUS
  <1> DEFINE x == WithPage(w, "place", n)
  <1>1. /\ op[w].at = "choose" /\ op[w].at \in PlacingSteps /\ Goes(w, x) /\ AddPages(1)
        /\ pages' = Append(pages, new_page) /\ directory' = <<n>>
        /\ UNCHANGED <<clock, past, horizon, read, locations, retired, owner>>
    BY <1>n DEF ChoosePage, PlacingSteps, book, ghost
  <1>2. Grows(1) /\ pages'[n] = new_page /\ n \in DOMAIN pages'
    <2>1. pages \in Seq([Slots -> Row \cup {Free}])
      BY Facts DEF TypeOK
    <2>2. new_page \in [Slots -> Row \cup {Free}]
      BY DEF new_page
    <2>3. /\ pages' \in Seq([Slots -> Row \cup {Free}]) /\ Len(pages') = Len(pages) + 1
          /\ \A p \in 1..Len(pages) : pages'[p] = pages[p]
          /\ pages'[Len(pages) + 1] = new_page
      BY <1>1, <2>1, <2>2, AppendProperties
    <2>4. DOMAIN pages = 1..Len(pages) /\ DOMAIN pages' = 1..Len(pages') /\ Len(pages) \in Nat
      BY <2>1, <2>3
    <2> QED
      BY <1>1, <1>n, <2>3, <2>4 DEF Grows, AddPages
  <1>3. /\ DOMAIN pages \subseteq DOMAIN pages' /\ locations \in [Ids -> Seq(Place')]
        /\ holder' \in [DOMAIN pages' -> Writers \cup {Nobody}]
        /\ \A p \in DOMAIN pages : \A snap : Shown(p, snap)' = Shown(p, snap)
    BY <1>2, GrownIs, Facts
  <1>4. DOMAIN directory' = {1} /\ directory'[1] = n /\ InUsePages' = {n} /\ Once(directory')
        /\ directory' \in Seq(DOMAIN pages')
    BY <1>1, <1>2 DEF InUsePages, Once
  <1>5. Used = {}
    BY DEF Used, Cell, InUsePages
  <1>6. Used' = {}
    <2>1. \A c \in Cell' : c[1] = n /\ c[2] \in Slots
      BY <1>4 DEF Cell
    <2>2. \A s \in Slots : pages'[n][s] = Free
      BY <1>2 DEF new_page
    <2> QED
      BY <2>1, <2>2 DEF Used, RowAt
  <1>7. Layout' = Layout
    BY <1>5, <1>6 DEF Layout
  <1>8. op'[w] = x
    BY <1>1, Facts
  <1>9. op'[w].at = "place" /\ op'[w].id = op[w].id /\ clock' = clock /\ past' = past
    BY <1>1, <1>8 DEF WithPage
  <1>10. Calls(w)'
    <2>1. n \in InUsePages'
      BY <1>4
    <2> QED
      BY <1>1, <1>9, <2>1, ToPage
  <1> HIDE DEF x
  <1>11. /\ Told(w) = clock - 1 /\ Begun(w) = clock - 1 /\ Ended(w) = clock
         /\ Currently(w) = Others(past[clock - 1], op[w].id) /\ Unlisted(w) = {} /\ Unqueued(w) = {}
         /\ Cleared(w) = {}
    BY <1>1, Stages DEF StageIs
  <1>12. /\ Told(w)' = clock - 1 /\ Begun(w)' = clock - 1 /\ Ended(w)' = clock
         /\ Currently(w)' = Others(past[clock - 1], op[w].id) /\ Unlisted(w)' = {} /\ Unqueued(w)' = {}
         /\ Cleared(w)' = {}
    BY <1>9, Stages DEF StageIs
  <1>13. Rows(w)'
    <2>1. Rows(w) /\ horizon' = horizon
      BY <1>1 DEF RefInv
    <2> QED
      BY <1>7, <1>9, <1>11, <1>12, <2>1 DEF Rows
  <1>14. Books(w)'
    <2>1. Books(w) /\ locations' = locations /\ retired' = retired
      BY <1>1 DEF RefInv
    <2> QED
      BY <1>7, <1>11, <1>12, <2>1 DEF Books
  <1>15. /\ retired' \in Seq(Row) /\ owner' \in Writers \cup {Nobody}
         /\ pages' \in Seq([Slots -> Row \cup {Free}]) /\ locations' \in [Ids -> Seq(Place')]
    BY <1>1, <1>2, <1>3, Facts DEF Grows
  <1>16. Told(w)' >= Told(w) /\ Told(w)' \in Int
    BY <1>11, <1>12, Facts
  <1> QED
    BY <1>1, <1>3, <1>4, <1>10, <1>13, <1>14, <1>15, <1>16, StoreStep

LEMMA ChoosePageKeeps ==
  ASSUME NEW w, Writers = {w}, RefInv(w), ChoosePage(w)
  PROVE  RefInv(w)'
  BY PickPageKeeps, FirstPageKeeps

\* The rank of a slot in a set is its place in the set's increasing order.
LEMMA RankIs ==
  ASSUME NEW S \in SUBSET Int, IsFiniteSet(S), NEW s \in S
  PROVE  Rank(s, S) \in 1..Cardinality(S) /\ Increasing(S)[Rank(s, S)] = s
  <1>f. PICK f : f = Increasing(S)
    OBVIOUS
  <1>n. PICK n : n = Cardinality(S)
    OBVIOUS
  <1>1. /\ n \in Nat /\ f \in [1..n -> S] /\ Once(f) /\ Elements(f) = S
        /\ \A j, k \in DOMAIN f : j < k => f[j] < f[k]
    BY <1>f, <1>n, IncreasingIs
  <1>2. PICK k \in 1..n : f[k] = s
    BY <1>1 DEF Elements
  <1>3. k \in Nat /\ k >= 1
    BY <1>1
  <1>T. PICK T : T = {t \in S : t <= s}
    OBVIOUS
  <1>g. PICK g : g = [j \in 1..k |-> f[j]]
    OBVIOUS
  <1>4. \A j \in 1..n : f[j] \in Int
    BY <1>1
  <1>5. \A j \in 1..k : j \in 1..n /\ f[j] \in T /\ g[j] = f[j]
    <2> TAKE j \in 1..k
    <2>1. j \in 1..n /\ (j = k \/ j < k)
      BY <1>1, <1>3
    <2>2. f[j] = s \/ f[j] < s
      BY <1>1, <1>2, <2>1
    <2> QED
      BY <1>1, <1>4, <1>T, <1>g, <2>1, <2>2
  <1>6. \A t \in T : \E j \in 1..k : g[j] = t
    <2> TAKE t \in T
    <2>1. PICK j \in 1..n : f[j] = t
      BY <1>1, <1>T DEF Elements
    <2>2. ~(k < j)
      BY <1>1, <1>2, <1>4, <1>T, <2>1
    <2>3. j \in 1..k
      BY <1>1, <1>3, <2>2
    <2> QED
      BY <1>5, <2>1, <2>3
  <1>7. g \in [1..k -> T]
    BY <1>5, <1>g
  <1>8. \A i, j \in 1..k : g[i] = g[j] => i = j
    BY <1>1, <1>5 DEF Once
  <1>9. g \in Bijection(1..k, T)
    BY <1>6, <1>7, <1>8 DEF Bijection, Injection, Surjection, IsInjective
  <1>10. IsFiniteSet(1..k) /\ Cardinality(1..k) = k
    <2>1. IsFiniteSet(1..k) /\ Cardinality(1..k) = IF 1 > k THEN 0 ELSE k - 1 + 1
      BY <1>3, FS_Interval
    <2> QED
      BY <1>3, <2>1
  <1>11. Cardinality(T) = k
    <2>1. ExistsBijection(1..k, T)
      BY <1>9 DEF ExistsBijection
    <2> QED
      BY <1>10, <2>1, FS_Bijection
  <1>12. Rank(s, S) = k
    BY <1>11, <1>T DEF Rank
  <1> QED
    BY <1>2, <1>12, <1>f, <1>n

\* The rows of one half of a split, slot by slot of the page they go to.
HalfTells(p, half, to) ==
  /\ to \in [Slots -> Row \cup {Free}]
  /\ \A s \in half : Rank(s, half) \in Slots /\ to[Rank(s, half)] = pages[p][s]
  /\ \A t \in Slots : to[t] # Free => \E s \in half : t = Rank(s, half)
  /\ \A s, u \in half : Rank(s, half) = Rank(u, half) => s = u

LEMMA HalfIs ==
  ASSUME TypeOK, NEW p \in DOMAIN pages, NEW half \in SUBSET occupied(p)
  PROVE  HalfTells(p, half, Half(p, half))
  <1>f. PICK f : f = Increasing(half)
    OBVIOUS
  <1>n. PICK n : n = Cardinality(half)
    OBVIOUS
  <1>1. /\ IsFiniteSet(Slots) /\ Cardinality(Slots) = Capacity /\ Capacity \in Nat /\ Slots \subseteq Int
    <2>1. Capacity \in Nat \ {0}
      BY Bounds
    <2>2. IsFiniteSet(1..Capacity) /\ Cardinality(1..Capacity) = IF 1 > Capacity THEN 0 ELSE Capacity - 1 + 1
      BY <2>1, FS_Interval
    <2> QED
      BY <2>1, <2>2 DEF Slots
  <1>2. half \subseteq Slots /\ half \subseteq Int
    BY <1>1 DEF occupied
  <1>3. IsFiniteSet(half) /\ n \in Nat /\ n <= Capacity
    BY <1>1, <1>2, <1>n, FS_Subset, FS_CardinalityType
  <1>4. f \in [1..n -> half] /\ Once(f)
    BY <1>2, <1>3, <1>f, <1>n, IncreasingIs
  <1>5. \A s \in half : Rank(s, half) \in 1..n /\ f[Rank(s, half)] = s
    BY <1>2, <1>3, <1>f, <1>n, RankIs
  <1>6. 1..n \subseteq Slots
    BY <1>1, <1>3 DEF Slots
  <1>7. pages[p] \in [Slots -> Row \cup {Free}]
    BY ElementOfSeq DEF TypeOK
  <1>t. PICK to : to = Half(p, half)
    OBVIOUS
  <1>8. to = [s \in Slots |-> IF s \in 1..n THEN pages[p][f[s]] ELSE Free]
    BY <1>f, <1>n, <1>t DEF Half
  <1>9. \A s \in 1..n : f[s] \in half /\ f[s] \in Slots /\ pages[p][f[s]] \in Row \cup {Free}
    BY <1>2, <1>4, <1>7
  <1>10. to \in [Slots -> Row \cup {Free}]
    BY <1>8, <1>9
  <1>11. \A s \in half : Rank(s, half) \in Slots /\ to[Rank(s, half)] = pages[p][s]
    BY <1>5, <1>6, <1>8
  <1>12. ASSUME NEW t \in Slots, to[t] # Free PROVE \E s \in half : t = Rank(s, half)
    <2>1. t \in 1..n
      BY <1>8, <1>12
    <2>2. f[t] \in half /\ f[Rank(f[t], half)] = f[t] /\ Rank(f[t], half) \in 1..n
      BY <1>5, <1>9, <2>1
    <2>3. t = Rank(f[t], half)
      BY <1>4, <2>1, <2>2 DEF Once
    <2> QED
      BY <2>2, <2>3
  <1>13. \A s, u \in half : Rank(s, half) = Rank(u, half) => s = u
    BY <1>5
  <1> QED
    BY <1>10, <1>11, <1>12, <1>13, <1>t DEF HalfTells

\* A map lists every cell in use, and no other, under the id of its row.
Exact(f, map) ==
  \A id \in Ids : Once(map[id]) /\ Elements(map[id]) = {c \in DOMAIN f : f[c].id = id}

LEMMA ExactMap ==
  ASSUME NEW f, NEW map, \A c \in DOMAIN f : f[c].id \in Ids
  PROVE  Mapped(f, map, {}, {}) <=> Exact(f, map)
  <1>1. ASSUME Mapped(f, map, {}, {}) PROVE Exact(f, map)
    BY <1>1 DEF Mapped, Exact
  <1>2. ASSUME Exact(f, map) PROVE Mapped(f, map, {}, {})
    BY <1>2 DEF Mapped, Exact
  <1> QED
    BY <1>1, <1>2

-----------------------------------------------------------------------------
(* A split moves the rows of a page to two new ones.                       *)

SplitInto(p, left, l, r) ==
  /\ Grows(2) /\ l = Len(pages) + 1 /\ r = Len(pages) + 2
  /\ p \in InUsePages /\ left \in SUBSET occupied(p)
  /\ pages'[l] = Half(p, left) /\ pages'[r] = Half(p, occupied(p) \ left)
  /\ Once(directory') /\ directory' \in Seq(DOMAIN pages')
  /\ InUsePages' = (InUsePages \ {p}) \cup {l, r}

\* Each row has a target of its own, and nothing else is on the new pages.
TargetTells(p, left, l, r) ==
  /\ \A s \in occupied(p) : \E q \in {l, r}, t \in Slots :
       Target(p, s, left, l, r) = <<q, t>> /\ pages'[q][t] = pages[p][s]
  /\ \A q \in {l, r}, t \in Slots :
       pages'[q][t] # Free => \E s \in occupied(p) : Target(p, s, left, l, r) = <<q, t>>
  /\ \A s, u \in occupied(p) : Target(p, s, left, l, r) = Target(p, u, left, l, r) => s = u

LEMMA SplitPages ==
  ASSUME TypeOK, NEW p, NEW left, NEW l, NEW r, SplitInto(p, left, l, r)
  PROVE  /\ Len(pages) \in Nat /\ DOMAIN pages = 1..Len(pages) /\ DOMAIN pages' = 1..(Len(pages) + 2)
         /\ DOMAIN pages \subseteq DOMAIN pages' /\ p \in InUsePages
         /\ InUsePages \subseteq DOMAIN pages /\ p \in DOMAIN pages
         /\ l \notin DOMAIN pages /\ r \notin DOMAIN pages /\ l # r
         /\ l \in DOMAIN pages' /\ r \in DOMAIN pages'
         /\ \A q \in DOMAIN pages : pages'[q] = pages[q]
  <1>1. Len(pages) \in Nat /\ DOMAIN pages = 1..Len(pages) /\ DOMAIN pages' = 1..(Len(pages) + 2)
    BY GrownIs DEF SplitInto
  <1>2. l = Len(pages) + 1 /\ r = Len(pages) + 2
    BY DEF SplitInto
  <1>3. InUsePages \subseteq DOMAIN pages
    BY ElementOfSeq DEF TypeOK, InUsePages
  <1>4. p \in InUsePages /\ \A q \in DOMAIN pages : pages'[q] = pages[q]
    BY DEF SplitInto, Grows
  <1> QED
    BY <1>1, <1>2, <1>3, <1>4

LEMMA TargetIs ==
  ASSUME TypeOK, NEW p, NEW left, NEW l, NEW r, SplitInto(p, left, l, r)
  PROVE  TargetTells(p, left, l, r)
  <1>w. PICK right : right = occupied(p) \ left
    OBVIOUS
  <1>1. /\ p \in DOMAIN pages /\ l # r /\ left \in SUBSET occupied(p) /\ right \in SUBSET occupied(p)
    BY <1>w, SplitPages DEF SplitInto
  <1>2. HalfTells(p, left, pages'[l]) /\ HalfTells(p, right, pages'[r])
    <2>1. pages'[l] = Half(p, left) /\ pages'[r] = Half(p, right)
      BY <1>w DEF SplitInto
    <2> QED
      BY <1>1, <2>1, HalfIs
  <1>3. \A s \in occupied(p) : \/ s \in left /\ Target(p, s, left, l, r) = <<l, Rank(s, left)>>
                               \/ s \in right /\ s \notin left /\ Target(p, s, left, l, r) = <<r, Rank(s, right)>>
    BY <1>w DEF Target
  <1>4. \A s \in left : Target(p, s, left, l, r) = <<l, Rank(s, left)>>
    BY DEF Target
  <1>5. \A s \in right : Target(p, s, left, l, r) = <<r, Rank(s, right)>>
    BY <1>w DEF Target
  <1>6. \A s \in occupied(p) : \E q \in {l, r}, t \in Slots :
          Target(p, s, left, l, r) = <<q, t>> /\ pages'[q][t] = pages[p][s]
    <2>1. \A s \in left : Rank(s, left) \in Slots /\ pages'[l][Rank(s, left)] = pages[p][s]
      BY <1>2 DEF HalfTells
    <2>2. \A s \in right : Rank(s, right) \in Slots /\ pages'[r][Rank(s, right)] = pages[p][s]
      BY <1>2 DEF HalfTells
    <2> QED
      BY <1>3, <2>1, <2>2
  <1>7. \A q \in {l, r}, t \in Slots :
          pages'[q][t] # Free => \E s \in occupied(p) : Target(p, s, left, l, r) = <<q, t>>
    <2>1. ASSUME NEW t \in Slots, pages'[l][t] # Free
          PROVE  \E s \in occupied(p) : Target(p, s, left, l, r) = <<l, t>>
      <3>1. PICK s \in left : t = Rank(s, left)
        BY <1>2, <2>1 DEF HalfTells
      <3> QED
        BY <1>1, <1>4, <3>1
    <2>2. ASSUME NEW t \in Slots, pages'[r][t] # Free
          PROVE  \E s \in occupied(p) : Target(p, s, left, l, r) = <<r, t>>
      <3>1. PICK s \in right : t = Rank(s, right)
        BY <1>2, <2>2 DEF HalfTells
      <3> QED
        BY <1>1, <1>5, <3>1
    <2> QED
      BY <2>1, <2>2
  <1>8. ASSUME NEW s \in occupied(p), NEW u \in occupied(p),
               Target(p, s, left, l, r) = Target(p, u, left, l, r)
        PROVE  s = u
    <2>1. CASE s \in left /\ u \in left
      <3>1. Rank(s, left) = Rank(u, left)
        BY <1>4, <1>8, <2>1
      <3> QED
        BY <1>2, <2>1, <3>1 DEF HalfTells
    <2>2. CASE s \in right /\ u \in right
      <3>1. Rank(s, right) = Rank(u, right)
        BY <1>5, <1>8, <2>2
      <3> QED
        BY <1>2, <2>2, <3>1 DEF HalfTells
    <2>3. CASE s \in left /\ u \in right
      BY <1>1, <1>4, <1>5, <1>8, <2>3
    <2>4. CASE s \in right /\ u \in left
      BY <1>1, <1>4, <1>5, <1>8, <2>4
    <2> QED
      BY <1>3, <2>1, <2>2, <2>3, <2>4
  <1> QED
    BY <1>6, <1>7, <1>8 DEF TargetTells

\* Where each row of the index goes.
Move(p, left, l, r) == [c \in Used |-> IF c[1] = p THEN Target(p, c[2], left, l, r) ELSE c]

LEMMA MoveIs ==
  ASSUME TypeOK, NEW p \in DOMAIN pages, NEW left, NEW l, NEW r
  PROVE  /\ \A c \in Used : /\ c = <<c[1], c[2]>> /\ c[1] \in InUsePages /\ c[2] \in Slots
                            /\ RowAt(c) = pages[c[1]][c[2]] /\ RowAt(c) \in Row /\ RowAt(c) # Free
                            /\ c[1] # p => Move(p, left, l, r)[c] = c
                            /\ c[1] = p => Move(p, left, l, r)[c] = Target(p, c[2], left, l, r)
                            /\ c[1] = p => c[2] \in occupied(p) /\ RowAt(c) = pages[p][c[2]]
         /\ \A s \in occupied(p) : s \in Slots /\ pages[p][s] # Free
         /\ p \in InUsePages => \A s \in occupied(p) : <<p, s>> \in Used /\ RowAt(<<p, s>>) = pages[p][s]
  <1>1. ASSUME NEW c \in Used
        PROVE  /\ c = <<c[1], c[2]>> /\ c[1] \in InUsePages /\ c[2] \in Slots
               /\ RowAt(c) = pages[c[1]][c[2]] /\ RowAt(c) \in Row /\ RowAt(c) # Free
               /\ c[1] = p => c[2] \in occupied(p) /\ RowAt(c) = pages[p][c[2]]
    <2>1. c \in Cell /\ RowAt(c) # Free
      BY DEF Used
    <2>2. /\ c = <<c[1], c[2]>> /\ c[1] \in InUsePages /\ c[2] \in Slots
          /\ RowAt(c) = pages[c[1]][c[2]] /\ RowAt(c) \in Row
      BY <2>1, CellIs
    <2> QED
      BY <2>1, <2>2 DEF occupied, free_slots
  <1>2. \A c \in Used : /\ c[1] # p => Move(p, left, l, r)[c] = c
                        /\ c[1] = p => Move(p, left, l, r)[c] = Target(p, c[2], left, l, r)
    BY DEF Move
  <1>3. \A s \in occupied(p) : s \in Slots /\ pages[p][s] # Free
    BY DEF occupied, free_slots
  <1>4. ASSUME p \in InUsePages, NEW s \in occupied(p) PROVE <<p, s>> \in Used /\ RowAt(<<p, s>>) = pages[p][s]
    BY <1>3, <1>4 DEF Used, Cell, RowAt
  <1> QED
    BY <1>1, <1>2, <1>3, <1>4

LEMMA SplitMoves ==
  ASSUME TypeOK, NEW p, NEW left, NEW l, NEW r, SplitInto(p, left, l, r)
  PROVE  Moves(Layout, Layout', Move(p, left, l, r))
  <1>m. PICK m : m = Move(p, left, l, r)
    OBVIOUS
  <1>1. /\ p \in DOMAIN pages /\ p \in InUsePages /\ l \notin DOMAIN pages /\ r \notin DOMAIN pages
        /\ InUsePages \subseteq DOMAIN pages /\ InUsePages' = (InUsePages \ {p}) \cup {l, r}
        /\ \A q \in DOMAIN pages : pages'[q] = pages[q]
    BY SplitPages DEF SplitInto
  <1>2. \A c \in Used : /\ c = <<c[1], c[2]>> /\ c[1] \in InUsePages /\ c[2] \in Slots
                        /\ RowAt(c) = pages[c[1]][c[2]] /\ RowAt(c) # Free
                        /\ c[1] # p => m[c] = c
                        /\ c[1] = p => m[c] = Target(p, c[2], left, l, r)
                        /\ c[1] = p => c[2] \in occupied(p) /\ RowAt(c) = pages[p][c[2]]
    BY <1>1, <1>m, MoveIs
  <1>3. \A s \in occupied(p) : <<p, s>> \in Used /\ <<p, s>>[1] = p /\ <<p, s>>[2] = s
    BY <1>1, MoveIs
  <1>4. TargetTells(p, left, l, r)
    BY TargetIs
  <1>5. \A s \in occupied(p) : \E q \in {l, r}, t \in Slots :
          Target(p, s, left, l, r) = <<q, t>> /\ pages'[q][t] = pages[p][s]
    BY <1>4 DEF TargetTells
  <1>6. Layout' = [c \in Used' |-> RowAt(c)']
    BY DEF Layout
  <1>7. ASSUME NEW c \in Used PROVE m[c] \in Used' /\ RowAt(m[c])' = RowAt(c)
    <2>1. CASE c[1] # p
      <3>1. c \in Cell'
        BY <1>1, <1>2, <2>1 DEF Cell
      <3>2. RowAt(c)' = RowAt(c)
        BY <1>1, <1>2, <2>1 DEF RowAt
      <3>3. m[c] = c /\ RowAt(c) # Free
        BY <1>2, <2>1
      <3>4. c \in Used'
        BY <3>1, <3>2, <3>3 DEF Used
      <3>5. RowAt(m[c])' = RowAt(c)
        BY <3>2, <3>3 DEF RowAt
      <3> QED
        BY <3>3, <3>4, <3>5
    <2>2. CASE c[1] = p
      <3>1. PICK q \in {l, r}, t \in Slots : m[c] = <<q, t>> /\ pages'[q][t] = RowAt(c)
        BY <1>2, <1>5, <2>2
      <3>2. m[c] \in Cell'
        BY <1>1, <3>1 DEF Cell
      <3>3. RowAt(m[c])' = RowAt(c)
        BY <3>1 DEF RowAt
      <3>4. RowAt(c) # Free
        BY <1>2
      <3> QED
        BY <3>2, <3>3, <3>4 DEF Used
    <2> QED
      BY <2>1, <2>2
  <1>8. ASSUME NEW c \in Used, NEW d \in Used, m[c] = m[d] PROVE c = d
    <2>1. CASE c[1] # p /\ d[1] # p
      BY <1>2, <1>8, <2>1
    <2>2. CASE c[1] = p /\ d[1] = p
      <3>1. Target(p, c[2], left, l, r) = Target(p, d[2], left, l, r) /\ c[2] \in occupied(p) /\ d[2] \in occupied(p)
        BY <1>2, <1>8, <2>2
      <3>2. c[2] = d[2]
        BY <1>4, <3>1 DEF TargetTells
      <3> QED
        BY <1>2, <2>2, <3>2
    <2>3. CASE c[1] # p /\ d[1] = p
      <3>1. PICK q \in {l, r}, t \in Slots : m[d] = <<q, t>>
        BY <1>2, <1>5, <2>3
      <3>2. m[c] = c
        BY <1>2, <2>3
      <3>3. c = <<q, t>>
        BY <1>8, <3>1, <3>2
      <3>4. c[1] = q
        BY <3>3
      <3> QED
        BY <1>1, <1>2, <3>4
    <2>4. CASE c[1] = p /\ d[1] # p
      <3>1. PICK q \in {l, r}, t \in Slots : m[c] = <<q, t>>
        BY <1>2, <1>5, <2>4
      <3>2. m[d] = d
        BY <1>2, <2>4
      <3>3. d = <<q, t>>
        BY <1>8, <3>1, <3>2
      <3>4. d[1] = q
        BY <3>3
      <3> QED
        BY <1>1, <1>2, <3>4
    <2> QED
      BY <2>1, <2>2, <2>3, <2>4
  <1>9. ASSUME NEW d \in Used' PROVE \E c \in Used : d = m[c]
    <2>1. /\ d = <<d[1], d[2]>> /\ d[1] \in InUsePages' /\ d[2] \in Slots
          /\ pages'[d[1]][d[2]] # Free
      BY DEF Used, Cell, RowAt
    <2>2. CASE d[1] \in InUsePages \ {p}
      <3>1. RowAt(d) # Free /\ d \in Cell
        BY <1>1, <2>1, <2>2 DEF RowAt, Cell
      <3>2. d \in Used
        BY <3>1 DEF Used
      <3> QED
        BY <1>2, <2>2, <3>2
    <2>3. CASE d[1] \in {l, r}
      <3>1. PICK s \in occupied(p) : Target(p, s, left, l, r) = <<d[1], d[2]>>
        BY <1>4, <2>1, <2>3 DEF TargetTells
      <3>2. <<p, s>> \in Used /\ m[<<p, s>>] = Target(p, s, left, l, r)
        BY <1>2, <1>3
      <3> QED
        BY <2>1, <3>1, <3>2
    <2> QED
      BY <1>1, <2>1, <2>2, <2>3
  <1>10. DOMAIN Layout = Used /\ \A c \in Used : Layout[c] = RowAt(c)
    BY LayoutIs
  <1>11. \A c \in Used : m[c] \in DOMAIN Layout' /\ Layout'[m[c]] = Layout[c]
    <2> TAKE c \in Used
    <2>1. m[c] \in Used' /\ RowAt(m[c])' = RowAt(c)
      BY <1>7
    <2> QED
      BY <1>6, <1>10, <2>1
  <1>12. DOMAIN Layout' = Used'
    BY <1>6
  <1> QED
    BY <1>8, <1>9, <1>10, <1>11, <1>12, <1>m DEF Moves

\* The places of an id after a split are where its rows have gone.
LEMMA SplitMapped ==
  ASSUME TypeOK, NEW p, NEW left, NEW l, NEW r, SplitInto(p, left, l, r), NEW id \in Ids,
         Once(locations[id]), Elements(locations[id]) = {c \in Used : RowAt(c).id = id},
         NEW m, m = Move(p, left, l, r),
         NEW new, new = Moved(p, id, Targets(p, id, left, l, r))
  PROVE  /\ new \in Seq(Place') /\ Once(new)
         /\ \A c \in Used : RowAt(c).id = id => m[c] \in Elements(new)
         /\ \A d \in Elements(new) : \E c \in Used : RowAt(c).id = id /\ d = m[c]
  <1>o. PICK old : old = locations[id]
    OBVIOUS
  <1>t. PICK to : to = Targets(p, id, left, l, r)
    OBVIOUS
  <1>u. PICK mine : mine = {s \in occupied(p) : pages[p][s].id = id}
    OBVIOUS
  <1>n. PICK n : n = Cardinality(mine)
    OBVIOUS
  <1>f. PICK f : f = Increasing(mine)
    OBVIOUS
  <1>1. /\ p \in DOMAIN pages /\ p \in InUsePages /\ l \notin DOMAIN pages /\ r \notin DOMAIN pages
        /\ InUsePages \subseteq DOMAIN pages /\ DOMAIN pages \subseteq DOMAIN pages'
        /\ l \in DOMAIN pages' /\ r \in DOMAIN pages'
    BY SplitPages
  <1>2. \A c \in Used : /\ c = <<c[1], c[2]>> /\ c[1] \in InUsePages
                        /\ c[1] # p => m[c] = c
                        /\ c[1] = p => m[c] = Target(p, c[2], left, l, r)
                        /\ c[1] = p => c[2] \in occupied(p) /\ RowAt(c) = pages[p][c[2]]
    BY <1>1, MoveIs
  <1>3. \A s \in occupied(p) : <<p, s>> \in Used /\ RowAt(<<p, s>>) = pages[p][s] /\ s \in Slots
    BY <1>1, MoveIs
  <1>4. TargetTells(p, left, l, r)
    BY TargetIs
  <1>5. \A s \in occupied(p) : \E q \in {l, r}, t \in Slots : Target(p, s, left, l, r) = <<q, t>>
    BY <1>4 DEF TargetTells
  <1>6. old \in Seq(Place) /\ old \in Seq(Place') /\ Place \subseteq Place' /\ DOMAIN old \subseteq Int
    <2>1. locations \in [Ids -> Seq(Place)] /\ locations \in [Ids -> Seq(Place')] /\ Place \subseteq Place'
      BY GrownIs DEF TypeOK, SplitInto
    <2> QED
      BY <1>o, <2>1
  <1>7. mine \subseteq Int /\ IsFiniteSet(mine)
    <2>1. mine \subseteq Slots
      BY <1>3, <1>u
    <2>2. Capacity \in Nat
      BY Bounds
    <2>3. IsFiniteSet(Slots) /\ Slots \subseteq Int
      BY <2>2, FS_Interval DEF Slots
    <2> QED
      BY <2>1, <2>3, FS_Subset
  <1>8. n \in Nat /\ f \in [1..n -> mine] /\ Once(f) /\ Elements(f) = mine
    BY <1>7, <1>f, <1>n, IncreasingIs
  <1>9. to = [k \in 1..n |-> Target(p, f[k], left, l, r)]
    BY <1>t, <1>u, <1>n, <1>f DEF Targets
  <1>10. \A k \in 1..n : f[k] \in mine /\ f[k] \in occupied(p)
    BY <1>8, <1>u
  <1>11. \A k \in 1..n : \E q \in {l, r}, t \in Slots : to[k] = <<q, t>>
    BY <1>5, <1>9, <1>10
  <1>12. to \in Seq(Place') /\ DOMAIN to = 1..n
    <2>1. ASSUME NEW k \in 1..n PROVE to[k] \in Place'
      <3>1. PICK q \in {l, r}, t \in Slots : to[k] = <<q, t>>
        BY <1>11
      <3>2. q \in DOMAIN pages'
        BY <1>1
      <3> QED
        BY <3>1, <3>2 DEF Place
    <2>2. to \in [1..n -> Place']
      BY <1>9, <2>1
    <2> QED
      BY <1>8, <2>2, IsASeq
  <1>13. Once(to)
    <2>1. ASSUME NEW j \in 1..n, NEW k \in 1..n, to[j] = to[k] PROVE j = k
      <3>1. f[j] = f[k]
        BY <1>4, <1>9, <1>10, <2>1 DEF TargetTells
      <3> QED
        BY <1>8, <3>1 DEF Once
    <2> QED
      BY <1>12, <2>1 DEF Once
  <1>14. \A s \in mine : Target(p, s, left, l, r) \in Elements(to)
    <2> TAKE s \in mine
    <2>1. PICK k \in 1..n : f[k] = s
      BY <1>8 DEF Elements
    <2>2. to[k] = Target(p, s, left, l, r)
      BY <1>9, <2>1
    <2> QED
      BY <1>12, <2>2 DEF Elements
  <1>15. \A d \in Elements(to) : \E s \in mine : d = Target(p, s, left, l, r)
    BY <1>9, <1>10, <1>12 DEF Elements
  <1>16. \A d \in Elements(to) : d[1] \notin DOMAIN pages
    BY <1>1, <1>11, <1>12 DEF Elements
  <1>17. \A c \in Used : RowAt(c).id = id /\ c[1] = p => c[2] \in mine
    BY <1>2, <1>u
  <1>18. CASE to = <<>>
    <2>1. new = old
      BY <1>18, <1>t, <1>o DEF Moved
    <2>2. mine = {}
      BY <1>14, <1>18 DEF Elements
    <2>3. \A c \in Used : RowAt(c).id = id => m[c] = c
      BY <1>2, <1>17, <2>2
    <2> QED
      BY <1>6, <1>o, <2>1, <2>3
  <1>19. CASE to # <<>>
    <2>a. PICK at : at = {k \in DOMAIN old : old[k][1] # p}
      OBVIOUS
    <2>r. PICK rest : rest = Part(old, at)
      OBVIOUS
    <2>1. new = rest \o to
      BY <1>19, <1>t, <1>o, <2>a, <2>r DEF Moved
    <2>2. rest \in Seq(Place') /\ Elements(rest) = {old[k] : k \in at} /\ Once(rest)
      <3>1. at \in SUBSET DOMAIN old
        BY <2>a
      <3> QED
        BY <1>6, <1>o, <2>r, <3>1, PartIs
    <2>3. \A d \in Elements(rest) : d \in Elements(old) /\ d[1] # p
      BY <2>2, <2>a DEF Elements
    <2>4. \A d \in Elements(old) : d[1] # p => d \in Elements(rest)
      BY <2>2, <2>a DEF Elements
    <2>5. \A d \in Elements(rest) : d \in Used /\ RowAt(d).id = id /\ d[1] \in DOMAIN pages /\ m[d] = d
      BY <1>1, <1>2, <1>o, <2>3
    <2>6. /\ new \in Seq(Place') /\ Elements(new) = Elements(rest) \cup Elements(to)
          /\ Once(rest) /\ Once(to) /\ (\A d \in Elements(rest) : d \notin Elements(to)) => Once(new)
      BY <1>12, <2>1, <2>2, JoinIs DEF Joins
    <2>7. Once(new)
      BY <1>13, <1>16, <2>2, <2>5, <2>6
    <2>8. ASSUME NEW c \in Used, RowAt(c).id = id PROVE m[c] \in Elements(new)
      <3>1. CASE c[1] = p
        BY <1>2, <1>14, <1>17, <2>6, <2>8, <3>1
      <3>2. CASE c[1] # p
        <4>1. c \in Elements(old)
          BY <1>o, <2>8
        <4> QED
          BY <1>2, <2>4, <2>6, <3>2, <4>1
      <3> QED
        BY <3>1, <3>2
    <2>9. ASSUME NEW d \in Elements(new) PROVE \E c \in Used : RowAt(c).id = id /\ d = m[c]
      <3>1. CASE d \in Elements(rest)
        BY <2>5, <3>1
      <3>2. CASE d \in Elements(to)
        <4>1. PICK s \in mine : d = Target(p, s, left, l, r)
          BY <1>15, <3>2
        <4>2. s \in occupied(p) /\ pages[p][s].id = id
          BY <1>u
        <4>3. <<p, s>> \in Used /\ RowAt(<<p, s>>).id = id /\ m[<<p, s>>] = d
          BY <1>2, <1>3, <4>1, <4>2
        <4> QED
          BY <4>3
      <3> QED
        BY <2>6, <3>1, <3>2
    <2> QED
      BY <2>6, <2>7, <2>8, <2>9
  <1> QED
    BY <1>18, <1>19

\* A page with under two rows is not split.
LEMMA NoSplitKeeps ==
  ASSUME NEW w, Writers = {w}, RefInv(w), SplitPage(w),
         InUse(op[w].page) => PageFree(op[w].page) /\ Cardinality(occupied(op[w].page)) < 2
  PROVE  RefInv(w)'
  <1>1. /\ op[w].at = "halve" /\ op[w].at \in PlacingSteps /\ ChooseAgain(w) /\ owner' = Nobody
        /\ UNCHANGED <<clock, store, book, past, horizon, read>> /\ UNCHANGED holder
    BY DEF SplitPage, PlacingSteps, book, ghost
  <1>2. owner' \in Writers \cup {Nobody} /\ holder' \in [DOMAIN pages -> Writers \cup {Nobody}]
    BY <1>1, Facts
  <1> QED
    BY <1>1, <1>2, ChoosesAgain

Splitting(p, left, l, r) ==
  /\ l = Len(pages) + 1 /\ r = Len(pages) + 2 /\ AddPages(2)
  /\ pages' = pages \o <<Half(p, left), Half(p, occupied(p) \ left)>>
  /\ directory' = Part(directory, {k \in DOMAIN directory : directory[k] # p}) \o <<l, r>>

LEMMA SplitsInto ==
  ASSUME TypeOK, Once(directory), NEW p, p \in InUsePages, NEW left \in SUBSET occupied(p),
         NEW l, NEW r, Splitting(p, left, l, r)
  PROVE  SplitInto(p, left, l, r)
  <1>a. PICK a : a = Half(p, left)
    OBVIOUS
  <1>b. PICK b : b = Half(p, occupied(p) \ left)
    OBVIOUS
  <1>l. l = Len(pages) + 1 /\ r = Len(pages) + 2
    BY DEF Splitting
  <1>1. pages \in Seq([Slots -> Row \cup {Free}]) /\ directory \in Seq(DOMAIN pages)
    BY DEF TypeOK
  <1>2. p \in DOMAIN pages
    BY <1>1, ElementOfSeq DEF InUsePages
  <1>3. a \in [Slots -> Row \cup {Free}] /\ b \in [Slots -> Row \cup {Free}]
    BY <1>2, <1>a, <1>b, HalfIs DEF HalfTells
  <1>4. /\ <<a, b>> \in Seq([Slots -> Row \cup {Free}]) /\ Len(<<a, b>>) = 2
        /\ <<a, b>>[1] = a /\ <<a, b>>[2] = b
    BY <1>3
  <1>5. /\ pages' \in Seq([Slots -> Row \cup {Free}]) /\ Len(pages') = Len(pages) + 2
        /\ \A k \in 1..Len(pages) : pages'[k] = pages[k]
        /\ pages'[l] = a /\ pages'[r] = b
    <2>s. PICK s : s = <<a, b>>
      OBVIOUS
    <2>S. PICK S : S = [Slots -> Row \cup {Free}]
      OBVIOUS
    <2>n. PICK n \in Nat : n = 2
      OBVIOUS
    <2>1. pages \in Seq(S) /\ s \in Seq(S) /\ s[1] = a /\ s[2] = b
      BY <1>1, <1>4, <2>s, <2>S
    <2>2. Len(s) = n
      BY <1>4, <2>s, <2>n
    <2>3. Joins(pages', pages, s)
      BY <1>a, <1>b, <2>s DEF Splitting, Joins
    <2>4. /\ pages' \in Seq(S) /\ Len(pages') = Len(pages) + Len(s)
          /\ \A k \in 1..Len(pages) : pages'[k] = pages[k]
          /\ \A k \in 1..Len(s) : pages'[Len(pages) + k] = s[k]
      BY <2>1, <2>3, JoinAt
    <2>5. pages'[l] = a /\ pages'[r] = b /\ Len(pages') = Len(pages) + 2
      BY <1>l, <2>1, <2>2, <2>4, <2>n
    <2> QED
      BY <2>4, <2>5, <2>S
  <1>6. Len(pages) \in Nat /\ DOMAIN pages = 1..Len(pages) /\ DOMAIN pages' = 1..(Len(pages) + 2)
    BY <1>1, <1>5
  <1>7. Grows(2)
    BY <1>5, <1>6 DEF Grows, AddPages, Splitting
  <1>k. PICK at : at = {k \in DOMAIN directory : directory[k] # p}
    OBVIOUS
  <1>r. PICK rest : rest = Part(directory, at)
    OBVIOUS
  <1>8. rest \in Seq(DOMAIN pages) /\ Elements(rest) = {directory[k] : k \in at} /\ Once(rest)
    <2>1. at \in SUBSET DOMAIN directory
      BY <1>k
    <2> QED
      BY <1>1, <1>r, <2>1, PartIs
  <1>9. Elements(rest) = InUsePages \ {p}
    BY <1>8, <1>k DEF InUsePages
  <1>10. DOMAIN pages \subseteq DOMAIN pages' /\ rest \in Seq(DOMAIN pages')
    BY <1>6, <1>8, WiderSeq
  <1>11. l \in DOMAIN pages' /\ r \in DOMAIN pages' /\ l # r /\ l \notin DOMAIN pages /\ r \notin DOMAIN pages
    BY <1>6, <1>l
  <1>e. PICK ends : ends = <<l, r>>
    OBVIOUS
  <1>12. ends \in Seq(DOMAIN pages') /\ Elements(ends) = {l, r} /\ Once(ends)
    <2>1. ends \in Seq(DOMAIN pages') /\ DOMAIN ends = {1, 2} /\ ends[1] = l /\ ends[2] = r
      BY <1>11, <1>e
    <2> QED
      BY <1>11, <2>1 DEF Elements, Once
  <1>13. \A q \in Elements(rest) : q \notin Elements(ends)
    <2>1. InUsePages \subseteq DOMAIN pages
      BY <1>1, ElementOfSeq DEF InUsePages
    <2> QED
      BY <1>9, <1>11, <1>12, <2>1
  <1>14. Joins(directory', rest, ends)
    BY <1>k, <1>r, <1>e DEF Joins, Splitting
  <1>15. directory' \in Seq(DOMAIN pages') /\ Once(directory') /\ Elements(directory') = Elements(rest) \cup Elements(ends)
    <2>1. rest \in Seq(DOMAIN pages') /\ ends \in Seq(DOMAIN pages')
      BY <1>10, <1>12
    <2>2. directory' \in Seq(DOMAIN pages')
      BY <1>14, <2>1, JoinIs
    <2>3. Elements(directory') = Elements(rest) \cup Elements(ends)
      BY <1>14, <2>1, JoinIs
    <2>4. Once(directory')
      BY <1>8, <1>12, <1>13, <1>14, <2>1, JoinIs
    <2> QED
      BY <2>2, <2>3, <2>4
  <1>16. InUsePages' = (InUsePages \ {p}) \cup {l, r}
    BY <1>9, <1>12, <1>15 DEF InUsePages, Elements
  <1> QED
    BY <1>5, <1>7, <1>15, <1>16, <1>a, <1>b, <1>l DEF SplitInto

\* The rows of a page go to two new ones, and their places with them.
LEMMA DoSplitKeeps ==
  ASSUME NEW w, Writers = {w}, RefInv(w), SplitPage(w),
         ~(InUse(op[w].page) => PageFree(op[w].page) /\ Cardinality(occupied(op[w].page)) < 2)
  PROVE  RefInv(w)'
  <1>p. PICK p : p = op[w].page
    OBVIOUS
  <1>l. PICK l : l = Len(pages) + 1
    OBVIOUS
  <1>r. PICK r : r = Len(pages) + 2
    OBVIOUS
  <1>1. /\ op[w].at = "halve" /\ op[w].at \in PlacingSteps /\ ChooseAgain(w) /\ AddPages(2)
        /\ owner' = Nobody /\ retired' = retired
        /\ UNCHANGED <<clock, past, horizon, read>>
    BY DEF SplitPage, PlacingSteps, ghost
  <1>2. PICK left \in SUBSET occupied(p) :
          /\ pages' = pages \o <<Half(p, left), Half(p, occupied(p) \ left)>>
          /\ locations' = [i \in Ids |-> Moved(p, i, Targets(p, i, left, l, r))]
          /\ directory' = Part(directory, {k \in DOMAIN directory : directory[k] # p}) \o <<l, r>>
    BY <1>p, <1>l, <1>r DEF SplitPage
  <1>3. TypeOK /\ Once(directory) /\ p \in InUsePages
    BY <1>1, <1>p, CallIs, Facts DEF AtPage
  <1>4. SplitInto(p, left, l, r)
    <2>1. Splitting(p, left, l, r)
      BY <1>1, <1>2, <1>l, <1>r DEF Splitting
    <2> QED
      BY <1>3, <2>1, SplitsInto
  <1>m. PICK m : m = Move(p, left, l, r)
    OBVIOUS
  <1>5. Moves(Layout, Layout', m)
    BY <1>3, <1>4, <1>m, SplitMoves
  <1>6. /\ Told(w) = clock - 1 /\ Begun(w) = clock - 1 /\ Ended(w) = clock
        /\ Currently(w) = Others(past[clock - 1], op[w].id) /\ Unlisted(w) = {} /\ Unqueued(w) = {}
        /\ Cleared(w) = {}
    BY <1>1, Stages DEF StageIs
  <1>7. op'[w].at = "choose" /\ op'[w].id = op[w].id /\ clock' = clock /\ past' = past
    BY <1>1, Facts DEF ChooseAgain
  <1>8. /\ Told(w)' = clock - 1 /\ Begun(w)' = clock - 1 /\ Ended(w)' = clock
        /\ Currently(w)' = Others(past[clock - 1], op[w].id) /\ Unlisted(w)' = {} /\ Unqueued(w)' = {}
        /\ Cleared(w)' = {}
    BY <1>7, Stages DEF StageIs
  <1>9. /\ InOrderUpTo(Layout, clock - 1, clock) /\ Mapped(Layout, locations, {}, {})
        /\ Names(Layout, Current(Layout)) = Others(past[clock - 1], op[w].id) /\ InQueue(Layout, retired, {})
        /\ \A snap \in horizon..(clock - 1) : Tells(Layout, snap, past[snap])
    BY <1>6, Facts
  <1>10. DOMAIN Layout = Used /\ \A c \in Used : Layout[c] = RowAt(c) /\ Layout[c].id \in Ids
    BY <1>3, LayoutIs, RowFacts
  <1>11. \A id \in Ids : Once(locations[id]) /\ Elements(locations[id]) = {c \in Used : RowAt(c).id = id}
    <2>1. Exact(Layout, locations)
      BY <1>9, <1>10, ExactMap
    <2> QED
      BY <1>10, <2>1 DEF Exact
  <1>12. \A id \in Ids :
           /\ locations'[id] \in Seq(Place') /\ Once(locations'[id])
           /\ \A c \in Used : RowAt(c).id = id => m[c] \in Elements(locations'[id])
           /\ \A d \in Elements(locations'[id]) : \E c \in Used : RowAt(c).id = id /\ d = m[c]
    <2> TAKE id \in Ids
    <2>1. locations'[id] = Moved(p, id, Targets(p, id, left, l, r))
      BY <1>2
    <2> QED
      BY <1>3, <1>4, <1>11, <1>m, <2>1, SplitMapped
  <1>13. Mapped(Layout', locations', {}, {})
    <2>1. \A c \in Used : m[c] \in DOMAIN Layout' /\ Layout'[m[c]] = RowAt(c)
      BY <1>5, <1>10 DEF Moves
    <2>2. \A d \in DOMAIN Layout' : \E c \in Used : d = m[c]
      BY <1>5, <1>10 DEF Moves
    <2>3. \A d \in DOMAIN Layout' : d \in Elements(locations'[Layout'[d].id])
      <3> TAKE d \in DOMAIN Layout'
      <3>1. PICK c \in Used : d = m[c]
        BY <2>2
      <3>2. Layout'[d] = RowAt(c) /\ RowAt(c).id \in Ids
        BY <1>10, <2>1, <3>1
      <3> QED
        BY <1>12, <3>1, <3>2
    <2>4. ASSUME NEW id \in Ids, NEW d \in Elements(locations'[id])
          PROVE  d \in DOMAIN Layout' /\ Layout'[d].id = id
      <3>1. PICK c \in Used : RowAt(c).id = id /\ d = m[c]
        BY <1>12
      <3> QED
        BY <2>1, <3>1
    <2> QED
      BY <1>12, <2>3, <2>4 DEF Mapped
  <1>14. /\ InOrderUpTo(Layout', clock - 1, clock)
         /\ Names(Layout', Current(Layout')) = Others(past[clock - 1], op[w].id)
    BY <1>5, <1>9, MovedIs
  <1>15. Rows(w)'
    <2>1. \A snap \in horizon..(clock - 1) : Tells(Layout', snap, past[snap])
      BY <1>5, <1>9, MovedTells
    <2>2. Current(Layout)' = Current(Layout') /\ horizon' = horizon
      BY <1>1 DEF Current
    <2> QED
      BY <1>7, <1>8, <1>14, <2>1, <2>2 DEF Rows
  <1>16. Books(w)'
    <2>1. InQueue(Layout', retired', {})
      BY <1>1, <1>5, <1>9, MovedQueue
    <2> QED
      BY <1>8, <1>13, <2>1 DEF Books
  <1>17. Calls(w)'
    BY <1>1, ToChoose
  <1>18. Grows(2) /\ directory' \in Seq(DOMAIN pages') /\ Once(directory')
    BY <1>4 DEF SplitInto
  <1>19. /\ pages' \in Seq([Slots -> Row \cup {Free}]) /\ DOMAIN pages \subseteq DOMAIN pages'
         /\ holder' \in [DOMAIN pages' -> Writers \cup {Nobody}]
         /\ \A q \in DOMAIN pages : \A snap : Shown(q, snap)' = Shown(q, snap)
    BY <1>3, <1>18, GrownIs DEF Grows
  <1>20. locations' \in [Ids -> Seq(Place')] /\ retired' \in Seq(Row) /\ owner' \in Writers \cup {Nobody}
    BY <1>1, <1>2, <1>12, Facts
  <1>21. Told(w)' >= Told(w) /\ Told(w)' \in Int
    BY <1>6, <1>8, Facts
  <1>22. PICK x : Goes(w, x)
    BY <1>1 DEF ChooseAgain
  <1> QED
    BY <1>1, <1>15, <1>16, <1>17, <1>18, <1>19, <1>20, <1>21, <1>22, StoreStep

LEMMA SplitPageKeeps ==
  ASSUME NEW w, Writers = {w}, RefInv(w), SplitPage(w)
  PROVE  RefInv(w)'
  BY NoSplitKeeps, DoSplitKeeps

-----------------------------------------------------------------------------
(* Vacuum.                                                                 *)

LEMMA LaterOf ==
  ASSUME NEW a \in Int, NEW b \in Int
  PROVE  Max({a, b}) \in {a, b} /\ Max({a, b}) >= a /\ Max({a, b}) >= b
  <1>1. \E x \in {a, b} : \A y \in {a, b} : x >= y
    OBVIOUS
  <1>2. Max({a, b}) \in {a, b} /\ \A y \in {a, b} : Max({a, b}) >= y
    BY <1>1 DEF Max
  <1> QED
    BY <1>2

\* The horizon moves up to what every search still needs.
LEMMA BeginVacuumKeeps ==
  ASSUME NEW w, Writers = {w}, RefInv(w), NEW oldest \in 1..clock, BeginVacuum(w, oldest)
  PROVE  RefInv(w)'
  <1>x. PICK x : x = Reclaiming(oldest, {})
    OBVIOUS
  <1>h. PICK h : h = Max({horizon, oldest})
    OBVIOUS
  <1>1. /\ op[w].at = "idle" /\ owner' = w /\ horizon' = h /\ Goes(w, x)
        /\ clock' = clock /\ past' = past /\ read' = read /\ holder' = holder
        /\ UNCHANGED store /\ locations' = locations /\ retired' = retired
        /\ \A snap \in Snapshots : oldest <= snap
    BY <1>x, <1>h DEF BeginVacuum, book
  <1>2. clock \in Nat /\ clock \in 0..MaxClock /\ MaxClock \in Nat /\ horizon \in 0..clock /\ oldest \in Int
    BY Facts, Bounds
  <1>3. h \in 0..clock /\ horizon <= h /\ oldest <= h /\ (h = horizon \/ h = oldest)
    <2>1. Max({horizon, oldest}) \in {horizon, oldest} /\ Max({horizon, oldest}) >= horizon
          /\ Max({horizon, oldest}) >= oldest
      BY <1>2, LaterOf
    <2> QED
      BY <1>2, <1>h, <2>1
  <1>4. op'[w] = x
    BY <1>1, Facts
  <1>5. op'[w].at = "reclaim" /\ op'[w].oldest = oldest /\ op'[w].changed = {}
    BY <1>4, <1>x DEF Reclaiming
  <1>6. /\ Told(w) = clock /\ Begun(w) = clock /\ Ended(w) = clock
        /\ Currently(w) = past[clock] /\ Unlisted(w) = {} /\ Unqueued(w) = {} /\ Cleared(w) = {}
    BY <1>1, Stages DEF StageIs
  <1>7. /\ Told(w)' = clock /\ Begun(w)' = clock /\ Ended(w)' = clock
        /\ Currently(w)' = past[clock] /\ Unlisted(w)' = {} /\ Unqueued(w)' = {}
    BY <1>1, <1>5, Stages DEF StageIs
  <1>8. Cleared(w)' = {}
    BY <1>5 DEF Cleared
  <1>9. Layout' = Layout /\ \A p, snap : Shown(p, snap)' = Shown(p, snap)
    BY <1>1, SameStore
  <1>10. Frame'
    <2>1. TypeOK'
      BY <1>1, <1>2, <1>3, Facts DEF TypeOK, store, Place
    <2>2. Whole'
      BY <1>1, Facts DEF Whole
    <2>3. Once(directory)' /\ horizon' <= clock'
      BY <1>1, <1>3, Facts DEF Once, store
    <2> QED
      BY <2>1, <2>2, <2>3 DEF Frame
  <1>11. Calls(w)'
    <2>1. op'[w] = Reclaiming(op'[w].oldest, op'[w].changed)
      BY <1>4, <1>5, <1>x
    <2>2. op'[w].oldest \in 0..horizon' /\ op'[w].changed \subseteq InUsePages'
      BY <1>1, <1>2, <1>3, <1>5
    <2>3. AtReclaim(w)'
      BY <1>5, <2>1, <2>2 DEF AtReclaim, Reclaiming
    <2> QED
      BY <2>3 DEF Calls
  <1>12. Rows(w)'
    <2>1. InOrderUpTo(Layout, clock, clock) /\ Names(Layout, Current(Layout)) = past[clock]
      BY <1>6, Facts
    <2>2. \A snap \in horizon..clock : Tells(Layout, snap, past[snap])
      BY <1>6, Facts
    <2>3. \A snap \in h..clock : snap \in horizon..clock
      BY <1>2, <1>3
    <2>4. \A snap \in h..clock : Tells(Layout, snap, past[snap])
      BY <2>2, <2>3
    <2> QED
      BY <1>1, <1>7, <1>9, <2>1, <2>4 DEF Rows
  <1>13. Books(w)'
    <2>1. Mapped(Layout, locations, {}, {}) /\ InQueue(Layout, retired, {})
      BY <1>6, Facts
    <2> QED
      BY <1>1, <1>7, <1>8, <1>9, <2>1 DEF Books
  <1>14. Reads(w)'
    <2>1. \A r \in Readers : read[r].at = "probe" => read[r].snap \in horizon..Told(w)
      BY DEF RefInv, Reads
    <2>2. \A r \in Readers : read[r].at = "probe" => oldest <= read[r].snap
      BY <1>1 DEF Snapshots
    <2>3. \A r \in Readers : read[r].at = "probe" => horizon' <= read[r].snap
      BY <1>1, <1>2, <1>3, <1>6, <2>1, <2>2
    <2>4. Told(w) \in Int /\ Told(w)' \in Int /\ Told(w)' >= Told(w) /\ horizon \in Int /\ horizon' \in Int
      BY <1>1, <1>2, <1>3, <1>6, <1>7
    <2>5. past' = past /\ read' = read /\ DOMAIN pages \subseteq DOMAIN pages' /\ Reads(w)
      BY <1>1 DEF store, RefInv
    <2> QED
      BY <1>9, <2>3, <2>4, <2>5, ReadsKept
  <1> QED
    BY <1>10, <1>11, <1>12, <1>13, <1>14 DEF RefInv

Retires(w, c, entry) ==
  /\ c \in Used /\ c \notin Current(Layout) /\ entry = Entry(Layout[c]) /\ Layout[c].end < op[w].oldest
  /\ pages' = [pages EXCEPT ![c[1]][c[2]] = Free]
  /\ Goes(w, Reclaiming(op[w].oldest, op[w].changed \cup {c[1]}))

\* The version at the head of the queue is found, and it is the one that is cleared.
LEMMA RetiredIsFound ==
  ASSUME NEW w, Writers = {w}, RefInv(w), ReclaimOne(w)
  PROVE  \E c \in Used : Retires(w, c, Head(retired))
  <1>e. PICK entry : entry = Head(retired)
    OBVIOUS
  <1>p. PICK places : places = locations[entry.id]
    OBVIOUS
  <1>f. PICK found : found = {k \in DOMAIN places : IsRetired(places[k], entry)}
    BY Zenon
  <1>1. /\ op[w].at = "reclaim" /\ retired # <<>> /\ entry.end < op[w].oldest
        /\ found # {} =>
             /\ pages' = [pages EXCEPT ![places[Min(found)][1]][places[Min(found)][2]] = Free]
             /\ Goes(w, Reclaiming(op[w].oldest, op[w].changed \cup {places[Min(found)][1]}))
    BY <1>e, <1>p, <1>f, Zenon DEF ReclaimOne, Due
  <1>2. /\ Unlisted(w) = {} /\ Unqueued(w) = {}
    BY <1>1, Stages DEF StageIs
  <1>3. /\ Mapped(Layout, locations, {}, Cleared(w)) /\ InQueue(Layout, retired, {})
        /\ retired \in Seq(Row) /\ locations \in [Ids -> Seq(Place)] /\ TypeOK
        /\ RowsSound(Layout, Begun(w), Ended(w))
    BY <1>2, Facts DEF InOrderUpTo
  <1>4. DOMAIN Layout = Used /\ \A c \in Used : Layout[c] = RowAt(c) /\ Layout[c] \in Row
    BY <1>3, LayoutIs
  <1>5. entry \in Elements(retired)
    <2>1. 1 \in DOMAIN retired /\ entry = retired[1]
      BY <1>1, <1>3, <1>e, HeadTailProperties
    <2> QED
      BY <2>1 DEF Elements
  <1>6. PICK c \in Used : c \notin Current(Layout) /\ entry = Entry(Layout[c])
    BY <1>3, <1>4, <1>5 DEF InQueue
  <1>7. entry.id = RowAt(c).id /\ entry.begin = RowAt(c).begin /\ entry.end = RowAt(c).end /\ RowAt(c) \in Row
    BY <1>4, <1>6 DEF Entry
  <1>8. entry.id \in Ids /\ entry.begin # 0
    BY <1>7, RowFacts
  <1>9. c \in Elements(places) /\ places \in Seq(Place)
    BY <1>3, <1>4, <1>6, <1>7, <1>8, <1>p DEF Mapped
  <1>10. \A k \in DOMAIN places : IsRetired(places[k], entry) => places[k] = c
    <2> TAKE k \in DOMAIN places
    <2> HAVE IsRetired(places[k], entry)
    <2>1. places[k] \in Elements(locations[entry.id]) /\ RowAt(places[k]).begin = entry.begin
      BY <1>p DEF Elements, IsRetired
    <2>2. places[k] \in Used \/ places[k] \in Cleared(w)
      BY <1>3, <1>4, <1>8, <2>1 DEF Mapped
    <2>3. places[k] \notin Cleared(w)
      BY <1>8, <2>1, FreeIsNoRow DEF Cleared
    <2> QED
      BY <1>3, <1>4, <1>6, <1>7, <2>1, <2>2, <2>3 DEF RowsSound
  <1>11. found # {} /\ found \in SUBSET Nat
    <2>1. PICK k \in DOMAIN places : places[k] = c
      BY <1>9 DEF Elements
    <2>2. IsRetired(places[k], entry)
      BY <1>7, <2>1 DEF IsRetired
    <2>3. DOMAIN places \in SUBSET Nat
      BY <1>9
    <2> QED
      BY <1>f, <2>1, <2>2, <2>3
  <1>12. Min(found) \in found
    <2>1. \E m \in found : \A n \in found : m <= n
      BY <1>11, LeastOf
    <2> QED
      BY <2>1 DEF Min
  <1>13. places[Min(found)] = c
    BY <1>10, <1>12, <1>f
  <1> QED
    BY <1>1, <1>4, <1>6, <1>7, <1>11, <1>13, <1>e DEF Retires

LEMMA MoreCleared ==
  ASSUME NEW f, NEW map, NEW some, NEW all, some \subseteq all, Mapped(f, map, {}, some)
  PROVE  Mapped(f, map, {}, all)
  BY DEF Mapped

\* A version that ended before every snapshot that is kept is cleared.
LEMMA ReclaimOneKeeps ==
  ASSUME NEW w, Writers = {w}, RefInv(w), ReclaimOne(w)
  PROVE  RefInv(w)'
  <1>c. PICK c \in Used : Retires(w, c, Head(retired))
    BY RetiredIsFound
  <1>x. PICK x : x = Reclaiming(op[w].oldest, op[w].changed \cup {c[1]})
    OBVIOUS
  <1>1. /\ op[w].at = "reclaim" /\ retired # <<>> /\ retired' = Tail(retired) /\ directory' = directory
        /\ clock' = clock /\ locations' = locations /\ owner' = owner /\ holder' = holder
        /\ read' = read /\ past' = past /\ horizon' = horizon
    BY Zenon DEF ReclaimOne, Due, ghost
  <1>2. /\ c \notin Current(Layout) /\ Head(retired) = Entry(Layout[c]) /\ Layout[c].end < op[w].oldest
        /\ Writes(c, Free) /\ Goes(w, x)
    BY <1>1, <1>c, <1>x DEF Retires, Writes
  <1>3. TypeOK /\ AtReclaim(w) /\ op[w].oldest \in 0..horizon /\ op[w].changed \subseteq InUsePages
    BY <1>1, CallIs, Facts DEF AtReclaim
  <1>4. DOMAIN Layout = Used /\ c \in Cell /\ Layout[c] = RowAt(c) /\ Layout[c] \in Row /\ RowAt(c) # Free
    BY <1>3, LayoutIs DEF Used
  <1>5. c[1] \in InUsePages
    BY <1>3, <1>4, CellIs
  <1>6. Layout[c].end \in Nat /\ horizon \in Nat /\ Layout[c].end < horizon /\ clock \in Nat
        /\ clock \in 0..MaxClock
    BY <1>2, <1>3, <1>4, RowFacts, Facts
  <1>7. Written(c, Free)
    BY <1>2, <1>3, <1>4, CellSet
  <1>8. /\ pages' \in Seq([Slots -> Row \cup {Free}]) /\ DOMAIN pages' = DOMAIN pages
        /\ directory' \in Seq(DOMAIN pages') /\ Cell' = Cell /\ Place' = Place /\ InUsePages' = InUsePages
        /\ RowAt(c)' = Free /\ \A d \in Cell : d # c => RowAt(d)' = RowAt(d)
        /\ \A q \in DOMAIN pages : \A t \in Slots :
             IF q = c[1] /\ t = c[2] THEN pages'[q][t] = Free ELSE pages'[q][t] = pages[q][t]
    BY <1>7, Zenon DEF Written
  <1>9. Used' = Used \ {c}
    BY <1>4, <1>8 DEF Used
  <1>10. RowDropped(Layout, Layout', c)
    <2>1. Layout' = [d \in Used \ {c} |-> RowAt(d)']
      BY <1>9 DEF Layout
    <2>2. \A d \in Used \ {c} : Layout'[d] = Layout[d]
      BY <1>3, <1>8, <2>1, LayoutIs
    <2> QED
      BY <1>4, <2>1, <2>2 DEF RowDropped
  <1>11. op'[w] = x
    BY <1>2, Facts
  <1>12. op'[w].at = "reclaim" /\ op'[w].oldest = op[w].oldest /\ op'[w].changed = op[w].changed \cup {c[1]}
    BY <1>11, <1>x DEF Reclaiming
  <1>13. /\ Told(w) = clock /\ Begun(w) = clock /\ Ended(w) = clock
         /\ Currently(w) = past[clock] /\ Unlisted(w) = {} /\ Unqueued(w) = {}
    BY <1>1, Stages DEF StageIs
  <1>14. /\ Told(w)' = clock /\ Begun(w)' = clock /\ Ended(w)' = clock
         /\ Currently(w)' = past[clock] /\ Unlisted(w)' = {} /\ Unqueued(w)' = {}
    BY <1>1, <1>12, Stages DEF StageIs
  <1>15. Cleared(w) \cup {c} \subseteq Cleared(w)'
    BY <1>1, <1>4, <1>8, <1>12 DEF Cleared
  <1>16. /\ InOrderUpTo(Layout, clock, clock) /\ Names(Layout, Current(Layout)) = past[clock]
         /\ Mapped(Layout, locations, {}, Cleared(w)) /\ InQueue(Layout, retired, {}) /\ retired \in Seq(Row)
    BY <1>13, Facts
  <1>17. \A snap \in horizon..clock : Tells(Layout, snap, past[snap])
    BY <1>13, Facts
  <1>18. Rows(w)'
    <2>1. InOrderUpTo(Layout', clock, clock) /\ Names(Layout', Current(Layout')) = past[clock]
      BY <1>2, <1>10, <1>16, DroppedIs
    <2>2. \A snap \in horizon..clock : Tells(Layout', snap, past[snap])
      <3> TAKE snap \in horizon..clock
      <3>1. snap \in Nat /\ Layout[c].end <= snap
        BY <1>6
      <3> QED
        BY <1>6, <1>10, <1>17, <3>1, DroppedTells
    <2>3. Current(Layout)' = Current(Layout')
      BY DEF Current
    <2> QED
      BY <1>1, <1>14, <2>1, <2>2, <2>3 DEF Rows
  <1>19. Books(w)'
    <2>1. Mapped(Layout', locations, {}, Cleared(w) \cup {c}) /\ InQueue(Layout', Tail(retired), {})
      BY <1>1, <1>2, <1>10, <1>16, DroppedBooks
    <2>2. Mapped(Layout', locations, {}, Cleared(w)')
      BY <1>15, <2>1, MoreCleared
    <2> QED
      BY <1>1, <1>14, <2>1, <2>2 DEF Books
  <1>20. Calls(w)'
    <2>1. op'[w] = Reclaiming(op'[w].oldest, op'[w].changed)
      BY <1>11, <1>12, <1>x
    <2>2. op'[w].oldest \in 0..horizon' /\ op'[w].changed \subseteq InUsePages'
      BY <1>1, <1>3, <1>5, <1>8, <1>12
    <2>3. AtReclaim(w)'
      BY <1>12, <2>1, <2>2 DEF AtReclaim, Reclaiming
    <2> QED
      BY <2>3 DEF Calls
  <1>21. \A q \in DOMAIN pages : \A snap \in horizon..Told(w) : Shown(q, snap)' = Shown(q, snap)
    <2> TAKE q \in DOMAIN pages
    <2> TAKE snap \in horizon..Told(w)
    <2>1. snap \in Int /\ Layout[c].end <= snap
      BY <1>6, <1>13
    <2>2. ~SeesRow(RowAt(c), snap) /\ ~SeesRow(Free, snap)
      BY <1>4, <1>6, <2>1 DEF SeesRow
    <2>3. \A t \in Slots : \/ pages'[q][t] = pages[q][t]
                           \/ pages'[q][t] = Free /\ pages[q][t] = RowAt(c)
      BY <1>8 DEF RowAt
    <2>4. \A t \in Slots : /\ SeesRow(pages'[q][t], snap) <=> SeesRow(pages[q][t], snap)
                           /\ SeesRow(pages[q][t], snap) =>
                               /\ pages'[q][t].id = pages[q][t].id
                               /\ pages'[q][t].begin = pages[q][t].begin
      BY <2>2, <2>3
    <2> QED
      BY <2>4, ShownSame
  <1>22. retired' \in Seq(Row)
    BY <1>1, <1>16, HeadTailProperties
  <1>23. /\ Once(directory') /\ locations' \in [Ids -> Seq(Place')]
         /\ owner' \in Writers \cup {Nobody} /\ holder' \in [DOMAIN pages' -> Writers \cup {Nobody}]
    BY <1>1, <1>8, Facts
  <1>24. Told(w)' >= Told(w) /\ Told(w)' \in Int /\ DOMAIN pages \subseteq DOMAIN pages'
    BY <1>6, <1>8, <1>13, <1>14
  <1> QED
    BY <1>1, <1>2, <1>8, <1>18, <1>19, <1>20, <1>21, <1>22, <1>23, <1>24, StoreStep, Zenon

\* A scan meets the cells in an order.
LEMMA ScanIs ==
  ASSUME NEW cells \in SUBSET (Int \X Int)
  PROVE  IsOrder(cells, Scan(cells))
  <1>1. \A x \in cells : x[1] \in Int /\ x[2] \in Int /\ x = <<x[1], x[2]>>
    OBVIOUS
  <1>2. \A x, y \in cells : <<x, y>> \in Scan(cells) <=> (x[1] < y[1] \/ (x[1] = y[1] /\ x[2] < y[2]))
    BY DEF Scan
  <1> QED
    BY <1>1, <1>2 DEF IsOrder

\* The rows that lie on the pages of dir.
LayoutOf(content, dir) ==
  [c \in {d \in Elements(dir) \X Slots : content[d[1]][d[2]] # Free} |-> content[c[1]][c[2]]]

\* A map built anew lists every row once, and where it is.
LEMMA RebuiltIs ==
  ASSUME NEW X, NEW dir \in Seq(X), Once(dir), NEW content, NEW map, map = Rebuilt(content, dir)
  PROVE  /\ Exact(LayoutOf(content, dir), map)
         /\ \A id \in Ids : map[id] \in Seq(Elements(dir) \X Slots)
  <1>1. DOMAIN dir = 1..Len(dir) /\ Len(dir) \in Nat /\ Slots = 1..Capacity /\ Capacity \in Nat
    BY Bounds DEF Slots
  <1>2. IsFiniteSet(DOMAIN dir) /\ IsFiniteSet(Slots)
    BY <1>1, FS_Interval
  <1>3. IsFiniteSet((DOMAIN dir) \X Slots)
    BY <1>2, FS_Product
  <1> SUFFICES ASSUME NEW id \in Ids
               PROVE  /\ map[id] \in Seq(Elements(dir) \X Slots) /\ Once(map[id])
                      /\ Elements(map[id]) = {c \in DOMAIN LayoutOf(content, dir) :
                                                LayoutOf(content, dir)[c].id = id}
    BY DEF Exact
  <1>c. PICK cells : cells = Cells(content, dir, id)
    OBVIOUS
  <1>o. PICK order : order = InOrder(cells, Scan(cells))
    OBVIOUS
  <1>n. PICK n : n = Cardinality(cells)
    OBVIOUS
  <1>q. PICK seq : seq = map[id]
    OBVIOUS
  <1>4. seq = [k \in 1..n |-> <<dir[order[k][1]], order[k][2]>>]
    BY <1>c, <1>o, <1>n, <1>q DEF Rebuilt
  <1>5. \A e : e \in cells <=> /\ e \in (DOMAIN dir) \X Slots
                               /\ content[dir[e[1]]][e[2]] # Free /\ content[dir[e[1]]][e[2]].id = id
    BY <1>c DEF Cells
  <1>6. IsFiniteSet(cells) /\ cells \in SUBSET (Int \X Int)
    <2>1. cells \in SUBSET ((DOMAIN dir) \X Slots)
      BY <1>5
    <2>2. cells \in SUBSET (Int \X Int)
      BY <1>1, <2>1
    <2> QED
      BY <1>3, <2>1, <2>2, FS_Subset
  <1>7. n \in Nat /\ order \in [1..n -> cells] /\ Once(order) /\ Elements(order) = cells
    BY <1>6, <1>n, <1>o, ScanIs, InOrderIs
  <1>8. \A k \in 1..n : /\ order[k] \in cells /\ order[k] = <<order[k][1], order[k][2]>>
                        /\ order[k][1] \in DOMAIN dir /\ order[k][2] \in Slots
                        /\ seq[k] = <<dir[order[k][1]], order[k][2]>>
    BY <1>4, <1>5, <1>7
  <1>9. DOMAIN seq = 1..n
    BY <1>4
  <1>e. \A j \in DOMAIN dir : dir[j] \in Elements(dir)
    BY DEF Elements
  <1>p. \A k \in 1..n : seq[k] \in Elements(dir) \X Slots
    <2> TAKE k \in 1..n
    <2>1. PICK q \in Elements(dir) : q = dir[order[k][1]]
      BY <1>8, <1>e
    <2>2. PICK s \in Slots : s = order[k][2]
      BY <1>8
    <2>3. seq[k] = <<q, s>>
      BY <1>8, <2>1, <2>2
    <2> QED
      BY <2>3
  <1>10. seq \in Seq(Elements(dir) \X Slots)
    <2>1. \A k \in 1..n : seq[k] \in Elements(dir) \X Slots
      BY <1>p
    <2> QED
      BY <1>4, <1>7, <2>1, IsASeq
  <1>11. Once(seq)
    <2>1. ASSUME NEW j \in 1..n, NEW k \in 1..n, seq[j] = seq[k] PROVE j = k
      <3>1. dir[order[j][1]] = dir[order[k][1]] /\ order[j][2] = order[k][2]
        BY <1>8, <2>1
      <3>2. order[j][1] = order[k][1]
        BY <1>8, <3>1 DEF Once
      <3>3. order[j] = order[k]
        BY <1>8, <3>1, <3>2
      <3> QED
        BY <1>7, <3>3 DEF Once
    <2> QED
      BY <1>9, <2>1 DEF Once
  <1>f. PICK f : f = LayoutOf(content, dir)
    OBVIOUS
  <1>12. \A c : c \in DOMAIN f <=> c \in Elements(dir) \X Slots /\ content[c[1]][c[2]] # Free
    BY <1>f DEF LayoutOf
  <1>13. \A c \in DOMAIN f : f[c] = content[c[1]][c[2]]
    BY <1>f DEF LayoutOf
  <1>14. ASSUME NEW k \in 1..n PROVE seq[k] \in DOMAIN f /\ f[seq[k]].id = id
    <2>1. seq[k] \in Elements(dir) \X Slots /\ seq[k][1] = dir[order[k][1]] /\ seq[k][2] = order[k][2]
      BY <1>8, <1>p
    <2>2. content[dir[order[k][1]]][order[k][2]] # Free /\ content[dir[order[k][1]]][order[k][2]].id = id
      BY <1>5, <1>8
    <2> QED
      BY <1>12, <1>13, <2>1, <2>2
  <1>15. ASSUME NEW c \in DOMAIN f, f[c].id = id PROVE c \in Elements(seq)
    <2>1. c = <<c[1], c[2]>> /\ c[1] \in Elements(dir) /\ c[2] \in Slots /\ content[c[1]][c[2]] # Free
          /\ content[c[1]][c[2]].id = id
      BY <1>12, <1>13, <1>15
    <2>2. PICK j \in DOMAIN dir : c[1] = dir[j]
      BY <2>1 DEF Elements
    <2>3. <<j, c[2]>> \in cells
      BY <1>5, <2>1, <2>2
    <2>4. PICK k \in 1..n : order[k] = <<j, c[2]>>
      BY <1>7, <2>3 DEF Elements
    <2>5. seq[k] = c
      BY <1>8, <2>1, <2>2, <2>4
    <2> QED
      BY <1>9, <2>5 DEF Elements
  <1>16. Elements(seq) = {c \in DOMAIN f : f[c].id = id}
    BY <1>9, <1>14, <1>15 DEF Elements
  <1> QED
    BY <1>10, <1>11, <1>16, <1>f, <1>q

LEMMA LayoutSame ==
  /\ Layout = LayoutOf(pages, directory) /\ Cell = Elements(directory) \X Slots
  /\ Layout' = LayoutOf(pages', directory') /\ Cell' = Elements(directory') \X Slots
  <1>1. Cell = Elements(directory) \X Slots
    BY DEF Cell, InUsePages, Elements
  <1>2. Cell' = Elements(directory') \X Slots
    BY DEF Cell, InUsePages, Elements
  <1>3. Layout = LayoutOf(pages, directory)
    BY <1>1 DEF Layout, LayoutOf, Used, RowAt
  <1>4. Layout' = LayoutOf(pages', directory')
    BY <1>2 DEF Layout, LayoutOf, Used, RowAt
  <1> QED
    BY <1>1, <1>2, <1>3, <1>4

\* Vacuum ends with a map that no longer lists what was cleared.
LEMMA EndVacuumKeeps ==
  ASSUME NEW w, Writers = {w}, RefInv(w), EndVacuum(w)
  PROVE  RefInv(w)'
  <1>1. /\ op[w].at = "reclaim" /\ owner' = Nobody /\ retired' = retired /\ holder' = holder
        /\ UNCHANGED <<clock, past, horizon, read>> /\ pages' = pages /\ directory' = directory
        /\ Goes(w, [at |-> "idle"])
    BY DEF EndVacuum, Ends, store, ghost
  <1>2. TypeOK /\ clock \in Nat
    BY Facts
  <1>3. op'[w] = [at |-> "idle"]
    BY <1>1, Facts
  <1>4. /\ Told(w) = clock /\ Begun(w) = clock /\ Ended(w) = clock
        /\ Currently(w) = past[clock] /\ Unlisted(w) = {} /\ Unqueued(w) = {}
    BY <1>1, Stages DEF StageIs
  <1>5. /\ Told(w)' = clock /\ Begun(w)' = clock /\ Ended(w)' = clock
        /\ Currently(w)' = past[clock] /\ Unlisted(w)' = {} /\ Unqueued(w)' = {} /\ Cleared(w)' = {}
    BY <1>1, <1>3, Stages DEF StageIs
  <1>6. Layout' = Layout /\ Place' = Place /\ \A p, snap : Shown(p, snap)' = Shown(p, snap)
    BY <1>1, SameStore DEF Place, store
  <1>7. locations' \in [Ids -> Seq(Place)] /\ Mapped(Layout, locations', {}, {})
    <2>1. CASE op[w].changed = {}
      <3>1. locations' = locations /\ Cleared(w) = {}
        BY <2>1 DEF EndVacuum, Cleared
      <3> QED
        BY <1>4, <3>1, Facts
    <2>2. CASE op[w].changed # {}
      <3>1. locations' = Rebuilt(pages, directory)
        BY <2>2 DEF EndVacuum
      <3>2. directory \in Seq(DOMAIN pages) /\ Once(directory)
        BY Facts DEF TypeOK
      <3>3. Exact(Layout, locations') /\ \A id \in Ids : locations'[id] \in Seq(Cell)
        BY <3>1, <3>2, RebuiltIs, LayoutSame
      <3>4. \A c \in DOMAIN Layout : Layout[c].id \in Ids
        BY <1>2, LayoutIs, RowFacts
      <3>5. Cell \subseteq Place
        BY <1>2, CellIs DEF Place
      <3>6. \A id \in Ids : locations'[id] \in Seq(Place)
        BY <3>3, <3>5, WiderSeq
      <3>7. locations' = [id \in Ids |-> locations'[id]]
        BY <3>1 DEF Rebuilt
      <3> QED
        BY <3>3, <3>4, <3>6, <3>7, ExactMap
    <2> QED
      BY <2>1, <2>2
  <1>8. Rows(w)'
    BY <1>1, <1>4, <1>5, <1>6, Facts DEF Rows
  <1>9. Books(w)'
    BY <1>1, <1>4, <1>5, <1>6, <1>7, Facts DEF Books
  <1>10. Calls(w)'
    BY <1>3 DEF Calls
  <1>11. /\ pages' \in Seq([Slots -> Row \cup {Free}]) /\ DOMAIN pages \subseteq DOMAIN pages'
         /\ directory' \in Seq(DOMAIN pages') /\ Once(directory') /\ retired' \in Seq(Row)
    BY <1>1, Facts DEF TypeOK
  <1>12. owner' \in Writers \cup {Nobody} /\ holder' \in [DOMAIN pages' -> Writers \cup {Nobody}]
    BY <1>1, Facts
  <1>13. Told(w)' >= Told(w) /\ Told(w)' \in Int
    BY <1>2, <1>4, <1>5
  <1> QED
    BY <1>1, <1>6, <1>7, <1>8, <1>9, <1>10, <1>11, <1>12, <1>13, StoreStep

\* Closed versions are in order of the tick that closed them.
LEMMA EarlierIs ==
  ASSUME NEW entries \in SUBSET Row
  PROVE  /\ IsOrder(entries, {e \in entries \X entries : Earlier(e[1], e[2])})
         /\ \A e, f \in entries :
              <<e, f>> \in {g \in entries \X entries : Earlier(g[1], g[2])} => e.end <= f.end
  <1>b. PICK before : before = {e \in entries \X entries : Earlier(e[1], e[2])}
    OBVIOUS
  <1>1. \A e \in entries : /\ e.end \in Int /\ e.id \in Int /\ e.begin \in Int
                           /\ e = [id |-> e.id, begin |-> e.begin, end |-> e.end]
    BY RowFacts, Bounds
  <1>2. \A e, f \in entries : <<e, f>> \in before <=> Earlier(e, f)
    BY <1>b
  <1>3. \A e, f, g \in entries : Earlier(e, f) /\ Earlier(f, g) => Earlier(e, g)
    BY <1>1 DEF Earlier
  <1>4. \A e \in entries : ~Earlier(e, e)
    BY <1>1 DEF Earlier
  <1>5. \A e, f \in entries : e = f \/ Earlier(e, f) \/ Earlier(f, e)
    <2> TAKE e, f \in entries
    <2>1. (e.end = f.end /\ e.id = f.id /\ e.begin = f.begin) \/ Earlier(e, f) \/ Earlier(f, e)
      BY <1>1 DEF Earlier
    <2>2. e.end = f.end /\ e.id = f.id /\ e.begin = f.begin => e = f
      BY <1>1
    <2> QED
      BY <2>1, <2>2
  <1>6. \A e, f \in entries : Earlier(e, f) => e.end <= f.end
    BY <1>1 DEF Earlier
  <1>7. IsOrder(entries, before)
    BY <1>2, <1>3, <1>4, <1>5 DEF IsOrder
  <1> QED
    BY <1>2, <1>6, <1>7, <1>b

\* The closed rows are those of the layout that ended.
LEMMA ClosedIs == ClosedRows = {RowAt(c) : c \in {d \in Used : RowAt(d).end # MAX_TS}}
  <1>d. PICK done : done = {c \in Used : RowAt(c).end # MAX_TS}
    OBVIOUS
  <1>1. ASSUME NEW row \in ClosedRows PROVE \E c \in done : row = RowAt(c)
    <2>1. PICK k \in DOMAIN directory :
            row \in {pages[directory[k]][s] : s \in {t \in occupied(directory[k]) :
                                                      pages[directory[k]][t].end # MAX_TS}}
      BY DEF ClosedRows
    <2>2. PICK s \in occupied(directory[k]) :
            pages[directory[k]][s].end # MAX_TS /\ row = pages[directory[k]][s]
      BY <2>1
    <2>3. s \in Slots /\ pages[directory[k]][s] # Free
      BY DEF occupied, free_slots
    <2>4. PICK c : c = <<directory[k], s>>
      OBVIOUS
    <2>5. c \in Cell /\ RowAt(c) = row
      BY <2>2, <2>3, <2>4 DEF Cell, InUsePages, RowAt
    <2> QED
      BY <1>d, <2>2, <2>3, <2>5 DEF Used
  <1>2. ASSUME NEW c \in done PROVE RowAt(c) \in ClosedRows
    <2>1. c \in Cell /\ RowAt(c) # Free /\ RowAt(c).end # MAX_TS
      BY <1>d DEF Used
    <2>2. PICK k \in DOMAIN directory : c[1] = directory[k]
      BY <2>1 DEF Cell, InUsePages
    <2>3. c[2] \in occupied(directory[k]) /\ pages[directory[k]][c[2]] = RowAt(c)
      BY <2>1, <2>2 DEF Cell, RowAt, occupied, free_slots
    <2> QED
      BY <2>1, <2>3 DEF ClosedRows
  <1> QED
    BY <1>1, <1>2, <1>d

\* A queue built anew lists every closed version once, earliest first.
LEMMA QueueIs ==
  ASSUME TypeOK, RowsSound(Layout, clock, clock), NEW queue, queue = Queue({Entry(row) : row \in ClosedRows})
  PROVE  queue \in Seq(Row) /\ InQueue(Layout, queue, {})
  <1>d. PICK done : done = {c \in Used : RowAt(c).end # MAX_TS}
    OBVIOUS
  <1>e. PICK entries : entries = {Entry(row) : row \in ClosedRows}
    OBVIOUS
  <1>1. DOMAIN Layout = Used /\ \A c \in Used : Layout[c] = RowAt(c) /\ Layout[c] \in Row /\ c \in Cell
    BY LayoutIs
  <1>2. done = {c \in Used : c \notin Current(Layout)}
    BY <1>1, <1>d DEF Current
  <1>3. entries = {Entry(RowAt(c)) : c \in done}
    BY <1>d, <1>e, ClosedIs
  <1>4. entries \in SUBSET Row
    <2>1. \A row \in Row : Entry(row) = row
      BY RowFacts DEF Entry
    <2> QED
      BY <1>1, <1>3, <1>d, <2>1
  <1>5. IsFiniteSet(entries)
    <2>1. DOMAIN directory = 1..Len(directory) /\ Len(directory) \in Nat /\ Slots = 1..Capacity /\ Capacity \in Nat
      BY Bounds DEF TypeOK, Slots
    <2>2. IsFiniteSet(DOMAIN directory) /\ IsFiniteSet(Slots)
      BY <2>1, FS_Interval
    <2>3. IsFiniteSet((DOMAIN directory) \X Slots)
      BY <2>2, FS_Product
    <2>p. PICK at : at = {x \in (DOMAIN directory) \X Slots : <<directory[x[1]], x[2]>> \in done}
      OBVIOUS
    <2>4. IsFiniteSet(at)
      BY <2>3, <2>p, FS_Subset
    <2>g. PICK g : g = [x \in at |-> Entry(RowAt(<<directory[x[1]], x[2]>>))]
      OBVIOUS
    <2>5. \A x \in at : g[x] \in entries
      BY <1>3, <2>g, <2>p
    <2>6. ASSUME NEW e \in entries PROVE \E x \in at : g[x] = e
      <3>1. PICK c \in done : e = Entry(RowAt(c))
        BY <1>3
      <3>2. c \in Cell
        BY <1>1, <1>d
      <3>3. PICK k \in DOMAIN directory : c[1] = directory[k]
        BY <3>2 DEF Cell, InUsePages
      <3>4. c = <<directory[k], c[2]>> /\ c[2] \in Slots
        BY <3>2, <3>3 DEF Cell
      <3>5. PICK x : x = <<k, c[2]>>
        OBVIOUS
      <3>6. x \in at /\ <<directory[x[1]], x[2]>> = c
        BY <2>p, <3>4, <3>5
      <3> QED
        BY <2>g, <3>1, <3>6
    <2>7. g \in Surjection(at, entries)
      BY <2>5, <2>6, <2>g DEF Surjection
    <2> QED
      BY <2>4, <2>7, FS_Surjection
  <1>b. PICK before : before = {e \in entries \X entries : Earlier(e[1], e[2])}
    OBVIOUS
  <1>6. queue = InOrder(entries, before)
    BY <1>b, <1>e DEF Queue
  <1>7. IsOrder(entries, before) /\ \A e, f \in entries : <<e, f>> \in before => e.end <= f.end
    BY <1>4, <1>b, EarlierIs
  <1>n. PICK n : n = Cardinality(entries)
    OBVIOUS
  <1>8. /\ n \in Nat /\ queue \in [1..n -> entries] /\ Once(queue) /\ Elements(queue) = entries
        /\ \A j, k \in DOMAIN queue : j < k => <<queue[j], queue[k]>> \in before
    BY <1>5, <1>6, <1>7, <1>n, InOrderIs
  <1>9. queue \in Seq(Row)
    <2>1. queue \in [1..n -> Row]
      BY <1>4, <1>8
    <2> QED
      BY <1>8, <2>1, IsASeq
  <1>10. \A j, k \in DOMAIN queue : j < k => queue[j].end <= queue[k].end
    BY <1>7, <1>8
  <1>11. \A c \in DOMAIN Layout : c \in Current(Layout) \/ Entry(Layout[c]) \in Elements(queue)
    BY <1>1, <1>2, <1>3, <1>8
  <1>12. \A e \in Elements(queue) : \E c \in DOMAIN Layout : c \notin Current(Layout) /\ e = Entry(Layout[c])
    BY <1>1, <1>2, <1>3, <1>8
  <1> QED
    BY <1>8, <1>9, <1>10, <1>11, <1>12 DEF InQueue

\* Pages are numbered as they come in the directory.
Loads ==
  /\ pages' = [k \in DOMAIN directory |-> pages[directory[k]]]
  /\ directory' = [k \in DOMAIN directory |-> k]

LEMMA LoadMoves ==
  ASSUME TypeOK, Once(directory), Loads
  PROVE  /\ pages' \in Seq([Slots -> Row \cup {Free}]) /\ DOMAIN pages' = DOMAIN directory
         /\ directory' \in Seq(DOMAIN pages') /\ Once(directory')
         /\ \E m : Moves(Layout, Layout', m)
  <1>n. PICK n : n = Len(directory)
    OBVIOUS
  <1>1. n \in Nat /\ DOMAIN directory = 1..n /\ directory \in Seq(DOMAIN pages)
    BY <1>n DEF TypeOK
  <1>2. \A k \in 1..n : directory[k] \in DOMAIN pages /\ pages[directory[k]] \in [Slots -> Row \cup {Free}]
    BY <1>1, ElementOfSeq DEF TypeOK
  <1>3. /\ DOMAIN pages' = 1..n /\ \A k \in 1..n : pages'[k] = pages[directory[k]]
        /\ DOMAIN directory' = 1..n /\ \A k \in 1..n : directory'[k] = k
    BY <1>1 DEF Loads
  <1>4. pages' \in [1..n -> [Slots -> Row \cup {Free}]] /\ directory' \in [1..n -> DOMAIN pages']
    BY <1>1, <1>2, <1>3 DEF Loads
  <1>5. pages' \in Seq([Slots -> Row \cup {Free}]) /\ directory' \in Seq(DOMAIN pages')
    BY <1>1, <1>4, IsASeq
  <1>6. Once(directory')
    BY <1>3 DEF Once
  <1>7. /\ DOMAIN Layout = Used /\ DOMAIN Layout' = Used'
        /\ (\A c \in Used : Layout[c] = RowAt(c)) /\ (\A c \in Used' : Layout'[c] = RowAt(c)')
    BY DEF Layout
  <1>8. \A c \in Cell : c = <<c[1], c[2]>> /\ c[2] \in Slots /\ \E k \in 1..n : directory[k] = c[1]
    BY <1>1 DEF Cell, InUsePages
  <1>m. PICK m : m = [c \in Used |-> <<CHOOSE k \in 1..n : directory[k] = c[1], c[2]>>]
    OBVIOUS
  <1>9. ASSUME NEW c \in Used
        PROVE  \E k \in 1..n : directory[k] = c[1] /\ m[c] = <<k, c[2]>> /\ c \in Cell
    <2>1. c \in Cell
      BY DEF Used
    <2>2. PICK k \in 1..n : k = (CHOOSE j \in 1..n : directory[j] = c[1]) /\ directory[k] = c[1]
      BY <1>8, <2>1
    <2> QED
      BY <1>m, <2>1, <2>2
  <1>10. ASSUME NEW k \in 1..n, NEW s \in Slots
         PROVE  /\ <<k, s>> \in Cell' /\ RowAt(<<k, s>>)' = pages[directory[k]][s]
                /\ <<directory[k], s>> \in Cell /\ RowAt(<<directory[k], s>>) = pages[directory[k]][s]
    BY <1>1, <1>3 DEF Cell, InUsePages, RowAt
  <1>11. ASSUME NEW c \in Used PROVE m[c] \in Used' /\ RowAt(m[c])' = RowAt(c)
    <2>1. PICK k \in 1..n : directory[k] = c[1] /\ m[c] = <<k, c[2]>> /\ c \in Cell
      BY <1>9
    <2>2. c = <<directory[k], c[2]>> /\ c[2] \in Slots /\ RowAt(c) # Free
      BY <1>8, <2>1 DEF Used
    <2>3. m[c] \in Cell' /\ RowAt(m[c])' = RowAt(c)
      BY <1>10, <2>1, <2>2
    <2> QED
      BY <2>2, <2>3 DEF Used
  <1>12. ASSUME NEW c \in Used, NEW d \in Used, m[c] = m[d] PROVE c = d
    <2>1. PICK j \in 1..n : directory[j] = c[1] /\ m[c] = <<j, c[2]>> /\ c \in Cell
      BY <1>9
    <2>2. PICK k \in 1..n : directory[k] = d[1] /\ m[d] = <<k, d[2]>> /\ d \in Cell
      BY <1>9
    <2>a. <<j, c[2]>> = <<k, d[2]>>
      BY <1>12, <2>1, <2>2
    <2>b. j = k /\ c[2] = d[2]
      BY <2>a
    <2>3. c[1] = d[1] /\ c[2] = d[2]
      BY <2>1, <2>2, <2>b
    <2> QED
      BY <1>8, <2>1, <2>2, <2>3
  <1>13. ASSUME NEW d \in Used' PROVE \E c \in Used : d = m[c]
    <2>1. d \in Cell' /\ RowAt(d)' # Free
      BY DEF Used
    <2>2. PICK k \in 1..n, s \in Slots : d = <<k, s>>
      BY <1>3, <2>1 DEF Cell, InUsePages
    <2>3. PICK c : c = <<directory[k], s>>
      OBVIOUS
    <2>4. c \in Used
      BY <1>10, <2>1, <2>2, <2>3 DEF Used
    <2>5. PICK j \in 1..n : directory[j] = c[1] /\ m[c] = <<j, c[2]>>
      BY <1>9, <2>4
    <2>6. j = k
      BY <1>1, <2>3, <2>5 DEF Once
    <2> QED
      BY <2>2, <2>3, <2>4, <2>5, <2>6
  <1>14. Moves(Layout, Layout', m)
    BY <1>7, <1>11, <1>12, <1>13 DEF Moves
  <1> QED
    BY <1>1, <1>3, <1>5, <1>6, <1>14

LEMMA SaveAndLoadKeeps ==
  ASSUME NEW w, Writers = {w}, RefInv(w), SaveAndLoad
  PROVE  RefInv(w)'
  <1>1. /\ op[w].at = "idle" /\ (\A r \in Readers : read[r].at = "idle") /\ Loads
        /\ holder' = [k \in DOMAIN directory |-> Nobody]
        /\ locations' = Rebuilt(pages', directory') /\ retired' = Queue({Entry(row) : row \in ClosedRows})
        /\ UNCHANGED <<clock, owner, op, read, past, horizon>>
    BY DEF SaveAndLoad, Loads, ghost
  <1>2. TypeOK /\ Once(directory) /\ op[w] = [at |-> "idle"]
    BY <1>1, CallIs, Facts
  <1>3. /\ pages' \in Seq([Slots -> Row \cup {Free}]) /\ DOMAIN pages' = DOMAIN directory
        /\ directory' \in Seq(DOMAIN pages') /\ Once(directory')
    BY <1>1, <1>2, LoadMoves
  <1>m. PICK m : Moves(Layout, Layout', m)
    BY <1>1, <1>2, LoadMoves
  <1>4. /\ Told(w) = clock /\ Begun(w) = clock /\ Ended(w) = clock
        /\ Currently(w) = past[clock] /\ Unlisted(w) = {} /\ Unqueued(w) = {} /\ Cleared(w) = {}
    BY <1>1, Stages DEF StageIs
  <1>5. op'[w] = [at |-> "idle"] /\ op'[w].at = "idle" /\ clock' = clock /\ past' = past /\ horizon' = horizon
    BY <1>1, <1>2
  <1>6. /\ Told(w)' = clock /\ Begun(w)' = clock /\ Ended(w)' = clock
        /\ Currently(w)' = past[clock] /\ Unlisted(w)' = {} /\ Unqueued(w)' = {} /\ Cleared(w)' = {}
    BY <1>5, Stages DEF StageIs
  <1>7. /\ InOrderUpTo(Layout, clock, clock) /\ Names(Layout, Current(Layout)) = past[clock]
        /\ InQueue(Layout, retired, {})
        /\ \A snap \in horizon..clock : Tells(Layout, snap, past[snap])
    BY <1>4, Facts
  <1>8. retired' \in Seq(Row) /\ InQueue(Layout, retired', {})
    BY <1>1, <1>2, <1>7, QueueIs DEF InOrderUpTo
  <1>9. Exact(Layout', locations') /\ \A id \in Ids : locations'[id] \in Seq(Cell')
    BY <1>1, <1>3, RebuiltIs, LayoutSame
  <1>10. TypeOK'
    <2>1. \A c \in Cell' : c \in Place'
      BY <1>3, ElementOfSeq DEF Cell, InUsePages, Place
    <2>2. \A id \in Ids : locations'[id] \in Seq(Place')
      BY <1>9, <2>1, WiderSeq
    <2>3. locations' \in [Ids -> Seq(Place')]
      BY <1>1, <2>2 DEF Rebuilt
    <2>4. holder' \in [DOMAIN pages' -> Writers \cup {Nobody}]
      BY <1>1, <1>3
    <2>5. clock' \in 0..MaxClock /\ horizon' \in 0..MaxClock /\ owner' \in Writers \cup {Nobody}
      BY <1>1, <1>2 DEF TypeOK
    <2> QED
      BY <1>3, <1>8, <2>3, <2>4, <2>5 DEF TypeOK
  <1>11. Frame'
    <2>1. Whole'
      BY <1>1, Facts DEF Whole
    <2>2. Once(directory)' /\ horizon' <= clock'
      BY <1>3, <1>5, Facts DEF Once
    <2> QED
      BY <1>10, <2>1, <2>2 DEF Frame
  <1>12. Rows(w)'
    <2>1. /\ InOrderUpTo(Layout', clock, clock) /\ Names(Layout', Current(Layout')) = past[clock]
      BY <1>m, <1>7, MovedIs
    <2>2. \A snap \in horizon..clock : Tells(Layout', snap, past[snap])
      BY <1>m, <1>7, MovedTells
    <2>3. Current(Layout)' = Current(Layout')
      BY DEF Current
    <2> QED
      BY <1>5, <1>6, <2>1, <2>2, <2>3 DEF Rows
  <1>13. Books(w)'
    <2>1. InQueue(Layout', retired', {})
      BY <1>m, <1>8, MovedQueue
    <2>2. \A c \in DOMAIN Layout' : Layout'[c].id \in Ids
      <3>1. InOrderUpTo(Layout', clock, clock)
        BY <1>m, <1>7, MovedIs
      <3> QED
        BY <3>1, RowFacts DEF InOrderUpTo, RowsSound
    <2>3. Mapped(Layout', locations', {}, {})
      BY <1>9, <2>2, ExactMap
    <2> QED
      BY <1>6, <2>1, <2>3 DEF Books
  <1>14. Calls(w)'
    BY <1>5 DEF Calls
  <1>15. Reads(w)'
    BY <1>1, Facts DEF Reads
  <1> QED
    BY <1>11, <1>12, <1>13, <1>14, <1>15 DEF RefInv

-----------------------------------------------------------------------------
(* Searches.                                                               *)

Answering(w, search) ==
  /\ search = [at |-> "probe", snap |-> search.snap, adaptive |-> search.adaptive,
               todo |-> search.todo, got |-> search.got]
  /\ search.snap \in horizon..Told(w) /\ search.todo \subseteq DOMAIN pages
  /\ Named(search.got) \cup UNION {Shown(p, search.snap) : p \in search.todo} = past[search.snap]

LEMMA ReadStep ==
  ASSUME NEW w, Writers = {w}, RefInv(w), UNCHANGED <<clock, store, book, owner, holder, op, ghost>>,
         NEW r \in Readers, NEW search, read' = [read EXCEPT ![r] = search],
         search = [at |-> "idle"] \/ Answering(w, search)
  PROVE  RefInv(w)'
  <1>1. /\ clock' = clock /\ pages' = pages /\ directory' = directory /\ locations' = locations
        /\ retired' = retired /\ owner' = owner /\ holder' = holder /\ op' = op /\ past' = past
        /\ horizon' = horizon
    BY DEF store, book, ghost
  <1>2. read' = [q \in Readers |-> read'[q]] /\ read'[r] = search /\ \A q \in Readers : q # r => read'[q] = read[q]
    BY Facts DEF Whole
  <1>3. Frame'
    <2>1. TypeOK'
      BY <1>1, Facts DEF TypeOK, Place
    <2>2. Whole'
      BY <1>1, <1>2, Facts DEF Whole
    <2>3. Once(directory)'
      BY <1>1, Facts DEF Once
    <2>4. horizon' <= clock'
      BY <1>1, Facts
    <2> QED
      BY <2>1, <2>2, <2>3, <2>4 DEF Frame
  <1>4. Layout' = Layout /\ (\A c : RowAt(c)' = RowAt(c)) /\ (\A p, snap : Shown(p, snap)' = Shown(p, snap))
        /\ InUsePages' = InUsePages /\ Cell' = Cell /\ Used' = Used
    BY SameStore
  <1>5. Told(w)' = Told(w) /\ Begun(w)' = Begun(w) /\ Ended(w)' = Ended(w) /\ Currently(w)' = Currently(w)
        /\ Unlisted(w)' = Unlisted(w) /\ Unqueued(w)' = Unqueued(w)
    BY <1>1 DEF Told, Begun, Ended, Currently, Unlisted, Unqueued, Writing, Closing, Placing
  <1>6. Cleared(w)' = Cleared(w)
    BY <1>1, <1>4 DEF Cleared
  <1>7. Rows(w)' /\ Books(w)'
    BY <1>1, <1>4, <1>5, <1>6 DEF RefInv, Rows, Books
  <1>8. Calls(w)'
    <2>1. Calls(w)
      BY Facts
    <2> QED
      BY <1>1, <1>4, <2>1 DEF Calls, AtList, AtClose, AtRetire, AtChoose, AtPage, AtRecord, AtReclaim, Call,
                             IsWrite, WithPlaces, WithPage, Current
  <1>9. Reads(w)'
    <2>1. Reads(w)
      BY Facts
    <2>2. ASSUME NEW q \in Readers, read'[q] # [at |-> "idle"]
          PROVE  Answering(w, read'[q])
      BY <1>2, <2>1, <2>2 DEF Reads, Answering
    <2>3. ASSUME NEW s, Answering(w, s)
          PROVE  /\ s.at = "probe"
                 /\ s = [at |-> "probe", snap |-> s.snap, adaptive |-> s.adaptive, todo |-> s.todo, got |-> s.got]
                 /\ s.snap \in horizon'..Told(w)' /\ s.todo \subseteq DOMAIN pages'
                 /\ Named(s.got) \cup UNION {Shown(p, s.snap)' : p \in s.todo} = past'[s.snap]
      BY <1>1, <1>4, <1>5, <2>3 DEF Answering
    <2> QED
      BY <2>2, <2>3 DEF Reads, Named
  <1> QED
    BY <1>3, <1>7, <1>8, <1>9 DEF RefInv

\* The pages in use answer a snapshot whose calls have returned.
LEMMA PagesAnswer ==
  ASSUME NEW w, Writers = {w}, RefInv(w), NEW snap \in horizon..Told(w)
  PROVE  UNION {Shown(p, snap) : p \in InUsePages} = past[snap]
  <1>1. TypeOK /\ Names(Layout, SeenAt(Layout, snap)) = past[snap]
    BY Facts DEF Tells
  <1>2. DOMAIN Layout = Used /\ \A c \in Used : Layout[c] = RowAt(c)
    BY <1>1, LayoutIs
  <1>3. \A c \in Used : c = <<c[1], c[2]>> /\ c[1] \in InUsePages /\ c[2] \in Slots /\ RowAt(c) # Free
    BY DEF Used, Cell
  <1>4. ASSUME NEW v, NEW p \in InUsePages, v \in Shown(p, snap) PROVE v \in Names(Layout, SeenAt(Layout, snap))
    <2>1. PICK s \in Slots : SeesRow(pages[p][s], snap) /\ v = <<pages[p][s].id, pages[p][s].begin>>
      BY <1>4, ShownIs
    <2>2. PICK c : c = <<p, s>>
      OBVIOUS
    <2>3. c \in Used /\ RowAt(c) = pages[p][s]
      BY <2>1, <2>2 DEF Used, Cell, RowAt, SeesRow
    <2> QED
      BY <1>2, <2>1, <2>3 DEF Names, SeenAt, SeesRow
  <1>5. ASSUME NEW v \in Names(Layout, SeenAt(Layout, snap)) PROVE \E p \in InUsePages : v \in Shown(p, snap)
    <2>1. PICK c \in Used : RowAt(c).begin <= snap /\ snap < RowAt(c).end /\ v = <<RowAt(c).id, RowAt(c).begin>>
      BY <1>2 DEF Names, SeenAt
    <2>2. SeesRow(pages[c[1]][c[2]], snap) /\ v = <<pages[c[1]][c[2]].id, pages[c[1]][c[2]].begin>>
      BY <1>3, <2>1 DEF SeesRow, RowAt
    <2>3. v \in Shown(c[1], snap)
      BY <1>3, <2>2, ShownIs
    <2> QED
      BY <1>3, <2>3
  <1> QED
    BY <1>1, <1>4, <1>5

LEMMA SettledIs ==
  ASSUME NEW w, Writers = {w}, RefInv(w)
  PROVE  Settled = Told(w)
  <1>1. CASE ~Writing(w)
    BY <1>1 DEF Settled, Told
  <1>2. CASE Writing(w)
    <2>1. op[w].ts = clock
      <3>1. AtList(w) \/ AtChoose(w) \/ AtClose(w) \/ AtRetire(w) \/ AtPage(w) \/ AtRecord(w)
        BY <1>2, Facts DEF Calls, Writing, AtReclaim
      <3>2. AtList(w) \/ AtChoose(w) => op[w].ts = clock
        BY DEF AtList, AtChoose, Call
      <3>3. AtClose(w) \/ AtRetire(w) \/ AtPage(w) => op[w].ts = clock
        BY DEF AtClose, AtRetire, AtPage
      <3>4. AtRecord(w) => op[w].ts = clock
        BY DEF AtRecord
      <3> QED
        BY <3>1, <3>2, <3>3, <3>4
    <2>2. {op[u].ts : u \in {v \in Writers : Writing(v)}} = {clock}
      BY <1>2, <2>1
    <2>3. Min({clock}) = clock
      BY Facts DEF Min
    <2> QED
      BY <1>2, <2>2, <2>3 DEF Settled, Told
  <1> QED
    BY <1>1, <1>2

LEMMA BeginSearchKeeps ==
  ASSUME NEW w, Writers = {w}, RefInv(w), ~Latest, NEW r \in Readers, NEW snap \in 0..clock,
         NEW adaptive, BeginSearch(r, snap, adaptive)
  PROVE  RefInv(w)'
  <1>s. PICK search : search = [at |-> "probe", snap |-> snap, adaptive |-> adaptive,
                                todo |-> InUsePages, got |-> {}]
    OBVIOUS
  <1>1. /\ read' = [read EXCEPT ![r] = search] /\ snap >= horizon /\ snap <= Settled
        /\ UNCHANGED <<clock, store, book, owner, holder, op, ghost>>
    BY <1>s DEF BeginSearch, InUsePages
  <1>2. Told(w) \in Int /\ horizon \in Int /\ snap \in Int
    BY Facts DEF Told
  <1>3. snap \in horizon..Told(w)
    BY <1>1, <1>2, SettledIs
  <1>4. UNION {Shown(p, snap) : p \in InUsePages} = past[snap]
    BY <1>3, PagesAnswer
  <1>5. InUsePages \subseteq DOMAIN pages
    BY Facts, ElementOfSeq DEF TypeOK, InUsePages
  <1>6. search.snap = snap /\ search.todo = InUsePages /\ search.got = {} /\ search.adaptive = adaptive
    BY <1>s
  <1>7. Named(search.got) = {}
    BY <1>6 DEF Named
  <1>8. Answering(w, search)
    BY <1>3, <1>4, <1>5, <1>6, <1>7, <1>s DEF Answering
  <1> QED
    BY <1>1, <1>8, ReadStep

Probing(snap, adaptive, todo, got) ==
  [at |-> "probe", snap |-> snap, adaptive |-> adaptive, todo |-> todo, got |-> got]

IsProbing(search, snap, adaptive, todo, got) == search = Probing(snap, adaptive, todo, got)
Probed(new, search, todo, got) == new = [search EXCEPT !.todo = todo, !.got = got]

LEMMA ProbingOn ==
  ASSUME NEW snap, NEW adaptive, NEW t, NEW g, NEW todo, NEW got,
         NEW r, IsProbing(r, snap, adaptive, t, g), NEW new, Probed(new, r, todo, got)
  PROVE  IsProbing(new, snap, adaptive, todo, got)
  <1>1. PICK q : q = [r EXCEPT !.todo = todo]
    OBVIOUS
  <1>2. q = Probing(snap, adaptive, todo, g)
    BY <1>1 DEF Probing, IsProbing
  <1>3. PICK n : n = [q EXCEPT !.got = got]
    OBVIOUS
  <1>4. n = Probing(snap, adaptive, todo, got)
    BY <1>2, <1>3 DEF Probing
  <1>5. n = [[r EXCEPT !.todo = todo] EXCEPT !.got = got]
    BY <1>1, <1>3
  <1>6. n = [r EXCEPT !.todo = todo, !.got = got]
    BY <1>5
  <1> QED
    BY <1>4, <1>6 DEF IsProbing, Probed

LEMMA ProbePageKeeps ==
  ASSUME NEW w, Writers = {w}, RefInv(w), NEW r \in Readers, NEW p, ProbePage(r, p)
  PROVE  RefInv(w)'
  <1>o. PICK old : old = read[r]
    OBVIOUS
  <1>s. PICK search : search = [at |-> "probe", snap |-> old.snap, adaptive |-> old.adaptive,
                                todo |-> old.todo \ {p}, got |-> old.got \cup visible(p, old.snap)]
    OBVIOUS
  <1>1. /\ old.at = "probe" /\ p \in old.todo
        /\ read' = [read EXCEPT ![r].todo = @ \ {p}, ![r].got = @ \cup visible(p, old.snap)]
        /\ UNCHANGED <<clock, store, book, owner, holder, op, ghost>>
    BY <1>o DEF ProbePage
  <1>2. Answering(w, old)
    <2>1. Reads(w) /\ read[r].at # "idle"
      BY <1>1, <1>o, Facts
    <2>2. Answering(w, read[r])
      BY <2>1 DEF Reads, Answering
    <2> QED
      BY <2>2, <1>o
  <1>3. old = [at |-> "probe", snap |-> old.snap, adaptive |-> old.adaptive, todo |-> old.todo, got |-> old.got]
    BY <1>2 DEF Answering
  <1>4. [old EXCEPT !.todo = old.todo \ {p}, !.got = old.got \cup visible(p, old.snap)] = search
    <2>1. PICK snap, adaptive, todo, got :
            /\ snap = old.snap /\ adaptive = old.adaptive /\ todo = old.todo \ {p}
            /\ got = old.got \cup visible(p, old.snap)
      OBVIOUS
    <2>2. PICK t, g : t = old.todo /\ g = old.got
      OBVIOUS
    <2>3. IsProbing(search, snap, adaptive, todo, got) /\ IsProbing(old, snap, adaptive, t, g)
      BY <1>3, <1>s, <2>1, <2>2 DEF Probing, IsProbing
    <2>4. PICK new : Probed(new, old, todo, got)
      BY DEF Probed
    <2>5. IsProbing(new, snap, adaptive, todo, got)
      BY <2>3, <2>4, ProbingOn
    <2>6. new = search /\ new = [old EXCEPT !.todo = todo, !.got = got]
      BY <2>3, <2>4, <2>5 DEF IsProbing, Probed
    <2> QED
      BY <2>1, <2>6
  <1>5. read' = [read EXCEPT ![r] = search]
    BY <1>1, <1>4, <1>o, Facts DEF Whole
  <1>6. /\ search.snap = old.snap /\ search.todo = old.todo \ {p} /\ search.adaptive = old.adaptive
        /\ search.got = old.got \cup visible(p, old.snap)
    BY <1>s
  <1>7. Named(search.got) = Named(old.got) \cup Shown(p, old.snap)
    BY <1>6 DEF Named, Shown
  <1>8. UNION {Shown(q, old.snap) : q \in old.todo}
          = Shown(p, old.snap) \cup UNION {Shown(q, old.snap) : q \in old.todo \ {p}}
    BY <1>1
  <1>9. Named(search.got) \cup UNION {Shown(q, search.snap) : q \in search.todo} = past[search.snap]
    BY <1>2, <1>6, <1>7, <1>8 DEF Answering
  <1>10. search.snap \in horizon..Told(w) /\ search.todo \subseteq DOMAIN pages
    BY <1>2, <1>6 DEF Answering
  <1>11. Answering(w, search)
    BY <1>6, <1>9, <1>10, <1>s DEF Answering
  <1> QED
    BY <1>1, <1>5, <1>11, ReadStep

LEMMA EndSearchKeeps ==
  ASSUME NEW w, Writers = {w}, RefInv(w), NEW r \in Readers, EndSearch(r)
  PROVE  RefInv(w)'
  <1>1. /\ read' = [read EXCEPT ![r] = [at |-> "idle"]]
        /\ UNCHANGED <<clock, store, book, owner, holder, op, ghost>>
    BY DEF EndSearch
  <1> QED
    BY <1>1, ReadStep

-----------------------------------------------------------------------------
(* The theorems.                                                           *)

LEMMA RefStarts ==
  ASSUME NEW w, Writers = {w}, Init
  PROVE  RefInv(w)
  <1>1. /\ clock = 0 /\ pages = <<>> /\ directory = <<>> /\ retired = <<>> /\ owner = Nobody /\ holder = <<>>
        /\ locations = [i \in Ids |-> <<>>] /\ op[w] = [at |-> "idle"] /\ op[w].at = "idle"
        /\ (\A r \in Readers : read[r] = [at |-> "idle"]) /\ horizon = 0
    BY DEF Init
  <1>2. past = [t \in 0..MaxClock |-> {}] /\ past[clock] = {}
    BY <1>1, Bounds DEF Init
  <1>3. InUsePages = {} /\ Cell = {} /\ Used = {} /\ DOMAIN Layout = {}
    BY <1>1 DEF InUsePages, Cell, Used, Layout
  <1>4. Frame
    <2>1. TypeOK
      BY <1>1, Bounds DEF TypeOK
    <2>2. Whole
      BY <1>2 DEF Whole, Init
    <2>3. Once(directory) /\ horizon <= clock
      BY <1>1 DEF Once
    <2> QED
      BY <2>1, <2>2, <2>3 DEF Frame
  <1>5. /\ Told(w) = clock /\ Begun(w) = clock /\ Ended(w) = clock
        /\ Currently(w) = past[clock] /\ Unlisted(w) = {} /\ Unqueued(w) = {} /\ Cleared(w) = {}
    BY <1>1, Stages DEF StageIs
  <1>6. Calls(w) /\ Reads(w)
    BY <1>1 DEF Calls, Reads
  <1>7. Rows(w)
    <2>1. \A snap : SeenAt(Layout, snap) = {}
      BY <1>3 DEF SeenAt
    <2>2. \A snap \in horizon..clock : Tells(Layout, snap, past[snap])
      <3>1. \A snap \in horizon..clock : snap = clock
        BY <1>1
      <3> QED
        BY <1>2, <2>1, <3>1 DEF Tells, Names, OneOfEach
    <2>3. Current(Layout) = {}
      BY <1>3 DEF Current
    <2>4. InOrderUpTo(Layout, clock, clock) /\ Names(Layout, Current(Layout)) = {}
      BY <1>3, <2>3 DEF InOrderUpTo, RowsSound, OneOfEach, Names
    <2> QED
      BY <1>2, <1>5, <2>2, <2>4 DEF Rows
  <1>8. Books(w)
    <2>1. Elements(retired) = {} /\ Once(retired) /\ DOMAIN retired = {}
      BY <1>1 DEF Elements, Once
    <2>2. \A id \in Ids : Elements(locations[id]) = {} /\ Once(locations[id])
      BY <1>1 DEF Elements, Once
    <2>3. InQueue(Layout, retired, {})
      BY <1>3, <2>1 DEF InQueue
    <2>4. Mapped(Layout, locations, {}, {})
      BY <1>3, <2>2 DEF Mapped
    <2> QED
      BY <1>5, <2>3, <2>4 DEF Books
  <1> QED
    BY <1>4, <1>6, <1>7, <1>8 DEF RefInv

LEMMA RefStutters ==
  ASSUME NEW w, Writers = {w}, RefInv(w), UNCHANGED vars
  PROVE  RefInv(w)'
  <1>1. /\ clock' = clock /\ pages' = pages /\ directory' = directory /\ locations' = locations
        /\ retired' = retired /\ owner' = owner /\ holder' = holder /\ op' = op /\ past' = past
        /\ horizon' = horizon /\ read' = read
    BY DEF vars, store, book, ghost
  <1>2. op[w] = op[w] /\ Goes(w, op[w])
    BY <1>1, Facts DEF Goes, Whole
  <1>3. Layout' = Layout /\ (\A c : RowAt(c)' = RowAt(c)) /\ InUsePages' = InUsePages /\ Cell' = Cell /\ Used' = Used
    BY <1>1, SameStore DEF store
  <1>4. Told(w)' = Told(w) /\ Begun(w)' = Begun(w) /\ Ended(w)' = Ended(w) /\ Currently(w)' = Currently(w)
        /\ Unlisted(w)' = Unlisted(w) /\ Unqueued(w)' = Unqueued(w)
    BY <1>1 DEF Told, Begun, Ended, Currently, Unlisted, Unqueued, Writing, Closing, Placing
  <1>5. Cleared(w)' = Cleared(w)
    BY <1>1, <1>3 DEF Cleared
  <1>6. Calls(w)'
    <2>1. Calls(w)
      BY Facts
    <2> QED
      BY <1>1, <1>3, <2>1 DEF Calls, AtList, AtClose, AtRetire, AtChoose, AtPage, AtRecord, AtReclaim, Call,
                             IsWrite, WithPlaces, WithPage, Current
  <1>7. UNCHANGED <<clock, store, book, past, horizon, read>>
    BY <1>1 DEF store, book
  <1>8. owner' \in Writers \cup {Nobody} /\ holder' \in [DOMAIN pages -> Writers \cup {Nobody}]
    BY <1>1, Facts
  <1> QED
    BY <1>2, <1>4, <1>5, <1>6, <1>7, <1>8, SameStage

LEMMA RefGoesOn ==
  ASSUME NEW w, Writers = {w}, ~Latest, RefInv(w), [Next]_vars
  PROVE  RefInv(w)'
  <1>1. CASE UNCHANGED vars
    BY <1>1, RefStutters
  <1>2. CASE SaveAndLoad
    BY <1>2, SaveAndLoadKeeps
  <1>3. ASSUME NEW r \in Readers, Search(r) PROVE RefInv(w)'
    <2>1. CASE \E snap \in 0..clock, adaptive \in BOOLEAN : BeginSearch(r, snap, adaptive)
      BY <2>1, BeginSearchKeeps
    <2>2. CASE \E p \in DOMAIN pages : ProbePage(r, p)
      BY <2>2, ProbePageKeeps
    <2>3. CASE EndSearch(r)
      BY <2>3, EndSearchKeeps
    <2> QED
      BY <1>3, <2>1, <2>2, <2>3 DEF Search
  <1>4. ASSUME Step(w) PROVE RefInv(w)'
    <2>1. CASE \E id \in Ids, call \in {"insert", "delete"} : Tick(w, call, id)
      BY <2>1, TickKeeps
    <2>2. CASE ListPlaces(w) \/ ClosePlace(w) \/ Retire(w) \/ NoneOpen(w)
      BY <2>2, ListPlacesKeeps, ClosePlaceKeeps, RetireKeeps, NoneOpenKeeps
    <2>3. CASE ChoosePage(w) \/ LookForRoom(w) \/ PlaceRow(w) \/ RecordPlace(w)
      BY <2>3, ChoosePageKeeps, LookForRoomKeeps, PlaceRowKeeps, RecordPlaceKeeps
    <2>4. CASE BeginSplit(w) \/ SplitPage(w)
      BY <2>4, BeginSplitKeeps, SplitPageKeeps
    <2>5. CASE \E oldest \in 1..clock : BeginVacuum(w, oldest)
      BY <2>5, BeginVacuumKeeps
    <2>6. CASE ReclaimOne(w) \/ EndVacuum(w)
      BY <2>6, ReclaimOneKeeps, EndVacuumKeeps
    <2> QED
      BY <1>4, <2>1, <2>2, <2>3, <2>4, <2>5, <2>6 DEF Step
  <1> QED
    BY <1>1, <1>2, <1>3, <1>4 DEF Next

\* The map, the queue, the rows and the searches stay in step with the calls of
\* the one writer, through every split, vacuum and load (index.py).
THEOREM RefInvHolds ==
  ASSUME NEW w, Writers = {w}, ~Latest
  PROVE  Spec => []RefInv(w)
  <1>1. Init => RefInv(w)
    BY RefStarts
  <1>2. RefInv(w) /\ [Next]_vars => RefInv(w)'
    BY RefGoesOn
  <1> QED
    BY <1>1, <1>2, PTL DEF Spec

\* Between calls nothing is being entered, closed or cleared.
LEMMA WhenQuiet ==
  ASSUME NEW w, Writers = {w}, RefInv(w), Quiet
  PROVE  /\ TypeOK /\ DOMAIN Layout = Used /\ Used \subseteq Cell
         /\ \A c \in Used : Layout[c] = RowAt(c) /\ Layout[c] \in Row
         /\ Exact(Layout, locations) /\ InQueue(Layout, retired, {})
         /\ \A snap \in horizon..clock : Tells(Layout, snap, past[snap])
  <1>1. op[w].at = "idle" /\ TypeOK
    BY Facts DEF Quiet
  <1>2. Told(w) = clock /\ Unlisted(w) = {} /\ Unqueued(w) = {} /\ Cleared(w) = {}
    BY <1>1, Stages DEF StageIs
  <1>3. DOMAIN Layout = Used /\ Used \subseteq Cell /\ \A c \in Used : Layout[c] = RowAt(c) /\ Layout[c] \in Row
    BY <1>1, LayoutIs
  <1>4. \A c \in DOMAIN Layout : Layout[c].id \in Ids
    BY <1>3, RowFacts
  <1>5. Mapped(Layout, locations, {}, {})
    BY <1>2, Facts
  <1> QED
    BY <1>1, <1>2, <1>3, <1>4, <1>5, ExactMap, Facts

LEMMA LocationsAre ==
  ASSUME NEW w, Writers = {w}, RefInv(w)
  PROVE  LocationsExact
  <1> SUFFICES ASSUME Quiet, NEW id \in Ids, NEW places,
                      places = {place \in Place : InUse(place[1]) /\ RowAt(place) # Free /\ RowAt(place).id = id}
               PROVE  /\ {locations[id][k] : k \in DOMAIN locations[id]} = places
                      /\ Len(locations[id]) = Cardinality(places)
    BY DEF LocationsExact
  <1>1. Elements(locations[id]) = {c \in Used : RowAt(c).id = id} /\ Once(locations[id])
    BY WhenQuiet DEF Exact
  <1>2. \A c : c \in Used <=> c \in Place /\ InUse(c[1]) /\ RowAt(c) # Free
    <2>1. \A c \in Cell : c \in Place /\ InUse(c[1])
      BY Facts, CellIs DEF Place, InUse, InUsePages
    <2>2. \A c \in Place : InUse(c[1]) => c \in Cell
      BY DEF Place, Cell, InUse, InUsePages
    <2> QED
      BY <2>1, <2>2 DEF Used
  <1>3. Elements(locations[id]) = places
    BY <1>1, <1>2
  <1>4. locations[id] \in Seq(Place)
    BY Facts
  <1>5. Len(locations[id]) = Cardinality(Elements(locations[id]))
    BY <1>1, <1>4, OnceCounts
  <1> QED
    BY <1>3, <1>5 DEF Elements

LEMMA RetiredAre ==
  ASSUME NEW w, Writers = {w}, RefInv(w)
  PROVE  RetiredExact
  <1> SUFFICES ASSUME Quiet
               PROVE  /\ {retired[k] : k \in DOMAIN retired} = {Entry(row) : row \in ClosedRows}
                      /\ Len(retired) = Cardinality(ClosedRows)
                      /\ \A k \in 1..(Len(retired) - 1) : retired[k].end <= retired[k + 1].end
    BY DEF RetiredExact
  <1>1. /\ DOMAIN Layout = Used /\ \A c \in Used : Layout[c] = RowAt(c) /\ Layout[c] \in Row
        /\ InQueue(Layout, retired, {}) /\ retired \in Seq(Row)
    BY WhenQuiet, Facts
  <1>2. \A row \in Row : Entry(row) = row
    BY RowFacts DEF Entry
  <1>3. ClosedRows = {RowAt(c) : c \in {d \in Used : d \notin Current(Layout)}}
    <2>1. {d \in Used : RowAt(d).end # MAX_TS} = {d \in Used : d \notin Current(Layout)}
      BY <1>1 DEF Current
    <2> QED
      BY <2>1, ClosedIs
  <1>4. Elements(retired) = ClosedRows
    <2>1. \A e \in Elements(retired) : e \in ClosedRows
      BY <1>1, <1>2, <1>3 DEF InQueue
    <2>2. \A e \in ClosedRows : e \in Elements(retired)
      BY <1>1, <1>2, <1>3 DEF InQueue
    <2> QED
      BY <2>1, <2>2
  <1>5. {Entry(row) : row \in ClosedRows} = ClosedRows
    BY <1>1, <1>2, <1>3
  <1>6. Len(retired) = Cardinality(Elements(retired))
    BY <1>1, OnceCounts DEF InQueue
  <1>7. \A k \in 1..(Len(retired) - 1) : retired[k].end <= retired[k + 1].end
    <2>1. DOMAIN retired = 1..Len(retired) /\ Len(retired) \in Nat
      BY <1>1
    <2>2. \A j, k \in DOMAIN retired : j < k => retired[j].end <= retired[k].end
      BY <1>1 DEF InQueue
    <2>3. \A k \in 1..(Len(retired) - 1) : k \in DOMAIN retired /\ k + 1 \in DOMAIN retired /\ k < k + 1
      BY <2>1
    <2> QED
      BY <2>2, <2>3
  <1> QED
    BY <1>4, <1>5, <1>6, <1>7 DEF Elements

\* Between calls the map names each stored row once and where it lies, and the
\* queue each closed version once, earliest first (insert, delete,
\* _split_page, _rebuild_locations_locked, _retired).
THEOREM BookIsExact ==
  ASSUME NEW w, Writers = {w}, ~Latest
  PROVE  Spec => []BookExact
  <1>1. RefInv(w) => BookExact
    BY LocationsAre, RetiredAre, Facts DEF BookExact
  <1> QED
    BY <1>1, RefInvHolds, PTL

\* Between calls every snapshot vacuum was told to keep is answered as the calls
\* left it, with one version of an id (insert, vacuum).
THEOREM HistoryKept ==
  ASSUME NEW w, Writers = {w}, ~Latest
  PROVE  Spec => []KeepsHistory
  <1>1. ASSUME RefInv(w), Quiet, NEW snap \in horizon..clock
        PROVE  Named(Stored(snap)) = past[snap] /\ OneVersionAt(snap)
    <2>1. /\ DOMAIN Layout = Used /\ Used \subseteq Cell /\ \A c \in Used : Layout[c] = RowAt(c)
          /\ Tells(Layout, snap, past[snap])
      BY <1>1, WhenQuiet
    <2>2. Stored(snap) = {RowAt(c) : c \in SeenAt(Layout, snap)}
      <3>1. ASSUME NEW v \in Stored(snap) PROVE \E c \in SeenAt(Layout, snap) : v = RowAt(c)
        <4>1. PICK k \in DOMAIN directory : v \in visible(directory[k], snap)
          BY DEF Stored
        <4>2. PICK s \in Slots : SeesRow(pages[directory[k]][s], snap) /\ v = pages[directory[k]][s]
          BY <4>1 DEF visible, occupied, free_slots, SeesRow
        <4>3. PICK c : c = <<directory[k], s>>
          OBVIOUS
        <4>4. c \in Used /\ RowAt(c) = v
          BY <4>2, <4>3 DEF Used, Cell, InUsePages, RowAt, SeesRow
        <4> QED
          BY <2>1, <4>2, <4>4 DEF SeenAt, SeesRow
      <3>2. ASSUME NEW c \in SeenAt(Layout, snap) PROVE RowAt(c) \in Stored(snap)
        <4>1. c \in Used /\ RowAt(c).begin <= snap /\ snap < RowAt(c).end
          BY <2>1 DEF SeenAt
        <4>2. PICK k \in DOMAIN directory : c[1] = directory[k] /\ c[2] \in Slots
          BY <4>1 DEF Used, Cell, InUsePages
        <4>3. RowAt(c) = pages[directory[k]][c[2]] /\ RowAt(c) # Free
          BY <4>1, <4>2 DEF RowAt, Used
        <4>4. RowAt(c) \in visible(directory[k], snap)
          BY <4>1, <4>2, <4>3 DEF visible, occupied, free_slots
        <4> QED
          BY <4>4 DEF Stored
      <3> QED
        BY <3>1, <3>2
    <2>3. \A c \in SeenAt(Layout, snap) : Layout[c] = RowAt(c)
      BY <2>1 DEF SeenAt
    <2>4. Named(Stored(snap)) = Names(Layout, SeenAt(Layout, snap))
      BY <2>2, <2>3 DEF Named, Names
    <2>5. OneVersionAt(snap)
      BY <2>1, <2>2, <2>3 DEF OneVersionAt, Tells, OneOfEach
    <2> QED
      BY <2>1, <2>4, <2>5 DEF Tells
  <1>2. RefInv(w) => KeepsHistory
    BY <1>1 DEF KeepsHistory
  <1> QED
    BY <1>2, RefInvHolds, PTL

\* A search at a snapshot returns rows current at it only, and all of them if it
\* reads every page it listed, whatever is split, written and vacuumed
\* meanwhile (search).
THEOREM SearchesAnswer ==
  ASSUME NEW w, Writers = {w}, ~Latest
  PROVE  Spec => []SearchAnswers
  <1>1. ASSUME RefInv(w), NEW r \in Readers, read[r].at = "probe"
        PROVE  /\ Named(read[r].got) \subseteq past[read[r].snap]
               /\ read[r].todo = {} => Named(read[r].got) = past[read[r].snap]
    <2>1. Named(read[r].got) \cup UNION {Shown(p, read[r].snap) : p \in read[r].todo} = past[read[r].snap]
      BY <1>1 DEF RefInv, Reads
    <2> QED
      BY <2>1
  <1>2. RefInv(w) => SearchAnswers
    BY <1>1 DEF SearchAnswers
  <1> QED
    BY <1>2, RefInvHolds, PTL

=============================================================================
