----------------------------- MODULE RWLockProof -----------------------------
(***************************************************************************)
(* The gate keeps its promises for any number of threads, any nesting and  *)
(* any number of calls.                                                    *)
(***************************************************************************)
EXTENDS RWLock, FiniteSetTheorems, TLAPS

\* Write blocks are the writer's.
OnlyWriter == \A t \in Threads, n \in Nat : n \in DOMAIN held[t] /\ held[t][n] = "write" => writer = t

\* While a thread writes, nobody else is inside of anything.
OthersOut == writer # Nobody => \A t \in Threads : t # writer => held[t] = <<>>

\* A thread that waits to get in has room for one more block.
Room == \A t \in Threads : wants[t] # "nothing" => Len(held[t]) < MaxNesting

LockInv == TypeOK /\ Counted /\ OnlyWriter /\ OthersOut /\ Room /\ NoLostWakeup

-----------------------------------------------------------------------------
(* What entering and leaving do to the blocks that are counted.            *)

\* The counted blocks are finitely many.
LEMMA InsideFinite ==
  ASSUME NEW kind
  PROVE  IsFiniteSet(Inside(kind))
  <1>1. IsFiniteSet(1..MaxNesting)
    BY FS_Interval, Bounds
  <1>2. IsFiniteSet(Threads \X (1..MaxNesting))
    BY <1>1, FS_Product, ThreadsFinite
  <1> QED
    BY <1>2, FS_Subset DEF Inside

\* ... and so they are after a step.
LEMMA InsideFiniteNext ==
  ASSUME NEW kind
  PROVE  IsFiniteSet(Inside(kind)')
  <1>1. IsFiniteSet(1..MaxNesting)
    BY FS_Interval, Bounds
  <1>2. IsFiniteSet(Threads \X (1..MaxNesting))
    BY <1>1, FS_Product, ThreadsFinite
  <1> QED
    BY <1>2, FS_Subset DEF Inside

\* Entering adds one block of its kind and none of another.
LEMMA EnterAdds ==
  ASSUME TypeOK, Room, NEW t \in Threads, NEW kind \in Kinds, Enter(t, kind)
  PROVE  /\ held' \in [Threads -> Seq(Kinds)]
         /\ \A u \in Threads : Len(held'[u]) <= MaxNesting
         /\ Cardinality(Inside(kind)') = Cardinality(Inside(kind)) + 1
         /\ Inside(kind)' # {}
         /\ \A other \in Kinds : other # kind => Inside(other)' = Inside(other)
  <1> DEFINE new == <<t, Len(held[t]) + 1>>
  <1>1. held[t] \in Seq(Kinds) /\ Len(held[t]) \in Nat /\ Len(held[t]) < MaxNesting
    BY DEF TypeOK, Room, Enter, Kinds
  <1>2. held'[t] = Append(held[t], kind) /\ \A u \in Threads : u # t => held'[u] = held[u]
    BY DEF TypeOK, Enter
  <1>3. held' \in [Threads -> Seq(Kinds)]
    BY <1>1 DEF TypeOK, Enter
  <1>4. /\ DOMAIN held'[t] = DOMAIN held[t] \cup {Len(held[t]) + 1}
        /\ Len(held'[t]) = Len(held[t]) + 1
        /\ held'[t][Len(held[t]) + 1] = kind
        /\ \A n \in DOMAIN held[t] : held'[t][n] = held[t][n]
        /\ Len(held[t]) + 1 \notin DOMAIN held[t]
    BY <1>1, <1>2
  <1>5. ASSUME NEW u \in Threads
        PROVE  Len(held'[u]) <= MaxNesting
    <2>1. CASE u = t
      BY <2>1, <1>1, <1>4, Bounds
    <2>2. CASE u # t
      BY <2>2, <1>2 DEF TypeOK
    <2> QED BY <2>1, <2>2
  <1>6. new \in Threads \X (1..MaxNesting)
    BY <1>1, Bounds
  <1>7. Inside(kind)' = Inside(kind) \cup {new} /\ new \notin Inside(kind)
    <2>1. new \notin Inside(kind)
      BY <1>4 DEF Inside
    <2>2. ASSUME NEW p \in Threads \X (1..MaxNesting)
          PROVE  p \in Inside(kind)' <=> p \in Inside(kind) \/ p = new
      <3>1. CASE p[1] # t
        BY <3>1, <1>2 DEF Inside
      <3>2. CASE p[1] = t
        BY <3>2, <1>4 DEF Inside
      <3> QED BY <3>1, <3>2
    <2> QED
      BY <1>6, <2>1, <2>2 DEF Inside
  <1>8. ASSUME NEW other \in Kinds, other # kind
        PROVE  Inside(other)' = Inside(other)
    <2>1. ASSUME NEW p \in Threads \X (1..MaxNesting)
          PROVE  p \in Inside(other)' <=> p \in Inside(other)
      <3>1. CASE p[1] # t
        BY <3>1, <1>2 DEF Inside
      <3>2. CASE p[1] = t
        BY <3>2, <1>4, <1>8 DEF Inside
      <3> QED BY <3>1, <3>2
    <2> QED
      BY <2>1 DEF Inside
  <1>9. Cardinality(Inside(kind)') = Cardinality(Inside(kind)) + 1
    BY <1>7, InsideFinite, FS_AddElement
  <1> QED
    BY <1>3, <1>5, <1>7, <1>8, <1>9

\* Leaving removes one block of its kind and none of another.
LEMMA LeaveRemoves ==
  ASSUME TypeOK, NEW t \in Threads, NEW kind \in Kinds, Leave(t, kind)
  PROVE  /\ held' \in [Threads -> Seq(Kinds)]
         /\ \A u \in Threads : Len(held'[u]) <= MaxNesting
         /\ \A u \in Threads : u # t => held'[u] = held[u]
         /\ \A n \in Nat : n \in DOMAIN held'[t] => n \in DOMAIN held[t] /\ held'[t][n] = held[t][n]
         /\ <<t, Len(held[t])>> \in Inside(kind)
         /\ Cardinality(Inside(kind)') = Cardinality(Inside(kind)) - 1
         /\ \A other \in Kinds : other # kind => Inside(other)' = Inside(other)
  <1> DEFINE old == <<t, Len(held[t])>>
  <1>1. held[t] \in Seq(Kinds) /\ held[t] # <<>> /\ held[t][Len(held[t])] = kind
    BY DEF TypeOK, Leave
  <1>2. Len(held[t]) \in 1..MaxNesting
    BY <1>1, Bounds DEF TypeOK
  <1>3. /\ held'[t] = SubSeq(held[t], 1, Len(held[t]) - 1)
        /\ \A u \in Threads : u # t => held'[u] = held[u]
    BY DEF TypeOK, Leave
  <1>4. /\ held'[t] \in Seq(Kinds)
        /\ Len(held'[t]) = Len(held[t]) - 1
        /\ DOMAIN held'[t] = 1..(Len(held[t]) - 1)
        /\ \A n \in 1..(Len(held[t]) - 1) : held'[t][n] = held[t][n]
        /\ DOMAIN held[t] = 1..Len(held[t])
    BY <1>1, <1>2, <1>3
  <1>5. held' \in [Threads -> Seq(Kinds)]
    BY <1>3, <1>4 DEF TypeOK, Leave
  <1>6. ASSUME NEW u \in Threads
        PROVE  Len(held'[u]) <= MaxNesting
    <2>1. CASE u = t
      BY <2>1, <1>2, <1>4, Bounds
    <2>2. CASE u # t
      BY <2>2, <1>3 DEF TypeOK
    <2> QED BY <2>1, <2>2
  <1>7. old \in Inside(kind)
    BY <1>1, <1>2, <1>4 DEF Inside
  <1>8. Inside(kind)' = Inside(kind) \ {old}
    <2>1. ASSUME NEW p \in Threads \X (1..MaxNesting)
          PROVE  p \in Inside(kind)' <=> p \in Inside(kind) /\ p # old
      <3>1. CASE p[1] # t
        BY <3>1, <1>3 DEF Inside
      <3>2. CASE p[1] = t
        BY <3>2, <1>2, <1>4 DEF Inside
      <3> QED BY <3>1, <3>2
    <2> QED
      BY <2>1 DEF Inside
  <1>9. ASSUME NEW other \in Kinds, other # kind
        PROVE  Inside(other)' = Inside(other)
    <2>1. ASSUME NEW p \in Threads \X (1..MaxNesting)
          PROVE  p \in Inside(other)' <=> p \in Inside(other)
      <3>1. CASE p[1] # t
        BY <3>1, <1>3 DEF Inside
      <3>2. CASE p[1] = t
        BY <3>2, <1>1, <1>2, <1>4, <1>9 DEF Inside
      <3> QED BY <3>1, <3>2
    <2> QED
      BY <2>1 DEF Inside
  <1>10. Cardinality(Inside(kind)') = Cardinality(Inside(kind)) - 1
    BY <1>7, <1>8, InsideFinite, FS_RemoveElement
  <1> QED
    BY <1>3, <1>4, <1>5, <1>6, <1>7, <1>9, <1>10

-----------------------------------------------------------------------------
(* The invariant.                                                          *)

\* No block at all is entered when neither counter says so.
LEMMA NobodyInside ==
  ASSUME TypeOK, Counted, readers = 0, writer = Nobody, NEW t \in Threads
  PROVE  held[t] = <<>>
  <1>1. Inside("read") = {} /\ Inside("write") = {}
    BY InsideFinite, FS_EmptySet DEF Counted
  <1>2. held[t] \in Seq(Kinds) /\ Len(held[t]) <= MaxNesting
    BY DEF TypeOK
  <1> SUFFICES ASSUME held[t] # <<>>
               PROVE  FALSE
    OBVIOUS
  <1>3. 1 \in DOMAIN held[t] /\ 1 \in 1..MaxNesting /\ held[t][1] \in Kinds
    BY <1>2, Bounds
  <1>4. <<t, 1>> \in Inside("read") \cup Inside("write")
    BY <1>3 DEF Inside, Kinds
  <1> QED
    BY <1>1, <1>4

\* Nobody is inside, waits or sleeps before the first call.
LEMMA InitInv == Init => LockInv
  <1> SUFFICES ASSUME Init PROVE LockInv
    OBVIOUS
  <1>1. \A t \in Threads : held[t] = <<>>
    BY DEF Init
  <1>2. Inside("read") = {} /\ Inside("write") = {}
    BY <1>1 DEF Inside
  <1>3. TypeOK
    BY Bounds DEF Init, TypeOK, Kinds
  <1>4. Counted
    BY <1>2, FS_EmptySet DEF Init, Counted
  <1> QED
    BY <1>1, <1>3, <1>4, ThreadsFinite
    DEF LockInv, OnlyWriter, OthersOut, Room, NoLostWakeup, Init

\* Asking for a block changes neither the counters nor what a sleeper waits for.
LEMMA CallInv ==
  ASSUME LockInv, NEW t \in Threads, NEW kind \in Kinds, Call(t, kind)
  PROVE  LockInv'
  <1> USE DEF LockInv
  <1>1. TypeOK'
    BY DEF TypeOK, Call, lock, Kinds
  <1>2. Counted' /\ OnlyWriter' /\ OthersOut'
    BY DEF Counted, OnlyWriter, OthersOut, Inside, Call, lock
  <1>3. Room'
    BY DEF Room, Call, TypeOK
  <1>4. NoLostWakeup'
    <2> SUFFICES ASSUME NEW u \in asleep'
                 PROVE  Blocked(u, wants[u])'
      BY DEF NoLostWakeup
    <2>1. u \in asleep /\ u # t /\ wants'[u] = wants[u]
      BY DEF Call, TypeOK
    <2> QED
      BY <2>1 DEF NoLostWakeup, Blocked, Call, lock
  <1> QED
    BY <1>1, <1>2, <1>3, <1>4

\* A thread goes to sleep only with something to wait for.
LEMMA SleepInv ==
  ASSUME LockInv, NEW t \in Threads, Sleep(t)
  PROVE  LockInv'
  <1> USE DEF LockInv
  <1>1. TypeOK'
    BY DEF TypeOK, Sleep, lock
  <1>2. Counted' /\ OnlyWriter' /\ OthersOut' /\ Room'
    BY DEF Counted, OnlyWriter, OthersOut, Room, Inside, Sleep, lock
  <1>3. NoLostWakeup'
    BY DEF NoLostWakeup, Blocked, Sleep, lock
  <1> QED
    BY <1>1, <1>2, <1>3

\* Entering to read: the gate is free, or the thread is its own writer; what the
\* sleepers wait for does not go away.
LEMMA EnterReadInv ==
  ASSUME LockInv, NEW t \in Threads, EnterRead(t)
  PROVE  LockInv'
  <1> USE DEF LockInv
  <1>a. Enter(t, "read") /\ readers' = readers + 1 /\ writer' = writer /\ depth' = depth
    BY DEF EnterRead
  <1>b. /\ held' \in [Threads -> Seq(Kinds)]
        /\ \A u \in Threads : Len(held'[u]) <= MaxNesting
        /\ Cardinality(Inside("read")') = Cardinality(Inside("read")) + 1
        /\ Inside("write")' = Inside("write")
    BY <1>a, EnterAdds DEF Kinds
  <1>c. writer \in {Nobody, t}
    BY <1>a DEF Enter, Blocked
  <1>d. /\ held'[t] = Append(held[t], "read") /\ \A u \in Threads : u # t => held'[u] = held[u]
        /\ asleep' = asleep /\ wants'[t] = "nothing" /\ t \notin asleep
        /\ \A u \in Threads : u # t => wants'[u] = wants[u]
    BY <1>a DEF Enter, TypeOK
  <1>1. TypeOK'
    BY <1>a, <1>b DEF TypeOK, Enter, Kinds
  <1>2. Counted'
    BY <1>a, <1>b DEF Counted
  <1>3. OnlyWriter'
    <2> SUFFICES ASSUME NEW u \in Threads, NEW n \in Nat, n \in DOMAIN held'[u],
                        held'[u][n] = "write"
                 PROVE  writer = u
      BY <1>a DEF OnlyWriter
    <2>1. CASE u # t
      BY <2>1, <1>d DEF OnlyWriter
    <2>2. CASE u = t
      <3>1. held[t] \in Seq(Kinds) /\ "read" # "write"
        BY DEF TypeOK
      <3>2. n \in DOMAIN held[t] /\ held[t][n] = "write"
        BY <2>2, <3>1, <1>d
      <3> QED
        BY <2>2, <3>2 DEF OnlyWriter
    <2> QED BY <2>1, <2>2
  <1>4. OthersOut'
    BY <1>a, <1>c, <1>d DEF OthersOut
  <1>5. Room'
    BY <1>d DEF Room
  <1>6. NoLostWakeup'
    <2> SUFFICES ASSUME NEW u \in asleep
                 PROVE  Blocked(u, wants[u])'
      BY <1>d DEF NoLostWakeup
    <2>1. u \in Threads /\ u # t /\ wants'[u] = wants[u]
      BY <1>d DEF TypeOK
    <2> QED
      BY <2>1, <1>a DEF NoLostWakeup, Blocked, TypeOK
  <1> QED
    BY <1>1, <1>2, <1>3, <1>4, <1>5, <1>6

\* Entering to write: nobody else is inside, and every sleeper now waits for the writer.
LEMMA EnterWriteInv ==
  ASSUME LockInv, NEW t \in Threads, EnterWrite(t)
  PROVE  LockInv'
  <1> USE DEF LockInv
  <1>a. Enter(t, "write") /\ writer' = t /\ depth' = depth + 1 /\ readers' = readers
    BY DEF EnterWrite
  <1>b. /\ held' \in [Threads -> Seq(Kinds)]
        /\ \A u \in Threads : Len(held'[u]) <= MaxNesting
        /\ Cardinality(Inside("write")') = Cardinality(Inside("write")) + 1
        /\ Inside("write")' # {}
        /\ Inside("read")' = Inside("read")
    BY <1>a, EnterAdds DEF Kinds
  <1>c. writer = t \/ (writer = Nobody /\ readers = 0)
    BY <1>a DEF Enter, Blocked, TypeOK
  <1>d. /\ held'[t] = Append(held[t], "write") /\ \A u \in Threads : u # t => held'[u] = held[u]
        /\ asleep' = asleep /\ wants'[t] = "nothing" /\ t \notin asleep
        /\ \A u \in Threads : u # t => wants'[u] = wants[u]
    BY <1>a DEF Enter, TypeOK
  <1>e. t # Nobody
    BY ThreadsFinite
  <1>f. \A u \in Threads : u # t => held[u] = <<>>
    <2>1. CASE writer = t
      BY <2>1, <1>e DEF OthersOut
    <2>2. CASE writer = Nobody /\ readers = 0
      BY <2>2, NobodyInside
    <2> QED BY <1>c, <2>1, <2>2
  <1>1. TypeOK'
    BY <1>a, <1>b DEF TypeOK, Enter, Kinds
  <1>2. Counted'
    BY <1>a, <1>b, <1>e DEF Counted
  <1>3. OnlyWriter'
    BY <1>a, <1>d, <1>f DEF OnlyWriter
  <1>4. OthersOut'
    BY <1>a, <1>d, <1>f DEF OthersOut
  <1>5. Room'
    BY <1>d DEF Room
  <1>6. NoLostWakeup'
    BY <1>a, <1>d, <1>e DEF NoLostWakeup, Blocked
  <1> QED
    BY <1>1, <1>2, <1>3, <1>4, <1>5, <1>6

\* Leaving a read: the last reader out wakes every sleeper.
LEMMA LeaveReadInv ==
  ASSUME LockInv, NEW t \in Threads, LeaveRead(t)
  PROVE  LockInv'
  <1> USE DEF LockInv
  <1>a. /\ Leave(t, "read") /\ readers' = readers - 1 /\ writer' = writer /\ depth' = depth
        /\ asleep' = IF readers' = 0 THEN {} ELSE asleep
    BY DEF LeaveRead, NotifyAll
  <1>b. /\ held' \in [Threads -> Seq(Kinds)]
        /\ \A u \in Threads : Len(held'[u]) <= MaxNesting
        /\ \A u \in Threads : u # t => held'[u] = held[u]
        /\ \A n \in Nat : n \in DOMAIN held'[t] => n \in DOMAIN held[t] /\ held'[t][n] = held[t][n]
        /\ <<t, Len(held[t])>> \in Inside("read")
        /\ Cardinality(Inside("read")') = Cardinality(Inside("read")) - 1
        /\ Inside("write")' = Inside("write")
    BY <1>a, LeaveRemoves DEF Kinds
  <1>c. readers' \in Nat
    BY <1>a, <1>b, InsideFinite, FS_CardinalityType, FS_EmptySet DEF Counted
  <1>d. wants' = wants /\ calls' = calls
    BY <1>a DEF Leave
  <1>1. TypeOK'
    BY <1>a, <1>b, <1>c, <1>d DEF TypeOK
  <1>2. Counted'
    BY <1>a, <1>b DEF Counted
  <1>3. OnlyWriter'
    BY <1>a, <1>b DEF OnlyWriter
  <1>4. OthersOut'
    <2>1. writer # Nobody => writer = t
      BY <1>a DEF Leave, OthersOut
    <2> QED
      BY <2>1, <1>a, <1>b DEF OthersOut
  <1>5. Room'
    <2>1. wants[t] = "nothing"
      BY <1>a DEF Leave
    <2> QED
      BY <2>1, <1>b, <1>d DEF Room
  <1>6. NoLostWakeup'
    BY <1>a, <1>c, <1>d DEF NoLostWakeup, Blocked, TypeOK
  <1> QED
    BY <1>1, <1>2, <1>3, <1>4, <1>5, <1>6

\* Leaving a write: the outermost block frees the gate and wakes every sleeper.
LEMMA LeaveWriteInv ==
  ASSUME LockInv, NEW t \in Threads, LeaveWrite(t)
  PROVE  LockInv'
  <1> USE DEF LockInv
  <1>a. /\ Leave(t, "write") /\ depth' = depth - 1 /\ readers' = readers
        /\ writer' = IF depth' = 0 THEN Nobody ELSE writer
        /\ asleep' = IF depth' = 0 THEN {} ELSE asleep
    BY DEF LeaveWrite, NotifyAll
  <1>b. /\ held' \in [Threads -> Seq(Kinds)]
        /\ \A u \in Threads : Len(held'[u]) <= MaxNesting
        /\ \A u \in Threads : u # t => held'[u] = held[u]
        /\ \A n \in Nat : n \in DOMAIN held'[t] => n \in DOMAIN held[t] /\ held'[t][n] = held[t][n]
        /\ <<t, Len(held[t])>> \in Inside("write")
        /\ Cardinality(Inside("write")') = Cardinality(Inside("write")) - 1
        /\ Inside("read")' = Inside("read")
    BY <1>a, LeaveRemoves DEF Kinds
  <1>c. writer = t /\ t # Nobody
    <2>1. held[t] \in Seq(Kinds) /\ held[t] # <<>> /\ held[t][Len(held[t])] = "write"
      BY <1>a DEF Leave, TypeOK
    <2>2. Len(held[t]) \in Nat /\ Len(held[t]) \in DOMAIN held[t]
      BY <2>1
    <2> QED
      BY <2>1, <2>2, ThreadsFinite DEF OnlyWriter
  <1>d. /\ depth' \in Nat /\ depth' = Cardinality(Inside("write")')
        /\ depth' = 0 <=> Inside("write")' = {}
    <2>1. IsFiniteSet(Inside("write")) /\ IsFiniteSet(Inside("write")')
      BY <1>b, InsideFinite, InsideFiniteNext
    <2>2. depth' = Cardinality(Inside("write")')
      BY <1>a, <1>b DEF Counted
    <2> QED
      BY <2>1, <2>2, FS_CardinalityType, FS_EmptySet
  <1>e. wants' = wants /\ calls' = calls
    BY <1>a DEF Leave
  <1>1. TypeOK'
    BY <1>a, <1>b, <1>d, <1>e DEF TypeOK
  <1>2. Counted'
    BY <1>a, <1>b, <1>c, <1>d DEF Counted
  <1>3. OnlyWriter'
    <2>1. CASE depth' = 0
      <3>1. \A u \in Threads, n \in Nat : n \in DOMAIN held'[u] => held'[u][n] # "write"
        <4> SUFFICES ASSUME NEW u \in Threads, NEW n \in Nat, n \in DOMAIN held'[u],
                            held'[u][n] = "write"
                     PROVE  FALSE
          OBVIOUS
        <4>1. held'[u] \in Seq(Kinds) /\ Len(held'[u]) <= MaxNesting
          BY <1>b
        <4>2. n \in 1..MaxNesting
          BY <4>1, Bounds
        <4>3. <<u, n>> \in Inside("write")'
          BY <4>2 DEF Inside
        <4> QED
          BY <2>1, <1>d, <4>3
      <3> QED BY <3>1 DEF OnlyWriter
    <2>2. CASE depth' # 0
      BY <2>2, <1>a, <1>b DEF OnlyWriter
    <2> QED BY <2>1, <2>2
  <1>4. OthersOut'
    BY <1>a, <1>b, <1>c DEF OthersOut
  <1>5. Room'
    <2>1. wants[t] = "nothing"
      BY <1>a DEF Leave
    <2> QED
      BY <2>1, <1>b, <1>e DEF Room
  <1>6. NoLostWakeup'
    BY <1>a, <1>e DEF NoLostWakeup, Blocked
  <1> QED
    BY <1>1, <1>2, <1>3, <1>4, <1>5, <1>6

\* A step that changes nothing of the gate keeps the invariant.
LEMMA StutterInv == LockInv /\ UNCHANGED vars => LockInv'
  BY DEF LockInv, TypeOK, Counted, OnlyWriter, OthersOut, Room, NoLostWakeup, Blocked, Inside,
         vars, lock

\* Every step of every thread keeps the invariant.
LEMMA StepInv == LockInv /\ [Next]_vars => LockInv'
  <1> SUFFICES ASSUME LockInv, [Next]_vars PROVE LockInv'
    OBVIOUS
  <1>1. ASSUME NEW t \in Threads, Thread(t)
        PROVE  LockInv'
    BY <1>1, CallInv, SleepInv, EnterReadInv, EnterWriteInv, LeaveReadInv, LeaveWriteInv
    DEF Thread
  <1> QED
    BY <1>1, StutterInv DEF Next

\* The invariant says that a writer is alone.
LEMMA InvExclusive == LockInv => Exclusive
  <1> SUFFICES ASSUME LockInv, NEW t \in Threads, NEW u \in Threads, t # u,
                      NEW n \in DOMAIN held[t], held[t][n] = "write"
               PROVE  held[u] = <<>>
    BY DEF Exclusive
  <1>1. held[t] \in Seq(Kinds)
    BY DEF LockInv, TypeOK
  <1>2. n \in Nat
    BY <1>1
  <1>3. writer = t /\ t # Nobody
    BY <1>2, ThreadsFinite DEF LockInv, OnlyWriter
  <1> QED
    BY <1>3 DEF LockInv, OthersOut

\* The gate's invariant holds in every reachable state.
LEMMA LockInvariant == Spec => []LockInv
  BY InitInv, StepInv, PTL DEF Spec

\* Whatever the threads do, in any number and at any nesting: nobody is inside
\* beside a writer, and _readers and _depth count the blocks that are entered.
THEOREM GateHolds == Spec => []GateSafe
  <1>1. LockInv => GateSafe
    BY InvExclusive DEF LockInv, GateSafe
  <1> QED
    BY <1>1, LockInvariant, PTL

\* No thread sleeps on the condition with nothing left to wait for: the
\* notify_all of the block that leaves is always enough.
THEOREM WakeupsArrive == Spec => []NoLostWakeup
  <1>1. LockInv => NoLostWakeup
    BY DEF LockInv
  <1> QED
    BY <1>1, LockInvariant, PTL

=============================================================================
