-------------------------------- MODULE RWLock --------------------------------
(***************************************************************************)
(* The reader/writer gate of memory.py and branchable_memory.py (_RWLock): *)
(* a condition variable, a count of readers, and the thread that writes    *)
(* with the depth of its nested writes.  Each block under the condition's  *)
(* lock is one step.  A thread that waits is asleep until a notify_all;    *)
(* then it looks again.  Calls nest: a writer may read and write again.    *)
(***************************************************************************)
EXTENDS Naturals, Sequences, FiniteSets

CONSTANTS Threads, Nobody,
          MaxNesting,     \* bound on the blocks a thread is inside of
          MaxCalls        \* bound on the calls of a thread

ASSUME ThreadsFinite == IsFiniteSet(Threads) /\ Nobody \notin Threads
ASSUME Bounds == MaxNesting \in Nat /\ MaxCalls \in Nat

VARIABLES readers,        \* _readers
          writer,         \* _writer
          depth,          \* _depth
          held,           \* the blocks each thread is inside of, innermost last
          wants,          \* what it waits for
          asleep,         \* who is in the wait set of the condition
          calls           \* how many blocks each thread has asked for

lock == <<readers, writer, depth>>
vars == <<lock, held, wants, asleep, calls>>

Kinds == {"read", "write"}

Init ==
  /\ readers = 0
  /\ writer = Nobody
  /\ depth = 0
  /\ held = [t \in Threads |-> <<>>]
  /\ wants = [t \in Threads |-> "nothing"]
  /\ asleep = {}
  /\ calls = [t \in Threads |-> 0]

\* Mutant of Blocked: a writer does not wait for readers.
BlockedByWriter(t, kind) == writer \notin {Nobody, t}

\* What a thread's while loop waits for to become false.
Blocked(t, kind) ==
  \/ writer \notin {Nobody, t}
  \/ kind = "write" /\ writer = Nobody /\ readers > 0

\* No caller asks to write from inside a read only.
MayNest(t, kind) == kind = "read" \/ held[t] = <<>> \/ writer = t

Call(t, kind) ==
  /\ wants[t] = "nothing"
  /\ Len(held[t]) < MaxNesting /\ calls[t] < MaxCalls
  /\ MayNest(t, kind)
  /\ wants' = [wants EXCEPT ![t] = kind]
  /\ calls' = [calls EXCEPT ![t] = @ + 1]
  /\ UNCHANGED <<lock, held, asleep>>

Sleep(t) ==
  /\ wants[t] # "nothing" /\ t \notin asleep
  /\ Blocked(t, wants[t])
  /\ asleep' = asleep \cup {t}
  /\ UNCHANGED <<lock, held, wants, calls>>

Enter(t, kind) ==
  /\ wants[t] = kind /\ t \notin asleep
  /\ ~Blocked(t, kind)
  /\ wants' = [wants EXCEPT ![t] = "nothing"]
  /\ held' = [held EXCEPT ![t] = Append(@, kind)]
  /\ UNCHANGED <<asleep, calls>>

\* Mutant of EnterRead: the writer's own reads are not counted.
EnterReadUncounted(t) ==
  /\ Enter(t, "read")
  /\ readers' = IF writer = t THEN readers ELSE readers + 1
  /\ UNCHANGED <<writer, depth>>

EnterRead(t) ==
  /\ Enter(t, "read")
  /\ readers' = readers + 1
  /\ UNCHANGED <<writer, depth>>

EnterWrite(t) ==
  /\ Enter(t, "write")
  /\ writer' = t
  /\ depth' = depth + 1
  /\ UNCHANGED readers

NotifyAll(condition) == asleep' = IF condition THEN {} ELSE asleep

Leave(t, kind) ==
  /\ wants[t] = "nothing" /\ held[t] # <<>>
  /\ held[t][Len(held[t])] = kind
  /\ held' = [held EXCEPT ![t] = SubSeq(@, 1, Len(@) - 1)]
  /\ UNCHANGED <<wants, calls>>

\* Mutant of LeaveRead: only a reader that was alone notifies.
LeaveReadQuietly(t) ==
  /\ Leave(t, "read")
  /\ readers' = readers - 1
  /\ NotifyAll(readers' = 0 /\ writer = t)
  /\ UNCHANGED <<writer, depth>>

LeaveRead(t) ==
  /\ Leave(t, "read")
  /\ readers' = readers - 1
  /\ NotifyAll(readers' = 0)
  /\ UNCHANGED <<writer, depth>>

\* Mutant of LeaveWrite: the innermost block releases the gate.
LeaveWriteAtOnce(t) ==
  /\ Leave(t, "write")
  /\ depth' = depth - 1
  /\ writer' = Nobody
  /\ NotifyAll(TRUE)
  /\ UNCHANGED readers

LeaveWrite(t) ==
  /\ Leave(t, "write")
  /\ depth' = depth - 1
  /\ writer' = IF depth' = 0 THEN Nobody ELSE writer
  /\ NotifyAll(depth' = 0)
  /\ UNCHANGED readers

Thread(t) ==
  \/ \E kind \in Kinds : Call(t, kind)
  \/ Sleep(t) \/ EnterRead(t) \/ EnterWrite(t) \/ LeaveRead(t) \/ LeaveWrite(t)

Next == \E t \in Threads : Thread(t)

Spec == Init /\ [][Next]_vars

\* A thread leaves the block it is in, and one that was notified gets the
\* condition's lock back.
Progress(t) == Sleep(t) \/ EnterRead(t) \/ EnterWrite(t) \/ LeaveRead(t) \/ LeaveWrite(t)
FairSpec == Spec /\ \A t \in Threads : WF_vars(Progress(t))

-----------------------------------------------------------------------------
(* Properties.                                                             *)

\* The blocks of a kind that are entered, as pairs of thread and nesting level.
Inside(kind) == {p \in Threads \X (1..MaxNesting) :
                   p[2] \in DOMAIN held[p[1]] /\ held[p[1]][p[2]] = kind}

TypeOK ==
  /\ readers \in Nat /\ depth \in Nat
  /\ writer \in Threads \cup {Nobody}
  /\ held \in [Threads -> Seq(Kinds)]
  /\ \A t \in Threads : Len(held[t]) <= MaxNesting
  /\ wants \in [Threads -> Kinds \cup {"nothing"}]
  /\ asleep \subseteq {t \in Threads : wants[t] # "nothing"}
  /\ calls \in [Threads -> Nat]

\* Nobody is inside anything while another thread writes ("Serializes writers
\* against everyone").
Exclusive ==
  \A t, u \in Threads :
    t # u /\ (\E n \in DOMAIN held[t] : held[t][n] = "write") => held[u] = <<>>

\* The counters say what is so: _readers counts the read blocks, the writer is
\* the thread with a write block, _depth counts its write blocks.
Counted ==
  /\ readers = Cardinality(Inside("read"))
  /\ depth = Cardinality(Inside("write"))
  /\ (writer = Nobody) <=> (Inside("write") = {})

\* No wake-up is lost: whoever sleeps still has something to wait for, so the
\* notify_all that ends it is still to come.
NoLostWakeup == \A t \in asleep : Blocked(t, wants[t])

\* Every thread that waits gets in, if those inside leave and calls are finite.
GetsIn == \A t \in Threads : wants[t] # "nothing" ~> wants[t] = "nothing"


\* The gate keeps its promise and its books: a writer is alone, and the counters
\* say who is inside (_RWLock.read and write, at every nesting).
GateSafe == TypeOK /\ Exclusive /\ Counted
=============================================================================
