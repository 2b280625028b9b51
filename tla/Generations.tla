----------------------------- MODULE Generations -----------------------------
(***************************************************************************)
(* The checkpoints of memory.py (labels engine) and branchable_memory.py   *)
(* (delta engine): every save writes files of a new generation, publishes  *)
(* them by replacing the manifest, and unlinks the generation before.      *)
(* Every mutator saves before it returns.  What a memory holds is the      *)
(* number of the mutation that left it.  A file appears whole (written to  *)
(* a temporary and renamed); the process may die between any two steps,    *)
(* and any step up to the manifest may fail.                               *)
(***************************************************************************)
EXTENDS Naturals, Sequences, FiniteSets

CONSTANTS Stores,        \* the checkpoint paths in use
          ManifestOf,    \* the path without suffix that names a store's manifests
          Engines,       \* the engines a process may start a store with
          Deltas,        \* how many branches a save of the delta engine may find
          Renewed,       \* a process may start a store afresh over old files
          MaxSaves       \* bound on the mutations, each of which begins a generation

VARIABLES files,         \* what is in the directory
          manifests,     \* for each base and engine: the manifest, or None
          memories,        \* for each store: the memory of its process, or None
          saving,        \* for each store: the save under way, or None
          answered,      \* the last mutation of each store that returned
          generations    \* how many were begun: uuid4 never repeats

vars == <<files, manifests, memories, saving, answered, generations>>

None == [gen |-> 0]

\* The files of one generation, in the order save writes them.
Parts(engine, deltas) ==
  IF engine = "delta" THEN <<<<"native", 0>>>> \o [n \in 1..deltas |-> <<"delta", n>>] \o <<<<"meta", 0>>>>
  ELSE <<<<"native", 0>>, <<"meta", 0>>>>

File(gen, part, value) == [gen |-> gen, part |-> part, value |-> value]
NamesOf(fs) == {[gen |-> f.gen, part |-> f.part] : f \in fs}
Manifest(s, engine) == manifests[<<ManifestOf[s], engine>>]

Init ==
  /\ files = {}
  /\ manifests = [m \in {ManifestOf[s] : s \in Stores} \X {"delta", "labels"} |-> None]
  /\ memories = [s \in Stores |-> None]
  /\ saving = [s \in Stores |-> None]
  /\ answered = [s \in Stores |-> 0]
  /\ generations = 0

Running(s) == memories[s] # None
Idle(s) == Running(s) /\ saving[s] = None

\* A new memory object, with nothing in it.
Start(s, engine) ==
  /\ ~Running(s)
  /\ Renewed \/ \A e \in {"delta", "labels"} : Manifest(s, e) = None
  /\ memories' = [memories EXCEPT ![s] = [engine |-> engine, value |-> 0]]
  /\ UNCHANGED <<files, manifests, saving, answered, generations>>

\* The manifest load() reads: the delta engine's if there is one.
Selected(s) == IF Manifest(s, "delta") # None THEN "delta" ELSE "labels"

Listed(manifest) == {f \in files : [gen |-> f.gen, part |-> f.part] \in manifest.names}

\* Every file the manifest lists is there with the contents it was hashed
\* with, and the metadata is of the manifest's generation.
Verified(manifest) ==
  /\ manifest # None
  /\ manifest.names = NamesOf(Listed(manifest))
  /\ \A f \in Listed(manifest) : f.gen = manifest.gen /\ f.value = manifest.value

Load(s) ==
  /\ ~Running(s)
  /\ Verified(Manifest(s, Selected(s)))
  /\ memories' = [memories EXCEPT ![s] =
       [engine |-> Selected(s), value |-> Manifest(s, Selected(s)).value]]
  /\ UNCHANGED <<files, manifests, saving, answered, generations>>

\* A mutator changes the memory and goes on to save it.  The files the
\* manifest names now are remembered as the ones to remove.
Begin(s, deltas) ==
  LET m == memories[s]
      old == Manifest(s, m.engine)
  IN /\ Idle(s) /\ generations < MaxSaves
     /\ m.engine = "labels" => deltas = 0
     /\ memories' = [memories EXCEPT ![s].value = generations + 1]
     /\ generations' = generations + 1
     /\ saving' = [saving EXCEPT ![s] =
          [gen |-> generations', todo |-> Parts(m.engine, deltas), written |-> {},
           previous |-> IF old = None THEN {} ELSE old.names, published |-> FALSE]]
     /\ UNCHANGED <<files, manifests, answered>>

\* Mutant of WritePart: every save writes the same names.
WritePartInPlace(s) ==
  /\ saving[s] # None /\ saving[s].todo # <<>>
  /\ LET f == File(1, Head(saving[s].todo), memories[s].value)
     IN /\ files' = {g \in files : g.part # f.part} \cup {f}
        /\ saving' = [saving EXCEPT ![s].todo = Tail(@), ![s].written = @ \cup {f}]
  /\ UNCHANGED <<manifests, memories, answered, generations>>

WritePart(s) ==
  /\ saving[s] # None /\ saving[s].todo # <<>>
  /\ LET f == File(saving[s].gen, Head(saving[s].todo), memories[s].value)
     IN /\ files' = files \cup {f}
        /\ saving' = [saving EXCEPT ![s].todo = Tail(@), ![s].written = @ \cup {f}]
  /\ UNCHANGED <<manifests, memories, answered, generations>>

Ready(s) == saving[s] # None /\ saving[s].todo = <<>> /\ ~saving[s].published

\* The commit point.
Publish(s) ==
  /\ Ready(s)
  /\ manifests' = [manifests EXCEPT ![<<ManifestOf[s], memories[s].engine>>] =
       [gen |-> saving[s].gen, names |-> NamesOf(saving[s].written), value |-> memories[s].value]]
  /\ saving' = [saving EXCEPT ![s].published = TRUE]
  /\ UNCHANGED <<files, memories, answered, generations>>

Removable(s) == saving[s] # None /\ saving[s].published

\* One of the previous files is unlinked, or the unlink fails and is passed over.
RemoveOne(s) ==
  /\ Removable(s)
  /\ \E n \in saving[s].previous :
       /\ saving' = [saving EXCEPT ![s].previous = @ \ {n}]
       /\ files' \in {files, {f \in files : [gen |-> f.gen, part |-> f.part] # n}}
  /\ UNCHANGED <<manifests, memories, answered, generations>>

Return(s) ==
  /\ saving[s] # None /\ saving[s].published /\ saving[s].previous = {}
  /\ saving' = [saving EXCEPT ![s] = None]
  /\ answered' = [answered EXCEPT ![s] = memories[s].value]
  /\ UNCHANGED <<files, manifests, memories, generations>>

\* Writing a file or the manifest raises: the mutator raises, but the memory
\* keeps what it did.
Raise(s) ==
  /\ saving[s] # None /\ ~saving[s].published
  /\ saving' = [saving EXCEPT ![s] = None]
  /\ UNCHANGED <<files, manifests, memories, answered, generations>>

Crash(s) ==
  /\ Running(s)
  /\ memories' = [memories EXCEPT ![s] = None]
  /\ saving' = [saving EXCEPT ![s] = None]
  /\ UNCHANGED <<files, manifests, answered, generations>>

Next ==
  \E s \in Stores :
    \/ \E e \in Engines : Start(s, e)
    \/ \E d \in Deltas : Begin(s, d)
    \/ Load(s) \/ WritePart(s) \/ Publish(s) \/ RemoveOne(s) \/ Return(s)
    \/ Raise(s) \/ Crash(s)

Spec == Init /\ [][Next]_vars

-----------------------------------------------------------------------------
(* Properties.                                                             *)

TypeOK ==
  /\ \A f \in files : f.gen \in 1..generations /\ f.value \in 1..generations
  /\ \A s \in Stores : Running(s) =>
       memories[s].engine \in {"delta", "labels"} /\ memories[s].value \in 0..generations
  /\ \A s \in Stores : saving[s] # None => Running(s) /\ saving[s].gen \in 1..generations
  /\ \A m \in DOMAIN manifests : manifests[m] # None => manifests[m].value \in 1..generations
  /\ answered \in [Stores -> 0..generations]

\* Whenever the process dies, what is on disk loads: a complete generation
\* with every mutation that returned ("a crash can restore either the previous
\* complete generation or this complete one, never a mixture").
Recovers ==
  \A s \in Stores :
    answered[s] > 0 =>
      LET m == Manifest(s, Selected(s))
      IN Verified(m) /\ m.value >= answered[s]

\* Every file on disk belongs to the generation selected or to a save under way.
NoOrphans ==
  \A f \in files :
    \/ \E m \in DOMAIN manifests : manifests[m] # None /\ f \in Listed(manifests[m])
    \/ \E s \in Stores : saving[s] # None /\ (f \in saving[s].written
                                              \/ [gen |-> f.gen, part |-> f.part] \in saving[s].previous)

=============================================================================
