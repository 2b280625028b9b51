----------------------------- MODULE FilesProof -----------------------------
(***************************************************************************)
(* What the Python layers leave on disk can be opened again, whoever died  *)
(* before: first the two files of each collection, then the generations of *)
(* a memory.                                                               *)
(***************************************************************************)
EXTENDS MCFiles, TLAPS

\* No two names share files.
Apart == \A m, n \in Names : FileOf[m] = FileOf[n] => m = n

\* The steps before which the process may die, and those that may fail.
Breaks == CrashBefore \cup FailAt

Doing(n, steps) == task.step \in steps /\ task.name = n
HasVectors(n) == vectors[FileOf[n]] # Absent
HasSidecar(n) == sidecars[FileOf[n]] # Absent

ClientTypes ==
  /\ stored \subseteq Names /\ registry \subseteq Names /\ todo \subseteq registry
  /\ vectors \in [Files -> 0..Absent] /\ sidecars \in [Files -> 0..Absent]
  /\ open \in [Names -> [vectors : 0..Absent, sidecar : 0..Absent] \cup {Closed}]
  /\ task = NoTask \/ task \in [step : Steps \ {"idle"}, name : Names]
  /\ acked \in [Names -> 0..Absent]

\* Where the files of a name may be, and the step of the call on it.
RegisteredAt(n) ==
  /\ n \notin registry \/ n \notin stored => ~HasVectors(n) /\ ~HasSidecar(n)
  /\ IsOpen(n) => n \in registry
  /\ open[n] # NotOpen /\ n \in registry => n \in stored
  /\ Doing(n, {"register"}) => n \in registry /\ ~HasVectors(n) /\ ~HasSidecar(n)
  /\ Doing(n, {"create_vectors", "create_sidecar", "vectors", "sidecar"}) =>
       n \in registry /\ n \in stored
  /\ Doing(n, {"create_vectors", "create_sidecar"}) => ~HasSidecar(n)
  /\ Doing(n, {"create_vectors"}) => ~HasVectors(n)
  /\ Doing(n, {"create_sidecar"}) => vectors[FileOf[n]] = 0
  /\ Doing(n, {"vectors", "sidecar"}) =>
       IsOpen(n) /\ open[n].vectors = open[n].sidecar /\ open[n].vectors # Absent
  /\ Doing(n, {"sidecar"}) => vectors[FileOf[n]] = open[n].vectors
  /\ Doing(n, {"register", "create_vectors", "create_sidecar", "unlink_vectors",
               "unlink_sidecar", "unregister"}) => ~IsOpen(n)
  /\ Doing(n, {"unlink_vectors", "unlink_sidecar"}) => n \in registry /\ n \in stored /\ n \notin todo
  /\ Doing(n, {"unlink_sidecar"}) => ~HasVectors(n)
  /\ Doing(n, {"unregister"}) => n \notin registry

Registered == \A n \in Names : RegisteredAt(n)

\* Every file is of some name.
Named ==
  \A f \in Files : vectors[f] # Absent \/ sidecars[f] # Absent => \E n \in Names : FileOf[n] = f

RegistryInv == ClientTypes /\ Registered /\ Named

\* The halves on disk are of one mutation, but while the second is being replaced.
Matched ==
  \A n \in Names :
    /\ open[n].vectors = open[n].sidecar
    /\ HasVectors(n) /\ HasSidecar(n) /\ ~Doing(n, {"sidecar"}) =>
         vectors[FileOf[n]] = sidecars[FileOf[n]]

\* What was acknowledged is on disk, until the files are about to go.
Kept ==
  \A n \in Names : acked[n] # Absent =>
    /\ n \in stored
    /\ \/ Doing(n, {"unlink_sidecar", "unregister"})
       \/ n \in registry /\ HasVectors(n) /\ HasSidecar(n) /\ vectors[FileOf[n]] >= acked[n]
    /\ IsOpen(n) => open[n].vectors >= acked[n]

\* The registry on disk names the collections that have files.
Settled ==
  \A n \in Names :
    /\ n \in stored =>
         \/ HasVectors(n) /\ HasSidecar(n)
         \/ Doing(n, {"create_vectors", "create_sidecar", "unlink_sidecar", "unregister"})
    /\ n \in registry /\ n \notin stored => Doing(n, {"register"})
    /\ n \in stored /\ n \notin registry => Doing(n, {"unregister"})

-----------------------------------------------------------------------------
(* The registry and the files.                                             *)

LEMMA TaskFacts ==
  ASSUME ClientTypes
  PROVE  /\ task.step \in Steps
         /\ task.step # "idle" => task.name \in Names /\ task \in [step : Steps \ {"idle"}, name : Names]
         /\ task.step = "idle" <=> task = NoTask
  <1>1. CASE task = NoTask
    <2>1. NoTask.step = "idle"
      BY DEF NoTask
    <2> QED
      BY <1>1, <2>1 DEF Steps
  <1>2. CASE task \in [step : Steps \ {"idle"}, name : Names]
    <2>1. task.step \in Steps /\ task.step # "idle" /\ task.name \in Names
      BY <1>2
    <2>2. NoTask.step = "idle"
      BY DEF NoTask
    <2> QED
      BY <1>2, <2>1, <2>2
  <1> QED
    BY <1>1, <1>2 DEF ClientTypes

LEMMA RevisionFacts == Absent \in Nat /\ 0 # Absent /\ MaxRevision < Absent /\ MaxRevision \in Nat
  BY FilesAssumption DEF Absent

LEMMA NotOpenFacts ==
  /\ NotOpen \in [vectors : 0..Absent, sidecar : 0..Absent]
  /\ NotOpen.vectors = Absent /\ NotOpen.sidecar = Absent
  BY RevisionFacts DEF NotOpen, Contents

\* A closed collection has no contents that could be saved.
LEMMA ClosedFacts ==
  /\ Closed.vectors = Absent + 1 /\ Closed.sidecar = Absent + 1
  /\ Closed \notin [vectors : 0..Absent, sidecar : 0..Absent] /\ Closed # NotOpen
  <1>1. Closed.vectors = Absent + 1 /\ Closed.sidecar = Absent + 1
    BY DEF Closed, Contents
  <1>2. Absent + 1 \notin 0..Absent
    BY RevisionFacts
  <1> QED
    BY <1>1, <1>2, NotOpenFacts

LEMMA OpenFacts ==
  ASSUME ClientTypes, NEW n \in Names, IsOpen(n)
  PROVE  open[n] \in [vectors : 0..Absent, sidecar : 0..Absent]
  BY DEF ClientTypes, IsOpen

LEMMA InitRegistry == Init => RegistryInv
  <1> SUFFICES ASSUME Init PROVE RegistryInv
    OBVIOUS
  <1>1. /\ stored = {} /\ registry = {} /\ todo = {} /\ task = NoTask /\ task.step = "idle"
        /\ vectors = [f \in Files |-> Absent] /\ sidecars = [f \in Files |-> Absent]
        /\ open = [n \in Names |-> NotOpen] /\ acked = [n \in Names |-> Absent]
    BY DEF Init, NoTask
  <1>2. ClientTypes
    BY <1>1, RevisionFacts DEF ClientTypes, NotOpen, Contents
  <1>3. Registered
    BY <1>1, FilesAssumption DEF Registered, RegisteredAt, HasVectors, HasSidecar, IsOpen, Doing
  <1>4. Named
    BY <1>1 DEF Named
  <1> QED
    BY <1>2, <1>3, <1>4 DEF RegistryInv

\* A call goes on to its next file operation, or it is over.
LEMMA Proceeds ==
  ASSUME NEW step, NEW n, Proceed(step, n), NEW m, NEW S
  PROVE  /\ task'.step = step /\ task'.name = n
         /\ Doing(m, S)' <=> m = n /\ step \in S
  BY DEF Proceed, Doing

LEMMA NoneDoing ==
  ASSUME NEW m, NEW S, "idle" \notin S
  PROVE  /\ task = NoTask => ~Doing(m, S)
         /\ task' = NoTask => ~Doing(m, S)'
  BY DEF NoTask, Doing

\* A name that a step has nothing to do with.
LEMMA OtherName ==
  ASSUME NEW m \in Names, RegisteredAt(m),
         m \in registry' <=> m \in registry, m \in stored' <=> m \in stored,
         open'[m] = open[m], m \in todo' => m \in todo,
         vectors'[FileOf[m]] = vectors[FileOf[m]], sidecars'[FileOf[m]] = sidecars[FileOf[m]],
         task' = task \/ task'.step = "idle" \/ task'.name # m
  PROVE  RegisteredAt(m)'
  BY DEF RegisteredAt, Doing, HasVectors, HasSidecar, IsOpen

LEMMA SavedFacts ==
  ASSUME ClientTypes, NEW n \in Names
  PROVE  /\ Saved(n) \in [vectors : 0..Absent, sidecar : 0..Absent]
         /\ ~IsOpen(n) => Saved(n).vectors = 0 /\ Saved(n).sidecar = 0
         /\ IsOpen(n) => Saved(n) = open[n]
  BY RevisionFacts, OpenFacts DEF Saved, Contents

LEMMA CreateRegistry ==
  ASSUME RegistryInv, NEW n \in Names, Create(n)
  PROVE  RegistryInv'
  <1> USE DEF RegistryInv
  <1>1. /\ registry' = registry \cup {n} /\ task' = [step |-> "register", name |-> n]
        /\ task = NoTask /\ todo = {} /\ n \notin registry /\ ~IsOpen(n) /\ open[n] = NotOpen
        /\ UNCHANGED <<stored, vectors, sidecars, open, todo, acked>>
    BY DEF Create, Proceed, Free, disk, IsOpen
  <1>2. ClientTypes'
    BY <1>1 DEF ClientTypes, Steps
  <1>3. ASSUME NEW m \in Names PROVE RegisteredAt(m)'
    BY <1>1, <1>3 DEF Registered, RegisteredAt, Doing, HasVectors, HasSidecar, IsOpen, NoTask
  <1> QED
    BY <1>1, <1>2, <1>3 DEF Registered, Named

LEMMA LoadRegistry ==
  ASSUME RegistryInv, NEW n \in Names, Load(n)
  PROVE  RegistryInv'
  <1> USE DEF RegistryInv
  <1>1. /\ open' = [open EXCEPT ![n] = OnDisk(n)] /\ task = NoTask /\ n \in registry
        /\ HasVectors(n) /\ HasSidecar(n)
        /\ UNCHANGED <<stored, vectors, sidecars, registry, task, todo, acked>>
    BY DEF Load, Free, disk, Loadable, HasVectors, HasSidecar
  <1>2. OnDisk(n) \in [vectors : 0..Absent, sidecar : 0..Absent]
    BY FilesAssumption DEF OnDisk, Contents, ClientTypes
  <1>3. ClientTypes'
    BY <1>1, <1>2 DEF ClientTypes
  <1>4. ASSUME NEW m \in Names PROVE RegisteredAt(m)'
    BY <1>1, <1>4 DEF Registered, RegisteredAt, Doing, HasVectors, HasSidecar, IsOpen, NoTask, ClientTypes
  <1> QED
    BY <1>1, <1>3, <1>4 DEF Registered, Named

LEMMA MutateRegistry ==
  ASSUME RegistryInv, NEW n \in Names, Mutate(n)
  PROVE  RegistryInv'
  <1> USE DEF RegistryInv
  <1> DEFINE c == Contents(open[n].vectors + 1, open[n].vectors + 1)
  <1>1. /\ open' = [open EXCEPT ![n] = c] /\ task = NoTask /\ IsOpen(n)
        /\ open[n].vectors < MaxRevision
        /\ task' = [step |-> "vectors", name |-> n]
        /\ UNCHANGED <<stored, vectors, sidecars, registry, todo, acked>>
    BY DEF Mutate, Free, disk, Proceed
  <1>2. /\ c \in [vectors : 0..Absent, sidecar : 0..Absent] /\ c # NotOpen /\ c # Closed
        /\ c.vectors # Absent /\ c.vectors = c.sidecar
    <2>1. open[n].vectors + 1 \in 0..Absent /\ open[n].vectors + 1 # Absent
      BY <1>1, RevisionFacts, OpenFacts DEF Absent
    <2> QED
      BY <2>1, NotOpenFacts, ClosedFacts DEF Contents
  <1> HIDE DEF c
  <1>3. ClientTypes'
    BY <1>1, <1>2 DEF ClientTypes, Steps
  <1>4. ASSUME NEW m \in Names PROVE RegisteredAt(m)'
    BY <1>1, <1>2, <1>4 DEF Registered, RegisteredAt, Doing, HasVectors, HasSidecar, IsOpen, NoTask, ClientTypes
  <1> QED
    BY <1>1, <1>3, <1>4 DEF Registered, Named

LEMMA BeginDeleteRegistry ==
  ASSUME RegistryInv, NEW n \in Names, DeleteCollection(n) \/ ResetNext(n)
  PROVE  RegistryInv'
  <1> USE DEF RegistryInv
  <1> DEFINE c == IF open[n] = NotOpen THEN Closed ELSE NotOpen
  <1>1. /\ open' = [open EXCEPT ![n] = c] /\ task = NoTask
        /\ n \in registry /\ (open[n] # NotOpen \/ HasVectors(n))
        /\ task' = [step |-> "unlink_vectors", name |-> n] /\ todo' \subseteq todo /\ n \notin todo'
        /\ UNCHANGED <<stored, vectors, sidecars, registry, acked>>
    BY DEF DeleteCollection, ResetNext, BeginDelete, Free, disk, Proceed, Loadable, HasVectors
  <1>2. c \in {NotOpen, Closed}
    OBVIOUS
  <1> HIDE DEF c
  <1>3. ClientTypes'
    BY <1>1, <1>2, NotOpenFacts DEF ClientTypes, Steps
  <1>4. ASSUME NEW m \in Names PROVE RegisteredAt(m)'
    BY <1>1, <1>2, <1>4 DEF Registered, RegisteredAt, Doing, HasVectors, HasSidecar, IsOpen, NoTask, ClientTypes
  <1> QED
    BY <1>1, <1>3, <1>4 DEF Registered, Named

LEMMA WriteRegistryRegistry ==
  ASSUME RegistryInv, WriteRegistry
  PROVE  RegistryInv'
  <1> USE DEF RegistryInv
  <1>1. /\ stored' = registry /\ task.name \in Names /\ task.step \in {"register", "unregister"}
        /\ UNCHANGED <<vectors, sidecars, registry, open, todo>>
        /\ \/ /\ task' = [step |-> "create_vectors", name |-> task.name]
              /\ task.step = "register" /\ acked' = acked
           \/ task' = NoTask /\ task.step = "unregister" /\ acked' = [acked EXCEPT ![task.name] = Absent]
    BY TaskFacts DEF WriteRegistry, Proceed
  <1>2. ClientTypes'
    BY <1>1, RevisionFacts DEF ClientTypes, Steps
  <1>3. ASSUME NEW m \in Names PROVE RegisteredAt(m)'
    BY <1>1, <1>3 DEF Registered, RegisteredAt, Doing, HasVectors, HasSidecar, IsOpen, NoTask, ClientTypes
  <1> QED
    BY <1>1, <1>2, <1>3 DEF Registered, Named

LEMMA SaveVectorsRegistry ==
  ASSUME Apart, RegistryInv, SaveVectors
  PROVE  RegistryInv'
  <1> USE DEF RegistryInv
  <1> DEFINE n == task.name
             v == Saved(n).vectors
  <1>1. /\ vectors' = [vectors EXCEPT ![FileOf[n]] = v]
        /\ n \in Names /\ task.step \in {"create_vectors", "vectors"}
        /\ task' = [step |-> IF task.step = "vectors" THEN "sidecar" ELSE "create_sidecar", name |-> n]
        /\ UNCHANGED <<stored, sidecars, registry, open, todo, acked>>
    BY TaskFacts DEF SaveVectors, Proceed
  <1>2. v \in 0..Absent
    BY <1>1, SavedFacts
  <1>3. \A m \in Names : vectors'[FileOf[m]] = IF m = n THEN v ELSE vectors[FileOf[m]]
    BY <1>1, FilesAssumption DEF Apart, ClientTypes
  <1>4. /\ task.step = "create_vectors" => v = 0 /\ v # Absent
        /\ task.step = "vectors" => v = open[n].vectors
    BY <1>1, SavedFacts, RevisionFacts DEF Registered, RegisteredAt, Doing
  <1>5. ClientTypes'
    BY <1>1, <1>2 DEF ClientTypes, Steps
  <1>6. Named'
    BY <1>1, FilesAssumption DEF Named, ClientTypes
  <1> HIDE DEF v
  <1>7. ASSUME NEW m \in Names PROVE RegisteredAt(m)'
    BY <1>1, <1>3, <1>4, <1>7 DEF Registered, RegisteredAt, Doing, HasVectors, HasSidecar, IsOpen
  <1> QED
    BY <1>5, <1>6, <1>7 DEF Registered

LEMMA SaveSidecarRegistry ==
  ASSUME Apart, RegistryInv, SaveSidecar
  PROVE  RegistryInv'
  <1> USE DEF RegistryInv
  <1> DEFINE n == task.name
             s == Saved(n)
  <1>1. /\ sidecars' = [sidecars EXCEPT ![FileOf[n]] = s.sidecar]
        /\ open' = [open EXCEPT ![n] = s] /\ acked' = [acked EXCEPT ![n] = s.sidecar]
        /\ n \in Names /\ task.step \in {"create_sidecar", "sidecar"}
        /\ task' = NoTask
        /\ UNCHANGED <<stored, vectors, registry, todo>>
    BY TaskFacts DEF SaveSidecar
  <1>2. s \in [vectors : 0..Absent, sidecar : 0..Absent]
    BY <1>1, SavedFacts
  <1>3. /\ \A m \in Names : sidecars'[FileOf[m]] = IF m = n THEN s.sidecar ELSE sidecars[FileOf[m]]
        /\ \A m \in Names : open'[m] = IF m = n THEN s ELSE open[m]
    BY <1>1, FilesAssumption DEF Apart, ClientTypes
  <1>4. n \in registry /\ n \in stored
    BY <1>1 DEF Registered, RegisteredAt, Doing
  <1>5. ClientTypes'
    BY <1>1, <1>2 DEF ClientTypes
  <1>6. Named'
    BY <1>1, FilesAssumption DEF Named, ClientTypes
  <1> HIDE DEF s
  <1>7. ASSUME NEW m \in Names PROVE RegisteredAt(m)'
    BY <1>1, <1>3, <1>4, <1>7 DEF Registered, RegisteredAt, Doing, HasVectors, HasSidecar, IsOpen, NoTask
  <1> QED
    BY <1>5, <1>6, <1>7 DEF Registered

LEMMA UnlinkRegistry ==
  ASSUME Apart, RegistryInv, UnlinkVectors \/ UnlinkSidecar
  PROVE  RegistryInv'
  <1> USE DEF RegistryInv
  <1> DEFINE n == task.name
  <1>1. n \in Names /\ task.step \in {"unlink_vectors", "unlink_sidecar"}
    BY TaskFacts DEF UnlinkVectors, UnlinkSidecar
  <1>2. CASE UnlinkVectors
    <2>1. /\ vectors' = [vectors EXCEPT ![FileOf[n]] = Absent] /\ task.step = "unlink_vectors"
          /\ task' = [step |-> "unlink_sidecar", name |-> n]
          /\ UNCHANGED <<stored, sidecars, registry, open, todo, acked>>
      BY <1>2 DEF UnlinkVectors, Proceed
    <2>2. \A m \in Names : vectors'[FileOf[m]] = IF m = n THEN Absent ELSE vectors[FileOf[m]]
      BY <1>1, <2>1, FilesAssumption DEF Apart, ClientTypes
    <2>3. ClientTypes' /\ Named'
      BY <1>1, <2>1, FilesAssumption, RevisionFacts DEF ClientTypes, Steps, Named
    <2>4. ASSUME NEW m \in Names PROVE RegisteredAt(m)'
      BY <1>1, <2>1, <2>2, <2>4 DEF Registered, RegisteredAt, Doing, HasVectors, HasSidecar, IsOpen
    <2> QED
      BY <2>3, <2>4 DEF Registered
  <1>3. CASE UnlinkSidecar
    <2>1. /\ sidecars' = [sidecars EXCEPT ![FileOf[n]] = Absent] /\ task.step = "unlink_sidecar"
          /\ task' = [step |-> "unregister", name |-> n] /\ registry' = registry \ {n}
          /\ UNCHANGED <<stored, vectors, open, todo, acked>>
      BY <1>3 DEF UnlinkSidecar, Proceed
    <2>2. \A m \in Names : sidecars'[FileOf[m]] = IF m = n THEN Absent ELSE sidecars[FileOf[m]]
      BY <1>1, <2>1, FilesAssumption DEF Apart, ClientTypes
    <2>3. n \notin todo /\ ~HasVectors(n) /\ ~IsOpen(n)
      BY <1>1, <2>1 DEF Registered, RegisteredAt, Doing
    <2>4. ClientTypes' /\ Named'
      BY <1>1, <2>1, <2>3, FilesAssumption, RevisionFacts DEF ClientTypes, Steps, Named
    <2>5. ASSUME NEW m \in Names PROVE RegisteredAt(m)'
      BY <1>1, <2>1, <2>2, <2>3, <2>5 DEF Registered, RegisteredAt, Doing, HasVectors, HasSidecar, IsOpen
    <2> QED
      BY <2>4, <2>5 DEF Registered
  <1> QED
    BY <1>2, <1>3

LEMMA QuietRegistry ==
  ASSUME RegistryInv, SaveFails \/ Reset \/ Close \/ Restart \/ UNCHANGED vars
  PROVE  RegistryInv'
  <1> USE DEF RegistryInv
  <1>1. CASE SaveFails \/ Reset \/ UNCHANGED vars
    <2>1. UNCHANGED <<stored, vectors, sidecars, registry, open>> /\ (task' = task \/ task' = NoTask)
          /\ acked' = acked
          /\ \/ todo' = todo
             \/ todo' = registry /\ task = NoTask /\ todo = {}
      BY <1>1 DEF SaveFails, Reset, Free, disk, memory, vars
    <2>2. ClientTypes' /\ Named'
      BY <2>1 DEF ClientTypes, Named
    <2>3. ASSUME NEW m \in Names PROVE RegisteredAt(m)'
      BY <2>1, <2>3 DEF Registered, RegisteredAt, Doing, HasVectors, HasSidecar, IsOpen, NoTask
    <2> QED
      BY <2>2, <2>3 DEF Registered
  <1>2. CASE Close \/ Restart
    <2>1. /\ UNCHANGED <<stored, vectors, sidecars, acked>> /\ open' = [n \in Names |-> NotOpen]
          /\ todo' \in {{}, todo} /\ task' = NoTask
          /\ \/ registry' = registry
             \/ registry' = stored /\ todo' = {}
          /\ registry' = registry => todo' \subseteq registry'
      BY <1>2 DEF Close, Restart, Free, disk, ClientTypes
    <2>2. ClientTypes' /\ Named'
      BY <2>1, NotOpenFacts DEF ClientTypes, Named
    <2>3. ASSUME NEW m \in Names PROVE RegisteredAt(m)'
      BY <2>1, <2>3 DEF Registered, RegisteredAt, Doing, HasVectors, HasSidecar, IsOpen, NoTask
    <2> QED
      BY <2>2, <2>3 DEF Registered
  <1> QED
    BY <1>1, <1>2

LEMMA RecreateRegistry ==
  ASSUME RegistryInv, NEW n \in Names, Recreate(n)
  PROVE  RegistryInv'
  <1> USE DEF RegistryInv
  <1>1. /\ UNCHANGED <<stored, vectors, sidecars, registry, open, task, todo>>
        /\ acked' \in {acked, [acked EXCEPT ![n] = 0]}
    BY DEF Recreate, disk, memory
  <1>2. ClientTypes'
    BY <1>1, RevisionFacts DEF ClientTypes
  <1>3. Registered' /\ Named'
    BY <1>1 DEF Registered, RegisteredAt, Named, Doing, HasVectors, HasSidecar, IsOpen
  <1> QED
    BY <1>2, <1>3

LEMMA StepRegistry ==
  ASSUME Apart, RegistryInv, [Next]_vars
  PROVE  RegistryInv'
  BY CreateRegistry, RecreateRegistry, LoadRegistry, MutateRegistry, BeginDeleteRegistry, WriteRegistryRegistry,
     SaveVectorsRegistry, SaveSidecarRegistry, UnlinkRegistry, QuietRegistry DEF Next

-----------------------------------------------------------------------------
(* The two halves of a collection are of one mutation.                     *)

LEMMA InitHalves == Init => Matched /\ Kept /\ Settled
  BY FilesAssumption DEF Init, Matched, Kept, Settled, NotOpen, Contents, HasVectors

LEMMA FreeMatched ==
  ASSUME RegistryInv, Matched, NEW n \in Names,
         Create(n) \/ Recreate(n) \/ Load(n) \/ Mutate(n) \/ DeleteCollection(n) \/ ResetNext(n)
  PROVE  Matched'
  <1> USE DEF RegistryInv
  <1>1. task = NoTask /\ UNCHANGED <<vectors, sidecars>> /\ task'.step # "sidecar"
    BY DEF Create, Recreate, Load, Mutate, DeleteCollection, ResetNext, BeginDelete, Free, disk, memory,
           Proceed, NoTask
  <1>2. open' = open \/ \E c : c.vectors = c.sidecar /\ open' = [open EXCEPT ![n] = c]
    <2>1. CASE Load(n)
      <3>1. OnDisk(n).vectors = OnDisk(n).sidecar
        BY <1>1, <2>1 DEF Load, Loadable, OnDisk, Contents, Matched, HasVectors, HasSidecar, Doing, NoTask
      <3> QED
        BY <2>1, <3>1 DEF Load
    <2>2. CASE DeleteCollection(n) \/ ResetNext(n)
      <3>1. open' = [open EXCEPT ![n] = NotOpen] \/ open' = [open EXCEPT ![n] = Closed]
        BY <2>2 DEF DeleteCollection, ResetNext, BeginDelete
      <3> QED
        BY <3>1, NotOpenFacts, ClosedFacts
    <2>3. CASE Create(n) \/ Recreate(n) \/ Mutate(n)
      BY <2>3 DEF Create, Recreate, Mutate, memory, Contents
    <2> QED
      BY <2>1, <2>2, <2>3
  <1>3. ASSUME NEW m \in Names PROVE open'[m].vectors = open'[m].sidecar
    BY <1>2, <1>3 DEF Matched, ClientTypes
  <1>4. ASSUME NEW m \in Names, HasVectors(m)', HasSidecar(m)' PROVE vectors'[FileOf[m]] = sidecars'[FileOf[m]]
    BY <1>1, <1>4 DEF Matched, HasVectors, HasSidecar, Doing, NoTask
  <1> QED
    BY <1>3, <1>4 DEF Matched

LEMMA SaveMatched ==
  ASSUME Apart, RegistryInv, Matched, SaveVectors \/ SaveSidecar
  PROVE  Matched'
  <1> USE DEF RegistryInv
  <1> DEFINE n == task.name
             s == Saved(n)
  <1>1. n \in Names
    BY TaskFacts DEF SaveVectors, SaveSidecar
  <1>2. CASE SaveVectors
    <2>1. /\ vectors' = [vectors EXCEPT ![FileOf[n]] = s.vectors]
          /\ task.step \in {"create_vectors", "vectors"}
          /\ task' = [step |-> IF task.step = "vectors" THEN "sidecar" ELSE "create_sidecar", name |-> n]
          /\ UNCHANGED <<sidecars, open>>
      BY <1>2 DEF SaveVectors, Proceed
    <2>2. \A m \in Names : m # n => vectors'[FileOf[m]] = vectors[FileOf[m]]
      BY <1>1, <2>1, FilesAssumption DEF Apart, ClientTypes
    <2>3. task.step = "create_vectors" => ~HasSidecar(n)
      BY <1>1 DEF Registered, RegisteredAt, Doing
    <2> QED
      BY <1>1, <2>1, <2>2, <2>3 DEF Matched, HasVectors, HasSidecar, Doing
  <1>3. CASE SaveSidecar
    <2>1. /\ sidecars' = [sidecars EXCEPT ![FileOf[n]] = s.sidecar]
          /\ open' = [open EXCEPT ![n] = s] /\ task.step \in {"create_sidecar", "sidecar"} /\ vectors' = vectors
          /\ task' = NoTask
      BY <1>3 DEF SaveSidecar
    <2>2. /\ \A m \in Names : sidecars'[FileOf[m]] = IF m = n THEN s.sidecar ELSE sidecars[FileOf[m]]
          /\ \A m \in Names : open'[m] = IF m = n THEN s ELSE open[m]
      BY <1>1, <2>1, FilesAssumption DEF Apart, ClientTypes
    <2>3. s.vectors = s.sidecar /\ vectors[FileOf[n]] = s.vectors
      BY <1>1, <2>1, SavedFacts DEF Registered, RegisteredAt, Doing
    <2> HIDE DEF s
    <2>4. \A m \in Names : m # n => ~Doing(m, {"sidecar"})
      BY DEF Doing
    <2> QED
      BY <1>1, <2>1, <2>2, <2>3, <2>4 DEF Matched, HasVectors, HasSidecar
  <1> QED
    BY <1>2, <1>3

LEMMA OtherMatched ==
  ASSUME Apart, "sidecar" \notin Breaks, RegistryInv, Matched,
         \/ WriteRegistry \/ SaveFails \/ UnlinkVectors \/ UnlinkSidecar \/ Reset \/ Close \/ Restart \/ UNCHANGED vars
  PROVE  Matched'
  <1> USE DEF RegistryInv
  <1> DEFINE n == task.name
  <1>1. CASE WriteRegistry \/ SaveFails \/ Reset \/ Close \/ Restart \/ UNCHANGED vars
    <2>1. /\ UNCHANGED <<vectors, sidecars>> /\ (open' = open \/ open' = [m \in Names |-> NotOpen])
          /\ task' = task \/ task.step # "sidecar"
      BY <1>1 DEF WriteRegistry, SaveFails, Reset, Close, Restart, vars, disk, memory, Free, Breaks, NoTask
    <2> QED
      BY <2>1, NotOpenFacts DEF Matched, HasVectors, HasSidecar, Doing
  <1>2. CASE UnlinkVectors \/ UnlinkSidecar
    <2>1. /\ n \in Names /\ open' = open /\ task.step # "sidecar"
          /\ \/ vectors' = [vectors EXCEPT ![FileOf[n]] = Absent] /\ sidecars' = sidecars
             \/ sidecars' = [sidecars EXCEPT ![FileOf[n]] = Absent] /\ vectors' = vectors
      BY <1>2, TaskFacts DEF UnlinkVectors, UnlinkSidecar
    <2>2. \A m \in Names : HasVectors(m)' /\ HasSidecar(m)' =>
            vectors'[FileOf[m]] = vectors[FileOf[m]] /\ sidecars'[FileOf[m]] = sidecars[FileOf[m]]
      BY <2>1, FilesAssumption DEF HasVectors, HasSidecar, Apart, ClientTypes
    <2> QED
      BY <2>1, <2>2 DEF Matched, HasVectors, HasSidecar, Doing
  <1> QED
    BY <1>1, <1>2

LEMMA StepMatched ==
  ASSUME Apart, "sidecar" \notin Breaks, RegistryInv, Matched, [Next]_vars
  PROVE  Matched'
  BY FreeMatched, SaveMatched, OtherMatched DEF Next

-----------------------------------------------------------------------------
(* What was acknowledged stays.                                            *)

LEMMA FreeKept ==
  ASSUME ~ClosedCounts, RegistryInv, Kept, NEW n \in Names,
         Create(n) \/ Recreate(n) \/ Load(n) \/ Mutate(n) \/ DeleteCollection(n) \/ ResetNext(n)
  PROVE  Kept'
  <1> USE DEF RegistryInv
  <1>1. task = NoTask /\ UNCHANGED <<stored, vectors, sidecars, acked>> /\ registry \subseteq registry'
    BY DEF Create, Recreate, Load, Mutate, DeleteCollection, ResetNext, BeginDelete, Free, disk, memory
  <1>2. \A m \in Names : m # n => open'[m] = open[m]
    BY DEF Create, Recreate, Load, Mutate, DeleteCollection, ResetNext, BeginDelete, ClientTypes, memory
  <1>3. acked[n] # Absent /\ IsOpen(n)' => open'[n].vectors >= acked[n]
    <2> SUFFICES ASSUME acked[n] # Absent, IsOpen(n)' PROVE open'[n].vectors >= acked[n]
      OBVIOUS
    <2>1. vectors[FileOf[n]] >= acked[n] /\ (IsOpen(n) => open[n].vectors >= acked[n])
      BY <1>1 DEF Kept, Doing, NoTask
    <2>2. CASE Load(n)
      BY <2>1, <2>2 DEF Load, OnDisk, Contents, ClientTypes
    <2>3. CASE Mutate(n)
      <3>1. open'[n].vectors = open[n].vectors + 1 /\ IsOpen(n)
        BY <2>3 DEF Mutate, Contents, ClientTypes
      <3>2. acked[n] \in Nat /\ open[n].vectors \in Nat
        BY <3>1, RevisionFacts, OpenFacts DEF ClientTypes
      <3> QED
        BY <2>1, <3>1, <3>2
    <2>4. CASE DeleteCollection(n) \/ ResetNext(n)
      BY <2>4 DEF DeleteCollection, ResetNext, BeginDelete, IsOpen, ClientTypes
    <2>5. CASE Create(n) \/ Recreate(n)
      BY <2>1, <2>5 DEF Create, Recreate, memory, IsOpen
    <2> QED
      BY <2>2, <2>3, <2>4, <2>5
  <1> QED
    BY <1>1, <1>2, <1>3 DEF Kept, HasVectors, HasSidecar, IsOpen, Doing, NoTask

LEMMA SaveKept ==
  ASSUME Apart, RegistryInv, Kept, SaveVectors \/ SaveSidecar
  PROVE  Kept'
  <1> USE DEF RegistryInv
  <1> DEFINE n == task.name
             s == Saved(n)
  <1>1. n \in Names /\ s \in [vectors : 0..Absent, sidecar : 0..Absent]
    BY TaskFacts, SavedFacts DEF SaveVectors, SaveSidecar
  <1>2. CASE SaveVectors
    <2>1. /\ vectors' = [vectors EXCEPT ![FileOf[n]] = s.vectors]
          /\ task.step \in {"create_vectors", "vectors"}
          /\ UNCHANGED <<stored, sidecars, registry, open, acked>>
      BY <1>2 DEF SaveVectors
    <2>2. \A m \in Names : vectors'[FileOf[m]] = IF m = n THEN s.vectors ELSE vectors[FileOf[m]]
      BY <1>1, <2>1, FilesAssumption DEF Apart, ClientTypes
    <2>3. acked[n] # Absent => s.vectors >= acked[n] /\ s.vectors # Absent
      <3>1. acked[n] # Absent => task.step = "vectors" /\ IsOpen(n) /\ open[n].vectors # Absent
        BY <1>1, <2>1 DEF Registered, RegisteredAt, Doing, Kept
      <3> QED
        BY <1>1, <3>1, SavedFacts DEF Kept
    <2> HIDE DEF s
    <2> QED
      BY <1>1, <2>1, <2>2, <2>3 DEF Kept, HasVectors, HasSidecar, Doing, IsOpen
  <1>3. CASE SaveSidecar
    <2>1. /\ sidecars' = [sidecars EXCEPT ![FileOf[n]] = s.sidecar]
          /\ open' = [open EXCEPT ![n] = s] /\ task.step \in {"create_sidecar", "sidecar"}
          /\ acked' = [acked EXCEPT ![n] = s.sidecar]
          /\ task' = NoTask /\ UNCHANGED <<stored, vectors, registry>>
      BY <1>3 DEF SaveSidecar
    <2>2. /\ \A m \in Names : sidecars'[FileOf[m]] = IF m = n THEN s.sidecar ELSE sidecars[FileOf[m]]
          /\ \A m \in Names : open'[m] = IF m = n THEN s ELSE open[m]
          /\ \A m \in Names : acked'[m] = IF m = n THEN s.sidecar ELSE acked[m]
      BY <1>1, <2>1, FilesAssumption DEF Apart, ClientTypes
    <2>3. s.vectors = s.sidecar /\ vectors[FileOf[n]] = s.vectors /\ n \in stored /\ n \in registry
          /\ s.sidecar # Absent /\ s.sidecar \in Nat
      BY <1>1, <2>1, SavedFacts, RevisionFacts DEF Registered, RegisteredAt, Doing
    <2> HIDE DEF s
    <2>4. \A m \in Names : m # n => ~Doing(m, {"unlink_sidecar", "unregister"})
      BY DEF Doing
    <2> QED
      BY <1>1, <2>1, <2>2, <2>3, <2>4 DEF Kept, HasVectors, HasSidecar, IsOpen
  <1> QED
    BY <1>2, <1>3

LEMMA UnlinkKept ==
  ASSUME Apart, RegistryInv, Kept, UnlinkVectors \/ UnlinkSidecar
  PROVE  Kept'
  <1> USE DEF RegistryInv
  <1> DEFINE n == task.name
  <1>1. /\ n \in Names /\ UNCHANGED <<stored, open, acked>>
        /\ task'.name = n /\ task'.step \in {"unlink_sidecar", "unregister"}
        /\ task.step \in {"unlink_vectors", "unlink_sidecar"}
        /\ registry \ {n} \subseteq registry'
        /\ \/ vectors' = [vectors EXCEPT ![FileOf[n]] = Absent] /\ sidecars' = sidecars
           \/ sidecars' = [sidecars EXCEPT ![FileOf[n]] = Absent] /\ vectors' = vectors
    BY TaskFacts DEF UnlinkVectors, UnlinkSidecar, Proceed
  <1>2. \A m \in Names : m # n => /\ vectors'[FileOf[m]] = vectors[FileOf[m]]
                                   /\ sidecars'[FileOf[m]] = sidecars[FileOf[m]]
    BY <1>1, FilesAssumption DEF Apart, ClientTypes
  <1> QED
    BY <1>1, <1>2 DEF Kept, HasVectors, HasSidecar, IsOpen, Doing

LEMMA OtherKept ==
  ASSUME {"unlink_sidecar", "unregister"} \cap Breaks = {}, RegistryInv, Kept,
         \/ WriteRegistry \/ SaveFails \/ Reset \/ Close \/ Restart \/ UNCHANGED vars
  PROVE  Kept'
  <1> USE DEF RegistryInv
  <1>1. CASE WriteRegistry
    <2> DEFINE n == task.name
    <2>1. /\ stored' = registry /\ n \in Names /\ UNCHANGED <<vectors, sidecars, registry, open>>
          /\ \/ task.step = "register" /\ acked' = acked
             \/ task.step = "unregister" /\ acked' = [acked EXCEPT ![n] = Absent]
      BY <1>1, TaskFacts DEF WriteRegistry
    <2>2. acked'[n] = Absent
      BY <2>1 DEF Kept, Registered, RegisteredAt, Doing, ClientTypes
    <2>3. \A m \in Names : m # n => acked'[m] = acked[m] /\ ~Doing(m, {"unlink_sidecar", "unregister"})
      BY <2>1 DEF ClientTypes, Doing
    <2> QED
      BY <2>1, <2>2, <2>3 DEF Kept, HasVectors, HasSidecar, IsOpen
  <1>2. CASE SaveFails \/ Reset \/ Close \/ Restart \/ UNCHANGED vars
    <2>1. /\ UNCHANGED <<stored, vectors, sidecars, acked>> /\ (open' = open \/ open' = [m \in Names |-> NotOpen])
          /\ registry' \in {registry, stored}
          /\ task' = task \/ task.step \notin {"unlink_sidecar", "unregister"}
      BY <1>2 DEF SaveFails, Reset, Close, Restart, vars, disk, memory, Free, Breaks, NoTask
    <2> QED
      BY <2>1 DEF Kept, HasVectors, HasSidecar, IsOpen, Doing
  <1> QED
    BY <1>1, <1>2

LEMMA StepKept ==
  ASSUME Apart, ~ClosedCounts, {"unlink_sidecar", "unregister"} \cap Breaks = {}, RegistryInv, Kept, [Next]_vars
  PROVE  Kept'
  BY FreeKept, SaveKept, UnlinkKept, OtherKept DEF Next

-----------------------------------------------------------------------------
(* What is on disk between two calls is a collection or nothing.           *)

LEMMA FreeSettled ==
  ASSUME RegistryInv, Settled, NEW n \in Names,
         Create(n) \/ Recreate(n) \/ Load(n) \/ Mutate(n) \/ DeleteCollection(n) \/ ResetNext(n)
  PROVE  Settled'
  <1> USE DEF RegistryInv
  <1>1. /\ task = NoTask /\ UNCHANGED <<stored, vectors, sidecars>>
        /\ \/ registry' = registry
           \/ registry' = registry \cup {n} /\ task' = [step |-> "register", name |-> n]
    BY DEF Create, Recreate, Load, Mutate, DeleteCollection, ResetNext, BeginDelete, Free, disk, memory, Proceed
  <1> QED
    BY <1>1 DEF Settled, HasVectors, HasSidecar, Doing, NoTask

LEMMA SaveSettled ==
  ASSUME Apart, RegistryInv, Settled, SaveVectors \/ SaveSidecar
  PROVE  Settled'
  <1> USE DEF RegistryInv
  <1> DEFINE n == task.name
             s == Saved(n)
  <1>1. n \in Names
    BY TaskFacts DEF SaveVectors, SaveSidecar
  <1>2. CASE SaveVectors
    <2>1. /\ vectors' = [vectors EXCEPT ![FileOf[n]] = s.vectors]
          /\ task.step \in {"create_vectors", "vectors"}
          /\ task' = [step |-> IF task.step = "vectors" THEN "sidecar" ELSE "create_sidecar", name |-> n]
          /\ UNCHANGED <<stored, sidecars, registry, open>>
      BY <1>2 DEF SaveVectors, Proceed
    <2>2. \A m \in Names : vectors'[FileOf[m]] = IF m = n THEN s.vectors ELSE vectors[FileOf[m]]
      BY <1>1, <2>1, FilesAssumption DEF Apart, ClientTypes
    <2>3. task.step = "vectors" => s.vectors # Absent
      BY <1>1, SavedFacts DEF Registered, RegisteredAt, Doing
    <2>4. n \in stored /\ n \in registry
      BY <1>1, <2>1 DEF Registered, RegisteredAt, Doing
    <2> HIDE DEF s
    <2> QED
      BY <1>1, <2>1, <2>2, <2>3, <2>4 DEF Settled, HasVectors, HasSidecar, Doing
  <1>3. CASE SaveSidecar
    <2>1. /\ sidecars' = [sidecars EXCEPT ![FileOf[n]] = s.sidecar]
          /\ task.step \in {"create_sidecar", "sidecar"}
          /\ UNCHANGED <<stored, vectors, registry>>
      BY <1>3 DEF SaveSidecar
    <2>2. \A m \in Names : sidecars'[FileOf[m]] = IF m = n THEN s.sidecar ELSE sidecars[FileOf[m]]
      BY <1>1, <2>1, FilesAssumption DEF Apart, ClientTypes
    <2>3. vectors[FileOf[n]] # Absent /\ s.sidecar # Absent
      BY <1>1, <2>1, SavedFacts, RevisionFacts DEF Registered, RegisteredAt, Doing
    <2>4. n \in stored /\ n \in registry
      BY <1>1, <2>1 DEF Registered, RegisteredAt, Doing
    <2> HIDE DEF s
    <2>5. \A m \in Names : m # n => \A S : ~Doing(m, S)
      BY DEF Doing
    <2> QED
      BY <1>1, <2>1, <2>2, <2>3, <2>4, <2>5 DEF Settled, HasVectors, HasSidecar
  <1> QED
    BY <1>2, <1>3

LEMMA UnlinkSettled ==
  ASSUME Apart, RegistryInv, Settled, UnlinkVectors \/ UnlinkSidecar
  PROVE  Settled'
  <1> USE DEF RegistryInv
  <1> DEFINE n == task.name
  <1>1. /\ n \in Names /\ stored' = stored /\ task'.name = n
        /\ \/ /\ task'.step = "unlink_sidecar" /\ registry' = registry
              /\ vectors' = [vectors EXCEPT ![FileOf[n]] = Absent] /\ sidecars' = sidecars
           \/ /\ task'.step = "unregister" /\ registry' = registry \ {n}
              /\ sidecars' = [sidecars EXCEPT ![FileOf[n]] = Absent] /\ vectors' = vectors
        /\ task.step \in {"unlink_vectors", "unlink_sidecar"}
    BY TaskFacts DEF UnlinkVectors, UnlinkSidecar, Proceed
  <1>2. \A m \in Names : m # n => /\ vectors'[FileOf[m]] = vectors[FileOf[m]]
                                   /\ sidecars'[FileOf[m]] = sidecars[FileOf[m]]
    BY <1>1, FilesAssumption DEF Apart, ClientTypes
  <1>3. n \in stored /\ n \in registry
    BY <1>1 DEF Registered, RegisteredAt, Doing
  <1> QED
    BY <1>1, <1>2, <1>3 DEF Settled, HasVectors, HasSidecar, Doing

LEMMA OtherSettled ==
  ASSUME {"create_vectors", "create_sidecar", "unlink_sidecar", "unregister"} \cap Breaks = {},
         "register" \notin FailAt, RegistryInv, Settled,
         \/ WriteRegistry \/ SaveFails \/ Reset \/ Close \/ Restart \/ UNCHANGED vars
  PROVE  Settled'
  <1> USE DEF RegistryInv
  <1>1. CASE WriteRegistry
    <2> DEFINE n == task.name
    <2>1. /\ stored' = registry /\ n \in Names /\ UNCHANGED <<vectors, sidecars, registry>>
          /\ \/ task.step = "register" /\ task' = [step |-> "create_vectors", name |-> n]
             \/ task.step = "unregister" /\ task' = NoTask
      BY <1>1, TaskFacts DEF WriteRegistry, Proceed
    <2>2. task.step = "unregister" => n \notin registry
      BY <2>1 DEF Registered, RegisteredAt, Doing
    <2> QED
      BY <2>1, <2>2 DEF Settled, HasVectors, HasSidecar, Doing
  <1>2. CASE SaveFails \/ Restart
    <2>1. /\ UNCHANGED <<stored, vectors, sidecars>>
          /\ task.step \notin {"create_vectors", "create_sidecar", "unlink_sidecar", "unregister"}
          /\ \/ registry' = stored
             \/ registry' = registry /\ task.step # "register"
      BY <1>2 DEF SaveFails, Restart, disk, Breaks
    <2> QED
      BY <2>1 DEF Settled, HasVectors, HasSidecar, Doing
  <1>3. CASE Reset \/ Close \/ UNCHANGED vars
    <2>1. UNCHANGED <<stored, vectors, sidecars, registry, task>>
      BY <1>3 DEF Reset, Close, disk, vars, memory
    <2> QED
      BY <2>1 DEF Settled, HasVectors, HasSidecar, Doing
  <1> QED
    BY <1>1, <1>2, <1>3

LEMMA StepSettled ==
  ASSUME Apart, {"create_vectors", "create_sidecar", "unlink_sidecar", "unregister"} \cap Breaks = {},
         "register" \notin FailAt, RegistryInv, Settled, [Next]_vars
  PROVE  Settled'
  BY FreeSettled, SaveSettled, UnlinkSettled, OtherSettled DEF Next

-----------------------------------------------------------------------------
(* Generations.                                                            *)

\* Every store has manifests of its own.
OwnManifests == \A s, t \in Stores : ManifestOf[s] = ManifestOf[t] => s = t

\* No process starts a memory afresh over files another engine may have left.
OneEngine == ~Renewed \/ \A d, e \in Engines : d = e

EngineNames == {"delta", "labels"}
PartNames == {"native", "delta", "meta"} \X Nat
FileNames == [gen : Nat, part : PartNames]
WholeFiles == [gen : Nat, part : PartNames, value : Nat]
Bases == {ManifestOf[s] : s \in Stores}

GenerationTypes ==
  /\ generations \in Nat /\ answered \in [Stores -> Nat]
  /\ files \subseteq WholeFiles
  /\ manifests \in [Bases \X EngineNames ->
                     {G!None} \cup [gen : Nat, names : SUBSET FileNames, value : Nat]]
  /\ memories \in [Stores -> {G!None} \cup [engine : EngineNames, value : Nat]]
  /\ saving \in [Stores -> {G!None} \cup
                  [gen : Nat, todo : Seq(PartNames), written : SUBSET WholeFiles,
                   previous : SUBSET FileNames, published : BOOLEAN]]

\* What is written in a generation is the mutation that began it.
FilesSound == \A f \in files : f.value = f.gen /\ f.gen \in 1..generations

\* The files a manifest lists are there.
ManifestSound(m) ==
  m # G!None =>
    /\ m.gen # 0 /\ m.value = m.gen
    /\ \A n \in m.names : n.gen = m.gen /\ \E f \in files : f.gen = n.gen /\ f.part = n.part

ManifestsSound == \A s \in Stores, e \in EngineNames : ManifestSound(G!Manifest(s, e))

\* A process keeps the engine its store was written with.
EngineKept(s) ==
  /\ \A e \in EngineNames : G!Manifest(s, e) # G!None => e \in Engines
  /\ \A d, e \in EngineNames : G!Manifest(s, d) # G!None /\ G!Manifest(s, e) # G!None => d = e
  /\ G!Running(s) =>
       /\ memories[s].engine \in Engines /\ memories[s].value <= generations
       /\ \A e \in EngineNames : e # memories[s].engine => G!Manifest(s, e) = G!None

\* How far the save under way is, and what it will remove.
SaveSound(s) ==
  saving[s] # G!None =>
    /\ G!Running(s) /\ saving[s].gen # 0 /\ memories[s].value = saving[s].gen
    /\ \A f \in saving[s].written : f \in files /\ f.gen = saving[s].gen
    /\ \A n \in saving[s].previous : n.gen # saving[s].gen /\ n.gen # 0
    /\ saving[s].published => G!Manifest(s, memories[s].engine).gen = saving[s].gen
    /\ ~saving[s].published => \A e \in EngineNames : G!Manifest(s, e).gen < saving[s].gen

\* The last mutation that returned is in a manifest.
AnswerKept(s) ==
  answered[s] # 0 =>
    \E e \in EngineNames : G!Manifest(s, e) # G!None /\ G!Manifest(s, e).value >= answered[s]

\* The generations a store still has to do with are no other store's.
Uses(s, g) ==
  /\ g # 0
  /\ \/ \E e \in EngineNames : G!Manifest(s, e).gen = g
     \/ saving[s].gen = g
     \/ saving[s] # G!None /\ \E n \in saving[s].previous : n.gen = g

Disjoint ==
  \A s, t \in Stores : \A g \in Nat : Uses(s, g) => g <= generations /\ (Uses(t, g) => s = t)

GenerationsInv ==
  /\ GenerationTypes /\ FilesSound /\ ManifestsSound /\ Disjoint
  /\ \A s \in Stores : EngineKept(s) /\ SaveSound(s) /\ AnswerKept(s)

LEMMA ManifestFacts ==
  ASSUME GenerationTypes, NEW s \in Stores, NEW e \in EngineNames
  PROVE  /\ G!Manifest(s, e) = manifests[<<ManifestOf[s], e>>]
         /\ <<ManifestOf[s], e>> \in Bases \X EngineNames
         /\ G!Manifest(s, e) \in {G!None} \cup [gen : Nat, names : SUBSET FileNames, value : Nat]
         /\ G!Manifest(s, e).gen \in Nat
         /\ G!None.gen = 0
         /\ G!Manifest(s, e).gen # 0 => G!Manifest(s, e) # G!None
  <1>1. <<ManifestOf[s], e>> \in Bases \X EngineNames
    BY DEF Bases
  <1>2. G!Manifest(s, e) = manifests[<<ManifestOf[s], e>>]
    BY DEF G!Manifest
  <1>3. G!Manifest(s, e) \in {G!None} \cup [gen : Nat, names : SUBSET FileNames, value : Nat]
    <2> DEFINE K == Bases \X EngineNames
               R == {G!None} \cup [gen : Nat, names : SUBSET FileNames, value : Nat]
               k == <<ManifestOf[s], e>>
    <2>1. manifests \in [K -> R] /\ k \in K /\ G!Manifest(s, e) = manifests[k]
      BY <1>1, <1>2 DEF GenerationTypes
    <2> HIDE DEF K, R, k
    <2>2. G!Manifest(s, e) \in R
      BY <2>1
    <2> QED
      BY <2>2 DEF R
  <1>4. G!None.gen = 0
    BY DEF G!None
  <1> QED
    BY <1>1, <1>2, <1>3, <1>4

LEMMA SavingFacts ==
  ASSUME GenerationTypes, NEW s \in Stores
  PROVE  /\ saving[s] = G!None \/ saving[s] \in
              [gen : Nat, todo : Seq(PartNames), written : SUBSET WholeFiles,
               previous : SUBSET FileNames, published : BOOLEAN]
         /\ saving[s].gen \in Nat
         /\ memories[s] = G!None \/ memories[s] \in [engine : EngineNames, value : Nat]
  BY DEF GenerationTypes, G!None

\* A part of a generation, and its files in order.
LEMMA PartsFacts ==
  ASSUME NEW e \in EngineNames, NEW d \in Nat
  PROVE  G!Parts(e, d) \in Seq(PartNames)
  <1>1. <<"native", 0>> \in PartNames /\ <<"meta", 0>> \in PartNames
    BY DEF PartNames
  <1>2. <<<<"native", 0>>>> \in Seq(PartNames) /\ <<<<"meta", 0>>>> \in Seq(PartNames)
        /\ <<<<"native", 0>>, <<"meta", 0>>>> \in Seq(PartNames)
    BY <1>1
  <1>3. [n \in 1..d |-> <<"delta", n>>] \in Seq(PartNames)
    <2>1. \A n \in 1..d : <<"delta", n>> \in PartNames
      BY DEF PartNames
    <2> QED
      BY <2>1
  <1> QED
    BY <1>2, <1>3 DEF G!Parts

LEMMA InitGenerations == ASSUME G!Init PROVE GenerationsInv
  <1>1. GenerationTypes
    BY DEF G!Init, GenerationTypes, Bases, EngineNames
  <1>2. \A s \in Stores, e \in EngineNames : G!Manifest(s, e) = G!None
    BY <1>1, ManifestFacts DEF G!Init, Bases, EngineNames
  <1>3. FilesSound /\ ManifestsSound
    BY <1>2 DEF G!Init, FilesSound, ManifestsSound, ManifestSound
  <1>4. \A s \in Stores : EngineKept(s) /\ SaveSound(s) /\ AnswerKept(s)
    BY <1>2 DEF G!Init, EngineKept, SaveSound, AnswerKept, G!Running
  <1>5. Disjoint
    BY <1>2 DEF G!Init, Disjoint, Uses, G!None
  <1> QED
    BY <1>1, <1>3, <1>4, <1>5 DEF GenerationsInv

\* A step that leaves the manifests, and one that has nothing to do with a store.
LEMMA SameManifests ==
  ASSUME manifests' = manifests
  PROVE  \A s, e : G!Manifest(s, e)' = G!Manifest(s, e)
  BY DEF G!Manifest

LEMMA OtherStore ==
  ASSUME NEW t \in Stores, EngineKept(t), SaveSound(t), AnswerKept(t), GenerationTypes,
         generations' \in Nat, generations <= generations',
         saving'[t] = saving[t], memories'[t] = memories[t], answered'[t] = answered[t],
         \A e \in EngineNames : G!Manifest(t, e)' = G!Manifest(t, e),
         saving[t] # G!None => \A f \in saving[t].written : f \in files'
  PROVE  EngineKept(t)' /\ SaveSound(t)' /\ AnswerKept(t)'
  <1>1. memories[t] # G!None => memories[t] \in [engine : EngineNames, value : Nat]
    BY SavingFacts
  <1>2. EngineKept(t)'
    BY <1>1 DEF EngineKept, G!Running, GenerationTypes
  <1>3. SaveSound(t)'
    BY <1>1 DEF SaveSound, G!Running
  <1>4. AnswerKept(t)'
    BY DEF AnswerKept
  <1> QED
    BY <1>2, <1>3, <1>4

LEMMA NothingUsed ==
  ASSUME Disjoint, generations' = generations,
         \A s \in Stores : \A g \in Nat : Uses(s, g)' => Uses(s, g)
  PROVE  Disjoint'
  BY DEF Disjoint

LEMMA SameFiles ==
  ASSUME FilesSound, ManifestsSound, files' = files, manifests' = manifests, generations' = generations
  PROVE  FilesSound' /\ ManifestsSound'
  BY SameManifests DEF FilesSound, ManifestsSound, ManifestSound

\* The store of a memory that starts, loads, dies, or is done with its save.
LEMMA QuietGenerations ==
  ASSUME GenerationsInv, OneEngine, NEW s \in Stores,
         \/ \E e \in Engines : G!Start(s, e)
         \/ G!Load(s) \/ G!Crash(s) \/ G!Return(s) \/ G!Raise(s)
  PROVE  GenerationsInv'
  <1> USE DEF GenerationsInv
  <1>1. /\ UNCHANGED <<files, manifests, generations>>
        /\ saving' = [saving EXCEPT ![s] = G!None]
        /\ \/ answered' = answered
           \/ G!Return(s) /\ answered' = [answered EXCEPT ![s] = memories[s].value]
        /\ \E m : /\ memories' = [memories EXCEPT ![s] = m]
                  /\ \/ m = G!None
                     \/ m = memories[s]
                     \/ \E e \in Engines : G!Start(s, e) /\ m = [engine |-> e, value |-> 0]
                     \/ /\ G!Load(s)
                        /\ m = [engine |-> G!Selected(s), value |-> G!Manifest(s, G!Selected(s)).value]
    <2>1. CASE G!Crash(s)
      BY <2>1 DEF G!Crash
    <2>2. CASE G!Return(s) \/ G!Raise(s)
      <3>1. memories' = [memories EXCEPT ![s] = memories[s]]
        BY <2>2 DEF G!Return, G!Raise, GenerationTypes
      <3> QED
        BY <2>2, <3>1 DEF G!Return, G!Raise
    <2>3. CASE (\E e \in Engines : G!Start(s, e)) \/ G!Load(s)
      <3>1. saving' = saving /\ saving[s] = G!None
        BY <2>3 DEF G!Start, G!Load, SaveSound
      <3>2. saving' = [saving EXCEPT ![s] = G!None]
        BY <3>1 DEF GenerationTypes
      <3> QED
        BY <2>3, <3>2 DEF G!Start, G!Load
    <2> QED
      BY <2>1, <2>2, <2>3
  <1>2. \A t, e : G!Manifest(t, e)' = G!Manifest(t, e)
    BY <1>1, SameManifests
  <1>3. /\ \A t \in Stores : t # s => /\ saving'[t] = saving[t] /\ memories'[t] = memories[t]
                                      /\ answered'[t] = answered[t]
        /\ saving'[s] = G!None
    BY <1>1 DEF GenerationTypes
  <1>4. PICK m : /\ memories' = [memories EXCEPT ![s] = m]
                 /\ \/ m = G!None
                    \/ m = memories[s]
                    \/ \E e \in Engines : G!Start(s, e) /\ m = [engine |-> e, value |-> 0]
                    \/ /\ G!Load(s)
                       /\ m = [engine |-> G!Selected(s), value |-> G!Manifest(s, G!Selected(s)).value]
    BY <1>1
  <1>5. /\ m # G!None => m \in [engine : EngineNames, value : Nat] /\ m.engine \in Engines /\ m.value <= generations
        /\ m # G!None => \A e \in EngineNames : e # m.engine => G!Manifest(s, e) = G!None
    <2>1. CASE m = memories[s]
      BY <2>1, SavingFacts DEF EngineKept, G!Running
    <2>2. ASSUME NEW e \in Engines, G!Start(s, e), m = [engine |-> e, value |-> 0]
          PROVE  /\ m \in [engine : EngineNames, value : Nat] /\ m.engine \in Engines /\ m.value <= generations
                 /\ \A d \in EngineNames : d # m.engine => G!Manifest(s, d) = G!None
      <3>1. m \in [engine : EngineNames, value : Nat] /\ m.engine = e /\ m.value <= generations
        BY <2>2, MemoryAssumption DEF EngineNames, GenerationTypes
      <3>2. ASSUME NEW d \in EngineNames, d # e PROVE G!Manifest(s, d) = G!None
        BY <2>2, <3>2 DEF OneEngine, EngineKept, G!Start, EngineNames
      <3> QED
        BY <3>1, <3>2
    <2>3. CASE G!Load(s) /\ m = [engine |-> G!Selected(s), value |-> G!Manifest(s, G!Selected(s)).value]
      <3> DEFINE d == G!Selected(s)
      <3>1. d \in EngineNames /\ G!Manifest(s, d) # G!None
        BY <2>3 DEF G!Load, G!Selected, G!Verified, EngineNames
      <3> HIDE DEF d
      <3>2. G!Manifest(s, d).value = G!Manifest(s, d).gen /\ G!Manifest(s, d).gen \in Nat
            /\ G!Manifest(s, d).gen # 0
        BY <3>1, ManifestFacts DEF ManifestsSound, ManifestSound
      <3>3. G!Manifest(s, d).gen <= generations
        BY <3>1, <3>2 DEF Disjoint, Uses
      <3>4. d \in Engines /\ \A e \in EngineNames : e # d => G!Manifest(s, e) = G!None
        BY <3>1 DEF EngineKept
      <3>5. m = [engine |-> d, value |-> G!Manifest(s, d).value]
        BY <2>3 DEF d
      <3> QED
        BY <3>1, <3>2, <3>3, <3>4, <3>5
    <2> QED
      BY <1>4, <2>1, <2>2, <2>3
  <1>6. GenerationTypes'
    <2>1. m \in {G!None} \cup [engine : EngineNames, value : Nat]
      BY <1>5
    <2>2. memories' \in [Stores -> {G!None} \cup [engine : EngineNames, value : Nat]]
      BY <1>4, <2>1 DEF GenerationTypes
    <2>3. answered' \in [Stores -> Nat]
      BY <1>1, SavingFacts DEF GenerationTypes, G!Return, SaveSound
    <2>4. saving' \in [Stores -> {G!None} \cup
                  [gen : Nat, todo : Seq(PartNames), written : SUBSET WholeFiles,
                   previous : SUBSET FileNames, published : BOOLEAN]]
      BY <1>1 DEF GenerationTypes
    <2> QED
      BY <1>1, <2>2, <2>3, <2>4 DEF GenerationTypes
  <1>7. EngineKept(s)' /\ SaveSound(s)'
    <2>1. memories'[s] = m
      BY <1>4 DEF GenerationTypes
    <2> QED
      BY <1>1, <1>2, <1>3, <1>5, <2>1 DEF EngineKept, SaveSound, G!Running
  <1>8. AnswerKept(s)'
    <2>1. CASE answered' = answered
      BY <1>2, <2>1 DEF AnswerKept
    <2>2. CASE G!Return(s) /\ answered' = [answered EXCEPT ![s] = memories[s].value]
      <3> DEFINE d == memories[s].engine
      <3>1. /\ answered'[s] = saving[s].gen /\ saving[s].gen # 0 /\ saving[s].gen \in Nat
            /\ d \in EngineNames /\ G!Manifest(s, d).gen = saving[s].gen
        BY <2>2, SavingFacts DEF G!Return, SaveSound, GenerationTypes, G!Running
      <3> HIDE DEF d
      <3>2. G!Manifest(s, d) # G!None /\ G!Manifest(s, d).value = saving[s].gen
        BY <3>1, ManifestFacts DEF ManifestsSound, ManifestSound
      <3> QED
        BY <1>2, <3>1, <3>2 DEF AnswerKept
    <2> QED
      BY <1>1, <2>1, <2>2
  <1>9. Disjoint'
    <2>1. ASSUME NEW t \in Stores, NEW g \in Nat, Uses(t, g)' PROVE Uses(t, g)
      BY <1>2, <1>3, <2>1 DEF Uses, G!None
    <2> QED
      BY <1>1, <2>1, NothingUsed
  <1>10. \A t \in Stores : EngineKept(t)' /\ SaveSound(t)' /\ AnswerKept(t)'
    <2>1. ASSUME NEW t \in Stores, t # s PROVE EngineKept(t)' /\ SaveSound(t)' /\ AnswerKept(t)'
      <3>1. /\ GenerationTypes /\ EngineKept(t) /\ SaveSound(t) /\ AnswerKept(t)
            /\ generations' \in Nat /\ generations <= generations'
        BY <1>1 DEF GenerationTypes
      <3>2. saving[t] # G!None => \A f \in saving[t].written : f \in files'
        BY <1>1 DEF SaveSound
      <3>3. /\ saving'[t] = saving[t] /\ memories'[t] = memories[t] /\ answered'[t] = answered[t]
            /\ \A e \in EngineNames : G!Manifest(t, e)' = G!Manifest(t, e)
        BY <1>2, <1>3, <2>1
      <3> HIDE DEF GenerationsInv
      <3> QED
        BY <3>1, <3>2, <3>3, OtherStore
    <2> QED
      BY <1>7, <1>8, <2>1
  <1> QED
    BY <1>1, <1>6, <1>9, <1>10, SameFiles

LEMMA BeginGenerations ==
  ASSUME GenerationsInv, NEW s \in Stores, NEW d \in Deltas, G!Begin(s, d)
  PROVE  GenerationsInv'
  <1> USE DEF GenerationsInv
  <1> DEFINE g == generations + 1
             m == memories[s]
             old == G!Manifest(s, m.engine)
             c == [gen |-> g, todo |-> G!Parts(m.engine, d), written |-> {},
                   previous |-> IF old = G!None THEN {} ELSE old.names, published |-> FALSE]
  <1>1. /\ UNCHANGED <<files, manifests, answered>> /\ generations' = g
        /\ saving' = [saving EXCEPT ![s] = c]
        /\ memories' = [memories EXCEPT ![s].value = g]
        /\ G!Running(s) /\ saving[s] = G!None
    BY DEF G!Begin, G!Idle
  <1>2. /\ m \in [engine : EngineNames, value : Nat] /\ g \in Nat /\ g # 0 /\ d \in Nat
        /\ generations \in Nat /\ generations < g /\ m.engine \in EngineNames
        /\ \A h \in Nat : h <= generations => h < g
        /\ \A h \in Nat : h <= generations \/ h = g => h <= g
        /\ ~(g <= generations)
    BY <1>1, SavingFacts, MemoryAssumption DEF G!Running, GenerationTypes
  <1> HIDE DEF g
  <1>3. \A t, e : G!Manifest(t, e)' = G!Manifest(t, e)
    BY <1>1, SameManifests
  <1>4. /\ \A t \in Stores : t # s => saving'[t] = saving[t] /\ memories'[t] = memories[t]
        /\ saving'[s] = c /\ memories'[s] = [m EXCEPT !.value = g]
    BY <1>1 DEF GenerationTypes
  <1>5. memories'[s].value = g /\ memories'[s].engine = m.engine
        /\ memories'[s] \in [engine : EngineNames, value : Nat]
    BY <1>2, <1>4
  <1>6. \A n \in c.previous : n.gen = old.gen /\ n.gen # 0 /\ n.gen < g /\ n \in FileNames /\ old # G!None
    <2> SUFFICES ASSUME NEW n \in c.previous
                 PROVE  n.gen = old.gen /\ n.gen # 0 /\ n.gen < g /\ n \in FileNames /\ old # G!None
      OBVIOUS
    <2>1. old # G!None /\ n \in old.names
      OBVIOUS
    <2>2. old \in [gen : Nat, names : SUBSET FileNames, value : Nat]
      BY <1>2, <2>1, ManifestFacts
    <2>3. n.gen = old.gen /\ old.gen # 0
      BY <1>2, <2>1 DEF ManifestsSound, ManifestSound
    <2>4. old.gen <= generations
      BY <1>2, <2>2, <2>3 DEF Disjoint, Uses
    <2>5. old.gen \in Nat /\ n \in FileNames
      BY <2>1, <2>2
    <2>6. old.gen < g
      BY <1>2, <2>4, <2>5
    <2> HIDE DEF old, c
    <2> QED
      BY <2>1, <2>3, <2>5, <2>6
  <1>7. c \in [gen : Nat, todo : Seq(PartNames), written : SUBSET WholeFiles,
               previous : SUBSET FileNames, published : BOOLEAN]
    BY <1>2, <1>6, PartsFacts
  <1>8. c.gen = g /\ c.written = {} /\ c.published = FALSE
    OBVIOUS
  <1> HIDE DEF c, old, m
  <1>9. GenerationTypes'
    <2>1. memories' \in [Stores -> {G!None} \cup [engine : EngineNames, value : Nat]]
      BY <1>1, <1>4, <1>5 DEF GenerationTypes
    <2>2. saving' \in [Stores -> {G!None} \cup
                  [gen : Nat, todo : Seq(PartNames), written : SUBSET WholeFiles,
                   previous : SUBSET FileNames, published : BOOLEAN]]
      BY <1>1, <1>7 DEF GenerationTypes
    <2> QED
      BY <1>1, <1>2, <2>1, <2>2 DEF GenerationTypes
  <1>10. EngineKept(s)'
    BY <1>1, <1>2, <1>3, <1>5 DEF EngineKept, G!Running, m
  <1>11. SaveSound(s)'
    <2>1. \A e \in EngineNames : G!Manifest(s, e).gen < g
      <3> SUFFICES ASSUME NEW e \in EngineNames PROVE G!Manifest(s, e).gen < g
        OBVIOUS
      <3>1. G!Manifest(s, e).gen \in Nat
        BY ManifestFacts
      <3>2. G!Manifest(s, e).gen # 0 => G!Manifest(s, e).gen <= generations
        BY <3>1 DEF Disjoint, Uses
      <3>3. CASE G!Manifest(s, e).gen = 0
        BY <1>2, <3>3
      <3>4. CASE G!Manifest(s, e).gen # 0
        BY <1>2, <3>1, <3>2, <3>4
      <3> QED
        BY <3>3, <3>4
    <2>2. G!Running(s)'
      BY <1>5, <1>2, <1>4 DEF G!Running, G!None
    <2> QED
      BY <1>2, <1>3, <1>4, <1>5, <1>6, <1>8, <2>1, <2>2 DEF SaveSound
  <1>12. AnswerKept(s)'
    BY <1>1, <1>3 DEF AnswerKept
  <1>13. Disjoint'
    <2>1. ASSUME NEW t \in Stores, NEW h \in Nat, Uses(t, h)' PROVE Uses(t, h) \/ (t = s /\ h = g)
      <3>1. CASE t = s
        <4>1. (\E e \in EngineNames : G!Manifest(s, e).gen = h) \/ g = h \/ \E n \in c.previous : n.gen = h
          BY <1>3, <1>4, <1>8, <2>1, <3>1 DEF Uses
        <4>2. (\E n \in c.previous : n.gen = h) => G!Manifest(s, m.engine).gen = h
          BY <1>6 DEF old
        <4> QED
          BY <1>2, <2>1, <3>1, <4>1, <4>2 DEF Uses, G!None
      <3>2. CASE t # s
        <4>1. saving'[t] = saving[t] /\ \A e : G!Manifest(t, e)' = G!Manifest(t, e)
          BY <1>3, <1>4, <3>2
        <4> QED
          BY <2>1, <4>1 DEF Uses, G!None
      <3> QED
        BY <3>1, <3>2
    <2>2. \A t \in Stores : ~Uses(t, g)
      BY <1>2 DEF Disjoint
    <2> SUFFICES ASSUME NEW t \in Stores, NEW u \in Stores, NEW h \in Nat, Uses(t, h)'
                 PROVE  h <= g /\ (Uses(u, h)' => t = u)
      BY <1>1 DEF Disjoint
    <2>3. CASE h = g
      BY <1>2, <2>1, <2>2, <2>3
    <2>4. CASE h # g
      <3>1. Uses(t, h) /\ (Uses(u, h)' => Uses(u, h))
        BY <2>1, <2>4
      <3>2. h <= generations /\ (Uses(u, h) => t = u)
        BY <3>1 DEF Disjoint
      <3> QED
        BY <1>2, <3>1, <3>2
    <2> QED
      BY <2>3, <2>4
  <1>14. FilesSound' /\ ManifestsSound'
    <2>1. FilesSound'
      BY <1>1, <1>2 DEF FilesSound, GenerationTypes, WholeFiles
    <2>2. ManifestsSound'
      BY <1>1, <1>3 DEF ManifestsSound, ManifestSound
    <2> QED
      BY <2>1, <2>2
  <1>15. \A t \in Stores : EngineKept(t)' /\ SaveSound(t)' /\ AnswerKept(t)'
    <2>1. ASSUME NEW t \in Stores, t # s PROVE EngineKept(t)' /\ SaveSound(t)' /\ AnswerKept(t)'
      BY <1>1, <1>2, <1>3, <1>4, <2>1, OtherStore DEF SaveSound
    <2> QED
      BY <1>10, <1>11, <1>12, <2>1
  <1> QED
    BY <1>9, <1>13, <1>14, <1>15

LEMMA WritePartGenerations ==
  ASSUME GenerationsInv, NEW s \in Stores, G!WritePart(s)
  PROVE  GenerationsInv'
  <1> USE DEF GenerationsInv
  <1> DEFINE c == saving[s]
             f == G!File(c.gen, Head(c.todo), memories[s].value)
             k == [c EXCEPT !.todo = Tail(@), !.written = @ \cup {f}]
  <1>1. /\ c # G!None /\ c.todo # <<>> /\ files' = files \cup {f}
        /\ saving' = [saving EXCEPT ![s].todo = Tail(@), ![s].written = @ \cup {f}]
        /\ UNCHANGED <<manifests, memories, answered, generations>>
    BY DEF G!WritePart
  <1>2. c \in [gen : Nat, todo : Seq(PartNames), written : SUBSET WholeFiles,
               previous : SUBSET FileNames, published : BOOLEAN]
    BY <1>1, SavingFacts
  <1>3. memories[s].value = c.gen /\ c.gen # 0 /\ c.gen <= generations
    BY <1>1, <1>2 DEF SaveSound, Disjoint, Uses
  <1>4. f \in WholeFiles /\ f.gen = c.gen /\ f.value = c.gen
    <2>1. Head(c.todo) \in PartNames
      BY <1>1, <1>2
    <2> QED
      BY <1>2, <1>3, <2>1 DEF G!File, WholeFiles
  <1> HIDE DEF f
  <1>5. /\ k.gen = c.gen /\ k.previous = c.previous /\ k.published = c.published
        /\ k.written = c.written \cup {f}
        /\ k \in [gen : Nat, todo : Seq(PartNames), written : SUBSET WholeFiles,
               previous : SUBSET FileNames, published : BOOLEAN]
    <2>1. Tail(c.todo) \in Seq(PartNames)
      BY <1>1, <1>2
    <2> QED
      BY <1>2, <1>4, <2>1
  <1>6. saving'[s] = k /\ \A t \in Stores : t # s => saving'[t] = saving[t]
    BY <1>1 DEF GenerationTypes
  <1>7. saving' = [saving EXCEPT ![s] = k]
    BY <1>1 DEF GenerationTypes
  <1>8. GenerationTypes'
    <2>1. saving' \in [Stores -> {G!None} \cup
                  [gen : Nat, todo : Seq(PartNames), written : SUBSET WholeFiles,
                   previous : SUBSET FileNames, published : BOOLEAN]]
      BY <1>5, <1>7 DEF GenerationTypes
    <2> QED
      BY <1>1, <1>4, <2>1 DEF GenerationTypes
  <1> HIDE DEF k, c
  <1>9. \A t, e : G!Manifest(t, e)' = G!Manifest(t, e)
    BY <1>1, SameManifests
  <1>10. EngineKept(s)' /\ AnswerKept(s)'
    BY <1>1, <1>9 DEF EngineKept, AnswerKept, G!Running
  <1>11. SaveSound(s)'
    <2>1. /\ G!Running(s) /\ memories[s].value = c.gen /\ c.gen # 0
          /\ \A x \in c.written : x \in files /\ x.gen = c.gen
          /\ \A n \in c.previous : n.gen # c.gen /\ n.gen # 0
          /\ c.published => G!Manifest(s, memories[s].engine).gen = c.gen
          /\ ~c.published => \A e \in EngineNames : G!Manifest(s, e).gen < c.gen
      BY <1>1 DEF SaveSound, c
    <2>2. memories' = memories /\ files' = files \cup {f}
      BY <1>1
    <2>3. \A x \in k.written : x \in files' /\ x.gen = c.gen
      BY <1>4, <1>5, <2>1, <2>2
    <2> QED
      BY <1>5, <1>6, <1>9, <2>1, <2>2, <2>3 DEF SaveSound, G!Running, G!None
  <1>12. Disjoint'
    <2>1. ASSUME NEW t \in Stores, NEW g \in Nat, Uses(t, g)' PROVE Uses(t, g)
      BY <1>1, <1>5, <1>6, <1>9, <2>1 DEF Uses, c
    <2> QED
      BY <1>1, <2>1, NothingUsed
  <1>13. FilesSound' /\ ManifestsSound'
    <2>1. FilesSound'
      BY <1>1, <1>2, <1>3, <1>4 DEF FilesSound, GenerationTypes
    <2>2. ManifestsSound'
      BY <1>1, <1>9 DEF ManifestsSound, ManifestSound
    <2> QED
      BY <2>1, <2>2
  <1>14. files \subseteq files' /\ generations' \in Nat /\ generations <= generations'
         /\ memories' = memories /\ answered' = answered
    BY <1>1 DEF GenerationTypes
  <1>15. \A t \in Stores : EngineKept(t)' /\ SaveSound(t)' /\ AnswerKept(t)'
    <2>1. ASSUME NEW t \in Stores, t # s PROVE EngineKept(t)' /\ SaveSound(t)' /\ AnswerKept(t)'
      BY <1>6, <1>9, <1>14, <2>1, OtherStore DEF SaveSound
    <2> QED
      BY <1>10, <1>11, <2>1
  <1> QED
    BY <1>8, <1>12, <1>13, <1>15

LEMMA PublishGenerations ==
  ASSUME GenerationsInv, OwnManifests, NEW s \in Stores, G!Publish(s)
  PROVE  GenerationsInv'
  <1> USE DEF GenerationsInv
  <1>a. PICK c, d, v : c = saving[s] /\ d = memories[s].engine /\ v = memories[s].value
    OBVIOUS
  <1> DEFINE b == <<ManifestOf[s], d>>
             m == [gen |-> c.gen, names |-> G!NamesOf(c.written), value |-> v]
             k == [c EXCEPT !.published = TRUE]
  <1>1. /\ c # G!None /\ ~c.published
        /\ manifests' = [manifests EXCEPT ![b] = m]
        /\ saving' = [saving EXCEPT ![s].published = TRUE]
        /\ UNCHANGED <<files, memories, answered, generations>>
    BY <1>a DEF G!Publish, G!Ready
  <1>2. c \in [gen : Nat, todo : Seq(PartNames), written : SUBSET WholeFiles,
               previous : SUBSET FileNames, published : BOOLEAN]
    BY <1>a, <1>1, SavingFacts
  <1>3. /\ G!Running(s) /\ v = c.gen /\ c.gen # 0
        /\ \A x \in c.written : x \in files /\ x.gen = c.gen
        /\ \A n \in c.previous : n.gen # c.gen /\ n.gen # 0
        /\ \A e \in EngineNames : G!Manifest(s, e).gen < c.gen
    BY <1>a, <1>1 DEF SaveSound
  <1>4. d \in EngineNames /\ d \in Engines
    BY <1>a, <1>3, SavingFacts DEF EngineKept, G!Running
  <1>5. /\ \A n \in m.names : n \in FileNames /\ n.gen = c.gen
                              /\ \E f \in files : f.gen = n.gen /\ f.part = n.part
        /\ m.gen = c.gen /\ m.value = c.gen
        /\ m \in [gen : Nat, names : SUBSET FileNames, value : Nat]
    <2>1. \A f \in c.written : f.gen \in Nat /\ f.part \in PartNames
      BY <1>2 DEF WholeFiles
    <2>2. G!NamesOf(c.written) \in SUBSET FileNames
      BY <2>1 DEF G!NamesOf, FileNames
    <2>3. \A n \in G!NamesOf(c.written) : \E f \in c.written : n.gen = f.gen /\ n.part = f.part
      BY DEF G!NamesOf
    <2> QED
      BY <1>2, <1>3, <2>2, <2>3
  <1>6. /\ k.gen = c.gen /\ k.previous = c.previous /\ k.published
        /\ k.written = c.written
        /\ k \in [gen : Nat, todo : Seq(PartNames), written : SUBSET WholeFiles,
               previous : SUBSET FileNames, published : BOOLEAN]
    BY <1>2
  <1>7. /\ saving' = [saving EXCEPT ![s] = k]
        /\ saving'[s] = k /\ \A t \in Stores : t # s => saving'[t] = saving[t]
    BY <1>a, <1>1 DEF GenerationTypes
  <1>8. /\ G!Manifest(s, d)' = m
        /\ \A e \in EngineNames : e # d => G!Manifest(s, e)' = G!Manifest(s, e)
        /\ \A t \in Stores, e \in EngineNames : t # s => G!Manifest(t, e)' = G!Manifest(t, e)
    <2> DEFINE K == Bases \X EngineNames
               R == {G!None} \cup [gen : Nat, names : SUBSET FileNames, value : Nat]
    <2>1. manifests \in [K -> R]
      BY DEF GenerationTypes
    <2>2. \A t \in Stores, e \in EngineNames : <<ManifestOf[t], e>> \in K
      BY DEF Bases
    <2>3. \A t \in Stores, e \in EngineNames : <<ManifestOf[t], e>> = b => t = s /\ e = d
      BY DEF OwnManifests
    <2> HIDE DEF K, R, m, b
    <2>4. \A t \in Stores, e \in EngineNames :
            manifests'[<<ManifestOf[t], e>>] =
              IF <<ManifestOf[t], e>> = b THEN m ELSE manifests[<<ManifestOf[t], e>>]
      BY <1>1, <2>1, <2>2
    <2>5. <<ManifestOf[s], d>> = b
      BY DEF b
    <2>6. \A t \in Stores, e \in EngineNames :
            G!Manifest(t, e)' = manifests'[<<ManifestOf[t], e>>]
      BY DEF G!Manifest
    <2>7. G!Manifest(s, d)' = m
      BY <1>4, <2>4, <2>5, <2>6
    <2>8. ASSUME NEW t \in Stores, NEW e \in EngineNames, ~(t = s /\ e = d)
          PROVE  G!Manifest(t, e)' = G!Manifest(t, e)
      <3>1. <<ManifestOf[t], e>> # b
        BY <2>3, <2>8
      <3>2. manifests'[<<ManifestOf[t], e>>] = manifests[<<ManifestOf[t], e>>]
        BY <2>4, <3>1
      <3> QED
        BY <3>2 DEF G!Manifest
    <2> QED
      BY <2>7, <2>8
  <1>9. GenerationTypes'
    <2>1. saving' \in [Stores -> {G!None} \cup
                  [gen : Nat, todo : Seq(PartNames), written : SUBSET WholeFiles,
                   previous : SUBSET FileNames, published : BOOLEAN]]
      BY <1>6, <1>7 DEF GenerationTypes
    <2>2. manifests' \in [Bases \X EngineNames ->
                     {G!None} \cup [gen : Nat, names : SUBSET FileNames, value : Nat]]
      <3> DEFINE K == Bases \X EngineNames
                 R == {G!None} \cup [gen : Nat, names : SUBSET FileNames, value : Nat]
      <3>1. manifests \in [K -> R] /\ m \in R
        BY <1>5 DEF GenerationTypes
      <3> HIDE DEF K, R, m, b
      <3>2. manifests' \in [K -> R]
        BY <1>1, <3>1
      <3> QED
        BY <3>2 DEF K, R
    <2> QED
      BY <1>1, <2>1, <2>2 DEF GenerationTypes
  <1> HIDE DEF k, m, b
  <1>10. m # G!None /\ \A e \in EngineNames : e # d => G!Manifest(s, e) = G!None
    <2>1. m # G!None
      BY <1>3, <1>5 DEF G!None
    <2> QED
      BY <1>a, <1>3, <2>1 DEF EngineKept
  <1>11. EngineKept(s)'
    BY <1>a, <1>1, <1>3, <1>4, <1>8, <1>10 DEF EngineKept, G!Running, G!None
  <1>12. SaveSound(s)'
    <2>1. memories' = memories /\ files' = files
      BY <1>1
    <2>2. G!Manifest(s, d)' = m /\ memories'[s].engine = d
      BY <1>a, <1>8, <2>1
    <2> QED
      BY <1>a, <1>3, <1>5, <1>6, <1>7, <1>8, <2>1, <2>2 DEF SaveSound, G!Running, G!None
  <1>13. AnswerKept(s)'
    <2> SUFFICES ASSUME answered'[s] # 0 PROVE AnswerKept(s)'
      BY DEF AnswerKept
    <2>1. PICK e \in EngineNames : G!Manifest(s, e) # G!None /\ G!Manifest(s, e).value >= answered[s]
      BY <1>1 DEF AnswerKept
    <2>2. /\ G!Manifest(s, e).value = G!Manifest(s, e).gen /\ G!Manifest(s, e).gen < c.gen
          /\ G!Manifest(s, e).gen \in Nat
      BY <1>3, <2>1, ManifestFacts DEF ManifestsSound, ManifestSound
    <2>3. answered[s] \in Nat /\ c.gen \in Nat
      BY <1>2 DEF GenerationTypes
    <2>4. m.value >= answered[s]
      BY <1>5, <2>1, <2>2, <2>3
    <2> QED
      BY <1>1, <1>4, <1>8, <1>10, <2>4 DEF AnswerKept, G!None
  <1>14. Disjoint'
    <2>1. ASSUME NEW t \in Stores, NEW g \in Nat, Uses(t, g)' PROVE Uses(t, g)
      <3>1. CASE t = s
        <4>1. (\E e \in EngineNames : G!Manifest(s, e)'.gen = g) => g = c.gen \/ \E e \in EngineNames : G!Manifest(s, e).gen = g
          BY <1>4, <1>5, <1>8
        <4>2. saving'[s].gen = c.gen /\ saving'[s].previous = c.previous
          BY <1>6, <1>7
        <4>3. g = c.gen \/ (\E e \in EngineNames : G!Manifest(s, e).gen = g) \/ \E n \in c.previous : n.gen = g
          BY <2>1, <3>1, <4>1, <4>2 DEF Uses, G!None
        <4> QED
          BY <1>a, <1>1, <2>1, <3>1, <4>3 DEF Uses
      <3>2. CASE t # s
        <4>1. saving'[t] = saving[t] /\ \A e \in EngineNames : G!Manifest(t, e)' = G!Manifest(t, e)
          BY <1>7, <1>8, <3>2
        <4> QED
          BY <2>1, <4>1 DEF Uses, G!None
      <3> QED
        BY <3>1, <3>2
    <2> QED
      BY <1>1, <2>1, NothingUsed
  <1>15. FilesSound' /\ ManifestsSound'
    <2>1. FilesSound'
      BY <1>1 DEF FilesSound
    <2>2. ASSUME NEW t \in Stores, NEW e \in EngineNames PROVE ManifestSound(G!Manifest(t, e))'
      <3>1. CASE t = s /\ e = d
        BY <1>1, <1>3, <1>5, <1>8, <3>1 DEF ManifestSound
      <3>2. CASE ~(t = s /\ e = d)
        <4>1. G!Manifest(t, e)' = G!Manifest(t, e) /\ files' = files
          BY <1>1, <1>8, <3>2
        <4>2. ManifestSound(G!Manifest(t, e))
          BY DEF ManifestsSound
        <4> QED
          BY <4>1, <4>2 DEF ManifestSound, G!None
      <3> QED
        BY <3>1, <3>2
    <2> QED
      BY <2>1, <2>2 DEF ManifestsSound
  <1>16. \A t \in Stores : EngineKept(t)' /\ SaveSound(t)' /\ AnswerKept(t)'
    <2>1. files' = files /\ generations' = generations /\ generations \in Nat
          /\ memories' = memories /\ answered' = answered
      BY <1>1 DEF GenerationTypes
    <2>2. ASSUME NEW t \in Stores, t # s PROVE EngineKept(t)' /\ SaveSound(t)' /\ AnswerKept(t)'
      BY <1>7, <1>8, <2>1, <2>2, OtherStore DEF SaveSound
    <2> QED
      BY <1>11, <1>12, <1>13, <2>2
  <1> QED
    BY <1>9, <1>14, <1>15, <1>16

LEMMA RemoveOneGenerations ==
  ASSUME GenerationsInv, NEW s \in Stores, G!RemoveOne(s)
  PROVE  GenerationsInv'
  <1> USE DEF GenerationsInv
  <1>a. PICK c : c = saving[s]
    OBVIOUS
  <1>1. PICK n \in c.previous :
          /\ saving' = [saving EXCEPT ![s].previous = @ \ {n}]
          /\ files' \in {files, {f \in files : [gen |-> f.gen, part |-> f.part] # n}}
    BY <1>a DEF G!RemoveOne
  <1>2. /\ c # G!None /\ c.published
        /\ UNCHANGED <<manifests, memories, answered, generations>>
    BY <1>a DEF G!RemoveOne, G!Removable
  <1> DEFINE k == [c EXCEPT !.previous = @ \ {n}]
  <1>3. c \in [gen : Nat, todo : Seq(PartNames), written : SUBSET WholeFiles,
               previous : SUBSET FileNames, published : BOOLEAN]
    BY <1>a, <1>2, SavingFacts
  <1>4. /\ G!Running(s) /\ memories[s].value = c.gen /\ c.gen # 0
        /\ \A x \in c.written : x \in files /\ x.gen = c.gen
        /\ \A x \in c.previous : x.gen # c.gen /\ x.gen # 0
        /\ G!Manifest(s, memories[s].engine).gen = c.gen
    BY <1>a, <1>2 DEF SaveSound
  <1>5. /\ k.gen = c.gen /\ k.previous = c.previous \ {n} /\ k.published
        /\ k.written = c.written
        /\ k \in [gen : Nat, todo : Seq(PartNames), written : SUBSET WholeFiles,
               previous : SUBSET FileNames, published : BOOLEAN]
    BY <1>2, <1>3
  <1>6. /\ saving' = [saving EXCEPT ![s] = k]
        /\ saving'[s] = k /\ \A t \in Stores : t # s => saving'[t] = saving[t]
    BY <1>a, <1>1 DEF GenerationTypes
  <1> HIDE DEF k
  <1>7. \A t, e : G!Manifest(t, e)' = G!Manifest(t, e)
    BY <1>2, SameManifests
  <1>8. n \in FileNames /\ n.gen \in Nat /\ n.gen # 0 /\ n.gen # c.gen /\ Uses(s, n.gen)
    <2>1. n \in FileNames
      BY <1>3
    <2>2. n.gen \in Nat
      BY <2>1 DEF FileNames
    <2> QED
      BY <1>a, <1>2, <1>4, <2>1, <2>2 DEF Uses
  <1>9. /\ files' \subseteq files
        /\ \A f \in files : f.gen # n.gen => f \in files'
    BY <1>1
  <1>10. \A t \in Stores, e \in EngineNames : G!Manifest(t, e) # G!None => G!Manifest(t, e).gen # n.gen
    <2> SUFFICES ASSUME NEW t \in Stores, NEW e \in EngineNames,
                        G!Manifest(t, e) # G!None, G!Manifest(t, e).gen = n.gen
                 PROVE  FALSE
      OBVIOUS
    <2>1. Uses(t, n.gen)
      BY <1>8 DEF Uses
    <2>2. t = s
      BY <1>8, <2>1 DEF Disjoint
    <2>3. e = memories[s].engine
      BY <1>4, <2>2 DEF EngineKept
    <2> QED
      BY <1>4, <1>8, <2>2, <2>3
  <1>11. \A t \in Stores : t # s => saving[t].gen # n.gen
    BY <1>8 DEF Disjoint, Uses
  <1>12. GenerationTypes'
    <2>1. saving' \in [Stores -> {G!None} \cup
                  [gen : Nat, todo : Seq(PartNames), written : SUBSET WholeFiles,
                   previous : SUBSET FileNames, published : BOOLEAN]]
      BY <1>5, <1>6 DEF GenerationTypes
    <2>2. files' \subseteq WholeFiles
      BY <1>9 DEF GenerationTypes
    <2> QED
      BY <1>2, <2>1, <2>2 DEF GenerationTypes
  <1>13. FilesSound'
    BY <1>2, <1>9 DEF FilesSound
  <1>14. ManifestsSound'
    <2> SUFFICES ASSUME NEW t \in Stores, NEW e \in EngineNames PROVE ManifestSound(G!Manifest(t, e))'
      BY DEF ManifestsSound
    <2>1. G!Manifest(t, e)' = G!Manifest(t, e) /\ ManifestSound(G!Manifest(t, e))
      BY <1>7 DEF ManifestsSound
    <2>2. G!Manifest(t, e) # G!None => G!Manifest(t, e).gen # n.gen
      BY <1>10
    <2> QED
      BY <1>9, <2>1, <2>2 DEF ManifestSound, G!None
  <1>15. EngineKept(s)' /\ AnswerKept(s)'
    BY <1>2, <1>7 DEF EngineKept, AnswerKept, G!Running, G!None
  <1>16. SaveSound(s)'
    <2>1. memories' = memories /\ \A x \in c.written : x \in files'
      BY <1>2, <1>4, <1>8, <1>9
    <2> QED
      BY <1>4, <1>5, <1>6, <1>7, <2>1 DEF SaveSound, G!Running, G!None
  <1>17. Disjoint'
    <2>1. ASSUME NEW t \in Stores, NEW g \in Nat, Uses(t, g)' PROVE Uses(t, g)
      BY <1>a, <1>2, <1>5, <1>6, <1>7, <2>1 DEF Uses, G!None
    <2> QED
      BY <1>2, <2>1, NothingUsed
  <1>18. \A t \in Stores : EngineKept(t)' /\ SaveSound(t)' /\ AnswerKept(t)'
    <2>1. generations' = generations /\ generations \in Nat /\ memories' = memories /\ answered' = answered
      BY <1>2 DEF GenerationTypes
    <2>2. ASSUME NEW t \in Stores, t # s PROVE EngineKept(t)' /\ SaveSound(t)' /\ AnswerKept(t)'
      <3>1. saving[t] # G!None => \A f \in saving[t].written : f \in files'
        BY <1>9, <1>11, <2>2 DEF SaveSound
      <3> QED
        BY <1>6, <1>7, <2>1, <2>2, <3>1, OtherStore
    <2> QED
      BY <1>15, <1>16, <2>2
  <1> QED
    BY <1>12, <1>13, <1>14, <1>17, <1>18

LEMMA StepGenerations ==
  ASSUME GenerationsInv, OwnManifests, OneEngine, G!Next
  PROVE  GenerationsInv'
  <1>1. PICK s \in Stores :
          \/ \E e \in Engines : G!Start(s, e)
          \/ \E d \in Deltas : G!Begin(s, d)
          \/ G!Load(s) \/ G!WritePart(s) \/ G!Publish(s) \/ G!RemoveOne(s) \/ G!Return(s)
          \/ G!Raise(s) \/ G!Crash(s)
    BY DEF G!Next
  <1>2. CASE (\E e \in Engines : G!Start(s, e)) \/ G!Load(s) \/ G!Crash(s) \/ G!Return(s) \/ G!Raise(s)
    BY <1>2, QuietGenerations
  <1>3. CASE \E d \in Deltas : G!Begin(s, d)
    BY <1>3, BeginGenerations
  <1>4. CASE G!WritePart(s)
    BY <1>4, WritePartGenerations
  <1>5. CASE G!Publish(s)
    BY <1>5, PublishGenerations
  <1>6. CASE G!RemoveOne(s)
    BY <1>6, RemoveOneGenerations
  <1> QED
    BY <1>1, <1>2, <1>3, <1>4, <1>5, <1>6

LEMMA SameGenerations ==
  ASSUME GenerationsInv, UNCHANGED directory
  PROVE  GenerationsInv'
  <1>1. UNCHANGED <<files, manifests, memories, saving, answered, generations>>
    BY DEF directory
  <1>2. \A t, e : G!Manifest(t, e)' = G!Manifest(t, e)
    BY <1>1, SameManifests
  <1>3. GenerationTypes'
    BY <1>1 DEF GenerationsInv, GenerationTypes
  <1>4. FilesSound' /\ ManifestsSound'
    BY <1>1, SameFiles DEF GenerationsInv
  <1>5. Disjoint'
    <2>1. \A s \in Stores : \A g \in Nat : Uses(s, g)' => Uses(s, g)
      BY <1>1, <1>2 DEF Uses, G!None
    <2> QED
      BY <1>1, <2>1, NothingUsed DEF GenerationsInv
  <1>6. ASSUME NEW t \in Stores PROVE EngineKept(t)' /\ SaveSound(t)' /\ AnswerKept(t)'
    <2>1. /\ GenerationTypes /\ EngineKept(t) /\ SaveSound(t) /\ AnswerKept(t)
          /\ generations' \in Nat /\ generations <= generations'
      BY <1>1 DEF GenerationsInv, GenerationTypes
    <2>2. saving[t] # G!None => \A f \in saving[t].written : f \in files'
      BY <1>1 DEF GenerationsInv, SaveSound
    <2> QED
      BY <1>1, <1>2, <2>1, <2>2, OtherStore
  <1> QED
    BY <1>3, <1>4, <1>5, <1>6 DEF GenerationsInv

\* A listed generation is whole: what it names is there, and of one mutation.
LEMMA WholeGeneration ==
  ASSUME GenerationsInv, NEW s \in Stores, NEW e \in EngineNames, G!Manifest(s, e) # G!None
  PROVE  G!Verified(G!Manifest(s, e))
  <1> DEFINE m == G!Manifest(s, e)
  <1>1. /\ m.gen # 0 /\ m.value = m.gen
        /\ \A n \in m.names : n.gen = m.gen /\ \E f \in files : f.gen = n.gen /\ f.part = n.part
    BY DEF GenerationsInv, ManifestsSound, ManifestSound
  <1>2. m.names \subseteq FileNames
    BY ManifestFacts DEF GenerationsInv
  <1>3. \A f \in G!Listed(m) : f \in files /\ [gen |-> f.gen, part |-> f.part] \in m.names
    BY DEF G!Listed
  <1>4. \A f \in G!Listed(m) : f.gen = m.gen /\ f.value = m.value
    BY <1>1, <1>3 DEF GenerationsInv, FilesSound
  <1>5. \A n \in m.names : \E f \in G!Listed(m) : n = [gen |-> f.gen, part |-> f.part]
    <2> SUFFICES ASSUME NEW n \in m.names PROVE \E f \in G!Listed(m) : n = [gen |-> f.gen, part |-> f.part]
      OBVIOUS
    <2>1. PICK f \in files : f.gen = n.gen /\ f.part = n.part
      BY <1>1
    <2>2. n = [gen |-> f.gen, part |-> f.part]
      BY <1>2, <2>1 DEF FileNames
    <2>3. f \in G!Listed(m)
      BY <2>2 DEF G!Listed
    <2> QED
      BY <2>2, <2>3
  <1>6. m.names = G!NamesOf(G!Listed(m))
    BY <1>3, <1>5 DEF G!NamesOf
  <1> QED
    BY <1>4, <1>6 DEF G!Verified

LEMMA RecoversLemma ==
  ASSUME GenerationsInv
  PROVE  Recovers
  <1> SUFFICES ASSUME NEW s \in Stores, answered[s] > 0
               PROVE  LET m == G!Manifest(s, G!Selected(s)) IN G!Verified(m) /\ m.value >= answered[s]
    BY DEF Recovers, G!Recovers
  <1>1. answered[s] # 0
    OBVIOUS
  <1>2. PICK e \in EngineNames : G!Manifest(s, e) # G!None /\ G!Manifest(s, e).value >= answered[s]
    BY <1>1 DEF GenerationsInv, AnswerKept
  <1>3. G!Selected(s) = e
    BY <1>2 DEF GenerationsInv, EngineKept, G!Selected, EngineNames
  <1> QED
    BY <1>2, <1>3, WholeGeneration

LEMMA GenerationTypesLemma ==
  ASSUME GenerationsInv
  PROVE  G!TypeOK
  <1>1. \A f \in files : f.gen \in 1..generations /\ f.value \in 1..generations
    BY DEF GenerationsInv, FilesSound
  <1>2. \A s \in Stores : G!Running(s) =>
          memories[s].engine \in {"delta", "labels"} /\ memories[s].value \in 0..generations
    BY SavingFacts DEF GenerationsInv, EngineKept, G!Running, GenerationTypes, EngineNames
  <1>3. \A s \in Stores : saving[s] # G!None => G!Running(s) /\ saving[s].gen \in 1..generations
    <2> SUFFICES ASSUME NEW s \in Stores, saving[s] # G!None
                 PROVE  G!Running(s) /\ saving[s].gen \in 1..generations
      OBVIOUS
    <2>1. G!Running(s) /\ saving[s].gen # 0 /\ saving[s].gen \in Nat
      BY SavingFacts DEF GenerationsInv, SaveSound
    <2>2. saving[s].gen <= generations /\ generations \in Nat
      BY <2>1 DEF GenerationsInv, Disjoint, Uses, GenerationTypes
    <2> QED
      BY <2>1, <2>2
  <1>4. \A m \in DOMAIN manifests : manifests[m] # G!None => manifests[m].value \in 1..generations
    <2> SUFFICES ASSUME NEW m \in DOMAIN manifests, manifests[m] # G!None
                 PROVE  manifests[m].value \in 1..generations
      OBVIOUS
    <2>1. PICK s \in Stores, e \in EngineNames : m = <<ManifestOf[s], e>>
      BY DEF GenerationsInv, GenerationTypes, Bases
    <2>2. manifests[m] = G!Manifest(s, e)
      BY <2>1 DEF G!Manifest
    <2>3. G!Manifest(s, e).gen # 0 /\ G!Manifest(s, e).value = G!Manifest(s, e).gen /\ G!Manifest(s, e).gen \in Nat
      BY <2>2, ManifestFacts DEF GenerationsInv, ManifestsSound, ManifestSound
    <2>4. G!Manifest(s, e).gen <= generations /\ generations \in Nat
      BY <2>3 DEF GenerationsInv, Disjoint, Uses, GenerationTypes
    <2> QED
      BY <2>2, <2>3, <2>4
  <1>5. answered \in [Stores -> 0..generations]
    <2>1. ASSUME NEW s \in Stores PROVE answered[s] <= generations
      <3>1. answered[s] \in Nat /\ generations \in Nat
        BY DEF GenerationsInv, GenerationTypes
      <3>2. CASE answered[s] # 0
        <4>1. PICK e \in EngineNames : G!Manifest(s, e) # G!None /\ G!Manifest(s, e).value >= answered[s]
          BY <3>2 DEF GenerationsInv, AnswerKept
        <4>2. G!Manifest(s, e).gen # 0 /\ G!Manifest(s, e).value = G!Manifest(s, e).gen /\ G!Manifest(s, e).gen \in Nat
          BY <4>1, ManifestFacts DEF GenerationsInv, ManifestsSound, ManifestSound
        <4>3. G!Manifest(s, e).gen <= generations
          BY <4>2 DEF GenerationsInv, Disjoint, Uses
        <4> QED
          BY <3>1, <4>1, <4>2, <4>3
      <3> QED
        BY <3>1, <3>2
    <2> QED
      BY <2>1 DEF GenerationsInv, GenerationTypes
  <1> QED
    BY <1>1, <1>2, <1>3, <1>4, <1>5 DEF G!TypeOK

-----------------------------------------------------------------------------
(* The theorems.                                                           *)

LEMMA ClientAlways ==
  ASSUME Apart
  PROVE  FilesSpec => []RegistryInv
  <1>1. FilesInit => RegistryInv
    BY InitRegistry DEF FilesInit
  <1>2. RegistryInv /\ [FilesNext]_<<vars, directory, which>> => RegistryInv'
    BY StepRegistry DEF FilesNext
  <1> QED
    BY <1>1, <1>2, PTL DEF FilesSpec

LEMMA MemoriesAlways ==
  ASSUME OwnManifests, OneEngine
  PROVE  FilesSpec => []GenerationsInv
  <1>1. FilesInit => GenerationsInv
    BY InitGenerations DEF FilesInit
  <1>2. GenerationsInv /\ [FilesNext]_<<vars, directory, which>> => GenerationsInv'
    BY StepGenerations, SameGenerations DEF FilesNext
  <1> QED
    BY <1>1, <1>2, PTL DEF FilesSpec

\* The two halves of an open collection are of one mutation: whatever the
\* number of collections and the steps a process dies or fails before, if
\* that is never between a mutation's two files (save, load).
THEOREM FilesWhole ==
  ASSUME Apart, "sidecar" \notin Breaks
  PROVE  FilesSpec => []Whole
  <1>1. FilesInit => Matched
    BY InitHalves DEF FilesInit
  <1>2. RegistryInv /\ Matched /\ [FilesNext]_<<vars, directory, which>> => Matched'
    BY StepMatched DEF FilesNext
  <1>3. Matched => Whole
    BY DEF Matched, Whole
  <1> QED
    BY <1>1, <1>2, <1>3, ClientAlways, PTL DEF FilesSpec

\* What a new Client finds between two calls is a collection or nothing, if
\* no process dies or fails inside a creation or a deletion, once it began.
THEOREM FilesTidy ==
  ASSUME Apart, "register" \notin FailAt,
         {"create_vectors", "create_sidecar", "unlink_sidecar", "unregister"} \cap Breaks = {}
  PROVE  FilesSpec => []Tidy
  <1>1. FilesInit => Settled
    BY InitHalves DEF FilesInit
  <1>2. RegistryInv /\ Settled /\ [FilesNext]_<<vars, directory, which>> => Settled'
    BY StepSettled DEF FilesNext
  <1>3. RegistryInv /\ Settled => Tidy
    <2> SUFFICES ASSUME RegistryInv, Settled, task = NoTask PROVE Tidy
      BY DEF Tidy, Free
    <2>1. \A n \in stored : Loadable(n)
      BY DEF RegistryInv, ClientTypes, Settled, HasVectors, HasSidecar, Loadable, Doing, NoTask
    <2>2. \A f \in Files : vectors[f] # Absent \/ sidecars[f] # Absent => \E n \in stored : FileOf[n] = f
      <3> SUFFICES ASSUME NEW f \in Files, vectors[f] # Absent \/ sidecars[f] # Absent
                   PROVE  \E n \in stored : FileOf[n] = f
        OBVIOUS
      <3>1. PICK n \in Names : FileOf[n] = f
        BY DEF RegistryInv, Named
      <3>2. n \in stored
        BY <3>1 DEF RegistryInv, Registered, RegisteredAt, HasVectors, HasSidecar
      <3> QED
        BY <3>1, <3>2
    <2> QED
      BY <2>1, <2>2 DEF Tidy
  <1> QED
    BY <1>1, <1>2, <1>3, ClientAlways, PTL DEF FilesSpec

\* Whenever the process of a memory dies, what it left is a whole generation
\* with every mutation that returned, for any number of stores, branches and
\* saves (branchable_memory.py: "never a mixture").
THEOREM FilesRecover ==
  ASSUME OwnManifests, OneEngine
  PROVE  FilesSpec => []Recovers
  <1>1. GenerationsInv => Recovers
    BY RecoversLemma
  <1> QED
    BY <1>1, MemoriesAlways, PTL

\* What was acknowledged can be opened again, if no process dies or fails in a
\* deletion, after it took the first file, and a closed collection that a
\* create after a delete of an unopened one may return is not counted.
THEOREM FilesOpen ==
  ASSUME Apart, OwnManifests, OneEngine, ~ClosedCounts,
         {"unlink_sidecar", "unregister"} \cap Breaks = {}
  PROVE  FilesSpec => []Opens
  <1>1. FilesInit => Kept
    BY InitHalves DEF FilesInit
  <1>2. RegistryInv /\ Kept /\ [FilesNext]_<<vars, directory, which>> => Kept'
    BY StepKept DEF FilesNext
  <1>3. RegistryInv /\ Kept => Reopens
    <2> SUFFICES ASSUME RegistryInv, Kept, task = NoTask, NEW n \in Names, acked[n] # Absent
                 PROVE  n \in registry /\ n \in stored /\ Loadable(n) /\ OnDisk(n).vectors >= acked[n]
      BY DEF Reopens, Free
    <2>1. ~Doing(n, {"unlink_sidecar", "unregister"})
      BY DEF Doing, NoTask
    <2>2. n \in registry /\ n \in stored /\ HasVectors(n) /\ HasSidecar(n) /\ vectors[FileOf[n]] >= acked[n]
      BY <2>1 DEF Kept
    <2> QED
      BY <2>2 DEF Loadable, OnDisk, Contents, HasVectors, HasSidecar
  <1>4. RegistryInv => TypeOK
    BY TaskFacts DEF RegistryInv, ClientTypes, TypeOK, Revision
  <1>5. RegistryInv /\ Kept /\ GenerationsInv => Opens
    BY <1>3, <1>4, GenerationTypesLemma DEF Opens
  <1> QED
    BY <1>1, <1>2, <1>5, ClientAlways, MemoriesAlways, PTL DEF FilesSpec

=============================================================================
