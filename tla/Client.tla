-------------------------------- MODULE Client --------------------------------
(***************************************************************************)
(* client.py with Collection.save and load: named collections in a         *)
(* directory, a registry of their names, and two checkpoint files for each *)
(* that every mutation rewrites.  The contents of a collection are the     *)
(* number of the mutation that left them.  A call is a series of file      *)
(* operations, each atomic (a rename or an unlink); the process may be     *)
(* killed before any of those that CrashBefore names, and those that       *)
(* FailAt names may raise.                                                 *)
(***************************************************************************)
EXTENDS Naturals, FiniteSets

CONSTANTS Names,
          Files,
          FileOf,        \* the path without suffix that a name's files share
          CrashBefore,   \* the steps before which the process may be killed
          FailAt,        \* the steps that may fail, with the disk full
          MaxRevision,   \* bound on the mutations of a collection
          ClosedCounts   \* a closed collection that create returns counts as created

ASSUME FilesAssumption ==
  FileOf \in [Names -> Files] /\ MaxRevision \in Nat /\ ClosedCounts \in BOOLEAN

VARIABLES stored,        \* collections.json
          vectors,       \* <base>.cvec
          sidecars,      \* <base>.meta
          registry,      \* _registry, in memory
          open,          \* _open: the contents of each open collection, or that it is closed
          task,          \* the call under way: its next file operation
          todo,          \* what reset() has left to delete
          acked          \* the last mutation of each name that returned

disk == <<stored, vectors, sidecars>>
memory == <<registry, open, task, todo>>
vars == <<disk, memory, acked>>

Absent == MaxRevision + 1
NoTask == [step |-> "idle"]
Steps == {"idle", "register", "create_vectors", "create_sidecar", "vectors", "sidecar",
          "unlink_vectors", "unlink_sidecar", "unregister"}
Contents(v, s) == [vectors |-> v, sidecar |-> s]
NotOpen == Contents(Absent, Absent)           \* no entry in _open
Closed == Contents(Absent + 1, Absent + 1)    \* an entry whose collection is closed

Init ==
  /\ stored = {}
  /\ vectors = [f \in Files |-> Absent]
  /\ sidecars = [f \in Files |-> Absent]
  /\ registry = {}
  /\ open = [n \in Names |-> NotOpen]
  /\ task = NoTask
  /\ todo = {}
  /\ acked = [n \in Names |-> Absent]

IsOpen(n) == open[n] \notin {NotOpen, Closed}
Free == task = NoTask /\ todo = {}
Proceed(step, n) == task' = [step |-> step, name |-> n]

\* get_or_create_collection of a name that is not registered: the name goes
\* into the registry in memory, then the files follow.
Create(n) ==
  /\ Free /\ open[n] = NotOpen /\ n \notin registry
  /\ registry' = registry \cup {n}
  /\ Proceed("register", n)
  /\ UNCHANGED <<disk, open, todo, acked>>

\* _write_registry
WriteRegistry ==
  /\ task.step \in {"register", "unregister"}
  /\ stored' = registry
  /\ \/ task.step = "register" /\ Proceed("create_vectors", task.name) /\ UNCHANGED acked
     \/ /\ task.step = "unregister" /\ task' = NoTask
        /\ acked' = [acked EXCEPT ![task.name] = Absent]
  /\ UNCHANGED <<vectors, sidecars, registry, open, todo>>

\* What is saved: a new collection is not in _open yet.
Saved(n) == IF IsOpen(n) THEN open[n] ELSE Contents(0, 0)

\* save: the native checkpoint replaces <base>.cvec ...
SaveVectors ==
  /\ task.step \in {"create_vectors", "vectors"}
  /\ vectors' = [vectors EXCEPT ![FileOf[task.name]] = Saved(task.name).vectors]
  /\ Proceed(IF task.step = "vectors" THEN "sidecar" ELSE "create_sidecar", task.name)
  /\ UNCHANGED <<stored, sidecars, registry, open, todo, acked>>

\* Mutant of SaveSidecar: a mutation rewrites the vectors only.
SkipSidecar ==
  LET n == task.name IN
  /\ task.step \in {"create_sidecar", "sidecar"}
  /\ sidecars' = [sidecars EXCEPT ![FileOf[n]] = IF task.step = "sidecar" THEN @ ELSE 0]
  /\ open' = [open EXCEPT ![n] = Saved(n)]
  /\ acked' = [acked EXCEPT ![n] = Saved(n).sidecar]
  /\ task' = NoTask
  /\ UNCHANGED <<stored, vectors, registry, todo>>

\* ... then the pickled sidecar replaces <base>.meta, and the call returns.
SaveSidecar ==
  LET n == task.name IN
  /\ task.step \in {"create_sidecar", "sidecar"}
  /\ sidecars' = [sidecars EXCEPT ![FileOf[n]] = Saved(n).sidecar]
  /\ open' = [open EXCEPT ![n] = Saved(n)]
  /\ acked' = [acked EXCEPT ![n] = Saved(n).sidecar]
  /\ task' = NoTask
  /\ UNCHANGED <<stored, vectors, registry, todo>>

\* The disk is full: save raises, and what it saved stays in memory.
SaveFails ==
  /\ task.step \in FailAt
  /\ task' = NoTask
  /\ UNCHANGED <<disk, registry, open, todo, acked>>

Loadable(n) == vectors[FileOf[n]] # Absent /\ sidecars[FileOf[n]] # Absent
OnDisk(n) == Contents(vectors[FileOf[n]], sidecars[FileOf[n]])

\* get_or_create_collection of a name that was deleted unopened returns the
\* closed collection that _open still holds: nothing is registered or written.
Recreate(n) ==
  /\ Free /\ open[n] = Closed /\ n \notin registry
  /\ acked' = IF ClosedCounts THEN [acked EXCEPT ![n] = 0] ELSE acked
  /\ UNCHANGED <<disk, memory>>

\* A registered collection is opened by loading both its files.
Load(n) ==
  /\ Free /\ open[n] = NotOpen /\ n \in registry /\ Loadable(n)
  /\ open' = [open EXCEPT ![n] = OnDisk(n)]
  /\ UNCHANGED <<disk, registry, task, todo, acked>>

\* Mutant of Mutate: the checkpoint is left to close().
MutateUnsaved(n) ==
  /\ Free /\ IsOpen(n)
  /\ open[n].vectors < MaxRevision /\ open[n].sidecar < MaxRevision
  /\ open' = [open EXCEPT ![n] = Contents(open[n].vectors + 1, open[n].vectors + 1)]
  /\ acked' = [acked EXCEPT ![n] = open[n].vectors + 1]
  /\ UNCHANGED <<disk, registry, task, todo>>

\* add, update, delete or vacuum of the collection, up to its checkpoint.
Mutate(n) ==
  /\ Free /\ IsOpen(n)
  /\ open[n].vectors < MaxRevision /\ open[n].sidecar < MaxRevision
  /\ open' = [open EXCEPT ![n] = Contents(open[n].vectors + 1, open[n].vectors + 1)]
  /\ Proceed("vectors", n)
  /\ UNCHANGED <<disk, registry, todo, acked>>

\* delete_collection takes the collection out of _open and closes it.  If it
\* was not there it is loaded first, through get_collection, so one that cannot
\* be loaded cannot be deleted, and the closed collection stays in _open.
BeginDelete(n) ==
  /\ n \in registry /\ (open[n] # NotOpen \/ Loadable(n))
  /\ open' = [open EXCEPT ![n] = IF @ = NotOpen THEN Closed ELSE NotOpen]
  /\ Proceed("unlink_vectors", n)

DeleteCollection(n) ==
  /\ Free /\ BeginDelete(n)
  /\ UNCHANGED <<disk, registry, todo, acked>>

UnlinkVectors ==
  /\ task.step = "unlink_vectors"
  /\ vectors' = [vectors EXCEPT ![FileOf[task.name]] = Absent]
  /\ Proceed("unlink_sidecar", task.name)
  /\ UNCHANGED <<stored, sidecars, registry, open, todo, acked>>

\* Mutant of UnlinkSidecar: one of the two files stays.
LeaveSidecar ==
  /\ task.step = "unlink_sidecar"
  /\ registry' = registry \ {task.name}
  /\ Proceed("unregister", task.name)
  /\ UNCHANGED <<disk, open, todo, acked>>

UnlinkSidecar ==
  /\ task.step = "unlink_sidecar"
  /\ sidecars' = [sidecars EXCEPT ![FileOf[task.name]] = Absent]
  /\ registry' = registry \ {task.name}
  /\ Proceed("unregister", task.name)
  /\ UNCHANGED <<stored, vectors, open, todo, acked>>

\* Mutant of Reset: it takes names that this client never registered.
ResetEvery ==
  /\ Free /\ registry # {}
  /\ todo' = Names
  /\ UNCHANGED <<disk, registry, open, task, acked>>

\* reset deletes what was registered when it was called, one by one.
Reset ==
  /\ Free /\ registry # {}
  /\ todo' = registry
  /\ UNCHANGED <<disk, registry, open, task, acked>>

ResetNext(n) ==
  /\ task = NoTask /\ n \in todo
  /\ BeginDelete(n)
  /\ todo' = todo \ {n}
  /\ UNCHANGED <<disk, registry, acked>>

Close ==
  /\ Free
  /\ open' = [n \in Names |-> NotOpen]
  /\ UNCHANGED <<disk, registry, task, todo, acked>>

\* The process is killed and a new Client reads the registry.
Restart ==
  /\ task.step \in CrashBefore
  /\ registry' = stored
  /\ open' = [n \in Names |-> NotOpen]
  /\ task' = NoTask /\ todo' = {}
  /\ UNCHANGED <<disk, acked>>

Next ==
  \/ \E n \in Names : \/ Create(n) \/ Recreate(n) \/ Load(n) \/ Mutate(n)
                      \/ DeleteCollection(n) \/ ResetNext(n)
  \/ WriteRegistry \/ SaveVectors \/ SaveSidecar \/ SaveFails
  \/ UnlinkVectors \/ UnlinkSidecar \/ Reset \/ Close \/ Restart

Spec == Init /\ [][Next]_vars

-----------------------------------------------------------------------------
(* Properties.                                                             *)

Revision == 0..Absent

TypeOK ==
  /\ stored \subseteq Names /\ registry \subseteq Names
  /\ vectors \in [Files -> Revision] /\ sidecars \in [Files -> Revision]
  /\ open \in [Names -> [vectors : Revision, sidecar : Revision] \cup {Closed}]
  /\ task.step \in Steps
  /\ todo \subseteq registry
  /\ acked \in [Names -> Revision]

\* A collection whose creation returned and that is not open can be opened,
\* and has every mutation that returned (Client: "reopening the client
\* requires no separate save call").  The closed collection that a create after
\* a delete may return is not counted unless ClosedCounts: it cannot be opened.
Reopens ==
  Free => \A n \in Names :
    acked[n] # Absent /\ ~IsOpen(n) =>
      /\ n \in registry /\ n \in stored
      /\ Loadable(n)
      /\ OnDisk(n).vectors >= acked[n]

\* The two halves of an open collection are of the same mutation (save, load).
Whole == \A n \in Names : open[n].vectors = open[n].sidecar

\* What a new Client finds is either a collection or nothing: every stored
\* name has both files, and every file belongs to a stored name.
Tidy ==
  Free => /\ \A n \in stored : Loadable(n)
          /\ \A f \in Files :
               vectors[f] # Absent \/ sidecars[f] # Absent =>
                 \E n \in stored : FileOf[n] = f

=============================================================================
