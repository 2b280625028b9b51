------------------------------- MODULE MCFiles -------------------------------
(***************************************************************************)
(* The two ways the Python layers keep themselves on disk, side by side in *)
(* one instance: the registry and files of a Client, and the generations   *)
(* of a memory.  They share nothing; a behaviour is of one or the other.   *)
(***************************************************************************)
EXTENDS Client, Sequences

CONSTANTS Stores, ManifestOf, Engines, Deltas, Renewed, MaxSaves

ASSUME MemoryAssumption == Engines \subseteq {"delta", "labels"} /\ Deltas \subseteq Nat

VARIABLES files, manifests, memories, saving, answered, generations,
          which      \* whose behaviour this is

directory == <<files, manifests, memories, saving, answered, generations>>

G == INSTANCE Generations

\* Each name, and each store, has files of its own ...
OwnFiles == [n \in Names |-> n]
OwnManifest == [s \in Stores |-> s]

\* ... but "v1.0" and "v1.1" do not: with_suffix drops what follows the dot.
OneFile == [n \in Names |-> CHOOSE f \in Files : TRUE]
OneManifest == [s \in Stores |-> "agent"]

FilesInit == Init /\ G!Init /\ which \in {"client", "memory"}
FilesNext ==
  \/ which = "client" /\ Next /\ UNCHANGED <<directory, which>>
  \/ which = "memory" /\ G!Next /\ UNCHANGED <<vars, which>>

FilesSpec == FilesInit /\ [][FilesNext]_<<vars, directory, which>>

\* What is on disk can be opened at any moment, whoever died before (Client's
\* and Generations' types, and Client's Reopens).
Opens == TypeOK /\ G!TypeOK /\ Reopens

\* Generations' Recovers: what is on disk always loads and has every mutation
\* that returned ("a crash can restore either the previous complete generation
\* or this complete one, never a mixture", branchable_memory.py:516).
Recovers == G!Recovers

\* Generations' NoOrphans: no file is left that no manifest will ever name.
NoOrphans == G!NoOrphans
=============================================================================
