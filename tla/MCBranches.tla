------------------------------ MODULE MCBranches ------------------------------
(* Small instances of BranchableMemory for TLC.                            *)
EXTENDS BranchableMemory, TLC

Symmetry == Permutations(Agents) \cup Permutations(Names)
=============================================================================
