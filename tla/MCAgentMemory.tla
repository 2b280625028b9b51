---------------------------- MODULE MCAgentMemory ----------------------------
(* Instances of AgentMemory for TLC.                                       *)
EXTENDS AgentMemory, TLC

Symmetry == Permutations(Names) \cup Permutations(Agents)

\* The memory with a checkpoint path, whose process may be killed in a merge.
KilledNext == Next \/ MergeKilled
KilledSpec == Init /\ [][KilledNext]_vars
=============================================================================
