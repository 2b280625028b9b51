----------------------------- MODULE MCCollection -----------------------------
(* Instances of Collection for TLC.                                        *)
EXTENDS Collection, TLC

CONSTANTS k1, k2, m1, m2

Symmetric == Permutations(Keys) \cup Permutations(Metas)

=============================================================================
