--------------------------- MODULE MCChronoIndex ---------------------------
\* Constants and symmetry for the model checking of ChronoIndex.
EXTENDS ChronoIndexInv, TLC

Symmetric == Permutations(Ids) \cup Permutations(Slots)
=============================================================================
