--------------------------- MODULE MCLocalProfile ---------------------------
EXTENDS LocalProfile, TLC

\* Runs and keys are interchangeable.
Symmetry == Permutations(Runs) \cup Permutations(Keys)
=============================================================================
