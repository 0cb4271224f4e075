--------------------------- MODULE MCActionOutbox ---------------------------
EXTENDS ActionOutbox, TLC

\* The workers are interchangeable.
Symmetry == Permutations(Workers)
=============================================================================
