--------------------------- MODULE MCBudgetLedger ---------------------------
EXTENDS BudgetLedger, TLC

\* Clients and reservation ids are interchangeable.
Symmetry == Permutations(Clients) \cup Permutations(Reservations)
=============================================================================
