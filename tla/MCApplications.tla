--------------------------- MODULE MCApplications ---------------------------
EXTENDS Applications, TLC

\* Ids, clients and what is drawn are interchangeable.
Symmetry == Permutations(Clients) \cup Permutations(Versions)
              \cup Permutations(Scenes) \cup Permutations(Drawings)
=============================================================================
