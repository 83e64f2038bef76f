--------------------------- MODULE MCDevWarehouse ---------------------------
EXTENDS DevWarehouse, TLC

\* Processes and contents are interchangeable.
Symmetry == Permutations(Clients) \cup Permutations(Contents)
=============================================================================
