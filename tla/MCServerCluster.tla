--------------------------- MODULE MCServerCluster ---------------------------
EXTENDS ServerCluster, TLC
Symmetry == Permutations(Clients) \cup Permutations(Pids)
=============================================================================
