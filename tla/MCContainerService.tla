------------------------ MODULE MCContainerService ------------------------
EXTENDS ContainerInvariant, TLC

Symmetry == Permutations(Procs) \cup Permutations(Ids) \cup Permutations(Names)
=============================================================================
