------------------------ MODULE MCMeshCoreCompanion ------------------------
(* MeshCoreCompanion on small instances.                                   *)
EXTENDS MeshCoreCompanion

Symmetry == Permutations(Targets) \cup Permutations(Tags)
=============================================================================
