------------------------- MODULE MCMeshCoreControl -------------------------
(* MeshCoreControl on small instances.                                     *)
EXTENDS MeshCoreControl

OneOrNone == {None, CHOOSE p \in Peers : TRUE}
EitherOne == {{"tracking"}, {"saving"}}
Nothing == {{}}
=============================================================================
