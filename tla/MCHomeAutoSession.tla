------------------------- MODULE MCHomeAutoSession -------------------------
(* HomeAutoSession on small instances: one node heard by radio, one whose  *)
(* positions the cloud attests to.                                         *)
EXTENDS HomeAutoSession
=============================================================================
