------------------------------ MODULE MCPairing ------------------------------
(* Pairing on small instances: three installations are a stored one, the   *)
(* one of the last rotation and a new one.                                 *)
EXTENDS Pairing, TLC

Symmetry ==
  Permutations(Installations) \cup Permutations(Codes) \cup Permutations(Keys)
    \cup Permutations(Requests)
=============================================================================
