----------------------------- MODULE MCDispatch -----------------------------
(* Dispatch on small instances.  A rotation needs a second installation;   *)
(* a re-paired receiver is a second receiver agent of the same owner.      *)
EXTENDS Dispatch, TLC

Principal(a, i) == [owner |-> "o", agent |-> a, installation |-> i]
TwoInstallations == {Principal("a1", "i1"), Principal("a2", "i2")}
OneInstallation  == {Principal("a1", "i1")}

Symmetry == Permutations(DeliveryIds)
=============================================================================
