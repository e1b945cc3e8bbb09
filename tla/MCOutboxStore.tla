--------------------------- MODULE MCOutboxStore ---------------------------
(* OutboxStore on three deliveries, two receiver agents of one owner and   *)
(* two installations.  Two records meet the event bound with room left for *)
(* the bytes of a third; the byte bound then refuses some growths of both. *)
EXTENDS OutboxStore, TLC

MCPrincipals == {[owner |-> "o", agent |-> "a1", installation |-> "i1"],
                 [owner |-> "o", agent |-> "a2", installation |-> "i2"]}

Symmetry == Permutations(DeliveryIds)
=============================================================================
