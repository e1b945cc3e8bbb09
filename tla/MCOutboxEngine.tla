--------------------------- MODULE MCOutboxEngine ---------------------------
(* OutboxEngine with three deliveries of different sizes, of which not all *)
(* fit the stage at once, the Run loop and one portal goroutine.           *)
EXTENDS OutboxEngine

CONSTANTS i1, i2, i3, portal

MCItems == {i1, i2, i3}
MCSizeOf == [i \in MCItems |-> CASE i = i1 -> 1 [] i = i2 -> 2 [] OTHER -> 3]
MCCallers == {RunLoop, portal}
=============================================================================
