---------------------------- MODULE MCIntake ---------------------------
(***************************************************************************)
(* Instances of Intake for TLC.                                            *)
(***************************************************************************)
EXTENDS Intake

CONSTANTS t1, t2, companionRadio, meshtasticRadio

MCTtys == {t1, t2}
MCRadios == {companionRadio, meshtasticRadio}

Anywhere == [MCRadios -> MCTtys \cup {None}]
Seated == {[r \in MCRadios |-> IF r = companionRadio THEN t1 ELSE t2]}

Config(p, q, at, h, n, c) ==
  [companion |-> p, meshtastic |-> q, at |-> at, plugs |-> h, packets |-> n, contacts |-> c]

(* Each device by its tty, by its link, detected, or none; radios come and  *)
(* go.  Packets flow in one configuration of two quiet devices.             *)
MCConfigs ==
  {Config(t1, None, Anywhere, 2, 0, 1), Config(None, None, Anywhere, 2, 0, 0),
   Config(t1, meshtasticRadio, Anywhere, 1, 0, 0),
   Config(companionRadio, None, Anywhere, 2, 0, 0),
   Config(companionRadio, meshtasticRadio, Anywhere, 1, 0, 0),
   Config(None, meshtasticRadio, Seated, 0, 3, 0)}

(* The MeshCore device by a link that may be absent at the start.           *)
MCLinkConfigs == {Config(companionRadio, None, Anywhere, 2, 0, 0)}

(* Streams over four bytes: both start bytes and the two smallest lengths.  *)
MCBytes == {0, 1, Start1, Start2}

UpTo(n, S) == UNION {[1..k -> S] : k \in 0..n}

MCNoises == UpTo(4, MCBytes)
MCMessages == {<<1>>, <<Start1>>, <<Start1, Start2>>}
MCTails == UpTo(3, MCBytes)
=============================================================================
