--------------------------- MODULE DeliveryLedger ---------------------------
(***************************************************************************)
(* What the durable outbox promises about delivery evidence, without       *)
(* indexes, counters, retries or pauses.  A delivery the outbox accepted   *)
(* is held; it may be set aside as evidence; it goes away only one at a    *)
(* time when it is settled (acknowledged by the cloud), or after it was    *)
(* set aside and its retention expired.  Capacity is never made by         *)
(* dropping held deliveries.  Replacing a corrupt database is the one      *)
(* exception: it starts an empty ledger and leaves the old file behind.    *)
(***************************************************************************)
EXTENDS Naturals, FiniteSets

CONSTANTS Ids, Capacity

VARIABLES
  held,    \* accepted and not yet settled
  aside    \* kept as evidence, never sent again

ledger == <<held, aside>>

LedgerInit == held = {} /\ aside = {}

(* A ledger that is full may first let expired evidence go.                *)
Accept(d) ==
  /\ d \in Ids \ (held \cup aside)
  /\ held' = held \cup {d}
  /\ aside' \subseteq aside
  /\ Cardinality(held' \cup aside') <= Capacity

Settle(d) ==
  \/ d \in held /\ held' = held \ {d} /\ UNCHANGED aside
  \/ d \in aside /\ aside' = aside \ {d} /\ UNCHANGED held

KeepAside(S) ==
  /\ S \subseteq held
  /\ held' = held \ S
  /\ aside' = aside \cup S

Expire ==
  /\ aside' \subseteq aside
  /\ UNCHANGED held

StartEmpty == held' = {} /\ aside' = {}

LedgerNext ==
  \/ \E d \in Ids : Accept(d) \/ Settle(d)
  \/ \E S \in SUBSET held : KeepAside(S)
  \/ Expire
  \/ StartEmpty

LedgerSpec == LedgerInit /\ [][LedgerNext]_ledger
=============================================================================
