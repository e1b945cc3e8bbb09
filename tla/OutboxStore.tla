---------------------------- MODULE OutboxStore ----------------------------
(***************************************************************************)
(* The durable outbox of src/internal/outbox/store.go: a bbolt database    *)
(* with the buckets deliveries, due_index, quarantine, stats and meta.     *)
(*                                                                         *)
(* Every exported method runs in one bbolt transaction, so it is one       *)
(* action here.  The last parameter of an action is the error the method   *)
(* returns ("nil" for none); a failing transaction is rolled back.         *)
(*                                                                         *)
(* Abstractions.  An envelope and the free text of a record are left out;  *)
(* what they contribute to the byte bound is kept by Weight.  A bucket is  *)
(* a function from delivery ids to records in which NoRecord stands for    *)
(* bucket.Get(key) == nil.  The principal of a delivery is the triple that *)
(* the store compares: owner, receiver agent, installation.  Attempts is a *)
(* counter the store never reads and is left out.                          *)
(***************************************************************************)
EXTENDS Integers, FiniteSets

CONSTANTS
  DeliveryIds,      \* the delivery ids that may be enqueued
  Principals,       \* [owner, agent, installation] records
  NoRecord,         \* an absent key of a bucket
  MaxEvents,        \* Config.MaxEvents
  MaxBytes,         \* Config.MaxBytes
  RecordBytes,      \* encoded size of a fresh pending record
  FailureBytes,     \* what the last-failure fields add to it
  QuarantineBytes,  \* what the quarantine fields add to it
  Retention,        \* Config.QuarantineRetention
  MaxTime,          \* bound: the clock stays in 0..MaxTime
  MaxSequence,      \* bound: bucket sequence numbers handed out
  MaxGeneration     \* bound: credential and binding generations

ASSUME IdsAssumption == IsFiniteSet(DeliveryIds)
ASSUME PrincipalsAssumption ==
  \A p \in Principals :
    p = [owner |-> p.owner, agent |-> p.agent, installation |-> p.installation]
ASSUME BoundsAssumption ==
  /\ MaxEvents \in Nat /\ MaxBytes \in Nat
  /\ RecordBytes \in Nat \ {0} /\ FailureBytes \in Nat /\ QuarantineBytes \in Nat
  /\ Retention \in Nat
  /\ MaxTime \in Nat /\ MaxSequence \in Nat /\ MaxGeneration \in Nat

Times == 0..MaxTime
Generations == 0..MaxGeneration
Installations == {p.installation : p \in Principals}
Agents == {p.agent : p \in Principals}

(* A stored Delivery, without its immutable bytes. *)
Record == [principal : Principals,
           state     : {"pending", "inflight", "quarantined"},
           sequence  : 1..MaxSequence,
           at        : Times,          \* NextAttemptAt
           failed    : BOOLEAN,        \* the last-failure fields are set
           quarantinedAt : Times]

DueKey == [at : Times, sequence : 1..MaxSequence, id : DeliveryIds]

Pause == [kind : {"collision", "credential", "binding"}, id : DeliveryIds,
          credGen : Generations, bindGen : Generations]

Phases == {"intent", "old_binding_quarantined", "state_rotated", "completed"}
Journal == [phase : Phases, old : Installations, new : Installations]

ASSUME NoRecordAssumption ==
  NoRecord \notin Record \cup Pause \cup Journal \cup Principals

VARIABLES
  deliveries,   \* bucket "deliveries"
  quarantine,   \* bucket "quarantine"
  due,          \* keys of bucket "due_index"
  sequence,     \* the bbolt sequence of bucket "deliveries"
  count,        \* stats: total_count
  used,         \* stats: used_bytes
  pause,        \* meta: dispatch_pause
  journal,      \* meta: installation_rotation
  memo,         \* meta: reconciled_binding
  clock         \* Config.Now

storeVars == <<deliveries, quarantine, due, sequence, count, used, pause, journal, memo>>
vars == <<deliveries, quarantine, due, sequence, count, used, pause, journal, memo, clock>>

-----------------------------------------------------------------------------
(* Helpers: buckets, index keys, sizes.                                    *)

Stored(bucket) == {d \in DeliveryIds : bucket[d] # NoRecord}

Drop(bucket, S) == [d \in DeliveryIds |-> IF d \in S THEN NoRecord ELSE bucket[d]]

KeyOf(d, r) == [at |-> r.at, sequence |-> r.sequence, id |-> d]

KeysOf(S) == {KeyOf(d, deliveries[d]) : d \in S}

(* The bytes the records of the keys S take in a bucket: the value of      *)
(* "state" is one byte longer for "inflight" than for "pending".           *)
Weight(bucket, S) ==
    RecordBytes * Cardinality(S)
  + Cardinality({d \in S : bucket[d].state = "inflight"})
  + FailureBytes * Cardinality({d \in S : bucket[d].failed})
  + QuarantineBytes * Cardinality({d \in S : bucket[d].state = "quarantined"})

(* Mutation: the retention is subtracted from the wrong side.              *)
Expired_Sign(t) == {d \in Stored(quarantine) : quarantine[d].quarantinedAt <= t + Retention}

Expired(t) ==
  {d \in Stored(quarantine) : quarantine[d].quarantinedAt + Retention <= t}

Init ==
  /\ deliveries = [d \in DeliveryIds |-> NoRecord]
  /\ quarantine = [d \in DeliveryIds |-> NoRecord]
  /\ due = {}
  /\ sequence = 0
  /\ count = 0
  /\ used = 0
  /\ pause = NoRecord
  /\ journal = NoRecord
  /\ memo = NoRecord
  /\ clock = 0

-----------------------------------------------------------------------------
(* Enqueue.  A full outbox prunes the expired quarantine and tries once    *)
(* more; the prune is kept even when the second attempt fails.             *)

HasRoom(c, u) == c + 1 <= MaxEvents /\ u + RecordBytes <= MaxBytes

(* A record of another principal makes the reconciled_binding marker void. *)
(* Mutation: the marker is left alone.                                     *)
Invalidated_Never(p) == memo

Invalidated(p) == IF memo = p THEN memo ELSE NoRecord

Enqueue(d, p, at, err) ==
  LET pruned == IF HasRoom(count, used) THEN {} ELSE Expired(clock)
      count1 == count - Cardinality(pruned)
      used1  == used - Weight(quarantine, pruned)
      record == [principal |-> p, state |-> "pending", sequence |-> sequence + 1,
                 at |-> at, failed |-> FALSE, quarantinedAt |-> 0]
  IN
  \/ /\ d \in Stored(deliveries) \cup Stored(quarantine)
     /\ err = "exists"
     /\ UNCHANGED storeVars
  \/ /\ d \notin Stored(deliveries) \cup Stored(quarantine)
     /\ quarantine' = Drop(quarantine, pruned)
     /\ \/ /\ HasRoom(count1, used1)
           /\ sequence < MaxSequence
           /\ err = "nil"
           /\ sequence' = sequence + 1
           /\ deliveries' = [deliveries EXCEPT ![d] = record]
           /\ due' = due \cup {KeyOf(d, record)}
           /\ memo' = Invalidated(p)
           /\ count' = count1 + 1
           /\ used' = used1 + RecordBytes
        \/ /\ ~HasRoom(count1, used1)
           /\ err = "full"
           /\ count' = count1
           /\ used' = used1
           /\ UNCHANGED <<deliveries, due, sequence, memo>>
     /\ UNCHANGED <<pause, journal>>

(* NextDue: the record of the least index key, if its time has come.  The  *)
(* keys are compared as bytes: timestamp, then sequence.                   *)
Before(k, l) == k.at < l.at \/ (k.at = l.at /\ k.sequence <= l.sequence)

FirstDue(k, t) == k \in due /\ k.at <= t /\ \A l \in due : Before(k, l)

-----------------------------------------------------------------------------
(* Rewriting one record of bucket "deliveries" in place.                   *)

(* Mutation: the old key is not deleted from the index.                    *)
Rewrite_KeepsKey(d, record, err) ==
  LET used1 == used - Weight(deliveries, {d}) + Weight([deliveries EXCEPT ![d] = record], {d})
  IN /\ used1 <= MaxBytes
     /\ err = "nil"
     /\ deliveries' = [deliveries EXCEPT ![d] = record]
     /\ due' = due \cup (IF record.state = "pending" THEN {KeyOf(d, record)} ELSE {})
     /\ used' = used1

Rewrite(d, record, err) ==
  LET used1 == used - Weight(deliveries, {d}) + Weight([deliveries EXCEPT ![d] = record], {d})
  IN IF used1 > MaxBytes
     THEN err = "full" /\ UNCHANGED <<deliveries, due, used>>
     ELSE /\ err = "nil"
          /\ deliveries' = [deliveries EXCEPT ![d] = record]
          /\ due' = (due \ KeysOf({d})) \cup
                    (IF record.state = "pending" THEN {KeyOf(d, record)} ELSE {})
          /\ used' = used1

MarkInflight(d, err) ==
  \/ /\ d \notin Stored(deliveries)
     /\ err = "not_found"
     /\ UNCHANGED storeVars
  \/ /\ d \in Stored(deliveries)
     /\ deliveries[d].state # "pending"
     /\ err = "not_pending"
     /\ UNCHANGED storeVars
  \/ /\ d \in Stored(deliveries)
     /\ deliveries[d].state = "pending"
     /\ Rewrite(d, [deliveries[d] EXCEPT !.state = "inflight"], err)
     /\ UNCHANGED <<quarantine, sequence, count, pause, journal, memo>>

Retry(d, next, err) ==
  \/ /\ d \notin Stored(deliveries)
     /\ err = "not_found"
     /\ UNCHANGED storeVars
  \/ /\ d \in Stored(deliveries)
     /\ Rewrite(d, [deliveries[d] EXCEPT !.state = "pending", !.at = next, !.failed = TRUE], err)
     /\ UNCHANGED <<quarantine, sequence, count, pause, journal, memo>>

PauseDelivery(d, kind, credGen, bindGen, err) ==
  \/ /\ d \notin Stored(deliveries)
     /\ err = "not_found"
     /\ UNCHANGED storeVars
  \/ /\ d \in Stored(deliveries)
     /\ Rewrite(d, [deliveries[d] EXCEPT !.state = "pending", !.failed = TRUE], err)
     /\ pause' = IF err = "nil"
                 THEN [kind |-> kind, id |-> d, credGen |-> credGen, bindGen |-> bindGen]
                 ELSE pause
     /\ UNCHANGED <<quarantine, sequence, count, journal, memo>>

(* A collision is never cleared here: it waits for the operator.           *)
Superseded(credGen, bindGen) ==
  \/ /\ pause.kind = "credential"
     /\ credGen > pause.credGen \/ bindGen > pause.bindGen
  \/ /\ pause.kind = "binding"
     /\ bindGen > pause.bindGen

ClearResolvedPause(credGen, bindGen) ==
  /\ pause' = IF pause # NoRecord /\ Superseded(credGen, bindGen) THEN NoRecord ELSE pause
  /\ UNCHANGED <<deliveries, quarantine, due, sequence, count, used, journal, memo>>

-----------------------------------------------------------------------------
(* Moving records to bucket "quarantine".  The bulk methods check the byte *)
(* bound after each record; no move shrinks a record, so that is the bound *)
(* on the total.                                                           *)

Aside(r, t) == [r EXCEPT !.state = "quarantined", !.quarantinedAt = t, !.failed = TRUE]

QuarantineWith(S, t) ==
  [d \in DeliveryIds |-> IF d \in S THEN Aside(deliveries[d], t) ELSE quarantine[d]]

(* Mutations: growing a record is not counted; the bound is not checked;   *)
(* the moved records stay in bucket "deliveries".                          *)
UsedWith_Flat(S, t) == used

UsedWith(S, t) == used - Weight(deliveries, S) + Weight(QuarantineWith(S, t), S)

Overflows_Never(S, t) == FALSE

Overflows(S, t) == S # {} /\ UsedWith(S, t) > MaxBytes

MoveAside_Copies(S, t) ==
  /\ ~Overflows(S, t)
  /\ quarantine' = QuarantineWith(S, t)
  /\ due' = due \ KeysOf(S)
  /\ used' = UsedWith(S, t)
  /\ UNCHANGED <<deliveries, sequence, count>>

MoveAside(S, t) ==
  /\ ~Overflows(S, t)
  /\ quarantine' = QuarantineWith(S, t)
  /\ deliveries' = Drop(deliveries, S)
  /\ due' = due \ KeysOf(S)
  /\ used' = UsedWith(S, t)
  /\ UNCHANGED <<sequence, count>>

Quarantine(d, err) ==
  \/ /\ d \notin Stored(deliveries)
     /\ err = "not_found"
     /\ UNCHANGED storeVars
  \/ /\ d \in Stored(deliveries)
     /\ Overflows({d}, clock)
     /\ err = "full"
     /\ UNCHANGED storeVars
  \/ /\ d \in Stored(deliveries)
     /\ MoveAside({d}, clock)
     /\ err = "nil"
     /\ UNCHANGED <<pause, journal, memo>>

OfAgent(a) == {d \in Stored(deliveries) : deliveries[d].principal.agent = a}

(* The dispatch pause is left as it is, even when the delivery that caused *)
(* it is among those moved.                                                *)
QuarantineByReceiver(a, err) ==
  \/ /\ Overflows(OfAgent(a), clock)
     /\ err = "full"
     /\ UNCHANGED storeVars
  \/ /\ MoveAside(OfAgent(a), clock)
     /\ err = "nil"
     /\ UNCHANGED <<pause, journal, memo>>

Mismatched(p) == {d \in Stored(deliveries) : deliveries[d].principal # p}

ReconcileBinding(p, err) ==
  \/ /\ memo = p
     /\ err = "nil"
     /\ UNCHANGED storeVars
  \/ /\ memo # p
     /\ Overflows(Mismatched(p), clock)
     /\ err = "full"
     /\ UNCHANGED storeVars
  \/ /\ memo # p
     /\ MoveAside(Mismatched(p), clock)
     /\ memo' = p
     /\ err = "nil"
     /\ UNCHANGED <<pause, journal>>

ResolveDeliveryCollision(d, err) ==
  LET mine == pause # NoRecord /\ pause.kind = "collision" /\ pause.id = d
  IN
  \/ /\ ~mine
     /\ err = "mismatch"
     /\ UNCHANGED storeVars
  \/ /\ mine
     /\ d \notin Stored(deliveries)
     /\ err = "not_found"
     /\ UNCHANGED storeVars
  \/ /\ mine
     /\ d \in Stored(deliveries)
     /\ Overflows({d}, clock)
     /\ err = "full"
     /\ UNCHANGED storeVars
  \/ /\ mine
     /\ d \in Stored(deliveries)
     /\ MoveAside({d}, clock)
     /\ pause' = NoRecord
     /\ err = "nil"
     /\ UNCHANGED <<journal, memo>>

-----------------------------------------------------------------------------
(* Removing records.                                                       *)

Delete(d, err) ==
  \/ /\ d \notin Stored(deliveries) \cup Stored(quarantine)
     /\ err = "not_found"
     /\ UNCHANGED storeVars
  \/ /\ d \in Stored(deliveries)
     /\ err = "nil"
     /\ deliveries' = Drop(deliveries, {d})
     /\ due' = due \ KeysOf({d})
     /\ count' = count - 1
     /\ used' = used - Weight(deliveries, {d})
     /\ UNCHANGED <<quarantine, sequence, pause, journal, memo>>
  \/ /\ d \in Stored(quarantine) \ Stored(deliveries)
     /\ err = "nil"
     /\ quarantine' = Drop(quarantine, {d})
     /\ count' = count - 1
     /\ used' = used - Weight(quarantine, {d})
     /\ UNCHANGED <<deliveries, due, sequence, pause, journal, memo>>

PruneQuarantine ==
  /\ quarantine' = Drop(quarantine, Expired(clock))
  /\ count' = count - Cardinality(Expired(clock))
  /\ used' = used - Weight(quarantine, Expired(clock))
  /\ UNCHANGED <<deliveries, due, sequence, pause, journal, memo>>

-----------------------------------------------------------------------------
(* The installation rotation journal.                                      *)

(* An unfinished rotation is returned as it is: the caller continues it.   *)
BeginInstallationRotation(old, new) ==
  /\ old # new
  /\ journal' = IF journal = NoRecord \/ journal.phase = "completed"
                THEN [phase |-> "intent", old |-> old, new |-> new]
                ELSE journal
  /\ UNCHANGED <<deliveries, quarantine, due, sequence, count, used, pause, memo>>

OfInstallation(i) == {d \in Stored(deliveries) : deliveries[d].principal.installation = i}

(* A pause on a delivery that was moved has nothing left to wait for.      *)
PauseWithout(S) == IF pause # NoRecord /\ pause.id \in S THEN NoRecord ELSE pause

QuarantineInstallationRotation(err) ==
  \/ /\ journal = NoRecord
     /\ err = "no_journal"
     /\ UNCHANGED storeVars
  \/ /\ journal # NoRecord
     /\ journal.phase # "intent"
     /\ err = "nil"
     /\ UNCHANGED storeVars
  \/ /\ journal # NoRecord
     /\ journal.phase = "intent"
     /\ Overflows(OfInstallation(journal.old), clock)
     /\ err = "full"
     /\ UNCHANGED storeVars
  \/ /\ journal # NoRecord
     /\ journal.phase = "intent"
     /\ MoveAside(OfInstallation(journal.old), clock)
     /\ err = "nil"
     /\ pause' = PauseWithout(OfInstallation(journal.old))
     /\ journal' = [journal EXCEPT !.phase = "old_binding_quarantined"]
     /\ UNCHANGED memo

AdvanceInstallationRotation(expected, next, err) ==
  \/ /\ journal = NoRecord
     /\ err = "no_journal"
     /\ UNCHANGED storeVars
  \/ /\ journal # NoRecord
     /\ journal.phase = next
     /\ err = "nil"
     /\ UNCHANGED storeVars
  \/ /\ journal # NoRecord
     /\ journal.phase \notin {expected, next}
     /\ err = "wrong_phase"
     /\ UNCHANGED storeVars
  \/ /\ journal # NoRecord
     /\ journal.phase = expected
     /\ expected # next
     /\ err = "nil"
     /\ journal' = [journal EXCEPT !.phase = next]
     /\ UNCHANGED <<deliveries, quarantine, due, sequence, count, used, pause, memo>>

-----------------------------------------------------------------------------
(* Open of an existing database: initialize rebuilds the counters,         *)
(* resetInflight makes every inflight record due now and rebuilds the      *)
(* index, and the expired quarantine is pruned.                            *)

(* Mutation: inflight records are left as they are.                        *)
Reopened_Unchanged(r) == r

Reopened(r) ==
  IF r.state = "inflight" THEN [r EXCEPT !.state = "pending", !.at = clock] ELSE r

Open ==
  LET reset == [d \in DeliveryIds |->
                  IF deliveries[d] = NoRecord THEN NoRecord ELSE Reopened(deliveries[d])]
      kept  == Drop(quarantine, Expired(clock))
  IN /\ deliveries' = reset
     /\ due' = {KeyOf(d, reset[d]) : d \in Stored(reset)}
     /\ quarantine' = kept
     /\ count' = Cardinality(Stored(reset)) + Cardinality(Stored(kept))
     /\ used' = Weight(reset, Stored(reset)) + Weight(kept, Stored(kept))
     /\ UNCHANGED <<sequence, pause, journal, memo>>

(* Open of a corrupt database: the file is renamed and kept for the        *)
(* operator, and the receiver starts with an empty one.                    *)
RecoverCorrupt ==
  /\ deliveries' = [d \in DeliveryIds |-> NoRecord]
  /\ quarantine' = [d \in DeliveryIds |-> NoRecord]
  /\ due' = {}
  /\ sequence' = 0
  /\ count' = 0
  /\ used' = 0
  /\ pause' = NoRecord
  /\ journal' = NoRecord
  /\ memo' = NoRecord

-----------------------------------------------------------------------------
(* Every method, with every argument, in any order.                        *)

Errors == {"nil", "exists", "full", "not_found", "not_pending", "mismatch",
           "no_journal", "wrong_phase"}

(* Time passes; a receiver without a battery-backed clock may also see it  *)
(* step back.                                                              *)
SetClock == clock' \in Times /\ UNCHANGED storeVars

WriteDelivery ==
  \E d \in DeliveryIds, err \in Errors :
    \/ \E p \in Principals, at \in Times : Enqueue(d, p, at, err)
    \/ MarkInflight(d, err)
    \/ \E next \in Times : Retry(d, next, err)
    \/ \E kind \in {"collision", "credential", "binding"}, c, b \in Generations :
         PauseDelivery(d, kind, c, b, err)
    \/ Quarantine(d, err)
    \/ ResolveDeliveryCollision(d, err)
    \/ Delete(d, err)

WriteMany ==
  \/ \E a \in Agents, err \in Errors : QuarantineByReceiver(a, err)
  \/ \E p \in Principals, err \in Errors : ReconcileBinding(p, err)
  \/ \E err \in Errors : QuarantineInstallationRotation(err)
  \/ PruneQuarantine
  \/ Open
  \/ RecoverCorrupt

WriteMeta ==
  \/ \E c, b \in Generations : ClearResolvedPause(c, b)
  \/ \E old, new \in Installations : BeginInstallationRotation(old, new)
  \/ \E err \in Errors :
       \/ AdvanceInstallationRotation("old_binding_quarantined", "state_rotated", err)
       \/ AdvanceInstallationRotation("state_rotated", "completed", err)

Next ==
  \/ SetClock
  \/ (WriteDelivery \/ WriteMany \/ WriteMeta) /\ UNCHANGED clock

Spec == Init /\ [][Next]_vars
-----------------------------------------------------------------------------
(* Every variable has its type.                                            *)
TypeOK ==
  /\ deliveries \in [DeliveryIds -> Record \cup {NoRecord}]
  /\ quarantine \in [DeliveryIds -> Record \cup {NoRecord}]
  /\ due \subseteq DueKey
  /\ sequence \in 0..MaxSequence
  /\ count \in Int
  /\ used \in Int
  /\ pause \in Pause \cup {NoRecord}
  /\ journal \in Journal \cup {NoRecord}
  /\ memo \in Principals \cup {NoRecord}
  /\ clock \in Times

(* The due index holds exactly one key per pending delivery, at the time   *)
(* and sequence the record itself carries, and none for an inflight or a   *)
(* removed one: NextDue neither skips a pending delivery nor decodes a     *)
(* missing record.  Each method deletes and re-adds keys by hand.          *)
DueIndexExact ==
  due = KeysOf({d \in Stored(deliveries) : deliveries[d].state = "pending"})

(* A delivery id is in one bucket at a time, in the state that belongs to  *)
(* that bucket, and no two records share a bbolt sequence: an envelope     *)
(* that was set aside is never sent again under the same id.               *)
BucketsExclusive ==
  /\ Stored(deliveries) \cap Stored(quarantine) = {}
  /\ \A d \in Stored(deliveries) : deliveries[d].state \in {"pending", "inflight"}
  /\ \A d \in Stored(quarantine) : quarantine[d].state = "quarantined"
  /\ \A d \in Stored(deliveries) : deliveries[d].sequence <= sequence
  /\ \A d, e \in Stored(deliveries) :
       deliveries[d].sequence = deliveries[e].sequence => d = e

(* The reconciled_binding marker lets ReconcileBinding skip its scan; it   *)
(* may be there only while the scan would find nothing to quarantine.      *)
MemoSound ==
  memo # NoRecord => \A d \in Stored(deliveries) : deliveries[d].principal = memo

(* The incremental counters that decide whether the outbox is full equal   *)
(* what rebuildCounters would compute from the buckets.                    *)
CountersExact ==
  /\ count = Cardinality(Stored(deliveries)) + Cardinality(Stored(quarantine))
  /\ used = Weight(deliveries, Stored(deliveries)) + Weight(quarantine, Stored(quarantine))

(* Quarantined evidence counts against the same bounds as pending          *)
(* deliveries; no path, bulk quarantine included, exceeds them.            *)
WithinBounds == count <= MaxEvents /\ used <= MaxBytes

(* The rotation journal never goes back: a rotation restarts only after    *)
(* the previous one completed, and keeps its two installation ids.  Only   *)
(* the loss of the whole database drops it.                                *)
JournalStep ==
  \/ journal' = journal
  \/ journal = NoRecord /\ journal'.phase = "intent"
  \/ journal' = NoRecord /\ deliveries' = [d \in DeliveryIds |-> NoRecord]
  \/ journal.phase = "completed" /\ journal'.phase = "intent"
  \/ /\ journal' = [journal EXCEPT !.phase = journal'.phase]
     /\ <<journal.phase, journal'.phase>> \in
          {<<"intent", "old_binding_quarantined">>,
           <<"old_binding_quarantined", "state_rotated">>,
           <<"state_rotated", "completed">>}

JournalForward == [][JournalStep]_vars
-----------------------------------------------------------------------------
(* The store implements the ledger: held are the keys of bucket            *)
(* "deliveries", set aside those of bucket "quarantine".                   *)
Ledger == INSTANCE DeliveryLedger
            WITH Ids <- DeliveryIds, Capacity <- MaxEvents,
                 held <- Stored(deliveries), aside <- Stored(quarantine)

(* Every method of the store is a step of the ledger: an accepted delivery *)
(* is never evicted to make room (TestStoreBoundsNeverEvictPending), and   *)
(* only Delete forgets one.                                                *)
ImplementsLedger == Ledger!LedgerSpec
=============================================================================
