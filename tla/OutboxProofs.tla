---------------------------- MODULE OutboxProofs ----------------------------
(***************************************************************************)
(* Theorems about the durable outbox for all values of the constants: of   *)
(* OutboxStore, for every sequence of store calls, and of Dispatch, the    *)
(* receiver that makes those calls: it uses the store within its contract, *)
(* sends nothing under a pause, keeps evidence, and the two files of a     *)
(* rotation agree.                                                         *)
(***************************************************************************)
EXTENDS Dispatch, FiniteSetTheorems, TLAPS

-----------------------------------------------------------------------------
(* Sizes are natural numbers.                                              *)

(* The keys of a bucket are finitely many (bucket.ForEach terminates).     *)
LEMMA StoredFinite ==
  ASSUME NEW bucket
  PROVE  Stored(bucket) \in SUBSET DeliveryIds /\ IsFiniteSet(Stored(bucket))
BY FS_Subset, IdsAssumption DEF Stored

(* The bytes of any set of records are a natural number.                   *)
LEMMA WeightType ==
  ASSUME NEW bucket, NEW S \in SUBSET DeliveryIds
  PROVE  Weight(bucket, S) \in Nat
<1>1. IsFiniteSet(S)
  BY FS_Subset, IdsAssumption
<1>2. Cardinality(S) \in Nat
  BY <1>1, FS_CardinalityType
<1>3. Cardinality({d \in S : bucket[d].state = "inflight"}) \in Nat
  BY <1>1, FS_Subset, FS_CardinalityType
<1>4. Cardinality({d \in S : bucket[d].failed}) \in Nat
  BY <1>1, FS_Subset, FS_CardinalityType
<1>5. Cardinality({d \in S : bucket[d].state = "quarantined"}) \in Nat
  BY <1>1, FS_Subset, FS_CardinalityType
<1>6. \A m, n \in Nat : m * n \in Nat
  OBVIOUS
<1> QED
  BY <1>2, <1>3, <1>4, <1>5, <1>6, BoundsAssumption DEF Weight

(* What Expired selects is part of the quarantine.                         *)
LEMMA ExpiredType ==
  ASSUME NEW t
  PROVE  /\ Expired(t) \in SUBSET DeliveryIds
         /\ Cardinality(Expired(t)) \in Nat
<1>1. Expired(t) \in SUBSET DeliveryIds /\ IsFiniteSet(Expired(t))
  BY StoredFinite, FS_Subset DEF Expired
<1> QED
  BY <1>1, FS_CardinalityType

-----------------------------------------------------------------------------
(* Type correctness.                                                       *)

(* Removing keys from a bucket leaves a bucket.                            *)
LEMMA DropType ==
  ASSUME NEW bucket \in [DeliveryIds -> Record \cup {NoRecord}], NEW S
  PROVE  Drop(bucket, S) \in [DeliveryIds -> Record \cup {NoRecord}]
BY DEF Drop

(* The key of a record in the clock's range is a due_index key.            *)
LEMMA KeyType ==
  ASSUME NEW d \in DeliveryIds, NEW r \in Record
  PROVE  KeyOf(d, r) \in DueKey
BY DEF KeyOf, DueKey, Record

(* Rewriting a record in place preserves types.                            *)
LEMMA RewriteType ==
  ASSUME TypeOK, NEW d \in DeliveryIds, NEW record \in Record, NEW err,
         Rewrite(d, record, err)
  PROVE  /\ deliveries' \in [DeliveryIds -> Record \cup {NoRecord}]
         /\ due' \subseteq DueKey
         /\ used' \in Int
<1>1. Weight(deliveries, {d}) \in Nat /\ Weight([deliveries EXCEPT ![d] = record], {d}) \in Nat
  BY WeightType
<1>2. KeyOf(d, record) \in DueKey
  BY KeyType
<1> QED
  BY <1>1, <1>2 DEF TypeOK, Rewrite

(* Moving records to quarantine preserves types.                           *)
LEMMA MoveAsideType ==
  ASSUME TypeOK, NEW S \in SUBSET Stored(deliveries), MoveAside(S, clock)
  PROVE  /\ deliveries' \in [DeliveryIds -> Record \cup {NoRecord}]
         /\ quarantine' \in [DeliveryIds -> Record \cup {NoRecord}]
         /\ due' \subseteq DueKey
         /\ sequence' \in 0..MaxSequence
         /\ count' \in Int
         /\ used' \in Int
<1>1. deliveries' \in [DeliveryIds -> Record \cup {NoRecord}]
  BY DropType DEF TypeOK, MoveAside
<1>2. quarantine' \in [DeliveryIds -> Record \cup {NoRecord}]
  <2>1. \A d \in S : deliveries[d] \in Record
    BY DEF TypeOK, Stored
  <2>2. \A d \in S : Aside(deliveries[d], clock) \in Record
    BY <2>1 DEF Aside, Record, TypeOK
  <2> QED
    BY <2>2 DEF TypeOK, MoveAside, QuarantineWith
<1>3. S \in SUBSET DeliveryIds
  BY StoredFinite
<1>4. used' \in Int
  BY <1>3, WeightType DEF TypeOK, MoveAside, UsedWith
<1> QED
  BY <1>1, <1>2, <1>4 DEF TypeOK, MoveAside

(* Enqueue preserves types, through the prune of a full outbox as well.    *)
LEMMA EnqueueType ==
  ASSUME TypeOK, NEW d \in DeliveryIds, NEW p \in Principals, NEW at \in Times,
         NEW err, Enqueue(d, p, at, err), UNCHANGED clock
  PROVE  TypeOK'
<1> DEFINE pruned == IF HasRoom(count, used) THEN {} ELSE Expired(clock)
           record == [principal |-> p, state |-> "pending", sequence |-> sequence + 1,
                      at |-> at, failed |-> FALSE, quarantinedAt |-> 0]
<1>1. CASE UNCHANGED storeVars
  BY <1>1 DEF TypeOK, storeVars
<1>2. CASE ~(UNCHANGED storeVars)
  <2>1. pruned \in SUBSET DeliveryIds /\ Cardinality(pruned) \in Nat
    BY ExpiredType, FS_EmptySet
  <2>2. Weight(quarantine, pruned) \in Nat
    BY <2>1, WeightType
  <2>3. /\ count - Cardinality(pruned) \in Int
        /\ used - Weight(quarantine, pruned) \in Int
    BY <2>1, <2>2 DEF TypeOK
  <2>4. quarantine' = Drop(quarantine, pruned) /\ UNCHANGED <<pause, journal>>
    BY <1>2 DEF Enqueue
  <2>5. quarantine' \in [DeliveryIds -> Record \cup {NoRecord}]
    BY <2>4, DropType DEF TypeOK
  <2>6. CASE sequence < MaxSequence /\ sequence' = sequence + 1
             /\ deliveries' = [deliveries EXCEPT ![d] = record]
             /\ due' = due \cup {KeyOf(d, record)}
             /\ memo' = (IF memo = p THEN memo ELSE NoRecord)
             /\ count' = count - Cardinality(pruned) + 1
             /\ used' = used - Weight(quarantine, pruned) + RecordBytes
    <3>1. record \in Record
      BY <2>6, BoundsAssumption DEF Record, TypeOK, Times
    <3>2. KeyOf(d, record) \in DueKey
      BY <3>1, KeyType
    <3>3. sequence' \in 0..MaxSequence
      BY <2>6, BoundsAssumption DEF TypeOK
    <3> HIDE DEF record, pruned
    <3> QED
      BY <2>3, <2>4, <2>5, <2>6, <3>1, <3>2, <3>3, BoundsAssumption DEF TypeOK
  <2>7. CASE /\ count' = count - Cardinality(pruned)
             /\ used' = used - Weight(quarantine, pruned)
             /\ UNCHANGED <<deliveries, due, sequence, memo>>
    <3> HIDE DEF pruned
    <3> QED
      BY <2>3, <2>4, <2>5, <2>7 DEF TypeOK
  <2> QED
    BY <1>2, <2>6, <2>7 DEF Enqueue, Invalidated
<1> QED
  BY <1>1, <1>2

(* So does Delete, from either bucket.                                     *)
LEMMA DeleteType ==
  ASSUME TypeOK, NEW d \in DeliveryIds, NEW err, Delete(d, err), UNCHANGED clock
  PROVE  TypeOK'
<1>1. Weight(deliveries, {d}) \in Nat /\ Weight(quarantine, {d}) \in Nat
  BY WeightType
<1>2. CASE UNCHANGED storeVars
  BY <1>2 DEF TypeOK, storeVars
<1>3. CASE /\ deliveries' = Drop(deliveries, {d})
           /\ due' = due \ KeysOf({d})
           /\ count' = count - 1
           /\ used' = used - Weight(deliveries, {d})
           /\ UNCHANGED <<quarantine, sequence, pause, journal, memo>>
  BY <1>1, <1>3, DropType DEF TypeOK
<1>4. CASE /\ quarantine' = Drop(quarantine, {d})
           /\ count' = count - 1
           /\ used' = used - Weight(quarantine, {d})
           /\ UNCHANGED <<deliveries, due, sequence, pause, journal, memo>>
  BY <1>1, <1>4, DropType DEF TypeOK
<1> QED
  BY <1>2, <1>3, <1>4 DEF Delete

(* So does Open: records reset in place keep their sequence.               *)
LEMMA OpenType ==
  ASSUME TypeOK, Open, UNCHANGED clock
  PROVE  TypeOK'
<1> DEFINE reset == [d \in DeliveryIds |->
                       IF deliveries[d] = NoRecord THEN NoRecord ELSE Reopened(deliveries[d])]
           kept  == Drop(quarantine, Expired(clock))
<1>1. \A d \in DeliveryIds : deliveries[d] # NoRecord => Reopened(deliveries[d]) \in Record
  <2> SUFFICES ASSUME NEW d \in DeliveryIds, deliveries[d] # NoRecord
               PROVE  Reopened(deliveries[d]) \in Record
    OBVIOUS
  <2>1. deliveries[d] \in Record /\ clock \in Times
    BY DEF TypeOK
  <2> QED
    BY <2>1 DEF Reopened, Record
<1>2. reset \in [DeliveryIds -> Record \cup {NoRecord}]
  BY <1>1
<1>3. kept \in [DeliveryIds -> Record \cup {NoRecord}]
  BY DropType DEF TypeOK
<1>4. {KeyOf(d, reset[d]) : d \in Stored(reset)} \subseteq DueKey
  BY <1>2, KeyType DEF Stored
<1>5. /\ Cardinality(Stored(reset)) \in Nat
      /\ Cardinality(Stored(kept)) \in Nat
      /\ Weight(reset, Stored(reset)) \in Nat
      /\ Weight(kept, Stored(kept)) \in Nat
  BY StoredFinite, FS_CardinalityType, WeightType
<1>6. /\ deliveries' = reset
      /\ due' = {KeyOf(d, reset[d]) : d \in Stored(reset)}
      /\ quarantine' = kept
      /\ count' = Cardinality(Stored(reset)) + Cardinality(Stored(kept))
      /\ used' = Weight(reset, Stored(reset)) + Weight(kept, Stored(kept))
      /\ UNCHANGED <<sequence, pause, journal, memo>>
  BY DEF Open
<1> HIDE DEF reset, kept
<1> QED
  BY <1>2, <1>3, <1>4, <1>5, <1>6 DEF TypeOK

(* Every write of one delivery preserves types.                            *)
LEMMA WriteDeliveryType ==
  ASSUME TypeOK, WriteDelivery, UNCHANGED clock
  PROVE  TypeOK'
<1> PICK d \in DeliveryIds, err \in Errors :
      \/ \E p \in Principals, at \in Times : Enqueue(d, p, at, err)
      \/ MarkInflight(d, err)
      \/ \E next \in Times : Retry(d, next, err)
      \/ \E kind \in {"collision", "credential", "binding"}, c, b \in Generations :
           PauseDelivery(d, kind, c, b, err)
      \/ Quarantine(d, err)
      \/ ResolveDeliveryCollision(d, err)
      \/ Delete(d, err)
  BY DEF WriteDelivery
<1>0. CASE UNCHANGED storeVars
  BY <1>0 DEF TypeOK, storeVars
<1>1. CASE \E p \in Principals, at \in Times : Enqueue(d, p, at, err)
  BY <1>1, EnqueueType
<1>2. CASE MarkInflight(d, err) /\ ~(UNCHANGED storeVars)
  <2> DEFINE record == [deliveries[d] EXCEPT !.state = "inflight"]
  <2>1. Rewrite(d, record, err) /\ UNCHANGED <<quarantine, sequence, count, pause, journal, memo>>
    BY <1>2 DEF MarkInflight
  <2>2. deliveries[d] \in Record
    BY <1>2 DEF MarkInflight, TypeOK, Stored
  <2>3. record \in Record
    BY <2>2 DEF Record
  <2> HIDE DEF record
  <2> QED
    BY <2>1, <2>3, RewriteType DEF TypeOK
<1>3. CASE (\E next \in Times : Retry(d, next, err)) /\ ~(UNCHANGED storeVars)
  <2>0. PICK next \in Times : Retry(d, next, err)
    BY <1>3
  <2> DEFINE record == [deliveries[d] EXCEPT !.state = "pending", !.at = next, !.failed = TRUE]
  <2>1. Rewrite(d, record, err) /\ UNCHANGED <<quarantine, sequence, count, pause, journal, memo>>
    BY <1>3, <2>0 DEF Retry
  <2>2. deliveries[d] \in Record
    BY <1>3, <2>0 DEF Retry, TypeOK, Stored
  <2>3. record \in Record
    BY <2>2 DEF Record
  <2> HIDE DEF record
  <2> QED
    BY <2>1, <2>3, RewriteType DEF TypeOK
<1>4. CASE (\E kind \in {"collision", "credential", "binding"}, c, b \in Generations :
              PauseDelivery(d, kind, c, b, err)) /\ ~(UNCHANGED storeVars)
  <2>0. PICK kind \in {"collision", "credential", "binding"}, c \in Generations, b \in Generations :
          PauseDelivery(d, kind, c, b, err)
    BY <1>4
  <2> DEFINE record == [deliveries[d] EXCEPT !.state = "pending", !.failed = TRUE]
             stop   == [kind |-> kind, id |-> d, credGen |-> c, bindGen |-> b]
  <2>1. /\ Rewrite(d, record, err)
        /\ pause' = IF err = "nil" THEN stop ELSE pause
        /\ UNCHANGED <<quarantine, sequence, count, journal, memo>>
    BY <1>4, <2>0 DEF PauseDelivery
  <2>2. deliveries[d] \in Record
    BY <1>4, <2>0 DEF PauseDelivery, TypeOK, Stored
  <2>3. record \in Record
    BY <2>2 DEF Record
  <2>4. stop \in Pause
    BY DEF Pause
  <2> HIDE DEF record, stop
  <2> QED
    BY <2>1, <2>3, <2>4, RewriteType DEF TypeOK
<1>5. CASE Quarantine(d, err) /\ ~(UNCHANGED storeVars)
  <2>1. {d} \in SUBSET Stored(deliveries) /\ MoveAside({d}, clock) /\ UNCHANGED <<pause, journal, memo>>
    BY <1>5 DEF Quarantine
  <2> QED
    BY <2>1, MoveAsideType DEF TypeOK
<1>6. CASE ResolveDeliveryCollision(d, err) /\ ~(UNCHANGED storeVars)
  <2>1. /\ {d} \in SUBSET Stored(deliveries) /\ MoveAside({d}, clock)
        /\ pause' = NoRecord /\ UNCHANGED <<journal, memo>>
    BY <1>6 DEF ResolveDeliveryCollision
  <2> QED
    BY <2>1, MoveAsideType DEF TypeOK
<1>7. CASE Delete(d, err)
  BY <1>7, DeleteType
<1> QED
  BY <1>0, <1>1, <1>2, <1>3, <1>4, <1>5, <1>6, <1>7

(* Every write of several records preserves types.                         *)
LEMMA WriteManyType ==
  ASSUME TypeOK, WriteMany, UNCHANGED clock
  PROVE  TypeOK'
<1>0. CASE UNCHANGED storeVars
  BY <1>0 DEF TypeOK, storeVars
<1>1. CASE (\E a \in Agents, err \in Errors : QuarantineByReceiver(a, err)) /\ ~(UNCHANGED storeVars)
  <2>1. PICK a \in Agents : MoveAside(OfAgent(a), clock) /\ UNCHANGED <<pause, journal, memo>>
    BY <1>1 DEF QuarantineByReceiver
  <2>2. OfAgent(a) \in SUBSET Stored(deliveries)
    BY DEF OfAgent
  <2> QED
    BY <2>1, <2>2, MoveAsideType DEF TypeOK
<1>2. CASE (\E p \in Principals, err \in Errors : ReconcileBinding(p, err)) /\ ~(UNCHANGED storeVars)
  <2>1. PICK p \in Principals :
          MoveAside(Mismatched(p), clock) /\ memo' = p /\ UNCHANGED <<pause, journal>>
    BY <1>2 DEF ReconcileBinding
  <2>2. Mismatched(p) \in SUBSET Stored(deliveries)
    BY DEF Mismatched
  <2> QED
    BY <2>1, <2>2, MoveAsideType DEF TypeOK
<1>3. CASE (\E err \in Errors : QuarantineInstallationRotation(err)) /\ ~(UNCHANGED storeVars)
  <2>1. /\ journal # NoRecord
        /\ MoveAside(OfInstallation(journal.old), clock)
        /\ pause' \in {pause, NoRecord}
        /\ journal' = [journal EXCEPT !.phase = "old_binding_quarantined"]
        /\ UNCHANGED memo
    BY <1>3 DEF QuarantineInstallationRotation, PauseWithout
  <2>2. OfInstallation(journal.old) \in SUBSET Stored(deliveries)
    BY DEF OfInstallation
  <2>3. journal' \in Journal
    BY <2>1 DEF TypeOK, Journal, Phases
  <2> QED
    BY <2>1, <2>2, <2>3, MoveAsideType DEF TypeOK
<1>4. CASE PruneQuarantine
  <2>1. Weight(quarantine, Expired(clock)) \in Nat /\ Cardinality(Expired(clock)) \in Nat
    BY ExpiredType, WeightType
  <2> QED
    BY <1>4, <2>1, DropType DEF PruneQuarantine, TypeOK
<1>5. CASE Open
  BY <1>5, OpenType
<1>6. CASE RecoverCorrupt
  BY <1>6, BoundsAssumption DEF RecoverCorrupt, TypeOK
<1> QED
  BY <1>0, <1>1, <1>2, <1>3, <1>4, <1>5, <1>6 DEF WriteMany

(* Every write of the meta bucket alone preserves types.                   *)
LEMMA WriteMetaType ==
  ASSUME TypeOK, WriteMeta, UNCHANGED clock
  PROVE  TypeOK'
<1>1. CASE \E c, b \in Generations : ClearResolvedPause(c, b)
  BY <1>1 DEF ClearResolvedPause, TypeOK
<1>2. CASE \E old, new \in Installations : BeginInstallationRotation(old, new)
  BY <1>2 DEF BeginInstallationRotation, TypeOK, Journal, Phases
<1>3. ASSUME NEW expected, NEW next \in Phases, NEW err,
             AdvanceInstallationRotation(expected, next, err)
      PROVE  TypeOK'
  <2>1. CASE UNCHANGED storeVars
    BY <2>1 DEF TypeOK, storeVars
  <2>2. CASE /\ journal # NoRecord
             /\ journal' = [journal EXCEPT !.phase = next]
             /\ UNCHANGED <<deliveries, quarantine, due, sequence, count, used, pause, memo>>
    BY <2>2 DEF TypeOK, Journal
  <2> QED
    BY <1>3, <2>1, <2>2 DEF AdvanceInstallationRotation
<1>4. {"state_rotated", "completed"} \subseteq Phases
  BY DEF Phases
<1> QED
  BY <1>1, <1>2, <1>3, <1>4 DEF WriteMeta

(* The types of the buckets, the counters and the meta records hold in     *)
(* every state the store's methods can reach, in any order of calls.       *)
THEOREM TypeCorrect == Spec => []TypeOK
<1>1. Init => TypeOK
  BY BoundsAssumption DEF Init, TypeOK, Times
<1>2. TypeOK /\ [Next]_vars => TypeOK'
  <2> SUFFICES ASSUME TypeOK, [Next]_vars PROVE TypeOK'
    OBVIOUS
  <2>1. CASE SetClock
    BY <2>1 DEF SetClock, TypeOK, storeVars
  <2>2. CASE UNCHANGED vars
    BY <2>2 DEF vars, TypeOK
  <2> QED
    BY <2>1, <2>2, WriteDeliveryType, WriteManyType, WriteMetaType DEF Next
<1> QED
  BY <1>1, <1>2, PTL DEF Spec

-----------------------------------------------------------------------------
(***************************************************************************)
(* The bookkeeping agrees with the buckets: the due index, the exclusive   *)
(* buckets and the reconciled_binding marker.  The three together with the *)
(* types are inductive.                                                    *)
(***************************************************************************)

Pending == {d \in Stored(deliveries) : deliveries[d].state = "pending"}

Consistent == TypeOK /\ DueIndexExact /\ BucketsExclusive /\ MemoSound

-----------------------------------------------------------------------------
(* A stored record is a record.                                            *)
LEMMA StoredRecord ==
  ASSUME NEW bucket \in [DeliveryIds -> Record \cup {NoRecord}], NEW d \in Stored(bucket)
  PROVE  d \in DeliveryIds /\ bucket[d] \in Record /\ bucket[d] # NoRecord
BY DEF Stored

(* Records and pauses are not NoRecord.                                    *)
LEMMA RecordIsStored ==
  ASSUME NEW r \in Record
  PROVE  r # NoRecord
BY NoRecordAssumption

(* What Drop leaves stored.                                                *)
LEMMA DropStored ==
  ASSUME NEW bucket, NEW S
  PROVE  /\ Stored(Drop(bucket, S)) = Stored(bucket) \ S
         /\ \A d \in Stored(bucket) \ S : Drop(bucket, S)[d] = bucket[d]
BY DEF Stored, Drop

(* Rewriting a record in place keeps the bookkeeping: the principal and    *)
(* the sequence stay, and the index follows the new state and time.        *)
LEMMA RewriteConsistent ==
  ASSUME Consistent, NEW d \in Stored(deliveries), NEW record \in Record, NEW err,
         record.principal = deliveries[d].principal,
         record.sequence = deliveries[d].sequence,
         record.state \in {"pending", "inflight"},
         Rewrite(d, record, err),
         UNCHANGED <<quarantine, sequence, memo>>
  PROVE  (DueIndexExact /\ BucketsExclusive /\ MemoSound)'
<1>0. deliveries \in [DeliveryIds -> Record \cup {NoRecord}] /\ d \in DeliveryIds
  BY StoredRecord DEF Consistent, TypeOK
<1>1. CASE UNCHANGED <<deliveries, due>>
  BY <1>1 DEF Consistent, DueIndexExact, BucketsExclusive, MemoSound, KeysOf
<1>2. CASE /\ deliveries' = [deliveries EXCEPT ![d] = record]
           /\ due' = (due \ KeysOf({d})) \cup
                     (IF record.state = "pending" THEN {KeyOf(d, record)} ELSE {})
  <2>1. /\ Stored(deliveries') = Stored(deliveries)
        /\ deliveries'[d] = record
        /\ \A e \in Stored(deliveries) \ {d} : deliveries'[e] = deliveries[e]
    BY <1>0, <1>2, RecordIsStored DEF Stored
  <2>2. BucketsExclusive'
    BY <2>1 DEF Consistent, BucketsExclusive
  <2>3. MemoSound'
    BY <2>1 DEF Consistent, MemoSound
  <2>4. Pending' = (Pending \ {d}) \cup (IF record.state = "pending" THEN {d} ELSE {})
    BY <2>1 DEF Pending
  <2>5. KeysOf(Pending)  \ KeysOf({d}) = KeysOf(Pending \ {d})
    BY DEF KeysOf, KeyOf
  <2>6. \A e \in Pending \ {d} : KeyOf(e, deliveries'[e]) = KeyOf(e, deliveries[e])
    BY <2>1 DEF Pending
  <2>7. {KeyOf(e, deliveries'[e]) : e \in Pending'}
          = KeysOf(Pending \ {d}) \cup (IF record.state = "pending" THEN {KeyOf(d, record)} ELSE {})
    BY <2>1, <2>4, <2>6 DEF KeysOf
  <2>8. due = KeysOf(Pending)
    BY DEF Consistent, DueIndexExact, Pending
  <2>9. DueIndexExact'
    BY <1>2, <2>5, <2>7, <2>8 DEF DueIndexExact, Pending, KeysOf
  <2> QED
    BY <2>2, <2>3, <2>9
<1> QED
  BY <1>1, <1>2 DEF Rewrite

(* Moving records to quarantine keeps the bookkeeping, and the marker may  *)
(* name the principal of the records that stay.                            *)
LEMMA MoveAsideConsistent ==
  ASSUME Consistent, NEW S \in SUBSET Stored(deliveries), MoveAside(S, clock),
         memo' = memo \/ \A d \in Stored(deliveries) \ S : deliveries[d].principal = memo'
  PROVE  (DueIndexExact /\ BucketsExclusive /\ MemoSound)'
<1>0. /\ deliveries \in [DeliveryIds -> Record \cup {NoRecord}]
      /\ quarantine \in [DeliveryIds -> Record \cup {NoRecord}]
  BY DEF Consistent, TypeOK
<1>1. /\ quarantine' = QuarantineWith(S, clock)
      /\ deliveries' = Drop(deliveries, S)
      /\ due' = due \ KeysOf(S)
      /\ sequence' = sequence
  BY DEF MoveAside
<1>2. /\ Stored(deliveries') = Stored(deliveries) \ S
      /\ \A d \in Stored(deliveries) \ S : deliveries'[d] = deliveries[d]
  BY <1>1, DropStored
<1>3. MemoSound'
  BY <1>2 DEF Consistent, MemoSound
<1>4. \A d \in S : Aside(deliveries[d], clock) \in Record /\ Aside(deliveries[d], clock).state = "quarantined"
  <2>1. \A d \in S : deliveries[d] \in Record
    BY <1>0, StoredRecord
  <2>2. clock \in Times
    BY DEF Consistent, TypeOK
  <2> QED
    BY <2>1, <2>2 DEF Aside, Record
<1>5. /\ Stored(quarantine') = Stored(quarantine) \cup S
      /\ \A d \in S : quarantine'[d].state = "quarantined"
      /\ \A d \in Stored(quarantine) \ S : quarantine'[d] = quarantine[d]
  BY <1>0, <1>1, <1>4, RecordIsStored, StoredRecord DEF Stored, QuarantineWith
<1>6. BucketsExclusive'
  BY <1>1, <1>2, <1>5 DEF Consistent, BucketsExclusive
<1>7. Pending' = Pending \ S
  BY <1>2 DEF Pending
<1>8. KeysOf(Pending) \ KeysOf(S) = KeysOf(Pending \ S)
  BY DEF KeysOf, KeyOf
<1>9. {KeyOf(e, deliveries'[e]) : e \in Pending'} = KeysOf(Pending \ S)
  BY <1>2, <1>7 DEF KeysOf, Pending
<1>10. due = KeysOf(Pending)
  BY DEF Consistent, DueIndexExact, Pending
<1>11. DueIndexExact'
  BY <1>1, <1>8, <1>9, <1>10 DEF DueIndexExact, Pending, KeysOf
<1> QED
  BY <1>3, <1>6, <1>11

(* Removing quarantined records touches neither index nor marker.          *)
LEMMA PruneConsistent ==
  ASSUME Consistent, NEW S, quarantine' = Drop(quarantine, S),
         UNCHANGED <<deliveries, due, sequence, memo>>
  PROVE  (DueIndexExact /\ BucketsExclusive /\ MemoSound)'
<1>1. /\ Stored(quarantine') = Stored(quarantine) \ S
      /\ \A d \in Stored(quarantine) \ S : quarantine'[d] = quarantine[d]
  BY DropStored
<1>2. Stored(deliveries') = Stored(deliveries)
  OBVIOUS
<1> QED
  BY <1>1, <1>2 DEF Consistent, DueIndexExact, BucketsExclusive, MemoSound, KeysOf

(* A delivery that is new to both buckets enters with a fresh sequence.    *)
LEMMA EnqueueConsistent ==
  ASSUME Consistent, NEW d \in DeliveryIds, NEW p \in Principals, NEW at \in Times,
         NEW err, Enqueue(d, p, at, err)
  PROVE  (DueIndexExact /\ BucketsExclusive /\ MemoSound)'
<1> DEFINE pruned == IF HasRoom(count, used) THEN {} ELSE Expired(clock)
           record == [principal |-> p, state |-> "pending", sequence |-> sequence + 1,
                      at |-> at, failed |-> FALSE, quarantinedAt |-> 0]
<1>0. deliveries \in [DeliveryIds -> Record \cup {NoRecord}] /\ sequence \in 0..MaxSequence
  BY DEF Consistent, TypeOK
<1>1. CASE UNCHANGED storeVars
  BY <1>1 DEF storeVars, Consistent, DueIndexExact, BucketsExclusive, MemoSound, KeysOf
<1>2. CASE ~(UNCHANGED storeVars)
  <2>1. d \notin Stored(deliveries) \cup Stored(quarantine) /\ quarantine' = Drop(quarantine, pruned)
    BY <1>2 DEF Enqueue
  <2>2. CASE UNCHANGED <<deliveries, due, sequence, memo>>
    BY <2>1, <2>2, PruneConsistent
  <2>3. CASE /\ sequence < MaxSequence /\ sequence' = sequence + 1
             /\ deliveries' = [deliveries EXCEPT ![d] = record]
             /\ due' = due \cup {KeyOf(d, record)}
             /\ memo' = Invalidated(p)
    <3>1. record \in Record
      BY <1>0, <2>3, BoundsAssumption DEF Record, Times
    <3>2. /\ Stored(deliveries') = Stored(deliveries) \cup {d}
          /\ deliveries'[d] = record
          /\ \A e \in Stored(deliveries) : deliveries'[e] = deliveries[e]
      BY <1>0, <2>1, <2>3, <3>1, RecordIsStored DEF Stored
    <3>3. /\ Stored(quarantine') \subseteq Stored(quarantine)
          /\ \A e \in Stored(quarantine') : quarantine'[e] = quarantine[e]
      BY <2>1, DropStored
    <3>4. /\ record.state = "pending" /\ record.principal = p
          /\ record.sequence = sequence + 1
      OBVIOUS
    <3>5. \A e \in Stored(deliveries) : deliveries[e].sequence \in 1..MaxSequence
      BY <1>0, StoredRecord DEF Record
    <3> HIDE DEF record, pruned
    <3>6. BucketsExclusive'
      <4>1. (\A e \in Stored(deliveries) : deliveries[e].sequence <= sequence)'
        BY <1>0, <2>3, <3>2, <3>4, <3>5, BoundsAssumption DEF Consistent, BucketsExclusive
      <4>2. (\A e, f \in Stored(deliveries) :
               deliveries[e].sequence = deliveries[f].sequence => e = f)'
        BY <1>0, <3>2, <3>4, <3>5, BoundsAssumption DEF Consistent, BucketsExclusive
      <4> QED
        BY <2>1, <3>2, <3>3, <3>4, <4>1, <4>2 DEF Consistent, BucketsExclusive
    <3>7. MemoSound'
      BY <2>3, <3>2, <3>4 DEF Consistent, MemoSound, Invalidated
    <3>8. Pending' = Pending \cup {d}
      BY <3>2, <3>4 DEF Pending
    <3>9. {KeyOf(e, deliveries'[e]) : e \in Pending'} = KeysOf(Pending) \cup {KeyOf(d, record)}
      BY <3>2, <3>8 DEF KeysOf, Pending
    <3>10. DueIndexExact'
      BY <2>3, <3>9 DEF Consistent, DueIndexExact, Pending, KeysOf
    <3> QED
      BY <3>6, <3>7, <3>10
  <2> QED
    BY <1>2, <2>2, <2>3 DEF Enqueue
<1> QED
  BY <1>1, <1>2

(* Delete takes a record out of the one bucket that has it.                *)
LEMMA DeleteConsistent ==
  ASSUME Consistent, NEW d \in DeliveryIds, NEW err, Delete(d, err)
  PROVE  (DueIndexExact /\ BucketsExclusive /\ MemoSound)'
<1>1. CASE UNCHANGED storeVars
  BY <1>1 DEF storeVars, Consistent, DueIndexExact, BucketsExclusive, MemoSound, KeysOf
<1>2. CASE /\ deliveries' = Drop(deliveries, {d})
           /\ due' = due \ KeysOf({d})
           /\ UNCHANGED <<quarantine, sequence, memo>>
  <2>1. /\ Stored(deliveries') = Stored(deliveries) \ {d}
        /\ \A e \in Stored(deliveries) \ {d} : deliveries'[e] = deliveries[e]
    BY <1>2, DropStored
  <2>2. BucketsExclusive' /\ MemoSound'
    BY <1>2, <2>1 DEF Consistent, BucketsExclusive, MemoSound
  <2>3. Pending' = Pending \ {d}
    BY <2>1 DEF Pending
  <2>4. KeysOf(Pending) \ KeysOf({d}) = KeysOf(Pending \ {d})
    BY DEF KeysOf, KeyOf
  <2>5. {KeyOf(e, deliveries'[e]) : e \in Pending'} = KeysOf(Pending \ {d})
    BY <2>1, <2>3 DEF KeysOf, Pending
  <2>6. DueIndexExact'
    BY <1>2, <2>4, <2>5 DEF Consistent, DueIndexExact, Pending, KeysOf
  <2> QED
    BY <2>2, <2>6
<1>3. CASE quarantine' = Drop(quarantine, {d}) /\ UNCHANGED <<deliveries, due, sequence, memo>>
  BY <1>3, PruneConsistent
<1> QED
  BY <1>1, <1>2, <1>3 DEF Delete

(* Open rebuilds the index from the records it resets.                     *)
LEMMA OpenConsistent ==
  ASSUME Consistent, Open
  PROVE  (DueIndexExact /\ BucketsExclusive /\ MemoSound)'
<1>1. /\ deliveries' = [d \in DeliveryIds |->
                          IF deliveries[d] = NoRecord THEN NoRecord ELSE Reopened(deliveries[d])]
      /\ due' = {KeyOf(d, deliveries'[d]) : d \in Stored(deliveries')}
      /\ quarantine' = Drop(quarantine, Expired(clock))
      /\ UNCHANGED <<sequence, memo>>
  BY DEF Open
<1>2. \A d \in Stored(deliveries) :
        /\ Reopened(deliveries[d]) \in Record
        /\ Reopened(deliveries[d]).state = "pending"
        /\ Reopened(deliveries[d]).principal = deliveries[d].principal
        /\ Reopened(deliveries[d]).sequence = deliveries[d].sequence
  <2> SUFFICES ASSUME NEW d \in Stored(deliveries)
               PROVE  /\ Reopened(deliveries[d]) \in Record
                      /\ Reopened(deliveries[d]).state = "pending"
                      /\ Reopened(deliveries[d]).principal = deliveries[d].principal
                      /\ Reopened(deliveries[d]).sequence = deliveries[d].sequence
    OBVIOUS
  <2>1. deliveries[d] \in Record /\ clock \in Times
    BY StoredRecord DEF Consistent, TypeOK
  <2>2. deliveries[d].state \in {"pending", "inflight"}
    BY DEF Consistent, BucketsExclusive
  <2> QED
    BY <2>1, <2>2 DEF Reopened, Record
<1>3. /\ Stored(deliveries') = Stored(deliveries)
      /\ \A d \in Stored(deliveries) : deliveries'[d] = Reopened(deliveries[d])
  BY <1>1, <1>2, RecordIsStored DEF Stored
<1>4. /\ Stored(quarantine') \subseteq Stored(quarantine)
      /\ \A d \in Stored(quarantine') : quarantine'[d] = quarantine[d]
  BY <1>1, DropStored
<1>5. BucketsExclusive'
  BY <1>1, <1>2, <1>3, <1>4 DEF Consistent, BucketsExclusive
<1>6. MemoSound'
  BY <1>1, <1>2, <1>3 DEF Consistent, MemoSound
<1>7. Pending' = Stored(deliveries')
  BY <1>2, <1>3 DEF Pending
<1>8. DueIndexExact'
  BY <1>1, <1>7 DEF DueIndexExact, Pending, KeysOf
<1> QED
  BY <1>5, <1>6, <1>8

(* A step that writes neither bucket, nor index, nor marker.               *)
LEMMA UntouchedConsistent ==
  ASSUME Consistent, UNCHANGED <<deliveries, quarantine, due, sequence, memo>>
  PROVE  (DueIndexExact /\ BucketsExclusive /\ MemoSound)'
BY DEF Consistent, DueIndexExact, BucketsExclusive, MemoSound, KeysOf

(* Every write of one delivery keeps the bookkeeping.                      *)
LEMMA WriteDeliveryConsistent ==
  ASSUME Consistent, WriteDelivery, UNCHANGED clock
  PROVE  (DueIndexExact /\ BucketsExclusive /\ MemoSound)'
<1> PICK d \in DeliveryIds, err \in Errors :
      \/ \E p \in Principals, at \in Times : Enqueue(d, p, at, err)
      \/ MarkInflight(d, err)
      \/ \E next \in Times : Retry(d, next, err)
      \/ \E kind \in {"collision", "credential", "binding"}, c, b \in Generations :
           PauseDelivery(d, kind, c, b, err)
      \/ Quarantine(d, err)
      \/ ResolveDeliveryCollision(d, err)
      \/ Delete(d, err)
  BY DEF WriteDelivery
<1>a. deliveries \in [DeliveryIds -> Record \cup {NoRecord}]
  BY DEF Consistent, TypeOK
<1>b. d \in Stored(deliveries) => deliveries[d] \in Record
  BY <1>a, StoredRecord
<1>0. CASE UNCHANGED storeVars
  BY <1>0, UntouchedConsistent DEF storeVars
<1>1. CASE \E p \in Principals, at \in Times : Enqueue(d, p, at, err)
  BY <1>1, EnqueueConsistent
<1>2. CASE MarkInflight(d, err) /\ ~(UNCHANGED storeVars)
  <2> DEFINE record == [deliveries[d] EXCEPT !.state = "inflight"]
  <2>1. /\ d \in Stored(deliveries)
        /\ Rewrite(d, record, err)
        /\ UNCHANGED <<quarantine, sequence, memo>>
    BY <1>2 DEF MarkInflight
  <2>2. /\ record \in Record /\ record.state \in {"pending", "inflight"}
        /\ record.principal = deliveries[d].principal
        /\ record.sequence = deliveries[d].sequence
    BY <1>b, <2>1 DEF Record
  <2> HIDE DEF record
  <2> QED
    BY <2>1, <2>2, RewriteConsistent
<1>3. CASE (\E next \in Times : Retry(d, next, err)) /\ ~(UNCHANGED storeVars)
  <2>0. PICK next \in Times : Retry(d, next, err)
    BY <1>3
  <2> DEFINE record == [deliveries[d] EXCEPT !.state = "pending", !.at = next, !.failed = TRUE]
  <2>1. /\ d \in Stored(deliveries)
        /\ Rewrite(d, record, err)
        /\ UNCHANGED <<quarantine, sequence, memo>>
    BY <1>3, <2>0 DEF Retry
  <2>2. /\ record \in Record /\ record.state \in {"pending", "inflight"}
        /\ record.principal = deliveries[d].principal
        /\ record.sequence = deliveries[d].sequence
    BY <1>b, <2>1 DEF Record
  <2> HIDE DEF record
  <2> QED
    BY <2>1, <2>2, RewriteConsistent
<1>4. CASE (\E kind \in {"collision", "credential", "binding"}, c, b \in Generations :
              PauseDelivery(d, kind, c, b, err)) /\ ~(UNCHANGED storeVars)
  <2> DEFINE record == [deliveries[d] EXCEPT !.state = "pending", !.failed = TRUE]
  <2>1. /\ d \in Stored(deliveries)
        /\ Rewrite(d, record, err)
        /\ UNCHANGED <<quarantine, sequence, memo>>
    BY <1>4 DEF PauseDelivery
  <2>2. /\ record \in Record /\ record.state \in {"pending", "inflight"}
        /\ record.principal = deliveries[d].principal
        /\ record.sequence = deliveries[d].sequence
    BY <1>b, <2>1 DEF Record
  <2> HIDE DEF record
  <2> QED
    BY <2>1, <2>2, RewriteConsistent
<1>5. CASE Quarantine(d, err) /\ ~(UNCHANGED storeVars)
  <2>1. {d} \in SUBSET Stored(deliveries) /\ MoveAside({d}, clock) /\ memo' = memo
    BY <1>5 DEF Quarantine
  <2> QED
    BY <2>1, MoveAsideConsistent
<1>6. CASE ResolveDeliveryCollision(d, err) /\ ~(UNCHANGED storeVars)
  <2>1. {d} \in SUBSET Stored(deliveries) /\ MoveAside({d}, clock) /\ memo' = memo
    BY <1>6 DEF ResolveDeliveryCollision
  <2> QED
    BY <2>1, MoveAsideConsistent
<1>7. CASE Delete(d, err)
  BY <1>7, DeleteConsistent
<1> QED
  BY <1>0, <1>1, <1>2, <1>3, <1>4, <1>5, <1>6, <1>7

(* So does every write of several records.                                 *)
LEMMA WriteManyConsistent ==
  ASSUME Consistent, WriteMany, UNCHANGED clock
  PROVE  (DueIndexExact /\ BucketsExclusive /\ MemoSound)'
<1>0. CASE UNCHANGED storeVars
  BY <1>0, UntouchedConsistent DEF storeVars
<1>1. CASE (\E a \in Agents, err \in Errors : QuarantineByReceiver(a, err)) /\ ~(UNCHANGED storeVars)
  <2>1. PICK a \in Agents : MoveAside(OfAgent(a), clock) /\ memo' = memo
    BY <1>1 DEF QuarantineByReceiver
  <2>2. OfAgent(a) \in SUBSET Stored(deliveries)
    BY DEF OfAgent
  <2> QED
    BY <2>1, <2>2, MoveAsideConsistent
<1>2. CASE (\E p \in Principals, err \in Errors : ReconcileBinding(p, err)) /\ ~(UNCHANGED storeVars)
  <2>1. PICK p \in Principals : MoveAside(Mismatched(p), clock) /\ memo' = p
    BY <1>2 DEF ReconcileBinding
  <2>2. /\ Mismatched(p) \in SUBSET Stored(deliveries)
        /\ \A d \in Stored(deliveries) \ Mismatched(p) : deliveries[d].principal = p
    BY DEF Mismatched
  <2> QED
    BY <2>1, <2>2, MoveAsideConsistent
<1>3. CASE (\E err \in Errors : QuarantineInstallationRotation(err)) /\ ~(UNCHANGED storeVars)
  <2>1. MoveAside(OfInstallation(journal.old), clock) /\ memo' = memo
    BY <1>3 DEF QuarantineInstallationRotation
  <2>2. OfInstallation(journal.old) \in SUBSET Stored(deliveries)
    BY DEF OfInstallation
  <2> QED
    BY <2>1, <2>2, MoveAsideConsistent
<1>4. CASE PruneQuarantine
  BY <1>4, PruneConsistent DEF PruneQuarantine
<1>5. CASE Open
  BY <1>5, OpenConsistent
<1>6. CASE RecoverCorrupt
  BY <1>6 DEF RecoverCorrupt, DueIndexExact, BucketsExclusive, MemoSound, KeysOf, Stored
<1> QED
  BY <1>0, <1>1, <1>2, <1>3, <1>4, <1>5, <1>6 DEF WriteMany

(* The methods that write only the meta bucket do not touch any of it.     *)
LEMMA WriteMetaConsistent ==
  ASSUME Consistent, WriteMeta
  PROVE  (DueIndexExact /\ BucketsExclusive /\ MemoSound)'
<1>1. UNCHANGED <<deliveries, quarantine, due, sequence, memo>>
  BY DEF WriteMeta, ClearResolvedPause, BeginInstallationRotation,
         AdvanceInstallationRotation, storeVars
<1> QED
  BY <1>1, UntouchedConsistent

-----------------------------------------------------------------------------
(* The index, the exclusive buckets and the marker hold together with the  *)
(* types in every state reached by any order of the store's methods, its   *)
(* reopening and its recovery from a corrupt file.                         *)
THEOREM ConsistentAlways == Spec => []Consistent
<1>1. Init => Consistent
  BY BoundsAssumption
     DEF Init, Consistent, TypeOK, Times, DueIndexExact, BucketsExclusive, MemoSound, KeysOf, Stored
<1>2. Consistent /\ [Next]_vars => (DueIndexExact /\ BucketsExclusive /\ MemoSound)'
  <2> SUFFICES ASSUME Consistent, [Next]_vars
               PROVE  (DueIndexExact /\ BucketsExclusive /\ MemoSound)'
    OBVIOUS
  <2>1. CASE SetClock
    BY <2>1, UntouchedConsistent DEF SetClock, storeVars
  <2>2. CASE UNCHANGED vars
    BY <2>2, UntouchedConsistent DEF vars
  <2> QED
    BY <2>1, <2>2, WriteDeliveryConsistent, WriteManyConsistent, WriteMetaConsistent DEF Next
<1>3. Consistent <=> TypeOK /\ (DueIndexExact /\ BucketsExclusive /\ MemoSound)
  BY DEF Consistent
<1> QED
  BY <1>1, <1>2, <1>3, TypeCorrect, PTL DEF Spec

(* NextDue neither skips a pending delivery nor decodes a missing record.  *)
THEOREM DueIndexAlwaysExact == Spec => []DueIndexExact
<1>1. Consistent => DueIndexExact
  BY DEF Consistent
<1> QED
  BY <1>1, ConsistentAlways, PTL

(* A delivery is never both pending and set aside, and sequence numbers    *)
(* are never shared.                                                       *)
THEOREM BucketsAlwaysExclusive == Spec => []BucketsExclusive
<1>1. Consistent => BucketsExclusive
  BY DEF Consistent
<1> QED
  BY <1>1, ConsistentAlways, PTL

(* ReconcileBinding never skips a scan that would have found something.    *)
THEOREM MemoAlwaysSound == Spec => []MemoSound
<1>1. Consistent => MemoSound
  BY DEF Consistent
<1> QED
  BY <1>1, ConsistentAlways, PTL

-----------------------------------------------------------------------------
(***************************************************************************)
(* The incremental counters equal what a scan of the buckets gives, and    *)
(* never exceed the configured bounds; with that, every step is a step of  *)
(* DeliveryLedger.                                                         *)
(***************************************************************************)

(* The bounds are inductive only together with exact counters: Open        *)
(* recomputes the counters, and what it computes is within the bounds      *)
(* because the counters were exact.                                        *)
Accounted == Consistent /\ CountersExact /\ WithinBounds

-----------------------------------------------------------------------------
(* Counting and weighing disjoint sets of records.                         *)

(* Cardinality is additive over a part of a set and the rest.              *)
LEMMA SplitCardinality ==
  ASSUME NEW T, IsFiniteSet(T), NEW S \in SUBSET T
  PROVE  /\ Cardinality(T) \in Nat /\ Cardinality(S) \in Nat /\ Cardinality(T \ S) \in Nat
         /\ Cardinality(T) = Cardinality(S) + Cardinality(T \ S)
<1>1. IsFiniteSet(S) /\ IsFiniteSet(T \ S)
  BY FS_Subset
<1>2. T = S \cup (T \ S) /\ S \cap (T \ S) = {}
  OBVIOUS
<1>3. /\ Cardinality(S) \in Nat /\ Cardinality(T \ S) \in Nat /\ Cardinality(T) \in Nat
  BY <1>1, FS_CardinalityType
<1>4. Cardinality(S \cup (T \ S)) = Cardinality(S) + Cardinality(T \ S) - Cardinality(S \cap (T \ S))
  BY <1>1, FS_Union
<1>5. Cardinality(S \cap (T \ S)) = 0
  BY <1>2, FS_EmptySet
<1>6. Cardinality(S \cup (T \ S)) = Cardinality(T)
  BY <1>2
<1> QED
  BY <1>3, <1>4, <1>5, <1>6

(* The number of records of U with some attribute, W being those that have it. *)
Picked(U, W) == Cardinality(U \cap W)

(* So is the part of a set with some attribute.                            *)
LEMMA SplitSelected ==
  ASSUME NEW T \in SUBSET DeliveryIds, NEW S \in SUBSET T, NEW W \in SUBSET DeliveryIds
  PROVE  /\ Picked(T, W) \in Nat
         /\ Picked(S, W) \in Nat
         /\ Picked(T \ S, W) \in Nat
         /\ Picked(T, W) = Picked(S, W) + Picked(T \ S, W)
<1>1. IsFiniteSet(T \cap W)
  BY IdsAssumption, FS_Subset
<1>2. S \cap W \in SUBSET (T \cap W) /\ (T \cap W) \ (S \cap W) = (T \ S) \cap W
  OBVIOUS
<1> QED
  BY <1>1, <1>2, SplitCardinality DEF Picked

(* Weight is additive over a part of a set of records and the rest.        *)
WeightSplits(bucket, T, S) ==
  /\ Weight(bucket, T) \in Nat /\ Weight(bucket, S) \in Nat /\ Weight(bucket, T \ S) \in Nat
  /\ Weight(bucket, T) = Weight(bucket, S) + Weight(bucket, T \ S)

LEMMA SplitWeight ==
  ASSUME NEW bucket, NEW T \in SUBSET DeliveryIds, NEW S \in SUBSET T
  PROVE  WeightSplits(bucket, T, S)
<1> DEFINE I == {d \in DeliveryIds : bucket[d].state = "inflight"}
           F == {d \in DeliveryIds : bucket[d].failed}
           Q == {d \in DeliveryIds : bucket[d].state = "quarantined"}
<1>1. \A U \in SUBSET DeliveryIds :
        Weight(bucket, U) = RecordBytes * Cardinality(U) + Picked(U, I)
                            + FailureBytes * Picked(U, F)
                            + QuarantineBytes * Picked(U, Q)
  <2> SUFFICES ASSUME NEW U \in SUBSET DeliveryIds
               PROVE  Weight(bucket, U) = RecordBytes * Cardinality(U) + Picked(U, I)
                                          + FailureBytes * Picked(U, F)
                                          + QuarantineBytes * Picked(U, Q)
    OBVIOUS
  <2>1. /\ {d \in U : bucket[d].state = "inflight"} = U \cap I
        /\ {d \in U : bucket[d].failed} = U \cap F
        /\ {d \in U : bucket[d].state = "quarantined"} = U \cap Q
    OBVIOUS
  <2> HIDE DEF I, F, Q
  <2> QED
    BY <2>1 DEF Weight, Picked
<1>2. I \in SUBSET DeliveryIds /\ F \in SUBSET DeliveryIds /\ Q \in SUBSET DeliveryIds
  OBVIOUS
<1> HIDE DEF I, F, Q
<1>3. /\ Picked(T, I) = Picked(S, I) + Picked(T \ S, I)
      /\ Picked(S, I) \in Nat /\ Picked(T \ S, I) \in Nat
  BY <1>2, SplitSelected
<1>4. /\ Picked(T, F) = Picked(S, F) + Picked(T \ S, F)
      /\ Picked(S, F) \in Nat /\ Picked(T \ S, F) \in Nat
  BY <1>2, SplitSelected
<1>5. /\ Picked(T, Q) = Picked(S, Q) + Picked(T \ S, Q)
      /\ Picked(S, Q) \in Nat /\ Picked(T \ S, Q) \in Nat
  BY <1>2, SplitSelected
<1>6. /\ Cardinality(T) = Cardinality(S) + Cardinality(T \ S)
      /\ Cardinality(S) \in Nat /\ Cardinality(T \ S) \in Nat
  BY IdsAssumption, FS_Subset, SplitCardinality
<1>7. /\ Weight(bucket, T) \in Nat /\ Weight(bucket, S) \in Nat /\ Weight(bucket, T \ S) \in Nat
  BY WeightType
<1>8. \A a, m, n \in Nat : a * (m + n) = a * m + a * n /\ a * m \in Nat /\ a * n \in Nat
  OBVIOUS
<1>9. /\ RecordBytes * Cardinality(T) = RecordBytes * Cardinality(S) + RecordBytes * Cardinality(T \ S)
      /\ FailureBytes * Picked(T, F)
           = FailureBytes * Picked(S, F) + FailureBytes * Picked(T \ S, F)
      /\ QuarantineBytes * Picked(T, Q)
           = QuarantineBytes * Picked(S, Q) + QuarantineBytes * Picked(T \ S, Q)
      /\ RecordBytes * Cardinality(S) \in Nat /\ RecordBytes * Cardinality(T \ S) \in Nat
      /\ FailureBytes * Picked(S, F) \in Nat
      /\ FailureBytes * Picked(T \ S, F) \in Nat
      /\ QuarantineBytes * Picked(S, Q) \in Nat
      /\ QuarantineBytes * Picked(T \ S, Q) \in Nat
  BY <1>4, <1>5, <1>6, <1>8, BoundsAssumption
<1>10. S \in SUBSET DeliveryIds /\ T \ S \in SUBSET DeliveryIds
  OBVIOUS
<1>11. /\ Weight(bucket, T) \in Nat /\ Weight(bucket, S) \in Nat /\ Weight(bucket, T \ S) \in Nat
       /\ Weight(bucket, T) = Weight(bucket, S) + Weight(bucket, T \ S)
  BY <1>1, <1>3, <1>7, <1>9, <1>10
<1> QED
  BY <1>11 DEF WeightSplits

(* Weight looks at nothing but the records of the set.                     *)
LEMMA SameWeight ==
  ASSUME NEW b, NEW c, NEW S, \A d \in S : b[d] = c[d]
  PROVE  Weight(b, S) = Weight(c, S)
<1>1. /\ {d \in S : b[d].state = "inflight"} = {d \in S : c[d].state = "inflight"}
      /\ {d \in S : b[d].failed} = {d \in S : c[d].failed}
      /\ {d \in S : b[d].state = "quarantined"} = {d \in S : c[d].state = "quarantined"}
  OBVIOUS
<1> QED
  BY <1>1 DEF Weight

(* No records weigh nothing; a fresh pending record weighs RecordBytes.    *)
LEMMA SmallWeights ==
  ASSUME NEW bucket, NEW d
  PROVE  /\ Weight(bucket, {}) = 0
         /\ bucket[d].state = "pending" /\ ~bucket[d].failed => Weight(bucket, {d}) = RecordBytes
         /\ Cardinality({}) = 0 /\ Cardinality({d}) = 1
<1>1. Cardinality({}) = 0 /\ Cardinality({d}) = 1
  BY FS_EmptySet, FS_Singleton
<1>2. /\ RecordBytes * 0 = 0 /\ RecordBytes * 1 = RecordBytes
      /\ FailureBytes * 0 = 0 /\ QuarantineBytes * 0 = 0
  BY BoundsAssumption
<1>3. Weight(bucket, {}) = 0
  <2>1. /\ {e \in {} : bucket[e].state = "inflight"} = {}
        /\ {e \in {} : bucket[e].failed} = {}
        /\ {e \in {} : bucket[e].state = "quarantined"} = {}
    OBVIOUS
  <2> QED
    BY <1>1, <1>2, <2>1 DEF Weight
<1>4. ASSUME bucket[d].state = "pending", ~bucket[d].failed
      PROVE  Weight(bucket, {d}) = RecordBytes
  <2>1. /\ {e \in {d} : bucket[e].state = "inflight"} = {}
        /\ {e \in {d} : bucket[e].failed} = {}
        /\ {e \in {d} : bucket[e].state = "quarantined"} = {}
    BY <1>4
  <2>2. Weight(bucket, {d}) = RecordBytes * 1 + 0 + FailureBytes * 0 + QuarantineBytes * 0
    BY <1>1, <2>1, Zenon DEF Weight
  <2> QED
    BY <1>2, <2>2, BoundsAssumption
<1> QED
  BY <1>1, <1>3, <1>4

-----------------------------------------------------------------------------
(* What a change of a bucket does to its size.                             *)

Number(bucket) == Cardinality(Stored(bucket))
Bytes(bucket) == Weight(bucket, Stored(bucket))

(* Both sizes are natural numbers.                                         *)
LEMMA SizeType ==
  ASSUME NEW bucket
  PROVE  Number(bucket) \in Nat /\ Bytes(bucket) \in Nat
BY StoredFinite, FS_CardinalityType, WeightType DEF Number, Bytes

(* Dropping some of its records.                                           *)
LEMMA DropSize ==
  ASSUME NEW bucket, NEW S \in SUBSET Stored(bucket)
  PROVE  /\ Cardinality(S) \in Nat /\ Weight(bucket, S) \in Nat
         /\ Number(Drop(bucket, S)) = Number(bucket) - Cardinality(S)
         /\ Bytes(Drop(bucket, S)) = Bytes(bucket) - Weight(bucket, S)
<1> DEFINE T == Stored(bucket)
<1>1. T \in SUBSET DeliveryIds /\ IsFiniteSet(T)
  BY StoredFinite
<1>2. Stored(Drop(bucket, S)) = T \ S /\ \A d \in T \ S : Drop(bucket, S)[d] = bucket[d]
  BY DropStored
<1>3. Weight(Drop(bucket, S), T \ S) = Weight(bucket, T \ S)
  <2> DEFINE rest == T \ S
  <2>1. \A d \in rest : Drop(bucket, S)[d] = bucket[d]
    BY <1>2
  <2> HIDE DEF rest
  <2>2. Weight(Drop(bucket, S), rest) = Weight(bucket, rest)
    BY <2>1, SameWeight
  <2> QED
    BY <2>2 DEF rest
<1>4. /\ Cardinality(S) \in Nat /\ Cardinality(T \ S) \in Nat
      /\ Cardinality(T) = Cardinality(S) + Cardinality(T \ S)
  BY <1>1, SplitCardinality
<1>5. /\ Weight(bucket, S) \in Nat /\ Weight(bucket, T \ S) \in Nat
      /\ Weight(bucket, T) = Weight(bucket, S) + Weight(bucket, T \ S)
  <2>1. WeightSplits(bucket, T, S)
    BY <1>1, SplitWeight, Zenon
  <2> QED
    BY <2>1 DEF WeightSplits
<1>6. /\ Number(Drop(bucket, S)) = Cardinality(T \ S) /\ Number(bucket) = Cardinality(T)
      /\ Bytes(Drop(bucket, S)) = Weight(Drop(bucket, S), T \ S) /\ Bytes(bucket) = Weight(bucket, T)
  BY <1>2 DEF Number, Bytes
<1> HIDE DEF T
<1> QED
  BY <1>3, <1>4, <1>5, <1>6

(* Adding records under new keys.                                          *)
LEMMA AddSize ==
  ASSUME NEW b, NEW c, NEW S \in SUBSET DeliveryIds, S \cap Stored(b) = {},
         Stored(c) = Stored(b) \cup S,
         \A d \in Stored(b) : c[d] = b[d]
  PROVE  /\ Number(c) = Number(b) + Cardinality(S)
         /\ Bytes(c) = Bytes(b) + Weight(c, S)
         /\ Cardinality(S) \in Nat /\ Weight(c, S) \in Nat
<1> DEFINE T == Stored(c)
<1>1. T \in SUBSET DeliveryIds /\ IsFiniteSet(T)
  BY StoredFinite
<1>2. S \in SUBSET T
  OBVIOUS
<1>3. T \ S = Stored(b)
  OBVIOUS
<1>4. Weight(c, Stored(b)) = Weight(b, Stored(b))
  BY SameWeight
<1>5. /\ Cardinality(T) = Number(c) /\ Weight(c, T) = Bytes(c)
      /\ Cardinality(T \ S) = Number(b) /\ Weight(c, T \ S) = Bytes(b)
  BY <1>3, <1>4 DEF Number, Bytes
<1> HIDE DEF T
<1>6. /\ Cardinality(S) \in Nat /\ Cardinality(T \ S) \in Nat
      /\ Cardinality(T) = Cardinality(S) + Cardinality(T \ S)
  BY <1>1, <1>2, SplitCardinality
<1>7. /\ Weight(c, S) \in Nat /\ Weight(c, T \ S) \in Nat
      /\ Weight(c, T) = Weight(c, S) + Weight(c, T \ S)
  <2>1. WeightSplits(c, T, S)
    BY <1>1, <1>2, SplitWeight, Zenon
  <2> QED
    BY <2>1 DEF WeightSplits
<1> QED
  BY <1>5, <1>6, <1>7

(* Replacing the record of one key.                                        *)
LEMMA ReplaceSize ==
  ASSUME NEW b, NEW c, NEW d \in Stored(b), Stored(c) = Stored(b),
         \A e \in Stored(b) \ {d} : c[e] = b[e]
  PROVE  /\ Number(c) = Number(b)
         /\ Bytes(c) = Bytes(b) - Weight(b, {d}) + Weight(c, {d})
         /\ Weight(b, {d}) \in Nat /\ Weight(c, {d}) \in Nat
<1> DEFINE T == Stored(b)
           S == {d}
<1>1. T \in SUBSET DeliveryIds /\ S \in SUBSET T
  BY StoredFinite
<1>2. \A e \in T \ S : c[e] = b[e]
  OBVIOUS
<1>3. /\ Bytes(b) = Weight(b, T) /\ Bytes(c) = Weight(c, T) /\ Number(c) = Number(b)
      /\ Weight(b, {d}) = Weight(b, S) /\ Weight(c, {d}) = Weight(c, S)
  BY DEF Bytes, Number
<1> HIDE DEF T, S
<1>4. Weight(c, T \ S) = Weight(b, T \ S)
  BY <1>2, SameWeight
<1>5. /\ Weight(b, S) \in Nat /\ Weight(b, T \ S) \in Nat
      /\ Weight(b, T) = Weight(b, S) + Weight(b, T \ S)
  <2>1. WeightSplits(b, T, S)
    BY <1>1, SplitWeight, Zenon
  <2> QED
    BY <2>1 DEF WeightSplits
<1>6. /\ Weight(c, S) \in Nat /\ Weight(c, T \ S) \in Nat
      /\ Weight(c, T) = Weight(c, S) + Weight(c, T \ S)
  <2>1. WeightSplits(c, T, S)
    BY <1>1, SplitWeight, Zenon
  <2> QED
    BY <2>1 DEF WeightSplits
<1> QED
  BY <1>3, <1>4, <1>5, <1>6

-----------------------------------------------------------------------------
(* The operations keep the counters exact and within the bounds.           *)

(* The counters in terms of the sizes of the buckets.                      *)
LEMMA AccountedMeans ==
  ASSUME Accounted
  PROVE  /\ count = Number(deliveries) + Number(quarantine)
         /\ used = Bytes(deliveries) + Bytes(quarantine)
         /\ count <= MaxEvents /\ used <= MaxBytes
         /\ Number(deliveries) \in Nat /\ Number(quarantine) \in Nat
         /\ Bytes(deliveries) \in Nat /\ Bytes(quarantine) \in Nat
         /\ count \in Nat /\ used \in Nat
         /\ deliveries \in [DeliveryIds -> Record \cup {NoRecord}]
         /\ quarantine \in [DeliveryIds -> Record \cup {NoRecord}]
         /\ Stored(deliveries) \cap Stored(quarantine) = {}
<1>1. /\ count = Number(deliveries) + Number(quarantine)
      /\ used = Bytes(deliveries) + Bytes(quarantine)
      /\ count <= MaxEvents /\ used <= MaxBytes
  BY DEF Accounted, CountersExact, WithinBounds, Number, Bytes
<1>2. /\ deliveries \in [DeliveryIds -> Record \cup {NoRecord}]
      /\ quarantine \in [DeliveryIds -> Record \cup {NoRecord}]
      /\ Stored(deliveries) \cap Stored(quarantine) = {}
  BY DEF Accounted, Consistent, TypeOK, BucketsExclusive
<1> QED
  BY <1>1, <1>2, SizeType

(* And back, for the next state.                                           *)
LEMMA AccountedNext ==
  ASSUME count' = Number(deliveries') + Number(quarantine'),
         used' = Bytes(deliveries') + Bytes(quarantine'),
         count' <= MaxEvents, used' <= MaxBytes
  PROVE  (CountersExact /\ WithinBounds)'
BY DEF CountersExact, WithinBounds, Number, Bytes

(* A step that leaves buckets and counters alone.                          *)
LEMMA UntouchedAccounted ==
  ASSUME Accounted, UNCHANGED <<deliveries, quarantine, count, used>>
  PROVE  (CountersExact /\ WithinBounds)'
BY DEF Accounted, CountersExact, WithinBounds

(* Rewriting a record in place: the difference of its sizes is booked.     *)
LEMMA RewriteAccounted ==
  ASSUME Accounted, NEW d \in Stored(deliveries), NEW record \in Record, NEW err,
         Rewrite(d, record, err), UNCHANGED <<quarantine, count>>
  PROVE  (CountersExact /\ WithinBounds)'
<1>1. CASE UNCHANGED <<deliveries, used>>
  BY <1>1, UntouchedAccounted
<1>2. CASE ~(UNCHANGED <<deliveries, used>>)
  <2> DEFINE after == [deliveries EXCEPT ![d] = record]
  <2>1. /\ deliveries' = after
        /\ used' = used - Weight(deliveries, {d}) + Weight(after, {d})
        /\ ~(used' > MaxBytes)
    BY <1>2 DEF Rewrite
  <2>2. d \in DeliveryIds /\ deliveries \in [DeliveryIds -> Record \cup {NoRecord}]
    BY AccountedMeans, StoredRecord
  <2>3. Stored(after) = Stored(deliveries) /\ \A e \in Stored(deliveries) \ {d} : after[e] = deliveries[e]
    BY <2>2, RecordIsStored DEF Stored
  <2> HIDE DEF after
  <2>4. /\ Number(after) = Number(deliveries)
        /\ Bytes(after) = Bytes(deliveries) - Weight(deliveries, {d}) + Weight(after, {d})
        /\ Weight(deliveries, {d}) \in Nat /\ Weight(after, {d}) \in Nat
    BY <2>3, ReplaceSize
  <2>5. used' = Bytes(after) + Bytes(quarantine) /\ used' <= MaxBytes
    BY <2>1, <2>4, AccountedMeans, BoundsAssumption
  <2>6. count' = Number(after) + Number(quarantine) /\ count' <= MaxEvents
    BY <2>4, AccountedMeans
  <2> QED
    BY <2>1, <2>5, <2>6, AccountedNext
<1> QED
  BY <1>1, <1>2

(* Moving records to quarantine: they still count, at their new size.      *)
LEMMA MoveAsideAccounted ==
  ASSUME Accounted, NEW S \in SUBSET Stored(deliveries), MoveAside(S, clock)
  PROVE  (CountersExact /\ WithinBounds)'
<1>1. /\ quarantine' = QuarantineWith(S, clock)
      /\ deliveries' = Drop(deliveries, S)
      /\ used' = used - Weight(deliveries, S) + Weight(quarantine', S)
      /\ count' = count
      /\ S = {} \/ ~(used' > MaxBytes)
  BY DEF MoveAside, Overflows, UsedWith
<1>2. /\ deliveries \in [DeliveryIds -> Record \cup {NoRecord}]
      /\ quarantine \in [DeliveryIds -> Record \cup {NoRecord}]
      /\ Stored(deliveries) \cap Stored(quarantine) = {}
  BY AccountedMeans
<1>3. S \in SUBSET DeliveryIds /\ S \cap Stored(quarantine) = {}
  BY <1>2, StoredFinite
<1>4. \A d \in S : Aside(deliveries[d], clock) \in Record
  <2>1. \A d \in S : deliveries[d] \in Record
    BY <1>2, StoredRecord
  <2>2. clock \in Times
    BY DEF Accounted, Consistent, TypeOK
  <2> QED
    BY <2>1, <2>2 DEF Aside, Record
<1>5. /\ Stored(quarantine') = Stored(quarantine) \cup S
      /\ \A d \in Stored(quarantine) : quarantine'[d] = quarantine[d]
  BY <1>1, <1>2, <1>3, <1>4, RecordIsStored, StoredRecord DEF Stored, QuarantineWith
<1>6. /\ Number(quarantine') = Number(quarantine) + Cardinality(S)
      /\ Bytes(quarantine') = Bytes(quarantine) + Weight(quarantine', S)
      /\ Cardinality(S) \in Nat /\ Weight(quarantine', S) \in Nat
  BY <1>3, <1>5, AddSize
<1>7. /\ Number(deliveries') = Number(deliveries) - Cardinality(S)
      /\ Bytes(deliveries') = Bytes(deliveries) - Weight(deliveries, S)
      /\ Weight(deliveries, S) \in Nat
  BY <1>1, DropSize
<1>8. count' = Number(deliveries') + Number(quarantine') /\ count' <= MaxEvents
  BY <1>1, <1>6, <1>7, AccountedMeans
<1>9. used' = Bytes(deliveries') + Bytes(quarantine')
  BY <1>1, <1>6, <1>7, AccountedMeans
<1>10. used' <= MaxBytes
  <2>1. CASE S = {}
    <3>1. Weight(deliveries, S) = 0 /\ Weight(quarantine', S) = 0
      BY <2>1, SmallWeights
    <3> QED
      BY <1>1, <3>1, AccountedMeans
  <2>2. CASE S # {}
    BY <1>1, <1>6, <1>7, <2>2, AccountedMeans, BoundsAssumption
  <2> QED
    BY <2>1, <2>2
<1> QED
  BY <1>8, <1>9, <1>10, AccountedNext

(* Removing records from quarantine.                                       *)
LEMMA PruneAccounted ==
  ASSUME Accounted, NEW S \in SUBSET Stored(quarantine),
         quarantine' = Drop(quarantine, S),
         count' = count - Cardinality(S),
         used' = used - Weight(quarantine, S),
         UNCHANGED deliveries
  PROVE  (CountersExact /\ WithinBounds)'
<1>1. /\ Number(quarantine') = Number(quarantine) - Cardinality(S)
      /\ Bytes(quarantine') = Bytes(quarantine) - Weight(quarantine, S)
      /\ Cardinality(S) \in Nat /\ Weight(quarantine, S) \in Nat
  BY DropSize
<1>2. Number(deliveries') = Number(deliveries) /\ Bytes(deliveries') = Bytes(deliveries)
  OBVIOUS
<1>3. count' = Number(deliveries') + Number(quarantine') /\ count' <= MaxEvents
  BY <1>1, <1>2, AccountedMeans, BoundsAssumption
<1>4. used' = Bytes(deliveries') + Bytes(quarantine') /\ used' <= MaxBytes
  BY <1>1, <1>2, AccountedMeans, BoundsAssumption
<1> QED
  BY <1>3, <1>4, AccountedNext

(* Enqueue: room is tested after the prune, for the record as it is added. *)
LEMMA EnqueueAccounted ==
  ASSUME Accounted, NEW d \in DeliveryIds, NEW p \in Principals, NEW at \in Times,
         NEW err, Enqueue(d, p, at, err)
  PROVE  (CountersExact /\ WithinBounds)'
<1> DEFINE pruned == IF HasRoom(count, used) THEN {} ELSE Expired(clock)
           count1 == count - Cardinality(pruned)
           used1  == used - Weight(quarantine, pruned)
           record == [principal |-> p, state |-> "pending", sequence |-> sequence + 1,
                      at |-> at, failed |-> FALSE, quarantinedAt |-> 0]
<1>1. CASE UNCHANGED storeVars
  BY <1>1, UntouchedAccounted DEF storeVars
<1>2. CASE ~(UNCHANGED storeVars)
  <2>1. d \notin Stored(deliveries) /\ quarantine' = Drop(quarantine, pruned)
    BY <1>2 DEF Enqueue
  <2>2. pruned \in SUBSET Stored(quarantine)
    BY DEF Expired
  <2>3. CASE count' = count1 /\ used' = used1 /\ UNCHANGED deliveries
    <3> HIDE DEF pruned
    <3> QED
      BY <2>1, <2>2, <2>3, PruneAccounted
  <2>4. CASE /\ HasRoom(count1, used1) /\ sequence < MaxSequence
             /\ deliveries' = [deliveries EXCEPT ![d] = record]
             /\ count' = count1 + 1
             /\ used' = used1 + RecordBytes
    <3>1. deliveries \in [DeliveryIds -> Record \cup {NoRecord}]
      BY AccountedMeans
    <3>2. record \in Record
      BY <2>4, BoundsAssumption DEF Record, Times, Accounted, Consistent, TypeOK
    <3>3. /\ Stored(deliveries') = Stored(deliveries) \cup {d}
          /\ \A e \in Stored(deliveries) : deliveries'[e] = deliveries[e]
          /\ deliveries'[d].state = "pending" /\ ~deliveries'[d].failed
      BY <2>1, <2>4, <3>1, <3>2, RecordIsStored DEF Stored
    <3> HIDE DEF record, pruned
    <3>4. Weight(deliveries', {d}) = RecordBytes /\ Cardinality({d}) = 1
      BY <3>3, SmallWeights
    <3>5. /\ Number(deliveries') = Number(deliveries) + Cardinality({d})
          /\ Bytes(deliveries') = Bytes(deliveries) + Weight(deliveries', {d})
      <4> DEFINE S == {d}
      <4>1. /\ S \in SUBSET DeliveryIds /\ S \cap Stored(deliveries) = {}
            /\ Stored(deliveries') = Stored(deliveries) \cup S
        BY <2>1, <3>3
      <4> HIDE DEF S
      <4>2. /\ Number(deliveries') = Number(deliveries) + Cardinality(S)
            /\ Bytes(deliveries') = Bytes(deliveries) + Weight(deliveries', S)
        BY <3>3, <4>1, AddSize
      <4> QED
        BY <4>2 DEF S
    <3>6. /\ Number(quarantine') = Number(quarantine) - Cardinality(pruned)
          /\ Bytes(quarantine') = Bytes(quarantine) - Weight(quarantine, pruned)
          /\ Cardinality(pruned) \in Nat /\ Weight(quarantine, pruned) \in Nat
      BY <2>1, <2>2, DropSize
    <3>7. count1 + 1 <= MaxEvents /\ used1 + RecordBytes <= MaxBytes
      BY <2>4 DEF HasRoom
    <3>8. count' = Number(deliveries') + Number(quarantine') /\ count' <= MaxEvents
      BY <2>4, <3>4, <3>5, <3>6, <3>7, AccountedMeans
    <3>9. used' = Bytes(deliveries') + Bytes(quarantine') /\ used' <= MaxBytes
      BY <2>4, <3>4, <3>5, <3>6, <3>7, AccountedMeans, BoundsAssumption
    <3> QED
      BY <3>8, <3>9, AccountedNext
  <2> QED
    BY <1>2, <2>3, <2>4 DEF Enqueue
<1> QED
  BY <1>1, <1>2

(* Delete, from the one bucket that has the record.                        *)
LEMMA DeleteAccounted ==
  ASSUME Accounted, NEW d \in DeliveryIds, NEW err, Delete(d, err)
  PROVE  (CountersExact /\ WithinBounds)'
<1> DEFINE S == {d}
<1>0. Cardinality(S) = 1
  BY SmallWeights
<1>1. CASE UNCHANGED storeVars
  BY <1>1, UntouchedAccounted DEF storeVars
<1>2. CASE /\ d \in Stored(deliveries)
           /\ deliveries' = Drop(deliveries, {d})
           /\ count' = count - 1
           /\ used' = used - Weight(deliveries, {d})
           /\ UNCHANGED quarantine
  <2>1. S \in SUBSET Stored(deliveries)
    BY <1>2
  <2>2. deliveries' = Drop(deliveries, S) /\ used' = used - Weight(deliveries, S)
    BY <1>2
  <2> HIDE DEF S
  <2>3. /\ Number(deliveries') = Number(deliveries) - 1
        /\ Bytes(deliveries') = Bytes(deliveries) - Weight(deliveries, S)
        /\ Weight(deliveries, S) \in Nat
    BY <1>0, <2>1, <2>2, DropSize
  <2>4. Number(quarantine') = Number(quarantine) /\ Bytes(quarantine') = Bytes(quarantine)
    BY <1>2
  <2>5. count' = Number(deliveries') + Number(quarantine') /\ count' <= MaxEvents
    BY <1>2, <2>3, <2>4, AccountedMeans, BoundsAssumption
  <2>6. used' = Bytes(deliveries') + Bytes(quarantine') /\ used' <= MaxBytes
    BY <2>2, <2>3, <2>4, AccountedMeans, BoundsAssumption
  <2> QED
    BY <2>5, <2>6, AccountedNext
<1>3. CASE /\ d \in Stored(quarantine)
           /\ quarantine' = Drop(quarantine, {d})
           /\ count' = count - 1
           /\ used' = used - Weight(quarantine, {d})
           /\ UNCHANGED deliveries
  <2>1. S \in SUBSET Stored(quarantine)
    BY <1>3
  <2>2. quarantine' = Drop(quarantine, S) /\ used' = used - Weight(quarantine, S)
        /\ count' = count - Cardinality(S)
    BY <1>0, <1>3
  <2> HIDE DEF S
  <2> QED
    BY <1>3, <2>1, <2>2, PruneAccounted
<1> QED
  BY <1>1, <1>2, <1>3 DEF Delete

(* Records that are reset do not grow: "pending" is shorter than           *)
(* "inflight", and nothing else that counts changes.                       *)
LEMMA ReopenedNotHeavier ==
  ASSUME Accounted, NEW reset, Stored(reset) = Stored(deliveries),
         \A d \in Stored(deliveries) : reset[d] = Reopened(deliveries[d])
  PROVE  Number(reset) = Number(deliveries) /\ Bytes(reset) <= Bytes(deliveries)
<1> DEFINE T == Stored(deliveries)
<1>1. IsFiniteSet(T)
  BY StoredFinite
<1>2. \A d \in T : deliveries[d] \in Record /\ deliveries[d].state \in {"pending", "inflight"}
  BY AccountedMeans, StoredRecord DEF Accounted, Consistent, BucketsExclusive
<1>3. \A d \in T : /\ reset[d].state = "pending"
                   /\ reset[d].failed = deliveries[d].failed
  <2> SUFFICES ASSUME NEW d \in T
               PROVE  reset[d].state = "pending" /\ reset[d].failed = deliveries[d].failed
    OBVIOUS
  <2>1. reset[d] = Reopened(deliveries[d])
    OBVIOUS
  <2> QED
    BY <1>2, <2>1 DEF Reopened, Record
<1>4. /\ {d \in T : reset[d].state = "inflight"} = {}
      /\ {d \in T : reset[d].failed} = {d \in T : deliveries[d].failed}
      /\ {d \in T : reset[d].state = "quarantined"} = {}
      /\ {d \in T : deliveries[d].state = "quarantined"} = {}
  BY <1>2, <1>3
<1>5. Cardinality({d \in T : deliveries[d].state = "inflight"}) \in Nat
  BY <1>1, FS_Subset, FS_CardinalityType
<1> DEFINE whole == RecordBytes * Cardinality(T)
           part  == FailureBytes * Cardinality({d \in T : deliveries[d].failed})
           none  == QuarantineBytes * Cardinality({})
           grown == Cardinality({d \in T : deliveries[d].state = "inflight"})
<1>6. Weight(reset, T) = whole + Cardinality({}) + part + none
  BY <1>4, Zenon DEF Weight
<1>7. Weight(deliveries, T) = whole + grown + part + none
  BY <1>4, Zenon DEF Weight
<1>8. whole \in Int /\ part \in Int /\ none \in Int
  <2>1. /\ Cardinality(T) \in Nat /\ Cardinality({d \in T : deliveries[d].failed}) \in Nat
        /\ Cardinality({}) \in Nat
    BY <1>1, FS_Subset, FS_CardinalityType, FS_EmptySet
  <2>2. \A m, n \in Nat : m * n \in Int
    OBVIOUS
  <2> QED
    BY <2>1, <2>2, BoundsAssumption
<1>9. Number(reset) = Number(deliveries) /\ Bytes(reset) = Weight(reset, T) /\ Bytes(deliveries) = Weight(deliveries, T)
  BY DEF Number, Bytes
<1>10. Cardinality({}) = 0 /\ grown \in Nat
  BY <1>5, FS_EmptySet
<1> HIDE DEF whole, part, none, grown
<1> QED
  BY <1>6, <1>7, <1>8, <1>9, <1>10

(* Open recomputes both counters; the result still fits.                   *)
LEMMA OpenAccounted ==
  ASSUME Accounted, Open
  PROVE  (CountersExact /\ WithinBounds)'
<1>1. /\ deliveries' = [d \in DeliveryIds |->
                          IF deliveries[d] = NoRecord THEN NoRecord ELSE Reopened(deliveries[d])]
      /\ quarantine' = Drop(quarantine, Expired(clock))
      /\ count' = Number(deliveries') + Number(quarantine')
      /\ used' = Bytes(deliveries') + Bytes(quarantine')
  BY DEF Open, Number, Bytes
<1>2. \A d \in Stored(deliveries) : Reopened(deliveries[d]) \in Record
  <2> SUFFICES ASSUME NEW d \in Stored(deliveries) PROVE Reopened(deliveries[d]) \in Record
    OBVIOUS
  <2>1. deliveries[d] \in Record /\ clock \in Times
    BY AccountedMeans, StoredRecord DEF Accounted, Consistent, TypeOK
  <2> QED
    BY <2>1 DEF Reopened, Record
<1>3. /\ Stored(deliveries') = Stored(deliveries)
      /\ \A d \in Stored(deliveries) : deliveries'[d] = Reopened(deliveries[d])
  BY <1>1, <1>2, RecordIsStored DEF Stored
<1>4. Number(deliveries') = Number(deliveries) /\ Bytes(deliveries') <= Bytes(deliveries)
  BY <1>3, ReopenedNotHeavier
<1>5. Expired(clock) \in SUBSET Stored(quarantine)
  BY DEF Expired
<1>6. /\ Number(quarantine') <= Number(quarantine) /\ Bytes(quarantine') <= Bytes(quarantine)
      /\ Number(quarantine') \in Nat /\ Bytes(quarantine') \in Nat /\ Bytes(deliveries') \in Nat
  BY <1>1, <1>5, DropSize, SizeType
<1>7. count' <= MaxEvents /\ used' <= MaxBytes
  BY <1>1, <1>4, <1>6, AccountedMeans, BoundsAssumption
<1> QED
  BY <1>1, <1>7, AccountedNext

(* Every write of one delivery.                                            *)
LEMMA WriteDeliveryAccounted ==
  ASSUME Accounted, WriteDelivery
  PROVE  (CountersExact /\ WithinBounds)'
<1> PICK d \in DeliveryIds, err \in Errors :
      \/ \E p \in Principals, at \in Times : Enqueue(d, p, at, err)
      \/ MarkInflight(d, err)
      \/ \E next \in Times : Retry(d, next, err)
      \/ \E kind \in {"collision", "credential", "binding"}, c, b \in Generations :
           PauseDelivery(d, kind, c, b, err)
      \/ Quarantine(d, err)
      \/ ResolveDeliveryCollision(d, err)
      \/ Delete(d, err)
  BY DEF WriteDelivery
<1>a. d \in Stored(deliveries) => deliveries[d] \in Record
  BY AccountedMeans, StoredRecord
<1>0. CASE UNCHANGED storeVars
  BY <1>0, UntouchedAccounted DEF storeVars
<1>1. CASE \E p \in Principals, at \in Times : Enqueue(d, p, at, err)
  BY <1>1, EnqueueAccounted
<1>2. CASE MarkInflight(d, err) /\ ~(UNCHANGED storeVars)
  <2> DEFINE record == [deliveries[d] EXCEPT !.state = "inflight"]
  <2>1. d \in Stored(deliveries) /\ Rewrite(d, record, err) /\ UNCHANGED <<quarantine, count>>
    BY <1>2 DEF MarkInflight
  <2>2. record \in Record
    BY <1>a, <2>1 DEF Record
  <2> HIDE DEF record
  <2> QED
    BY <2>1, <2>2, RewriteAccounted
<1>3. CASE (\E next \in Times : Retry(d, next, err)) /\ ~(UNCHANGED storeVars)
  <2>0. PICK next \in Times : Retry(d, next, err)
    BY <1>3
  <2> DEFINE record == [deliveries[d] EXCEPT !.state = "pending", !.at = next, !.failed = TRUE]
  <2>1. d \in Stored(deliveries) /\ Rewrite(d, record, err) /\ UNCHANGED <<quarantine, count>>
    BY <1>3, <2>0 DEF Retry
  <2>2. record \in Record
    BY <1>a, <2>1 DEF Record
  <2> HIDE DEF record
  <2> QED
    BY <2>1, <2>2, RewriteAccounted
<1>4. CASE (\E kind \in {"collision", "credential", "binding"}, c, b \in Generations :
              PauseDelivery(d, kind, c, b, err)) /\ ~(UNCHANGED storeVars)
  <2> DEFINE record == [deliveries[d] EXCEPT !.state = "pending", !.failed = TRUE]
  <2>1. d \in Stored(deliveries) /\ Rewrite(d, record, err) /\ UNCHANGED <<quarantine, count>>
    BY <1>4 DEF PauseDelivery
  <2>2. record \in Record
    BY <1>a, <2>1 DEF Record
  <2> HIDE DEF record
  <2> QED
    BY <2>1, <2>2, RewriteAccounted
<1>5. CASE (Quarantine(d, err) \/ ResolveDeliveryCollision(d, err)) /\ ~(UNCHANGED storeVars)
  <2>1. {d} \in SUBSET Stored(deliveries) /\ MoveAside({d}, clock)
    BY <1>5 DEF Quarantine, ResolveDeliveryCollision
  <2> QED
    BY <2>1, MoveAsideAccounted
<1>6. CASE Delete(d, err)
  BY <1>6, DeleteAccounted
<1> QED
  BY <1>0, <1>1, <1>2, <1>3, <1>4, <1>5, <1>6

(* Every write of several records.                                         *)
LEMMA WriteManyAccounted ==
  ASSUME Accounted, WriteMany
  PROVE  (CountersExact /\ WithinBounds)'
<1>0. CASE UNCHANGED storeVars
  BY <1>0, UntouchedAccounted DEF storeVars
<1>1. CASE \E S \in SUBSET Stored(deliveries) : MoveAside(S, clock)
  BY <1>1, MoveAsideAccounted
<1>2. CASE PruneQuarantine
  <2>1. Expired(clock) \in SUBSET Stored(quarantine)
    BY DEF Expired
  <2> QED
    BY <1>2, <2>1, PruneAccounted DEF PruneQuarantine
<1>3. CASE Open
  BY <1>3, OpenAccounted
<1>4. CASE RecoverCorrupt
  <2>1. Stored(deliveries') = {} /\ Stored(quarantine') = {} /\ count' = 0 /\ used' = 0
    BY <1>4 DEF RecoverCorrupt, Stored
  <2>2. /\ Number(deliveries') = 0 /\ Number(quarantine') = 0
        /\ Bytes(deliveries') = 0 /\ Bytes(quarantine') = 0
    BY <2>1, SmallWeights DEF Number, Bytes
  <2> QED
    BY <2>1, <2>2, AccountedNext, BoundsAssumption
<1>5. /\ \A a \in Agents : OfAgent(a) \in SUBSET Stored(deliveries)
      /\ \A p \in Principals : Mismatched(p) \in SUBSET Stored(deliveries)
      /\ OfInstallation(journal.old) \in SUBSET Stored(deliveries)
  BY DEF OfAgent, Mismatched, OfInstallation
<1> QED
  BY <1>0, <1>1, <1>2, <1>3, <1>4, <1>5
     DEF WriteMany, QuarantineByReceiver, ReconcileBinding, QuarantineInstallationRotation

-----------------------------------------------------------------------------
(* Exact counters and bounds hold in every reachable state: the decision   *)
(* that the outbox is full is never taken on wrong numbers, and neither    *)
(* quarantined evidence nor the growth of records passes the bounds.       *)
THEOREM AccountedAlways == Spec => []Accounted
<1>1. Init => CountersExact /\ WithinBounds
  <2> SUFFICES ASSUME Init PROVE CountersExact /\ WithinBounds
    OBVIOUS
  <2>1. Stored(deliveries) = {} /\ Stored(quarantine) = {} /\ count = 0 /\ used = 0
    BY DEF Init, Stored
  <2>2. /\ Cardinality(Stored(deliveries)) = 0 /\ Cardinality(Stored(quarantine)) = 0
        /\ Weight(deliveries, Stored(deliveries)) = 0
        /\ Weight(quarantine, Stored(quarantine)) = 0
    BY <2>1, SmallWeights
  <2> QED
    BY <2>1, <2>2, BoundsAssumption DEF CountersExact, WithinBounds
<1>2. Accounted /\ [Next]_vars => (CountersExact /\ WithinBounds)'
  <2> SUFFICES ASSUME Accounted, [Next]_vars PROVE (CountersExact /\ WithinBounds)'
    OBVIOUS
  <2>1. CASE SetClock
    BY <2>1, UntouchedAccounted DEF SetClock, storeVars
  <2>2. CASE UNCHANGED vars
    BY <2>2, UntouchedAccounted DEF vars
  <2>3. CASE WriteMeta
    <3>1. UNCHANGED <<deliveries, quarantine, count, used>>
      BY <2>3 DEF WriteMeta, ClearResolvedPause, BeginInstallationRotation,
                  AdvanceInstallationRotation, storeVars
    <3> QED
      BY <3>1, UntouchedAccounted
  <2> QED
    BY <2>1, <2>2, <2>3, WriteDeliveryAccounted, WriteManyAccounted DEF Next
<1>3. Accounted <=> Consistent /\ (CountersExact /\ WithinBounds)
  BY DEF Accounted
<1> QED
  BY <1>1, <1>2, <1>3, ConsistentAlways, PTL DEF Spec

(* total_count and used_bytes are what rebuildCounters would compute.      *)
THEOREM CountersAlwaysExact == Spec => []CountersExact
<1>1. Accounted => CountersExact
  BY DEF Accounted
<1> QED
  BY <1>1, AccountedAlways, PTL

(* MaxEvents and MaxBytes are never exceeded, on any path.                 *)
THEOREM AlwaysWithinBounds == Spec => []WithinBounds
<1>1. Accounted => WithinBounds
  BY DEF Accounted
<1> QED
  BY <1>1, AccountedAlways, PTL

-----------------------------------------------------------------------------
(* The store implements DeliveryLedger.                                    *)

(* A stutter of the ledger: no delivery enters, leaves or changes bucket.  *)
LEMMA LedgerStutter ==
  ASSUME Stored(deliveries') = Stored(deliveries), Stored(quarantine') = Stored(quarantine)
  PROVE  UNCHANGED Ledger!ledger
BY DEF Ledger!ledger

(* Rewriting a record in place is invisible to the ledger.                 *)
LEMMA RewriteStutters ==
  ASSUME Accounted, NEW d \in Stored(deliveries), NEW record \in Record, NEW err,
         Rewrite(d, record, err), UNCHANGED quarantine
  PROVE  UNCHANGED Ledger!ledger
<1>1. deliveries \in [DeliveryIds -> Record \cup {NoRecord}]
  BY AccountedMeans
<1>2. deliveries' = deliveries \/ deliveries' = [deliveries EXCEPT ![d] = record]
  BY DEF Rewrite
<1>3. Stored(deliveries') = Stored(deliveries)
  BY <1>1, <1>2, RecordIsStored DEF Stored
<1> QED
  BY <1>3, LedgerStutter

(* Moving records to quarantine keeps them aside.                          *)
LEMMA MoveAsideKeeps ==
  ASSUME Accounted, NEW S \in SUBSET Stored(deliveries), MoveAside(S, clock)
  PROVE  Ledger!LedgerNext
<1>1. deliveries' = Drop(deliveries, S) /\ quarantine' = QuarantineWith(S, clock)
  BY DEF MoveAside
<1>2. /\ deliveries \in [DeliveryIds -> Record \cup {NoRecord}]
      /\ quarantine \in [DeliveryIds -> Record \cup {NoRecord}]
  BY AccountedMeans
<1>3. \A d \in S : Aside(deliveries[d], clock) \in Record
  <2>1. \A d \in S : deliveries[d] \in Record
    BY <1>2, StoredRecord
  <2>2. clock \in Times
    BY DEF Accounted, Consistent, TypeOK
  <2> QED
    BY <2>1, <2>2 DEF Aside, Record
<1>4. Stored(deliveries') = Stored(deliveries) \ S
  BY <1>1, DropStored
<1>5. Stored(quarantine') = Stored(quarantine) \cup S
  BY <1>1, <1>2, <1>3, RecordIsStored DEF Stored, QuarantineWith
<1>6. Ledger!KeepAside(S)
  BY <1>4, <1>5 DEF Ledger!KeepAside
<1> QED
  BY <1>6 DEF Ledger!LedgerNext

(* A delivery that enters finds room in the ledger's capacity: what is     *)
(* stored afterwards is what total_count counts.                           *)
LEMMA EnqueueAccepts ==
  ASSUME Accounted, NEW d \in DeliveryIds, NEW p \in Principals, NEW at \in Times,
         NEW err, Enqueue(d, p, at, err),
         (CountersExact /\ WithinBounds /\ BucketsExclusive)'
  PROVE  Ledger!LedgerNext \/ UNCHANGED Ledger!ledger
<1> DEFINE pruned == IF HasRoom(count, used) THEN {} ELSE Expired(clock)
           record == [principal |-> p, state |-> "pending", sequence |-> sequence + 1,
                      at |-> at, failed |-> FALSE, quarantinedAt |-> 0]
<1>1. CASE UNCHANGED storeVars
  BY <1>1, LedgerStutter DEF storeVars
<1>2. CASE ~(UNCHANGED storeVars)
  <2>1. /\ d \notin Stored(deliveries) \cup Stored(quarantine)
        /\ quarantine' = Drop(quarantine, pruned)
    BY <1>2 DEF Enqueue
  <2>2. Stored(quarantine') \subseteq Stored(quarantine)
    BY <2>1, DropStored
  <2>3. CASE UNCHANGED deliveries
    <3>1. Ledger!Expire
      BY <2>2, <2>3 DEF Ledger!Expire
    <3> QED
      BY <3>1 DEF Ledger!LedgerNext
  <2>4. CASE sequence < MaxSequence /\ deliveries' = [deliveries EXCEPT ![d] = record]
    <3>1. deliveries \in [DeliveryIds -> Record \cup {NoRecord}]
      BY AccountedMeans
    <3>2. record \in Record
      BY <2>4, BoundsAssumption DEF Record, Times, Accounted, Consistent, TypeOK
    <3>3. Stored(deliveries') = Stored(deliveries) \cup {d}
      BY <2>4, <3>1, <3>2, RecordIsStored DEF Stored
    <3>4. Cardinality(Stored(deliveries') \cup Stored(quarantine')) <= MaxEvents
      <4> DEFINE A == Stored(deliveries')
                 B == Stored(quarantine')
      <4>1. A \cap B = {} /\ Cardinality(A) + Cardinality(B) <= MaxEvents
        BY DEF CountersExact, WithinBounds, BucketsExclusive
      <4>2. IsFiniteSet(A) /\ IsFiniteSet(B)
        BY StoredFinite
      <4> HIDE DEF A, B
      <4>3. Cardinality(A \cup B) = Cardinality(A) + Cardinality(B) - Cardinality(A \cap B)
        BY <4>2, FS_Union
      <4>4. Cardinality(A \cap B) = 0 /\ Cardinality(A) \in Nat /\ Cardinality(B) \in Nat
        BY <4>1, <4>2, FS_EmptySet, FS_CardinalityType
      <4>5. Cardinality(A \cup B) <= MaxEvents
        BY <4>1, <4>3, <4>4
      <4> QED
        BY <4>5 DEF A, B
    <3>5. Ledger!Accept(d)
      <4>1. \A S : Ledger!Cardinality(S) = Cardinality(S)
        BY Zenon DEF Ledger!Cardinality, Cardinality
      <4> QED
        BY <2>1, <2>2, <3>3, <3>4, <4>1 DEF Ledger!Accept
    <3> QED
      BY <3>5 DEF Ledger!LedgerNext
  <2> QED
    BY <1>2, <2>3, <2>4 DEF Enqueue
<1> QED
  BY <1>1, <1>2

(* Delete settles one delivery, from the bucket that has it.               *)
LEMMA DeleteSettles ==
  ASSUME NEW d \in DeliveryIds, NEW err, Delete(d, err)
  PROVE  Ledger!LedgerNext \/ UNCHANGED Ledger!ledger
<1>1. CASE UNCHANGED storeVars
  BY <1>1, LedgerStutter DEF storeVars
<1>2. CASE \/ /\ d \in Stored(deliveries)
              /\ deliveries' = Drop(deliveries, {d}) /\ UNCHANGED quarantine
           \/ /\ d \in Stored(quarantine)
              /\ quarantine' = Drop(quarantine, {d}) /\ UNCHANGED deliveries
  <2>1. Ledger!Settle(d)
    BY <1>2, DropStored DEF Ledger!Settle
  <2> QED
    BY <2>1 DEF Ledger!LedgerNext
<1> QED
  BY <1>1, <1>2 DEF Delete

(* Every write of one delivery is a step of the ledger, or none.           *)
LEMMA WriteDeliveryRefines ==
  ASSUME Accounted, WriteDelivery,
         (CountersExact /\ WithinBounds /\ BucketsExclusive)'
  PROVE  Ledger!LedgerNext \/ UNCHANGED Ledger!ledger
<1> PICK d \in DeliveryIds, err \in Errors :
      \/ \E p \in Principals, at \in Times : Enqueue(d, p, at, err)
      \/ MarkInflight(d, err)
      \/ \E next \in Times : Retry(d, next, err)
      \/ \E kind \in {"collision", "credential", "binding"}, c, b \in Generations :
           PauseDelivery(d, kind, c, b, err)
      \/ Quarantine(d, err)
      \/ ResolveDeliveryCollision(d, err)
      \/ Delete(d, err)
  BY DEF WriteDelivery
<1>a. d \in Stored(deliveries) => deliveries[d] \in Record
  BY AccountedMeans, StoredRecord
<1>0. CASE UNCHANGED storeVars
  BY <1>0, LedgerStutter DEF storeVars
<1>1. CASE \E p \in Principals, at \in Times : Enqueue(d, p, at, err)
  BY <1>1, EnqueueAccepts
<1>2. CASE MarkInflight(d, err) /\ ~(UNCHANGED storeVars)
  <2> DEFINE record == [deliveries[d] EXCEPT !.state = "inflight"]
  <2>1. d \in Stored(deliveries) /\ Rewrite(d, record, err) /\ UNCHANGED quarantine
    BY <1>2 DEF MarkInflight
  <2>2. record \in Record
    BY <1>a, <2>1 DEF Record
  <2> HIDE DEF record
  <2> QED
    BY <2>1, <2>2, RewriteStutters
<1>3. CASE (\E next \in Times : Retry(d, next, err)) /\ ~(UNCHANGED storeVars)
  <2>0. PICK next \in Times : Retry(d, next, err)
    BY <1>3
  <2> DEFINE record == [deliveries[d] EXCEPT !.state = "pending", !.at = next, !.failed = TRUE]
  <2>1. d \in Stored(deliveries) /\ Rewrite(d, record, err) /\ UNCHANGED quarantine
    BY <1>3, <2>0 DEF Retry
  <2>2. record \in Record
    BY <1>a, <2>1 DEF Record
  <2> HIDE DEF record
  <2> QED
    BY <2>1, <2>2, RewriteStutters
<1>4. CASE (\E kind \in {"collision", "credential", "binding"}, c, b \in Generations :
              PauseDelivery(d, kind, c, b, err)) /\ ~(UNCHANGED storeVars)
  <2> DEFINE record == [deliveries[d] EXCEPT !.state = "pending", !.failed = TRUE]
  <2>1. d \in Stored(deliveries) /\ Rewrite(d, record, err) /\ UNCHANGED quarantine
    BY <1>4 DEF PauseDelivery
  <2>2. record \in Record
    BY <1>a, <2>1 DEF Record
  <2> HIDE DEF record
  <2> QED
    BY <2>1, <2>2, RewriteStutters
<1>5. CASE (Quarantine(d, err) \/ ResolveDeliveryCollision(d, err)) /\ ~(UNCHANGED storeVars)
  <2>1. {d} \in SUBSET Stored(deliveries) /\ MoveAside({d}, clock)
    BY <1>5 DEF Quarantine, ResolveDeliveryCollision
  <2> QED
    BY <2>1, MoveAsideKeeps
<1>6. CASE Delete(d, err)
  BY <1>6, DeleteSettles
<1> QED
  BY <1>0, <1>1, <1>2, <1>3, <1>4, <1>5, <1>6

(* So is every write of several records; the replacement of a corrupt      *)
(* database is the ledger's StartEmpty.                                    *)
LEMMA WriteManyRefines ==
  ASSUME Accounted, WriteMany
  PROVE  Ledger!LedgerNext \/ UNCHANGED Ledger!ledger
<1>0. CASE UNCHANGED storeVars
  BY <1>0, LedgerStutter DEF storeVars
<1>1. CASE \E S \in SUBSET Stored(deliveries) : MoveAside(S, clock)
  BY <1>1, MoveAsideKeeps
<1>2. CASE PruneQuarantine
  <2>1. Ledger!Expire
    BY <1>2, DropStored DEF PruneQuarantine, Ledger!Expire
  <2> QED
    BY <2>1 DEF Ledger!LedgerNext
<1>3. CASE Open
  <2>1. \A d \in Stored(deliveries) : Reopened(deliveries[d]) \in Record
    <3> SUFFICES ASSUME NEW d \in Stored(deliveries) PROVE Reopened(deliveries[d]) \in Record
      OBVIOUS
    <3>1. deliveries[d] \in Record /\ clock \in Times
      BY AccountedMeans, StoredRecord DEF Accounted, Consistent, TypeOK
    <3> QED
      BY <3>1 DEF Reopened, Record
  <2>2. Stored(deliveries') = Stored(deliveries)
    BY <1>3, <2>1, RecordIsStored DEF Open, Stored
  <2>3. Stored(quarantine') \subseteq Stored(quarantine)
    BY <1>3, DropStored DEF Open
  <2>4. Ledger!Expire
    BY <2>2, <2>3 DEF Ledger!Expire
  <2> QED
    BY <2>4 DEF Ledger!LedgerNext
<1>4. CASE RecoverCorrupt
  <2>1. Ledger!StartEmpty
    BY <1>4 DEF RecoverCorrupt, Stored, Ledger!StartEmpty
  <2> QED
    BY <2>1 DEF Ledger!LedgerNext
<1>5. /\ \A a \in Agents : OfAgent(a) \in SUBSET Stored(deliveries)
      /\ \A p \in Principals : Mismatched(p) \in SUBSET Stored(deliveries)
      /\ OfInstallation(journal.old) \in SUBSET Stored(deliveries)
  BY DEF OfAgent, Mismatched, OfInstallation
<1> QED
  BY <1>0, <1>1, <1>2, <1>3, <1>4, <1>5
     DEF WriteMany, QuarantineByReceiver, ReconcileBinding, QuarantineInstallationRotation

(* The store implements DeliveryLedger: an accepted delivery is forgotten  *)
(* only by Delete or after it was set aside, never to make room.           *)
THEOREM StoreImplementsLedger == Spec => ImplementsLedger
<1>1. Init => Ledger!LedgerInit
  BY DEF Init, Stored, Ledger!LedgerInit
<1>2. Accounted /\ Accounted' /\ [Next]_vars => [Ledger!LedgerNext]_(Ledger!ledger)
  <2> SUFFICES ASSUME Accounted, Accounted', [Next]_vars
               PROVE  Ledger!LedgerNext \/ UNCHANGED Ledger!ledger
    OBVIOUS
  <2>1. (CountersExact /\ WithinBounds /\ BucketsExclusive)'
    BY DEF Accounted, Consistent
  <2>2. CASE SetClock \/ UNCHANGED vars
    BY <2>2, LedgerStutter DEF SetClock, storeVars, vars
  <2>3. CASE WriteMeta
    <3>1. UNCHANGED <<deliveries, quarantine>>
      BY <2>3 DEF WriteMeta, ClearResolvedPause, BeginInstallationRotation,
                  AdvanceInstallationRotation, storeVars
    <3> QED
      BY <3>1, LedgerStutter
  <2> QED
    BY <2>1, <2>2, <2>3, WriteDeliveryRefines, WriteManyRefines DEF Next
<1> QED
  BY <1>1, <1>2, AccountedAlways, PTL DEF Spec, ImplementsLedger, Ledger!LedgerSpec

-----------------------------------------------------------------------------
(* The rotation journal advances one phase at a time and restarts only     *)
(* after it completed; only the loss of the database drops it.             *)
THEOREM JournalOnlyForward == Spec => JournalForward
<1>1. TypeOK /\ [Next]_vars => [JournalStep]_vars
  <2> SUFFICES ASSUME TypeOK, [Next]_vars PROVE JournalStep
    OBVIOUS
  <2>1. CASE SetClock \/ UNCHANGED vars
    BY <2>1 DEF SetClock, storeVars, vars, JournalStep
  <2>2. CASE WriteDelivery
    <3>1. UNCHANGED journal
      <4>1. \A d, p, at, err : Enqueue(d, p, at, err) => UNCHANGED journal
        BY DEF Enqueue, storeVars
      <4>2. \A d, err : MarkInflight(d, err) \/ Quarantine(d, err) => UNCHANGED journal
        BY DEF MarkInflight, Quarantine, storeVars
      <4>3. \A d, next, err : Retry(d, next, err) => UNCHANGED journal
        BY DEF Retry, storeVars
      <4>4. \A d, kind, c, b, err : PauseDelivery(d, kind, c, b, err) => UNCHANGED journal
        BY DEF PauseDelivery, storeVars
      <4>5. \A d, err : ResolveDeliveryCollision(d, err) \/ Delete(d, err) => UNCHANGED journal
        BY DEF ResolveDeliveryCollision, Delete, storeVars
      <4> QED
        BY <2>2, <4>1, <4>2, <4>3, <4>4, <4>5, Zenon DEF WriteDelivery
    <3> QED
      BY <3>1 DEF JournalStep
  <2>3. CASE WriteMany
    <3>1. CASE UNCHANGED journal
      BY <3>1 DEF JournalStep
    <3>2. CASE RecoverCorrupt
      BY <3>2 DEF RecoverCorrupt, JournalStep
    <3>3. CASE /\ journal # NoRecord /\ journal.phase = "intent"
               /\ journal' = [journal EXCEPT !.phase = "old_binding_quarantined"]
      <4>1. journal' = [journal EXCEPT !.phase = journal'.phase]
            /\ journal'.phase = "old_binding_quarantined"
        BY <3>3 DEF TypeOK, Journal
      <4> QED
        BY <3>3, <4>1 DEF JournalStep
    <3> QED
      BY <2>3, <3>1, <3>2, <3>3
         DEF WriteMany, QuarantineByReceiver, ReconcileBinding, QuarantineInstallationRotation,
             PruneQuarantine, Open, storeVars
  <2>4. CASE WriteMeta
    <3>1. CASE UNCHANGED journal
      BY <3>1 DEF JournalStep
    <3>2. CASE \E old, new \in Installations : BeginInstallationRotation(old, new)
      BY <3>2 DEF BeginInstallationRotation, JournalStep
    <3>3. ASSUME NEW from, NEW to, journal # NoRecord, journal.phase = from,
                 journal' = [journal EXCEPT !.phase = to],
                 <<from, to>> \in {<<"old_binding_quarantined", "state_rotated">>,
                                   <<"state_rotated", "completed">>}
          PROVE  JournalStep
      <4>1. journal' = [journal EXCEPT !.phase = journal'.phase] /\ journal'.phase = to
        BY <3>3 DEF TypeOK, Journal
      <4> QED
        BY <3>3, <4>1 DEF JournalStep
    <3> QED
      BY <2>4, <3>1, <3>2, <3>3 DEF WriteMeta, ClearResolvedPause, AdvanceInstallationRotation, storeVars
  <2> QED
    BY <2>1, <2>2, <2>3, <2>4 DEF Next
<1> QED
  BY <1>1, TypeCorrect, PTL DEF Spec, JournalForward

-----------------------------------------------------------------------------
(* The locals of the dispatcher, by the point it stands at.                *)

BatchPcs == {"clear", "check", "reconcile", "next"}

AttemptPcs == {"mark", "post", "ack", "retry", "quarantine", "collision", "credential", "binding"}

LEMMA DispShape ==
  ASSUME TypeDispatchOK
  PROVE  /\ disp.pc \in BatchPcs => disp \in Batches
         /\ disp.pc \in AttemptPcs => disp \in Attempts
         /\ disp.pc = "heartbeat" => disp \in [pc : {"heartbeat"}, principal : Principals]
         /\ disp.pc \in BatchPcs \cup AttemptPcs \cup {"idle", "heartbeat", "lifecycle"}
BY DEF TypeDispatchOK, BatchPcs, AttemptPcs, Idle, Batches, Attempts

LEMMA RotationShape ==
  ASSUME TypeDispatchOK
  PROVE  /\ rotation.pc \in {"recover", "record", "finish"} =>
              rotation \in [pc : {"recover", "record", "finish"}, goal : Goals]
         /\ rotation.pc = "begin" =>
              rotation \in [pc : {"begin"}, goal : Goals, old : Installations, new : Installations]
         /\ rotation.pc \in {"idle", "begin", "recover", "record", "finish"}
         /\ rotation.pc = "idle" => rotation = Idle
BY DEF TypeDispatchOK, Idle

LEMMA AgentType ==
  ASSUME NEW p \in Principals
  PROVE  p.agent \in Agents /\ p.installation \in Installations
BY DEF Agents, Installations

-----------------------------------------------------------------------------
(* Every step of the receiver is one call of the store, or none.           *)

LEMMA DispatchStepCalls ==
  ASSUME TypeOK, TypeDispatchOK, DispatchStep
  PROVE  [Next]_vars
<1>1. CASE ClearPause
  <2>1. disp \in Batches /\ ClearResolvedPause(disp.credGen, disp.bindGen) /\ UNCHANGED clock
    BY <1>1, DispShape DEF ClearPause, AtPc, BatchPcs
  <2>2. disp.credGen \in Generations /\ disp.bindGen \in Generations
    BY <2>1 DEF Batches
  <2> QED
    BY <2>1, <2>2 DEF Next, WriteMeta
<1>2. CASE CheckPause \/ PickDue
  BY <1>2 DEF CheckPause, PickDue
<1>3. CASE Reconcile
  <2>1. disp \in Batches /\ UNCHANGED clock
    BY <1>3, DispShape DEF Reconcile, AtPc, BatchPcs
  <2>2. PICK err \in Errors : ReconcileBinding(disp.principal, err)
    BY <1>3 DEF Reconcile
  <2>3. disp.principal \in Principals
    BY <2>1 DEF Batches
  <2> QED
    BY <2>1, <2>2, <2>3 DEF Next, WriteMany
<1>4. CASE Mark \/ Acknowledge \/ SetAside
  <2>1. disp \in Attempts /\ UNCHANGED clock
    BY <1>4, DispShape DEF Mark, Acknowledge, SetAside, AtPc, AttemptPcs
  <2>2. PICK err \in Errors :
          MarkInflight(disp.id, err) \/ Delete(disp.id, err) \/ Quarantine(disp.id, err)
    BY <1>4 DEF Mark, Acknowledge, SetAside
  <2>3. disp.id \in DeliveryIds
    BY <2>1 DEF Attempts
  <2> QED
    BY <2>1, <2>2, <2>3 DEF Next, WriteDelivery
<1>5. CASE RetryLater
  <2>1. disp \in Attempts /\ UNCHANGED clock
    BY <1>5, DispShape DEF RetryLater, AtPc, AttemptPcs
  <2>2. PICK delay \in 1..MaxRetryDelay, err \in Errors :
          Retry(disp.id, Earlier(disp.now + delay, MaxTime), err)
    BY <1>5 DEF RetryLater
  <2>3. disp.id \in DeliveryIds /\ disp.now \in Times
    BY <2>1 DEF Attempts
  <2>4. Earlier(disp.now + delay, MaxTime) \in Times
    BY <2>3, BoundsAssumption, DispatchAssumption DEF Earlier, Times
  <2> HIDE DEF Times
  <2> QED
    BY <2>1, <2>2, <2>3, <2>4 DEF Next, WriteDelivery
<1>6. ASSUME NEW kind \in {"collision", "credential", "binding"}, PauseOn(kind)
      PROVE  [Next]_vars
  <2>1. disp \in Attempts /\ UNCHANGED clock
    BY <1>6, DispShape DEF PauseOn, AtPc, AttemptPcs
  <2>2. PICK err \in Errors : PauseDelivery(disp.id, kind, disp.credGen, disp.bindGen, err)
    BY <1>6 DEF PauseOn
  <2>3. disp.id \in DeliveryIds /\ disp.credGen \in Generations /\ disp.bindGen \in Generations
    BY <2>1 DEF Attempts
  <2> QED
    BY <2>1, <2>2, <2>3 DEF Next, WriteDelivery
<1> QED
  BY <1>1, <1>2, <1>3, <1>4, <1>5, <1>6 DEF DispatchStep

LEMMA CallsStore ==
  ASSUME TypeOK, TypeDispatchOK, [NextDispatch]_allVars
  PROVE  [Next]_vars
<1>1. CASE UNCHANGED vars
  BY <1>1
<1>2. CASE WriteStaged
  <2>1. stage # <<>> /\ UNCHANGED clock
    BY <1>2 DEF WriteStaged
  <2>2. Head(stage) \in StagedDelivery
    BY <2>1 DEF TypeDispatchOK
  <2>3. PICK err \in Errors : Enqueue(Head(stage).id, Head(stage).principal, Head(stage).at, err)
    BY <1>2 DEF WriteStaged
  <2>4. /\ Head(stage).id \in DeliveryIds /\ Head(stage).principal \in Principals
        /\ Head(stage).at \in Times
    BY <2>2 DEF StagedDelivery
  <2> QED
    BY <2>1, <2>3, <2>4 DEF Next, WriteDelivery
<1>3. CASE PruneTick \/ Start
  BY <1>3 DEF PruneTick, Start, Next, WriteMany
<1>4. CASE LifecycleQuarantine
  <2>1. CASE receiver.principal # NoRecord /\ ~(UNCHANGED vars)
    <3>1. PICK err \in Errors : QuarantineByReceiver(receiver.principal.agent, err)
      BY <1>4, <2>1 DEF LifecycleQuarantine
    <3>2. receiver.principal.agent \in Agents
      BY <2>1, AgentType DEF TypeDispatchOK, Receiver
    <3> QED
      BY <1>4, <3>1, <3>2 DEF LifecycleQuarantine, Next, WriteMany
  <2>2. CASE receiver.principal = NoRecord
    BY <1>4, <2>2 DEF LifecycleQuarantine, vars, storeVars
  <2> QED
    BY <2>1, <2>2
<1>5. ASSUME NEW d \in DeliveryIds, ResolveCollision(d)
      PROVE  [Next]_vars
  BY <1>5 DEF ResolveCollision, Next, WriteDelivery
<1>6. CASE BeginRotation
  <2>1. rotation.old \in Installations /\ rotation.new \in Installations
    BY <1>6, RotationShape DEF BeginRotation
  <2> QED
    BY <1>6, <2>1 DEF BeginRotation, Next, WriteMeta
<1>7. CASE RotateQuarantine
  BY <1>7 DEF RotateQuarantine, Next, WriteMany
<1>8. CASE RotateRecord \/ RotateComplete
  BY <1>8 DEF RotateRecord, RotateRefused, RotateComplete, Next, WriteMeta
<1>9. CASE TickClock
  <2>1. clock' \in Times
    BY <1>9, BoundsAssumption DEF TickClock, TypeOK, Times
  <2> QED
    BY <1>9, <2>1 DEF TickClock, Next, SetClock
<1>10. ~(UNCHANGED vars) =>
         \/ WriteStaged \/ PruneTick \/ DispatchStep \/ LifecycleQuarantine
         \/ \E d \in DeliveryIds : ResolveCollision(d)
         \/ BeginRotation \/ RotateQuarantine \/ RotateRecord \/ RotateComplete
         \/ Start \/ TickClock
  BY DEF NextDispatch, EngineStep, RunLoopStep, RotationStep, allVars,
         BeginBatch, Heartbeat, HeartbeatAnswered, LifecycleApply, Activate, Promote,
         RotateState, RotateRefused, FinishRequest, Stage, Answer, LocalReset, BeginRequest, Crash
<1> QED
  BY <1>1, <1>2, <1>3, <1>4, <1>5, <1>6, <1>7, <1>8, <1>9, <1>10, DispatchStepCalls

(* The store's own step keeps its types and its consistency.               *)
LEMMA StaysConsistent ==
  ASSUME Consistent, [Next]_vars
  PROVE  Consistent'
<1>1. CASE SetClock \/ UNCHANGED vars
  <2>1. UNCHANGED storeVars /\ TypeOK'
    BY <1>1 DEF SetClock, vars, storeVars, Consistent, TypeOK
  <2> QED
    BY <2>1, UntouchedConsistent DEF storeVars, Consistent
<1>2. CASE (WriteDelivery \/ WriteMany \/ WriteMeta) /\ UNCHANGED clock
  <2>1. TypeOK
    BY DEF Consistent
  <2>2. TypeOK'
    BY <1>2, <2>1, WriteDeliveryType, WriteManyType, WriteMetaType
  <2>3. (DueIndexExact /\ BucketsExclusive /\ MemoSound)'
    BY <1>2, WriteDeliveryConsistent, WriteManyConsistent, WriteMetaConsistent
  <2> QED
    BY <2>2, <2>3 DEF Consistent
<1> QED
  BY <1>1, <1>2 DEF Next

-----------------------------------------------------------------------------
(* Type correctness, variable by variable.                                 *)

LocalSteps ==
  \/ BeginBatch \/ DispatchStep \/ Heartbeat \/ HeartbeatAnswered
  \/ LifecycleQuarantine \/ LifecycleApply
  \/ \E outcome \in Outcomes : Answer(outcome)
  \/ Crash

LEMMA OnlyLocalSteps ==
  ASSUME [NextDispatch]_allVars, ~LocalSteps
  PROVE  UNCHANGED disp
BY DEF NextDispatch, EngineStep, RunLoopStep, RotationStep, allVars, dispatchVars, LocalSteps,
       WriteStaged, PruneTick, Activate, Promote, BeginRotation, RotateQuarantine, RotateState,
       RotateRecord, RotateRefused, RotateComplete, FinishRequest, Stage, ResolveCollision, LocalReset,
       BeginRequest, Start, TickClock

LEMMA BatchMoves ==
  ASSUME TypeOK, TypeDispatchOK, ClearPause \/ CheckPause \/ Reconcile
  PROVE  disp' = Idle \/ disp' \in Batches
<1>1. disp \in Batches
  BY DispShape DEF ClearPause, CheckPause, Reconcile, AtPc, BatchPcs
<1>2. disp' = Idle \/ \E pc \in {"check", "reconcile", "next"} : disp' = [disp EXCEPT !.pc = pc]
  BY DEF ClearPause, CheckPause, Reconcile, GoTo
<1> QED
  BY <1>1, <1>2 DEF Batches

LEMMA PickMoves ==
  ASSUME Consistent, TypeDispatchOK, PickDue
  PROVE  disp' = Idle \/ (disp' \in Attempts /\ disp'.pc = "mark")
<1>1. disp \in Batches
  BY DispShape DEF PickDue, AtPc, BatchPcs
<1>2. CASE disp' # Idle
  <2>1. PICK k \in due :
          disp' = [pc |-> "mark", principal |-> disp.principal, credGen |-> disp.credGen,
                   bindGen |-> disp.bindGen, left |-> disp.left, now |-> disp.now,
                   id |-> k.id, sentAs |-> deliveries[k.id].principal]
    BY <1>2 DEF PickDue
  <2>2. k.id \in Stored(deliveries)
    <3>1. k \in KeysOf({d \in Stored(deliveries) : deliveries[d].state = "pending"})
      BY DEF Consistent, DueIndexExact
    <3>2. PICK d \in Stored(deliveries) : k = KeyOf(d, deliveries[d])
      BY <3>1 DEF KeysOf
    <3> QED
      BY <3>2 DEF KeyOf
  <2>3. k.id \in DeliveryIds /\ deliveries[k.id] \in Record
    BY <2>2, StoredRecord DEF Consistent, TypeOK
  <2>4. deliveries[k.id].principal \in Principals
    BY <2>3 DEF Record
  <2> QED
    BY <1>1, <2>1, <2>3, <2>4 DEF Batches, Attempts
<1> QED
  BY <1>2

LEMMA AttemptMoves ==
  ASSUME TypeOK, TypeDispatchOK,
         Mark \/ Acknowledge \/ SetAside \/ RetryLater
         \/ (\E kind \in {"collision", "credential", "binding"} : PauseOn(kind))
         \/ (\E outcome \in Outcomes : Answer(outcome))
  PROVE  \/ disp' = Idle
         \/ disp' \in Batches
         \/ /\ disp' \in Attempts
            /\ \E pc \in AttemptPcs : disp' = [disp EXCEPT !.pc = pc]
<1>1. disp \in Attempts
  BY DispShape DEF Mark, Acknowledge, SetAside, RetryLater, PauseOn, Answer, AtPc, AttemptPcs
<1>2. \/ disp' = Idle
      \/ Continue
      \/ \E pc \in AttemptPcs : disp' = [disp EXCEPT !.pc = pc]
  BY DispatchAssumption DEF Mark, Acknowledge, SetAside, RetryLater, PauseOn, Answer, GoTo, AttemptPcs
<1>3. CASE Continue
  <2>1. MaxBatch \in Nat /\ disp.left \in 1..MaxBatch /\ clock \in Times
    BY <1>1, DispatchAssumption DEF Attempts, TypeOK
  <2>2. disp.left > 1 => disp.left - 1 \in 1..MaxBatch
    BY <2>1
  <2> QED
    BY <1>1, <1>3, <2>1, <2>2 DEF Continue, Attempts, Batches
<1> QED
  BY <1>1, <1>2, <1>3 DEF Attempts, AttemptPcs

LEMMA LocalsTyped ==
  ASSUME Consistent, TypeDispatchOK, [NextDispatch]_allVars
  PROVE  \/ disp' \in {Idle, [pc |-> "lifecycle"]}
         \/ disp' \in [pc : {"heartbeat"}, principal : Principals]
         \/ disp' \in Batches
         \/ disp' \in Attempts
<1>1. TypeOK
  BY DEF Consistent
<1>2. CASE ~LocalSteps
  BY <1>2, OnlyLocalSteps DEF TypeDispatchOK
<1>3. CASE BeginBatch
  <2>1. receiver.principal \in Principals
    BY <1>3 DEF BeginBatch, BindingReady, TypeDispatchOK, Receiver
  <2>2. MaxBatch \in 1..MaxBatch /\ clock \in Times
    BY <1>1, DispatchAssumption DEF TypeOK
  <2> QED
    BY <1>3, <2>1, <2>2 DEF BeginBatch, TypeDispatchOK, Receiver, Batches
<1>4. CASE DispatchStep \/ \E outcome \in Outcomes : Answer(outcome)
  BY <1>1, <1>4, BatchMoves, PickMoves, AttemptMoves DEF DispatchStep
<1>5. CASE Heartbeat \/ HeartbeatAnswered \/ LifecycleQuarantine \/ LifecycleApply \/ Crash
  BY <1>5 DEF Heartbeat, BindingReady, HeartbeatAnswered, LifecycleQuarantine, LifecycleApply,
       Crash, TypeDispatchOK, Receiver
<1> QED
  BY <1>2, <1>3, <1>4, <1>5 DEF LocalSteps

LEMMA ReceiverTyped ==
  ASSUME TypeOK, TypeDispatchOK, [NextDispatch]_allVars
  PROVE  /\ receiver' \in Receiver
         /\ receiver'.principal # NoRecord => receiver'.principal.installation = receiver'.installation
<1>1. CASE LifecycleApply \/ Promote \/ LocalReset \/ FinishRequest
  <2>1. \/ receiver' = receiver
        \/ receiver' = Cleared
        \/ \E phase \in PairingPhases : receiver' = [receiver EXCEPT !.phase = phase]
    BY <1>1 DEF LifecycleApply, Promote, LocalReset, FinishRequest, PairingPhases
  <2> QED
    BY <2>1 DEF Cleared, TypeDispatchOK, Receiver, PairingPhases
<1>2. CASE Activate
  <2>1. PICK p \in Principals : p.installation = receiver.installation /\ receiver' = Activated(p)
    BY <1>2 DEF Activate
  <2>2. receiver.credGen + 1 \in Generations /\ receiver.bindGen + 1 \in Generations
    BY <1>2, BoundsAssumption DEF Activate, TypeDispatchOK, Receiver, Generations
  <2>3. receiver.bindGen + (IF Names(p) THEN 0 ELSE 1) \in Generations
    BY <2>2, BoundsAssumption DEF TypeDispatchOK, Receiver, Generations
  <2>4. /\ receiver'.installation = receiver.installation /\ receiver'.principal = p
        /\ receiver' \in Receiver
    BY <2>1, <2>2, <2>3 DEF Activated, TypeDispatchOK, Receiver, PairingPhases
  <2> QED
    BY <2>1, <2>4
<1>3. CASE RotateState
  <2>1. /\ receiver' = [Cleared EXCEPT !.installation = journal.new, !.bound = FALSE]
        /\ journal.new \in Installations
    BY <1>3 DEF RotateState, InPhase, TypeOK, Journal
  <2> QED
    BY <2>1 DEF Cleared, TypeDispatchOK, Receiver, PairingPhases
<1>4. CASE HeartbeatAnswered /\ ~(UNCHANGED receiver)
  <2>1. disp.principal \in Principals
    BY <1>4, DispShape DEF HeartbeatAnswered, AtPc
  <2>2. receiver.bindGen + 1 \in Generations
    BY <1>4, BoundsAssumption DEF HeartbeatAnswered, TypeDispatchOK, Receiver, Generations
  <2>3. receiver' = [receiver EXCEPT !.stray = disp.principal, !.bindGen = @ + 1]
    BY <1>4 DEF HeartbeatAnswered
  <2> QED
    BY <2>1, <2>2, <2>3 DEF TypeDispatchOK, Receiver
<1>5. \/ LifecycleApply \/ Promote \/ LocalReset \/ FinishRequest \/ Activate \/ RotateState
      \/ HeartbeatAnswered \/ UNCHANGED receiver
  BY DEF NextDispatch, EngineStep, RunLoopStep, RotationStep, DispatchStep, allVars, dispatchVars,
         WriteStaged, PruneTick, BeginBatch, Heartbeat, LifecycleQuarantine,
         ClearPause, CheckPause, Reconcile, PickDue, Mark, Acknowledge, SetAside, RetryLater, PauseOn,
         BeginRotation, RotateQuarantine, RotateRecord, RotateRefused, RotateComplete, Stage,
         ResolveCollision, Answer, BeginRequest, Crash, Start, TickClock
<1> QED
  BY <1>1, <1>2, <1>3, <1>4, <1>5 DEF TypeDispatchOK

LEMMA RotationTyped ==
  ASSUME TypeOK, TypeDispatchOK, [NextDispatch]_allVars
  PROVE  \/ rotation' = Idle
         \/ rotation' \in [pc : {"recover", "record", "finish"}, goal : Goals]
         \/ rotation' \in [pc : {"begin"}, goal : Goals, old : Installations, new : Installations]
<1>1. ASSUME NEW goal \in {"re_pair", "deauthorize"}, BeginRequest(goal)
      PROVE  \/ rotation' \in [pc : {"recover", "finish"}, goal : Goals]
             \/ rotation' \in [pc : {"begin"}, goal : Goals, old : Installations, new : Installations]
  <2>1. receiver.installation \in Installations /\ goal \in Goals
    BY DEF TypeDispatchOK, Receiver, Goals
  <2> QED
    BY <1>1, <2>1 DEF BeginRequest
<1>2. CASE BeginRotation \/ RotateState \/ RotateRecord \/ RotateComplete
  <2>1. rotation.goal \in Goals
    BY <1>2, RotationShape DEF BeginRotation, RotateState, RotateRecord, RotateComplete, InPhase
  <2> QED
    BY <1>2, <2>1 DEF BeginRotation, RotateState, RotateRecord, RotateComplete
<1>3. CASE RotateQuarantine \/ RotateRefused \/ FinishRequest \/ Crash
  BY <1>3 DEF RotateQuarantine, RotateRefused, FinishRequest, Crash, TypeDispatchOK
<1>4. CASE Start
  BY <1>4 DEF Start, Goals
<1>5. \/ \E goal \in {"re_pair", "deauthorize"} : BeginRequest(goal)
      \/ BeginRotation \/ RotateState \/ RotateRecord \/ RotateComplete
      \/ RotateQuarantine \/ RotateRefused \/ FinishRequest \/ Crash \/ Start
      \/ UNCHANGED rotation
  BY DEF NextDispatch, EngineStep, RunLoopStep, RotationStep, DispatchStep, allVars, dispatchVars,
         WriteStaged, PruneTick, BeginBatch, Heartbeat, HeartbeatAnswered, LifecycleQuarantine,
         LifecycleApply, Activate, Promote, LocalReset,
         ClearPause, CheckPause, Reconcile, PickDue, Mark, Acknowledge, SetAside, RetryLater, PauseOn,
         Stage, ResolveCollision, Answer, TickClock
<1> QED
  BY <1>1, <1>2, <1>3, <1>4, <1>5 DEF TypeDispatchOK

LEMMA StageTyped ==
  ASSUME TypeOK, TypeDispatchOK, [NextDispatch]_allVars
  PROVE  /\ stage' \in Seq(StagedDelivery) /\ Len(stage') <= StageMaxEvents
         /\ minted' \subseteq DeliveryIds
<1>1. StageMaxEvents \in Nat /\ StageMaxEvents > 0 /\ Len(stage) \in Nat
  BY DispatchAssumption DEF TypeDispatchOK
<1>2. ASSUME NEW d \in DeliveryIds, Stage(d)
      PROVE  /\ stage' \in Seq(StagedDelivery) /\ Len(stage') <= StageMaxEvents
             /\ minted' \subseteq DeliveryIds
  <2>1. receiver.principal \in Principals /\ clock \in Times
    BY <1>2 DEF Stage, BindingReady, TypeDispatchOK, Receiver, TypeOK
  <2>2. [id |-> d, principal |-> receiver.principal, at |-> clock] \in StagedDelivery
    BY <2>1 DEF StagedDelivery
  <2>3. stage' = Append(stage, [id |-> d, principal |-> receiver.principal, at |-> clock])
    BY <1>2 DEF Stage
  <2>4. stage' \in Seq(StagedDelivery) /\ Len(stage') = Len(stage) + 1
    BY <2>2, <2>3 DEF TypeDispatchOK
  <2>5. Len(stage) < StageMaxEvents /\ minted' = minted \cup {d}
    BY <1>2 DEF Stage
  <2> QED
    BY <1>1, <2>4, <2>5 DEF TypeDispatchOK
<1>3. CASE WriteStaged
  <2>1. stage # <<>> /\ stage' = Tail(stage) /\ minted' = minted
    BY <1>3 DEF WriteStaged
  <2>2. stage' \in Seq(StagedDelivery) /\ Len(stage') = Len(stage) - 1
    BY <2>1 DEF TypeDispatchOK
  <2> QED
    BY <1>1, <2>1, <2>2 DEF TypeDispatchOK
<1>4. CASE Crash
  BY <1>1, <1>4 DEF Crash, TypeDispatchOK
<1>5. \/ \E d \in DeliveryIds : Stage(d)
      \/ WriteStaged \/ Crash
      \/ UNCHANGED <<stage, minted>>
  BY DEF NextDispatch, EngineStep, RunLoopStep, RotationStep, DispatchStep, allVars, dispatchVars,
         PruneTick, BeginBatch, Heartbeat, HeartbeatAnswered, LifecycleQuarantine,
         LifecycleApply, Activate, Promote, LocalReset, FinishRequest,
         ClearPause, CheckPause, Reconcile, PickDue, Mark, Acknowledge, SetAside, RetryLater, PauseOn,
         BeginRotation, RotateQuarantine, RotateState, RotateRecord, RotateRefused, RotateComplete,
         ResolveCollision, Answer, BeginRequest, Start, TickClock
<1> QED
  BY <1>2, <1>3, <1>4, <1>5 DEF TypeDispatchOK

(* The process is up, starting or down, and the dispatcher at rest but in  *)
(* a running process.                                                      *)
AtRest == up # "running" => disp = Idle

LEMMA UpTyped ==
  ASSUME TypeDispatchOK, AtRest, [NextDispatch]_allVars
  PROVE  up' \in {"down", "starting", "running"} /\ AtRest'
<1>1. CASE LocalSteps
  <2>1. Crash \/ (up = "running" /\ up' = up)
    BY <1>1 DEF LocalSteps, DispatchStep, BeginBatch, Heartbeat, HeartbeatAnswered, LifecycleQuarantine,
           LifecycleApply, Answer, ClearPause, CheckPause, Reconcile, PickDue, Mark, Acknowledge,
           SetAside, RetryLater, PauseOn, AtPc, Running
  <2> QED
    BY <2>1 DEF Crash, AtRest
<1>2. CASE ~LocalSteps
  <2>1. disp' = disp
    BY <1>2, OnlyLocalSteps
  <2>2. \/ RotateQuarantine \/ RotateRefused \/ FinishRequest \/ Start
        \/ UNCHANGED up
    BY <1>2 DEF LocalSteps, NextDispatch, EngineStep, RunLoopStep, RotationStep, allVars, dispatchVars,
         WriteStaged, PruneTick, Activate, Promote, LocalReset,
         BeginRotation, RotateState, RotateRecord, RotateComplete,
         Stage, ResolveCollision, BeginRequest, TickClock
  <2>3. up' \in {"down", "starting", "running"} /\ (up = "running" /\ up' # "running" => FALSE)
    BY <2>2 DEF RotateQuarantine, RotateRefused, FinishRequest, Start, TypeDispatchOK
  <2> QED
    BY <2>1, <2>3 DEF AtRest
<1> QED
  BY <1>1, <1>2

Typed == Consistent /\ TypeDispatchOK /\ AtRest

LEMMA TypedInit ==
  ASSUME InitDispatch
  PROVE  Typed
<1>1. Consistent
  BY BoundsAssumption
     DEF InitDispatch, Init, Consistent, TypeOK, Times, DueIndexExact, BucketsExclusive, MemoSound, KeysOf, Stored
<1>2. PICK p \in Principals :
        receiver = [installation |-> p.installation, principal |-> p, stray |-> NoRecord,
                    bound |-> TRUE, phase |-> "steady_state", credGen |-> 0, bindGen |-> 0]
  BY DEF InitDispatch
<1>3. receiver \in Receiver /\ receiver.principal.installation = receiver.installation
  BY <1>2, BoundsAssumption, AgentType DEF Receiver, PairingPhases, Generations
<1> QED
  BY <1>1, <1>3, DispatchAssumption DEF InitDispatch, Typed, TypeDispatchOK, AtRest

LEMMA TypedNext ==
  ASSUME Typed, [NextDispatch]_allVars
  PROVE  Typed'
<1>1. TypeOK /\ Consistent /\ TypeDispatchOK /\ AtRest
  BY DEF Typed, Consistent
<1>2. Consistent'
  BY <1>1, CallsStore, StaysConsistent
<1>3. TypeDispatchOK' /\ AtRest'
  BY <1>1, LocalsTyped, ReceiverTyped, RotationTyped, StageTyped, UpTyped DEF TypeDispatchOK
<1> QED
  BY <1>2, <1>3 DEF Typed

(* Locals, channels and identity keep their types, wherever the Run loop,  *)
(* requests, rotations and crashes stand.                                  *)
THEOREM DispatchTypeCorrect == SpecDispatch => []TypeDispatchOK
<1>1. InitDispatch => Typed
  BY TypedInit
<1>2. Typed /\ [NextDispatch]_allVars => Typed'
  BY TypedNext
<1>3. Typed => TypeDispatchOK
  BY DEF Typed
<1> QED
  BY <1>1, <1>2, <1>3, PTL DEF SpecDispatch

(* The receiver's goroutines use the store within its specification, so    *)
(* that what is proved of every sequence of calls holds of theirs.         *)
THEOREM DispatchUsesStore == SpecDispatch => Spec
<1>1. InitDispatch => Typed /\ Init
  BY TypedInit DEF InitDispatch
<1>2. Typed /\ [NextDispatch]_allVars => Typed'
  BY TypedNext
<1>3. Typed /\ [NextDispatch]_allVars => [Next]_vars
  BY CallsStore DEF Typed, Consistent
<1> QED
  BY <1>1, <1>2, <1>3, PTL DEF SpecDispatch, Spec

(* What the store's theorems say of any sequence of calls holds of the     *)
(* receiver's: the index and the counters are exact, the bounds are kept,  *)
(* and nothing that was accepted is let go of but by Delete.               *)
THEOREM DispatchKeepsStore ==
  SpecDispatch => [](DueIndexExact /\ MemoSound /\ CountersExact /\ WithinBounds) /\ ImplementsLedger
BY DispatchUsesStore, DueIndexAlwaysExact, MemoAlwaysSound, CountersAlwaysExact, AlwaysWithinBounds,
   StoreImplementsLedger, PTL

-----------------------------------------------------------------------------
(* No pause between the check and the end of the attempt.                  *)

Unpaused == disp.pc \in {"reconcile", "next"} \cup AttemptPcs => pause = NoRecord

(* Only the dispatcher sets a pause, and it stops with it.                 *)
LEMMA PauseByDispatcher ==
  ASSUME [NextDispatch]_allVars
  PROVE  pause' \in {pause, NoRecord} \/ disp' = Idle
<1>1. CASE WriteStaged
  BY <1>1 DEF WriteStaged, Enqueue, storeVars
<1>2. CASE DispatchStep
  BY <1>2 DEF DispatchStep, ClearPause, CheckPause, Reconcile, PickDue, Mark, Acknowledge, SetAside,
       RetryLater, PauseOn, ClearResolvedPause, ReconcileBinding, MarkInflight, Delete, Quarantine,
       Retry, storeVars, vars
<1>3. CASE PruneTick \/ LifecycleQuarantine \/ Start
  BY <1>3 DEF PruneTick, PruneQuarantine, LifecycleQuarantine, QuarantineByReceiver, Start, Open, storeVars
<1>4. ASSUME NEW d \in DeliveryIds, ResolveCollision(d)
      PROVE  pause' \in {pause, NoRecord}
  BY <1>4 DEF ResolveCollision, ResolveDeliveryCollision, storeVars
<1>5. CASE BeginRotation \/ RotateQuarantine \/ RotateRecord \/ RotateComplete
  BY <1>5 DEF BeginRotation, BeginInstallationRotation, RotateQuarantine,
       QuarantineInstallationRotation, PauseWithout, RotateRecord, RotateRefused, RotateComplete,
       AdvanceInstallationRotation, storeVars
<1>6. \/ WriteStaged \/ DispatchStep \/ PruneTick \/ LifecycleQuarantine \/ Start
      \/ \E d \in DeliveryIds : ResolveCollision(d)
      \/ BeginRotation \/ RotateQuarantine \/ RotateRecord \/ RotateComplete
      \/ UNCHANGED pause
  BY DEF NextDispatch, EngineStep, RunLoopStep, RotationStep, allVars, vars, storeVars, TickClock,
         BeginBatch, Heartbeat, HeartbeatAnswered, LifecycleApply, Activate, Promote,
         RotateState, RotateRefused, FinishRequest, Stage, Answer, LocalReset, BeginRequest, Crash
<1> QED
  BY <1>1, <1>2, <1>3, <1>4, <1>5, <1>6

LEMMA UnpausedNext ==
  ASSUME Typed, Unpaused, [NextDispatch]_allVars
  PROVE  Unpaused'
<1>1. TypeOK /\ TypeDispatchOK /\ Consistent
  BY DEF Typed, Consistent
<1>2. \/ UNCHANGED disp
      \/ disp' = Idle \/ disp'.pc \in {"clear", "check", "heartbeat", "lifecycle"}
      \/ CheckPause /\ pause = NoRecord
      \/ disp.pc \in {"reconcile", "next"} \cup AttemptPcs
  <2>1. CASE ~LocalSteps
    BY <2>1, OnlyLocalSteps
  <2>2. CASE BeginBatch \/ Heartbeat \/ HeartbeatAnswered \/ LifecycleQuarantine \/ LifecycleApply \/ Crash
    BY <2>2 DEF BeginBatch, Heartbeat, HeartbeatAnswered, LifecycleQuarantine, LifecycleApply, Crash
  <2>3. CASE ClearPause
    <3>1. disp \in Batches /\ disp' = [disp EXCEPT !.pc = "check"]
      BY <1>1, <2>3, DispShape DEF ClearPause, GoTo, AtPc, BatchPcs
    <3> QED
      BY <3>1 DEF Batches
  <2>4. CASE CheckPause
    BY <2>4 DEF CheckPause
  <2>5. CASE DispatchStep /\ ~ClearPause /\ ~CheckPause
    BY <2>5 DEF DispatchStep, Reconcile, PickDue, Mark, Acknowledge, SetAside, RetryLater, PauseOn,
         AtPc, AttemptPcs
  <2>6. CASE \E outcome \in Outcomes : Answer(outcome)
    BY <2>6 DEF Answer, AtPc, AttemptPcs
  <2> QED
    BY <2>1, <2>2, <2>3, <2>4, <2>5, <2>6 DEF LocalSteps
<1>3. Idle.pc = "idle" /\ {"idle", "clear", "check", "heartbeat", "lifecycle"} \cap AttemptPcs = {}
  BY DEF Idle, AttemptPcs
<1>4. CASE CheckPause /\ pause = NoRecord
  BY <1>4 DEF CheckPause, vars, Unpaused
<1>5. CASE disp.pc \in {"reconcile", "next"} \cup AttemptPcs \/ UNCHANGED disp
  BY <1>3, <1>5, PauseByDispatcher DEF Unpaused
<1> QED
  BY <1>2, <1>3, <1>4, <1>5 DEF Unpaused

(* DispatchOnce looks at the pause once, and then reconciles, picks, marks *)
(* and sends in separate transactions; nobody else sets a pause meanwhile. *)
THEOREM NeverSendWhilePaused == SpecDispatch => []NoSendWhilePaused
<1>1. InitDispatch => Typed /\ Unpaused
  BY TypedInit DEF InitDispatch, Init, Unpaused
<1>2. Typed /\ Unpaused /\ [NextDispatch]_allVars => Typed' /\ Unpaused'
  BY TypedNext, UnpausedNext
<1>3. Unpaused => NoSendWhilePaused
  BY DispatchAssumption DEF Unpaused, NoSendWhilePaused, Sending, AttemptPcs
<1> QED
  BY <1>1, <1>2, <1>3, PTL DEF SpecDispatch

-----------------------------------------------------------------------------
(* Evidence of an attempt.  Nothing is as old as the retention while the   *)
(* attempt lasts (30 days against the timeout of one call).                *)

LongRetention == Retention > MaxTime

Kept(d) ==
  \/ d \in Stored(deliveries) /\ deliveries[d].state = "inflight"
  \/ d \in Stored(quarantine)

SentPcs == AttemptPcs \ {"mark"}

EvidenceHeld == disp.pc \in SentPcs => Kept(disp.id)

LEMMA NothingExpires ==
  ASSUME TypeOK, LongRetention
  PROVE  Expired(clock) = {}
<1>1. \A d \in Stored(quarantine) : quarantine[d].quarantinedAt \in Times
  BY StoredRecord DEF TypeOK, Record
<1> QED
  BY <1>1, BoundsAssumption DEF Expired, LongRetention, TypeOK, Times

LEMMA KeptByMove ==
  ASSUME TypeOK, NEW d \in DeliveryIds, Kept(d),
         NEW S \in SUBSET Stored(deliveries), MoveAside(S, clock)
  PROVE  Kept(d)'
<1>1. /\ deliveries' = Drop(deliveries, S)
      /\ quarantine' = QuarantineWith(S, clock)
  BY DEF MoveAside
<1>2. CASE d \in S
  <2>1. deliveries[d] \in Record
    BY <1>2, StoredRecord DEF TypeOK
  <2>2. Aside(deliveries[d], clock) \in Record
    BY <2>1 DEF Aside, Record, TypeOK
  <2>3. quarantine'[d] = Aside(deliveries[d], clock)
    BY <1>1, <1>2 DEF QuarantineWith
  <2> QED
    BY <2>2, <2>3, RecordIsStored DEF Kept, Stored
<1>3. CASE d \notin S
  <2>1. deliveries'[d] = deliveries[d] /\ quarantine'[d] = quarantine[d]
    BY <1>1, <1>3 DEF Drop, QuarantineWith
  <2> QED
    BY <2>1 DEF Kept, Stored
<1> QED
  BY <1>2, <1>3

LEMMA KeptByPrune ==
  ASSUME TypeOK, LongRetention, NEW d \in DeliveryIds, Kept(d),
         NEW S \in SUBSET Expired(clock), quarantine' = Drop(quarantine, S),
         UNCHANGED deliveries
  PROVE  Kept(d)'
<1>1. S = {}
  BY NothingExpires
<1>2. quarantine'[d] = quarantine[d]
  BY <1>1 DEF Drop
<1> QED
  BY <1>2 DEF Kept, Stored

LEMMA KeptByEnqueue ==
  ASSUME TypeOK, LongRetention, NEW d \in DeliveryIds, Kept(d),
         NEW e \in DeliveryIds, NEW p, NEW at, NEW err, Enqueue(e, p, at, err)
  PROVE  Kept(d)'
<1>1. CASE UNCHANGED <<deliveries, quarantine>>
  BY <1>1 DEF Kept, Stored
<1>2. CASE ~(UNCHANGED <<deliveries, quarantine>>)
  <2> DEFINE pruned == IF HasRoom(count, used) THEN {} ELSE Expired(clock)
             record == [principal |-> p, state |-> "pending", sequence |-> sequence + 1,
                        at |-> at, failed |-> FALSE, quarantinedAt |-> 0]
  <2>1. /\ e \notin Stored(deliveries) \cup Stored(quarantine)
        /\ quarantine' = Drop(quarantine, pruned)
        /\ deliveries' = deliveries \/ deliveries' = [deliveries EXCEPT ![e] = record]
    BY <1>2 DEF Enqueue, storeVars
  <2>2. d # e
    BY <2>1 DEF Kept
  <2>3. deliveries'[d] = deliveries[d]
    BY <2>1, <2>2 DEF TypeOK
  <2>4. quarantine'[d] = quarantine[d]
    BY <2>1, NothingExpires DEF Drop
  <2> QED
    BY <2>3, <2>4 DEF Kept, Stored
<1> QED
  BY <1>1, <1>2

(* What the portal, a rotation, a stager or the pruning does meanwhile.    *)
LEMMA KeptByOthers ==
  ASSUME Typed, LongRetention, NEW d \in DeliveryIds, Kept(d), up = "running",
         [NextDispatch]_allVars, ~LocalSteps
  PROVE  Kept(d)'
<1>1. TypeOK
  BY DEF Typed, Consistent
<1>2. CASE UNCHANGED <<deliveries, quarantine>>
  BY <1>2 DEF Kept, Stored
<1>3. CASE WriteStaged
  <2>1. PICK err \in Errors : Enqueue(Head(stage).id, Head(stage).principal, Head(stage).at, err)
    BY <1>3 DEF WriteStaged
  <2>2. Head(stage) \in StagedDelivery
    BY <1>3 DEF WriteStaged, Typed, TypeDispatchOK
  <2>3. Head(stage).id \in DeliveryIds
    BY <2>2 DEF StagedDelivery
  <2> QED
    BY <1>1, <2>1, <2>3, KeptByEnqueue
<1>4. CASE PruneTick
  BY <1>1, <1>4, KeptByPrune DEF PruneTick, PruneQuarantine
<1>5. ASSUME NEW e \in DeliveryIds, ResolveCollision(e), ~(UNCHANGED <<deliveries, quarantine>>)
      PROVE  Kept(d)'
  <2>1. {e} \in SUBSET Stored(deliveries) /\ MoveAside({e}, clock)
    BY <1>5 DEF ResolveCollision, ResolveDeliveryCollision, storeVars
  <2> QED
    BY <1>1, <2>1, KeptByMove
<1>6. CASE RotateQuarantine /\ ~(UNCHANGED <<deliveries, quarantine>>)
  <2>1. MoveAside(OfInstallation(journal.old), clock)
    BY <1>6 DEF RotateQuarantine, QuarantineInstallationRotation, storeVars
  <2>2. OfInstallation(journal.old) \in SUBSET Stored(deliveries)
    BY DEF OfInstallation
  <2> QED
    BY <1>1, <2>1, <2>2, KeptByMove
<1>7. \/ WriteStaged \/ PruneTick
      \/ \E e \in DeliveryIds : ResolveCollision(e)
      \/ RotateQuarantine
      \/ UNCHANGED <<deliveries, quarantine>>
  BY DEF LocalSteps, NextDispatch, EngineStep, RunLoopStep, RotationStep, allVars, vars, storeVars,
         TickClock, Activate, Promote, BeginRotation, BeginInstallationRotation, RotateState,
         RotateRecord, RotateRefused, RotateComplete, AdvanceInstallationRotation, FinishRequest, Stage,
         LocalReset,
         BeginRequest, Start
<1> QED
  BY <1>2, <1>3, <1>4, <1>5, <1>6, <1>7

LEMMA EvidenceNext ==
  ASSUME Typed, LongRetention, EvidenceHeld, [NextDispatch]_allVars
  PROVE  EvidenceHeld'
<1>1. TypeOK /\ TypeDispatchOK /\ Consistent
  BY DEF Typed, Consistent
<1>2. CASE ~LocalSteps
  <2>1. SUFFICES ASSUME disp'.pc \in SentPcs PROVE Kept(disp.id)'
    BY <1>2, OnlyLocalSteps DEF EvidenceHeld, Kept
  <2>2. disp' = disp /\ disp.pc \in SentPcs
    BY <1>2, <2>1, OnlyLocalSteps
  <2>3. disp \in Attempts
    BY <1>1, <2>2, DispShape DEF SentPcs
  <2>4. up = "running"
    BY <2>2 DEF Typed, AtRest, Idle, SentPcs, AttemptPcs
  <2>5. disp.id \in DeliveryIds /\ Kept(disp.id)
    BY <2>2, <2>3 DEF Attempts, EvidenceHeld
  <2>6. \A d \in DeliveryIds : Kept(d) => Kept(d)'
    BY <1>2, <2>4, KeptByOthers
  <2> QED
    BY <2>2, <2>5, <2>6 DEF Kept
<1>3. CASE disp' = Idle \/ disp'.pc \in BatchPcs \cup {"idle", "heartbeat", "lifecycle", "mark"}
  BY <1>3 DEF EvidenceHeld, SentPcs, AttemptPcs, BatchPcs, Idle
<1>4. CASE BeginBatch \/ Heartbeat \/ HeartbeatAnswered \/ LifecycleQuarantine \/ LifecycleApply \/ Crash
  BY <1>3, <1>4 DEF BeginBatch, Heartbeat, HeartbeatAnswered, LifecycleQuarantine, LifecycleApply,
       Crash, BatchPcs
<1>5. CASE ClearPause \/ CheckPause \/ Reconcile
  <2>1. disp' = Idle \/ disp' \in Batches
    BY <1>1, <1>5, BatchMoves
  <2> QED
    BY <1>3, <2>1 DEF Batches, BatchPcs
<1>6. CASE PickDue
  BY <1>1, <1>3, <1>6, PickMoves
<1>7. CASE Acknowledge \/ SetAside
  <2>1. disp' = Idle \/ disp'.pc = "clear" \/ Continue
    BY <1>7 DEF Acknowledge, SetAside
  <2>2. Continue => disp' = Idle \/ disp'.pc = "clear"
    BY DEF Continue
  <2> QED
    BY <1>3, <2>1, <2>2 DEF BatchPcs
<1>8. CASE RetryLater \/ \E kind \in {"collision", "credential", "binding"} : PauseOn(kind)
  BY <1>3, <1>8 DEF RetryLater, PauseOn
<1>9. CASE Mark
  <2>1. disp \in Attempts
    BY <1>1, <1>9, DispShape DEF Mark, AtPc, AttemptPcs
  <2>2. CASE disp' # Idle
    <3>1. MarkInflight(disp.id, "nil") /\ disp' = [disp EXCEPT !.pc = "post"]
      BY <1>9, <2>2 DEF Mark, GoTo
    <3>2. /\ disp.id \in Stored(deliveries)
          /\ deliveries' = [deliveries EXCEPT ![disp.id] = [deliveries[disp.id] EXCEPT !.state = "inflight"]]
      BY <3>1 DEF MarkInflight, Rewrite
    <3>3. deliveries[disp.id] \in Record /\ disp.id \in DeliveryIds
      BY <1>1, <3>2, StoredRecord DEF TypeOK
    <3>4. [deliveries[disp.id] EXCEPT !.state = "inflight"] \in Record
      BY <3>3 DEF Record
    <3>5. deliveries'[disp.id] \in Record /\ deliveries'[disp.id].state = "inflight"
      BY <1>1, <3>2, <3>3, <3>4 DEF TypeOK, Record
    <3>6. disp'.id = disp.id
      BY <2>1, <3>1 DEF Attempts
    <3> QED
      BY <3>3, <3>5, <3>6, RecordIsStored DEF EvidenceHeld, Kept, Stored
  <2> QED
    BY <1>3, <2>2
<1>10. ASSUME NEW outcome \in Outcomes, Answer(outcome)
       PROVE  EvidenceHeld'
  <2>1. /\ disp.pc = "post" /\ disp' = [disp EXCEPT !.pc = outcome]
        /\ UNCHANGED <<deliveries, quarantine>>
    BY <1>10 DEF Answer, AtPc, GoTo, vars
  <2>2. disp \in Attempts /\ disp.pc \in SentPcs
    BY <1>1, <2>1, DispShape DEF AttemptPcs, SentPcs
  <2>3. disp'.id = disp.id
    BY <2>1, <2>2 DEF Attempts
  <2> QED
    BY <2>1, <2>2, <2>3 DEF EvidenceHeld, Kept, Stored
<1> QED
  BY <1>2, <1>4, <1>5, <1>6, <1>7, <1>8, <1>9, <1>10 DEF LocalSteps, DispatchStep

(* From the moment a delivery is sent until its answer is recorded its     *)
(* bytes are on disk, whatever the portal, a rotation, a stager that finds *)
(* the outbox full or the pruning does in between.                         *)
THEOREM EvidenceAlwaysKept ==
  ASSUME LongRetention
  PROVE  SpecDispatch => []UnackedEvidenceKept
<1>1. InitDispatch => Typed /\ EvidenceHeld
  <2> SUFFICES ASSUME InitDispatch PROVE EvidenceHeld
    BY TypedInit
  <2>1. disp.pc = "idle"
    BY DEF InitDispatch, Idle
  <2> QED
    BY <2>1 DEF EvidenceHeld, SentPcs, AttemptPcs
<1>2. Typed /\ EvidenceHeld /\ [NextDispatch]_allVars => Typed' /\ EvidenceHeld'
  BY TypedNext, EvidenceNext
<1>3. EvidenceHeld => UnackedEvidenceKept
  <2>1. Sending => disp.pc \in SentPcs
    BY DispatchAssumption DEF Sending, SentPcs, AttemptPcs
  <2> QED
    BY <2>1 DEF EvidenceHeld, Kept, UnackedEvidenceKept
<1> QED
  BY <1>1, <1>2, <1>3, PTL DEF SpecDispatch

-----------------------------------------------------------------------------
(* The journal of the outbox and the state file.                           *)

Unfinished(phases) == journal # NoRecord /\ journal.phase \in phases

RotationFits ==
  /\ journal # NoRecord => journal.old # journal.new
  /\ rotation.pc = "begin" =>
       /\ ~Unfinished(Phases \ {"completed"})
       /\ rotation.old = receiver.installation /\ rotation.new # rotation.old
  /\ Unfinished({"old_binding_quarantined", "state_rotated"}) =>
       rotation.pc \in {"recover", "record"} \/ up = "down"
  /\ Unfinished({"old_binding_quarantined"}) /\ rotation.pc = "recover" /\ up = "running" =>
       receiver.installation = journal.old
  /\ rotation.pc = "record" =>
       Unfinished({"old_binding_quarantined"}) /\ receiver.installation = journal.new
  /\ Unfinished({"old_binding_quarantined"}) /\ receiver.installation = journal.new =>
       receiver.phase = "unpaired" /\ receiver.principal = NoRecord /\ ~receiver.bound
  /\ Unfinished({"intent"}) => receiver.installation = journal.old
  /\ Unfinished({"old_binding_quarantined"}) => receiver.installation \in {journal.old, journal.new}
  /\ Unfinished({"state_rotated", "completed"}) => receiver.installation = journal.new

LEMMA RotationFitsAgrees ==
  ASSUME TypeOK, RotationFits
  PROVE  RotationAgrees
<1>1. journal # NoRecord => journal.phase \in Phases
  BY DEF TypeOK, Journal
<1> QED
  BY <1>1 DEF RotationFits, RotationAgrees, Unfinished, Phases

RotationMoves ==
  \/ \E goal \in {"re_pair", "deauthorize"} : BeginRequest(goal)
  \/ RotationStep \/ Crash \/ Start

(* The other steps touch neither file's part in it, except that the        *)
(* credentials and the phase of a receiver may change.                     *)
LEMMA RotationUntouched ==
  ASSUME TypeOK, TypeDispatchOK, [NextDispatch]_allVars, ~RotationMoves
  PROVE  /\ UNCHANGED <<journal, rotation, up>>
         /\ receiver'.installation = receiver.installation
         /\ \/ receiver' = receiver
            \/ Activate
            \/ receiver'.phase \in {receiver.phase, "unpaired"} /\ receiver'.bound = receiver.bound
               /\ receiver'.principal \in {receiver.principal, NoRecord}
            \/ receiver.phase = "activated"
<1>1. UNCHANGED <<journal, rotation, up>>
  <2>1. CASE DispatchStep
    BY <2>1 DEF DispatchStep, ClearPause, CheckPause, Reconcile, PickDue, Mark, Acknowledge, SetAside,
       RetryLater, PauseOn, ClearResolvedPause, ReconcileBinding, MarkInflight, Delete, Quarantine,
       Retry, PauseDelivery, storeVars, vars
  <2>2. CASE ~DispatchStep
    BY <2>2 DEF RotationMoves, NextDispatch, EngineStep, RunLoopStep, allVars, vars, storeVars,
         dispatchVars, WriteStaged, Enqueue, PruneTick, PruneQuarantine, BeginBatch, Heartbeat,
         HeartbeatAnswered, LifecycleQuarantine, QuarantineByReceiver, LifecycleApply, Activate,
         Promote, Stage, ResolveCollision, ResolveDeliveryCollision, Answer, LocalReset, TickClock
  <2> QED
    BY <2>1, <2>2
<1>2. \/ receiver' = receiver
      \/ Activate \/ LifecycleApply \/ LocalReset \/ HeartbeatAnswered \/ Promote
  BY DEF RotationMoves, NextDispatch, EngineStep, RunLoopStep, DispatchStep, allVars, dispatchVars,
         WriteStaged, PruneTick, BeginBatch, Heartbeat, LifecycleQuarantine,
         ClearPause, CheckPause, Reconcile, PickDue, Mark, Acknowledge, SetAside, RetryLater, PauseOn,
         Stage, ResolveCollision, Answer, TickClock
<1>3. CASE Activate
  <2>1. receiver'.installation = receiver.installation
    BY <1>3 DEF Activate, Activated, TypeDispatchOK, Receiver
  <2> QED
    BY <1>1, <1>3, <2>1
<1>4. CASE LifecycleApply \/ LocalReset \/ HeartbeatAnswered
  BY <1>1, <1>4 DEF LifecycleApply, LocalReset, HeartbeatAnswered, Cleared, TypeDispatchOK, Receiver
<1>5. CASE Promote
  BY <1>1, <1>5 DEF Promote, TypeDispatchOK, Receiver
<1> QED
  BY <1>1, <1>2, <1>3, <1>4, <1>5

LEMMA RotationFitsNext ==
  ASSUME Typed, RotationFits, [NextDispatch]_allVars
  PROVE  RotationFits'
<1>1. TypeOK /\ TypeDispatchOK /\ Consistent /\ journal \in Journal \cup {NoRecord}
  BY DEF Typed, Consistent, TypeOK
<1>2. CASE ~RotationMoves
  <2>1. /\ UNCHANGED <<journal, rotation, up>> /\ receiver'.installation = receiver.installation
        /\ \/ receiver' = receiver
           \/ receiver.phase # "unpaired"
           \/ receiver'.phase \in {receiver.phase, "unpaired"} /\ receiver'.bound = receiver.bound
              /\ receiver'.principal \in {receiver.principal, NoRecord}
    BY <1>1, <1>2, RotationUntouched DEF Activate
  <2> QED
    BY <2>1 DEF RotationFits, Unfinished
<1>3. ASSUME NEW goal \in {"re_pair", "deauthorize"}, BeginRequest(goal)
      PROVE  RotationFits'
  <2>1. /\ UNCHANGED <<journal, receiver, up>> /\ up = "running" /\ rotation.pc = "idle"
        /\ \/ rotation'.pc \in {"finish", "recover"}
           \/ /\ rotation'.pc = "begin" /\ ~(journal # NoRecord /\ journal.phase # "completed")
              /\ rotation'.old = receiver.installation /\ rotation'.new # receiver.installation
    BY <1>3 DEF BeginRequest, Running, Idle, vars
  <2>2. ~Unfinished({"old_binding_quarantined", "state_rotated"})
    BY <2>1 DEF RotationFits
  <2> QED
    BY <2>1, <2>2 DEF RotationFits, Unfinished, Phases
<1>4. CASE BeginRotation
  <2>1. /\ rotation.pc = "begin" /\ rotation'.pc = "recover" /\ UNCHANGED <<receiver, up>>
        /\ BeginInstallationRotation(rotation.old, rotation.new)
    BY <1>4 DEF BeginRotation
  <2>2. ~Unfinished(Phases \ {"completed"}) /\ rotation.old = receiver.installation
    BY <2>1 DEF RotationFits
  <2>3. journal = NoRecord \/ journal.phase = "completed"
    BY <1>1, <2>2 DEF Unfinished, Journal
  <2>4. /\ journal' = [phase |-> "intent", old |-> rotation.old, new |-> rotation.new]
        /\ rotation.old # rotation.new
    BY <2>1, <2>3 DEF BeginInstallationRotation
  <2> QED
    BY <2>1, <2>2, <2>4 DEF RotationFits, Unfinished
<1>5. CASE RotateQuarantine
  <2>1. /\ journal # NoRecord /\ journal.phase = "intent" /\ up # "down" /\ rotation.pc = "recover"
        /\ UNCHANGED receiver
    BY <1>5 DEF RotateQuarantine, InPhase
  <2>2. \/ /\ journal' = journal /\ rotation' \in {rotation, Idle}
        \/ /\ journal' = [journal EXCEPT !.phase = "old_binding_quarantined"] /\ rotation' = rotation
    BY <1>5, <2>1 DEF RotateQuarantine, QuarantineInstallationRotation, storeVars
  <2>3. journal' = journal => RotationFits'
    BY <2>1, <2>2 DEF RotationFits, Unfinished, Idle
  <2>4. ASSUME journal' = [journal EXCEPT !.phase = "old_binding_quarantined"], rotation' = rotation
        PROVE  RotationFits'
    <3>1. /\ journal'.phase = "old_binding_quarantined" /\ journal'.old = journal.old
          /\ journal'.new = journal.new
      BY <1>1, <2>1, <2>4 DEF Journal
    <3>2. receiver.installation = journal.old /\ journal.old # journal.new
      BY <2>1 DEF RotationFits, Unfinished
    <3> QED
      BY <2>1, <2>4, <3>1, <3>2 DEF RotationFits, Unfinished
  <2> QED
    BY <2>2, <2>3, <2>4
<1>6. CASE RotateState
  <2>1. /\ journal # NoRecord /\ journal.phase = "old_binding_quarantined" /\ rotation.pc = "recover"
        /\ receiver' = [Cleared EXCEPT !.installation = journal.new, !.bound = FALSE]
        /\ rotation'.pc = "record"
        /\ UNCHANGED <<journal, up>>
    BY <1>6 DEF RotateState, InPhase, vars
  <2>2. /\ receiver'.installation = journal.new /\ receiver'.phase = "unpaired"
        /\ receiver'.principal = NoRecord /\ receiver'.bound = FALSE
    BY <1>1, <2>1 DEF Cleared, TypeDispatchOK, Receiver
  <2> QED
    BY <2>1, <2>2 DEF RotationFits, Unfinished
<1>7. CASE RotateRecord
  <2>1. /\ journal # NoRecord /\ journal.phase = "old_binding_quarantined"
        /\ rotation.pc \in {"recover", "record"} /\ rotation'.pc = "recover"
        /\ receiver.installation = journal.new
        /\ UNCHANGED <<receiver, up>>
    BY <1>7 DEF RotateRecord, InPhase, ValidRotated, RotationFits, Unfinished
  <2>2. journal' = [journal EXCEPT !.phase = "state_rotated"]
    BY <1>7, <2>1 DEF RotateRecord, AdvanceInstallationRotation
  <2>3. /\ journal'.phase = "state_rotated" /\ journal'.old = journal.old
        /\ journal'.new = journal.new
    BY <1>1, <2>1, <2>2 DEF Journal
  <2> QED
    BY <2>1, <2>3 DEF RotationFits, Unfinished
<1>12. CASE RotateRefused
  <2>1. /\ UNCHANGED <<journal, receiver>> /\ rotation'.pc = "idle"
        /\ rotation.pc = "recover" /\ journal # NoRecord /\ journal.phase = "old_binding_quarantined"
        /\ receiver.installation # journal.old
        /\ up' = IF up = "running" THEN up ELSE "down"
    BY <1>12 DEF RotateRefused, InPhase, Idle, vars
  <2>2. up # "running"
    BY <2>1 DEF RotationFits, Unfinished
  <2> QED
    BY <2>1, <2>2 DEF RotationFits, Unfinished
<1>8. CASE RotateComplete
  <2>1. /\ journal # NoRecord /\ journal.phase = "state_rotated" /\ rotation'.pc = "finish"
        /\ UNCHANGED <<receiver, up>>
    BY <1>8 DEF RotateComplete, InPhase
  <2>2. journal' = [journal EXCEPT !.phase = "completed"]
    BY <1>8, <2>1 DEF RotateComplete, AdvanceInstallationRotation
  <2>3. /\ journal'.phase = "completed" /\ journal'.old = journal.old
        /\ journal'.new = journal.new
    BY <1>1, <2>1, <2>2 DEF Journal
  <2> QED
    BY <2>1, <2>3 DEF RotationFits, Unfinished
<1>9. CASE FinishRequest
  <2>1. /\ rotation.pc = "finish" /\ rotation'.pc = "idle" /\ up # "down" /\ UNCHANGED journal
    BY <1>9 DEF FinishRequest, Idle, vars
  <2>2. receiver'.installation = receiver.installation
    BY <1>1, <1>9 DEF FinishRequest, Cleared, TypeDispatchOK, Receiver
  <2>3. ~Unfinished({"old_binding_quarantined", "state_rotated"})
    BY <2>1 DEF RotationFits
  <2> QED
    BY <2>1, <2>2, <2>3 DEF RotationFits, Unfinished
<1>10. CASE Crash
  <2>1. rotation'.pc = "idle" /\ up' = "down" /\ UNCHANGED <<journal, receiver>>
    BY <1>10 DEF Crash, Idle, vars
  <2> QED
    BY <2>1 DEF RotationFits, Unfinished
<1>11. CASE Start
  <2>1. /\ UNCHANGED <<journal, receiver>> /\ up' = "starting"
        /\ rotation'.pc \in {"finish", "recover"}
        /\ journal # NoRecord /\ journal.phase # "completed" => rotation'.pc = "recover"
    BY <1>11 DEF Start, Open
  <2> QED
    BY <2>1 DEF RotationFits, Unfinished
<1> QED
  BY <1>2, <1>3, <1>4, <1>5, <1>6, <1>7, <1>8, <1>9, <1>10, <1>11, <1>12 DEF RotationMoves, RotationStep

(* The outbox's journal and the state file are written in turn; wherever a *)
(* crash or a late heartbeat answer comes between, they agree on the       *)
(* installation the receiver has, and the new one starts without the key   *)
(* of the old (installation_rotation.go).                                  *)
THEOREM RotationAlwaysAgrees == SpecDispatch => []RotationAgrees
<1>1. InitDispatch => Typed /\ RotationFits
  <2> SUFFICES ASSUME InitDispatch PROVE RotationFits
    BY TypedInit
  <2>1. journal = NoRecord /\ rotation.pc = "idle"
    BY DEF InitDispatch, Init, Idle
  <2> QED
    BY <2>1 DEF RotationFits, Unfinished
<1>2. Typed /\ RotationFits /\ [NextDispatch]_allVars => Typed' /\ RotationFits'
  BY TypedNext, RotationFitsNext
<1>3. Typed /\ RotationFits => RotationAgrees
  BY RotationFitsAgrees DEF Typed, Consistent
<1> QED
  BY <1>1, <1>2, <1>3, PTL DEF SpecDispatch

-----------------------------------------------------------------------------
(* Deliveries left inflight.  The byte bound never stands in the way of an *)
(* outcome where it admits MaxEvents records grown to the full (64 MiB and *)
(* 10000 events leave 6710 bytes to each; a companion frame has 176).      *)

Unit == RecordBytes + 1 + FailureBytes + QuarantineBytes

Ample == MaxEvents * Unit <= MaxBytes

LEMMA WeightBounded ==
  ASSUME NEW bucket, NEW S \in SUBSET DeliveryIds
  PROVE  /\ Cardinality(S) \in Nat /\ Unit \in Nat
         /\ Weight(bucket, S) <= Unit * Cardinality(S)
<1> DEFINE i == Cardinality({d \in S : bucket[d].state = "inflight"})
           f == Cardinality({d \in S : bucket[d].failed})
           q == Cardinality({d \in S : bucket[d].state = "quarantined"})
           n == Cardinality(S)
<1>1. IsFiniteSet(S) /\ n \in Nat
  BY IdsAssumption, FS_Subset, FS_CardinalityType
<1>2. i \in Nat /\ i <= n
  BY <1>1, FS_Subset, FS_CardinalityType
<1>3. f \in Nat /\ f <= n
  BY <1>1, FS_Subset, FS_CardinalityType
<1>4. q \in Nat /\ q <= n
  BY <1>1, FS_Subset, FS_CardinalityType
<1>5. Weight(bucket, S) = RecordBytes * n + i + FailureBytes * f + QuarantineBytes * q
  BY DEF Weight
<1> HIDE DEF i, f, q, n
<1>6. \A a, x, y \in Nat : x <= y => a * x <= a * y /\ a * x \in Nat /\ a * y \in Nat
  OBVIOUS
<1>7. /\ FailureBytes * f <= FailureBytes * n /\ FailureBytes * f \in Nat /\ FailureBytes * n \in Nat
      /\ QuarantineBytes * q <= QuarantineBytes * n
      /\ QuarantineBytes * q \in Nat /\ QuarantineBytes * n \in Nat
      /\ RecordBytes * n \in Nat
  BY <1>1, <1>3, <1>4, <1>6, BoundsAssumption
<1>8. \A a, b, c, x \in Nat : (a + 1 + b + c) * x = a * x + x + b * x + c * x
  OBVIOUS
<1>9. Unit * n = RecordBytes * n + n + FailureBytes * n + QuarantineBytes * n
  BY <1>1, <1>8, BoundsAssumption DEF Unit
<1>10. Weight(bucket, S) <= Unit * n
  BY <1>1, <1>2, <1>5, <1>7, <1>9
<1> QED
  BY <1>1, <1>10, BoundsAssumption DEF Unit, n

(* Two buckets of MaxEvents records at most are within the bound.          *)
LEMMA BothFit ==
  ASSUME Ample, NEW b, NEW c, Number(b) + Number(c) <= MaxEvents
  PROVE  Bytes(b) + Bytes(c) <= MaxBytes
<1>1. Stored(b) \in SUBSET DeliveryIds /\ Stored(c) \in SUBSET DeliveryIds
  BY StoredFinite
<1>2. /\ Number(b) \in Nat /\ Number(c) \in Nat /\ Unit \in Nat
      /\ Bytes(b) <= Unit * Number(b) /\ Bytes(c) <= Unit * Number(c)
      /\ Bytes(b) \in Nat /\ Bytes(c) \in Nat
  BY <1>1, WeightBounded, SizeType DEF Number, Bytes
<1>3. \A u, m, n, k \in Nat :
        m + n <= k => u * m \in Nat /\ u * n \in Nat /\ u * m + u * n <= k * u
  OBVIOUS
<1>4. /\ Unit * Number(b) \in Nat /\ Unit * Number(c) \in Nat
      /\ Unit * Number(b) + Unit * Number(c) <= MaxEvents * Unit
  BY <1>2, <1>3, BoundsAssumption
<1>5. MaxEvents * Unit \in Nat
  BY <1>2, BoundsAssumption
<1> QED
  BY <1>2, <1>4, <1>5, BoundsAssumption DEF Ample

LEMMA RewriteFits ==
  ASSUME Ample, Accounted, NEW d \in Stored(deliveries), NEW record \in Record, NEW err,
         Rewrite(d, record, err)
  PROVE  err = "nil" /\ deliveries' = [deliveries EXCEPT ![d] = record]
<1> DEFINE after == [deliveries EXCEPT ![d] = record]
           used1 == used - Weight(deliveries, {d}) + Weight(after, {d})
<1>1. d \in DeliveryIds /\ deliveries \in [DeliveryIds -> Record \cup {NoRecord}]
  BY AccountedMeans, StoredRecord
<1>2. Stored(after) = Stored(deliveries) /\ \A e \in Stored(deliveries) \ {d} : after[e] = deliveries[e]
  BY <1>1, RecordIsStored DEF Stored
<1>3. \/ used1 > MaxBytes
      \/ err = "nil" /\ deliveries' = after
  BY DEF Rewrite
<1> HIDE DEF after
<1>4. /\ Number(after) = Number(deliveries)
      /\ Bytes(after) = Bytes(deliveries) - Weight(deliveries, {d}) + Weight(after, {d})
      /\ Weight(deliveries, {d}) \in Nat /\ Weight(after, {d}) \in Nat
  BY <1>2, ReplaceSize
<1>5. used1 = Bytes(after) + Bytes(quarantine)
  BY <1>4, AccountedMeans
<1>6. Bytes(after) + Bytes(quarantine) <= MaxBytes
  BY <1>4, AccountedMeans, BothFit
<1>7. Bytes(after) \in Nat /\ Bytes(quarantine) \in Nat
  BY SizeType
<1>8. ~(used1 > MaxBytes)
  BY <1>5, <1>6, <1>7, BoundsAssumption
<1> QED
  BY <1>3, <1>8 DEF after

LEMMA AsideFits ==
  ASSUME Ample, Accounted, NEW d \in Stored(deliveries)
  PROVE  ~Overflows({d}, clock)
<1> DEFINE S == {d}
           aside == QuarantineWith(S, clock)
           rest == Drop(deliveries, S)
<1>1. /\ deliveries \in [DeliveryIds -> Record \cup {NoRecord}]
      /\ quarantine \in [DeliveryIds -> Record \cup {NoRecord}]
      /\ Stored(deliveries) \cap Stored(quarantine) = {}
  BY AccountedMeans
<1>2. d \in DeliveryIds /\ deliveries[d] \in Record
  BY <1>1, StoredRecord
<1>3. Aside(deliveries[d], clock) \in Record
  <2>1. clock \in Times
    BY DEF Accounted, Consistent, TypeOK
  <2> QED
    BY <1>2, <2>1 DEF Aside, Record
<1>4. S \in SUBSET DeliveryIds /\ S \cap Stored(quarantine) = {} /\ S \in SUBSET Stored(deliveries)
  BY <1>1, <1>2
<1>5. /\ Stored(aside) = Stored(quarantine) \cup S
      /\ \A e \in Stored(quarantine) : aside[e] = quarantine[e]
  BY <1>1, <1>2, <1>3, <1>4, RecordIsStored, StoredRecord DEF Stored, QuarantineWith
<1>6. UsedWith(S, clock) = used - Weight(deliveries, S) + Weight(aside, S)
  BY DEF UsedWith
<1> HIDE DEF S, aside
<1>7. /\ Number(aside) = Number(quarantine) + Cardinality(S)
      /\ Bytes(aside) = Bytes(quarantine) + Weight(aside, S)
      /\ Weight(aside, S) \in Nat
  BY <1>4, <1>5, AddSize
<1>8. /\ Number(rest) = Number(deliveries) - Cardinality(S)
      /\ Bytes(rest) = Bytes(deliveries) - Weight(deliveries, S)
      /\ Cardinality(S) \in Nat /\ Weight(deliveries, S) \in Nat
  BY <1>4, DropSize
<1> HIDE DEF rest
<1>9. Number(rest) + Number(aside) <= MaxEvents /\ UsedWith(S, clock) = Bytes(rest) + Bytes(aside)
  BY <1>6, <1>7, <1>8, AccountedMeans
<1>10. UsedWith(S, clock) <= MaxBytes /\ UsedWith(S, clock) \in Nat
  BY <1>9, BothFit, SizeType
<1> QED
  BY <1>10, BoundsAssumption DEF Overflows, S

-----------------------------------------------------------------------------
(* An inflight delivery is that of the attempt under way; a process that   *)
(* is down may leave one behind, and opening the outbox resets it.         *)

OnlyInAttempt ==
  \A d \in Stored(deliveries) :
    deliveries[d].state = "inflight" => up = "down" \/ (Sending /\ disp.id = d)

(* No delivery becomes inflight.                                           *)
NoneMarked ==
  \A d \in Stored(deliveries') :
    deliveries'[d].state = "inflight" => d \in Stored(deliveries) /\ deliveries[d].state = "inflight"

LEMMA NoneMarkedByMove ==
  ASSUME NEW S \in SUBSET Stored(deliveries), NEW t, MoveAside(S, t)
  PROVE  NoneMarked
BY DropStored DEF MoveAside, NoneMarked

LEMMA NoneMarkedByRewrite ==
  ASSUME TypeOK, NEW d \in Stored(deliveries), NEW record \in Record, record.state = "pending",
         deliveries' = [deliveries EXCEPT ![d] = record]
  PROVE  /\ NoneMarked
         /\ d \in Stored(deliveries') => deliveries'[d].state = "pending"
<1>1. d \in DeliveryIds /\ deliveries \in [DeliveryIds -> Record \cup {NoRecord}]
  BY StoredRecord DEF TypeOK
<1>2. deliveries'[d] = record /\ \A e \in DeliveryIds \ {d} : deliveries'[e] = deliveries[e]
  BY <1>1
<1> QED
  BY <1>2 DEF NoneMarked, Stored

LEMMA NoneMarkedByEnqueue ==
  ASSUME TypeOK, NEW d, NEW p, NEW at, NEW err, Enqueue(d, p, at, err), d \in DeliveryIds
  PROVE  NoneMarked
<1>1. \/ deliveries' = deliveries
      \/ \E record : record.state = "pending" /\ deliveries' = [deliveries EXCEPT ![d] = record]
  BY DEF Enqueue, storeVars
<1> QED
  BY <1>1 DEF NoneMarked, Stored, TypeOK

LEMMA NoneMarkedByOpen ==
  ASSUME TypeOK, Open
  PROVE  \A d \in Stored(deliveries') : deliveries'[d].state # "inflight"
<1>1. ASSUME NEW d \in DeliveryIds, deliveries[d] # NoRecord
      PROVE  Reopened(deliveries[d]).state # "inflight"
  BY <1>1 DEF TypeOK, Record, Reopened
<1> QED
  BY <1>1 DEF Open, Stored

(* What the dispatcher does when it is not at work on an attempt, and what *)
(* the others do.                                                          *)
LEMMA NoneMarkedOtherwise ==
  ASSUME Typed, [NextDispatch]_allVars, ~Start, disp.pc \notin AttemptPcs \/ ~LocalSteps
  PROVE  NoneMarked
<1>1. TypeOK /\ TypeDispatchOK
  BY DEF Typed, Consistent
<1>2. CASE UNCHANGED deliveries
  BY <1>2 DEF NoneMarked
<1>3. CASE WriteStaged
  <2>1. PICK err \in Errors : Enqueue(Head(stage).id, Head(stage).principal, Head(stage).at, err)
    BY <1>3 DEF WriteStaged
  <2>2. Head(stage) \in StagedDelivery
    BY <1>1, <1>3 DEF WriteStaged, TypeDispatchOK
  <2>3. Head(stage).id \in DeliveryIds
    BY <2>2 DEF StagedDelivery
  <2> QED
    BY <1>1, <2>1, <2>3, NoneMarkedByEnqueue
<1>4. CASE \E S \in SUBSET Stored(deliveries) : MoveAside(S, clock)
  BY <1>4, NoneMarkedByMove
<1>5. ASSUME NEW d \in DeliveryIds, ResolveCollision(d), ~(UNCHANGED deliveries)
      PROVE  NoneMarked
  <2>1. {d} \in SUBSET Stored(deliveries) /\ MoveAside({d}, clock)
    BY <1>5 DEF ResolveCollision, ResolveDeliveryCollision, storeVars
  <2> QED
    BY <2>1, <1>4
<1>6. CASE (RotateQuarantine \/ LifecycleQuarantine \/ Reconcile) /\ ~(UNCHANGED deliveries)
  <2>1. \/ MoveAside(OfInstallation(journal.old), clock)
        \/ MoveAside(OfAgent(receiver.principal.agent), clock)
        \/ MoveAside(Mismatched(disp.principal), clock)
    BY <1>6 DEF RotateQuarantine, QuarantineInstallationRotation, LifecycleQuarantine,
         QuarantineByReceiver, Reconcile, ReconcileBinding, storeVars
  <2>2. /\ OfInstallation(journal.old) \in SUBSET Stored(deliveries)
        /\ OfAgent(receiver.principal.agent) \in SUBSET Stored(deliveries)
        /\ Mismatched(disp.principal) \in SUBSET Stored(deliveries)
    BY DEF OfInstallation, OfAgent, Mismatched
  <2> QED
    BY <1>4, <2>1, <2>2
<1>7. CASE DispatchStep /\ ~Reconcile
  <2>1. disp.pc \notin AttemptPcs
    BY <1>7 DEF LocalSteps
  <2>2. ClearPause \/ CheckPause \/ PickDue
    BY <1>7, <2>1 DEF DispatchStep, Mark, Acknowledge, SetAside, RetryLater, PauseOn, AtPc, AttemptPcs
  <2> QED
    BY <1>2, <2>2 DEF ClearPause, ClearResolvedPause, CheckPause, PickDue, vars
<1>8. \/ WriteStaged \/ DispatchStep \/ LifecycleQuarantine \/ RotateQuarantine
      \/ \E d \in DeliveryIds : ResolveCollision(d)
      \/ UNCHANGED deliveries
  BY DEF NextDispatch, EngineStep, RunLoopStep, RotationStep, allVars, vars, storeVars,
         PruneTick, PruneQuarantine, BeginBatch, Heartbeat, HeartbeatAnswered, LifecycleApply,
         TickClock, Activate, Promote, BeginRotation, BeginInstallationRotation, RotateState,
         RotateRecord, RotateRefused, RotateComplete, AdvanceInstallationRotation, FinishRequest, Stage,
         LocalReset,
         BeginRequest, Crash, Answer
<1> QED
  BY <1>2, <1>3, <1>5, <1>6, <1>7, <1>8

(* The outcome of an attempt is recorded, and its delivery inflight no     *)
(* more, or it is gone already.                                            *)
LEMMA OutcomeRecorded ==
  ASSUME Typed, Ample, Accounted,
         Acknowledge \/ SetAside \/ RetryLater
         \/ (\E kind \in {"collision", "credential", "binding"} : PauseOn(kind))
  PROVE  /\ NoneMarked
         /\ disp.id \in Stored(deliveries') => deliveries'[disp.id].state # "inflight"
<1> DEFINE d == disp.id
<1>1. TypeOK /\ TypeDispatchOK
  BY DEF Typed, Consistent
<1>2. disp \in Attempts
  BY <1>1, DispShape DEF Acknowledge, SetAside, RetryLater, PauseOn, AtPc, AttemptPcs
<1>3. d \in DeliveryIds /\ disp.now \in Times
  BY <1>2 DEF Attempts
<1>4. CASE d \notin Stored(deliveries) /\ UNCHANGED deliveries
  BY <1>4 DEF NoneMarked
<1>5. ASSUME d \in Stored(deliveries)
      PROVE  deliveries[d] \in Record /\ ~Overflows({d}, clock)
  BY <1>1, <1>5, StoredRecord, AsideFits DEF TypeOK
<1>6. CASE Acknowledge
  <2>1. PICK err \in Errors : Delete(d, err)
    BY <1>6 DEF Acknowledge
  <2>2. CASE d \in Stored(deliveries)
    <3>1. deliveries' = Drop(deliveries, {d})
      BY <2>1, <2>2 DEF Delete
    <3> QED
      BY <3>1, DropStored DEF NoneMarked
  <2>3. CASE d \notin Stored(deliveries)
    BY <1>4, <2>1, <2>3 DEF Delete, storeVars
  <2> QED
    BY <2>2, <2>3
<1>7. CASE SetAside
  <2>1. PICK err \in Errors : Quarantine(d, err)
    BY <1>7 DEF SetAside
  <2>2. CASE d \in Stored(deliveries)
    <3>1. MoveAside({d}, clock)
      BY <1>5, <2>1, <2>2 DEF Quarantine
    <3>2. deliveries' = Drop(deliveries, {d})
      BY <3>1 DEF MoveAside
    <3> QED
      BY <3>2, DropStored DEF NoneMarked
  <2>3. CASE d \notin Stored(deliveries)
    BY <1>4, <2>1, <2>3 DEF Quarantine, storeVars, MoveAside
  <2> QED
    BY <2>2, <2>3
<1>8. CASE RetryLater
  <2>1. PICK delay \in 1..MaxRetryDelay, err \in Errors :
          Retry(d, Earlier(disp.now + delay, MaxTime), err)
    BY <1>8 DEF RetryLater
  <2> DEFINE next == Earlier(disp.now + delay, MaxTime)
             record == [deliveries[d] EXCEPT !.state = "pending", !.at = next, !.failed = TRUE]
  <2>2. next \in Times
    BY <1>3, BoundsAssumption, DispatchAssumption DEF Earlier, Times
  <2> HIDE DEF next
  <2>3. CASE d \in Stored(deliveries)
    <3>1. Rewrite(d, record, err)
      BY <2>1, <2>3 DEF Retry, next
    <3>2. record \in Record /\ record.state = "pending"
      BY <1>5, <2>2, <2>3 DEF Record
    <3> HIDE DEF record
    <3>3. deliveries' = [deliveries EXCEPT ![d] = record]
      BY <2>3, <3>1, <3>2, RewriteFits
    <3> QED
      BY <1>1, <2>3, <3>2, <3>3, NoneMarkedByRewrite
  <2>4. CASE d \notin Stored(deliveries)
    BY <1>4, <2>1, <2>4 DEF Retry, storeVars
  <2> QED
    BY <2>3, <2>4
<1>9. ASSUME NEW kind \in {"collision", "credential", "binding"}, PauseOn(kind)
      PROVE  NoneMarked /\ (d \in Stored(deliveries') => deliveries'[d].state # "inflight")
  <2>1. PICK err \in Errors : PauseDelivery(d, kind, disp.credGen, disp.bindGen, err)
    BY <1>9 DEF PauseOn
  <2> DEFINE record == [deliveries[d] EXCEPT !.state = "pending", !.failed = TRUE]
  <2>2. CASE d \in Stored(deliveries)
    <3>1. Rewrite(d, record, err)
      BY <2>1, <2>2 DEF PauseDelivery
    <3>2. record \in Record /\ record.state = "pending"
      BY <1>5, <2>2 DEF Record
    <3> HIDE DEF record
    <3>3. deliveries' = [deliveries EXCEPT ![d] = record]
      BY <2>2, <3>1, <3>2, RewriteFits
    <3> QED
      BY <1>1, <2>2, <3>2, <3>3, NoneMarkedByRewrite
  <2>3. CASE d \notin Stored(deliveries)
    BY <1>4, <2>1, <2>3 DEF PauseDelivery, storeVars
  <2> QED
    BY <2>2, <2>3
<1> QED
  BY <1>6, <1>7, <1>8, <1>9

LEMMA UpMoves ==
  ASSUME [NextDispatch]_allVars, ~Start
  PROVE  up' \in {up, "down"} \/ (up # "down" /\ UNCHANGED <<deliveries, disp>>)
<1>1. CASE RotateQuarantine \/ RotateRefused \/ Crash
  BY <1>1 DEF RotateQuarantine, RotateRefused, Crash
<1>2. CASE FinishRequest
  BY <1>2 DEF FinishRequest, vars
<1>3. \/ RotateQuarantine \/ RotateRefused \/ Crash \/ FinishRequest \/ UNCHANGED up
  BY DEF NextDispatch, EngineStep, RunLoopStep, RotationStep, allVars, dispatchVars,
         WriteStaged, PruneTick, BeginBatch, Heartbeat, HeartbeatAnswered, LifecycleQuarantine,
         LifecycleApply, Activate, Promote, LocalReset, BeginRotation, RotateState, RotateRecord,
         RotateComplete, Stage, ResolveCollision, BeginRequest, TickClock, Answer,
         DispatchStep, ClearPause, CheckPause, Reconcile, PickDue, Mark, Acknowledge, SetAside,
         RetryLater, PauseOn
<1> QED
  BY <1>1, <1>2, <1>3

LEMMA OnlyInAttemptNext ==
  ASSUME Typed, Ample, Accounted, OnlyInAttempt, [NextDispatch]_allVars
  PROVE  OnlyInAttempt'
<1>1. TypeOK /\ TypeDispatchOK /\ AtRest
  BY DEF Typed, Consistent
<1>2. CASE Start
  BY <1>1, <1>2, NoneMarkedByOpen DEF Start, OnlyInAttempt
<1>3. CASE up' = "down"
  BY <1>3 DEF OnlyInAttempt
<1>4. CASE up # "down" /\ UNCHANGED <<deliveries, disp>>
  BY <1>4 DEF OnlyInAttempt, Stored, Sending
<1>5. CASE ~Start /\ ~LocalSteps /\ up' = up
  <2>1. disp' = disp /\ NoneMarked
    BY <1>5, OnlyLocalSteps, NoneMarkedOtherwise
  <2> QED
    BY <1>5, <2>1 DEF OnlyInAttempt, NoneMarked, Sending
<1>6. CASE LocalSteps /\ disp.pc \notin AttemptPcs /\ up' = up /\ ~Start
  <2>1. NoneMarked
    BY <1>6, NoneMarkedOtherwise
  <2>2. ~Sending
    BY <1>6, DispatchAssumption DEF Sending, AttemptPcs
  <2> QED
    BY <1>6, <2>1, <2>2 DEF OnlyInAttempt, NoneMarked
<1>7. CASE Mark /\ up' = up
  <2>1. disp \in Attempts /\ disp.pc = "mark"
    BY <1>1, <1>7, DispShape DEF Mark, AtPc, AttemptPcs
  <2>2. disp.id \in DeliveryIds /\ ~Sending
    BY <2>1, DispatchAssumption DEF Attempts, Sending
  <2>3. PICK err \in Errors :
          MarkInflight(disp.id, err) /\ (IF err = "nil" THEN GoTo("post") ELSE disp' = Idle)
    BY <1>7 DEF Mark
  <2>4. CASE UNCHANGED deliveries
    BY <1>7, <2>2, <2>4 DEF OnlyInAttempt, Stored
  <2>5. CASE ~(UNCHANGED deliveries)
    <3> DEFINE record == [deliveries[disp.id] EXCEPT !.state = "inflight"]
    <3>1. Rewrite(disp.id, record, err)
      BY <2>3, <2>5 DEF MarkInflight, storeVars
    <3> HIDE DEF record
    <3>2. err = "nil" /\ deliveries' = [deliveries EXCEPT ![disp.id] = record]
      BY <2>5, <3>1 DEF Rewrite
    <3>3. disp'.id = disp.id /\ disp'.pc = "post"
      BY <2>1, <2>3, <3>2 DEF GoTo, Attempts
    <3>4. \A d \in DeliveryIds : d # disp.id => deliveries'[d] = deliveries[d]
      BY <1>1, <2>2, <3>2 DEF TypeOK
    <3>5. Sending'
      BY <3>3 DEF Sending
    <3> QED
      BY <1>7, <2>2, <3>3, <3>4, <3>5 DEF OnlyInAttempt, Stored
  <2> QED
    BY <2>4, <2>5
<1>8. ASSUME NEW outcome \in Outcomes, Answer(outcome)
      PROVE  OnlyInAttempt'
  <2>1. /\ disp.pc = "post" /\ disp' = [disp EXCEPT !.pc = outcome]
        /\ UNCHANGED <<deliveries, up>>
    BY <1>8 DEF Answer, AtPc, GoTo, vars
  <2>2. disp \in Attempts
    BY <1>1, <2>1, DispShape DEF AttemptPcs
  <2>3. disp'.id = disp.id /\ disp'.pc = outcome /\ Sending'
    BY <2>1, <2>2, DispatchAssumption DEF Attempts, Sending
  <2> QED
    BY <2>1, <2>3 DEF OnlyInAttempt, Stored
<1>9. CASE /\ Acknowledge \/ SetAside \/ RetryLater
              \/ (\E kind \in {"collision", "credential", "binding"} : PauseOn(kind))
           /\ up' = up
  <2>1. NoneMarked /\ (disp.id \in Stored(deliveries') => deliveries'[disp.id].state # "inflight")
    BY <1>9, OutcomeRecorded
  <2> QED
    BY <1>9, <2>1 DEF OnlyInAttempt, NoneMarked
<1>10. CASE LocalSteps /\ disp.pc \in AttemptPcs
  <2>1. CASE Crash
    BY <1>3, <2>1 DEF Crash
  <2>2. CASE \E outcome \in Outcomes : Answer(outcome)
    BY <1>8, <2>2
  <2>3. CASE DispatchStep
    <3>1. up' = up
      BY <2>3 DEF DispatchStep, ClearPause, CheckPause, Reconcile, PickDue, Mark, Acknowledge, SetAside,
           RetryLater, PauseOn
    <3>2. ~ClearPause /\ ~CheckPause /\ ~Reconcile /\ ~PickDue
      BY <1>10 DEF ClearPause, CheckPause, Reconcile, PickDue, AtPc, AttemptPcs
    <3> QED
      BY <1>7, <1>9, <2>3, <3>1, <3>2 DEF DispatchStep
  <2>4. \/ Crash \/ DispatchStep \/ \E outcome \in Outcomes : Answer(outcome)
    BY <1>10 DEF LocalSteps, BeginBatch, Heartbeat, HeartbeatAnswered, LifecycleQuarantine,
         LifecycleApply, AtPc, AttemptPcs, Idle
  <2> QED
    BY <2>1, <2>2, <2>3, <2>4
<1> QED
  BY <1>2, <1>3, <1>4, <1>5, <1>6, <1>10, UpMoves

(* While the receiver runs, a delivery is inflight only during its own     *)
(* attempt, wherever portal, rotation, errors and crashes come in between: *)
(* NextDue never looks at an inflight record, so one that outlived its     *)
(* attempt would be stuck until a restart (MarkInflight, resetInflight).   *)
THEOREM InflightAlwaysSending ==
  ASSUME Ample
  PROVE  SpecDispatch => []InflightOnlyWhileSending
<1>1. InitDispatch => Typed /\ OnlyInAttempt
  <2> SUFFICES ASSUME InitDispatch PROVE OnlyInAttempt
    BY TypedInit
  <2>1. Stored(deliveries) = {}
    BY DEF InitDispatch, Init, Stored
  <2> QED
    BY <2>1 DEF OnlyInAttempt
<1>2. Typed /\ OnlyInAttempt /\ Accounted /\ [NextDispatch]_allVars => (Typed /\ OnlyInAttempt)'
  BY TypedNext, OnlyInAttemptNext
<1>3. OnlyInAttempt => InflightOnlyWhileSending
  BY DEF OnlyInAttempt, InflightOnlyWhileSending
<1> QED
  BY <1>1, <1>2, <1>3, DispatchUsesStore, AccountedAlways, PTL DEF SpecDispatch

-----------------------------------------------------------------------------
(* What lifts a pause.                                                     *)

(* The snapshot of a batch is not ahead of the state file.                 *)
NotAhead ==
  disp.pc \in BatchPcs \cup AttemptPcs =>
    disp.credGen <= receiver.credGen /\ disp.bindGen <= receiver.bindGen

(* Generations only rise, and a batch keeps its snapshot.                  *)
LEMMA NotAheadNext ==
  ASSUME Typed, NotAhead, [NextDispatch]_allVars
  PROVE  NotAhead'
<1>1. TypeOK /\ TypeDispatchOK /\ Consistent /\ TypeDispatchOK'
  BY TypedNext DEF Typed, Consistent
<1>2. receiver \in Receiver /\ MaxGeneration \in Nat
  BY <1>1, BoundsAssumption DEF TypeDispatchOK
<1>3. /\ receiver.credGen \in Nat /\ receiver.bindGen \in Nat
      /\ receiver'.credGen \in Nat /\ receiver'.bindGen \in Nat
  BY <1>1, <1>2 DEF TypeDispatchOK, Receiver, Generations
<1>4. receiver.credGen <= receiver'.credGen /\ receiver.bindGen <= receiver'.bindGen
  <2>1. CASE LifecycleApply \/ Promote \/ LocalReset \/ FinishRequest \/ RotateState
    <3>1. receiver'.credGen = receiver.credGen /\ receiver'.bindGen = receiver.bindGen
      BY <1>2, <2>1
         DEF LifecycleApply, Promote, LocalReset, FinishRequest, RotateState, Cleared, Receiver
    <3> QED
      BY <1>3, <3>1
  <2>2. CASE Activate
    <3>1. PICK p \in Principals : receiver' = Activated(p)
      BY <2>2 DEF Activate
    <3>2. /\ receiver'.credGen = receiver.credGen + 1
          /\ receiver'.bindGen = receiver.bindGen + (IF Names(p) THEN 0 ELSE 1)
      BY <1>2, <3>1 DEF Activated, Receiver
    <3> QED
      BY <1>3, <3>2
  <2>3. CASE UNCHANGED receiver
    BY <1>3, <2>3
  <2>5. CASE HeartbeatAnswered /\ ~(UNCHANGED receiver)
    <3>1. receiver'.credGen = receiver.credGen /\ receiver'.bindGen = receiver.bindGen + 1
      BY <1>2, <2>5 DEF HeartbeatAnswered, Receiver
    <3> QED
      BY <1>3, <3>1
  <2>4. \/ LifecycleApply \/ Promote \/ LocalReset \/ FinishRequest \/ Activate \/ RotateState
        \/ HeartbeatAnswered \/ UNCHANGED receiver
    BY DEF NextDispatch, EngineStep, RunLoopStep, RotationStep, DispatchStep, allVars, dispatchVars,
           WriteStaged, PruneTick, BeginBatch, Heartbeat, HeartbeatAnswered, LifecycleQuarantine,
           ClearPause, CheckPause, Reconcile, PickDue, Mark, Acknowledge, SetAside, RetryLater,
           PauseOn, BeginRotation, RotateQuarantine, RotateRecord, RotateRefused, RotateComplete, Stage,
           ResolveCollision, Answer, BeginRequest, Crash, Start, TickClock
  <2> QED
    BY <2>1, <2>2, <2>3, <2>4, <2>5
<1>5. \/ disp'.pc \notin BatchPcs \cup AttemptPcs
      \/ BeginBatch
      \/ /\ disp.pc \in BatchPcs \cup AttemptPcs
         /\ disp'.credGen = disp.credGen /\ disp'.bindGen = disp.bindGen
  <2>1. Idle.pc \notin BatchPcs \cup AttemptPcs
    BY DEF Idle, BatchPcs, AttemptPcs
  <2>2. CASE ~LocalSteps
    BY <2>2, OnlyLocalSteps
  <2>3. CASE Heartbeat \/ HeartbeatAnswered \/ LifecycleQuarantine \/ LifecycleApply \/ Crash
    BY <2>1, <2>3
       DEF Heartbeat, HeartbeatAnswered, LifecycleQuarantine, LifecycleApply, Crash, BatchPcs,
           AttemptPcs
  <2>4. CASE ClearPause \/ CheckPause \/ Reconcile
    <3>1. disp \in Batches /\ disp.pc \in BatchPcs
      BY <1>1, <2>4, DispShape DEF ClearPause, CheckPause, Reconcile, AtPc, BatchPcs
    <3>2. disp' = Idle \/ \E pc \in BatchPcs : disp' = [disp EXCEPT !.pc = pc]
      BY <2>4 DEF ClearPause, CheckPause, Reconcile, GoTo, BatchPcs
    <3> QED
      BY <2>1, <3>1, <3>2 DEF Batches
  <2>5. CASE PickDue
    BY <2>1, <2>5 DEF PickDue, AtPc, BatchPcs
  <2>6. CASE \/ Mark \/ Acknowledge \/ SetAside \/ RetryLater
             \/ \E kind \in {"collision", "credential", "binding"} : PauseOn(kind)
             \/ \E outcome \in Outcomes : Answer(outcome)
    <3>1. disp \in Attempts /\ disp.pc \in AttemptPcs
      BY <1>1, <2>6, DispShape
         DEF Mark, Acknowledge, SetAside, RetryLater, PauseOn, Answer, AtPc, AttemptPcs
    <3>2. \/ disp' = Idle
          \/ Continue
          \/ \E pc \in AttemptPcs : disp' = [disp EXCEPT !.pc = pc]
      BY <2>6, DispatchAssumption
         DEF Mark, Acknowledge, SetAside, RetryLater, PauseOn, Answer, GoTo, AttemptPcs
    <3>3. CASE Continue
      BY <2>1, <3>1, <3>3 DEF Continue
    <3> QED
      BY <2>1, <3>1, <3>2, <3>3 DEF Attempts
  <2> QED
    BY <2>2, <2>3, <2>4, <2>5, <2>6 DEF LocalSteps, DispatchStep
<1>6. CASE BeginBatch
  <2>1. receiver' = receiver /\ disp'.credGen = receiver.credGen /\ disp'.bindGen = receiver.bindGen
    BY <1>6 DEF BeginBatch
  <2> QED
    BY <1>3, <2>1 DEF NotAhead
<1>7. CASE /\ disp.pc \in BatchPcs \cup AttemptPcs
           /\ disp'.credGen = disp.credGen /\ disp'.bindGen = disp.bindGen
  <2>1. disp.credGen \in Nat /\ disp.bindGen \in Nat
    BY <1>1, <1>2, <1>7, DispShape DEF Batches, Attempts, Generations
  <2> QED
    BY <1>3, <1>4, <1>7, <2>1 DEF NotAhead
<1> QED
  BY <1>5, <1>6, <1>7 DEF NotAhead

(* A pause goes as ClearResolvedPause decides, with the snapshot of a      *)
(* batch, or with the delivery it is about.                                *)
LEMMA PauseLifted ==
  ASSUME Typed, Unpaused, [NextDispatch]_allVars, pause # NoRecord, pause' # pause
  PROVE  /\ pause' = NoRecord
         /\ \/ disp.pc = "clear" /\ Superseded(disp.credGen, disp.bindGen)
            \/ pause.id \in Stored(deliveries) /\ quarantine'[pause.id] # NoRecord
<1>0. TypeOK
  BY DEF Typed, Consistent
<1>1. ASSUME NEW S \in SUBSET Stored(deliveries), MoveAside(S, clock), pause.id \in S
      PROVE  pause.id \in Stored(deliveries) /\ quarantine'[pause.id] # NoRecord
  <2> DEFINE d == pause.id
  <2>1. d \in Stored(deliveries) /\ d \in DeliveryIds
    BY <1>1 DEF Stored
  <2>2. deliveries[d] \in Record
    BY <1>0, <2>1, StoredRecord DEF TypeOK
  <2>3. Aside(deliveries[d], clock) \in Record
    BY <1>0, <2>2 DEF Aside, Record, TypeOK
  <2>4. quarantine'[d] = Aside(deliveries[d], clock)
    BY <1>1, <2>1 DEF MoveAside, QuarantineWith
  <2> HIDE DEF d
  <2>5. quarantine'[d] # NoRecord
    BY <2>3, <2>4, BoundsAssumption, RecordIsStored
  <2> QED
    BY <2>1, <2>5 DEF d
<1>2. CASE ClearPause
  BY <1>2 DEF ClearPause, AtPc, ClearResolvedPause
<1>3. CASE DispatchStep /\ ~ClearPause
  <2>1. ASSUME NEW kind \in {"collision", "credential", "binding"}, PauseOn(kind) PROVE FALSE
    BY <2>1 DEF PauseOn, AtPc, Unpaused, AttemptPcs
  <2>2. pause' = pause
    BY <1>3, <2>1
       DEF DispatchStep, CheckPause, Reconcile, PickDue, Mark, Acknowledge, SetAside, RetryLater,
           ReconcileBinding, MarkInflight, Delete, Quarantine, Retry, storeVars, vars
  <2> QED
    BY <2>2
<1>4. CASE WriteStaged \/ PruneTick \/ LifecycleQuarantine \/ Start
  BY <1>4 DEF WriteStaged, Enqueue, PruneTick, PruneQuarantine, LifecycleQuarantine,
       QuarantineByReceiver, Start, Open, storeVars
<1>5. ASSUME NEW d \in DeliveryIds, ResolveCollision(d)
      PROVE  /\ pause' = NoRecord
             /\ pause.id \in Stored(deliveries) /\ quarantine'[pause.id] # NoRecord
  <2>1. /\ pause.id = d /\ d \in Stored(deliveries) /\ MoveAside({d}, clock) /\ pause' = NoRecord
    BY <1>5 DEF ResolveCollision, ResolveDeliveryCollision, storeVars
  <2>2. {d} \in SUBSET Stored(deliveries) /\ pause.id \in {d}
    BY <2>1
  <2> QED
    BY <1>1, <2>1, <2>2
<1>6. CASE RotateQuarantine
  <2> DEFINE S == OfInstallation(journal.old)
  <2>1. MoveAside(S, clock) /\ pause' = PauseWithout(S)
    BY <1>6 DEF RotateQuarantine, QuarantineInstallationRotation, storeVars
  <2>2. S \in SUBSET Stored(deliveries)
    BY DEF OfInstallation
  <2>3. pause.id \in S /\ pause' = NoRecord
    BY <2>1 DEF PauseWithout
  <2> HIDE DEF S
  <2> QED
    BY <1>1, <2>1, <2>2, <2>3
<1>7. CASE BeginRotation \/ RotateRecord \/ RotateComplete
  BY <1>7 DEF BeginRotation, BeginInstallationRotation, RotateRecord, RotateRefused, RotateComplete,
       AdvanceInstallationRotation, storeVars
<1>8. \/ WriteStaged \/ DispatchStep \/ PruneTick \/ LifecycleQuarantine \/ Start
      \/ \E d \in DeliveryIds : ResolveCollision(d)
      \/ BeginRotation \/ RotateQuarantine \/ RotateRecord \/ RotateComplete
      \/ UNCHANGED pause
  BY DEF NextDispatch, EngineStep, RunLoopStep, RotationStep, allVars, vars, storeVars, TickClock,
         BeginBatch, Heartbeat, HeartbeatAnswered, LifecycleApply, Activate, Promote,
         RotateState, RotateRefused, FinishRequest, Stage, Answer, LocalReset, BeginRequest, Crash
<1> QED
  BY <1>2, <1>3, <1>4, <1>5, <1>6, <1>7, <1>8

PauseKept == Typed /\ Unpaused /\ NotAhead

LEMMA PauseKeptInit == InitDispatch => PauseKept
<1> SUFFICES ASSUME InitDispatch PROVE PauseKept
  OBVIOUS
<1>1. disp = Idle /\ pause = NoRecord
  BY DEF InitDispatch, Init
<1> QED
  BY <1>1, TypedInit DEF PauseKept, Unpaused, NotAhead, Idle, BatchPcs, AttemptPcs

LEMMA PauseKeptNext == PauseKept /\ [NextDispatch]_allVars => PauseKept'
BY TypedNext, UnpausedNext, NotAheadNext DEF PauseKept

(* A collision stop stays, whatever credentials, batches and restarts come *)
(* and go, until the delivery it names is quarantined with it, by the      *)
(* operator or by a rotation (ResolveDeliveryCollision,                    *)
(* QuarantineInstallationRotation).                                        *)
THEOREM CollisionStaysWithEvidence == SpecDispatch => CollisionLiftedWithEvidence
<1>1. PauseKept /\ [NextDispatch]_allVars =>
        [pause # NoRecord /\ pause.kind = "collision" /\ pause' # pause
           => /\ pause' = NoRecord
              /\ pause.id \in Stored(deliveries)
              /\ quarantine'[pause.id] # NoRecord]_allVars
  BY PauseLifted DEF PauseKept, Superseded
<1> QED
  BY <1>1, PauseKeptInit, PauseKeptNext, PTL DEF SpecDispatch, CollisionLiftedWithEvidence

(* The stale snapshot of a batch lifts no pause that the receiver's        *)
(* present credentials would not (ClearResolvedPause compares generations).*)
THEOREM PauseStaysForItsBinding == SpecDispatch => PauseLiftedByNewerBinding
<1>1. PauseKept /\ [NextDispatch]_allVars =>
        [pause # NoRecord /\ pause.kind # "collision" /\ pause' # pause
           => \/ receiver.bindGen > pause.bindGen
              \/ pause.kind = "credential" /\ receiver.credGen > pause.credGen
              \/ quarantine'[pause.id] # NoRecord]_allVars
  <2> SUFFICES ASSUME PauseKept, [NextDispatch]_allVars, pause # NoRecord, pause' # pause,
                      ~(quarantine'[pause.id] # NoRecord)
               PROVE  \/ receiver.bindGen > pause.bindGen
                      \/ pause.kind = "credential" /\ receiver.credGen > pause.credGen
    OBVIOUS
  <2>1. disp.pc = "clear" /\ Superseded(disp.credGen, disp.bindGen)
    BY PauseLifted DEF PauseKept
  <2>2. disp.credGen <= receiver.credGen /\ disp.bindGen <= receiver.bindGen
    BY <2>1 DEF PauseKept, NotAhead, BatchPcs
  <2>3. /\ disp.credGen \in Nat /\ disp.bindGen \in Nat
        /\ receiver.credGen \in Nat /\ receiver.bindGen \in Nat
        /\ pause.credGen \in Nat /\ pause.bindGen \in Nat
    <3>1. TypeDispatchOK /\ TypeOK
      BY DEF PauseKept, Typed, Consistent
    <3>2. disp \in Batches
      BY <2>1, <3>1, DispShape DEF BatchPcs
    <3>3. receiver \in Receiver /\ pause \in Pause
      BY <3>1 DEF TypeDispatchOK, TypeOK
    <3> QED
      BY <3>2, <3>3, BoundsAssumption DEF Batches, Receiver, Pause, Generations
  <2> QED
    BY <2>1, <2>2, <2>3 DEF Superseded
<1> QED
  BY <1>1, PauseKeptInit, PauseKeptNext, PTL DEF SpecDispatch, PauseLiftedByNewerBinding
=============================================================================
