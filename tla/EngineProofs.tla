---------------------------- MODULE EngineProofs ----------------------------
(***************************************************************************)
(* Theorems about OutboxEngine, for any number of deliveries, sizes,       *)
(* callers and capacities.                                                 *)
(***************************************************************************)
EXTENDS OutboxEngine, FiniteSetTheorems, SequenceTheorems, TLAPS

-----------------------------------------------------------------------------
(* Queues.                                                                 *)

(* What a queue holds after a send, and before a receive.                  *)
LEMMA SendAdds ==
  ASSUME NEW q \in Seq(Items), NEW i \in Items
  PROVE  ToSet(Append(q, i)) = ToSet(q) \cup {i}
<1>1. /\ Len(q) \in Nat
      /\ DOMAIN Append(q, i) = 1..(Len(q) + 1) /\ DOMAIN q = 1..Len(q)
      /\ Append(q, i)[Len(q) + 1] = i
      /\ \A n \in 1..Len(q) : Append(q, i)[n] = q[n]
  OBVIOUS
<1>2. 1..(Len(q) + 1) = 1..Len(q) \cup {Len(q) + 1}
  BY <1>1
<1> QED
  BY <1>1, <1>2 DEF ToSet

LEMMA ReceiveSplits ==
  ASSUME NEW q \in Seq(Items), q # <<>>
  PROVE  /\ Head(q) \in Items /\ Tail(q) \in Seq(Items)
         /\ q = <<Head(q)>> \o Tail(q)
         /\ ToSet(q) = ToSet(Tail(q)) \cup {Head(q)}
<1>1. /\ Head(q) \in Items /\ Tail(q) \in Seq(Items)
      /\ Len(q) \in Nat \ {0} /\ Len(Tail(q)) = Len(q) - 1
      /\ \A n \in 1..Len(Tail(q)) : Tail(q)[n] = q[n + 1]
      /\ Head(q) = q[1]
      /\ DOMAIN q = 1..Len(q) /\ DOMAIN Tail(q) = 1..Len(Tail(q))
  BY HeadTailProperties
<1>2. \A n \in 1..Len(q) : n = 1 \/ (n - 1 \in 1..Len(Tail(q)) /\ q[n] = Tail(q)[n - 1])
  BY <1>1
<1>3. ToSet(q) \subseteq ToSet(Tail(q)) \cup {Head(q)}
  <2>1. ASSUME NEW n \in DOMAIN q PROVE q[n] \in ToSet(Tail(q)) \cup {Head(q)}
    <3>1. CASE n = 1
      BY <1>1, <3>1
    <3>2. CASE n - 1 \in DOMAIN Tail(q) /\ q[n] = Tail(q)[n - 1]
      BY <3>2 DEF ToSet
    <3> QED
      BY <1>1, <1>2, <3>1, <3>2
  <2> QED
    BY <2>1 DEF ToSet
<1>4. \A n \in 1..Len(Tail(q)) : n + 1 \in 1..Len(q)
  BY <1>1
<1>5. 1 \in 1..Len(q)
  BY <1>1
<1>6. ToSet(Tail(q)) \cup {Head(q)} \subseteq ToSet(q)
  BY <1>1, <1>4, <1>5 DEF ToSet
<1>7. q = <<Head(q)>> \o Tail(q)
  BY <1>1
<1> QED
  BY <1>1, <1>3, <1>6, <1>7

-----------------------------------------------------------------------------
(* Sizes are counted one element for each byte.                            *)

LEMMA BytesOfOne ==
  ASSUME NEW i \in Items
  PROVE  /\ IsFiniteSet(BytesOf(i)) /\ Cardinality(BytesOf(i)) = SizeOf[i]
         /\ SizeOf[i] \in Nat \ {0}
<1>1. SizeOf[i] \in Nat \ {0}
  BY EngineAssumption
<1>2. IsFiniteSet(1..SizeOf[i]) /\ Cardinality(1..SizeOf[i]) = SizeOf[i]
  BY <1>1, FS_Interval
<1>3. IsFiniteSet({i}) /\ Cardinality({i}) = 1
  BY FS_Singleton
<1>4. /\ IsFiniteSet({i} \X (1..SizeOf[i]))
      /\ Cardinality({i} \X (1..SizeOf[i])) = 1 * SizeOf[i]
  <2> DEFINE A == {i}
             B == 1..SizeOf[i]
  <2>1. IsFiniteSet(A) /\ Cardinality(A) = 1 /\ IsFiniteSet(B) /\ Cardinality(B) = SizeOf[i]
    BY <1>2, <1>3
  <2> HIDE DEF A, B
  <2>2. IsFiniteSet(A \X B) /\ Cardinality(A \X B) = Cardinality(A) * Cardinality(B)
    BY <2>1, FS_Product, Zenon
  <2> QED
    BY <2>1, <2>2, Zenon DEF A, B
<1> QED
  BY <1>1, <1>4 DEF BytesOf

(* A delivery that joins a set of others adds its bytes to theirs.         *)
LEMMA BytesAdd ==
  ASSUME NEW S, NEW i \in Items, i \notin S, IsFiniteSet(BytesIn(S))
  PROVE  /\ IsFiniteSet(BytesIn(S \cup {i}))
         /\ Cardinality(BytesIn(S \cup {i})) = Cardinality(BytesIn(S)) + SizeOf[i]
<1>1. BytesIn(S \cup {i}) = BytesIn(S) \cup BytesOf(i)
  BY DEF BytesIn
<1>2. BytesIn(S) \cap BytesOf(i) = {}
  BY DEF BytesIn, BytesOf
<1>3. Cardinality(BytesIn(S) \cap BytesOf(i)) = 0
  BY <1>2, FS_EmptySet
<1>4. Cardinality(BytesIn(S)) \in Nat
  BY FS_CardinalityType
<1>5. /\ IsFiniteSet(BytesIn(S) \cup BytesOf(i))
      /\ Cardinality(BytesIn(S) \cup BytesOf(i))
           = Cardinality(BytesIn(S)) + Cardinality(BytesOf(i)) - Cardinality(BytesIn(S) \cap BytesOf(i))
  BY BytesOfOne, FS_Union
<1>6. Cardinality(BytesOf(i)) = SizeOf[i] /\ SizeOf[i] \in Nat
  BY BytesOfOne
<1>7. Cardinality(BytesIn(S) \cup BytesOf(i)) = Cardinality(BytesIn(S)) + SizeOf[i]
  BY <1>3, <1>4, <1>5, <1>6
<1> QED
  BY <1>1, <1>5, <1>7, Zenon

(* One that leaves takes its bytes along.                                  *)
LEMMA BytesRemove ==
  ASSUME NEW S, NEW i \in Items, i \notin S, IsFiniteSet(BytesIn(S \cup {i}))
  PROVE  /\ IsFiniteSet(BytesIn(S))
         /\ Cardinality(BytesIn(S)) = Cardinality(BytesIn(S \cup {i})) - SizeOf[i]
         /\ Cardinality(BytesIn(S)) \in Nat
<1>1. BytesIn(S) \subseteq BytesIn(S \cup {i})
  BY DEF BytesIn
<1>2. IsFiniteSet(BytesIn(S))
  BY <1>1, FS_Subset
<1>3. Cardinality(BytesIn(S)) \in Nat
  BY <1>2, FS_CardinalityType
<1>4. Cardinality(BytesIn(S \cup {i})) = Cardinality(BytesIn(S)) + SizeOf[i]
  BY <1>2, BytesAdd
<1> QED
  BY <1>2, <1>3, <1>4, BytesOfOne

-----------------------------------------------------------------------------
(* The inductive invariant.                                                *)

(* What the engine has written and not yet put into results.               *)
Held == IF engine.pc \in {"release", "report"} THEN <<engine.item>> ELSE <<>>

(* A delivery is accepted once, and is in one place: read by the receiver, *)
(* in results, in the engine's hands, or in the stage, in that order.      *)
Queues ==
  /\ accepted = enqueued \o stage
  /\ enqueued = (reported \o results) \o Held
  /\ \A m, n \in DOMAIN accepted : accepted[m] = accepted[n] => m = n

Accounting == IsFiniteSet(BytesIn(InStage)) /\ StageBytesExact

(* What is closed, by how far the engine and the shutdown have come.       *)
Lifecycle ==
  /\ accepting = (service = "running") /\ stageOpen = accepting
  /\ engine.pc \in {"returning", "gone"} => stage = <<>> /\ ~stageOpen
  /\ resultsOpen = (engine.pc \notin {"returning", "gone"})
  /\ done => engine.pc = "gone"
  /\ service \in {"draining", "store_closed"} => done
  /\ service = "store_closed" => results = <<>>

IInv == TypeOK /\ Queues /\ Accounting /\ Lifecycle

LEMMA EngineShape ==
  ASSUME TypeOK
  PROVE  /\ engine.pc \in {"select", "release", "report", "returning", "gone"}
         /\ engine.pc \in {"release", "report"} =>
              /\ engine.item \in Items
              /\ engine = [pc |-> engine.pc, item |-> engine.item]
BY DEF TypeOK

(* The item being released is accepted before everything in the stage, and *)
(* acceptance is once: it is not in the stage.                             *)
LEMMA ReleasedNotStaged ==
  ASSUME TypeOK, Queues, engine.pc = "release"
  PROVE  engine.item \notin ToSet(stage)
<1> DEFINE written == reported \o results
           k == Len(written) + 1
<1>1. engine.item \in Items
  BY EngineShape
<1>2. written \in Seq(Items)
  BY DEF TypeOK
<1> HIDE DEF written
<1>3. /\ enqueued = written \o <<engine.item>>
      /\ accepted = enqueued \o stage
      /\ stage \in Seq(Items)
  BY DEF Queues, Held, TypeOK, written
<1>4. k \in Nat /\ Len(enqueued) = k /\ enqueued[k] = engine.item /\ enqueued \in Seq(Items)
  BY <1>1, <1>2, <1>3
<1> HIDE DEF k
<1>5. /\ DOMAIN accepted = 1..(k + Len(stage)) /\ accepted[k] = engine.item
      /\ \A n \in 1..Len(stage) : accepted[k + n] = stage[n]
      /\ Len(stage) \in Nat /\ k > 0
  BY <1>3, <1>4 DEF k
<1>6. ASSUME NEW n \in 1..Len(stage), stage[n] = engine.item PROVE FALSE
  <2>1. k \in DOMAIN accepted /\ k + n \in DOMAIN accepted /\ k # k + n
    BY <1>4, <1>5
  <2>2. accepted[k] = accepted[k + n]
    BY <1>5, <1>6
  <2> QED
    BY <2>1, <2>2 DEF Queues
<1> QED
  BY <1>3, <1>6 DEF ToSet

LEMMA InitIInv == Init => IInv
<1> SUFFICES ASSUME Init PROVE IInv
  OBVIOUS
<1>1. engine.pc = "select"
  BY DEF Init, Nothing
<1>2. TypeOK
  <2>1. engine \in [pc : {"select", "returning", "gone"}] /\ stageBytes \in 0..StageMaxBytes
    BY EngineAssumption DEF Init, Nothing
  <2>2. stage \in Seq(Items) /\ Len(stage) <= StageMaxEvents
    BY EngineAssumption DEF Init
  <2>3. results \in Seq(Items) /\ Len(results) <= StageMaxEvents
    BY EngineAssumption DEF Init
  <2> QED
    BY <2>1, <2>2, <2>3 DEF Init, TypeOK
<1>3. Queues
  BY <1>1 DEF Init, Queues, Held
<1>4. InStage = {}
  BY <1>1 DEF Init, InStage, ToSet
<1>5. BytesIn(InStage) = {}
  BY <1>4 DEF BytesIn
<1>6. Accounting
  BY <1>5, FS_EmptySet DEF Accounting, StageBytesExact, Init
<1>7. Lifecycle
  BY <1>1 DEF Init, Lifecycle
<1> QED
  BY <1>2, <1>3, <1>6, <1>7 DEF IInv

(* Admission: the mutex makes the bound, the bytes and the send one step.  *)
LEMMA TryStageKeeps ==
  ASSUME IInv, NEW i \in Items, TryStage(i)
  PROVE  IInv'
<1> USE DEF IInv
<1>0. /\ stage \in Seq(Items) /\ accepted \in Seq(Items) /\ enqueued \in Seq(Items)
      /\ stage' = Append(stage, i) /\ accepted' = Append(accepted, i)
      /\ i \notin ToSet(accepted)
      /\ SizeOf[i] \in Nat \ {0}
      /\ UNCHANGED <<accepting, stageOpen, results, resultsOpen, done, engine, caller,
                     service, enqueued, reported>>
  BY BytesOfOne DEF TypeOK, TryStage
<1>1. TypeOK'
  <2>1. stageBytes' = stageBytes + SizeOf[i] /\ stageBytes' <= StageMaxBytes /\ Len(stage) < StageMaxEvents
    BY DEF TryStage
  <2>2. stageBytes' \in 0..StageMaxBytes
    BY <1>0, <2>1, EngineAssumption DEF TypeOK
  <2>3. stage' \in Seq(Items) /\ Len(stage') <= StageMaxEvents /\ accepted' \in Seq(Items)
    BY <1>0, <2>1, EngineAssumption
  <2> QED
    BY <1>0, <2>2, <2>3 DEF TypeOK
<1>2. Queues'
  <2>1. accepted' = enqueued' \o stage'
    <3>1. stage' = stage \o <<i>> /\ accepted' = accepted \o <<i>> /\ <<i>> \in Seq(Items)
      BY <1>0, AppendIsConcat
    <3>2. (enqueued \o stage) \o <<i>> = enqueued \o (stage \o <<i>>)
      BY <1>0, <3>1, ConcatAssociative
    <3> QED
      BY <1>0, <3>1, <3>2 DEF Queues
  <2>2. enqueued' = (reported' \o results') \o Held'
    BY <1>0 DEF Queues, Held
  <2>3. ASSUME NEW m \in DOMAIN accepted', NEW n \in DOMAIN accepted', accepted'[m] = accepted'[n]
        PROVE  m = n
    <3>1. /\ DOMAIN accepted' = 1..(Len(accepted) + 1) /\ DOMAIN accepted = 1..Len(accepted)
          /\ accepted'[Len(accepted) + 1] = i
          /\ \A x \in 1..Len(accepted) : accepted'[x] = accepted[x] /\ accepted[x] # i
          /\ Len(accepted) \in Nat
      BY <1>0 DEF ToSet
    <3>2. CASE m = Len(accepted) + 1 \/ n = Len(accepted) + 1
      BY <2>3, <3>1, <3>2
    <3>3. CASE m \in 1..Len(accepted) /\ n \in 1..Len(accepted)
      <4>1. accepted[m] = accepted[n]
        BY <2>3, <3>1, <3>3
      <4> QED
        BY <3>1, <3>3, <4>1 DEF Queues
    <3> QED
      BY <3>1, <3>2, <3>3
  <2> QED
    BY <2>1, <2>2, <2>3 DEF Queues
<1>3. i \notin InStage /\ InStage' = InStage \cup {i}
  <2>1. InStage \subseteq ToSet(accepted)
    <3>1. ToSet(stage) \subseteq ToSet(accepted)
      <4>1. /\ accepted = enqueued \o stage /\ DOMAIN accepted = 1..(Len(enqueued) + Len(stage))
            /\ \A n \in 1..Len(stage) : accepted[Len(enqueued) + n] = stage[n]
            /\ Len(enqueued) \in Nat /\ Len(stage) \in Nat /\ DOMAIN stage = 1..Len(stage)
        BY <1>0 DEF Queues
      <4>2. \A n \in 1..Len(stage) : Len(enqueued) + n \in DOMAIN accepted
        BY <4>1
      <4> QED
        BY <4>1, <4>2 DEF ToSet
    <3>2. ASSUME engine.pc = "release" PROVE engine.item \in ToSet(accepted)
      <4> DEFINE written == reported \o results
      <4>1. engine.item \in Items /\ written \in Seq(Items)
        BY <3>2, EngineShape DEF TypeOK
      <4>2. accepted = (written \o <<engine.item>>) \o stage
        BY <3>2 DEF Queues, Held
      <4> HIDE DEF written
      <4>3. /\ Len(written) + 1 \in DOMAIN accepted /\ accepted[Len(written) + 1] = engine.item
        BY <1>0, <4>1, <4>2
      <4> QED
        BY <4>3 DEF ToSet
    <3> QED
      BY <3>1, <3>2 DEF InStage
  <2>2. ToSet(stage') = ToSet(stage) \cup {i}
    BY <1>0, SendAdds
  <2> QED
    BY <1>0, <2>1, <2>2 DEF InStage
<1>4. Accounting'
  <2>1. /\ IsFiniteSet(BytesIn(InStage \cup {i}))
        /\ Cardinality(BytesIn(InStage \cup {i})) = Cardinality(BytesIn(InStage)) + SizeOf[i]
    BY <1>3, BytesAdd DEF Accounting
  <2>2. BytesIn(InStage)' = BytesIn(InStage')
    BY DEF BytesIn, BytesOf
  <2> QED
    BY <1>3, <2>1, <2>2 DEF Accounting, StageBytesExact, TryStage
<1>5. Lifecycle'
  <2>1. engine.pc \notin {"returning", "gone"}
    BY DEF Lifecycle, TryStage
  <2> QED
    BY <1>0, <2>1 DEF Lifecycle
<1> QED
  BY <1>1, <1>2, <1>4, <1>5

(* Receiving from stage moves a delivery from the queue into the engine's  *)
(* hands: the bytes stay taken.                                            *)
LEMMA TakeStagedKeeps ==
  ASSUME IInv, TakeStaged
  PROVE  IInv'
<1> USE DEF IInv
<1> DEFINE i == Head(stage)
<1>0. /\ engine.pc = "select" /\ stage # <<>> /\ stage \in Seq(Items)
      /\ i \in Items /\ Tail(stage) \in Seq(Items) /\ stage = <<i>> \o Tail(stage)
      /\ ToSet(stage) = ToSet(Tail(stage)) \cup {i}
      /\ stage' = Tail(stage) /\ enqueued' = Append(enqueued, i)
      /\ engine' = [pc |-> "release", item |-> i]
      /\ UNCHANGED <<accepting, stageBytes, stageOpen, results, resultsOpen, done, caller,
                     service, accepted, reported>>
  BY ReceiveSplits DEF TypeOK, TakeStaged
<1> HIDE DEF i
<1>1. engine'.pc = "release" /\ engine'.item = i
  BY <1>0
<1>2. TypeOK'
  <2>1. Len(Tail(stage)) <= StageMaxEvents
    BY <1>0, HeadTailProperties, EngineAssumption DEF TypeOK
  <2> QED
    BY <1>0, <2>1 DEF TypeOK
<1>3. Queues'
  <2>1. accepted' = enqueued' \o stage'
    <3>1. enqueued' = enqueued \o <<i>> /\ enqueued \in Seq(Items) /\ <<i>> \in Seq(Items)
      BY <1>0 DEF TypeOK
    <3>2. (enqueued \o <<i>>) \o Tail(stage) = enqueued \o (<<i>> \o Tail(stage))
      BY <1>0, <3>1, ConcatAssociative
    <3> QED
      BY <1>0, <3>1, <3>2 DEF Queues
  <2>2. enqueued' = (reported' \o results') \o Held'
    <3>1. reported \o results \in Seq(Items) /\ Held = <<>> /\ Held' = <<i>>
      BY <1>0, <1>1 DEF TypeOK, Held
    <3>2. enqueued = reported \o results
      BY <3>1, ConcatEmptySeq DEF Queues
    <3> QED
      BY <1>0, <3>1, <3>2, AppendIsConcat
  <2> QED
    BY <1>0, <2>1, <2>2 DEF Queues
<1>4. InStage' = InStage
  BY <1>0, <1>1 DEF InStage
<1>5. Accounting'
  BY <1>0, <1>4 DEF Accounting, StageBytesExact, BytesIn, BytesOf
<1>6. Lifecycle'
  BY <1>0, <1>1 DEF Lifecycle
<1> QED
  BY <1>2, <1>3, <1>5, <1>6

(* The bytes given back are those of a delivery that is no longer counted. *)
LEMMA ReleaseBytesKeeps ==
  ASSUME IInv, ReleaseBytes
  PROVE  IInv'
<1> USE DEF IInv
<1> DEFINE i == engine.item
<1>0. /\ engine.pc = "release" /\ i \in Items
      /\ engine' = [pc |-> "report", item |-> i]
      /\ UNCHANGED <<accepting, stage, stageOpen, results, resultsOpen, done, caller,
                     service, accepted, enqueued, reported>>
  BY EngineShape DEF ReleaseBytes
<1> HIDE DEF i
<1>1. engine'.pc = "report" /\ engine'.item = i
  BY <1>0
<1>2. InStage = ToSet(stage) \cup {i} /\ InStage' = ToSet(stage) /\ i \notin ToSet(stage)
  BY <1>0, <1>1, ReleasedNotStaged DEF InStage, i
<1>3. /\ IsFiniteSet(BytesIn(ToSet(stage)))
      /\ Cardinality(BytesIn(ToSet(stage))) = stageBytes - SizeOf[i]
      /\ Cardinality(BytesIn(ToSet(stage))) \in Nat
  BY <1>0, <1>2, BytesRemove DEF Accounting, StageBytesExact
<1>4. stageBytes' = stageBytes - SizeOf[i]
  BY DEF ReleaseBytes, i
<1>5. TypeOK'
  <2>1. stageBytes' \in 0..StageMaxBytes
    BY <1>0, <1>3, <1>4, BytesOfOne, EngineAssumption DEF TypeOK
  <2> QED
    BY <1>0, <2>1 DEF TypeOK
<1>6. Queues'
  BY <1>0, <1>1 DEF Queues, Held, i
<1>7. Accounting'
  <2>1. BytesIn(InStage)' = BytesIn(InStage')
    BY DEF BytesIn, BytesOf
  <2> QED
    BY <1>2, <1>3, <1>4, <2>1 DEF Accounting, StageBytesExact
<1>8. Lifecycle'
  BY <1>0, <1>1 DEF Lifecycle
<1> QED
  BY <1>5, <1>6, <1>7, <1>8

LEMMA SendResultKeeps ==
  ASSUME IInv, SendResult
  PROVE  IInv'
<1> USE DEF IInv
<1> DEFINE i == engine.item
<1>0. /\ engine.pc = "report" /\ i \in Items
      /\ results' = Append(results, i) /\ engine' = Nothing
      /\ Len(results) < StageMaxEvents
      /\ UNCHANGED <<accepting, stageBytes, stage, stageOpen, resultsOpen, done, caller,
                     service, accepted, enqueued, reported>>
  BY EngineShape DEF SendResult
<1> HIDE DEF i
<1>1. engine'.pc = "select" /\ engine' \in [pc : {"select", "returning", "gone"}]
  BY <1>0 DEF Nothing
<1>2. TypeOK'
  <2>1. results' \in Seq(Items) /\ Len(results') <= StageMaxEvents
    BY <1>0, EngineAssumption DEF TypeOK
  <2> QED
    BY <1>0, <1>1, <2>1 DEF TypeOK
<1>3. Queues'
  <2>1. reported \in Seq(Items) /\ results \in Seq(Items) /\ <<i>> \in Seq(Items)
    BY <1>0 DEF TypeOK
  <2>2. Held = <<i>> /\ Held' = <<>>
    BY <1>0, <1>1 DEF Held, i
  <2>3. enqueued = reported \o (results \o <<i>>)
    BY <2>1, <2>2, ConcatAssociative DEF Queues
  <2>4. results' = results \o <<i>>
    BY <1>0, <2>1, AppendIsConcat
  <2>5. reported \o results' \in Seq(Items)
    BY <2>1, <2>4
  <2>6. (reported \o results') \o <<>> = reported \o results'
    BY <2>5, ConcatEmptySeq
  <2> QED
    BY <1>0, <2>2, <2>3, <2>4, <2>6 DEF Queues
<1>4. InStage' = InStage
  BY <1>0, <1>1 DEF InStage
<1>5. Accounting'
  BY <1>0, <1>4 DEF Accounting, StageBytesExact, BytesIn, BytesOf
<1>6. Lifecycle'
  BY <1>0, <1>1 DEF Lifecycle
<1> QED
  BY <1>2, <1>3, <1>5, <1>6

LEMMA TakeResultKeeps ==
  ASSUME IInv, TakeResult
  PROVE  IInv'
<1> USE DEF IInv
<1> DEFINE i == Head(results)
<1>0. /\ results # <<>> /\ results \in Seq(Items) /\ reported \in Seq(Items)
      /\ i \in Items /\ Tail(results) \in Seq(Items) /\ results = <<i>> \o Tail(results)
      /\ results' = Tail(results) /\ reported' = Append(reported, i)
      /\ UNCHANGED <<accepting, stageBytes, stage, stageOpen, resultsOpen, done, engine,
                     caller, service, accepted, enqueued>>
  BY ReceiveSplits DEF TypeOK, TakeResult
<1> HIDE DEF i
<1>1. TypeOK'
  <2>1. Len(Tail(results)) <= StageMaxEvents
    BY <1>0, HeadTailProperties, EngineAssumption DEF TypeOK
  <2>2. reported' \in Seq(Items)
    BY <1>0
  <2> QED
    BY <1>0, <2>1, <2>2 DEF TypeOK
<1>2. Queues'
  <2>1. reported' = reported \o <<i>> /\ <<i>> \in Seq(Items)
    BY <1>0, AppendIsConcat
  <2>2. (reported \o <<i>>) \o Tail(results) = reported \o (<<i>> \o Tail(results))
    BY <1>0, <2>1, ConcatAssociative
  <2>3. Held' = Held
    BY <1>0 DEF Held
  <2> QED
    BY <1>0, <2>1, <2>2, <2>3 DEF Queues
<1>3. InStage' = InStage
  BY <1>0 DEF InStage
<1>4. Accounting'
  BY <1>0, <1>3 DEF Accounting, StageBytesExact, BytesIn, BytesOf
<1>5. Lifecycle'
  BY <1>0 DEF Lifecycle
<1> QED
  BY <1>1, <1>2, <1>4, <1>5

(* Steps that move no delivery: the calls, the closing of channels, the    *)
(* stages of the shutdown.                                                 *)
OtherSteps ==
  \/ \E c \in Callers : TakeOperation(c) \/ CallWrite(c) \/ ReturnFromWrite(c)
  \/ CloseResults \/ CloseDone
  \/ BeginShutdown \/ EngineClosed \/ CloseStore \/ Deadline

LEMMA OthersKeep ==
  ASSUME IInv, OtherSteps
  PROVE  IInv'
<1> USE DEF IInv
<1>0. /\ UNCHANGED <<stageBytes, stage, results, accepted, enqueued, reported>>
      /\ \/ UNCHANGED engine
         \/ engine.pc = "select" /\ engine' = [pc |-> "returning"]
         \/ engine.pc = "returning" /\ engine' = [pc |-> "gone"]
  BY DEF OtherSteps, TakeOperation, CallWrite, ReturnFromWrite, CloseResults, CloseDone,
         BeginShutdown, EngineClosed, CloseStore, Deadline
<1>1. Held' = Held /\ InStage' = InStage
  <2>1. CASE UNCHANGED engine
    BY <1>0, <2>1 DEF Held, InStage
  <2>2. CASE engine' \in [pc : {"returning", "gone"}] /\ engine.pc \in {"select", "returning"}
    <3>1. engine'.pc \in {"returning", "gone"}
      BY <2>2
    <3> QED
      BY <1>0, <2>2, <3>1 DEF Held, InStage
  <2> QED
    BY <1>0, <2>1, <2>2
<1>2. TypeOK'
  <2>1. caller' \in [Callers -> {"idle", "sending", "answered"}]
    BY DEF TypeOK, OtherSteps, TakeOperation, CallWrite, ReturnFromWrite, CloseResults,
           CloseDone, BeginShutdown, EngineClosed, CloseStore, Deadline
  <2>2. /\ accepting' \in BOOLEAN /\ stageOpen' \in BOOLEAN
        /\ resultsOpen' \in BOOLEAN /\ done' \in BOOLEAN
        /\ service' \in {"running", "closing", "draining", "store_closed", "gave_up"}
    BY DEF TypeOK, OtherSteps, TakeOperation, CallWrite, ReturnFromWrite, CloseResults,
           CloseDone, BeginShutdown, EngineClosed, CloseStore, Deadline
  <2>3. engine' \in [pc : {"select", "returning", "gone"}] \cup [pc : {"release", "report"}, item : Items]
    BY <1>0 DEF TypeOK
  <2> QED
    BY <1>0, <2>1, <2>2, <2>3 DEF TypeOK
<1>3. Queues'
  BY <1>0, <1>1 DEF Queues
<1>4. Accounting'
  BY <1>0, <1>1 DEF Accounting, StageBytesExact, BytesIn, BytesOf
<1>5. Lifecycle'
  <2>1. CASE \E c \in Callers : TakeOperation(c) \/ CallWrite(c) \/ ReturnFromWrite(c)
    BY <2>1 DEF Lifecycle, TakeOperation, CallWrite, ReturnFromWrite
  <2>2. CASE CloseResults
    <3>1. engine'.pc = "returning" /\ engine.pc = "select"
      BY <2>2 DEF CloseResults
    <3> QED
      BY <2>2, <3>1 DEF Lifecycle, CloseResults
  <2>3. CASE CloseDone
    <3>1. engine'.pc = "gone" /\ engine.pc = "returning"
      BY <2>3 DEF CloseDone
    <3> QED
      BY <2>3, <3>1 DEF Lifecycle, CloseDone
  <2>4. CASE BeginShutdown
    BY <2>4 DEF Lifecycle, BeginShutdown
  <2>5. CASE EngineClosed
    BY <2>5 DEF Lifecycle, EngineClosed
  <2>6. CASE CloseStore
    BY <2>6 DEF Lifecycle, CloseStore
  <2>7. CASE Deadline
    BY <2>7 DEF Lifecycle, Deadline
  <2> QED
    BY <2>1, <2>2, <2>3, <2>4, <2>5, <2>6, <2>7 DEF OtherSteps
<1> QED
  BY <1>2, <1>3, <1>4, <1>5

LEMMA NextKeeps == IInv /\ [Next]_vars => IInv'
<1> SUFFICES ASSUME IInv, [Next]_vars PROVE IInv'
  OBVIOUS
<1>1. CASE \E i \in Items : TryStage(i)
  BY <1>1, TryStageKeeps
<1>2. CASE TakeStaged
  BY <1>2, TakeStagedKeeps
<1>3. CASE ReleaseBytes
  BY <1>3, ReleaseBytesKeeps
<1>4. CASE SendResult
  BY <1>4, SendResultKeeps
<1>5. CASE ReadResult \/ DrainResult
  BY <1>5, TakeResultKeeps DEF ReadResult, DrainResult
<1>6. CASE OtherSteps
  BY <1>6, OthersKeep
<1>7. CASE UNCHANGED vars
  BY <1>7 DEF vars, IInv, TypeOK, Queues, Held, Accounting, StageBytesExact, BytesIn, BytesOf,
              InStage, Lifecycle
<1> QED
  BY <1>1, <1>2, <1>3, <1>4, <1>5, <1>6, <1>7 DEF Next, EngineStep, OtherSteps

LEMMA EngineInvariant == Spec => []IInv
BY InitIInv, NextKeeps, PTL DEF Spec

-----------------------------------------------------------------------------
(* The theorems.                                                           *)

(* TryStage, write, run, Close and the shutdown keep the engine's counters *)
(* and channels within their types and capacities, whoever runs when.      *)
THEOREM EngineTypeCorrect == Spec => []TypeOK
<1>1. IInv => TypeOK
  BY DEF IInv
<1> QED
  BY <1>1, EngineInvariant, PTL

(* stageBytes, added to in TryStage and subtracted from in run, is at      *)
(* every moment the size of what is queued or being written.               *)
THEOREM StageBytesAlwaysExact == Spec => []StageBytesExact
<1>1. IInv => StageBytesExact
  BY DEF IInv, Accounting
<1> QED
  BY <1>1, EngineInvariant, PTL

(* run writes what TryStage accepted in the order of acceptance; nothing   *)
(* is lost or doubled between the channels.                                *)
THEOREM AlwaysAcceptedInOrder == Spec => []AcceptedInOrder
<1>1. IInv => AcceptedInOrder
  BY DEF IInv, Queues, AcceptedInOrder
<1> QED
  BY <1>1, EngineInvariant, PTL

(* shutdownNormalizedOutbox closes the store only when every accepted      *)
(* delivery has been written, its result read, and the engine is gone.     *)
THEOREM StoreClosedDrained == Spec => []StoreClosedAfterDrain
<1>1. IInv => StoreClosedAfterDrain
  <2> SUFFICES ASSUME IInv, service = "store_closed" PROVE accepted = reported /\ engine.pc = "gone" /\ ~accepting
    BY DEF StoreClosedAfterDrain
  <2>1. engine.pc = "gone" /\ ~accepting /\ stage = <<>> /\ results = <<>> /\ Held = <<>>
    BY DEF IInv, Lifecycle, Held
  <2>2. reported \in Seq(Items) /\ enqueued \in Seq(Items)
    BY DEF IInv, TypeOK
  <2> QED
    BY <2>1, <2>2, ConcatEmptySeq DEF IInv, Queues
<1> QED
  BY <1>1, EngineInvariant, PTL
=============================================================================
