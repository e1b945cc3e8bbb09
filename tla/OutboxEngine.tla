---------------------------- MODULE OutboxEngine ----------------------------
(***************************************************************************)
(* The single writer of the outbox, src/internal/outbox/engine.go, with    *)
(* the goroutines around it: stagers that call TryStage, goroutines that   *)
(* call the Engine's methods (all of them go through write), the Run loop, *)
(* which does both and is also the only reader of the results channel, and *)
(* the shutdown of src/internal/runtime/service.go.                        *)
(*                                                                         *)
(* The store is abstracted to the order in which staged deliveries reach   *)
(* it: OutboxStore says what each operation does.  The prune tick changes  *)
(* nothing here.                                                           *)
(***************************************************************************)
EXTENDS Integers, Sequences, FiniteSets, SequencesExt

CONSTANTS
  Items,            \* deliveries that may be staged
  SizeOf,           \* their encoded sizes
  Callers,          \* goroutines that call write
  RunLoop,          \* the one of them that reads the results
  StageMaxEvents,   \* capacity of the channels stage and results
  StageMaxBytes     \* EngineConfig.StageMaxBytes

ASSUME EngineAssumption ==
  /\ IsFiniteSet(Items)
  /\ SizeOf \in [Items -> Nat \ {0}]
  /\ RunLoop \in Callers
  /\ StageMaxEvents \in Nat \ {0}
  /\ StageMaxBytes \in Nat

VARIABLES
  accepting,   \* Engine.accepting
  stageBytes,  \* Engine.stageBytes
  stage,       \* channel stage
  stageOpen,   \* it has not been closed
  results,     \* channel results
  resultsOpen, \* it has not been closed
  done,        \* channel done has been closed
  engine,      \* program counter of run, and its item
  caller,      \* program counter of each goroutine in write
  service,     \* the Run loop: "running", then the steps of the shutdown
  accepted,    \* the deliveries TryStage took, in order
  enqueued,    \* the deliveries Store.Enqueue was called with, in order
  reported     \* the results the receiver has read, in order

vars == <<accepting, stageBytes, stage, stageOpen, results, resultsOpen, done,
          engine, caller, service, accepted, enqueued, reported>>

Nothing == [pc |-> "select"]

Init ==
  /\ accepting = TRUE
  /\ stageBytes = 0
  /\ stage = <<>> /\ stageOpen = TRUE
  /\ results = <<>> /\ resultsOpen = TRUE
  /\ done = FALSE
  /\ engine = Nothing
  /\ caller = [c \in Callers |-> "idle"]
  /\ service = "running"
  /\ accepted = <<>> /\ enqueued = <<>> /\ reported = <<>>

-----------------------------------------------------------------------------
(* TryStage holds the mutex throughout; a refusal changes nothing.         *)
TryStage(i) ==
  /\ i \notin ToSet(accepted)
  /\ accepting
  /\ Len(stage) < StageMaxEvents
  /\ stageBytes + SizeOf[i] <= StageMaxBytes
  /\ stage' = Append(stage, i)
  /\ stageBytes' = stageBytes + SizeOf[i]
  /\ accepted' = Append(accepted, i)
  /\ UNCHANGED <<accepting, stageOpen, results, resultsOpen, done, engine, caller,
                 service, enqueued, reported>>

(* run: a staged delivery is written, its bytes are released under the     *)
(* mutex, and only then is its result sent; the send blocks while results  *)
(* is full.                                                                *)
TakeStaged ==
  /\ engine.pc = "select"
  /\ stage # <<>>
  /\ stage' = Tail(stage)
  /\ enqueued' = Append(enqueued, Head(stage))
  /\ engine' = [pc |-> "release", item |-> Head(stage)]
  /\ UNCHANGED <<accepting, stageBytes, stageOpen, results, resultsOpen, done, caller,
                 service, accepted, reported>>

(* Mutation: the bytes are never released.                                 *)
ReleaseBytes_Never ==
  /\ engine.pc = "release"
  /\ engine' = [engine EXCEPT !.pc = "report"]
  /\ UNCHANGED <<accepting, stageBytes, stage, stageOpen, results, resultsOpen, done, caller,
                 service, accepted, enqueued, reported>>

ReleaseBytes ==
  /\ engine.pc = "release"
  /\ stageBytes' = stageBytes - SizeOf[engine.item]
  /\ engine' = [engine EXCEPT !.pc = "report"]
  /\ UNCHANGED <<accepting, stage, stageOpen, results, resultsOpen, done, caller,
                 service, accepted, enqueued, reported>>

SendResult ==
  /\ engine.pc = "report"
  /\ Len(results) < StageMaxEvents
  /\ results' = Append(results, engine.item)
  /\ engine' = Nothing
  /\ UNCHANGED <<accepting, stageBytes, stage, stageOpen, resultsOpen, done, caller,
                 service, accepted, enqueued, reported>>

(* The operations channel is unbuffered: the engine takes the operation    *)
(* from a waiting caller, runs it, and leaves the answer in the caller's   *)
(* own buffered channel.                                                   *)
TakeOperation(c) ==
  /\ engine.pc = "select"
  /\ caller[c] = "sending"
  /\ caller' = [caller EXCEPT ![c] = "answered"]
  /\ UNCHANGED <<accepting, stageBytes, stage, stageOpen, results, resultsOpen, done,
                 engine, service, accepted, enqueued, reported>>

(* The stage channel is closed and empty: the deferred calls close results *)
(* first, done last.                                                       *)
CloseResults ==
  /\ engine.pc = "select"
  /\ stage = <<>> /\ ~stageOpen
  /\ resultsOpen' = FALSE
  /\ engine' = [pc |-> "returning"]
  /\ UNCHANGED <<accepting, stageBytes, stage, stageOpen, results, done, caller,
                 service, accepted, enqueued, reported>>

CloseDone ==
  /\ engine.pc = "returning"
  /\ done' = TRUE
  /\ engine' = [pc |-> "gone"]
  /\ UNCHANGED <<accepting, stageBytes, stage, stageOpen, results, resultsOpen, caller,
                 service, accepted, enqueued, reported>>

EngineStep ==
  \/ TakeStaged \/ ReleaseBytes \/ SendResult \/ CloseResults \/ CloseDone
  \/ \E c \in Callers : TakeOperation(c)

-----------------------------------------------------------------------------
(* write: accepting is read under the mutex, which is then released.       *)
CallWrite(c) ==
  /\ caller[c] = "idle"
  /\ c = RunLoop => service = "running"
  /\ accepting
  /\ caller' = [caller EXCEPT ![c] = "sending"]
  /\ UNCHANGED <<accepting, stageBytes, stage, stageOpen, results, resultsOpen, done,
                 engine, service, accepted, enqueued, reported>>

(* With done closed, write returns ErrEngineClosed, from either select:    *)
(* after an operation ran, its answer and done may both be ready.          *)
(* Mutation: the first select does not watch done.                         *)
ReturnFromWrite_Answered(c) ==
  /\ caller[c] = "answered"
  /\ caller' = [caller EXCEPT ![c] = "idle"]
  /\ UNCHANGED <<accepting, stageBytes, stage, stageOpen, results, resultsOpen, done,
                 engine, service, accepted, enqueued, reported>>

ReturnFromWrite(c) ==
  /\ caller[c] = "answered" \/ (caller[c] = "sending" /\ done)
  /\ caller' = [caller EXCEPT ![c] = "idle"]
  /\ UNCHANGED <<accepting, stageBytes, stage, stageOpen, results, resultsOpen, done,
                 engine, service, accepted, enqueued, reported>>

(* onOutboxStageResult, in the Run loop's select.                          *)
TakeResult ==
  /\ results # <<>>
  /\ results' = Tail(results)
  /\ reported' = Append(reported, Head(results))
  /\ UNCHANGED <<accepting, stageBytes, stage, stageOpen, resultsOpen, done, engine,
                 caller, service, accepted, enqueued>>

ReadResult ==
  /\ service = "running" /\ caller[RunLoop] = "idle"
  /\ TakeResult

-----------------------------------------------------------------------------
(* shutdownNormalizedOutbox: a goroutine drains results while Close stops  *)
(* the intake and waits for the engine; then the drain must end; then the  *)
(* store is closed.  A shared deadline may cut either wait short.          *)
BeginShutdown ==
  /\ service = "running" /\ caller[RunLoop] = "idle"
  /\ service' = "closing"
  /\ accepting' = FALSE
  /\ stageOpen' = FALSE
  /\ UNCHANGED <<stageBytes, stage, results, resultsOpen, done, engine, caller,
                 accepted, enqueued, reported>>

(* Mutation: nobody reads the results during the shutdown.                 *)
DrainResult_None == FALSE /\ UNCHANGED vars

DrainResult ==
  /\ service # "running"
  /\ TakeResult

EngineClosed ==
  /\ service = "closing"
  /\ done
  /\ service' = "draining"
  /\ UNCHANGED <<accepting, stageBytes, stage, stageOpen, results, resultsOpen, done,
                 engine, caller, accepted, enqueued, reported>>

CloseStore ==
  /\ service = "draining"
  /\ results = <<>> /\ ~resultsOpen
  /\ service' = "store_closed"
  /\ UNCHANGED <<accepting, stageBytes, stage, stageOpen, results, resultsOpen, done,
                 engine, caller, accepted, enqueued, reported>>

Deadline ==
  /\ service \in {"closing", "draining"}
  /\ service' = "gave_up"
  /\ UNCHANGED <<accepting, stageBytes, stage, stageOpen, results, resultsOpen, done,
                 engine, caller, accepted, enqueued, reported>>

Next ==
  \/ \E i \in Items : TryStage(i)
  \/ EngineStep
  \/ \E c \in Callers : CallWrite(c) \/ ReturnFromWrite(c)
  \/ ReadResult
  \/ BeginShutdown \/ DrainResult \/ EngineClosed \/ CloseStore \/ Deadline

Spec == Init /\ [][Next]_vars

(* Every goroutine that can take a step eventually does; the shutdown      *)
(* itself and its deadline are not forced.                                 *)
FairSpec ==
  /\ Spec
  /\ WF_vars(TakeStaged \/ CloseResults)
  /\ WF_vars(ReleaseBytes) /\ WF_vars(SendResult) /\ WF_vars(CloseDone)
  /\ SF_vars(ReadResult)
  /\ WF_vars(DrainResult)
  /\ WF_vars(EngineClosed) /\ WF_vars(CloseStore)
  /\ \A c \in Callers : SF_vars(TakeOperation(c)) /\ WF_vars(ReturnFromWrite(c))

-----------------------------------------------------------------------------
TypeOK ==
  /\ accepting \in BOOLEAN /\ stageOpen \in BOOLEAN
  /\ resultsOpen \in BOOLEAN /\ done \in BOOLEAN
  /\ stageBytes \in 0..StageMaxBytes
  /\ stage \in Seq(Items) /\ Len(stage) <= StageMaxEvents
  /\ results \in Seq(Items) /\ Len(results) <= StageMaxEvents
  /\ engine \in [pc : {"select", "returning", "gone"}] \cup [pc : {"release", "report"}, item : Items]
  /\ caller \in [Callers -> {"idle", "sending", "answered"}]
  /\ service \in {"running", "closing", "draining", "store_closed", "gave_up"}
  /\ accepted \in Seq(Items) /\ enqueued \in Seq(Items) /\ reported \in Seq(Items)

(* stageBytes is added to by the stagers and subtracted from by the        *)
(* engine, in separate critical sections; it is exactly the size of what   *)
(* is queued or being written, so the byte bound neither leaks shut nor    *)
(* admits too much.  The size is counted: one element for each byte.       *)
InStage == ToSet(stage) \cup (IF engine.pc = "release" THEN {engine.item} ELSE {})
BytesOf(i) == {i} \X (1..SizeOf[i])
BytesIn(S) == UNION {BytesOf(i) : i \in S}
StageBytesExact == stageBytes = Cardinality(BytesIn(InStage))

(* What is accepted is written in the order of acceptance, and nothing is  *)
(* lost between the channels: acceptances are the writes followed by the   *)
(* queue.                                                                  *)
AcceptedInOrder == accepted = enqueued \o stage

(* Close drains (TestEngineCloseDrainsAcceptedStageEntries): when the      *)
(* store is closed every accepted delivery has been written and its result *)
(* read, and no goroutine can still reach the store through the engine.    *)
StoreClosedAfterDrain ==
  service = "store_closed" =>
    accepted = reported /\ engine.pc = "gone" /\ ~accepting

(* The Run loop waits for the engine and the engine for the Run loop, the  *)
(* only reader of a full results channel.                                  *)
Wedged ==
  /\ caller[RunLoop] = "sending"
  /\ engine.pc = "report"
  /\ Len(results) = StageMaxEvents

(* Every call of an Engine method returns, for any goroutine, during a     *)
(* shutdown too; the one exception is the wedge above.                     *)
WriteReturns ==
  \A c \in Callers : caller[c] = "sending" ~> caller[c] = "idle" \/ Wedged

(* A shutdown ends with the store closed, or at its deadline; the callers  *)
(* and the stage it interrupts do not hold it up.                          *)
ShutdownCompletes == service = "closing" ~> service \in {"store_closed", "gave_up"}
=============================================================================
