------------------------------ MODULE Dispatch ------------------------------
(***************************************************************************)
(* Normalized-event delivery in a running receiver: the outbox of          *)
(* OutboxStore composed with the goroutines that use it.                   *)
(*                                                                         *)
(*  - stagers: the Run loop's adapter handler and the tracking controller  *)
(*    (onMeshCoreEvent, stageMeshCoreTelemetry) hand deliveries to         *)
(*    Engine.TryStage;                                                     *)
(*  - the engine goroutine writes a staged delivery or runs one queued     *)
(*    operation at a time, so each call of an Engine method is one step;   *)
(*  - the Run loop: processNormalizedDispatch with Dispatcher.DispatchOnce,*)
(*    the pairing ticks, and the answer to a receiver lifecycle error;     *)
(*  - the portal: pairing-code submission, local reset, deauthorization    *)
(*    (with the installation rotation they perform) and the resolution of  *)
(*    a delivery collision;                                                *)
(*  - crash and restart at any point.                                      *)
(*                                                                         *)
(* Left to other modules: two rotations at once, the network calls inside  *)
(* pairing, the engine's channels.                                         *)
(***************************************************************************)
EXTENDS OutboxStore, Sequences

CONSTANTS
  StageMaxEvents,   \* EngineConfig.StageMaxEvents
  MaxBatch,         \* maxIngestBatchTick
  MaxRetryDelay,    \* bound: retry delays are 1..MaxRetryDelay
  Outcomes,         \* the answers of the cloud that are explored
  Events            \* the portal, lifecycle and crash events that are explored

ASSUME DispatchAssumption ==
  /\ StageMaxEvents \in Nat \ {0} /\ MaxBatch \in Nat \ {0}
  /\ MaxRetryDelay \in Nat \ {0}
  /\ Outcomes \subseteq {"ack", "retry", "quarantine", "collision", "credential", "binding"}
  /\ Events \subseteq {"re_pair", "deauthorize", "local_reset", "revoked", "heartbeat", "resolve", "crash"}

VARIABLES
  stage,      \* Engine.stage
  minted,     \* ids NewUUIDv7 has returned
  receiver,   \* what state.Data holds of the receiver's identity
  disp,       \* locals of processNormalizedDispatch and DispatchOnce
  rotation,   \* locals of the rotation a portal request or startup performs
  up          \* the process: "down", "starting" or "running"

dispatchVars == <<stage, minted, receiver, disp, rotation, up>>
allVars == <<vars, dispatchVars>>

PairingPhases == {"unpaired", "code_entered", "activated", "steady_state"}

(* principal is NoRecord while there is no API key.  Owner and receiver id *)
(* go with the key, but a late heartbeat answer may put those of a former  *)
(* principal back without it: stray.                                       *)
Receiver == [installation : Installations,
             principal    : Principals \cup {NoRecord},
             stray        : Principals \cup {NoRecord},
             bound        : BOOLEAN,
             phase        : PairingPhases,
             credGen      : Generations,
             bindGen      : Generations]

Idle == [pc |-> "idle"]

-----------------------------------------------------------------------------
(* state.Data: credentials, binding, generations.                          *)

(* normalizedBinding: steady state, credentials and a complete binding.    *)
BindingReady == receiver.phase = "steady_state" /\ receiver.principal # NoRecord

(* Owner and receiver id in the state are those of p.                      *)
Names(p) ==
  LET q == IF receiver.principal # NoRecord THEN receiver.principal ELSE receiver.stray
  IN q # NoRecord /\ q.owner = p.owner /\ q.agent = p.agent

(* normalizeGenerations for an activation: a new key and a new triple each *)
(* advance their generation.  Clearing them does not.                      *)
Activated(p) ==
  [receiver EXCEPT !.principal = p, !.stray = NoRecord, !.bound = TRUE, !.phase = "activated",
                   !.credGen = @ + 1, !.bindGen = @ + (IF Names(p) THEN 0 ELSE 1)]

Cleared == [receiver EXCEPT !.principal = NoRecord, !.stray = NoRecord, !.phase = "unpaired"]

InitDispatch ==
  /\ Init
  /\ stage = <<>>
  /\ minted = {}
  /\ \E p \in Principals :
       receiver = [installation |-> p.installation, principal |-> p, stray |-> NoRecord,
                   bound |-> TRUE, phase |-> "steady_state", credGen |-> 0, bindGen |-> 0]
  /\ disp = Idle
  /\ rotation = Idle
  /\ up = "running"

Running == up = "running"

-----------------------------------------------------------------------------
(* Staging.  The binding is the state snapshot's at the time of the event; *)
(* the delivery becomes durable only when the engine writes it.            *)

Stage(d) ==
  /\ Running
  /\ BindingReady
  /\ d \notin minted
  /\ Len(stage) < StageMaxEvents
  /\ minted' = minted \cup {d}
  /\ stage' = Append(stage, [id |-> d, principal |-> receiver.principal, at |-> clock])
  /\ UNCHANGED <<vars, receiver, disp, rotation, up>>

(* A failed write is logged and the observation dropped.                   *)
WriteStaged ==
  /\ up # "down"
  /\ stage # <<>>
  /\ LET item == Head(stage)
     IN \E err \in Errors : Enqueue(item.id, item.principal, item.at, err)
  /\ stage' = Tail(stage)
  /\ UNCHANGED <<clock, minted, receiver, disp, rotation, up>>

PruneTick ==
  /\ up # "down"
  /\ PruneQuarantine
  /\ UNCHANGED <<clock, dispatchVars>>

-----------------------------------------------------------------------------
(* processNormalizedDispatch: one snapshot of key and binding serves the   *)
(* whole batch; every attempt takes its own time.                          *)

BeginBatch ==
  /\ Running
  /\ disp = Idle
  /\ BindingReady
  /\ disp' = [pc |-> "clear", principal |-> receiver.principal,
              credGen |-> receiver.credGen, bindGen |-> receiver.bindGen,
              left |-> MaxBatch, now |-> clock]
  /\ UNCHANGED <<vars, stage, minted, receiver, rotation, up>>

AtPc(pc) == Running /\ disp.pc = pc

GoTo(pc) == disp' = [disp EXCEPT !.pc = pc]

(* DispatchOnce, step by step: other goroutines run between any two.       *)
(* Mutations: the pause is never cleared; the pause is not looked at.      *)
ClearPause_Skipped ==
  /\ AtPc("clear")
  /\ GoTo("check")
  /\ UNCHANGED <<vars, stage, minted, receiver, rotation, up>>

CheckPause_Skipped ==
  /\ AtPc("check")
  /\ GoTo("reconcile")
  /\ UNCHANGED <<vars, stage, minted, receiver, rotation, up>>

ClearPause ==
  /\ AtPc("clear")
  /\ ClearResolvedPause(disp.credGen, disp.bindGen)
  /\ GoTo("check")
  /\ UNCHANGED <<clock, stage, minted, receiver, rotation, up>>

CheckPause ==
  /\ AtPc("check")
  /\ IF pause = NoRecord THEN GoTo("reconcile") ELSE disp' = Idle
  /\ UNCHANGED <<vars, stage, minted, receiver, rotation, up>>

Reconcile ==
  /\ AtPc("reconcile")
  /\ \E err \in Errors :
       /\ ReconcileBinding(disp.principal, err)
       /\ IF err = "nil" THEN GoTo("next") ELSE disp' = Idle
  /\ UNCHANGED <<clock, stage, minted, receiver, rotation, up>>

(* NextDue returns a copy of the record.                                   *)
PickDue ==
  /\ AtPc("next")
  /\ \/ /\ \A k \in due : ~FirstDue(k, disp.now)
        /\ disp' = Idle
     \/ \E k \in due :
        /\ FirstDue(k, disp.now)
        /\ disp' = [pc |-> "mark", principal |-> disp.principal, credGen |-> disp.credGen,
                    bindGen |-> disp.bindGen, left |-> disp.left, now |-> disp.now,
                    id |-> k.id, sentAs |-> deliveries[k.id].principal]
  /\ UNCHANGED <<vars, stage, minted, receiver, rotation, up>>

Mark ==
  /\ AtPc("mark")
  /\ \E err \in Errors :
       /\ MarkInflight(disp.id, err)
       /\ IF err = "nil" THEN GoTo("post") ELSE disp' = Idle
  /\ UNCHANGED <<clock, stage, minted, receiver, rotation, up>>

(* PostNormalizedEvent has been sent with the snapshot's key; the answer,  *)
(* or the lack of one, is one of Outcomes (Classify).                      *)
Answer(outcome) ==
  /\ AtPc("post")
  /\ outcome \in Outcomes
  /\ GoTo(outcome)
  /\ UNCHANGED <<vars, stage, minted, receiver, rotation, up>>

(* The batch goes on after an acknowledged or a quarantined delivery.      *)
Continue ==
  disp' = IF disp.left > 1
          THEN [pc |-> "clear", principal |-> disp.principal, credGen |-> disp.credGen,
                bindGen |-> disp.bindGen, left |-> disp.left - 1, now |-> clock]
          ELSE Idle

Acknowledge ==
  /\ AtPc("ack")
  /\ \E err \in Errors :
       /\ Delete(disp.id, err)
       /\ IF err = "nil" THEN Continue ELSE disp' = Idle
  /\ UNCHANGED <<clock, stage, minted, receiver, rotation, up>>

PauseOn(kind) ==
  /\ AtPc(kind)
  /\ \E err \in Errors : PauseDelivery(disp.id, kind, disp.credGen, disp.bindGen, err)
  /\ disp' = Idle
  /\ UNCHANGED <<clock, stage, minted, receiver, rotation, up>>

SetAside ==
  /\ AtPc("quarantine")
  /\ \E err \in Errors :
       /\ Quarantine(disp.id, err)
       /\ IF err = "nil" THEN Continue ELSE disp' = Idle
  /\ UNCHANGED <<clock, stage, minted, receiver, rotation, up>>

(* The delay counts from the start of the attempt; times beyond the        *)
(* horizon of the model are cut to it.                                     *)
Earlier(s, t) == IF s < t THEN s ELSE t

RetryLater ==
  /\ AtPc("retry")
  /\ \E delay \in 1..MaxRetryDelay, err \in Errors :
       Retry(disp.id, Earlier(disp.now + delay, MaxTime), err)
  /\ disp' = Idle
  /\ UNCHANGED <<clock, stage, minted, receiver, rotation, up>>

DispatchStep ==
  \/ ClearPause \/ CheckPause \/ Reconcile \/ PickDue \/ Mark
  \/ Acknowledge \/ SetAside \/ RetryLater
  \/ \E kind \in {"collision", "credential", "binding"} : PauseOn(kind)

-----------------------------------------------------------------------------
(* Run loop ticks while no batch runs.                                     *)

(* A heartbeat is sent while the credentials are ready.                    *)
Heartbeat ==
  /\ Running
  /\ disp = Idle
  /\ Events \cap {"revoked", "heartbeat"} # {}
  /\ BindingReady
  /\ disp' = [pc |-> "heartbeat", principal |-> receiver.principal]
  /\ UNCHANGED <<vars, stage, minted, receiver, rotation, up>>

(* The answer names receiver and owner, and they are written into the      *)
(* state as it is then: what they were, or after a rotation or a           *)
(* deauthorization an identity without its key.  No answer: no change.     *)
HeartbeatAnswered ==
  /\ AtPc("heartbeat")
  /\ disp' = Idle
  /\ \/ UNCHANGED receiver
     \/ /\ "heartbeat" \in Events
        /\ receiver.principal = NoRecord
        /\ receiver.bindGen < MaxGeneration
        /\ receiver' = [receiver EXCEPT !.stray = disp.principal, !.bindGen = @ + 1]
  /\ UNCHANGED <<vars, stage, minted, rotation, up>>

(* handleLifecycleCloudError for a revoked or disabled receiver: the       *)
(* deliveries of the receiver the state names are set aside, then          *)
(* ApplyLifecycleChange clears the credentials.  A quarantine that fails   *)
(* ends the handler.                                                       *)
LifecycleQuarantine ==
  /\ AtPc("heartbeat")
  /\ "revoked" \in Events
  /\ \/ /\ receiver.principal = NoRecord
        /\ disp' = [pc |-> "lifecycle"]
        /\ UNCHANGED storeVars
     \/ /\ receiver.principal # NoRecord
        /\ \E err \in Errors :
             /\ QuarantineByReceiver(receiver.principal.agent, err)
             /\ disp' = IF err = "nil" THEN [pc |-> "lifecycle"] ELSE Idle
  /\ UNCHANGED <<clock, stage, minted, receiver, rotation, up>>

LifecycleApply ==
  /\ AtPc("lifecycle")
  /\ receiver' = Cleared
  /\ disp' = Idle
  /\ UNCHANGED <<vars, stage, minted, rotation, up>>

(* Manager.Process on its ticks: the code is exchanged and the receiver    *)
(* activated for the installation it has now, then promoted.               *)
Activate ==
  /\ Running
  /\ disp = Idle
  /\ receiver.phase = "code_entered"
  /\ receiver.credGen < MaxGeneration /\ receiver.bindGen < MaxGeneration
  /\ \E p \in Principals :
       /\ p.installation = receiver.installation
       /\ receiver' = Activated(p)
  /\ UNCHANGED <<vars, stage, minted, disp, rotation, up>>

Promote ==
  /\ Running
  /\ disp = Idle
  /\ receiver.phase = "activated"
  /\ receiver.principal # NoRecord
  /\ receiver' = [receiver EXCEPT !.phase = "steady_state"]
  /\ UNCHANGED <<vars, stage, minted, disp, rotation, up>>

-----------------------------------------------------------------------------
(* Portal requests.                                                        *)

ResolveCollision(d) ==
  /\ Running
  /\ "resolve" \in Events
  /\ \E err \in Errors : ResolveDeliveryCollision(d, err)
  /\ UNCHANGED <<clock, dispatchVars>>

LocalReset ==
  /\ Running
  /\ "local_reset" \in Events
  /\ receiver' = [receiver EXCEPT !.phase = "unpaired"]
  /\ UNCHANGED <<vars, stage, minted, disp, rotation, up>>

(* SubmitPairingCode, ResetPairing(true): a bound installation is rotated  *)
(* first.  An unfinished rotation is continued, not begun again.           *)
BeginRequest(goal) ==
  /\ Running
  /\ goal \in Events \cap {"re_pair", "deauthorize"}
  /\ rotation = Idle
  /\ IF ~receiver.bound
     THEN rotation' = [pc |-> "finish", goal |-> goal]
     ELSE IF journal # NoRecord /\ journal.phase # "completed"
     THEN rotation' = [pc |-> "recover", goal |-> goal]
     ELSE \E new \in Installations :
            /\ journal # NoRecord => new \notin {journal.old, journal.new}
            /\ new # receiver.installation
            /\ rotation' = [pc |-> "begin", goal |-> goal, old |-> receiver.installation,
                            new |-> new]
  /\ UNCHANGED <<vars, stage, minted, receiver, disp, up>>

BeginRotation ==
  /\ up # "down"
  /\ rotation.pc = "begin"
  /\ BeginInstallationRotation(rotation.old, rotation.new)
  /\ rotation' = [pc |-> "recover", goal |-> rotation.goal]
  /\ UNCHANGED <<clock, stage, minted, receiver, disp, up>>

(* installationRotator.recover, one durable write per step.  The journal   *)
(* the code carries along is the stored one: nobody else advances it.      *)
InPhase(phase) ==
  up # "down" /\ rotation.pc = "recover" /\ journal # NoRecord /\ journal.phase = phase

RotateQuarantine ==
  /\ InPhase("intent")
  /\ \E err \in Errors :
       /\ QuarantineInstallationRotation(err)
       /\ rotation' = IF err = "nil" THEN rotation ELSE Idle
       /\ up' = IF err = "nil" \/ up = "running" THEN up ELSE "down"
  /\ UNCHANGED <<clock, stage, minted, receiver, disp>>

RotateState ==
  /\ InPhase("old_binding_quarantined")
  /\ receiver.installation = journal.old
  /\ receiver' = [Cleared EXCEPT !.installation = journal.new, !.bound = FALSE]
  /\ rotation' = [pc |-> "record", goal |-> rotation.goal]
  /\ UNCHANGED <<vars, stage, minted, disp, up>>

(* validateRotatedState, for a state the process found and did not write   *)
(* itself: nothing of the old cloud binding is left.                       *)
ValidRotated ==
  /\ receiver.installation = journal.new
  /\ ~receiver.bound /\ receiver.principal = NoRecord /\ receiver.stray = NoRecord

(* Mutation: the phase is recorded before the state file is written.       *)
RotateRecord_First ==
  /\ InPhase("old_binding_quarantined")
  /\ \E err \in Errors :
       AdvanceInstallationRotation("old_binding_quarantined", "state_rotated", err)
  /\ UNCHANGED <<clock, dispatchVars>>

RotateRecord ==
  /\ \/ up # "down" /\ rotation.pc = "record"
     \/ InPhase("old_binding_quarantined") /\ ValidRotated
  /\ \E err \in Errors :
       AdvanceInstallationRotation("old_binding_quarantined", "state_rotated", err)
  /\ rotation' = [pc |-> "recover", goal |-> rotation.goal]
  /\ UNCHANGED <<clock, stage, minted, receiver, disp, up>>

(* Any other state is refused: the request fails, or the start does.       *)
RotateRefused ==
  /\ InPhase("old_binding_quarantined")
  /\ receiver.installation # journal.old /\ ~ValidRotated
  /\ rotation' = Idle
  /\ up' = IF up = "running" THEN up ELSE "down"
  /\ UNCHANGED <<vars, stage, minted, receiver, disp>>

RotateComplete ==
  /\ InPhase("state_rotated")
  /\ \E err \in Errors : AdvanceInstallationRotation("state_rotated", "completed", err)
  /\ rotation' = [pc |-> "finish", goal |-> rotation.goal]
  /\ UNCHANGED <<clock, stage, minted, receiver, disp, up>>

(* The state update that ends the request, or startup handing over to Run. *)
FinishRequest ==
  /\ up # "down"
  /\ rotation.pc = "finish"
  /\ rotation' = Idle
  /\ \/ rotation.goal = "re_pair" /\ receiver' = [receiver EXCEPT !.phase = "code_entered"]
     \/ rotation.goal = "deauthorize" /\ receiver' = Cleared
     \/ rotation.goal = "startup" /\ UNCHANGED receiver
  /\ up' = "running"
  /\ UNCHANGED <<vars, stage, minted, disp>>

-----------------------------------------------------------------------------
(* Crash: memory is lost, both files stay.  New opens the outbox and       *)
(* completes the rotation before anything runs; a completed rotation that  *)
(* disagrees with the state file stops the start.                          *)

Crash ==
  /\ "crash" \in Events
  /\ up # "down"
  /\ up' = "down"
  /\ stage' = <<>>
  /\ disp' = Idle
  /\ rotation' = Idle
  /\ UNCHANGED <<vars, minted, receiver>>

Start ==
  /\ up = "down"
  /\ Open
  /\ up' = "starting"
  /\ \/ /\ journal = NoRecord
        /\ rotation' = [pc |-> "finish", goal |-> "startup"]
     \/ /\ journal # NoRecord /\ journal.phase # "completed"
        /\ rotation' = [pc |-> "recover", goal |-> "startup"]
     \/ /\ journal # NoRecord /\ journal.phase = "completed"
        /\ receiver.installation = journal.new
        /\ rotation' = [pc |-> "finish", goal |-> "startup"]
  /\ UNCHANGED <<clock, stage, minted, receiver, disp>>

TickClock ==
  /\ clock < MaxTime
  /\ clock' = clock + 1
  /\ UNCHANGED <<storeVars, dispatchVars>>

-----------------------------------------------------------------------------
EngineStep == WriteStaged \/ PruneTick

RunLoopStep ==
  \/ BeginBatch \/ DispatchStep
  \/ Heartbeat \/ HeartbeatAnswered \/ LifecycleQuarantine \/ LifecycleApply
  \/ Activate \/ Promote

RotationStep ==
  \/ BeginRotation \/ RotateQuarantine \/ RotateState \/ RotateRecord
  \/ RotateRefused \/ RotateComplete \/ FinishRequest

NextDispatch ==
  \/ EngineStep \/ RunLoopStep \/ RotationStep
  \/ \E d \in DeliveryIds : Stage(d) \/ ResolveCollision(d)
  \/ \E outcome \in Outcomes : Answer(outcome)
  \/ LocalReset
  \/ \E goal \in {"re_pair", "deauthorize"} : BeginRequest(goal)
  \/ Crash \/ Start \/ TickClock

SpecDispatch == InitDispatch /\ [][NextDispatch]_allVars

-----------------------------------------------------------------------------
Sending == disp.pc \in {"post"} \cup Outcomes

StagedDelivery == [id : DeliveryIds, principal : Principals, at : Times]

Goals == {"re_pair", "deauthorize", "startup"}

(* The locals of a batch between two deliveries, and of one attempt.       *)
Batches == [pc : {"clear", "check", "reconcile", "next"},
            principal : Principals, credGen : Generations, bindGen : Generations,
            left : 1..MaxBatch, now : Times]

Attempts == [pc : {"mark", "post", "ack", "retry", "quarantine", "collision", "credential", "binding"},
             principal : Principals, credGen : Generations, bindGen : Generations,
             left : 1..MaxBatch, now : Times, id : DeliveryIds, sentAs : Principals]

(* Types of the variables this module adds.                                *)
TypeDispatchOK ==
  /\ stage \in Seq(StagedDelivery) /\ Len(stage) <= StageMaxEvents
  /\ minted \subseteq DeliveryIds
  /\ receiver \in Receiver
  /\ receiver.principal # NoRecord => receiver.principal.installation = receiver.installation
  /\ \/ disp \in {Idle, [pc |-> "lifecycle"]}
     \/ disp \in [pc : {"heartbeat"}, principal : Principals]
     \/ disp \in Batches
     \/ disp \in Attempts
  /\ \/ rotation = Idle
     \/ rotation \in [pc : {"recover", "record", "finish"}, goal : Goals]
     \/ rotation \in [pc : {"begin"}, goal : Goals, old : Installations, new : Installations]
  /\ up \in {"down", "starting", "running"}

(* Between DispatchOnce's pause check and the end of the attempt no pause  *)
(* is in force, although the check and the attempt are separate            *)
(* transactions: nothing is sent under a pause.                            *)
NoSendWhilePaused ==
  disp.pc \in {"reconcile", "next", "mark"} \/ Sending => pause = NoRecord

(* While a POST is unanswered or its answer not yet recorded, the exact    *)
(* bytes are on disk, inflight or set aside, whatever the portal, a        *)
(* rotation or a lifecycle change did meanwhile.                           *)
UnackedEvidenceKept ==
  Sending => \/ /\ disp.id \in Stored(deliveries)
                /\ deliveries[disp.id].state = "inflight"
             \/ disp.id \in Stored(quarantine)

(* Outside an attempt every stored delivery is pending, hence in the due   *)
(* index and retryable.  An inflight record is never picked again before   *)
(* a restart, so one that outlives its attempt is stuck.                   *)
InflightOnlyWhileSending ==
  \A d \in Stored(deliveries) :
    deliveries[d].state = "inflight" => up # "running" \/ (Sending /\ disp.id = d)

(* The journal and the state file, two files written in turn, agree at     *)
(* every point a crash can leave them on the installation the receiver     *)
(* has: the old one until the state is rotated, then the new one, at first *)
(* without the key and the mark of the old binding.  Owner and receiver id *)
(* are no part of it: a late heartbeat answer may put them back, and then  *)
(* validateRotatedState refuses the start (RotateRefused).                 *)
RotationAgrees ==
  journal # NoRecord =>
    CASE journal.phase = "intent" -> receiver.installation = journal.old
      [] journal.phase = "old_binding_quarantined" ->
           \/ receiver.installation = journal.old
           \/ /\ receiver.installation = journal.new
              /\ receiver.principal = NoRecord /\ ~receiver.bound
      [] OTHER -> receiver.installation = journal.new

(* A collision stop can be resolved: the delivery it names is still the    *)
(* one the operator would resolve (handleNormalizedDisposition: "delivery  *)
(* identity collision requires explicit local resolution; evidence         *)
(* retained").                                                             *)
CollisionResolvable ==
  pause # NoRecord /\ pause.kind = "collision" => pause.id \in Stored(deliveries)

(* The key used for a POST belongs to the principal the delivery was       *)
(* captured for (ReconcileBinding: "prevents a pending immutable delivery  *)
(* from ever being sent with credentials for a different authenticated     *)
(* principal").                                                            *)
SentWithOwnCredentials == disp.pc = "post" => disp.sentAs = disp.principal

(* A collision stop is lifted only together with moving its delivery to    *)
(* quarantine, by the operator or by a rotation: neither new credentials   *)
(* nor a restart nor a dispatch lifts it.                                  *)
CollisionLiftedWithEvidence ==
  [][ pause # NoRecord /\ pause.kind = "collision" /\ pause' # pause
      => /\ pause' = NoRecord
         /\ pause.id \in Stored(deliveries)
         /\ quarantine'[pause.id] # NoRecord ]_allVars

(* A credential or binding pause is lifted only after the receiver has     *)
(* newer credentials than those the cloud rejected, or because a rotation  *)
(* set the delivery aside; the stale snapshot of a running batch does not  *)
(* lift it.                                                                *)
PauseLiftedByNewerBinding ==
  [][ pause # NoRecord /\ pause.kind # "collision" /\ pause' # pause
      => \/ receiver.bindGen > pause.bindGen
         \/ pause.kind = "credential" /\ receiver.credGen > pause.credGen
         \/ quarantine'[pause.id] # NoRecord ]_allVars

-----------------------------------------------------------------------------
(* Fairness.  The Run loop's tickers fire forever and Go's select picks    *)
(* among ready cases at random, so a batch is not starved (SF); every HTTP *)
(* call has a timeout (WF of some answer); the cloud is not down forever   *)
(* (SF of an acknowledgement); the engine goroutine returns to its         *)
(* select; crashes stop at some point.                                     *)
Fairness ==
  /\ WF_allVars(WriteStaged)
  /\ SF_allVars(BeginBatch)
  /\ WF_allVars(DispatchStep)
  /\ SF_allVars(Acknowledge)
  /\ WF_allVars(\E outcome \in Outcomes : Answer(outcome))
  /\ SF_allVars(Answer("ack"))
  /\ WF_allVars(HeartbeatAnswered \/ LifecycleQuarantine \/ LifecycleApply)
  /\ WF_allVars(RotationStep)
  /\ WF_allVars(Start)
  /\ WF_allVars(TickClock)
  /\ <>[][~Crash]_allVars

FairSpec == SpecDispatch /\ Fairness

(* A durable delivery leaves the outbox's pending side, unless the cloud   *)
(* paused delivery or the receiver lost its binding.                       *)
Delivered ==
  \A d \in DeliveryIds :
    d \in Stored(deliveries) ~>
      d \notin Stored(deliveries) \/ pause # NoRecord \/ ~BindingReady

(* After a re-pairing that supersedes the rejected credentials, delivery   *)
(* resumes.                                                                *)
PauseEventuallyLifted ==
  pause # NoRecord /\ BindingReady /\ Superseded(receiver.credGen, receiver.bindGen)
    ~> pause = NoRecord \/ ~BindingReady
=============================================================================
