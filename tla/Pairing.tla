------------------------------ MODULE Pairing ------------------------------
(***************************************************************************)
(* How a receiver gets, keeps and gives up its cloud credentials: the      *)
(* pairing manager, the state store with its generations, the rotation of  *)
(* the installation id, the heartbeat that writes the identity back, and   *)
(* the startup that recovers from any crash.                               *)
(*                                                                         *)
(* Actors: the Run loop (Manager.Process, heartbeats, dispatch batches,    *)
(* lifecycle errors), one goroutine per portal request, startup.  A call   *)
(* to the cloud is two steps, snapshot and answer, with anything else in   *)
(* between.  A rotation is a step per read or durable write, with the      *)
(* journal the code carries in a local variable.                           *)
(*                                                                         *)
(* Of the outbox only the rotation journal and the dispatch pause matter   *)
(* here (OutboxStore has all of it); a rotation that finds the outbox full *)
(* is left to Dispatch.                                                    *)
(***************************************************************************)
EXTENDS Integers, FiniteSets

CONSTANTS
  Installations,   \* installation ids: random, so a new one is in use nowhere
  Codes,           \* pairing codes an operator enters
  Keys,            \* ingest keys the cloud issues, each with its owner and receiver
  Requests,        \* portal requests that may run at the same time
  MaxGeneration,   \* bound: activations and binding changes
  Events,          \* the events that are explored
  None

EventKinds ==
  {"re_pair", "deauthorize", "local_reset", "revoked", "replaced", "heartbeat", "pause",
   "retryable", "permanent", "expire", "crash", "corrupt", "cli"}

ASSUME PairingAssumption ==
  /\ IsFiniteSet(Installations) /\ IsFiniteSet(Keys)
  /\ MaxGeneration \in Nat
  /\ Events \subseteq EventKinds
  /\ None \notin Installations \cup Codes \cup Keys
  /\ Requests \cap {"loop", "startup"} = {}

VARIABLES
  data,      \* state.Data, in memory and in the state file alike
  journal,   \* the outbox's installation_rotation record
  pause,     \* the outbox's dispatch_pause record
  actor,     \* per actor, the locals of a rotation and of the request around it
  call,      \* the Run loop's snapshot while it waits for the cloud
  up,        \* "down", "starting", "running" or "refused" (New returned an error)
  cli,       \* what the reset-pairing command last answered
  marred     \* history: what has come between the two files, if anything

vars == <<data, journal, pause, actor, call, up, cli, marred>>

Actors == Requests \cup {"loop", "startup"}

Phases == {"unpaired", "code_entered", "bootstrap_exchanged", "activated", "steady_state"}

Generations == 0..MaxGeneration

(* ident stands for the owner and receiver ids, which the cloud issues     *)
(* with a key: the ident of a key is the key.  keyFor is the installation  *)
(* the activation was asked for.  wait: NextRetryAt is ahead.  Labels and  *)
(* endpoints are left out, and so is the retry count.                      *)
Data == [inst    : Installations,
         bound   : BOOLEAN,
         phase   : Phases,
         code    : Codes \cup {None},
         token   : Codes \cup {None},
         wait    : BOOLEAN,
         key     : Keys \cup {None},
         keyFor  : Installations \cup {None},
         ident   : Keys \cup {None},
         samples : (Keys \X Installations) \cup {None},
         credGen : Generations,
         bindGen : Generations]

JournalPhases == {"intent", "old_binding_quarantined", "state_rotated", "completed"}
Journals == [phase : JournalPhases, old : Installations, new : Installations]

Pauses == [kind : {"credential", "binding"}, credGen : Generations, bindGen : Generations,
           key : Keys, inst : Installations, held : BOOLEAN]

Goals == {"re_pair", "deauthorize", "lifecycle", "startup"}

ASSUME NoneAssumption ==
  None \notin Journals \cup Pauses \cup Goals \cup (Keys \X Installations)

Resting == [pc |-> "idle", goal |-> None, code |-> None, old |-> None, new |-> None, j |-> None]
NoCall  == [pc |-> "idle"]

Running == up = "running"

(* The Run loop does one thing at a time; portal requests run at any time, *)
(* beside it and beside each other.                                        *)
LoopRests == call = NoCall /\ actor["loop"] = Resting

MayLoop == Running /\ LoopRests

-----------------------------------------------------------------------------
(* The state store.                                                        *)

FreshData(i) ==
  [inst |-> i, bound |-> FALSE, phase |-> "unpaired", code |-> None, token |-> None,
   wait |-> FALSE, key |-> None, keyFor |-> None, ident |-> None, samples |-> None,
   credGen |-> 0, bindGen |-> 0]

Binding(d) == <<d.ident, d.inst>>

(* Mutation: no update counts as a new binding.                            *)
Normalized_SameBinding(next) ==
  [next EXCEPT
     !.credGen = IF next.key \notin {None, data.key} THEN data.credGen + 1 ELSE @,
     !.samples = IF Binding(next) # Binding(data) THEN None ELSE @]

(* normalizeGenerations: a new key and a new binding advance their         *)
(* generation, losing them does not; a change of binding drops the samples.*)
Normalized(next) ==
  [next EXCEPT
     !.credGen = IF next.key \notin {None, data.key} THEN data.credGen + 1 ELSE @,
     !.bindGen = IF Binding(next) # Binding(data) /\ next.ident # None
                 THEN data.bindGen + 1 ELSE @,
     !.samples = IF Binding(next) # Binding(data) THEN None ELSE @]

(* Store.Update: the file is replaced by rename under the store's lock.    *)
Update(next) == data' = Normalized(next)

(* newInstallID and newInstallationID draw 128 random bits.                *)
InUse ==
  {data.inst, data.keyFor}
    \cup (IF journal = None THEN {} ELSE {journal.old, journal.new})
    \cup (IF pause = None THEN {} ELSE {pause.inst})
    \cup (IF "inst" \in DOMAIN call THEN {call.inst} ELSE {})
    \cup UNION {{actor[a].old, actor[a].new} : a \in Actors}
    \cup UNION {IF actor[a].j = None THEN {} ELSE {actor[a].j.old, actor[a].j.new} : a \in Actors}

FreshInstallation(i) == i \in Installations \ InUse

FreshKey(k) ==
  /\ k \in Keys \ {data.key, data.ident}
  /\ pause # None => k # pause.key
  /\ "key" \in DOMAIN call => k # call.key

Init ==
  /\ \E i \in Installations : data = FreshData(i)
  /\ journal = None
  /\ pause = None
  /\ actor = [a \in Actors |-> Resting]
  /\ call = NoCall
  /\ up = "running"
  /\ cli = "none"
  /\ marred = "no"

-----------------------------------------------------------------------------
(* The updates of pairing/manager.go.                                      *)

(* No pairing in progress, as every return to unpaired writes it.          *)
Unpaired(d) ==
  [d EXCEPT !.phase = "unpaired", !.code = None, !.token = None, !.wait = FALSE]

(* ApplyLifecycleChange with clearDurable.                                 *)
Cleared(d) ==
  [Unpaired(d) EXCEPT !.key = None, !.keyFor = None, !.ident = None, !.samples = None]

(* SubmitPairingCode.                                                      *)
CodeEntered(d, c) ==
  [d EXCEPT !.phase = "code_entered", !.code = c, !.token = None, !.wait = FALSE]

(* The update of installationRotator.recover.                              *)
Rotated(d, i) == [Cleared(d) EXCEPT !.inst = i, !.bound = FALSE]

(* validateRotatedState.                                                   *)
ValidRotated(d) == ~d.bound /\ d.ident = None /\ d.key = None /\ d.samples = None

-----------------------------------------------------------------------------
(* installationRotator.  Each actor keeps the journal a store call returned*)
(* in its local j, which other rotators may have overtaken.                *)

Step(a, fields) == actor' = [actor EXCEPT ![a] = fields]

At(a, pc) == up \in {"starting", "running"} /\ actor[a].pc = pc

(* History, read by no action.  "crossed": a rotation was begun while      *)
(* another was under way, or an answer of the cloud was written into a     *)
(* state that is rotated and not yet recorded as such.  "lost": the state  *)
(* file was replaced while the outbox held a journal or a pause.           *)
OtherRotates(a) == \E b \in Actors \ {a} : actor[b].pc \notin {"idle", "finish"}

HalfRotated ==
  journal # None /\ journal.phase = "old_binding_quarantined" /\ data.inst = journal.new

Crossed(when) == marred' = IF when /\ marred = "no" THEN "crossed" ELSE marred

(* Where recover goes on with the journal it now holds.                    *)
Proceed(a, j) ==
  Step(a, [actor[a] EXCEPT !.j = j, !.old = None, !.new = None,
                           !.pc = IF j.phase = "completed" THEN "finish" ELSE "recover"])

(* An error ends the request, the handler, or the start of the process.    *)
Fail(a) ==
  /\ Step(a, Resting)
  /\ up' = IF a = "startup" THEN "refused" ELSE up
  /\ call' = IF a = "loop" THEN NoCall ELSE call

Keeps(a) == UNCHANGED <<up, call>>

(* RotateInstallation: the stored journal, if unfinished, is taken over.   *)
ReadJournal(a) ==
  /\ At(a, "read")
  /\ IF journal = None \/ journal.phase = "completed"
     THEN Step(a, [actor[a] EXCEPT !.pc = "mint"])
     ELSE Proceed(a, journal)
  /\ UNCHANGED <<data, journal, pause, call, up, cli, marred>>

MintInstallation(a) ==
  /\ At(a, "mint")
  /\ \E i \in Installations :
       /\ FreshInstallation(i)
       /\ Step(a, [actor[a] EXCEPT !.pc = "begin", !.old = data.inst, !.new = i])
  /\ UNCHANGED <<data, journal, pause, call, up, cli, marred>>

BeginInstallationRotation(a) ==
  /\ At(a, "begin")
  /\ journal' = IF journal = None \/ journal.phase = "completed"
                THEN [phase |-> "intent", old |-> actor[a].old, new |-> actor[a].new]
                ELSE journal
  /\ Proceed(a, journal')
  /\ UNCHANGED <<data, pause, call, up, cli, marred>>

(* QuarantineInstallationRotation: the old installation's deliveries are   *)
(* set aside, and a pause on one of them goes with it.                     *)
QuarantineOld(a) ==
  /\ At(a, "recover")
  /\ actor[a].j.phase = "intent"
  /\ \/ /\ journal.phase # "intent"
        /\ UNCHANGED <<journal, pause>>
     \/ /\ journal.phase = "intent"
        /\ journal' = [journal EXCEPT !.phase = "old_binding_quarantined"]
        /\ pause' = IF pause # None /\ pause.held /\ pause.inst = journal.old
                    THEN None ELSE pause
  /\ Proceed(a, journal')
  /\ UNCHANGED <<data, call, up, cli, marred>>

CheckBoundary(a) ==
  /\ At(a, "recover")
  /\ actor[a].j.phase = "old_binding_quarantined"
  /\ \/ /\ data.inst = actor[a].j.old
        /\ Step(a, [actor[a] EXCEPT !.pc = "write"])
        /\ Keeps(a)
     \/ /\ data.inst = actor[a].j.new
        /\ ValidRotated(data)
        /\ Step(a, [actor[a] EXCEPT !.pc = "record"])
        /\ Keeps(a)
     \/ /\ data.inst # actor[a].j.old
        /\ ~(data.inst = actor[a].j.new /\ ValidRotated(data))
        /\ Fail(a)
  /\ UNCHANGED <<data, journal, pause, cli, marred>>

WriteRotated(a) ==
  /\ At(a, "write")
  /\ Update(Rotated(data, actor[a].j.new))
  /\ Step(a, [actor[a] EXCEPT !.pc = "record"])
  /\ UNCHANGED <<journal, pause, call, up, cli, marred>>

(* AdvanceInstallationRotation, whichever rotation is stored by now.       *)
Advance(a, expected, next) ==
  \/ /\ journal.phase \in {expected, next}
     /\ journal' = [journal EXCEPT !.phase = next]
     /\ Proceed(a, journal')
     /\ Keeps(a)
  \/ /\ journal.phase \notin {expected, next}
     /\ UNCHANGED journal
     /\ Fail(a)

(* Mutation: the journal is advanced before the state file is written.     *)
RecordRotated_Early(a) ==
  /\ At(a, "write")
  /\ Advance(a, "old_binding_quarantined", "state_rotated")
  /\ UNCHANGED <<data, pause, cli, marred>>

RecordRotated(a) ==
  /\ At(a, "record")
  /\ Advance(a, "old_binding_quarantined", "state_rotated")
  /\ UNCHANGED <<data, pause, cli, marred>>

CompleteRotation(a) ==
  /\ At(a, "recover")
  /\ actor[a].j.phase = "state_rotated"
  /\ Advance(a, "state_rotated", "completed")
  /\ UNCHANGED <<data, pause, cli, marred>>

(* The update that ends the request or the lifecycle handler; startup      *)
(* hands over to Run.                                                      *)
Finish(a) ==
  /\ At(a, "finish")
  /\ \/ actor[a].goal = "re_pair" /\ Update(CodeEntered(data, actor[a].code))
     \/ actor[a].goal \in {"deauthorize", "lifecycle"} /\ Update(Cleared(data))
     \/ actor[a].goal = "startup" /\ UNCHANGED data
  /\ Step(a, Resting)
  /\ up' = "running"
  /\ call' = IF a = "loop" THEN NoCall ELSE call
  /\ UNCHANGED <<journal, pause, cli, marred>>

RotatorStep(a) ==
  \/ ReadJournal(a) \/ MintInstallation(a) \/ BeginInstallationRotation(a)
  \/ QuarantineOld(a) \/ CheckBoundary(a) \/ WriteRotated(a)
  \/ RecordRotated(a) \/ CompleteRotation(a) \/ Finish(a)

-----------------------------------------------------------------------------
(* Portal requests, one goroutine each, and the reset-pairing command.     *)

(* A bound installation is rotated first; whether it is bound is read      *)
(* before the request's own update.                                        *)
Request(r, goal, c) ==
  /\ Running
  /\ actor[r] = Resting
  /\ Step(r, [Resting EXCEPT !.pc = IF data.bound THEN "read" ELSE "finish",
                             !.goal = goal, !.code = c])
  /\ Crossed(data.bound /\ OtherRotates(r))
  /\ UNCHANGED <<data, journal, pause, call, up, cli>>

SubmitPairingCode(r, c) == "re_pair" \in Events /\ Request(r, "re_pair", c)

Deauthorize(r) == "deauthorize" \in Events /\ Request(r, "deauthorize", None)

(* A reset without deauthorization is one update: the installation stays   *)
(* bound and keeps its credentials.                                        *)
LocalReset ==
  /\ "local_reset" \in Events
  /\ Running
  /\ Update(Unpaired(data))
  /\ UNCHANGED <<journal, pause, actor, call, up, cli, marred>>

(* resetPairingCommand with its default -deauthorize while the service is  *)
(* stopped: its manager has no rotator, so a bound installation is refused.*)
ResetPairingCommand ==
  /\ "cli" \in Events
  /\ up = "down"
  /\ \/ data.bound  /\ cli' = "refused" /\ UNCHANGED data
     \/ ~data.bound /\ cli' = "done" /\ Update(Cleared(data))
  /\ UNCHANGED <<journal, pause, actor, call, up, marred>>

-----------------------------------------------------------------------------
(* The Run loop: Manager.Process.  Each call keeps a snapshot.             *)

Begin(c) ==
  /\ MayLoop
  /\ call' = c
  /\ UNCHANGED <<data, journal, pause, actor, up, cli, marred>>

Calling(pc) == Running /\ call.pc = pc

AnsweredOnce == call' = NoCall /\ UNCHANGED <<journal, pause, actor, up, cli>>

Answered == AnsweredOnce /\ UNCHANGED marred

BeginExchange ==
  /\ data.phase = "code_entered" /\ ~data.wait /\ data.code # None
  /\ Begin([pc |-> "exchange", code |-> data.code])

Exchanged ==
  /\ Calling("exchange")
  /\ Update([data EXCEPT !.phase = "bootstrap_exchanged", !.token = call.code, !.wait = FALSE])
  /\ Answered

BeginActivation ==
  /\ data.phase = "bootstrap_exchanged" /\ ~data.wait /\ data.token # None
  /\ Begin([pc |-> "activate", token |-> data.token, inst |-> data.inst])

(* The cloud issues a key for the installation named in the request.       *)
Activated ==
  /\ Calling("activate")
  /\ data.credGen < MaxGeneration /\ data.bindGen < MaxGeneration
  /\ \E k \in Keys :
       /\ FreshKey(k)
       /\ Update([Unpaired(data) EXCEPT !.phase = "activated", !.key = k, !.bound = TRUE,
                                        !.keyFor = call.inst, !.ident = k])
  /\ Crossed(HalfRotated)
  /\ AnsweredOnce

RetryPhase == IF call.pc = "exchange" THEN "code_entered" ELSE "bootstrap_exchanged"

(* Mutation: every error of an attempt counts as retryable.                *)
AttemptFailed_Retried ==
  /\ "permanent" \in Events
  /\ Calling("exchange") \/ Calling("activate")
  /\ Update([data EXCEPT !.phase = RetryPhase, !.wait = TRUE])
  /\ Answered

(* handleAttemptError: a retryable error writes back the phase of the      *)
(* attempt and a retry time, any other ends the pairing.                   *)
AttemptRetried ==
  /\ "retryable" \in Events
  /\ Calling("exchange") \/ Calling("activate")
  /\ Update([data EXCEPT !.phase = RetryPhase, !.wait = TRUE])
  /\ Answered

AttemptFailed ==
  /\ "permanent" \in Events
  /\ Calling("exchange") \/ Calling("activate")
  /\ Update(Unpaired(data))
  /\ Answered

(* The retry time passes.                                                  *)
RetryDue ==
  /\ data.wait
  /\ data' = [data EXCEPT !.wait = FALSE]
  /\ UNCHANGED <<journal, pause, actor, call, up, cli, marred>>

(* The activation token of the snapshot has expired: revertToUnpaired.     *)
BeginRevert ==
  /\ "expire" \in Events
  /\ data.phase = "bootstrap_exchanged" /\ ~data.wait /\ data.token # None
  /\ Begin([pc |-> "revert"])

Reverted ==
  /\ Calling("revert")
  /\ Update(Unpaired(data))
  /\ Answered

(* promoteSteadyState.                                                     *)
BeginPromotion ==
  /\ data.phase = "activated" /\ data.key # None
  /\ Begin([pc |-> "promote"])

Promoted ==
  /\ Calling("promote")
  /\ Update([data EXCEPT !.phase = "steady_state"])
  /\ Answered

-----------------------------------------------------------------------------
(* The Run loop: heartbeats and receiver lifecycle errors.                 *)

CredentialsReady == data.phase = "steady_state" /\ data.key # None

BeginHeartbeat ==
  /\ Events \cap {"heartbeat", "revoked", "replaced"} # {}
  /\ CredentialsReady
  /\ Begin([pc |-> "heartbeat", key |-> data.key, inst |-> data.inst])

(* The acknowledgement names the receiver and the owner of the key the     *)
(* heartbeat was sent with; they are written into the state as it is now.  *)
HeartbeatAcknowledged ==
  /\ "heartbeat" \in Events
  /\ Calling("heartbeat")
  /\ data.bindGen < MaxGeneration \/ data.ident = call.key
  /\ Update([data EXCEPT !.ident = call.key])
  /\ call' = [call EXCEPT !.pc = "attest"]
  /\ Crossed(HalfRotated)
  /\ UNCHANGED <<journal, pause, actor, up, cli>>

HeartbeatUnanswered ==
  /\ Calling("heartbeat")
  /\ UNCHANGED data
  /\ Answered

(* Mutation: samples are stored without a second look at the binding.      *)
ClockAttested_Unchecked ==
  /\ Calling("attest")
  /\ Update([data EXCEPT !.samples = <<call.key, call.inst>>])
  /\ Answered

(* recordClockAttestation: the binding is checked again under the lock.    *)
ClockAttested ==
  /\ Calling("attest")
  /\ Update(IF Binding(data) = <<call.key, call.inst>>
            THEN [data EXCEPT !.samples = <<call.key, call.inst>>] ELSE data)
  /\ Answered

HeartbeatRejected(change) ==
  /\ change \in Events \cap {"revoked", "replaced"}
  /\ Calling("heartbeat")
  /\ call' = [pc |-> "lifecycle", change |-> change]
  /\ UNCHANGED <<data, journal, pause, actor, up, cli, marred>>

(* handleLifecycleCloudError sets the deliveries of the receiver named in  *)
(* the state aside; the pause stays.                                       *)
QuarantineReceiver ==
  /\ Calling("lifecycle")
  /\ pause' = IF pause # None /\ data.ident # None /\ pause.key = data.ident
              THEN [pause EXCEPT !.held = FALSE] ELSE pause
  /\ call' = [call EXCEPT !.pc = "apply"]
  /\ UNCHANGED <<data, journal, actor, up, cli, marred>>

(* ApplyLifecycleChange: only a replaced receiver is rotated.              *)
ApplyLifecycleChange ==
  /\ Calling("apply")
  /\ Step("loop", [Resting EXCEPT !.goal = "lifecycle",
                     !.pc = IF call.change = "replaced" /\ data.bound THEN "read" ELSE "finish"])
  /\ call' = [pc |-> "rotating"]
  /\ Crossed(call.change = "replaced" /\ data.bound /\ OtherRotates("loop"))
  /\ UNCHANGED <<data, journal, pause, up, cli>>

-----------------------------------------------------------------------------
(* The Run loop: a dispatch batch, as far as the pause goes.               *)

Superseded(p, cred, bind) ==
  bind > p.bindGen \/ (p.kind = "credential" /\ cred > p.credGen)

BeginDispatch ==
  /\ "pause" \in Events
  /\ CredentialsReady /\ data.ident # None
  /\ Begin([pc |-> "dispatch", key |-> data.ident, inst |-> data.inst,
            credGen |-> data.credGen, bindGen |-> data.bindGen])

ClearResolvedPause ==
  /\ Calling("dispatch")
  /\ pause # None
  /\ Superseded(pause, call.credGen, call.bindGen)
  /\ pause' = None
  /\ UNCHANGED <<data, journal, actor, call, up, cli, marred>>

(* The cloud rejects the credentials or the binding of the batch.  Unless  *)
(* a rotation has set it aside meanwhile, the delivery is in the outbox.   *)
DeliveryRejected(kind) ==
  /\ Calling("dispatch")
  /\ pause = None
  /\ journal # None => journal.old # call.inst \/ journal.phase = "intent"
  /\ pause' = [kind |-> kind, credGen |-> call.credGen, bindGen |-> call.bindGen,
               key |-> call.key, inst |-> call.inst, held |-> TRUE]
  /\ call' = NoCall
  /\ UNCHANGED <<data, journal, actor, up, cli, marred>>

DispatchEnds ==
  /\ Calling("dispatch")
  /\ UNCHANGED data
  /\ Answered

-----------------------------------------------------------------------------
(* Crash, corruption of the state file, startup.                           *)

Crash ==
  /\ "crash" \in Events
  /\ up \in {"starting", "running"}
  /\ up' = "down"
  /\ actor' = [a \in Actors |-> Resting]
  /\ call' = NoCall
  /\ UNCHANGED <<data, journal, pause, cli, marred>>

(* Open of an unreadable state file keeps a backup and starts afresh.      *)
RecoverCorruptState ==
  /\ "corrupt" \in Events
  /\ up = "down"
  /\ \E i \in Installations : FreshInstallation(i) /\ data' = FreshData(i)
  /\ marred' = IF journal # None \/ pause # None THEN "lost" ELSE marred
  /\ UNCHANGED <<journal, pause, actor, call, up, cli>>

(* New with installationRotator.Recover; the service manager starts it     *)
(* again when it was refused.                                              *)
Start ==
  /\ up \in {"down", "refused"}
  /\ \/ /\ journal = None
        /\ up' = "running"
        /\ UNCHANGED actor
     \/ /\ journal # None
        /\ journal.phase = "completed"
        /\ up' = IF data.inst = journal.new THEN "running" ELSE "refused"
        /\ UNCHANGED actor
     \/ /\ journal # None
        /\ journal.phase # "completed"
        /\ up' = "starting"
        /\ Step("startup", [Resting EXCEPT !.pc = "recover", !.goal = "startup", !.j = journal])
  /\ UNCHANGED <<data, journal, pause, call, cli, marred>>

-----------------------------------------------------------------------------
ProcessStep ==
  \/ BeginExchange \/ Exchanged \/ BeginActivation \/ Activated
  \/ AttemptRetried \/ AttemptFailed \/ BeginRevert \/ Reverted
  \/ BeginPromotion \/ Promoted

HeartbeatStep ==
  \/ BeginHeartbeat \/ HeartbeatAcknowledged \/ HeartbeatUnanswered \/ ClockAttested
  \/ \E change \in {"revoked", "replaced"} : HeartbeatRejected(change)
  \/ QuarantineReceiver \/ ApplyLifecycleChange

DispatchStep ==
  \/ BeginDispatch \/ ClearResolvedPause \/ DispatchEnds
  \/ \E kind \in {"credential", "binding"} : DeliveryRejected(kind)

RequestStep ==
  \/ \E r \in Requests : Deauthorize(r) \/ \E c \in Codes : SubmitPairingCode(r, c)
  \/ LocalReset \/ ResetPairingCommand

Next ==
  \/ \E a \in Actors : RotatorStep(a)
  \/ ProcessStep \/ HeartbeatStep \/ DispatchStep \/ RequestStep
  \/ RetryDue \/ Crash \/ RecoverCorruptState \/ Start

Spec == Init /\ [][Next]_vars

-----------------------------------------------------------------------------
Locals == [pc : {"idle", "read", "mint", "begin", "recover", "write", "record", "finish"},
           goal : Goals \cup {None},
           code : Codes \cup {None}, old : Installations \cup {None},
           new : Installations \cup {None}, j : Journals \cup {None}]

(* What the Run loop keeps of its snapshot, by the call it waits for.      *)
Calls ==
  [pc : {"idle", "revert", "promote", "rotating"}]
    \cup [pc : {"exchange"}, code : Codes]
    \cup [pc : {"activate"}, token : Codes, inst : Installations]
    \cup [pc : {"heartbeat", "attest"}, key : Keys, inst : Installations]
    \cup [pc : {"lifecycle", "apply"}, change : {"revoked", "replaced"}]
    \cup [pc : {"dispatch"}, key : Keys, inst : Installations,
          credGen : Generations, bindGen : Generations]

(* Every variable has its type.                                            *)
TypeOK ==
  /\ data \in Data
  /\ journal \in Journals \cup {None}
  /\ pause \in Pauses \cup {None}
  /\ actor \in [Actors -> Locals]
  /\ call \in Calls
  /\ up \in {"down", "starting", "running", "refused"}
  /\ cli \in {"none", "refused", "done"}
  /\ marred \in {"no", "crossed", "lost"}

(* The receiver comes back after every crash (docs/diagnostics.md: it      *)
(* comes back "instead of crash-looping").                                 *)
StartNeverRefused == up # "refused"

(* Whatever step of a rotation, of a request or of a call a crash cuts     *)
(* off, the journal and the state file, two files written in turn, are a   *)
(* pair that installationRotator.Recover accepts: a start is refused only  *)
(* after one rotation was begun within another, an answer of the cloud was *)
(* written between a rotation's state file and its journal record, or the  *)
(* state file was lost beside a journal or a pause.                        *)
RefusedOnlyIfMarred == up = "refused" => marred # "no"

(* Manager.Process can go on from the persisted phase: the secret the      *)
(* phase needs is there.                                                   *)
PhaseResumable ==
  /\ data.phase = "code_entered" => data.code # None
  /\ data.phase = "bootstrap_exchanged" => data.token # None
  /\ data.phase \in {"activated", "steady_state"} => data.key # None

(* Credentials newer than those the cloud rejected lift the pause when     *)
(* next looked at: ClearResolvedPause compares generations, not keys.      *)
(* Only a lost state file lets the generations start over.                 *)
PauseSupersedable ==
  pause # None /\ data.key \notin {None, pause.key} /\ marred # "lost" =>
    Superseded(pause, data.credGen, data.bindGen)

(* Clock samples are of the binding they are kept with, although they come *)
(* with the answers to requests made under an earlier one.                 *)
SamplesOfBinding == data.samples # None => data.samples = Binding(data)

(* With the credentials the cloud's identity goes as well: the receiver id *)
(* here, and the labels, which the same updates write and clear            *)
(* (docs/multi-receiver-identity.md: "receiver also clears cloud identity  *)
(* labels to avoid stale display").                                        *)
IdentityGoesWithKey == data.key = None => data.ident = None

(* The reset-pairing command deauthorizes (docs/receiver-lifecycle.md:     *)
(* "default behavior is deauthorization").                                 *)
CommandDeauthorizes == cli # "refused"

(* An activation takes effect only for the pairing that asked for it: its  *)
(* token is still the stored one, not reset or replaced meanwhile.         *)
NoLateActivation ==
  [][ data'.key \notin {None, data.key}
      => data.phase = "bootstrap_exchanged" /\ data.token = call.token ]_vars

-----------------------------------------------------------------------------
(* Fairness: the Run loop ticks, every call to the cloud ends in an answer *)
(* and not always in a retryable error, requests run on, the service       *)
(* manager restarts the process, crashes are finitely many.                *)
Fairness ==
  /\ \A a \in Actors : WF_vars(RotatorStep(a))
  /\ SF_vars(BeginExchange) /\ SF_vars(BeginActivation) /\ SF_vars(BeginPromotion)
  /\ SF_vars(Exchanged \/ (AttemptFailed /\ call.pc = "exchange"))
  /\ SF_vars(Activated \/ (AttemptFailed /\ call.pc = "activate"))
  /\ WF_vars(Promoted) /\ WF_vars(Reverted)
  /\ WF_vars(AttemptRetried \/ Exchanged \/ Activated)
  /\ WF_vars(HeartbeatUnanswered \/ ClockAttested \/ QuarantineReceiver \/ ApplyLifecycleChange)
  /\ WF_vars(DispatchEnds) /\ SF_vars(ClearResolvedPause)
  /\ WF_vars(RetryDue)
  /\ WF_vars(Start)
  /\ <>[][~Crash]_vars

FairSpec == Spec /\ Fairness

(* A pairing in progress ends, with credentials or unpaired, whatever      *)
(* retries, requests and crashes come in between, unless a retryable error *)
(* answered late has put a phase back without its secret, or the process   *)
(* is refused its start (RefusedOnlyIfMarred).                             *)
PairingSettles ==
  data.phase \in {"code_entered", "bootstrap_exchanged", "activated"}
    ~> \/ data.phase \in {"unpaired", "steady_state"}
       \/ ~PhaseResumable
       \/ up = "refused"
=============================================================================
