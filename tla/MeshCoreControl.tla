-------------------------- MODULE MeshCoreControl --------------------------
(***************************************************************************)
(* Who decides about the Bluetooth companion: the operations of the local  *)
(* portal and the intents that the cloud sends with its heartbeat answers, *)
(* over the adapter of MeshCoreLink, the configuration file and the        *)
(* tracking controller.                                                    *)
(*                                                                         *)
(* Portal requests run in their own goroutines, heartbeat answers on the   *)
(* service loop.  meshcoreBLEMu makes the operations on the adapter        *)
(* exclusive; the session intent, the portal's tracking requests and the   *)
(* saving of another section of the configuration do not take it.  The     *)
(* tracking controller is seen from outside: whether it polls, which node, *)
(* and who controls it.                                                    *)
(* What the cloud decides is not kept: any answer may carry any intent, an *)
(* earlier one that has failed included.  Left out: scans and refused      *)
(* operations, which change nothing, that an intent applied before is not  *)
(* applied again, and the results that the next heartbeat reports.         *)
(***************************************************************************)
EXTENDS MeshCoreLink

CONSTANTS
  Nodes,        \* that sessions and the portal ask to track
  Company       \* bound: which of "tracking" and "saving" may go on beside the
                \* operations, in one behaviour; they have nothing in common

ASSUME ControlAssumption == None \notin Nodes /\ Company \subseteq SUBSET {"tracking", "saving"}

VARIABLES
  op,        \* the operation that holds meshcoreBLEMu
  disk,      \* the peer in the configuration file
  memory,    \* container.Config: the peer the service believes in
  intent,    \* the node that applyMeshCoreSessionIntent is about to track, or None
  request,   \* the node that StartMeshCoreTracking is about to track, or None
  tracking,  \* the tracking controller; history: its polling was started after
             \* an operation had begun, or when the radio was released
  saving,    \* where the portal's saving of another section stands, with its copy
  crossed,   \* history: such a saving fell into a change of the peer
  beside     \* a member of Company

serviceVars == <<op, disk, memory, intent, request, tracking, saving, crossed, beside>>
vars == <<linkVars, serviceVars>>

Kinds == {"release", "resume", "reconnect", "configure", "forget", "pair"}
Sides == {"portal", "cloud"}
NotSaving == [pc |-> "idle", peer |-> None]
NoOp == [pc |-> "free", kind |-> None, by |-> None, peer |-> None, pin |-> FALSE, then |-> None,
         old |-> None]

Init ==
  /\ LinkInit
  /\ disk = peer /\ memory = peer
  /\ op = NoOp
  /\ intent = None /\ request = None
  /\ tracking = [active |-> FALSE, node |-> None, managed |-> FALSE, late |-> FALSE]
  /\ saving = NotSaving /\ crossed = FALSE
  /\ beside \in Company

-----------------------------------------------------------------------------
(* Operations.  Each holds the mutex from its first step to its last.      *)

Free == op.pc = "free"
Working(pc) == op.pc = pc
Proceed(pc) == op' = [op EXCEPT !.pc = pc]

Stopped == [tracking EXCEPT !.active = FALSE, !.node = None, !.late = FALSE]

Finish == op' = NoOp

(* Mutation: the tracking goes on.                                         *)
Starts_Polling(kind, by, p, pin) ==
  /\ kind \in {"reconnect", "configure", "forget"} => ~Suppressed
  /\ kind = "forget" => memory # None
  /\ kind = "pair" => Suppressed
  /\ op' = [pc |-> IF kind = "release" \/ kind = "forget" \/ (kind = "configure" /\ pin)
                   THEN "release"
                   ELSE IF kind = "configure" THEN "persist" ELSE kind,
            kind |-> kind, by |-> by, peer |-> p, pin |-> pin, then |-> None,
            old |-> IF kind = "forget" THEN memory ELSE None]
  /\ UNCHANGED tracking

(* What an operation requires, and its first step.                         *)
Starts(kind, by, p, pin) ==
  /\ kind \in {"reconnect", "configure", "forget"} => ~Suppressed
  /\ kind = "forget" => memory # None
  /\ kind = "pair" => Suppressed
  /\ op' = [pc |-> IF kind = "release" \/ kind = "forget" \/ (kind = "configure" /\ pin)
                   THEN "release"
                   ELSE IF kind = "configure" THEN "persist" ELSE kind,
            kind |-> kind, by |-> by, peer |-> p, pin |-> pin, then |-> None,
            old |-> IF kind = "forget" THEN memory ELSE None]
  /\ tracking' = IF kind \in {"release", "forget"} THEN Stopped ELSE tracking

(* The portal has no operation to choose, forget or reconnect the peer.    *)
PortalOperation ==
  /\ Free /\ ~closed
  /\ \E kind \in {"release", "resume"} : Starts(kind, "portal", None, FALSE)
     \/ \E p \in Peers : Starts("pair", "portal", p, FALSE)
  /\ UNCHANGED <<linkVars, disk, memory, intent, request, saving, crossed, beside>>

(* ForgetMeshCoreBLE of the portal takes no lock: BlueZ drops the bond.    *)
PortalForget(p) ==
  /\ Leaves(p)
  /\ UNCHANGED <<loop, peer, gate, closed, shown, wake, held, suspect, serviceVars>>

(* applyMeshCoreBLEControlIntent, on the service loop: before the session  *)
(* intent of the same answer.                                              *)
CloudOperation ==
  /\ Free /\ intent = None /\ ~closed
  /\ \E kind \in Kinds \ {"configure", "pair"} : Starts(kind, "cloud", None, FALSE)
     \/ \E p \in Peers, pin \in BOOLEAN : Starts("configure", "cloud", p, pin)
  /\ UNCHANGED <<linkVars, disk, memory, intent, request, saving, crossed, beside>>

unchangedHere == <<disk, memory, intent, request, saving, crossed, beside>>

(* Adapter.Release as an operation of its own or the first part of one.    *)
OpRelease ==
  /\ Working("release")
  /\ \/ /\ closed
        /\ Finish
        /\ UNCHANGED linkVars
     \/ /\ ~closed
        /\ ReleaseSection
        /\ op' = [op EXCEPT !.pc = "settle",
                            !.then = IF op.kind = "forget" THEN "unbond"
                                     ELSE IF op.kind = "configure" THEN "pair" ELSE "done"]
  /\ UNCHANGED <<unchangedHere, tracking>>

(* The second half of an adapter call.  Only a reconnect minds a failure;  *)
(* the loop is woken last.                                                 *)
OpSettle ==
  /\ Working("settle")
  /\ CancelHeld
  /\ \E done \in BOOLEAN :
       /\ Disconnected(IF op.then = "commit" THEN op.old ELSE peer, done)
       /\ IF op.kind = "reconnect" /\ ~done
          THEN Finish /\ UNCHANGED wake
          ELSE /\ wake' = (wake \/ op.kind = "reconnect"
                             \/ (op.kind = "configure" /\ op.then = "commit"))
               /\ IF op.then = "done" THEN Finish ELSE Proceed(op.then)
  /\ UNCHANGED <<peer, gate, closed, shown, suspect, unchangedHere, tracking>>

OpResume ==
  /\ Working("resume")
  /\ IF closed THEN UNCHANGED linkVars ELSE Resume
  /\ Finish
  /\ UNCHANGED <<unchangedHere, tracking>>

OpReconnect ==
  /\ Working("reconnect")
  /\ IF closed \/ peer = None \/ Suppressed
     THEN Finish /\ UNCHANGED linkVars
     ELSE /\ ReconnectSection
          /\ op' = [op EXCEPT !.pc = "settle", !.then = "done"]
  /\ UNCHANGED <<unchangedHere, tracking>>

(* The operating system pairs; a failure gives the radio back.             *)
OpPair ==
  /\ Working("pair")
  /\ IF op.kind = "pair" THEN Finish
     ELSE \E next \in {"persist", "resume"} : Proceed(next)
  /\ UNCHANGED <<linkVars, unchangedHere, tracking>>

OpUnbond ==
  /\ Working("unbond")
  /\ \/ Proceed("persist") /\ Leaves(op.old)
     \/ Proceed("resume") /\ UNCHANGED <<connected, stranded>>
  /\ UNCHANGED <<loop, peer, gate, closed, shown, wake, held, suspect, unchangedHere, tracking>>

(* The file is written first: when that fails, a connect that had released *)
(* the radio takes it back, a forget does not.                             *)
OpPersist ==
  /\ Working("persist")
  /\ \/ /\ disk' = op.peer
        /\ Proceed(IF op.kind = "forget" THEN "adapter" ELSE "quiesce")
        /\ crossed' = (saving # NotSaving)
     \/ /\ IF op.pin THEN Proceed("resume") ELSE Finish
        /\ UNCHANGED <<disk, crossed>>
  /\ UNCHANGED <<linkVars, memory, intent, request, tracking, saving, beside>>

OpQuiesce ==
  /\ Working("quiesce")
  /\ tracking' = Stopped
  /\ Proceed("adapter")
  /\ UNCHANGED <<linkVars, unchangedHere>>

(* ConfigureBLE, or ClearBLEConfig after a forget.                         *)
OpAdapter ==
  /\ Working("adapter")
  /\ IF closed
     THEN Finish /\ UNCHANGED linkVars
     ELSE /\ ConfigureSection(op.peer)
          /\ op' = [op EXCEPT !.pc = "settle", !.then = "commit",
                              !.old = IF op.kind = "configure" /\ peer # op.peer THEN peer ELSE None]
  /\ UNCHANGED <<unchangedHere, tracking>>

(* Mutation: the service keeps its copy of the configuration.              *)
OpCommit_Keeps ==
  /\ Working("commit")
  /\ Finish
  /\ UNCHANGED <<linkVars, disk, memory, intent, request, tracking, saving, crossed, beside>>

OpCommit ==
  /\ Working("commit")
  /\ memory' = op.peer
  /\ Finish
  /\ UNCHANGED <<linkVars, disk, intent, request, tracking, saving, crossed, beside>>

OpStep ==
  \/ OpRelease \/ OpSettle \/ OpResume \/ OpReconnect \/ OpPair \/ OpUnbond \/ OpPersist
  \/ OpQuiesce \/ OpAdapter \/ OpCommit

-----------------------------------------------------------------------------
(* The session intent of a heartbeat answer, on the service loop.          *)

opVars == <<op, disk, memory, saving, crossed, beside>>

(* Polling of node n begins; history: what is going on meanwhile.          *)
Polling(n) == [tracking EXCEPT !.active = TRUE, !.node = n, !.late = ~Free \/ Suppressed]

(* No intent, or one that is not for this receiver: what the session       *)
(* started ends.  While the radio is released a session is only noted.     *)
IntentArrives ==
  /\ "tracking" \in beside
  /\ intent = None /\ ~closed
  /\ op.by # "cloud"
  /\ \/ /\ tracking.managed
        /\ tracking' = [Stopped EXCEPT !.managed = FALSE]
        /\ UNCHANGED intent
     \/ \E n \in Nodes :
          IF Suppressed
          THEN tracking' = [tracking EXCEPT !.managed = TRUE] /\ UNCHANGED intent
          ELSE intent' = n /\ UNCHANGED tracking
  /\ UNCHANGED <<linkVars, opVars, request>>

(* A run for another node is stopped.                                      *)
IntentServed ==
  /\ intent # None
  /\ tracking' = [(IF tracking.node = intent THEN tracking ELSE Polling(intent))
                    EXCEPT !.managed = TRUE]
  /\ intent' = None
  /\ UNCHANGED <<linkVars, opVars, request>>

-----------------------------------------------------------------------------
(* The portal's tracking requests: checked, then done.                     *)

TrackingRequested ==
  /\ "tracking" \in beside
  /\ request = None /\ ~closed /\ ~Suppressed /\ ~tracking.managed
  /\ request' \in Nodes
  /\ UNCHANGED <<linkVars, opVars, intent, tracking>>

TrackingServed ==
  /\ request # None
  /\ tracking' = [(IF tracking.active THEN tracking ELSE Polling(request))
                    EXCEPT !.managed = FALSE]
  /\ request' = None
  /\ UNCHANGED <<linkVars, opVars, intent>>

TrackingEnded ==
  /\ "tracking" \in beside
  /\ ~closed /\ ~tracking.managed
  /\ tracking' = Stopped
  /\ UNCHANGED <<linkVars, opVars, intent, request>>

TrackingStep ==
  \/ IntentArrives \/ IntentServed \/ TrackingRequested \/ TrackingServed \/ TrackingEnded

-----------------------------------------------------------------------------
(* UpdateHomeAutoSessionConfig of the portal changes another section, but  *)
(* copies, saves and assigns the whole configuration, without the lock.    *)
(* Bound: one at a time.                                                   *)

(* The file names the new peer already, the service's copy the old one.    *)
Changing == op.pc \in {"quiesce", "adapter", "commit"} \/ (op.pc = "settle" /\ op.then = "commit")

ConfigCopied ==
  /\ "saving" \in beside
  /\ saving = NotSaving
  /\ saving' = [pc |-> "save", peer |-> memory]
  /\ crossed' = (crossed \/ Changing)
  /\ UNCHANGED <<disk, memory>>

ConfigSaved ==
  /\ saving.pc = "save"
  /\ \/ disk' = saving.peer /\ saving' = [saving EXCEPT !.pc = "assign"]
     \/ saving' = NotSaving /\ UNCHANGED disk
  /\ UNCHANGED <<memory, crossed>>

ConfigAssigned ==
  /\ saving.pc = "assign"
  /\ memory' = saving.peer
  /\ saving' = NotSaving
  /\ UNCHANGED <<disk, crossed>>

SavingStep ==
  /\ ConfigCopied \/ ConfigSaved \/ ConfigAssigned
  /\ UNCHANGED <<linkVars, op, intent, request, tracking, beside>>

-----------------------------------------------------------------------------
(* The container stops the tracking, then closes the adapter.              *)
Shutdown ==
  /\ Close
  /\ tracking' = Stopped
  /\ UNCHANGED <<opVars, intent, request>>

Next ==
  \/ (LoopStep \/ RadioStep) /\ UNCHANGED serviceVars
  \/ PortalOperation \/ CloudOperation \/ OpStep \/ TrackingStep \/ SavingStep
  \/ Shutdown
  \/ \E p \in Peers : PortalForget(p)

(* The calls of an operation are bounded by timeouts.                      *)
Spec == Init /\ [][Next]_vars
FairSpec == Spec /\ LoopFairness /\ RadioFairness /\ WF_vars(OpStep)

-----------------------------------------------------------------------------
(* Properties.                                                             *)

TypeControlOK ==
  /\ TypeLinkOK
  /\ op \in [pc : {"free", "release", "settle", "resume", "reconnect", "pair", "unbond", "persist",
                   "quiesce", "adapter", "commit"},
             kind : Kinds \cup {None}, by : Sides \cup {None}, peer : Peers \cup {None},
             pin : BOOLEAN, then : {None, "done", "unbond", "pair", "commit"}, old : Peers \cup {None}]
  /\ disk \in Peers \cup {None} /\ memory \in Peers \cup {None}
  /\ intent \in Nodes \cup {None} /\ request \in Nodes \cup {None}
  /\ tracking \in [active : BOOLEAN, node : Nodes \cup {None}, managed : BOOLEAN, late : BOOLEAN]
  /\ saving \in [pc : {"idle", "save", "assign"}, peer : Peers \cup {None}]
  /\ crossed \in BOOLEAN
  /\ beside \in Company

(* When no operation is under way the file, the service and the adapter    *)
(* name the same peer, whichever step of a connect or forget has failed,   *)
(* unless another section was saved during the last change of the peer.    *)
ConfigurationAgrees ==
  Free /\ ~closed /\ ~crossed => disk = memory /\ memory = peer

(* When the loop rests, the receiver keeps a companion connected only if   *)
(* the disconnect of its last attempt has failed: no attempt is left       *)
(* without being closed, and a phone can have the radio.                   *)
RadioHandedBack ==
  loop.pc \in {"parked", "unconfigured", "off"} => connected \subseteq stranded

(* A session goes on only with the selected peer, and only while the radio *)
(* is not released, unless the operation fell where the loop had looked at *)
(* the state and had registered nothing to cancel.                         *)
OnlySelectedPeer ==
  Free /\ InSession /\ ~Cancelled =>
    /\ loop.peer = peer \/ "peer" \in loop.missed
    /\ ~Suppressed \/ "release" \in loop.missed

(* What was polling when a release came is stopped by it: polling of a     *)
(* released radio was started meanwhile, by a tracking request or session  *)
(* intent that had been checked before.                                    *)
PollsStopped ==
  Free /\ gate.released /\ ~closed /\ tracking.active => tracking.late

(* A configured peer is connected again, in the end, whichever operations  *)
(* have come before: no wake-up is lost.                                   *)
Reconnects ==
  <>[](Free /\ ~Suppressed /\ peer # None /\ ~closed) => []<>InSession

(* A release holds: once it has returned, the loop comes to rest and shows *)
(* the adapter as released, unless it has overlooked the attempt or the    *)
(* radio is taken back (Adapter.Release, runBLE).                          *)
ReleaseHolds ==
  (Free /\ gate.released /\ "release" \notin loop.missed) ~>
    (~gate.released \/ closed \/ At("unconfigured") \/ (At("parked") /\ shown = "released"))

(* After Close the loop ends, whatever it was waiting for.                 *)
LoopStops == closed ~> At("off")

(* What comments and documents promise and an interleaving breaks: a       *)
(* configure cancels any old attempt (adapter.go), a connect persists the  *)
(* selected peer, a released radio is not polled, and a forget leaves no   *)
(* peer selected rather than the radio released                            *)
(* (docs/meshcore-ble-lifecycle.md).                                       *)
OldAttemptCancelled == Free /\ InSession /\ ~Cancelled => loop.peer = peer
PeerPersisted == Free /\ ~closed => disk = peer
NoPollsWhileReleased == Free /\ gate.released /\ ~closed => ~tracking.active
ForgetGivesBack == [][op.kind = "forget" /\ Free' => ~gate'.released]_vars
=============================================================================
