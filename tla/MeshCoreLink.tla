---------------------------- MODULE MeshCoreLink ----------------------------
(***************************************************************************)
(* The MeshCore adapter over Bluetooth: the goroutine that keeps a session *)
(* with the configured peer, runBLE, and the operations that release the   *)
(* radio, take it back, choose another peer or close the adapter.          *)
(*                                                                         *)
(* The adapter's mutex guards single sections; between two of them the     *)
(* loop and an operation see each other's work half done.  An operation    *)
(* takes, in its section, the cancel function and the link that the loop   *)
(* has registered, and uses them afterwards.                               *)
(*                                                                         *)
(* External: BlueZ, which connects and disconnects peers, as the code uses *)
(* it: its disconnect may fail or take longer than the adapter waits, and  *)
(* a connect that fails may leave the peer connected.  A reader of         *)
(* notifications does not learn that the peer has been disconnected: it    *)
(* ends by its context or by its own link's Close.                         *)
(***************************************************************************)
EXTENDS Naturals

CONSTANTS
  Peers,       \* addresses of companions
  Selected,    \* what the configuration file may name at the start
  None

ASSUME PeersAssumption ==
  None \notin Peers /\ Selected \subseteq Peers \cup {None}

VARIABLES
  loop,        \* where runBLE stands: pc, the peer of its attempt, attemptCtx ended;
               \* history: which operations, still in force, have overlooked it
  peer,        \* cfg.BLE.PeerAddress of the adapter
  gate,        \* status: ReconnectSuppressed, ReleasedByUser
  closed,      \* the adapter is closed, its context cancelled
  shown,       \* status.State, and what of it matters
  wake,        \* a token in reconnectWake
  held,        \* an operation holds the cancel function or link of this attempt
  connected,   \* peers that BlueZ has connected for the receiver
  stranded,    \* history: those of them whose disconnect failed or was not tried
  suspect      \* a failed write has found the peer disconnected

linkVars == <<loop, peer, gate, closed, shown, wake, held, connected, stranded, suspect>>

Places == {"permit", "parked", "configure", "unconfigured", "prepared", "opening", "opened",
           "admitted", "handshake", "connected", "ended", "degrading", "backoff", "off"}

NoAttempt == [pc |-> "permit", peer |-> None, cancelled |-> FALSE, missed |-> {}]

LinkInit ==
  /\ loop = NoAttempt
  /\ peer \in Selected
  /\ gate = [suppressed |-> FALSE, released |-> FALSE]
  /\ closed = FALSE
  /\ shown = "not_present"
  /\ wake = FALSE /\ held = FALSE
  /\ connected = {} /\ stranded = {}
  /\ suspect = FALSE

At(pc) == loop.pc = pc
Go(pc) == loop' = [loop EXCEPT !.pc = pc]
InSession == At("handshake") \/ At("connected")

(* attemptCancel is registered while the peer is opened and while frames   *)
(* are read; the link is closed with it.                                   *)
Registered == At("opening") \/ InSession
Cancelled == loop.cancelled \/ closed

(* The attempt is over: what an operation holds of it is of no use.        *)
Over(pc) == loop' = [NoAttempt EXCEPT !.pc = pc] /\ held' = FALSE

(* Peer p is no longer connected.                                          *)
Leaves(p) == connected' = connected \ {p} /\ stranded' = stranded \ {p}

(* closeLinkBounded: whether the peer is disconnected is not looked at.    *)
GivenUp ==
  \/ Leaves(loop.peer)
  \/ UNCHANGED connected /\ stranded' = stranded \cup (connected \cap {loop.peer})

-----------------------------------------------------------------------------
(* The loop, runBLE.                                                       *)

Permit ==
  /\ At("permit")
  /\ IF closed THEN Go("off") /\ UNCHANGED shown
     ELSE IF gate.suppressed THEN Go("parked") /\ shown' = "released"
     ELSE Go("configure") /\ UNCHANGED shown
  /\ UNCHANGED <<peer, gate, closed, wake, held, connected, stranded, suspect>>

(* Both waits look again at the whole state when they are woken.           *)
Woken ==
  /\ At("parked") \/ At("unconfigured")
  /\ \/ closed /\ Go("off") /\ UNCHANGED wake
     \/ wake /\ wake' = FALSE /\ Go("permit")
  /\ UNCHANGED <<peer, gate, closed, shown, held, connected, stranded, suspect>>

Configured ==
  /\ At("configure")
  /\ IF peer = None
     THEN Go("unconfigured") /\ shown' = "not_present"
     ELSE loop' = [loop EXCEPT !.pc = "prepared", !.peer = peer] /\ shown' = "connecting"
  /\ UNCHANGED <<peer, gate, closed, wake, held, connected, stranded, suspect>>

(* The attempt is registered.                                              *)
BeginAttempt ==
  /\ At("prepared")
  /\ Go("opening")
  /\ UNCHANGED <<peer, gate, closed, shown, wake, held, connected, stranded, suspect>>

Open ==
  /\ At("opening")
  /\ ~Cancelled
  /\ connected' = connected \cup {loop.peer} /\ stranded' = stranded \ {loop.peer}
  /\ Go("opened")
  /\ UNCHANGED <<peer, gate, closed, shown, wake, held, suspect>>

(* It may fail after BlueZ has connected the peer, which then stays so.    *)
OpenFails ==
  /\ At("opening")
  /\ Over(IF gate.suppressed THEN "permit" ELSE "degrading")
  /\ \/ UNCHANGED <<connected, stranded>>
     \/ connected' = connected \cup {loop.peer} /\ stranded' = stranded \cup {loop.peer}
  /\ UNCHANGED <<peer, gate, closed, shown, wake, suspect>>

(* Mutation: the connection just made is not given up.                     *)
Admit_Keeps ==
  /\ At("opened")
  /\ IF gate.suppressed THEN Over("permit") ELSE Go("admitted") /\ UNCHANGED held
  /\ UNCHANGED <<peer, gate, closed, shown, wake, connected, stranded, suspect>>

Admit ==
  /\ At("opened")
  /\ IF gate.suppressed
     THEN Over("permit") /\ GivenUp
     ELSE Go("admitted") /\ UNCHANGED <<held, connected, stranded>>
  /\ UNCHANGED <<peer, gate, closed, shown, wake, suspect>>

BeginSession ==
  /\ At("admitted")
  /\ Go("handshake") /\ shown' = "connecting"
  /\ UNCHANGED <<peer, gate, closed, wake, held, connected, stranded, suspect>>

(* Every frame, the last of the handshake and the ones after it, shows the *)
(* adapter as connected, whatever an operation has shown meanwhile.        *)
Frame ==
  /\ InSession /\ loop.peer \in connected
  /\ Go("connected") /\ shown' = "connected"
  /\ UNCHANGED <<peer, gate, closed, wake, held, connected, stranded, suspect>>

(* Once connected, nothing but the context or an error of the bus ends the *)
(* reading; before, the handshake's time does.                             *)
SessionEnds ==
  /\ InSession
  /\ Over("ended") /\ GivenUp
  /\ UNCHANGED <<peer, gate, closed, shown, wake, suspect>>

Judge ==
  /\ At("ended")
  /\ IF closed THEN Go("off")
     ELSE IF gate.suppressed THEN Go("permit")
     ELSE Go("degrading")
  /\ UNCHANGED <<peer, gate, closed, shown, wake, held, connected, stranded, suspect>>

Degrade ==
  /\ At("degrading")
  /\ Go("backoff") /\ shown' = "degraded"
  /\ UNCHANGED <<peer, gate, closed, wake, held, connected, stranded, suspect>>

Retry ==
  /\ At("backoff")
  /\ IF closed THEN Go("off") ELSE Go("permit")
  /\ UNCHANGED <<peer, gate, closed, shown, wake, held, connected, stranded, suspect>>

(* Out of range, switched off or taken by a phone.                         *)
RadioLost(p) ==
  /\ p \in connected
  /\ Leaves(p)
  /\ UNCHANGED <<loop, peer, gate, closed, shown, wake, held, suspect>>

(* reconcileBLEConnectionAfterTransportFailure: a telemetry command could  *)
(* not be written; BlueZ is asked, and the state looked at again.          *)
WriteFails ==
  /\ At("connected") /\ shown = "connected" /\ ~gate.suppressed
  /\ loop.peer = peer /\ peer \notin connected
  /\ ~suspect
  /\ suspect' = TRUE
  /\ UNCHANGED <<loop, peer, gate, closed, shown, wake, held, connected, stranded>>

Reconcile ==
  /\ suspect
  /\ suspect' = FALSE
  /\ IF shown = "connected" /\ ~gate.suppressed
     THEN /\ shown' = "degraded"
          /\ loop' = IF Registered THEN [loop EXCEPT !.cancelled = TRUE] ELSE loop
     ELSE UNCHANGED <<shown, loop>>
  /\ UNCHANGED <<peer, gate, closed, wake, held, connected, stranded>>

-----------------------------------------------------------------------------
(* The adapter's operations, in sections.  The caller of the adapter takes *)
(* care that they come one after the other.                                *)

Suppressed == gate.suppressed
Unsuppressed == [suppressed |-> FALSE, released |-> FALSE]

(* What a section may find of the attempt.  The link is registered a       *)
(* section before the cancel function, so that while the attempt is being  *)
(* admitted there may be something to close or nothing.                    *)
Found == IF At("admitted") THEN BOOLEAN ELSE {Registered}

ReleaseSection ==
  /\ gate' = [suppressed |-> TRUE, released |-> TRUE]
  /\ shown' = "released"
  /\ held' \in Found
  /\ loop' = IF At("admitted") /\ ~held' THEN [loop EXCEPT !.missed = @ \cup {"release"}] ELSE loop
  /\ UNCHANGED <<peer, closed, wake, connected, stranded, suspect>>

(* Mutation: the loop is not told.                                         *)
Resume_Silent ==
  /\ gate' = Unsuppressed /\ shown' = "connecting"
  /\ UNCHANGED <<loop, peer, closed, wake, held, connected, stranded, suspect>>

Resume ==
  /\ gate' = Unsuppressed /\ shown' = "connecting"
  /\ wake' = TRUE
  /\ loop' = [loop EXCEPT !.missed = @ \ {"release"}]
  /\ UNCHANGED <<peer, closed, held, connected, stranded, suspect>>

Chooses(p) ==
  /\ peer' = p
  /\ gate' = Unsuppressed
  /\ shown' = IF p = None THEN "not_present" ELSE "connecting"
  /\ UNCHANGED <<closed, wake, connected, stranded, suspect>>

(* An attempt that has its peer but has registered nothing yet.            *)
Overlooked == (At("prepared") \/ At("opened") \/ At("admitted")) /\ ~held'

(* Mutation: the attempt for the old peer is let go on.                    *)
ConfigureSection_Keeps(p) == Chooses(p) /\ UNCHANGED <<loop, held>>

ConfigureSection(p) ==
  /\ Chooses(p)
  /\ held' \in Found
  /\ loop' = [loop EXCEPT !.missed = IF loop.peer = p THEN {}
                                     ELSE IF Overlooked THEN {"peer"} ELSE @ \ {"release"}]

ReconnectSection ==
  /\ shown' = "connecting"
  /\ held' \in Found
  /\ UNCHANGED <<loop, peer, gate, closed, wake, connected, stranded, suspect>>

(* Mutation: the cancel function is not called.                            *)
CancelHeld_Not == held' = FALSE /\ UNCHANGED loop

(* What was taken in the section is used: the attempt is cancelled, its    *)
(* link closed.                                                            *)
CancelHeld ==
  /\ loop' = IF held THEN [loop EXCEPT !.cancelled = TRUE] ELSE loop
  /\ held' = FALSE

(* disconnectBLEBoundedFor: the peer is disconnected, or the call fails or *)
(* takes too long.                                                         *)
Disconnected(p, done) == IF done THEN Leaves(p) ELSE UNCHANGED <<connected, stranded>>

Close ==
  /\ ~closed
  /\ closed' = TRUE
  /\ gate' = [gate EXCEPT !.suppressed = TRUE]
  /\ \E done \in BOOLEAN : Disconnected(peer, done)
  /\ UNCHANGED <<loop, peer, shown, wake, held, suspect>>

-----------------------------------------------------------------------------
LoopStep ==
  \/ Permit \/ Woken \/ Configured \/ BeginAttempt \/ Open \/ OpenFails \/ Admit
  \/ BeginSession \/ Frame \/ SessionEnds \/ Judge \/ Degrade \/ Retry

RadioStep == (\E p \in Peers : RadioLost(p)) \/ WriteFails \/ Reconcile

(* The loop never rests by itself: its calls and waits are bounded.  A     *)
(* session ends when its context has, and when its handshake takes too     *)
(* long; what the radio does is fair only in the end.                      *)
LoopFairness ==
  /\ WF_linkVars(Permit \/ Woken \/ Configured \/ BeginAttempt \/ OpenFails \/ Admit
                 \/ BeginSession \/ Judge \/ Degrade \/ Retry)
  /\ WF_linkVars(SessionEnds /\ (Cancelled \/ (At("handshake") /\ loop.peer \notin connected)))

RadioFairness == SF_linkVars(Open) /\ SF_linkVars(Frame /\ At("handshake"))

TypeLinkOK ==
  /\ loop \in [pc : Places, peer : Peers \cup {None}, cancelled : BOOLEAN,
               missed : SUBSET {"release", "peer"}]
  /\ peer \in Peers \cup {None}
  /\ gate \in [suppressed : BOOLEAN, released : BOOLEAN]
  /\ closed \in BOOLEAN /\ wake \in BOOLEAN /\ held \in BOOLEAN /\ suspect \in BOOLEAN
  /\ shown \in {"not_present", "connecting", "connected", "released", "degraded"}
  /\ connected \subseteq Peers /\ stranded \subseteq Peers
=============================================================================
