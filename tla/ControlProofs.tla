--------------------------- MODULE ControlProofs ---------------------------
(***************************************************************************)
(* Theorems about MeshCoreControl, and the adapter under it, for all       *)
(* values of the constants: any number of peers and nodes, and whatever    *)
(* goes on beside the operations.                                          *)
(***************************************************************************)
EXTENDS MeshCoreControl, TLAPS

-----------------------------------------------------------------------------
(* Types, and which kinds of operation reach which step.                   *)

OpShape ==
  /\ op.pc \in {"persist", "quiesce", "adapter", "commit"} => op.kind \in {"configure", "forget"}
  /\ op.pc = "settle" =>
       \/ op.then = "done" /\ op.kind \in {"release", "reconnect"}
       \/ op.then = "unbond" /\ op.kind = "forget"
       \/ op.then = "pair" /\ op.kind = "configure" /\ op.pin
       \/ op.then = "commit" /\ op.kind \in {"configure", "forget"}
  /\ op.pc = "release" => op.kind \in {"release", "forget"} \/ (op.kind = "configure" /\ op.pin)
  /\ op.pc = "reconnect" => op.kind = "reconnect"
  /\ op.pc = "pair" => op.kind = "pair" \/ (op.kind = "configure" /\ op.pin)
  /\ op.pc = "unbond" => op.kind = "forget"

Steps ==
  {"free", "release", "settle", "resume", "reconnect", "pair", "unbond", "persist", "quiesce",
   "adapter", "commit"}

Operations ==
  [pc : Steps, kind : Kinds \cup {None}, by : Sides \cup {None}, peer : Peers \cup {None},
   pin : BOOLEAN, then : {None, "done", "unbond", "pair", "commit"}, old : Peers \cup {None}]

ServiceType ==
  /\ op \in Operations
  /\ disk \in Peers \cup {None} /\ memory \in Peers \cup {None}
  /\ saving \in [pc : {"idle", "save", "assign"}, peer : Peers \cup {None}]
  /\ crossed \in BOOLEAN
  /\ beside \in Company

TrackingType ==
  /\ intent \in Nodes \cup {None} /\ request \in Nodes \cup {None}
  /\ tracking \in [active : BOOLEAN, node : Nodes \cup {None}, managed : BOOLEAN, late : BOOLEAN]

LEMMA TypeParts ==
  TypeControlOK <=> TypeLinkOK /\ ServiceType /\ TrackingType
BY DEF TypeControlOK, ServiceType, TrackingType, Operations, Steps

(* An operation in its steps.                                              *)
LEMMA ProceedFacts ==
  ASSUME op \in Operations, NEW pc \in Steps, Proceed(pc)
  PROVE  /\ op' \in Operations /\ op'.pc = pc /\ op'.kind = op.kind /\ op'.by = op.by
         /\ op'.peer = op.peer /\ op'.pin = op.pin /\ op'.then = op.then
BY DEF Operations, Proceed

LEMMA SettleFacts ==
  ASSUME op \in Operations, NEW then \in {"done", "unbond", "pair", "commit"},
         op' = [op EXCEPT !.pc = "settle", !.then = then]
  PROVE  /\ op' \in Operations /\ op'.pc = "settle" /\ op'.kind = op.kind /\ op'.by = op.by
         /\ op'.peer = op.peer /\ op'.pin = op.pin /\ op'.then = then
<1>1. op' = [pc |-> "settle", kind |-> op.kind, by |-> op.by, peer |-> op.peer, pin |-> op.pin,
             then |-> then, old |-> op.old]
  BY DEF Operations
<1> QED
  BY <1>1 DEF Operations, Steps

LEMMA ChosenFacts ==
  ASSUME op \in Operations, NEW old \in Peers \cup {None},
         op' = [op EXCEPT !.pc = "settle", !.then = "commit", !.old = old]
  PROVE  /\ op' \in Operations /\ op'.pc = "settle" /\ op'.kind = op.kind /\ op'.by = op.by
         /\ op'.peer = op.peer /\ op'.pin = op.pin /\ op'.then = "commit"
<1>1. op' = [pc |-> "settle", kind |-> op.kind, by |-> op.by, peer |-> op.peer, pin |-> op.pin,
             then |-> "commit", old |-> old]
  BY DEF Operations
<1> QED
  BY <1>1 DEF Operations, Steps

LEMMA FinishFacts ==
  ASSUME Finish
  PROVE  op' \in Operations /\ op'.pc = "free" /\ op'.kind = None /\ OpShape'
<1>1. op' = NoOp /\ NoOp \in Operations
  BY DEF Finish, NoOp, Operations, Steps, Kinds, Sides
<1>2. NoOp.pc = "free" /\ NoOp.kind = None
  BY DEF NoOp
<1> QED
  BY <1>1, <1>2 DEF OpShape

(* How an operation starts.                                                *)
LEMMA StartsFacts ==
  ASSUME ServiceType, NEW kind \in Kinds, NEW by \in Sides, NEW p \in Peers \cup {None},
         NEW pin \in BOOLEAN, pin => kind = "configure", Starts(kind, by, p, pin)
  PROVE  /\ op' \in Operations /\ op'.kind = kind
         /\ op'.pc \in {"release", "persist", "resume", "reconnect", "pair"}
         /\ OpShape'
<1> DEFINE pc == IF kind = "release" \/ kind = "forget" \/ (kind = "configure" /\ pin)
                 THEN "release"
                 ELSE IF kind = "configure" THEN "persist" ELSE kind
           old == IF kind = "forget" THEN memory ELSE None
<1>1. op' = [pc |-> pc, kind |-> kind, by |-> by, peer |-> p, pin |-> pin, then |-> None, old |-> old]
  BY DEF Starts
<1>2. /\ pc \in {"release", "persist", "resume", "reconnect", "pair"}
      /\ pc = "release" <=> kind \in {"release", "forget"} \/ pin
      /\ pc = "persist" <=> kind = "configure" /\ ~pin
      /\ pc = "reconnect" => kind = "reconnect"
      /\ pc = "pair" => kind = "pair"
      /\ pc = "resume" => kind = "resume"
  BY DEF Kinds
<1>3. old \in Peers \cup {None}
  BY DEF ServiceType
<1> HIDE DEF pc, old
<1>4. op' \in Operations
  BY <1>1, <1>2, <1>3 DEF Operations, Steps
<1>5. OpShape'
  BY <1>1, <1>2 DEF OpShape
<1> QED
  BY <1>1, <1>2, <1>4, <1>5

-----------------------------------------------------------------------------
(* The loop and its attempts.                                              *)

Outside == {"permit", "parked", "configure", "unconfigured", "off", "ended", "degrading", "backoff"}
Admitted == {"admitted", "handshake", "connected"}
Linked == {"opened"} \cup Admitted
Attempting == {"prepared", "opening"} \cup Linked

(* An attempt has a peer.                                                  *)
AttemptsPeer == loop.pc \in Attempting => loop.peer # None

Typed == TypeControlOK /\ OpShape /\ AttemptsPeer

Attempts ==
  [pc : Places, peer : Peers \cup {None}, cancelled : BOOLEAN, missed : SUBSET {"release", "peer"}]

(* The flags of the adapter.                                               *)
FlagsType ==
  closed \in BOOLEAN /\ wake \in BOOLEAN /\ held \in BOOLEAN /\ suspect \in BOOLEAN

PlacesType ==
  /\ loop \in Attempts
  /\ peer \in Peers \cup {None}
  /\ gate \in [suppressed : BOOLEAN, released : BOOLEAN]
  /\ shown \in {"not_present", "connecting", "connected", "released", "degraded"}
  /\ connected \subseteq Peers /\ stranded \subseteq Peers

LEMMA LinkParts == TypeLinkOK <=> PlacesType /\ FlagsType
BY DEF TypeLinkOK, PlacesType, FlagsType, Attempts

LEMMA TypedParts ==
  ASSUME Typed
  PROVE  /\ PlacesType /\ FlagsType /\ ServiceType /\ TrackingType /\ OpShape /\ AttemptsPeer
         /\ op \in Operations /\ op.peer \in Peers \cup {None}
BY TypeParts, LinkParts DEF Typed, ServiceType, Operations

LEMMA GoFacts ==
  ASSUME PlacesType, NEW pc \in Places, Go(pc)
  PROVE  /\ loop' \in Attempts /\ loop'.pc = pc /\ loop'.peer = loop.peer
         /\ loop'.cancelled = loop.cancelled /\ loop'.missed = loop.missed
BY DEF PlacesType, Go, Attempts

LEMMA OverFacts ==
  ASSUME NEW pc \in Places, Over(pc)
  PROVE  loop' \in Attempts /\ loop'.pc = pc /\ ~held'
BY DEF Over, NoAttempt, Attempts, Places

LEMMA CancelFacts ==
  ASSUME PlacesType, loop' = [loop EXCEPT !.cancelled = TRUE]
  PROVE  /\ loop' \in Attempts /\ loop'.pc = loop.pc /\ loop'.peer = loop.peer /\ loop'.cancelled = TRUE
         /\ loop'.missed = loop.missed
BY DEF PlacesType, Attempts

LEMMA MissFacts ==
  ASSUME PlacesType, NEW missed \in SUBSET {"release", "peer"},
         loop' = [loop EXCEPT !.missed = missed]
  PROVE  /\ loop' \in Attempts /\ loop'.pc = loop.pc /\ loop'.peer = loop.peer
         /\ loop'.cancelled = loop.cancelled /\ loop'.missed = missed
BY DEF PlacesType, Attempts

(* Peers that BlueZ has connected and whose disconnect has not failed.     *)
Loose == connected \ stranded

LEMMA LeavesFacts ==
  ASSUME NEW p, Leaves(p)
  PROVE  Loose' \subseteq Loose \ {p} /\ connected' \subseteq connected /\ stranded' \subseteq stranded
BY DEF Leaves, Loose

LEMMA GivenUpFacts ==
  ASSUME GivenUp
  PROVE  /\ Loose' \subseteq Loose \ {loop.peer} /\ connected' \subseteq connected
         /\ stranded' \subseteq stranded \cup connected
<1>1. CASE Leaves(loop.peer)
  BY <1>1, LeavesFacts
<1>2. CASE UNCHANGED connected /\ stranded' = stranded \cup (connected \cap {loop.peer})
  BY <1>2 DEF Loose
<1> QED
  BY <1>1, <1>2 DEF GivenUp

(* What the loop does, and what becomes of what it holds.                  *)
LoopMoves ==
  /\ loop' \in Attempts
  /\ connected' \cup stranded' \subseteq
       connected \cup stranded \cup (IF loop.pc = "opening" THEN {loop.peer} ELSE {})
  /\ \/ loop'.pc = loop.pc /\ loop'.peer = loop.peer /\ Loose' \subseteq Loose
     \/ /\ loop'.pc \in Outside
        /\ Loose' \subseteq Loose
        /\ loop.pc \in Linked => Loose' \subseteq Loose \ {loop.peer}
     \/ /\ loop.pc = "configure" /\ loop'.pc = "prepared" /\ loop'.peer = peer
        /\ peer # None /\ Loose' \subseteq Loose
     \/ /\ loop.pc = "prepared" /\ loop'.pc = "opening" /\ loop'.peer = loop.peer
        /\ Loose' \subseteq Loose
     \/ /\ loop.pc = "opening" /\ loop'.pc = "opened" /\ loop'.peer = loop.peer
        /\ Loose' \subseteq Loose \cup {loop.peer}
     \/ /\ loop.pc \in Linked /\ loop'.pc \in Admitted /\ loop'.peer = loop.peer
        /\ Loose' \subseteq Loose

LEMMA LoopStepMoves ==
  ASSUME PlacesType, LoopStep
  PROVE  LoopMoves
<1>1. CASE Permit
  BY <1>1, GoFacts DEF Permit, At, LoopMoves, Places, Outside, Linked, Admitted, Loose
<1>2. CASE Woken
  BY <1>2, GoFacts DEF Woken, At, LoopMoves, Places, Outside, Linked, Admitted, Loose
<1>3. CASE Configured
  <2>1. CASE peer = None
    BY <1>3, <2>1, GoFacts DEF Configured, At, LoopMoves, Places, Outside, Linked, Admitted, Loose
  <2>2. CASE peer # None
    <3>1. /\ loop' = [loop EXCEPT !.pc = "prepared", !.peer = peer] /\ loop.pc = "configure"
          /\ UNCHANGED <<connected, stranded>>
      BY <1>3, <2>2 DEF Configured, At
    <3>2. loop' = [pc |-> "prepared", peer |-> peer, cancelled |-> loop.cancelled,
                   missed |-> loop.missed]
      BY <3>1 DEF PlacesType, Attempts
    <3>3. loop' \in Attempts /\ loop'.pc = "prepared" /\ loop'.peer = peer
      BY <3>2 DEF PlacesType, Attempts, Places
    <3> QED
      BY <2>2, <3>1, <3>3 DEF LoopMoves, Loose
  <2> QED
    BY <2>1, <2>2
<1>4. CASE BeginAttempt
  BY <1>4, GoFacts DEF BeginAttempt, At, LoopMoves, Places, Loose
<1>5. CASE Open
  <2>1. /\ loop' \in Attempts /\ loop'.pc = "opened" /\ loop'.peer = loop.peer /\ loop.pc = "opening"
        /\ connected' = connected \cup {loop.peer} /\ stranded' = stranded \ {loop.peer}
    BY <1>5, GoFacts DEF Open, At, Places
  <2> QED
    BY <2>1 DEF LoopMoves, Loose
<1>6. CASE OpenFails
  <2>1. loop.pc = "opening" /\ loop' \in Attempts /\ loop'.pc \in Outside
    <3>1. "permit" \in Places /\ "degrading" \in Places /\ "permit" \in Outside /\ "degrading" \in Outside
      BY DEF Places, Outside
    <3> QED
      BY <1>6, <3>1, OverFacts DEF OpenFails, At
  <2>2. \/ UNCHANGED <<connected, stranded>>
        \/ connected' = connected \cup {loop.peer} /\ stranded' = stranded \cup {loop.peer}
    BY <1>6 DEF OpenFails
  <2>3. Loose' \subseteq Loose
    BY <2>2 DEF Loose
  <2> QED
    BY <2>1, <2>2, <2>3 DEF LoopMoves, Linked, Admitted
<1>7. CASE Admit
  <2>1. CASE gate.suppressed
    <3>1. loop.pc = "opened" /\ loop' \in Attempts /\ loop'.pc = "permit" /\ GivenUp
      BY <1>7, <2>1, OverFacts DEF Admit, At, Places
    <3> QED
      BY <3>1, GivenUpFacts DEF LoopMoves, Outside
  <2>2. CASE ~gate.suppressed
    BY <1>7, <2>2, GoFacts DEF Admit, At, LoopMoves, Places, Linked, Admitted, Loose
  <2> QED
    BY <2>1, <2>2
<1>8. CASE BeginSession
  BY <1>8, GoFacts DEF BeginSession, At, LoopMoves, Places, Linked, Admitted, Loose
<1>9. CASE Frame
  BY <1>9, GoFacts DEF Frame, InSession, At, LoopMoves, Places, Linked, Admitted, Loose
<1>10. CASE SessionEnds
  <2>1. loop' \in Attempts /\ loop'.pc = "ended" /\ GivenUp /\ loop.pc # "opening"
    BY <1>10, OverFacts DEF SessionEnds, InSession, At, Places
  <2> QED
    BY <2>1, GivenUpFacts DEF LoopMoves, Outside
<1>11. CASE Judge \/ Degrade \/ Retry
  BY <1>11, GoFacts DEF Judge, Degrade, Retry, At, LoopMoves, Places, Outside, Linked, Admitted, Loose
<1> QED
  BY <1>1, <1>2, <1>3, <1>4, <1>5, <1>6, <1>7, <1>8, <1>9, <1>10, <1>11 DEF LoopStep

(* Every other step leaves the loop where it stands.                       *)
Stays ==
  /\ loop' \in Attempts /\ loop'.pc = loop.pc /\ loop'.peer = loop.peer
  /\ connected' \subseteq connected /\ stranded' \subseteq stranded /\ Loose' \subseteq Loose

LEMMA StaysMoves == Stays => LoopMoves
BY DEF Stays, LoopMoves

LEMMA SameStays ==
  ASSUME PlacesType, loop' = loop, UNCHANGED <<connected, stranded>> \/ \E p : Leaves(p)
  PROVE  Stays
BY LeavesFacts DEF Stays, Loose, PlacesType

LEMMA CancelStays ==
  ASSUME PlacesType, loop' = loop \/ loop' = [loop EXCEPT !.cancelled = TRUE],
         UNCHANGED <<connected, stranded>> \/ \E p : Leaves(p)
  PROVE  Stays
<1>1. loop' \in Attempts /\ loop'.pc = loop.pc /\ loop'.peer = loop.peer
  BY CancelFacts DEF PlacesType
<1> QED
  BY <1>1, LeavesFacts DEF Stays, Loose

LEMMA MissStays ==
  ASSUME PlacesType, NEW missed \in SUBSET {"release", "peer"},
         loop' = [loop EXCEPT !.missed = missed], UNCHANGED <<connected, stranded>>
  PROVE  Stays
BY MissFacts DEF Stays, Loose

(* What the sections of a release, a resume and a configure make of the    *)
(* attempt: it is found, or it is noted that it was not.                   *)
LEMMA FoundFacts ==
  ASSUME held' \in Found
  PROVE  /\ held' \in BOOLEAN
         /\ loop.pc \in {"opening", "handshake", "connected"} => held'
         /\ loop.pc \in {"prepared", "opened"} => ~held'
BY DEF Found, Registered, InSession, At

LEMMA ReleaseMisses ==
  ASSUME PlacesType, ReleaseSection
  PROVE  /\ Stays /\ loop'.cancelled = loop.cancelled
         /\ "peer" \in loop.missed => "peer" \in loop'.missed
         /\ loop.pc \in Admitted => held' \/ "release" \in loop'.missed
         /\ loop.pc = "opening" => held'
<1>1. held' \in Found /\ UNCHANGED <<connected, stranded>>
  BY DEF ReleaseSection
<1>2. CASE At("admitted") /\ ~held'
  <2> DEFINE missed == loop.missed \cup {"release"}
  <2>1. loop' = [loop EXCEPT !.missed = missed] /\ missed \in SUBSET {"release", "peer"}
    BY <1>2 DEF ReleaseSection, PlacesType, Attempts
  <2>2. "release" \in missed /\ ("peer" \in loop.missed => "peer" \in missed)
    OBVIOUS
  <2> HIDE DEF missed
  <2>3. loop'.missed = missed /\ loop'.cancelled = loop.cancelled /\ Stays
    BY <1>1, <2>1, MissFacts, MissStays
  <2> QED
    BY <1>2, <2>2, <2>3 DEF At
<1>3. CASE ~(At("admitted") /\ ~held')
  <2>1. loop' = loop
    BY <1>3 DEF ReleaseSection
  <2> QED
    BY <1>1, <1>3, <2>1, SameStays, FoundFacts DEF At, Admitted
<1> QED
  BY <1>2, <1>3

LEMMA ResumeMisses ==
  ASSUME PlacesType, Resume
  PROVE  /\ Stays /\ loop'.cancelled = loop.cancelled
         /\ "peer" \in loop.missed => "peer" \in loop'.missed
<1> DEFINE missed == loop.missed \ {"release"}
<1>1. /\ loop' = [loop EXCEPT !.missed = missed] /\ missed \in SUBSET {"release", "peer"}
      /\ UNCHANGED <<connected, stranded>> /\ ("peer" \in loop.missed => "peer" \in missed)
  BY DEF Resume, PlacesType, Attempts
<1> HIDE DEF missed
<1> QED
  BY <1>1, MissFacts, MissStays

LEMMA ConfigureMisses ==
  ASSUME PlacesType, NEW p \in Peers \cup {None}, ConfigureSection(p)
  PROVE  /\ Stays /\ loop'.cancelled = loop.cancelled
         /\ loop.pc \in Attempting => loop.peer = p \/ held' \/ "peer" \in loop'.missed
<1> DEFINE missed == IF loop.peer = p THEN {} ELSE IF Overlooked THEN {"peer"} ELSE loop.missed \ {"release"}
<1>1. /\ held' \in Found /\ UNCHANGED <<connected, stranded>>
      /\ loop' = [loop EXCEPT !.missed = missed]
  BY DEF ConfigureSection, Chooses
<1>2. missed \in SUBSET {"release", "peer"} /\ (loop.peer # p /\ Overlooked => "peer" \in missed)
  BY DEF PlacesType, Attempts
<1> HIDE DEF missed
<1>3. loop'.missed = missed /\ loop'.cancelled = loop.cancelled /\ Stays
  BY <1>1, <1>2, MissFacts, MissStays
<1>4. loop.pc \in Attempting => held' \/ Overlooked
  BY <1>1, FoundFacts DEF Overlooked, At, Attempting, Linked, Admitted
<1> QED
  BY <1>2, <1>3, <1>4

LEMMA OthersStay ==
  ASSUME Typed, Next, ~LoopStep
  PROVE  Stays
<1>1. PlacesType /\ op.peer \in Peers \cup {None}
  BY TypedParts
<1>2. CASE RadioStep
  BY <1>1, <1>2, CancelStays DEF RadioStep, RadioLost, WriteFails, Reconcile
<1>3. CASE OpStep
  <2>1. CASE OpRelease
    BY <1>1, <2>1, ReleaseMisses, SameStays DEF OpRelease, linkVars
  <2>2. CASE OpSettle
    BY <1>1, <2>2, CancelStays DEF OpSettle, CancelHeld, Disconnected
  <2>3. CASE OpResume
    BY <1>1, <2>3, ResumeMisses, SameStays DEF OpResume, linkVars
  <2>4. CASE OpAdapter
    BY <1>1, <2>4, ConfigureMisses, SameStays DEF OpAdapter, linkVars
  <2>5. CASE OpReconnect \/ OpPair \/ OpUnbond \/ OpPersist \/ OpQuiesce \/ OpCommit
    BY <1>1, <2>5, SameStays DEF OpReconnect, ReconnectSection, OpPair, OpUnbond, OpPersist, OpQuiesce,
       OpCommit, linkVars
  <2> QED
    BY <1>3, <2>1, <2>2, <2>3, <2>4, <2>5 DEF OpStep
<1>4. CASE TrackingStep \/ SavingStep
  BY <1>1, <1>4, SameStays DEF TrackingStep, IntentArrives, IntentServed, TrackingRequested,
     TrackingServed, TrackingEnded, SavingStep, linkVars
<1>5. CASE PortalOperation \/ CloudOperation \/ Shutdown \/ (\E p \in Peers : PortalForget(p))
  BY <1>1, <1>5, SameStays DEF PortalOperation, CloudOperation, Shutdown, Close, Disconnected,
     PortalForget, linkVars
<1> QED
  BY <1>2, <1>3, <1>4, <1>5 DEF Next

LEMMA AllMove ==
  ASSUME Typed, [Next]_vars
  PROVE  LoopMoves
<1>1. PlacesType
  BY TypedParts
<1>2. CASE UNCHANGED vars
  BY <1>1, <1>2, SameStays, StaysMoves DEF vars, linkVars
<1>3. CASE Next
  BY <1>1, <1>3, LoopStepMoves, OthersStay, StaysMoves
<1> QED
  BY <1>2, <1>3

-----------------------------------------------------------------------------
(* BlueZ has connected no peer, but the one of the attempt under way and   *)
(* those whose disconnect has failed.                                      *)

OnlyAttempted == Loose \subseteq (IF loop.pc \in Linked THEN {loop.peer} ELSE {})

LEMMA AttemptedKept ==
  ASSUME OnlyAttempted, LoopMoves
  PROVE  OnlyAttempted'
BY DEF OnlyAttempted, LoopMoves, Linked, Admitted, Outside

LEMMA ConnectedKept ==
  ASSUME PlacesType, AttemptsPeer, LoopMoves
  PROVE  connected' \subseteq Peers /\ stranded' \subseteq Peers /\ AttemptsPeer'
<1>1. AttemptsPeer'
  BY DEF AttemptsPeer, LoopMoves, Attempting, Linked, Admitted, Outside
<1>2. loop.pc = "opening" => loop.peer \in Peers
  BY DEF PlacesType, Attempts, AttemptsPeer, Attempting
<1> QED
  BY <1>1, <1>2 DEF PlacesType, LoopMoves

-----------------------------------------------------------------------------
(* Type correctness.                                                       *)

LEMMA LinkTypeKept ==
  ASSUME Typed, [Next]_vars
  PROVE  PlacesType' /\ FlagsType' /\ AttemptsPeer'
<1>1. /\ LoopMoves /\ connected' \subseteq Peers /\ stranded' \subseteq Peers /\ AttemptsPeer'
      /\ PlacesType /\ FlagsType /\ op.peer \in Peers \cup {None}
  BY TypedParts, AllMove, ConnectedKept
<1>2. loop' \in Attempts
  BY <1>1 DEF LoopMoves
<1>3. /\ peer' \in Peers \cup {None}
      /\ gate' \in [suppressed : BOOLEAN, released : BOOLEAN]
      /\ shown' \in {"not_present", "connecting", "connected", "released", "degraded"}
  <2>1. /\ peer \in Peers \cup {None} /\ gate \in [suppressed : BOOLEAN, released : BOOLEAN]
        /\ shown \in {"not_present", "connecting", "connected", "released", "degraded"}
    BY <1>1 DEF PlacesType
  <2>2. CASE LoopStep \/ RadioStep
    BY <2>1, <2>2 DEF LoopStep, Permit, Woken, Configured, BeginAttempt, Open, OpenFails, Admit,
       BeginSession, Frame, SessionEnds, Judge, Degrade, Retry, RadioStep, RadioLost, WriteFails,
       Reconcile
  <2>3. CASE OpStep
    <3>1. CASE UNCHANGED <<peer, gate, shown>>
      BY <2>1, <3>1
    <3>a. /\ [suppressed |-> TRUE, released |-> TRUE] \in [suppressed : BOOLEAN, released : BOOLEAN]
          /\ Unsuppressed \in [suppressed : BOOLEAN, released : BOOLEAN]
      BY DEF Unsuppressed
    <3>2. CASE OpRelease
      BY <2>1, <3>1, <3>a, <3>2 DEF OpRelease, ReleaseSection, linkVars
    <3>3. CASE OpResume
      BY <2>1, <3>1, <3>a, <3>3 DEF OpResume, Resume, linkVars
    <3>4. CASE OpReconnect
      BY <2>1, <3>1, <3>4 DEF OpReconnect, ReconnectSection, linkVars
    <3>5. CASE OpAdapter
      BY <1>1, <2>1, <3>1, <3>a, <3>5 DEF OpAdapter, ConfigureSection, Chooses, linkVars
    <3>6. CASE OpSettle \/ OpPair \/ OpUnbond \/ OpPersist \/ OpQuiesce \/ OpCommit
      BY <3>1, <3>6 DEF OpSettle, OpPair, OpUnbond, OpPersist, OpQuiesce, OpCommit, linkVars
    <3> QED
      BY <2>3, <3>2, <3>3, <3>4, <3>5, <3>6 DEF OpStep
  <2>4. CASE \/ PortalOperation \/ CloudOperation \/ TrackingStep \/ SavingStep
             \/ (\E p \in Peers : PortalForget(p)) \/ UNCHANGED vars
    BY <2>1, <2>4 DEF PortalOperation, CloudOperation, PortalForget, TrackingStep, IntentArrives,
       IntentServed, TrackingRequested, TrackingServed, TrackingEnded, SavingStep, linkVars, vars
  <2>5. CASE Shutdown
    BY <2>1, <2>5 DEF Shutdown, Close
  <2> QED
    BY <2>2, <2>3, <2>4, <2>5 DEF Next
<1>4. FlagsType'
  <2>1. \A b \in Found : b \in BOOLEAN
    BY DEF Found, Registered
  <2>2. CASE LoopStep
    BY <1>1, <2>2 DEF LoopStep, Permit, Woken, Configured, BeginAttempt, Open, OpenFails, Admit,
       BeginSession, Frame, SessionEnds, Judge, Degrade, Retry, Over, FlagsType
  <2>3. CASE RadioStep
    BY <1>1, <2>3 DEF RadioStep, RadioLost, WriteFails, Reconcile, FlagsType
  <2>4. CASE OpRelease \/ OpAdapter \/ OpReconnect
    BY <1>1, <2>1, <2>4 DEF OpRelease, OpAdapter, OpReconnect, ReleaseSection, ReconnectSection,
       ConfigureSection, Chooses, linkVars, FlagsType
  <2>5. CASE OpSettle
    BY <1>1, <2>5 DEF OpSettle, CancelHeld, FlagsType
  <2>6. CASE OpResume \/ OpPair \/ OpUnbond \/ OpPersist \/ OpQuiesce \/ OpCommit
    BY <1>1, <2>6 DEF OpResume, OpPair, OpUnbond, OpPersist, OpQuiesce, OpCommit, Resume, linkVars,
       FlagsType
  <2>7. CASE \/ PortalOperation \/ CloudOperation \/ TrackingStep \/ SavingStep
             \/ (\E p \in Peers : PortalForget(p)) \/ UNCHANGED vars
    BY <1>1, <2>7 DEF PortalOperation, CloudOperation, PortalForget, TrackingStep, IntentArrives,
       IntentServed, TrackingRequested, TrackingServed, TrackingEnded, SavingStep, linkVars, vars,
       FlagsType
  <2>8. CASE Shutdown
    BY <1>1, <2>8 DEF Shutdown, Close, FlagsType
  <2> QED
    BY <2>2, <2>3, <2>4, <2>5, <2>6, <2>7, <2>8 DEF Next, OpStep
<1> QED
  BY <1>1, <1>2, <1>3, <1>4 DEF PlacesType

(* How an operation goes on: to a step of its kind, or to its end.         *)
LEMMA OpStepTyped ==
  ASSUME Typed, OpStep
  PROVE  op' \in Operations /\ OpShape'
<1>1. op \in Operations /\ OpShape /\ PlacesType
  BY TypedParts
<1>2. CASE Finish
  BY <1>2, FinishFacts
<1>3. CASE OpRelease
  <2> DEFINE then == IF op.kind = "forget" THEN "unbond"
                     ELSE IF op.kind = "configure" THEN "pair" ELSE "done"
  <2>1. CASE op' = [op EXCEPT !.pc = "settle", !.then = then] /\ op.pc = "release"
    <3>1. /\ then \in {"done", "unbond", "pair", "commit"}
          /\ \/ then = "done" /\ op.kind = "release"
             \/ then = "unbond" /\ op.kind = "forget"
             \/ then = "pair" /\ op.kind = "configure" /\ op.pin
      BY <1>1, <2>1 DEF OpShape
    <3> HIDE DEF then
    <3> QED
      BY <1>1, <2>1, <3>1, SettleFacts DEF OpShape
  <2> QED
    BY <1>2, <1>3, <2>1 DEF OpRelease, Working
<1>4. CASE OpSettle
  <2>1. CASE Proceed(op.then) /\ op.then # "done"
    <3>1. \/ op.then = "unbond" /\ op.kind = "forget"
          \/ op.then = "pair" /\ op.kind = "configure" /\ op.pin
          \/ op.then = "commit" /\ op.kind \in {"configure", "forget"}
      BY <1>1, <1>4, <2>1 DEF OpSettle, Working, OpShape
    <3>2. op.then \in Steps
      BY <3>1 DEF Steps
    <3> QED
      BY <1>1, <2>1, <3>1, <3>2, ProceedFacts DEF OpShape
  <2> QED
    BY <1>2, <1>4, <2>1 DEF OpSettle
<1>5. CASE OpResume
  BY <1>2, <1>5 DEF OpResume
<1>6. CASE OpReconnect
  <2>1. op.kind = "reconnect"
    BY <1>1, <1>6 DEF OpReconnect, Working, OpShape
  <2>2. CASE op' = [op EXCEPT !.pc = "settle", !.then = "done"]
    BY <1>1, <2>1, <2>2, SettleFacts DEF OpShape
  <2> QED
    BY <1>2, <1>6, <2>2 DEF OpReconnect
<1>7. CASE OpPair
  <2>1. CASE op.kind # "pair" /\ \E next \in {"persist", "resume"} : Proceed(next)
    <3>1. op.kind = "configure" /\ "persist" \in Steps /\ "resume" \in Steps
      BY <1>1, <1>7, <2>1 DEF OpPair, Working, OpShape, Steps
    <3> QED
      BY <1>1, <2>1, <3>1, ProceedFacts DEF OpShape
  <2> QED
    BY <1>2, <1>7, <2>1 DEF OpPair
<1>8. CASE OpUnbond
  <2>1. op.kind = "forget" /\ "persist" \in Steps /\ "resume" \in Steps
    BY <1>1, <1>8 DEF OpUnbond, Working, OpShape, Steps
  <2> QED
    BY <1>1, <1>8, <2>1, ProceedFacts DEF OpUnbond, OpShape
<1>9. CASE OpPersist
  <2>1. op.kind \in {"configure", "forget"} /\ {"adapter", "quiesce", "resume"} \subseteq Steps
    BY <1>1, <1>9 DEF OpPersist, Working, OpShape, Steps
  <2>2. CASE \E pc \in {"adapter", "quiesce", "resume"} : Proceed(pc)
    BY <1>1, <2>1, <2>2, ProceedFacts DEF OpShape
  <2> QED
    BY <1>2, <1>9, <2>2 DEF OpPersist
<1>10. CASE OpQuiesce
  <2>1. op.kind \in {"configure", "forget"} /\ "adapter" \in Steps
    BY <1>1, <1>10 DEF OpQuiesce, Working, OpShape, Steps
  <2> QED
    BY <1>1, <1>10, <2>1, ProceedFacts DEF OpQuiesce, OpShape
<1>11. CASE OpAdapter
  <2> DEFINE old == IF op.kind = "configure" /\ peer # op.peer THEN peer ELSE None
  <2>1. op.kind \in {"configure", "forget"} /\ old \in Peers \cup {None}
    BY <1>1, <1>11 DEF OpAdapter, Working, OpShape, PlacesType
  <2>2. CASE op' = [op EXCEPT !.pc = "settle", !.then = "commit", !.old = old]
    <3> HIDE DEF old
    <3> QED
      BY <1>1, <2>1, <2>2, ChosenFacts DEF OpShape
  <2> QED
    BY <1>2, <1>11, <2>2 DEF OpAdapter
<1>12. CASE OpCommit
  BY <1>2, <1>12 DEF OpCommit
<1> QED
  BY <1>3, <1>4, <1>5, <1>6, <1>7, <1>8, <1>9, <1>10, <1>11, <1>12 DEF OpStep

LEMMA StartedOperation ==
  ASSUME Typed, PortalOperation \/ CloudOperation
  PROVE  /\ Free /\ ~closed
         /\ op' \in Operations /\ OpShape'
         /\ op'.pc \in {"release", "persist", "resume", "reconnect", "pair"}
         /\ UNCHANGED <<linkVars, disk, memory, intent, request, saving, crossed, beside>>
         /\ tracking' = IF op'.kind \in {"release", "forget"} THEN Stopped ELSE tracking
<1>1. ASSUME NEW kind \in Kinds, NEW by \in Sides, NEW p \in Peers \cup {None}, NEW pin \in BOOLEAN,
             pin => kind = "configure", Starts(kind, by, p, pin)
      PROVE  /\ op' \in Operations /\ OpShape'
             /\ op'.pc \in {"release", "persist", "resume", "reconnect", "pair"}
             /\ tracking' = IF op'.kind \in {"release", "forget"} THEN Stopped ELSE tracking
  BY <1>1, StartsFacts, TypedParts DEF Starts
<1>2. /\ Kinds \ {"configure", "pair"} \subseteq Kinds /\ {"release", "resume", "pair", "configure"} \subseteq Kinds
      /\ "portal" \in Sides /\ "cloud" \in Sides /\ FALSE \in BOOLEAN /\ None \in Peers \cup {None}
  BY DEF Kinds, Sides
<1>3. CASE PortalOperation
  <2>1. \E kind \in Kinds, p \in Peers \cup {None} : Starts(kind, "portal", p, FALSE)
    BY <1>2, <1>3 DEF PortalOperation
  <2> QED
    BY <1>1, <1>2, <1>3, <2>1 DEF PortalOperation
<1>4. CASE CloudOperation
  <2>1. \/ \E kind \in Kinds : Starts(kind, "cloud", None, FALSE)
        \/ \E p \in Peers, pin \in BOOLEAN : Starts("configure", "cloud", p, pin)
    BY <1>2, <1>4 DEF CloudOperation
  <2> QED
    BY <1>1, <1>2, <1>4, <2>1 DEF CloudOperation
<1> QED
  BY <1>3, <1>4

(* The file, the service's copy and the tracking.                          *)
LEMMA ServiceKept ==
  ASSUME Typed, [Next]_vars
  PROVE  ServiceType' /\ TrackingType' /\ OpShape'
<1>1. ServiceType /\ TrackingType /\ OpShape /\ op \in Operations /\ op.peer \in Peers \cup {None}
  BY TypedParts
<1>2. CASE UNCHANGED serviceVars
  BY <1>1, <1>2 DEF serviceVars, ServiceType, TrackingType, OpShape
<1>3. CASE PortalOperation \/ CloudOperation
  <2>1. tracking' \in {tracking, Stopped}
    BY <1>3, StartedOperation
  <2> QED
    BY <1>1, <1>3, <2>1, StartedOperation DEF ServiceType, TrackingType, Stopped
<1>4. CASE OpStep
  <2>1. op' \in Operations /\ OpShape'
    BY <1>4, OpStepTyped
  <2>2. /\ disk' \in {disk, op.peer} /\ memory' \in {memory, op.peer} /\ crossed' \in BOOLEAN
        /\ tracking' \in {tracking, Stopped} /\ UNCHANGED <<saving, beside, intent, request>>
    BY <1>1, <1>4 DEF OpStep, OpRelease, OpSettle, OpResume, OpReconnect, OpPair, OpUnbond, OpPersist,
       OpQuiesce, OpAdapter, OpCommit, unchangedHere, ServiceType
  <2> QED
    BY <1>1, <2>1, <2>2 DEF ServiceType, TrackingType, Stopped
<1>5. CASE TrackingStep
  <2>1. UNCHANGED opVars
    BY <1>5 DEF TrackingStep, IntentArrives, IntentServed, TrackingRequested, TrackingServed,
       TrackingEnded
  <2>2. Free \in BOOLEAN /\ Suppressed \in BOOLEAN
    BY TypedParts DEF Free, Suppressed, PlacesType
  <2>3. TrackingType'
    <3>1. CASE IntentArrives \/ TrackingRequested \/ TrackingEnded
      BY <1>1, <3>1 DEF IntentArrives, TrackingRequested, TrackingEnded, TrackingType, Stopped
    <3>2. CASE IntentServed \/ TrackingServed
      BY <1>1, <2>2, <3>2 DEF IntentServed, TrackingServed, TrackingType, Polling
    <3> QED
      BY <1>5, <3>1, <3>2 DEF TrackingStep
  <2> QED
    BY <1>1, <2>1, <2>3 DEF opVars, ServiceType, OpShape
<1>6. CASE SavingStep
  <2>1. Changing \in BOOLEAN
    BY DEF Changing
  <2> QED
    BY <1>1, <1>6, <2>1 DEF SavingStep, ConfigCopied, ConfigSaved, ConfigAssigned, NotSaving,
       ServiceType, TrackingType, OpShape
<1>7. CASE Shutdown
  <2>1. UNCHANGED <<opVars, intent, request>> /\ tracking' = Stopped
    BY <1>7 DEF Shutdown
  <2>2. TrackingType'
    BY <1>1, <2>1 DEF TrackingType, Stopped
  <2> QED
    BY <1>1, <2>1, <2>2 DEF opVars, ServiceType, OpShape
<1>8. CASE \E p \in Peers : PortalForget(p)
  BY <1>2, <1>8 DEF PortalForget
<1> QED
  BY <1>2, <1>3, <1>4, <1>5, <1>6, <1>7, <1>8 DEF Next, vars

LEMMA TypedInitially == Init => Typed
<1> SUFFICES ASSUME Init PROVE Typed
  OBVIOUS
<1>1. PlacesType /\ FlagsType /\ AttemptsPeer
  BY PeersAssumption DEF Init, LinkInit, NoAttempt, PlacesType, FlagsType, AttemptsPeer, Places,
     Attempts, Attempting, Linked, Admitted
<1>2. ServiceType /\ OpShape
  BY <1>1, ControlAssumption DEF Init, ServiceType, PlacesType, OpShape, NoOp, NotSaving, Operations,
     Steps, Kinds, Sides
<1>3. TrackingType
  BY DEF Init, TrackingType
<1> QED
  BY <1>1, <1>2, <1>3, TypeParts, LinkParts DEF Typed

LEMMA TypedInductive == Typed /\ [Next]_vars => Typed'
<1> SUFFICES ASSUME Typed, [Next]_vars PROVE Typed'
  OBVIOUS
<1>1. PlacesType' /\ FlagsType' /\ AttemptsPeer'
  BY LinkTypeKept
<1>2. ServiceType' /\ TrackingType' /\ OpShape'
  BY ServiceKept
<1> QED
  BY <1>1, <1>2 DEF Typed, TypeControlOK, TypeLinkOK, PlacesType, FlagsType, ServiceType,
     TrackingType, Operations, Steps, Attempts

(* The adapter, the operations on it and the tracking keep to their types; *)
(* an operation reaches only the steps of its kind.                        *)
THEOREM ControlTypeCorrect == Spec => []TypeControlOK
<1>1. Typed => TypeControlOK
  BY DEF Typed
<1> QED
  BY <1>1, TypedInitially, TypedInductive, PTL DEF Spec

(* A loop that rests, parked, unconfigured or ended, keeps a companion     *)
(* connected only if its disconnect has failed, whichever sections of      *)
(* operations fall between the loop's steps and however its attempts end.  *)
THEOREM RadioAlwaysHandedBack == Spec => []RadioHandedBack
<1>1. Init => OnlyAttempted
  BY DEF Init, LinkInit, OnlyAttempted, Loose
<1>2. Typed /\ OnlyAttempted /\ [Next]_vars => OnlyAttempted'
  BY AllMove, AttemptedKept
<1>3. OnlyAttempted => RadioHandedBack
  BY DEF OnlyAttempted, RadioHandedBack, Loose, Linked, Admitted
<1> QED
  BY <1>1, <1>2, <1>3, TypedInitially, TypedInductive, PTL DEF Spec

-----------------------------------------------------------------------------
(* The file, the service and the adapter.  An operation writes the file    *)
(* first, then the adapter, then the service's copy.                       *)

Stored == op.pc = "commit" \/ (op.pc = "settle" /\ op.then = "commit")

Consistent ==
  ~closed /\ ~crossed =>
    /\ IF op.pc \in {"quiesce", "adapter"} THEN disk = op.peer
       ELSE IF Stored THEN disk = op.peer /\ peer = op.peer
       ELSE disk = memory /\ memory = peer
    /\ saving # NotSaving => saving.peer = memory /\ ~Changing

LEMMA OperationsLeaveOpen ==
  ASSUME OpStep
  PROVE  UNCHANGED <<closed, saving>> /\ (UNCHANGED crossed \/ OpPersist)
BY DEF OpStep, OpRelease, OpSettle, OpResume, OpReconnect, OpPair, OpUnbond, OpQuiesce, OpAdapter,
   OpPersist, OpCommit, ReleaseSection, ReconnectSection, ConfigureSection, Chooses, Resume,
   unchangedHere, linkVars

(* Whatever is not an operation on the adapter, nor a saving of the        *)
(* configuration, leaves all three alone.                                  *)
LEMMA ConfigurationLeftAlone ==
  ASSUME [Next]_vars, ~OpStep, ~PortalOperation, ~CloudOperation, ~SavingStep, ~closed'
  PROVE  UNCHANGED <<op, disk, memory, peer, closed, saving, crossed>>
<1>1. CASE LoopStep /\ UNCHANGED serviceVars
  BY <1>1 DEF LoopStep, Permit, Woken, Configured, BeginAttempt, Open, OpenFails, Admit,
     BeginSession, Frame, SessionEnds, Judge, Degrade, Retry, serviceVars
<1>2. CASE RadioStep /\ UNCHANGED serviceVars
  BY <1>2 DEF RadioStep, RadioLost, WriteFails, Reconcile, serviceVars
<1>3. CASE Shutdown \/ (\E p \in Peers : PortalForget(p)) \/ UNCHANGED vars
  BY <1>3 DEF Shutdown, Close, PortalForget, vars, serviceVars, linkVars
<1>4. CASE TrackingStep
  BY <1>4 DEF TrackingStep, IntentArrives, IntentServed, TrackingRequested, TrackingServed,
     TrackingEnded, opVars, linkVars
<1> QED
  BY <1>1, <1>2, <1>3, <1>4 DEF Next

LEMMA ConsistentSaving ==
  ASSUME Typed, Consistent, SavingStep, ~closed', ~crossed'
  PROVE  Consistent'
<1>1. UNCHANGED <<op, peer, closed>> /\ ~closed
  BY DEF SavingStep, linkVars
<1>2. NotSaving.pc = "idle"
  BY DEF NotSaving
<1>3. CASE ConfigCopied
  <2>1. ~crossed /\ ~Changing /\ saving'.peer = memory /\ UNCHANGED <<disk, memory>>
    BY <1>3 DEF ConfigCopied
  <2> QED
    BY <1>1, <2>1 DEF Consistent, Changing, Stored
<1>4. CASE ConfigSaved
  <2>1. ~crossed /\ memory' = memory /\ saving # NotSaving
    BY <1>2, <1>4 DEF ConfigSaved
  <2>2. saving.peer = memory /\ ~Changing /\ disk = memory /\ memory = peer
    BY <1>1, <2>1 DEF Consistent, Changing, Stored
  <2>3. disk' = disk /\ (saving' = NotSaving \/ saving' = [saving EXCEPT !.pc = "assign"])
    BY <1>4, <2>2 DEF ConfigSaved
  <2>4. saving' # NotSaving => saving'.peer = memory
    BY <2>2, <2>3, TypedParts DEF ServiceType
  <2> QED
    BY <1>1, <2>1, <2>2, <2>3, <2>4 DEF Consistent, Changing, Stored
<1>5. CASE ConfigAssigned
  <2>1. /\ ~crossed /\ disk' = disk /\ saving # NotSaving /\ memory' = saving.peer
        /\ saving' = NotSaving
    BY <1>2, <1>5 DEF ConfigAssigned
  <2> QED
    BY <1>1, <2>1 DEF Consistent, Changing, Stored
<1> QED
  BY <1>3, <1>4, <1>5 DEF SavingStep

LEMMA ConsistentOperation ==
  ASSUME Typed, Consistent, OpStep, ~closed', ~crossed'
  PROVE  Consistent'
<1>1. OpShape /\ op \in Operations /\ UNCHANGED <<closed, saving>> /\ ~closed
  BY TypedParts, OperationsLeaveOpen
<1>2. Finish => op'.pc = "free"
  BY FinishFacts
<1>3. ASSUME UNCHANGED <<disk, memory, peer, crossed>>,
             op.pc \notin {"quiesce", "adapter"}, ~Stored, op'.pc \notin {"quiesce", "adapter"}, ~Stored'
      PROVE  Consistent'
  BY <1>1, <1>3 DEF Consistent, Changing, Stored
<1>4. CASE OpRelease
  <2> DEFINE then == IF op.kind = "forget" THEN "unbond"
                     ELSE IF op.kind = "configure" THEN "pair" ELSE "done"
  <2>1. /\ UNCHANGED <<disk, memory, peer, crossed>> /\ op.pc = "release"
        /\ op' = [op EXCEPT !.pc = "settle", !.then = then]
    BY <1>1, <1>4 DEF OpRelease, Working, ReleaseSection, unchangedHere
  <2>2. then \in {"done", "unbond", "pair", "commit"} /\ then # "commit"
    OBVIOUS
  <2> HIDE DEF then
  <2>3. op'.pc = "settle" /\ op'.then = then
    BY <1>1, <2>1, <2>2, SettleFacts
  <2> QED
    BY <1>3, <2>1, <2>2, <2>3 DEF Stored
<1>5. CASE OpSettle
  <2>1. UNCHANGED <<disk, memory, peer, crossed>> /\ op.pc = "settle"
    BY <1>5 DEF OpSettle, Working, unchangedHere
  <2>2. CASE op.then = "commit"
    <3>1. op'.peer = op.peer /\ op'.pc = "commit"
      <4>1. op.kind # "reconnect" /\ "commit" \in Steps
        BY <1>1, <2>1, <2>2 DEF OpShape, Steps
      <4>2. Proceed("commit")
        BY <1>5, <2>2, <4>1 DEF OpSettle
      <4> QED
        BY <1>1, <4>1, <4>2, ProceedFacts
    <3> QED
      BY <1>1, <2>1, <2>2, <3>1 DEF Consistent, Changing, Stored
  <2>3. CASE op.then # "commit"
    <3>1. op.then \in {"done", "unbond", "pair"} /\ {"unbond", "pair"} \subseteq Steps
      BY <1>1, <2>1, <2>3 DEF OpShape, Steps
    <3>2. op'.pc \in {"free", "unbond", "pair"}
      BY <1>1, <1>2, <1>5, <3>1, ProceedFacts DEF OpSettle
    <3> QED
      BY <1>3, <2>1, <2>3, <3>2 DEF Stored
  <2> QED
    BY <2>2, <2>3
<1>6. CASE OpResume
  BY <1>2, <1>3, <1>6 DEF OpResume, Working, Resume, unchangedHere, linkVars, Stored
<1>7. CASE OpReconnect
  <2>1. op'.pc = "free" \/ (op'.pc = "settle" /\ op'.then = "done")
    BY <1>1, <1>2, <1>7, SettleFacts DEF OpReconnect
  <2> QED
    BY <1>3, <1>7, <2>1 DEF OpReconnect, Working, ReconnectSection, unchangedHere, linkVars, Stored
<1>8. CASE OpPair \/ OpUnbond
  <2>1. {"persist", "resume"} \subseteq Steps
    BY DEF Steps
  <2>2. op'.pc \in {"free", "persist", "resume"}
    BY <1>1, <1>2, <1>8, <2>1, ProceedFacts DEF OpPair, OpUnbond
  <2> QED
    BY <1>3, <1>8, <2>2 DEF OpPair, OpUnbond, Working, unchangedHere, linkVars, Stored
<1>9. CASE OpPersist
  <2>1. {"quiesce", "adapter", "resume"} \subseteq Steps
    BY DEF Steps
  <2>2. \/ /\ disk' = op.peer /\ op'.pc \in {"quiesce", "adapter"} /\ op'.peer = op.peer
           /\ crossed' = (saving # NotSaving)
        \/ disk' = disk /\ op'.pc \in {"resume", "free"} /\ crossed' = crossed
    BY <1>1, <1>2, <1>9, <2>1, ProceedFacts DEF OpPersist
  <2>3. UNCHANGED <<memory, peer>> /\ op.pc = "persist"
    BY <1>9 DEF OpPersist, Working, linkVars
  <2> QED
    BY <1>1, <1>3, <2>2, <2>3 DEF Consistent, Changing, Stored
<1>10. CASE OpQuiesce
  <2>1. op'.pc = "adapter" /\ op'.peer = op.peer
    BY <1>1, <1>10, ProceedFacts DEF OpQuiesce, Steps
  <2> QED
    BY <1>1, <1>10, <2>1 DEF OpQuiesce, Working, unchangedHere, linkVars, Consistent, Changing, Stored
<1>11. CASE OpAdapter
  <2> DEFINE old == IF op.kind = "configure" /\ peer # op.peer THEN peer ELSE None
  <2>1. /\ peer' = op.peer /\ op' = [op EXCEPT !.pc = "settle", !.then = "commit", !.old = old]
        /\ UNCHANGED <<disk, memory, crossed>> /\ op.pc = "adapter"
    BY <1>1, <1>11 DEF OpAdapter, Working, ConfigureSection, Chooses, unchangedHere
  <2>2. old \in Peers \cup {None}
    BY TypedParts DEF PlacesType
  <2> HIDE DEF old
  <2>3. op'.pc = "settle" /\ op'.then = "commit" /\ op'.peer = op.peer
    BY <1>1, <2>1, <2>2, ChosenFacts
  <2> QED
    BY <1>1, <2>1, <2>3 DEF Consistent, Changing, Stored
<1>12. CASE OpCommit
  BY <1>1, <1>2, <1>12 DEF OpCommit, Working, linkVars, Consistent, Changing, Stored
<1> QED
  BY <1>4, <1>5, <1>6, <1>7, <1>8, <1>9, <1>10, <1>11, <1>12 DEF OpStep

LEMMA ConsistentKept == Typed /\ Consistent /\ [Next]_vars => Consistent'
<1> SUFFICES ASSUME Typed, Consistent, [Next]_vars, ~closed', ~crossed' PROVE Consistent'
  BY DEF Consistent
<1>1. CASE OpStep
  BY <1>1, ConsistentOperation
<1>2. CASE SavingStep
  BY <1>2, ConsistentSaving
<1>3. CASE PortalOperation \/ CloudOperation
  BY <1>3, StartedOperation DEF Consistent, Changing, Stored, Free, linkVars
<1>4. CASE ~OpStep /\ ~PortalOperation /\ ~CloudOperation /\ ~SavingStep
  BY <1>4, ConfigurationLeftAlone DEF Consistent, Changing, Stored
<1> QED
  BY <1>1, <1>2, <1>3, <1>4

(* Between two operations the configuration file, the service's copy and   *)
(* the adapter name the same peer, whichever step of a connect or a forget *)
(* has failed and however often another section is saved, unless a saving  *)
(* fell into the last change of the peer (UpdateHomeAutoSessionConfig).    *)
THEOREM ConfigurationAlwaysAgrees == Spec => []ConfigurationAgrees
<1>1. Init => Consistent
  BY DEF Init, Consistent, Stored, Changing, NoOp
<1>2. Consistent => ConfigurationAgrees
  BY DEF Consistent, Stored, ConfigurationAgrees, Free
<1> QED
  BY <1>1, <1>2, ConsistentKept, TypedInitially, TypedInductive, PTL DEF Spec

-----------------------------------------------------------------------------
(* Polling and the released radio.                                         *)

(* The one operation that releases the radio and does not stop the         *)
(* tracking at once: a connect that pairs with a PIN.                      *)
Pairing ==
  /\ op.kind = "configure" /\ op.pin
  /\ \/ op.pc \in {"pair", "persist", "quiesce", "resume"}
     \/ op.pc = "settle" /\ op.then = "pair"

InTime == tracking.active /\ ~tracking.late

Silent ==
  ~closed =>
    /\ gate.released => gate.suppressed
    /\ gate.suppressed /\ InTime => Pairing
    /\ ~Free /\ op.kind \in {"release", "forget"} => ~InTime

(* The gate and the operation belong to the operations.                    *)
LEMMA GateLeftAlone ==
  ASSUME [Next]_vars, ~OpStep, ~PortalOperation, ~CloudOperation, ~TrackingStep, ~closed'
  PROVE  UNCHANGED <<op, gate, tracking, closed>>
<1>1. CASE LoopStep /\ UNCHANGED serviceVars
  BY <1>1 DEF LoopStep, Permit, Woken, Configured, BeginAttempt, Open, OpenFails, Admit,
     BeginSession, Frame, SessionEnds, Judge, Degrade, Retry, serviceVars
<1>2. CASE RadioStep /\ UNCHANGED serviceVars
  BY <1>2 DEF RadioStep, RadioLost, WriteFails, Reconcile, serviceVars
<1>3. CASE Shutdown \/ SavingStep \/ (\E p \in Peers : PortalForget(p)) \/ UNCHANGED vars
  BY <1>3 DEF Shutdown, Close, SavingStep, PortalForget, vars, serviceVars, linkVars
<1> QED
  BY <1>1, <1>2, <1>3 DEF Next

LEMMA StoppedFacts ==
  ASSUME TrackingType
  PROVE  ~Stopped.active
BY DEF TrackingType, Stopped

(* What begins to poll while an operation is under way, or while the radio *)
(* is released, is late.                                                   *)
LEMMA SilentTracking ==
  ASSUME Typed, Silent, TrackingStep, ~closed'
  PROVE  Silent'
<1>1. UNCHANGED <<op, gate, closed>> /\ TrackingType /\ ~closed
  BY TypedParts DEF TrackingStep, IntentArrives, IntentServed, TrackingRequested, TrackingServed,
     TrackingEnded, opVars, linkVars
<1>2. InTime' => InTime \/ (Free /\ ~Suppressed)
  <2>1. CASE tracking'.active = tracking.active /\ tracking'.late = tracking.late
    BY <2>1 DEF InTime
  <2>2. CASE ~tracking'.active
    BY <2>2 DEF InTime
  <2>3. CASE tracking'.late = (~Free \/ Suppressed)
    BY <2>3 DEF InTime
  <2>4. CASE IntentArrives \/ TrackingRequested \/ TrackingEnded
    BY <1>1, <2>1, <2>2, <2>4 DEF IntentArrives, TrackingRequested, TrackingEnded, Stopped, TrackingType
  <2>5. CASE IntentServed \/ TrackingServed
    BY <1>1, <2>1, <2>3, <2>5 DEF IntentServed, TrackingServed, Polling, TrackingType
  <2> QED
    BY <2>4, <2>5 DEF TrackingStep
<1> QED
  BY <1>1, <1>2 DEF Silent, Pairing, Free, Suppressed

LEMMA SilentOperation ==
  ASSUME Typed, Silent, OpStep, ~closed'
  PROVE  Silent'
<1>1. OpShape /\ op \in Operations /\ TrackingType /\ UNCHANGED closed /\ ~closed
  BY TypedParts, OperationsLeaveOpen
<1>2. ~Free
  BY DEF OpStep, OpRelease, OpSettle, OpResume, OpReconnect, OpPair, OpUnbond, OpPersist, OpQuiesce,
     OpAdapter, OpCommit, Working, Free
<1>3. Finish => op'.pc = "free" /\ Free'
  BY FinishFacts DEF Free
<1>4. ASSUME UNCHANGED <<gate, tracking>>, Pairing => Pairing', op'.pc = "free" \/ op'.kind = op.kind
      PROVE  Silent'
  BY <1>1, <1>2, <1>4 DEF Silent, InTime, Free
<1>5. CASE OpRelease
  <2> DEFINE then == IF op.kind = "forget" THEN "unbond"
                     ELSE IF op.kind = "configure" THEN "pair" ELSE "done"
  <2>1. /\ op.pc = "release" /\ UNCHANGED tracking
        /\ op' = [op EXCEPT !.pc = "settle", !.then = then]
        /\ gate' = [suppressed |-> TRUE, released |-> TRUE]
    BY <1>1, <1>5 DEF OpRelease, Working, ReleaseSection
  <2>2. then \in {"done", "unbond", "pair", "commit"} /\ (op.kind = "configure" => then = "pair")
    OBVIOUS
  <2> HIDE DEF then
  <2>3. op'.pc = "settle" /\ op'.then = then /\ op'.kind = op.kind /\ op'.pin = op.pin
    BY <1>1, <2>1, <2>2, SettleFacts
  <2>4. op.kind \in {"release", "forget"} \/ (op.kind = "configure" /\ op.pin)
    BY <1>1, <2>1 DEF OpShape
  <2>5. InTime' = InTime
    BY <2>1 DEF InTime
  <2> QED
    BY <1>1, <1>2, <2>1, <2>2, <2>3, <2>4, <2>5 DEF Pairing, Silent, Free
<1>6. CASE OpSettle
  <2>1. UNCHANGED <<gate, tracking>> /\ op.pc = "settle"
    BY <1>6 DEF OpSettle, Working
  <2>2. {"unbond", "pair", "commit"} \subseteq Steps
    BY DEF Steps
  <2>3. \/ op'.pc = "free" /\ op.then # "pair"
        \/ op'.pc = op.then /\ op'.kind = op.kind /\ op'.pin = op.pin
    BY <1>1, <1>3, <1>6, <2>1, <2>2, ProceedFacts DEF OpSettle, OpShape
  <2> QED
    BY <1>4, <2>1, <2>3 DEF Pairing
<1>7. CASE OpResume
  <2>1. op'.pc = "free" /\ UNCHANGED tracking
    BY <1>3, <1>7 DEF OpResume
  <2>2. ~gate'.suppressed /\ ~gate'.released
    BY <1>1, <1>7 DEF OpResume, Resume, Unsuppressed
  <2> QED
    BY <2>1, <2>2 DEF Silent, Free
<1>8. CASE OpReconnect
  <2>1. op'.pc = "free" \/ op'.kind = op.kind
    BY <1>1, <1>3, <1>8, SettleFacts DEF OpReconnect
  <2>2. UNCHANGED <<gate, tracking>> /\ ~Pairing
    BY <1>8 DEF OpReconnect, Working, ReconnectSection, linkVars, Pairing
  <2> QED
    BY <1>4, <2>1, <2>2
<1>9. CASE OpPair
  <2>1. UNCHANGED <<gate, tracking>> /\ op.pc = "pair" /\ {"persist", "resume"} \subseteq Steps
    BY <1>9 DEF OpPair, Working, linkVars, Steps
  <2>2. \/ op'.pc = "free" /\ op.kind = "pair"
        \/ op'.pc \in {"persist", "resume"} /\ op'.kind = op.kind /\ op'.pin = op.pin
    BY <1>1, <1>3, <1>9, <2>1, ProceedFacts DEF OpPair
  <2> QED
    BY <1>4, <2>1, <2>2 DEF Pairing
<1>10. CASE OpUnbond
  <2>1. op'.kind = op.kind
    BY <1>1, <1>10, ProceedFacts DEF OpUnbond, Steps
  <2>2. UNCHANGED <<gate, tracking>> /\ ~Pairing
    BY <1>10 DEF OpUnbond, Working, Pairing
  <2> QED
    BY <1>4, <2>1, <2>2
<1>11. CASE OpPersist
  <2>1. UNCHANGED <<gate, tracking>> /\ op.pc = "persist" /\ op.kind \in {"configure", "forget"}
    BY <1>1, <1>11 DEF OpPersist, Working, linkVars, OpShape
  <2>2. \/ op'.pc = "free" /\ ~op.pin
        \/ /\ op'.kind = op.kind /\ op'.pin = op.pin
           /\ \/ op'.pc \in {"quiesce", "resume"}
              \/ op'.pc = "adapter" /\ op.kind = "forget"
    BY <1>1, <1>3, <1>11, ProceedFacts DEF OpPersist, Steps
  <2> QED
    BY <1>4, <2>1, <2>2 DEF Pairing
<1>12. CASE OpQuiesce
  <2>1. ~tracking'.active /\ UNCHANGED gate
    BY <1>1, <1>12, StoppedFacts DEF OpQuiesce, linkVars
  <2> QED
    BY <1>1, <2>1 DEF Silent, InTime
<1>13. CASE OpAdapter
  <2> DEFINE old == IF op.kind = "configure" /\ peer # op.peer THEN peer ELSE None
  <2>1. /\ ~gate'.suppressed /\ ~gate'.released /\ UNCHANGED tracking
        /\ op' = [op EXCEPT !.pc = "settle", !.then = "commit", !.old = old]
    BY <1>1, <1>13 DEF OpAdapter, ConfigureSection, Chooses, Unsuppressed
  <2>2. old \in Peers \cup {None}
    BY TypedParts DEF PlacesType
  <2> HIDE DEF old
  <2>3. op'.kind = op.kind
    BY <1>1, <2>1, <2>2, ChosenFacts
  <2> QED
    BY <1>1, <1>2, <2>1, <2>3 DEF Silent, InTime
<1>14. CASE OpCommit
  <2>1. op'.pc = "free" /\ UNCHANGED <<gate, tracking>> /\ ~Pairing
    BY <1>3, <1>14 DEF OpCommit, Working, linkVars, Pairing
  <2> QED
    BY <1>4, <2>1
<1> QED
  BY <1>5, <1>6, <1>7, <1>8, <1>9, <1>10, <1>11, <1>12, <1>13, <1>14 DEF OpStep

LEMMA SilentKept == Typed /\ Silent /\ [Next]_vars => Silent'
<1> SUFFICES ASSUME Typed, Silent, [Next]_vars, ~closed' PROVE Silent'
  BY DEF Silent
<1>1. CASE OpStep
  BY <1>1, SilentOperation
<1>2. CASE TrackingStep
  BY <1>2, SilentTracking
<1>3. CASE PortalOperation \/ CloudOperation
  <2>1. /\ Free /\ ~closed /\ UNCHANGED gate
        /\ tracking' = IF op'.kind \in {"release", "forget"} THEN Stopped ELSE tracking
    BY <1>3, StartedOperation DEF linkVars
  <2>2. ~Stopped.active
    BY TypedParts, StoppedFacts
  <2>3. NoOp.kind = None /\ ~(gate.suppressed /\ InTime)
    <3>1. Pairing => op.pc # "free"
      BY DEF Pairing
    <3> QED
      BY <2>1, <3>1 DEF Silent, Free, NoOp
  <2> QED
    BY <2>1, <2>2, <2>3 DEF Silent, InTime
<1>4. CASE ~OpStep /\ ~PortalOperation /\ ~CloudOperation /\ ~TrackingStep
  BY <1>4, GateLeftAlone DEF Silent, InTime, Pairing, Free
<1> QED
  BY <1>1, <1>2, <1>3, <1>4

(* A release stops the polling: when no operation is under way, only what  *)
(* a tracking request or a session intent has started meanwhile polls a    *)
(* released radio (StartMeshCoreTracking, applyMeshCoreSessionIntent).     *)
THEOREM PollsAlwaysStopped == Spec => []PollsStopped
<1>1. Init => Silent
  BY DEF Init, LinkInit, Silent, InTime, NoOp, Free
<1>2. Silent => PollsStopped
  BY DEF Silent, InTime, Pairing, PollsStopped, Free
<1> QED
  BY <1>1, <1>2, SilentKept, TypedInitially, TypedInductive, PTL DEF Spec

-----------------------------------------------------------------------------
(* The peer of a session.                                                  *)

(* The attempt is cancelled, or will be by the operation that holds it.    *)
Ending == loop.cancelled \/ (op.pc = "settle" /\ held)

Allowed ==
  ~closed =>
    /\ loop.pc \in Attempting => loop.peer = peer \/ "peer" \in loop.missed \/ Ending
    /\ loop.pc \in Admitted /\ Suppressed => "release" \in loop.missed \/ Ending

(* An attempt in the loop's hands: only one that the gate lets through is  *)
(* admitted.                                                               *)
LEMMA AttemptGoesOn ==
  ASSUME PlacesType, LoopStep
  PROVE  /\ UNCHANGED <<peer, gate, closed>>
         /\ \/ loop'.pc \in Outside
            \/ loop'.pc = "prepared" /\ loop'.peer = peer
            \/ /\ loop.pc \in Attempting /\ loop'.peer = loop.peer /\ loop'.missed = loop.missed
               /\ loop'.cancelled = loop.cancelled /\ held' = held
               /\ loop'.pc \in Admitted => loop.pc \in Admitted \/ ~Suppressed
<1>1. UNCHANGED <<peer, gate, closed>>
  BY DEF LoopStep, Permit, Woken, Configured, BeginAttempt, Open, OpenFails, Admit, BeginSession,
     Frame, SessionEnds, Judge, Degrade, Retry
<1>2. CASE Permit \/ Woken \/ Judge \/ Degrade \/ Retry
  BY <1>1, <1>2, GoFacts DEF Permit, Woken, Judge, Degrade, Retry, Places, Outside
<1>3. CASE OpenFails \/ SessionEnds
  <2>1. {"permit", "degrading", "ended"} \subseteq Places \cap Outside
    BY DEF Places, Outside
  <2> QED
    BY <1>1, <1>3, <2>1, OverFacts DEF OpenFails, SessionEnds
<1>4. CASE Configured
  <2>1. CASE peer = None
    BY <1>1, <1>4, <2>1, GoFacts DEF Configured, Places, Outside
  <2>2. CASE peer # None
    BY <1>1, <1>4, <2>2 DEF Configured, PlacesType, Attempts
  <2> QED
    BY <2>1, <2>2
<1>5. CASE BeginAttempt \/ Open \/ BeginSession \/ Frame
  <2>1. /\ held' = held /\ loop.pc \in Attempting
        /\ \/ Go("opening") \/ Go("opened")
           \/ (Go("handshake") \/ Go("connected")) /\ loop.pc \in Admitted
    BY <1>5 DEF BeginAttempt, Open, BeginSession, Frame, InSession, At, Attempting, Linked, Admitted
  <2>2. {"opening", "opened", "handshake", "connected"} \subseteq Places /\ {"opening", "opened"} \cap Admitted = {}
    BY DEF Places, Admitted
  <2> QED
    BY <1>1, <2>1, <2>2, GoFacts
<1>6. CASE Admit
  <2>1. CASE gate.suppressed
    BY <1>1, <1>6, <2>1, OverFacts DEF Admit, Places, Outside
  <2>2. CASE ~gate.suppressed
    <3>1. Go("admitted") /\ held' = held /\ loop.pc \in Attempting
      BY <1>6, <2>2 DEF Admit, At, Attempting, Linked
    <3> QED
      BY <1>1, <2>2, <3>1, GoFacts DEF Places, Suppressed
  <2> QED
    BY <2>1, <2>2
<1> QED
  BY <1>2, <1>3, <1>4, <1>5, <1>6 DEF LoopStep

LEMMA AllowedLoop ==
  ASSUME PlacesType, Allowed, LoopStep, UNCHANGED serviceVars
  PROVE  Allowed'
<1>1. op' = op
  BY DEF serviceVars
<1>2. CASE loop'.pc \in Outside
  BY <1>2 DEF Allowed, Attempting, Linked, Admitted, Outside
<1>3. CASE loop'.pc = "prepared" /\ loop'.peer = peer
  BY <1>3, AttemptGoesOn DEF Allowed, Admitted
<1>4. CASE /\ loop.pc \in Attempting /\ loop'.peer = loop.peer /\ loop'.missed = loop.missed
           /\ loop'.cancelled = loop.cancelled /\ held' = held
           /\ loop'.pc \in Admitted => loop.pc \in Admitted \/ ~Suppressed
  BY <1>1, <1>4, AttemptGoesOn DEF Allowed, Ending, Suppressed
<1> QED
  BY <1>2, <1>3, <1>4, AttemptGoesOn

(* A step that may cancel the attempt, and changes nothing else of it.     *)
LEMMA AllowedCancel ==
  ASSUME PlacesType, Allowed, UNCHANGED <<peer, gate, closed, op, held>>,
         loop' = loop \/ loop' = [loop EXCEPT !.cancelled = TRUE]
  PROVE  Allowed'
<1>1. CASE loop' = loop
  BY <1>1 DEF Allowed, Ending, Suppressed
<1>2. CASE loop' = [loop EXCEPT !.cancelled = TRUE]
  <2>1. loop'.cancelled = TRUE
    BY <1>2, CancelFacts
  <2> QED
    BY <2>1 DEF Allowed, Ending
<1> QED
  BY <1>1, <1>2

LEMMA AllowedOperation ==
  ASSUME Typed, Allowed, OpStep, ~closed'
  PROVE  Allowed'
<1>1. op \in Operations /\ PlacesType /\ op.peer \in Peers \cup {None} /\ UNCHANGED closed /\ ~closed
  BY TypedParts, OperationsLeaveOpen
<1>2. CASE OpRelease
  <2> DEFINE then == IF op.kind = "forget" THEN "unbond"
                     ELSE IF op.kind = "configure" THEN "pair" ELSE "done"
  <2>1. /\ ReleaseSection /\ op.pc = "release" /\ peer' = peer
        /\ op' = [op EXCEPT !.pc = "settle", !.then = then]
    BY <1>1, <1>2 DEF OpRelease, ReleaseSection, Working
  <2>2. then \in {"done", "unbond", "pair", "commit"}
    OBVIOUS
  <2> HIDE DEF then
  <2>3. op'.pc = "settle"
    BY <1>1, <2>1, <2>2, SettleFacts
  <2>4. /\ loop'.pc = loop.pc /\ loop'.peer = loop.peer /\ loop'.cancelled = loop.cancelled
        /\ "peer" \in loop.missed => "peer" \in loop'.missed
        /\ loop.pc \in Admitted => held' \/ "release" \in loop'.missed
    BY <1>1, <2>1, ReleaseMisses DEF Stays
  <2> QED
    BY <1>1, <2>1, <2>3, <2>4 DEF Allowed, Ending
<1>3. CASE OpSettle
  <2>1. UNCHANGED <<peer, gate>>
    BY <1>3 DEF OpSettle
  <2>2. CASE held
    <3>1. loop'.pc = loop.pc /\ loop'.cancelled = TRUE
      BY <1>1, <1>3, <2>2, CancelFacts DEF OpSettle, CancelHeld
    <3> QED
      BY <3>1 DEF Allowed, Ending
  <2>3. CASE ~held
    BY <1>1, <1>3, <2>1, <2>3 DEF OpSettle, CancelHeld, Allowed, Ending, Suppressed
  <2> QED
    BY <2>2, <2>3
<1>4. CASE OpResume
  <2>1. Resume /\ peer' = peer /\ op.pc = "resume" /\ ~gate'.suppressed
    BY <1>1, <1>4 DEF OpResume, Resume, Working, Unsuppressed
  <2>2. /\ loop'.pc = loop.pc /\ loop'.peer = loop.peer /\ loop'.cancelled = loop.cancelled
        /\ "peer" \in loop.missed => "peer" \in loop'.missed
    BY <1>1, <2>1, ResumeMisses DEF Stays
  <2> QED
    BY <1>1, <2>1, <2>2 DEF Allowed, Ending, Suppressed
<1>5. CASE OpReconnect
  <2>1. UNCHANGED <<loop, peer, gate>> /\ op.pc = "reconnect"
    BY <1>5 DEF OpReconnect, ReconnectSection, linkVars, Working
  <2> QED
    BY <1>1, <2>1 DEF Allowed, Ending, Suppressed
<1>6. CASE OpAdapter
  <2> DEFINE old == IF op.kind = "configure" /\ peer # op.peer THEN peer ELSE None
  <2>1. /\ ConfigureSection(op.peer) /\ peer' = op.peer /\ ~gate'.suppressed
        /\ op' = [op EXCEPT !.pc = "settle", !.then = "commit", !.old = old]
    BY <1>1, <1>6 DEF OpAdapter, ConfigureSection, Chooses, Unsuppressed
  <2>2. old \in Peers \cup {None}
    BY <1>1 DEF PlacesType
  <2> HIDE DEF old
  <2>3. op'.pc = "settle"
    BY <1>1, <2>1, <2>2, ChosenFacts
  <2>4. /\ loop'.pc = loop.pc /\ loop'.peer = loop.peer
        /\ loop.pc \in Attempting => loop.peer = op.peer \/ held' \/ "peer" \in loop'.missed
    BY <1>1, <2>1, ConfigureMisses DEF Stays
  <2> QED
    BY <2>1, <2>3, <2>4 DEF Allowed, Ending, Suppressed
<1>7. CASE OpPair \/ OpUnbond \/ OpPersist \/ OpQuiesce \/ OpCommit
  <2>1. UNCHANGED <<loop, peer, gate, held>> /\ op.pc # "settle"
    BY <1>7 DEF OpPair, OpUnbond, OpPersist, OpQuiesce, OpCommit, linkVars, Working
  <2> QED
    BY <1>1, <2>1 DEF Allowed, Ending, Suppressed
<1> QED
  BY <1>2, <1>3, <1>4, <1>5, <1>6, <1>7 DEF OpStep

LEMMA AllowedKept == Typed /\ Allowed /\ [Next]_vars => Allowed'
<1> SUFFICES ASSUME Typed, Allowed, [Next]_vars, ~closed' PROVE Allowed'
  BY DEF Allowed
<1>1. PlacesType
  BY TypedParts
<1>2. CASE OpStep
  BY <1>2, AllowedOperation
<1>3. CASE PortalOperation \/ CloudOperation
  BY <1>3, StartedOperation DEF Allowed, Ending, Suppressed, Free, linkVars
<1>4. CASE TrackingStep \/ SavingStep \/ UNCHANGED vars
  <2>1. UNCHANGED <<linkVars, op>>
    BY <1>4 DEF TrackingStep, IntentArrives, IntentServed, TrackingRequested, TrackingServed,
       TrackingEnded, SavingStep, opVars, vars, serviceVars
  <2> QED
    BY <1>1, <2>1, AllowedCancel DEF linkVars
<1>5. CASE \E p \in Peers : PortalForget(p)
  BY <1>1, <1>5, AllowedCancel DEF PortalForget, serviceVars
<1>6. CASE RadioStep /\ UNCHANGED serviceVars
  BY <1>1, <1>6, AllowedCancel DEF RadioStep, RadioLost, WriteFails, Reconcile, serviceVars
<1>7. CASE Shutdown
  BY <1>7 DEF Shutdown, Close
<1> QED
  BY <1>1, <1>2, <1>3, <1>4, <1>5, <1>6, <1>7, AllowedLoop DEF Next

(* Between two operations a session that is not cancelled is with the      *)
(* selected peer and not with a released one, unless the operation fell    *)
(* where the loop had looked at the state and had registered nothing to    *)
(* cancel, whichever steps fell between its sections.                      *)
THEOREM SessionAlwaysSelected == Spec => []OnlySelectedPeer
<1>1. Init => Allowed
  BY DEF Init, LinkInit, NoAttempt, Allowed, Attempting, Linked, Admitted
<1>2. Allowed => OnlySelectedPeer
  BY DEF Allowed, Ending, OnlySelectedPeer, InSession, Free, At, Cancelled, Attempting, Linked, Admitted
<1> QED
  BY <1>1, <1>2, AllowedKept, TypedInitially, TypedInductive, PTL DEF Spec
=============================================================================
