-------------------------- MODULE HomeAutoSession --------------------------
(***************************************************************************)
(* The home auto session module: it watches the positions of tracked nodes *)
(* against the home geofence, starts a session in the cloud when a node    *)
(* leaves and stops it when a node returns, and keeps enough on disk to go *)
(* on after a restart - which service.New overwrites before it is read.    *)
(*                                                                         *)
(* One mutex, held during the cloud call: an observation or a tick is one  *)
(* step up to the call, and until its answer only the cloud, a shutdown, a *)
(* crash or a full observation queue can do something.  An observation is  *)
(* one step from arrival to decision: waiting in the channel it changes    *)
(* nothing, and a crash that loses it there is an observation not made.    *)
(* Only the channel's bound shows, in Drop.                                *)
(*                                                                         *)
(* Time is left out: a debounce, a cooldown or the idle timeout is a flag  *)
(* that some step lets pass.  So are distances, session texts, the GPS     *)
(* report, the configuration's version and the control state, which is     *)
(* only shown.                                                             *)
(***************************************************************************)
EXTENDS Integers, FiniteSets

CONSTANTS
  Nodes,       \* the tracked nodes
  Attested,    \* those of MeshCore, whose positions come with the cloud's answers
  Offers,      \* the modes that portal and cloud ask for
  MaxKey,      \* bound: dedupe keys of each action in use at one time
  MaxSession,  \* bound: sessions in use at one time
  Events,      \* the events that are explored
  None

EventKinds ==
  {"config", "credential", "crash", "shutdown", "overflow", "reset", "closed",
   "foreign", "lifecycle", "conflict", "fatal", "blank"}

ASSUME HomeAutoAssumption ==
  /\ Attested \subseteq Nodes
  /\ Offers \subseteq {"off", "observe", "control"}
  /\ MaxKey \in Nat /\ MaxSession \in Nat
  /\ Events \subseteq EventKinds
  /\ None \notin Nodes \cup Int

VARIABLES
  mem,      \* the fields of Module that its decisions read
  disk,     \* state.HomeAutoSessionState
  fact,     \* per node, where it was last seen (in memory only)
  again,    \* start keys of attested reports that may be delivered once more
  mode,     \* the mode of the configuration in force
  config,   \* the mode of the local configuration, and whose is in force
  paired,   \* the receiver is in steady state and holds an ingest key
  call,     \* the cloud call in flight
  waiting,  \* an observer found the queue full and waits for the mutex
  up,       \* the process runs
  open      \* the cloud's open sessions, each with the key that opened it

vars == <<mem, disk, fact, again, mode, config, paired, call, waiting, up, open>>

Keys == 1..MaxKey
Sessions == 1..MaxSession
Modes == {"off", "observe", "control"}
Places == {"unknown", "inside", "outside"}

ModuleStates ==
  {"disabled", "observe_ready", "control_ready", "start_pending", "active", "stop_pending",
   "cooldown", "degraded"}

(* blocked is the class of blockedReason.  ripe: the debounce has passed.  *)
(* cooling and settling: cooldownUntil and decisionCooldownUntil are ahead.*)
(* hasty: the cooldown is that of a stop that timed out.                   *)
Blocks == {"none", "lifecycle", "conflict", "failed", "overflow", "inconsistent"}

Candidates == [node : Nodes, key : Keys, ripe : BOOLEAN]
Actions == [action : {"start", "stop"}, node : Nodes, key : Keys]

Memory ==
  [state : ModuleStates, active : Sessions \cup {None}, node : Nodes \cup {None},
   pending : Actions \cup {None},
   startCandidate : Candidates \cup {None}, stopCandidate : Candidates \cup {None},
   blocked : Blocks, cooling : BOOLEAN, settling : BOOLEAN, hasty : BOOLEAN,
   lastStart : Keys \cup {None}, lastStop : Keys \cup {None}]

Classes ==
  {"ok", "resolved", "lifecycle", "already_active", "missing_id", "mismatch", "stale",
   "retryable", "timeout", "fatal"}

Answers == [class : Classes, session : Sessions \cup {None}]

Calls ==
  [action : {"start", "stop"}, node : Nodes, key : Keys, session : Sessions \cup {None},
   answer : Answers \cup {None}]

ASSUME NoneAssumption == None \notin Candidates \cup Actions \cup Answers \cup Calls

TypeOK ==
  /\ mem \in Memory
  /\ disk \in Memory
  /\ fact \in [Nodes -> Places]
  /\ again \subseteq Keys
  /\ mode \in Modes
  /\ config \in [local : Modes, source : {"local_fallback", "cloud_managed"}]
  /\ call \in Calls \cup {None}
  /\ paired \in BOOLEAN /\ waiting \in BOOLEAN /\ up \in BOOLEAN
  /\ open \subseteq [id : Sessions, key : Keys \cup {None}]

Fresh0 ==
  [state |-> "disabled", active |-> None, node |-> None, pending |-> None,
   startCandidate |-> None, stopCandidate |-> None, blocked |-> "none", cooling |-> FALSE,
   settling |-> FALSE, hasty |-> FALSE, lastStart |-> None, lastStop |-> None]

Init ==
  /\ mem = Fresh0 /\ disk = Fresh0
  /\ fact = [n \in Nodes |-> "unknown"] /\ again = {}
  /\ mode = "control" /\ config = [local |-> "control", source |-> "local_fallback"]
  /\ paired = TRUE
  /\ call = None /\ waiting = FALSE /\ up = TRUE
  /\ open = {}

-----------------------------------------------------------------------------
(* Keys and sessions.  A dedupe key is a hash of the candidate: node, time *)
(* and reason.  A candidate made later has another one, so the model takes *)
(* one that is in use nowhere.                                             *)

KeysOf(action, m) ==
  LET candidate == IF action = "start" THEN m.startCandidate ELSE m.stopCandidate
      last      == IF action = "start" THEN m.lastStart ELSE m.lastStop
  IN  {last} \cup (IF candidate = None THEN {} ELSE {candidate.key})
             \cup (IF m.pending = None THEN {} ELSE {m.pending.key})

FreeKeys(action) ==
  Keys \ (KeysOf(action, mem) \cup KeysOf(action, disk) \cup again
            \cup (IF action = "start" THEN {o.key : o \in open} ELSE {}))

CanName(action) == FreeKeys(action) # {}

NewKey(action) == CHOOSE k \in FreeKeys(action) : TRUE

FreeSessions ==
  Sessions \ ({o.id : o \in open} \cup {mem.active, disk.active}
                \cup (IF call = None THEN {} ELSE {call.session}))

Candidate(action, n) == [node |-> n, key |-> NewKey(action), ripe |-> FALSE]

-----------------------------------------------------------------------------
(* Ends of a step under the mutex: with everything that must survive on    *)
(* disk, or on disk and with a request on its way to the cloud.            *)

Persisted(m) == [m EXCEPT !.startCandidate = None, !.stopCandidate = None]

Settle(m) == mem' = m /\ disk' = Persisted(m) /\ call' = None

Send(action, m) ==
  /\ mem' = m /\ disk' = Persisted(m)
  /\ call' = [action |-> action, node |-> m.pending.node, key |-> m.pending.key,
              session |-> IF action = "stop" THEN m.active ELSE None, answer |-> None]

Degraded(m, reason) ==
  [m EXCEPT !.state = "degraded", !.blocked = reason, !.cooling = FALSE, !.hasty = FALSE]

Dropped(m) == [m EXCEPT !.pending = None, !.startCandidate = None, !.stopCandidate = None]

-----------------------------------------------------------------------------
(* Observations.                                                           *)

(* A position the module cannot use (missing, invalid, stale, too near the *)
(* boundary) is "unknown" and only refreshes when the node was seen; the   *)
(* first position after a start is no transition.  key is that of the      *)
(* candidate to start a session.                                           *)
Consumed(m, n, place, key) ==
  CASE fact[n] = "inside" /\ place = "outside" ->
         [m EXCEPT !.stopCandidate = None,
                   !.startCandidate = [node |-> n, key |-> key, ripe |-> FALSE]]
    [] fact[n] = "outside" /\ place = "inside" ->
         [m EXCEPT !.startCandidate = None, !.stopCandidate = Candidate("stop", n)]
    [] OTHER -> m

(* The cloud's answer to an attested report can be lost to a crash: the    *)
(* outbox delivers the report again, and the crossing it shows gets the    *)
(* key it had before.  (A stop under an old key is like any other.)        *)
StartKeys(n) == {NewKey("start")} \cup (IF n \in Attested THEN again ELSE {})

Crosses(n, place) == {fact[n], place} = {"inside", "outside"}

-----------------------------------------------------------------------------
(* Decisions.                                                              *)

(* Mutation: a newer candidate goes before an action on its way.           *)
Promoted_Newer(m) ==
  IF m.pending = None \/ m.startCandidate # None \/ m.stopCandidate # None THEN m
  ELSE LET c == [node |-> m.pending.node, key |-> m.pending.key, ripe |-> TRUE]
       IN  IF m.pending.action = "start"
           THEN [m EXCEPT !.startCandidate = c, !.stopCandidate = None]
           ELSE [m EXCEPT !.stopCandidate = c, !.startCandidate = None]

(* An action on its way goes before any newer candidate.                   *)
Promoted(m) ==
  IF m.pending = None THEN m
  ELSE LET c == [node |-> m.pending.node, key |-> m.pending.key, ripe |-> TRUE]
       IN  IF m.pending.action = "start"
           THEN [m EXCEPT !.startCandidate = c, !.stopCandidate = None]
           ELSE [m EXCEPT !.stopCandidate = c, !.startCandidate = None]

AttemptStart(m) ==
  LET c == m.startCandidate IN
  IF c.key = m.lastStart
  THEN Settle([m EXCEPT !.startCandidate = None, !.pending = None, !.state = "control_ready"])
  ELSE IF ~paired
  THEN Settle([m EXCEPT !.state = "control_ready"])
  ELSE Send("start", [m EXCEPT !.state = "start_pending",
                        !.pending = [action |-> "start", node |-> c.node, key |-> c.key]])

AttemptStop(m) ==
  LET c == m.stopCandidate IN
  IF c.key = m.lastStop
  THEN Settle([m EXCEPT !.stopCandidate = None, !.pending = None, !.state = "control_ready"])
  ELSE IF ~paired
  THEN Settle([m EXCEPT !.state = "control_ready"])
  ELSE Send("stop", [m EXCEPT !.state = "stop_pending",
                       !.pending = [action |-> "stop", node |-> c.node, key |-> c.key]])

(* The idle timeout makes a candidate only for a node last seen inside.    *)
DecideStop(m, idle) ==
  LET c    == IF m.stopCandidate = None /\ idle THEN Candidate("stop", m.node)
              ELSE m.stopCandidate
      next == [m EXCEPT !.stopCandidate = c]
  IN  IF c = None THEN Settle([m EXCEPT !.state = "active"])
      ELSE IF ~c.ripe THEN Settle([next EXCEPT !.state = "stop_pending"])
      ELSE IF mode = "observe" THEN Settle([next EXCEPT !.state = "active"])
      ELSE AttemptStop(next)

DecideStart(m) ==
  IF m.startCandidate = None
  THEN Settle([m EXCEPT !.state = IF mode = "control" THEN "control_ready" ELSE "observe_ready"])
  ELSE IF ~m.startCandidate.ripe THEN Settle([m EXCEPT !.state = "start_pending"])
  ELSE IF mode = "observe" THEN Settle([m EXCEPT !.state = "observe_ready"])
  ELSE AttemptStart(m)

Stuck(m) == m.state = "degraded" /\ m.blocked # "none"

Evaluate(m, bypass, idle) ==
  IF mode = "off" THEN Settle([m EXCEPT !.state = "disabled"])
  ELSE IF Stuck(m) THEN Settle(m)
  ELSE IF m.cooling /\ ~bypass THEN Settle([m EXCEPT !.state = "cooldown"])
  ELSE LET warm == [m EXCEPT !.cooling = FALSE] IN
       IF m.settling THEN Settle([warm EXCEPT !.state = "cooldown"])
       ELSE LET next == Promoted(warm)
            IN  IF next.active # None THEN DecideStop(next, idle) ELSE DecideStart(next)

-----------------------------------------------------------------------------
(* Steps of the receiver outside a call.                                   *)

Running == up /\ call = None

(* Only an event may cut short the cooldown of a stop that timed out, and  *)
(* only when the session's node was last seen inside.                      *)
MayBypass(m, seen) ==
  /\ m.cooling /\ m.hasty
  /\ m.pending # None /\ m.pending.action = "stop"
  /\ seen[m.node] = "inside"

(* run, on an event or an attested position.  (An attested position that   *)
(* is older than a known one is ignored: it does what a Tick does.)        *)
Observe ==
  \E n \in Nodes, place \in Places, key \in Keys :
    /\ Running
    /\ CanName("start") /\ CanName("stop")
    /\ key \in StartKeys(n)
    /\ LET ignored == mode = "off"
           m == IF ignored THEN mem ELSE Consumed(mem, n, place, key)
           fresh == IF ignored \/ place = "unknown" THEN fact ELSE [fact EXCEPT ![n] = place]
       IN  /\ fact' = fresh
           /\ again' = IF ~ignored /\ Crosses(n, place) THEN {} ELSE again
           /\ \E bypass \in BOOLEAN :
                /\ bypass => n \notin Attested /\ MayBypass(m, fresh)
                /\ Evaluate(m, bypass, FALSE)
    /\ UNCHANGED <<mode, config, paired, waiting, up, open>>

(* run, on the ticker or on a request to reevaluate, and once at startup;  *)
(* idle: the session's node is inside and was not heard for the timeout.   *)
TickWith(idle) ==
  /\ Running
  /\ idle => mem.node # None /\ fact[mem.node] = "inside" /\ CanName("stop")
  /\ Evaluate(mem, FALSE, idle)
  /\ UNCHANGED <<fact, again, mode, config, paired, waiting, up, open>>

Tick == \E idle \in BOOLEAN : TickWith(idle)

Ripen ==
  /\ Running
  /\ \/ /\ mem.startCandidate # None /\ ~mem.startCandidate.ripe
        /\ mem' = [mem EXCEPT !.startCandidate.ripe = TRUE]
     \/ /\ mem.stopCandidate # None /\ ~mem.stopCandidate.ripe
        /\ mem' = [mem EXCEPT !.stopCandidate.ripe = TRUE]
  /\ UNCHANGED <<disk, fact, again, mode, config, paired, call, waiting, up, open>>

CooldownPasses ==
  /\ Running /\ mem.cooling
  /\ mem' = [mem EXCEPT !.cooling = FALSE] /\ disk' = [disk EXCEPT !.cooling = FALSE]
  /\ UNCHANGED <<fact, again, mode, config, paired, call, waiting, up, open>>

SettlingPasses ==
  /\ Running /\ mem.settling
  /\ mem' = [mem EXCEPT !.settling = FALSE] /\ disk' = [disk EXCEPT !.settling = FALSE]
  /\ UNCHANGED <<fact, again, mode, config, paired, call, waiting, up, open>>

(* A configuration is applied, and the report of it is persisted.          *)
ApplyConfig(to, source) ==
  /\ mode' = to /\ config' = [config EXCEPT !.source = source]
  /\ disk' = Persisted(mem)
  /\ UNCHANGED <<mem, fact, again, paired, call, waiting, up, open>>

(* A heartbeat's answer has a valid managed configuration, or none that is *)
(* valid: then the local one is in force.                                  *)
HeartbeatConfig ==
  /\ "config" \in Events /\ Running
  /\ \/ \E to \in Offers : ApplyConfig(to, "cloud_managed")
     \/ ApplyConfig(config.local, "local_fallback")

(* The portal saves a local configuration; it waits while a managed one is *)
(* in force.                                                               *)
UpdateConfig ==
  /\ "config" \in Events /\ Running
  /\ \E to \in Offers :
       /\ config' = [config EXCEPT !.local = to]
       /\ mode' = IF config.source = "cloud_managed" THEN mode ELSE to
  /\ disk' = Persisted(mem)
  /\ UNCHANGED <<mem, fact, again, paired, call, waiting, up, open>>

ResetDegraded ==
  /\ "reset" \in Events /\ Running
  /\ LET m == [Dropped(mem) EXCEPT !.blocked = "none", !.cooling = FALSE, !.settling = FALSE,
                 !.hasty = FALSE,
                 !.state = IF mem.state = "degraded" THEN "control_ready" ELSE @]
     IN  Settle(m)
  /\ UNCHANGED <<fact, again, mode, config, paired, waiting, up, open>>

(* Drop finds the channel full; Overflow has the mutex.                    *)
Drop ==
  /\ "overflow" \in Events /\ up /\ call # None /\ ~waiting
  /\ waiting' = TRUE
  /\ UNCHANGED <<mem, disk, fact, again, mode, config, paired, call, up, open>>

Overflow ==
  /\ Running /\ waiting
  /\ Settle(Degraded(mem, "overflow"))
  /\ waiting' = FALSE
  /\ UNCHANGED <<fact, again, mode, config, paired, up, open>>

CredentialChanges ==
  /\ "credential" \in Events /\ up
  /\ paired' = ~paired
  /\ UNCHANGED <<mem, disk, fact, again, mode, config, call, waiting, up, open>>

-----------------------------------------------------------------------------
(* The cloud.  It opens a session once per key and may refuse a second one *)
(* or not; a stop without a session closes what the receiver has open.     *)

Answered(class, s) ==
  call' = [call EXCEPT !.answer = [class |-> class, session |-> s]]

Serve ==
  /\ call # None /\ call.answer = None
  /\ UNCHANGED <<mem, disk, fact, again, mode, config, paired, waiting, up>>

ServeStart ==
  /\ Serve /\ call.action = "start"
  /\ \/ \E o \in open :
          o.key = call.key /\ Answered("ok", o.id) /\ UNCHANGED open
     \/ /\ \A o \in open : o.key # call.key
        /\ FreeSessions # {}
        /\ LET s == CHOOSE s \in FreeSessions : TRUE
           IN  /\ open' = open \cup {[id |-> s, key |-> call.key]}
               /\ \E id \in {s} \cup (IF "blank" \in Events THEN {None} ELSE {}) :
                    Answered("ok", id)

RefuseStart ==
  /\ Serve /\ call.action = "start"
  /\ \A o \in open : o.key # call.key
  /\ \/ \E o \in open : Answered("already_active", o.id)
     \/ "conflict" \in Events /\ open # {} /\ Answered("already_active", None)
     \/ "conflict" \in Events /\ open = {} /\ Answered("missing_id", None)
  /\ UNCHANGED open

ServeStop ==
  /\ Serve /\ call.action = "stop"
  /\ LET closed == {o \in open : call.session \in {None, o.id}}
     IN  /\ open' = open \ closed
         /\ Answered(IF closed # {} THEN "ok" ELSE "resolved", None)

RefuseStop ==
  /\ Serve /\ call.action = "stop"
  /\ "conflict" \in Events
  /\ Answered("stale", None) \/ Answered("mismatch", None)
  /\ UNCHANGED open

Refuse ==
  /\ Serve
  /\ \/ Answered("retryable", None)
     \/ "fatal" \in Events /\ Answered("fatal", None)
     \/ "lifecycle" \in Events /\ Answered("lifecycle", None)
  /\ UNCHANGED open

CloudCloses ==
  /\ "closed" \in Events /\ open # {}
  /\ \E o \in open : open' = open \ {o}
  /\ UNCHANGED <<mem, disk, fact, again, mode, config, paired, call, waiting, up>>

CloudOpens ==
  /\ "foreign" \in Events /\ open = {} /\ FreeSessions # {}
  /\ \E s \in FreeSessions : open' = {[id |-> s, key |-> None]}
  /\ UNCHANGED <<mem, disk, fact, again, mode, config, paired, call, waiting, up>>

-----------------------------------------------------------------------------
(* The answer, or none: what the rest of the handler makes of its class    *)
(* and of the session it names.                                            *)

Started(m, s) ==
  [Dropped(m) EXCEPT !.state = "active", !.active = s, !.node = call.node, !.blocked = "none",
     !.cooling = FALSE, !.settling = TRUE, !.hasty = FALSE, !.lastStart = call.key]

(* Mutation: the node of the session stays.                                *)
Stopped_KeepsNode(m) ==
  [Dropped(m) EXCEPT !.state = "control_ready", !.active = None,
     !.blocked = "none", !.cooling = FALSE, !.settling = TRUE, !.hasty = FALSE,
     !.lastStop = call.key]

Stopped(m) ==
  [Dropped(m) EXCEPT !.state = "control_ready", !.active = None, !.node = None,
     !.blocked = "none", !.cooling = FALSE, !.settling = TRUE, !.hasty = FALSE,
     !.lastStop = call.key]

(* Start: another session is active, with its id and without.              *)
Synced(m, s) ==
  [Dropped(m) EXCEPT !.state = "active", !.active = s, !.node = call.node, !.blocked = "none",
     !.cooling = FALSE, !.hasty = FALSE]

Conflicting(m) == Degraded(Dropped(m), "conflict")

Rejected(m) == [Degraded(Dropped(m), "lifecycle") EXCEPT !.active = None, !.node = None]

(* Mutation: the action is not kept for its retry.                         *)
CoolingDown_Forgets(m) ==
  [Dropped(m) EXCEPT !.state = "cooldown", !.blocked = "none", !.cooling = TRUE]

CoolingDown(m) == [m EXCEPT !.state = "cooldown", !.blocked = "none", !.cooling = TRUE]

(* The start is tried again after debounce and cooldown, under a new key.  *)
Renewed(m) ==
  [CoolingDown(Dropped(m)) EXCEPT !.hasty = FALSE,
     !.startCandidate = Candidate("start", call.node)]

HandleCloudError(m, class, s) ==
  CASE class = "lifecycle" -> Settle(Rejected(m))
    [] class = "already_active" -> Settle(IF s # None THEN Synced(m, s) ELSE Conflicting(m))
    [] class = "missing_id" -> Settle(Renewed(m))
    [] class = "mismatch" -> Settle(Conflicting(m))
    [] class \in {"retryable", "timeout"} ->
         Settle([CoolingDown(m) EXCEPT !.hasty = class = "timeout" /\ call.action = "stop"])
    [] class \in {"stale", "fatal"} -> Settle(Degraded(m, "failed"))

(* A stop whose session the cloud does not take is tried without it.       *)
FallsBack(class) ==
  /\ call.action = "stop" /\ call.session # None
  /\ class \in {"retryable", "timeout", "stale"}

Resume(class, s) ==
  IF class = "ok" /\ call.action = "start" THEN Settle(Started(mem, s))
  ELSE IF class \in {"ok", "resolved"} THEN Settle(Stopped(mem))
  ELSE IF FallsBack(class)
  THEN call' = [call EXCEPT !.session = None, !.answer = None] /\ UNCHANGED <<mem, disk>>
  ELSE HandleCloudError(mem, class, s)

Receive ==
  /\ up /\ call # None /\ call.answer # None
  /\ call.answer.class = "missing_id" => CanName("start")
  /\ Resume(call.answer.class, call.answer.session)
  /\ UNCHANGED <<fact, again, mode, config, paired, waiting, up, open>>

(* Request or answer is lost: nothing tells which.                         *)
Lose ==
  /\ up /\ call # None
  /\ Resume("timeout", None)
  /\ UNCHANGED <<fact, again, mode, config, paired, waiting, up, open>>

-----------------------------------------------------------------------------
(* The end of the process and the next start.                              *)

Down ==
  /\ up' = FALSE /\ mem' = Fresh0 /\ call' = None /\ waiting' = FALSE
  /\ fact' = [n \in Nodes |-> "unknown"]
  /\ again' = IF Attested = {} THEN {} ELSE again \cup (KeysOf("start", mem) \ {None})
  /\ UNCHANGED <<mode, config, paired, open>>

Crash == "crash" \in Events /\ up /\ Down /\ UNCHANGED disk

(* The context of a call ends with the process: a cancelled call is no     *)
(* call to retry, and the module persists that before it ends.             *)
Shutdown ==
  /\ "shutdown" \in Events /\ up /\ call # None
  /\ disk' = Persisted(Degraded(mem, "failed"))
  /\ Down

(* bootstrapFromStateLocked and reconcileStartupLocked, with               *)
(* startup_reconcile on.                                                   *)
Reconciled(d) ==
  LET done == /\ d.pending # None
              /\ \/ d.pending.action = "start" /\ d.pending.key = d.lastStart
                 \/ d.pending.action = "stop" /\ (d.active = None \/ d.pending.key = d.lastStop)
      m    == IF done THEN [d EXCEPT !.pending = None] ELSE Promoted(d)
  IN  IF d.active # None
      THEN IF d.node = None THEN Degraded(m, "inconsistent") ELSE [m EXCEPT !.state = "active"]
      ELSE IF d.node # None THEN Degraded(m, "inconsistent") ELSE m

(* What the module reads at its start: service.New has applied the local   *)
(* configuration, and the report of it has persisted the new module's      *)
(* empty session over what the former process left.                        *)
Found == Fresh0

Boot ==
  /\ ~up /\ up' = TRUE
  /\ Settle(Reconciled(Found))
  /\ mode' = config.local /\ config' = [config EXCEPT !.source = "local_fallback"]
  /\ UNCHANGED <<fact, again, paired, waiting, open>>

-----------------------------------------------------------------------------
Receiver ==
  \/ Observe \/ Tick \/ Ripen \/ CooldownPasses \/ SettlingPasses
  \/ HeartbeatConfig \/ UpdateConfig \/ ResetDegraded \/ Drop \/ Overflow \/ CredentialChanges
  \/ Receive \/ Lose

Cloud == ServeStart \/ RefuseStart \/ ServeStop \/ RefuseStop \/ Refuse \/ CloudCloses \/ CloudOpens

Next == Receiver \/ Cloud \/ Crash \/ Shutdown \/ Boot

Spec == Init /\ [][Next]_vars

(* A process that ended is started again, a call ends (it has a timeout),  *)
(* and the run loop is scheduled and time passes between two restarts,     *)
(* however often the process ends.  A cloud that is asked again and again  *)
(* serves one request at last, or names the session that is in its way,    *)
(* and one such answer arrives.  Nothing says that a node falls silent.    *)
FairSpec ==
  /\ Spec
  /\ WF_vars(Boot) /\ WF_vars(Receive \/ Lose)
  /\ SF_vars(TickWith(FALSE)) /\ SF_vars(Ripen) /\ SF_vars(CooldownPasses) /\ SF_vars(SettlingPasses)
  /\ SF_vars((ServeStart \/ RefuseStart) /\ call'.answer.session # None) /\ SF_vars(ServeStop)
  /\ SF_vars(Receive /\ call.answer.class \in {"ok", "resolved", "already_active"})

-----------------------------------------------------------------------------
(* Properties.                                                             *)

(* What is pending fits the session, in memory and on disk: a start only   *)
(* without a session, a stop only with one, a node with the session and    *)
(* with nothing else, which is what reconcileStartupLocked asks of a state *)
(* it can go on with.                                                      *)
PendingFitsSession ==
  \A m \in {mem, disk} :
    /\ m.pending # None => (m.pending.action = "start" <=> m.active = None)
    /\ m.active = None <=> m.node = None

(* A request is on disk with its key before it leaves and while it is      *)
(* under way (attemptStart, attemptStop: persistLocked before the call).   *)
CallOnDisk ==
  call # None =>
    /\ disk.pending = [action |-> call.action, node |-> call.node, key |-> call.key]
    /\ disk = Persisted(mem)

Accounted(o) ==
  \/ o.id = mem.active
  \/ /\ mem.pending # None /\ mem.pending.action = "start"
     /\ mem.pending.key = o.key

(* A session the receiver opened is, for as long as it is open, one the    *)
(* receiver can still stop: its active one, or the one its pending start   *)
(* will be told of.  Whatever is lost, repeated or refused, it loses sight *)
(* of none, unless the process ends, the operator resets the module or the *)
(* cloud rejects the receiver as revoked, disabled or replaced.            *)
NoneForgotten ==
  [][\A o \in open' : o.key # None =>
       \/ Accounted(o)'
       \/ /\ o \in open
          /\ ~Accounted(o) \/ ~up' \/ ResetDegraded \/ mem'.blocked = "lifecycle"]_vars

(* docs/ga-v2.9.0-home-auto-session-m1.md: dedupe and active-session state *)
(* are persisted for restart safety.  Without a reset and a rejection, no  *)
(* session of the receiver runs on with nobody to end it; a restart breaks *)
(* it.                                                                     *)
SessionAccounted == \A o \in open : o.key # None => Accounted(o)

Controlling == up /\ mode = "control" /\ paired /\ ~Stuck(mem)

(* A start or stop that was begun is not retried for ever: it takes place, *)
(* unless the module is blocked, switched or unpaired, or the process      *)
(* ends, which forgets it (retry cooldowns, the fallback stop).            *)
PendingResolves ==
  mem.pending # None ~> (mem.pending = None \/ (up /\ ~Controlling))

(* docs/home-auto-session.md: stop on outside -> inside transition.  A     *)
(* session does not outlast the return of every tracked node.              *)
ReturnEndsSession ==
  (up /\ mem.active # None /\ \A n \in Nodes : fact[n] = "inside")
    ~> (mem.active = None \/ ~Controlling \/ \E n \in Nodes : fact[n] # "inside")
=============================================================================
