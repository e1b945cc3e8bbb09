-------------------------- MODULE MeshCoreTracking --------------------------
(***************************************************************************)
(* The tracking controller of MeshCore: for one target it asks a telemetry *)
(* reading again and again, at an interval chosen from the target's        *)
(* motion or from the failures, and resets the companion's stored path     *)
(* when that path has gone stale.                                          *)
(*                                                                         *)
(* Start spawns a goroutine, a run, known by its generation.  Stop does    *)
(* not wait for it: a run whose request is in flight goes on when a later  *)
(* run is already at work.  The mutex is held for single sections, never   *)
(* during a request, a path reset or the staging of a result.              *)
(*                                                                         *)
(* Time is left out: the timer of a waiting run may fire at any moment.    *)
(* So is what is only shown or logged: the recent polls and their labels,  *)
(* the number of the route, the last times and tags.  A position is what   *)
(* its comparison with the last one says.                                  *)
(***************************************************************************)
EXTENDS Integers

CONSTANTS
  Targets,             \* public keys that may be tracked
  Routes,              \* direct routes, each with its own fingerprint
  Fixes,               \* what a reading's position may say
  Answers,             \* what a request may return
  Sources,             \* who may own the tracking: nobody, the portal, a session
  Threshold,           \* timeouts in a row before the path is reset
  UnknownInterval, StationaryInterval, SlowInterval, FastInterval,
  MinimumInterval, MaximumBackoff,
  MaxGeneration,       \* bound: calls of Start and Stop
  None

Motions == {"stationary", "slow", "fast"}
Positions == Motions \cup {"none", "same", "close", "jump"}
(* The adapter is disconnected, or a request could not be written: that    *)
(* error wraps the other, and its text is not the same.                    *)
Unavailable == {"disconnected", "unwritten"}
Errors == {"timeout", "other"} \cup Unavailable

(* Evidence of the route that a request took: the companion's stored path, *)
(* and whether the companion has confirmed that it sent along it.          *)
NoEvidence == [route |-> "unknown", sent |-> FALSE]
Evidence == [route : Routes \cup {"flood"}, sent : BOOLEAN] \cup {NoEvidence}

Readings == [error : {None}, fix : Fixes, by : Evidence]
Failures == [error : Errors, fix : {"none"}, by : Evidence]
Returns == Readings \cup Failures

ASSUME TrackingAssumption ==
  /\ Fixes \subseteq Positions
  /\ Answers \subseteq Returns
  /\ Sources \subseteq {"nobody", "manual", "session"}
  /\ Threshold \in Nat \ {0}
  /\ {UnknownInterval, StationaryInterval, SlowInterval, FastInterval, MinimumInterval,
      MaximumBackoff, MaxGeneration} \subseteq Nat
  /\ MinimumInterval > 0
  /\ \A i \in {UnknownInterval, StationaryInterval, SlowInterval, FastInterval} :
       i >= MinimumInterval
  /\ MaximumBackoff >= UnknownInterval
  /\ None \notin Targets \cup Routes \cup STRING
  /\ Routes \cap {"flood", "unknown"} = {}

VARIABLES
  status,      \* the fields of TrackingStatus and of the motion filter that decide
  route,       \* the fields of the stale route recovery
  generation,  \* the number of the last Start or Stop
  wake,        \* a value waits in scheduleChanged
  runs,        \* the goroutines, by generation
  past         \* history: what the radio has shown of the route, for ResetEarned

vars == <<status, route, generation, wake, runs, past>>

Generations == 1..MaxGeneration

Intervals ==
  MinimumInterval..(MaximumBackoff + StationaryInterval + SlowInterval + FastInterval)

Statuses ==
  [active : BOOLEAN, target : Targets \cup {None}, source : Sources \cup {"nobody"},
   motion : Motions \cup {"unknown"}, candidate : Motions \cup {"unknown"}, located : BOOLEAN,
   interval : Intervals, failures : 0..2, adapterFailures : 0..2, diagnostic : BOOLEAN,
   lastError : {None, "other"} \cup Unavailable]

RouteStates ==
  [episode : BOOLEAN, acknowledged : BOOLEAN, stale : Routes \cup {None},
   failures : 0..(2 * Threshold - 1), reset : Routes \cup {None}, moved : BOOLEAN,
   flood : BOOLEAN]

Pasts == [route : Routes \cup {None}, streak : 0..Threshold, spent : Routes \cup {None}]

NoResult == [error |-> None, fix |-> "none", by |-> NoEvidence]
Steps == {"ready", "asking", "failed", "resetting", "recording", "answered", "staged",
          "polled", "planned", "waiting", "done"}
Results == [error : Errors \cup {None}, fix : Fixes \cup {"none"}, by : Evidence]
Runs == [step : Steps, target : Targets \cup {None}, result : Results, manual : BOOLEAN]
Ended == [step |-> "done", target |-> None, result |-> NoResult, manual |-> FALSE]

NoRoute ==
  [episode |-> FALSE, acknowledged |-> FALSE, stale |-> None, failures |-> 0,
   reset |-> None, moved |-> FALSE, flood |-> FALSE]
NothingSeen == [route |-> None, streak |-> 0, spent |-> None]

Fresh(source, target) ==
  [active |-> TRUE, target |-> target, source |-> source, motion |-> "unknown",
   candidate |-> "unknown", located |-> FALSE, interval |-> UnknownInterval, failures |-> 0,
   adapterFailures |-> 0, diagnostic |-> FALSE, lastError |-> None]

Init ==
  /\ status = [Fresh("nobody", None) EXCEPT !.active = FALSE]
  /\ route = NoRoute
  /\ generation = 0
  /\ wake = FALSE
  /\ runs = [g \in Generations |-> Ended]
  /\ past = NothingSeen

-----------------------------------------------------------------------------
(* The controller's operations, called by the service.                     *)

Current(g) == status.active /\ status.target = runs[g].target /\ generation = g

(* Stop cancels the context under the mutex, in the section that takes a   *)
(* new generation.                                                         *)
Cancelled(g) == generation # g

IntervalFor(motion) ==
  CASE motion = "stationary" -> StationaryInterval
    [] motion = "slow" -> SlowInterval
    [] motion = "fast" -> FastInterval
    [] OTHER -> UnknownInterval

(* A value sent to the channel goes to a goroutine that waits for it; if   *)
(* none does it stays in the buffer of one.                                *)
Signal ==
  LET waiting == {g \in Generations : runs[g].step = "waiting"} IN
  /\ wake' = (wake \/ waiting = {})
  /\ runs' = [g \in Generations |->
                IF g \in waiting THEN [runs[g] EXCEPT !.step = "ready", !.manual = FALSE]
                ELSE runs[g]]

SetControlSource(source) ==
  /\ source # status.source
  /\ \/ /\ source = "session" /\ status.active /\ status.lastError # "disconnected"
        /\ status' = [status EXCEPT !.source = source, !.interval = IntervalFor(status.motion)]
        /\ Signal
     \/ /\ ~(source = "session" /\ status.active /\ status.lastError # "disconnected")
        /\ status' = [status EXCEPT !.source = source]
        /\ UNCHANGED <<wake, runs>>
  /\ UNCHANGED <<route, generation, past>>

Start(target) ==
  /\ ~status.active
  /\ generation < MaxGeneration
  /\ generation' = generation + 1
  /\ LET kept == status.source = "session" /\ status.diagnostic IN
     status' = [Fresh(status.source, target) EXCEPT
                  !.diagnostic = kept,
                  !.adapterFailures = IF kept THEN status.adapterFailures ELSE 0]
  /\ route' = NoRoute
  /\ wake' = FALSE
  /\ runs' = [runs EXCEPT ![generation + 1] = [Ended EXCEPT !.step = "ready", !.target = target]]
  /\ past' = NothingSeen

Stop ==
  /\ generation < MaxGeneration
  /\ generation' = generation + 1
  /\ status' = [status EXCEPT !.active = FALSE, !.target = None, !.interval = UnknownInterval,
                              !.candidate = "unknown", !.located = FALSE]
  /\ route' = NoRoute
  /\ wake' = FALSE
  /\ runs' = [g \in Generations |-> IF runs[g].step = "waiting" THEN Ended ELSE runs[g]]
  /\ past' = NothingSeen

(* The companion's notice that it has learned another path.  The count of  *)
(* such notices matters only as different from its value at the reset.     *)
HandlePathUpdated(target) ==
  /\ status.active /\ status.target = target
  /\ route' = [route EXCEPT !.moved = route.acknowledged]
  /\ past' = [past EXCEPT !.spent = None]
  /\ UNCHANGED <<status, generation, wake, runs>>

-----------------------------------------------------------------------------
(* The stale route recovery.                                               *)

Candidate(by) == by.route \in Routes /\ by.sent

Forgotten(r) == [r EXCEPT !.stale = None, !.failures = 0]

Settled(r) ==
  [r EXCEPT !.episode = FALSE, !.acknowledged = FALSE, !.reset = None, !.moved = FALSE,
            !.flood = FALSE]

Observed(r, by) ==
  [r EXCEPT !.flood = @ \/ (r.episode /\ r.acknowledged /\ by.route = "flood" /\ by.sent)]

Rearmed(r, by) ==
  IF r.episode /\ r.acknowledged /\ (by.route # r.reset \/ r.flood \/ r.moved)
  THEN Forgotten(Settled(r))
  ELSE r

(* The streak is compared with the threshold and its multiples only.       *)
Longer(n) == IF n = 2 * Threshold - 1 THEN Threshold ELSE n + 1

Noted(r, by) ==
  [r EXCEPT !.stale = by.route, !.failures = IF r.stale = by.route THEN Longer(@) ELSE 1]

(* Mutation: an acknowledged reset is not remembered.                      *)
ResetDue_Forgetful(r) == r.failures >= Threshold /\ r.failures % Threshold = 0

ResetDue(r) ==
  /\ r.failures >= Threshold
  /\ r.episode => ~r.acknowledged /\ r.failures % Threshold = 0

Established(r, by) == IF by.route # "unknown" /\ r.episode THEN Settled(r) ELSE r

(* What the timeouts in a row have been, whatever the controller counts.   *)
Seen(p, result) ==
  IF result.error = "timeout" /\ Candidate(result.by)
  THEN [route  |-> result.by.route,
        streak |-> IF p.route = result.by.route /\ p.streak < Threshold
                   THEN p.streak + 1 ELSE IF p.route = result.by.route THEN Threshold ELSE 1,
        spent  |-> IF p.spent = result.by.route THEN p.spent ELSE None]
  ELSE [route |-> None, streak |-> 0,
        spent |-> IF result.by.route = "flood" /\ result.by.sent THEN None ELSE p.spent]

-----------------------------------------------------------------------------
(* A run.                                                                  *)

At(g, step) == runs[g].step = step

To(g, step) == runs' = [runs EXCEPT ![g].step = step]

(* What the rest of the poll has no use for is forgotten.                  *)
Report(g) == runs' = [runs EXCEPT ![g].step = "recording", ![g].result.by = NoEvidence]

Polled(g) == runs' = [runs EXCEPT ![g].step = "polled", ![g].result = NoResult]

Again(g) == runs' = [runs EXCEPT ![g].step = "ready", ![g].manual = FALSE]

End(g) == runs' = [runs EXCEPT ![g] = Ended]

Ask(g) ==
  /\ At(g, "ready")
  /\ IF Current(g) THEN To(g, "asking") ELSE End(g)
  /\ UNCHANGED <<status, route, generation, wake, past>>

(* The request returns.                                                    *)
Answer(g) ==
  /\ At(g, "asking")
  /\ \E result \in Answers :
       runs' = [runs EXCEPT ![g].result = result,
                            ![g].step = IF result.error = None THEN "answered" ELSE "failed"]
  /\ UNCHANGED <<status, route, generation, wake, past>>

Recover(g) ==
  LET result == runs[g].result
      due == Noted(Rearmed(route, result.by), result.by) IN
  /\ At(g, "failed")
  /\ \/ /\ ~Current(g)
        /\ Report(g)
        /\ UNCHANGED <<route, past>>
     \/ /\ Current(g)
        /\ result.error = "timeout" => ~Candidate(result.by)
        /\ route' = Forgotten(Observed(route, result.by))
        /\ past' = Seen(past, result)
        /\ Report(g)
     \/ /\ Current(g)
        /\ result.error = "timeout" /\ Candidate(result.by)
        /\ past' = Seen(past, result)
        /\ IF ResetDue(due)
           THEN /\ route' = [due EXCEPT !.episode = TRUE]
                /\ To(g, "resetting")
           ELSE /\ route' = due
                /\ Report(g)
  /\ UNCHANGED <<status, generation, wake>>

(* The path reset returns; the outcome is recorded in the same section.    *)
ResetReturns(g, done) ==
  /\ At(g, "resetting")
  /\ IF Current(g) /\ done
     THEN /\ route' = [route EXCEPT !.acknowledged = TRUE, !.reset = route.stale,
                                    !.moved = FALSE, !.flood = FALSE]
          /\ past' = [past EXCEPT !.spent = past.route, !.streak = 0]
     ELSE /\ UNCHANGED route
          /\ past' = IF Current(g) THEN [past EXCEPT !.streak = 0] ELSE past
  /\ Report(g)
  /\ UNCHANGED <<status, generation, wake>>

FailureInterval(error, failures) ==
  IF status.source = "session" /\ error \notin Unavailable
  THEN IntervalFor(status.motion)
  ELSE LET next == IF failures = 1
                   THEN IF UnknownInterval > status.interval THEN UnknownInterval
                        ELSE status.interval
                   ELSE 2 * status.interval
           capped == IF next > MaximumBackoff THEN MaximumBackoff ELSE next IN
       IF capped < MinimumInterval THEN MinimumInterval ELSE capped

(* The count of failures is compared with one, that of failures of the     *)
(* adapter with two.                                                       *)
RecordFailure(g) ==
  LET error == runs[g].result.error
      failures == IF status.failures = 0 THEN 1 ELSE 2
      lost == status.source = "session" /\ error \in Unavailable
      adapterFailures == IF ~lost THEN 0 ELSE IF status.adapterFailures = 0 THEN 1 ELSE 2 IN
  /\ At(g, "recording")
  /\ status' = IF Current(g)
               THEN [status EXCEPT !.failures = failures,
                       !.adapterFailures = adapterFailures,
                       !.diagnostic = lost /\ (@ \/ adapterFailures = 2),
                       !.lastError = IF error \in Unavailable THEN error ELSE "other",
                       !.interval = FailureInterval(error, failures)]
               ELSE status
  /\ Polled(g)
  /\ UNCHANGED <<route, generation, wake, past>>

(* The reading is staged for the outbox whether or not the run is still    *)
(* current; a staging that fails makes the poll a failure.                 *)
Stage(g, stored) ==
  /\ At(g, "answered")
  /\ runs' = [runs EXCEPT
                ![g].step = IF stored THEN "staged" ELSE "recording",
                ![g].result = IF stored THEN @ ELSE [NoResult EXCEPT !.error = "other"]]
  /\ UNCHANGED <<status, route, generation, wake, past>>

(* Two readings in a row must agree on another motion.                     *)
Moved(s, motion) ==
  IF s.motion = motion THEN [s EXCEPT !.candidate = "unknown"]
  ELSE IF s.motion = "unknown" \/ s.candidate = motion
  THEN [s EXCEPT !.motion = motion, !.candidate = "unknown"]
  ELSE [s EXCEPT !.candidate = motion]

ApplyFix(s, fix) ==
  LET still == [s EXCEPT !.motion = "unknown", !.candidate = "unknown"] IN
  CASE fix = "none" -> [still EXCEPT !.lastError = "other"]
    [] fix # "none" /\ (~s.located \/ fix = "same") ->
         [still EXCEPT !.located = TRUE, !.lastError = None]
    [] s.located /\ fix \in {"close", "jump"} -> [s EXCEPT !.lastError = "other"]
    [] s.located /\ fix \in Motions -> Moved([s EXCEPT !.lastError = None], fix)

(* Mutation: it is not asked whether the run is still the current one.     *)
RecordSuccess_Late(g) ==
  LET next == ApplyFix([status EXCEPT !.failures = 0], runs[g].result.fix) IN
  /\ At(g, "staged")
  /\ status' = [next EXCEPT !.interval = IntervalFor(next.motion)]
  /\ route' = Established(Forgotten(route), runs[g].result.by)
  /\ Polled(g)
  /\ UNCHANGED <<generation, wake, past>>

RecordSuccess(g) ==
  LET result == runs[g].result
      cleared == [status EXCEPT !.failures = 0, !.adapterFailures = 0, !.diagnostic = FALSE,
                                !.lastError = None]
      next == ApplyFix(cleared, result.fix) IN
  /\ At(g, "staged")
  /\ IF Current(g)
     THEN /\ status' = [next EXCEPT !.interval = IntervalFor(next.motion)]
          /\ route' = Established(Forgotten(route), result.by)
          /\ past' = [Seen(past, result) EXCEPT
                        !.spent = IF result.by.route = "unknown" THEN @ ELSE None]
     ELSE UNCHANGED <<status, route, past>>
  /\ Polled(g)
  /\ UNCHANGED <<generation, wake>>

(* Mutation: a run that has failed too often gives up.                     *)
Plan_GivesUp(g) ==
  /\ At(g, "polled")
  /\ IF Current(g) /\ status.failures < 2
     THEN runs' = [runs EXCEPT ![g].step = "planned"]
     ELSE End(g)
  /\ UNCHANGED <<status, route, generation, wake, past>>

(* The next request is planned from the interval and the source read here. *)
Plan(g) ==
  /\ At(g, "polled")
  /\ IF Current(g)
     THEN runs' = [runs EXCEPT ![g].step = "planned",
                               ![g].manual = status.source # "session"]
     ELSE End(g)
  /\ UNCHANGED <<status, route, generation, wake, past>>

(* The select: one of the cases that are ready, or a wait for the first.   *)
Select(g) ==
  /\ At(g, "planned")
  /\ \/ /\ Cancelled(g)
        /\ End(g)
        /\ UNCHANGED wake
     \/ /\ wake
        /\ wake' = FALSE
        /\ Again(g)
     \/ /\ ~Cancelled(g) /\ ~wake
        /\ To(g, "waiting")
        /\ UNCHANGED wake
  /\ UNCHANGED <<status, route, generation, past>>

Timer(g) ==
  /\ runs[g].step \in {"planned", "waiting"}
  /\ Again(g)
  /\ UNCHANGED <<status, route, generation, wake, past>>

RunStep(g) ==
  \/ Ask(g) \/ Answer(g) \/ Recover(g) \/ RecordFailure(g) \/ RecordSuccess(g) \/ Plan(g)
  \/ Select(g) \/ Timer(g)
  \/ \E ok \in BOOLEAN : ResetReturns(g, ok) \/ Stage(g, ok)

Next ==
  \/ \E source \in Sources : SetControlSource(source)
  \/ \E target \in Targets : Start(target) \/ HandlePathUpdated(target)
  \/ Stop
  \/ \E g \in Generations : RunStep(g)

Spec == Init /\ [][Next]_vars

(* Every call that a run waits for returns: the telemetry request and the  *)
(* path reset have their own timers, staging waits for the outbox engine.  *)
FairSpec == Spec /\ \A g \in Generations : WF_vars(RunStep(g))

-----------------------------------------------------------------------------
(* Properties.                                                             *)

TypeTrackingOK ==
  /\ status \in Statuses
  /\ route \in RouteStates
  /\ generation \in 0..MaxGeneration
  /\ wake \in BOOLEAN
  /\ runs \in [Generations -> Runs]
  /\ past \in Pasts

(* What a run does after it was stopped, however late its request or its   *)
(* path reset returns, changes nothing of the status, the motion and the   *)
(* route recovery of the run that has come after it.  (It may still take a *)
(* wake-up that was meant for the other: TakeoverWakes.)                   *)
StaleRunsHarmless ==
  [][\A g \in Generations :
       runs'[g] # runs[g] /\ ~Current(g) /\ generation' = generation
         => UNCHANGED <<status, route>>]_vars

(* Under a session the interval follows the motion, whoever owned the      *)
(* tracking before and whatever backoff it had reached, unless the adapter *)
(* is what failed.                                                         *)
SessionCadence ==
  status.active /\ status.source = "session" /\ status.lastError \notin Unavailable
    => status.interval = IntervalFor(status.motion)

(* The companion's stored path is reset only after three timeouts in a row *)
(* of requests confirmed as sent along one route, none of them before the  *)
(* last reset; and never again for a route whose reset was acknowledged    *)
(* while the radio has shown no other.                                     *)
ResetEarned ==
  [][\A g \in Generations :
       At(g, "failed") /\ runs'[g].step = "resetting"
         => past'.streak = Threshold /\ past'.spent # past'.route]_vars

(* As long as tracking is shown as active, its run is alive and asks again *)
(* and again: no failure, path reset, wake or late goroutine ends it.      *)
TrackingGoesOn ==
  \A g \in Generations : []<>(At(g, "asking") \/ generation # g \/ ~status.active)

(* "A Session takeover wakes a pending manual delay" (tracking.go:262):    *)
(* the current run never sits out a delay that was planned before the      *)
(* session took over.                                                      *)
TakeoverWakes ==
  \A g \in Generations :
    Current(g) /\ runs[g].step \in {"planned", "waiting"} /\ runs[g].manual
      /\ status.source = "session" /\ status.lastError # "disconnected"
      => wake
=============================================================================
