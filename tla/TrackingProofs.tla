--------------------------- MODULE TrackingProofs ---------------------------
(***************************************************************************)
(* Theorems about MeshCoreTracking for all values of its constants: any    *)
(* number of goroutines left over by Stop, any routes and thresholds.      *)
(***************************************************************************)
EXTENDS MeshCoreTracking, TLAPS

-----------------------------------------------------------------------------
(* The helpers' types.                                                     *)

LEMMA IntervalType ==
  /\ UnknownInterval \in Intervals
  /\ \A motion : IntervalFor(motion) \in Intervals
<1>1. /\ UnknownInterval \in Nat /\ StationaryInterval \in Nat /\ SlowInterval \in Nat
      /\ FastInterval \in Nat /\ MinimumInterval \in Nat /\ MaximumBackoff \in Nat
      /\ UnknownInterval >= MinimumInterval /\ StationaryInterval >= MinimumInterval
      /\ SlowInterval >= MinimumInterval /\ FastInterval >= MinimumInterval
      /\ MaximumBackoff >= UnknownInterval
  BY TrackingAssumption
<1>2. /\ UnknownInterval \in Intervals /\ StationaryInterval \in Intervals
      /\ SlowInterval \in Intervals /\ FastInterval \in Intervals
  BY <1>1 DEF Intervals
<1>3. \A motion : IntervalFor(motion)
        \in {UnknownInterval, StationaryInterval, SlowInterval, FastInterval}
  BY DEF IntervalFor
<1> QED
  BY <1>2, <1>3

LEMMA FailureIntervalType ==
  ASSUME status \in Statuses, NEW error, NEW failures
  PROVE  FailureInterval(error, failures) \in Intervals
<1> DEFINE next == IF failures = 1
                   THEN IF UnknownInterval > status.interval THEN UnknownInterval
                        ELSE status.interval
                   ELSE 2 * status.interval
           capped == IF next > MaximumBackoff THEN MaximumBackoff ELSE next
           chosen == IF capped < MinimumInterval THEN MinimumInterval ELSE capped
<1>1. /\ UnknownInterval \in Nat /\ StationaryInterval \in Nat /\ SlowInterval \in Nat
      /\ FastInterval \in Nat /\ MinimumInterval \in Nat /\ MaximumBackoff \in Nat
      /\ MaximumBackoff >= UnknownInterval /\ UnknownInterval >= MinimumInterval
  BY TrackingAssumption
<1>2. status.interval \in Intervals
  BY DEF Statuses
<1>3. next \in Nat
  BY <1>1, <1>2 DEF Intervals
<1>4. chosen \in Intervals
  <2> HIDE DEF next
  <2> QED
    BY <1>1, <1>3 DEF Intervals
<1>5. IntervalFor(status.motion) \in Intervals
  BY IntervalType
<1> HIDE DEF chosen
<1>6. FailureInterval(error, failures) = chosen
      \/ FailureInterval(error, failures) = IntervalFor(status.motion)
  BY DEF FailureInterval, chosen
<1> QED
  BY <1>4, <1>5, <1>6

LEMMA FreshType ==
  ASSUME NEW source \in Sources \cup {"nobody"}, NEW target \in Targets \cup {None}
  PROVE  Fresh(source, target) \in Statuses
<1>1. UnknownInterval \in Intervals
  BY IntervalType
<1>2. 0 \in 0..2
  OBVIOUS
<1>3. "unknown" \in Motions \cup {"unknown"} /\ None \in {None, "other"} \cup Unavailable
  OBVIOUS
<1> QED
  BY <1>1, <1>2, <1>3, Zenon DEF Fresh, Statuses

(* A position changes neither the target nor what is active.               *)
LEMMA ApplyFixType ==
  ASSUME NEW s \in Statuses, NEW fix \in Fixes \cup {"none"}
  PROVE  /\ ApplyFix(s, fix) \in Statuses
         /\ ApplyFix(s, fix).active = s.active
         /\ ApplyFix(s, fix).target = s.target
<1>1. fix \in Motions \cup {"none", "same", "close", "jump"}
  BY TrackingAssumption DEF Positions
<1>2. ASSUME NEW t \in Statuses, NEW motion \in Motions
      PROVE  /\ Moved(t, motion) \in Statuses
             /\ Moved(t, motion).active = t.active
             /\ Moved(t, motion).target = t.target
  BY <1>2 DEF Moved, Statuses
<1>3. CASE fix \in Motions /\ s.located /\ fix \notin {"none", "same", "close", "jump"}
  <2> DEFINE clear == [s EXCEPT !.lastError = None]
  <2>1. clear \in Statuses /\ clear.active = s.active /\ clear.target = s.target
    BY DEF Statuses
  <2>2. ApplyFix(s, fix) = Moved(clear, fix)
    BY <1>3 DEF ApplyFix
  <2> HIDE DEF clear
  <2> QED
    BY <1>2, <1>3, <2>1, <2>2
<1>4. CASE ~(fix \in Motions /\ s.located /\ fix \notin {"none", "same", "close", "jump"})
  <2> DEFINE still == [s EXCEPT !.motion = "unknown", !.candidate = "unknown"]
  <2>1. still \in Statuses /\ still.active = s.active /\ still.target = s.target
    BY DEF Statuses
  <2>2. \/ ApplyFix(s, fix) = [still EXCEPT !.lastError = "other"]
        \/ ApplyFix(s, fix) = [still EXCEPT !.located = TRUE, !.lastError = None]
        \/ ApplyFix(s, fix) = [s EXCEPT !.lastError = "other"]
    BY <1>1, <1>4 DEF ApplyFix, Motions, Statuses
  <2> DEFINE error(u) == [u EXCEPT !.lastError = "other"]
             located(u) == [u EXCEPT !.located = TRUE, !.lastError = None]
             Kept(u) == u \in Statuses /\ u.active = s.active /\ u.target = s.target
  <2>3. \A u \in Statuses :
          /\ error(u) \in Statuses /\ error(u).active = u.active
          /\ error(u).target = u.target
          /\ located(u) \in Statuses /\ located(u).active = u.active
          /\ located(u).target = u.target
    <3> SUFFICES ASSUME NEW u \in Statuses
                 PROVE  /\ error(u) \in Statuses /\ error(u).active = u.active
                        /\ error(u).target = u.target
                        /\ located(u) \in Statuses /\ located(u).active = u.active
                        /\ located(u).target = u.target
      OBVIOUS
    <3>1. /\ error(u) \in Statuses /\ error(u).active = u.active
          /\ error(u).target = u.target
      BY DEF Statuses
    <3>2. /\ located(u) \in Statuses /\ located(u).active = u.active
          /\ located(u).target = u.target
      BY DEF Statuses
    <3> QED
      BY <3>1, <3>2
  <2>4. Kept(error(still)) /\ Kept(located(still)) /\ Kept(error(s))
    <3> HIDE DEF still, error, located
    <3> QED
      BY <2>1, <2>3
  <2>5. \/ ApplyFix(s, fix) = error(still)
        \/ ApplyFix(s, fix) = located(still)
        \/ ApplyFix(s, fix) = error(s)
    BY <2>2
  <2>6. Kept(ApplyFix(s, fix))
    <3> HIDE DEF still, error, located, Kept
    <3> QED
      BY <2>4, <2>5
  <2> QED
    BY <2>6
<1> QED
  BY <1>3, <1>4

(* The route a candidate names is a direct one.                            *)
LEMMA CandidateRoute ==
  ASSUME NEW by \in Evidence, Candidate(by)
  PROVE  by.route \in Routes /\ by.route # None /\ by.route # "unknown"
  BY TrackingAssumption DEF Candidate

LEMMA LongerType ==
  ASSUME NEW n \in 0..(2 * Threshold - 1)
  PROVE  Longer(n) \in 1..(2 * Threshold - 1)
<1>1. Threshold \in Nat /\ Threshold >= 1
  BY TrackingAssumption
<1> QED
  BY <1>1 DEF Longer

LEMMA RouteTypes ==
  ASSUME NEW r \in RouteStates, NEW by \in Evidence
  PROVE  /\ Forgotten(r) \in RouteStates
         /\ Settled(r) \in RouteStates
         /\ Rearmed(r, by) \in RouteStates
         /\ Established(r, by) \in RouteStates
         /\ Forgotten(Observed(r, by)) \in RouteStates
         /\ Candidate(by) => Noted(r, by) \in RouteStates
<1>1. 0 \in 0..(2 * Threshold - 1) /\ 1 \in 0..(2 * Threshold - 1)
  BY TrackingAssumption
<1>2. \A s \in RouteStates : Forgotten(s) \in RouteStates /\ Settled(s) \in RouteStates
  BY <1>1 DEF Forgotten, Settled, RouteStates
<1>3. Rearmed(r, by) \in RouteStates /\ Established(r, by) \in RouteStates
  BY <1>2 DEF Rearmed, Established
<1>4. Observed(r, by) \in RouteStates
  BY DEF Observed, RouteStates
<1>5. ASSUME Candidate(by) PROVE Noted(r, by) \in RouteStates
  <2>1. by.route \in Routes
    BY <1>5 DEF Candidate
  <2>2. Longer(r.failures) \in 0..(2 * Threshold - 1)
    <3>1. Longer(r.failures) \in 1..(2 * Threshold - 1)
      BY LongerType DEF RouteStates
    <3> QED
      BY <3>1, TrackingAssumption
  <2> QED
    BY <1>1, <2>1, <2>2 DEF Noted, RouteStates
<1> QED
  BY <1>2, <1>3, <1>4, <1>5

LEMMA SeenType ==
  ASSUME NEW p \in Pasts, NEW result \in Results
  PROVE  Seen(p, result) \in Pasts
<1>1. Threshold \in Nat /\ Threshold >= 1
  BY TrackingAssumption
<1>2. p.route \in Routes \cup {None} /\ p.streak \in 0..Threshold /\ p.spent \in Routes \cup {None}
  BY DEF Pasts
<1>3. p.streak < Threshold => p.streak + 1 \in 0..Threshold
  BY <1>1, <1>2
<1>4. 0 \in 0..Threshold /\ 1 \in 0..Threshold /\ Threshold \in 0..Threshold
  BY <1>1
<1>5. Candidate(result.by) => result.by.route \in Routes
  BY DEF Candidate
<1> QED
  BY <1>2, <1>3, <1>4, <1>5 DEF Seen, Pasts

-----------------------------------------------------------------------------
(* One run takes one step.                                                 *)

(* No other run is touched.                                                *)
Alone(g) == \A h \in Generations \ {g} : runs'[h] = runs[h]

(* Who is tracked changes only with Start and Stop.                        *)
SameTarget == status'.active = status.active /\ status'.target = status.target

(* The ways in which a step changes its run.                               *)
RunUpdate(g) ==
  \/ \E step \in Steps : To(g, step)
  \/ Report(g) \/ Polled(g) \/ Again(g) \/ End(g)
  \/ \E manual \in BOOLEAN :
       runs' = [runs EXCEPT ![g].step = "planned", ![g].manual = manual]
  \/ \E result \in Results, step \in Steps :
       \/ runs' = [runs EXCEPT ![g].result = result, ![g].step = step]
       \/ runs' = [runs EXCEPT ![g].step = step, ![g].result = result]

LEMMA RunUpdates ==
  ASSUME runs \in [Generations -> Runs], NEW g \in Generations, RunUpdate(g)
  PROVE  runs' \in [Generations -> Runs] /\ Alone(g)
<1>1. NoEvidence \in Evidence /\ NoResult \in Results
  BY DEF NoEvidence, Evidence, NoResult, Results
<1>2. runs[g] \in Runs
  OBVIOUS
<1>3. ASSUME NEW run \in Runs, runs' = [runs EXCEPT ![g] = run]
      PROVE  runs' \in [Generations -> Runs] /\ Alone(g)
  BY <1>3 DEF Alone
<1>4. \E run \in Runs : runs' = [runs EXCEPT ![g] = run]
  <2>1. CASE \E step \in Steps : To(g, step)
    <3>1. PICK step \in Steps : To(g, step)
      BY <2>1
    <3>2. [runs[g] EXCEPT !.step = step] \in Runs
      BY <1>2 DEF Runs
    <3> QED
      BY <3>1, <3>2 DEF To
  <2>2. CASE Report(g)
    <3>1. [runs[g] EXCEPT !.step = "recording", !.result.by = NoEvidence] \in Runs
      BY <1>1, <1>2 DEF Runs, Results, Steps
    <3> QED
      BY <2>2, <3>1 DEF Report
  <2>3. CASE Polled(g)
    <3>1. [runs[g] EXCEPT !.step = "polled", !.result = NoResult] \in Runs
      BY <1>1, <1>2 DEF Runs, Steps
    <3> QED
      BY <2>3, <3>1 DEF Polled
  <2>4. CASE Again(g)
    <3>1. [runs[g] EXCEPT !.step = "ready", !.manual = FALSE] \in Runs
      BY <1>2 DEF Runs, Steps
    <3> QED
      BY <2>4, <3>1 DEF Again
  <2>5. CASE End(g)
    <3>1. Ended \in Runs
      BY <1>1 DEF Ended, Runs, Steps
    <3> QED
      BY <2>5, <3>1 DEF End
  <2>6. CASE \E manual \in BOOLEAN :
               runs' = [runs EXCEPT ![g].step = "planned", ![g].manual = manual]
    <3>1. PICK manual \in BOOLEAN :
            runs' = [runs EXCEPT ![g].step = "planned", ![g].manual = manual]
      BY <2>6
    <3>2. [runs[g] EXCEPT !.step = "planned", !.manual = manual] \in Runs
      BY <1>2 DEF Runs, Steps
    <3> QED
      BY <3>1, <3>2
  <2>7. CASE \E result \in Results, step \in Steps :
               \/ runs' = [runs EXCEPT ![g].result = result, ![g].step = step]
               \/ runs' = [runs EXCEPT ![g].step = step, ![g].result = result]
    <3>1. PICK result \in Results, step \in Steps :
            \/ runs' = [runs EXCEPT ![g].result = result, ![g].step = step]
            \/ runs' = [runs EXCEPT ![g].step = step, ![g].result = result]
      BY <2>7
    <3>2. /\ [runs[g] EXCEPT !.step = step, !.result = result] \in Runs
          /\ [runs[g] EXCEPT !.result = result, !.step = step] \in Runs
      BY <1>2 DEF Runs
    <3> QED
      BY <3>1, <3>2
  <2> QED
    BY <2>1, <2>2, <2>3, <2>4, <2>5, <2>6, <2>7 DEF RunUpdate
<1> QED
  BY <1>3, <1>4

LEMMA AnswerType ==
  ASSUME NEW result \in Answers
  PROVE  result \in Results
<1>1. result \in Returns
  BY TrackingAssumption
<1>2. Fixes \subseteq Fixes \cup {"none"} /\ Errors \subseteq Errors \cup {None}
  OBVIOUS
<1> QED
  BY <1>1, <1>2 DEF Returns, Readings, Failures, Results

(* What every step of a run keeps.                                         *)
RunFrame(g) ==
  /\ TypeTrackingOK'
  /\ Alone(g)
  /\ SameTarget
  /\ generation' = generation

LEMMA RunStepFrame ==
  ASSUME TypeTrackingOK, NEW g \in Generations, RunStep(g)
  PROVE  RunFrame(g)
<1> USE DEF RunFrame, SameTarget, TypeTrackingOK
<1>1. CASE Ask(g)
  <2>1. RunUpdate(g)
    BY <1>1 DEF Ask, RunUpdate, Steps
  <2> QED
    BY <1>1, <2>1, RunUpdates DEF Ask
<1>2. CASE Answer(g)
  <2>1. PICK result \in Answers :
          runs' = [runs EXCEPT ![g].result = result,
                               ![g].step = IF result.error = None THEN "answered" ELSE "failed"]
    BY <1>2 DEF Answer
  <2>2. RunUpdate(g)
    BY <2>1, AnswerType DEF RunUpdate, Steps
  <2> QED
    BY <1>2, <2>2, RunUpdates DEF Answer
<1>3. CASE Recover(g)
  <2> DEFINE result == runs[g].result
             due == Noted(Rearmed(route, result.by), result.by)
  <2>1. result \in Results /\ result.by \in Evidence
    BY DEF Runs, Results
  <2>2. Seen(past, result) \in Pasts
    BY <2>1, SeenType
  <2>3. Forgotten(Observed(route, result.by)) \in RouteStates
    BY <2>1, RouteTypes
  <2>4. Candidate(result.by) => due \in RouteStates /\ [due EXCEPT !.episode = TRUE] \in RouteStates
    <3>1. Candidate(result.by) => due \in RouteStates
      BY <2>1, RouteTypes
    <3> HIDE DEF due
    <3> QED
      BY <3>1 DEF RouteStates
  <2>5. /\ UNCHANGED <<status, generation, wake>>
        /\ Report(g) \/ To(g, "resetting")
        /\ past' \in Pasts /\ route' \in RouteStates
    <3> HIDE DEF due
    <3> QED
      BY <1>3, <2>2, <2>3, <2>4 DEF Recover, due
  <2> QED
    BY <2>5, RunUpdates DEF RunUpdate, Steps
<1>4. CASE RecordFailure(g)
  <2> DEFINE error == runs[g].result.error
             failures == IF status.failures = 0 THEN 1 ELSE 2
             lost == status.source = "session" /\ error \in Unavailable
             adapterFailures == IF ~lost THEN 0 ELSE IF status.adapterFailures = 0 THEN 1 ELSE 2
             diagnostic == lost /\ (status.diagnostic \/ adapterFailures = 2)
             lastError == IF error \in Unavailable THEN error ELSE "other"
             interval == FailureInterval(error, failures)
             next == [status EXCEPT !.failures = failures,
                        !.adapterFailures = adapterFailures, !.diagnostic = diagnostic,
                        !.lastError = lastError, !.interval = interval]
  <2>1. interval \in Intervals
    BY FailureIntervalType
  <2>2. /\ failures \in 0..2 /\ adapterFailures \in 0..2
        /\ diagnostic \in BOOLEAN /\ lastError \in {None, "other"} \cup Unavailable
    OBVIOUS
  <2>3. next \in Statuses /\ next.active = status.active /\ next.target = status.target
    <3> HIDE DEF failures, adapterFailures, diagnostic, lastError, interval
    <3> QED
      BY <2>1, <2>2 DEF Statuses
  <2>4. status' = next \/ status' = status
    BY <1>4 DEF RecordFailure, Statuses
  <2>5. /\ status' \in Statuses /\ SameTarget
        /\ UNCHANGED <<route, generation, wake, past>>
    <3> HIDE DEF next
    <3> QED
      BY <1>4, <2>3, <2>4 DEF RecordFailure
  <2>6. Polled(g)
    BY <1>4 DEF RecordFailure
  <2> QED
    BY <2>5, <2>6, RunUpdates DEF RunUpdate
<1>5. CASE RecordSuccess(g)
  <2> DEFINE result == runs[g].result
             cleared == [status EXCEPT !.failures = 0, !.adapterFailures = 0,
                                       !.diagnostic = FALSE, !.lastError = None]
             next == ApplyFix(cleared, result.fix)
             seen == [Seen(past, result) EXCEPT
                        !.spent = IF result.by.route = "unknown" THEN @ ELSE None]
  <2>1. result \in Results /\ result.by \in Evidence /\ result.fix \in Fixes \cup {"none"}
    BY DEF Runs, Results
  <2>2. cleared \in Statuses /\ cleared.active = status.active /\ cleared.target = status.target
    <3>1. 0 \in 0..2
      OBVIOUS
    <3> QED
      BY <3>1 DEF Statuses
  <2>3. next \in Statuses /\ next.active = status.active /\ next.target = status.target
    <3> HIDE DEF cleared
    <3> QED
      BY <2>1, <2>2, ApplyFixType
  <2>4. seen \in Pasts
    BY <2>1, SeenType DEF Pasts
  <2>5. Established(Forgotten(route), result.by) \in RouteStates
    BY <2>1, RouteTypes
  <2>6. \/ /\ status' = [next EXCEPT !.interval = IntervalFor(next.motion)]
           /\ route' = Established(Forgotten(route), result.by)
           /\ past' = seen
        \/ UNCHANGED <<status, route, past>>
    BY <1>5 DEF RecordSuccess
  <2>7. status' \in Statuses /\ SameTarget /\ route' \in RouteStates /\ past' \in Pasts
    <3> HIDE DEF next, seen
    <3> QED
      BY <2>3, <2>4, <2>5, <2>6, IntervalType DEF Statuses
  <2>8. Polled(g) /\ UNCHANGED <<generation, wake>>
    BY <1>5 DEF RecordSuccess
  <2> QED
    BY <2>7, <2>8, RunUpdates DEF RunUpdate
<1>6. CASE Plan(g)
  <2>1. RunUpdate(g)
    BY <1>6 DEF Plan, RunUpdate, Steps
  <2> QED
    BY <1>6, <2>1, RunUpdates DEF Plan
<1>7. CASE Select(g)
  <2>1. RunUpdate(g)
    BY <1>7 DEF Select, RunUpdate, Steps
  <2> QED
    BY <1>7, <2>1, RunUpdates DEF Select
<1>8. CASE Timer(g)
  <2>1. RunUpdate(g)
    BY <1>8 DEF Timer, RunUpdate, Steps
  <2> QED
    BY <1>8, <2>1, RunUpdates DEF Timer
<1>9. ASSUME NEW done \in BOOLEAN, ResetReturns(g, done)
      PROVE  RunFrame(g)
  <2>1. /\ UNCHANGED <<status, generation, wake>>
        /\ Report(g)
    BY <1>9 DEF ResetReturns
  <2>2. route' \in RouteStates
    BY <1>9 DEF ResetReturns, RouteStates
  <2>3. past' \in Pasts
    <3>1. 0 \in 0..Threshold
      BY TrackingAssumption
    <3> QED
      BY <1>9, <3>1 DEF ResetReturns, Pasts
  <2> QED
    BY <2>1, <2>2, <2>3, RunUpdates DEF RunUpdate
<1>10. ASSUME NEW stored \in BOOLEAN, Stage(g, stored)
       PROVE  RunFrame(g)
  <2>1. runs[g].result \in Results /\ [NoResult EXCEPT !.error = "other"] \in Results
    BY DEF Runs, Results, NoResult, NoEvidence, Evidence, Errors
  <2>2. RunUpdate(g)
    BY <1>10, <2>1 DEF Stage, RunUpdate, Steps
  <2> QED
    BY <1>10, <2>2, RunUpdates DEF Stage
<1> QED
  BY <1>1, <1>2, <1>3, <1>4, <1>5, <1>6, <1>7, <1>8, <1>9, <1>10 DEF RunStep

-----------------------------------------------------------------------------
(* Type correctness.                                                       *)

LEMMA InitType ==
  Init => TypeTrackingOK
<1> SUFFICES ASSUME Init PROVE TypeTrackingOK
  OBVIOUS
<1>1. Fresh("nobody", None) \in Statuses
  BY FreshType
<1>2. status \in Statuses
  BY <1>1 DEF Init, Statuses
<1>3. 0 \in 0..(2 * Threshold - 1) /\ 0 \in 0..Threshold /\ 0 \in 0..MaxGeneration
  BY TrackingAssumption
<1>4. route \in RouteStates /\ past \in Pasts
  BY <1>3 DEF Init, NoRoute, RouteStates, NothingSeen, Pasts
<1>5. Ended \in Runs
  BY DEF Ended, Runs, Steps, NoResult, NoEvidence, Results, Evidence
<1> QED
  BY <1>2, <1>3, <1>4, <1>5 DEF Init, TypeTrackingOK

LEMMA SourceType ==
  ASSUME TypeTrackingOK, NEW source \in Sources, SetControlSource(source)
  PROVE  /\ TypeTrackingOK'
         /\ SameTarget
         /\ UNCHANGED <<route, generation, past>>
         /\ \A g \in Generations :
              \/ runs'[g] = runs[g]
              \/ /\ runs[g].step = "waiting"
                 /\ runs'[g] = [runs[g] EXCEPT !.step = "ready", !.manual = FALSE]
<1> USE DEF TypeTrackingOK
<1>1. status' \in Statuses /\ SameTarget
  <2> DEFINE next == [status EXCEPT !.source = source]
             timed == [status EXCEPT !.source = source, !.interval = IntervalFor(status.motion)]
  <2>1. next \in Statuses /\ next.active = status.active /\ next.target = status.target
    BY DEF Statuses
  <2>2. timed \in Statuses /\ timed.active = status.active /\ timed.target = status.target
    BY IntervalType DEF Statuses
  <2>3. status' = next \/ status' = timed
    BY DEF SetControlSource
  <2> HIDE DEF next, timed
  <2> QED
    BY <2>1, <2>2, <2>3 DEF SameTarget
<1>2. UNCHANGED <<route, generation, past>>
  BY DEF SetControlSource
<1>3. CASE Signal
  <2>1. \A g \in Generations : [runs[g] EXCEPT !.step = "ready", !.manual = FALSE] \in Runs
    BY DEF Runs, Steps
  <2>2. /\ runs' \in [Generations -> Runs]
        /\ \A g \in Generations :
             \/ runs'[g] = runs[g]
             \/ /\ runs[g].step = "waiting"
                /\ runs'[g] = [runs[g] EXCEPT !.step = "ready", !.manual = FALSE]
    BY <1>3, <2>1 DEF Signal
  <2>3. wake' \in BOOLEAN
    BY <1>3 DEF Signal
  <2> QED
    BY <1>1, <1>2, <2>2, <2>3
<1>4. CASE UNCHANGED <<wake, runs>>
  BY <1>1, <1>2, <1>4
<1> QED
  BY <1>3, <1>4 DEF SetControlSource

LEMMA NextGeneration ==
  ASSUME generation \in 0..MaxGeneration, generation < MaxGeneration
  PROVE  /\ generation + 1 \in Generations
         /\ generation + 1 \in 0..MaxGeneration
         /\ generation + 1 # generation
         /\ \A g \in Generations : g > generation + 1 => g > generation
  BY TrackingAssumption DEF Generations

LEMMA StartType ==
  ASSUME TypeTrackingOK, NEW target \in Targets, Start(target)
  PROVE  /\ TypeTrackingOK'
         /\ ~status.active
         /\ generation + 1 \in Generations
         /\ generation' = generation + 1
         /\ status'.active /\ status'.target = target
         /\ route' = NoRoute /\ past' = NothingSeen
         /\ runs' = [runs EXCEPT
                       ![generation + 1] = [Ended EXCEPT !.step = "ready", !.target = target]]
<1> USE DEF TypeTrackingOK
<1> DEFINE kept == status.source = "session" /\ status.diagnostic
           fresh == Fresh(status.source, target)
           count == IF kept THEN status.adapterFailures ELSE 0
           next == [fresh EXCEPT !.diagnostic = kept, !.adapterFailures = count]
<1>1. fresh \in Statuses /\ fresh.active /\ fresh.target = target
  <2>1. status.source \in Sources \cup {"nobody"}
    BY DEF Statuses
  <2>2. fresh \in Statuses
    BY <2>1, FreshType
  <2> QED
    BY <2>2 DEF Fresh
<1>2. count \in 0..2 /\ kept \in BOOLEAN
  BY DEF Statuses
<1>3. next \in Statuses /\ next.active /\ next.target = target
  <2> DEFINE half == [fresh EXCEPT !.diagnostic = kept]
  <2> HIDE DEF fresh, count, kept
  <2>1. half \in Statuses /\ half.active /\ half.target = target
    BY <1>1, <1>2 DEF Statuses
  <2>2. next = [half EXCEPT !.adapterFailures = count]
    BY <1>1 DEF Statuses
  <2> HIDE DEF half, next
  <2> QED
    BY <1>2, <2>1, <2>2 DEF Statuses
<1>4. 0 \in 0..(2 * Threshold - 1) /\ 0 \in 0..Threshold
  BY TrackingAssumption
<1>5. NoRoute \in RouteStates /\ NothingSeen \in Pasts
  BY <1>4 DEF NoRoute, RouteStates, NothingSeen, Pasts
<1>6. [Ended EXCEPT !.step = "ready", !.target = target] \in Runs
  BY DEF Ended, Runs, Steps, NoResult, NoEvidence, Results, Evidence
<1>7. /\ generation + 1 \in Generations
      /\ generation + 1 \in 0..MaxGeneration
  BY NextGeneration DEF Start
<1>8. status' = next
  BY DEF Start
<1> HIDE DEF next
<1> QED
  BY <1>3, <1>5, <1>6, <1>7, <1>8 DEF Start

LEMMA StopType ==
  ASSUME TypeTrackingOK, Stop
  PROVE  /\ TypeTrackingOK'
         /\ generation + 1 \in Generations
         /\ generation' = generation + 1
         /\ ~status'.active
         /\ route' = NoRoute /\ past' = NothingSeen
         /\ \A g \in Generations : runs'[g] = IF runs[g].step = "waiting" THEN Ended ELSE runs[g]
<1> USE DEF TypeTrackingOK
<1>1. status' \in Statuses /\ ~status'.active
  BY IntervalType DEF Stop, Statuses
<1>2. 0 \in 0..(2 * Threshold - 1) /\ 0 \in 0..Threshold
  BY TrackingAssumption
<1>3. NoRoute \in RouteStates /\ NothingSeen \in Pasts
  BY <1>2 DEF NoRoute, RouteStates, NothingSeen, Pasts
<1>4. Ended \in Runs
  BY DEF Ended, Runs, Steps, NoResult, NoEvidence, Results, Evidence
<1>5. /\ runs' \in [Generations -> Runs]
      /\ \A g \in Generations : runs'[g] = IF runs[g].step = "waiting" THEN Ended ELSE runs[g]
  BY <1>4 DEF Stop
<1>6. /\ generation + 1 \in Generations
      /\ generation + 1 \in 0..MaxGeneration
  BY NextGeneration DEF Stop
<1> QED
  BY <1>1, <1>3, <1>5, <1>6 DEF Stop

LEMMA PathUpdatedType ==
  ASSUME TypeTrackingOK, NEW target \in Targets, HandlePathUpdated(target)
  PROVE  TypeTrackingOK' /\ UNCHANGED <<status, generation, wake, runs>>
<1>1. route' \in RouteStates /\ past' \in Pasts
  BY DEF HandlePathUpdated, TypeTrackingOK, RouteStates, Pasts
<1> QED
  BY <1>1 DEF HandlePathUpdated, TypeTrackingOK

(* Every variable has its type in every reachable state, so that the       *)
(* counts that stand for unbounded ones never leave their range.           *)
THEOREM TrackingTypeCorrect == Spec => []TypeTrackingOK
<1>1. Init => TypeTrackingOK
  BY InitType
<1>2. TypeTrackingOK /\ [Next]_vars => TypeTrackingOK'
  <2> SUFFICES ASSUME TypeTrackingOK, [Next]_vars PROVE TypeTrackingOK'
    OBVIOUS
  <2>1. ASSUME NEW source \in Sources, SetControlSource(source) PROVE TypeTrackingOK'
    BY <2>1, SourceType
  <2>2. ASSUME NEW target \in Targets, Start(target) PROVE TypeTrackingOK'
    BY <2>2, StartType
  <2>3. ASSUME NEW target \in Targets, HandlePathUpdated(target) PROVE TypeTrackingOK'
    BY <2>3, PathUpdatedType
  <2>4. CASE Stop
    BY <2>4, StopType
  <2>5. ASSUME NEW g \in Generations, RunStep(g) PROVE TypeTrackingOK'
    BY <2>5, RunStepFrame DEF RunFrame
  <2>6. CASE UNCHANGED vars
    BY <2>6 DEF vars, TypeTrackingOK
  <2> QED
    BY <2>1, <2>2, <2>3, <2>4, <2>5, <2>6 DEF Next
<1> QED
  BY <1>1, <1>2, PTL DEF Spec

-----------------------------------------------------------------------------
(* Runs and generations.                                                   *)

(* A run of the present generation that has not ended is the current one,  *)
(* and only that one waits for its timer.                                  *)
RunsFit ==
  \A g \in Generations :
    /\ g > generation => runs[g].step = "done"
    /\ g = generation /\ runs[g].step # "done" => Current(g)
    /\ runs[g].step = "waiting" => g = generation

(* What a step of a run leaves as it is, and where it may lead.            *)
LEMMA RunStepRuns ==
  ASSUME TypeTrackingOK, NEW g \in Generations, RunStep(g)
  PROVE  /\ runs[g].step # "done"
         /\ runs'[g].step # "done" => runs'[g].target = runs[g].target
         /\ runs'[g].step = "waiting" => g = generation
<1> USE DEF TypeTrackingOK
<1>1. runs[g] \in Runs
  OBVIOUS
<1>2. CASE Ask(g)
  BY <1>1, <1>2 DEF Ask, At, To, End, Ended, Runs
<1>3. CASE Answer(g)
  BY <1>1, <1>3 DEF Answer, At, Runs
<1>4. CASE Recover(g)
  <2>1. (Report(g) \/ To(g, "resetting")) /\ At(g, "failed")
    BY <1>4 DEF Recover
  <2> QED
    BY <1>1, <2>1 DEF At, Report, To, Runs
<1>5. CASE RecordFailure(g)
  <2>1. Polled(g) /\ At(g, "recording")
    BY <1>5 DEF RecordFailure
  <2> QED
    BY <1>1, <2>1 DEF At, Polled, Runs
<1>6. CASE RecordSuccess(g)
  <2>1. Polled(g) /\ At(g, "staged")
    BY <1>6 DEF RecordSuccess
  <2> QED
    BY <1>1, <2>1 DEF At, Polled, Runs
<1>7. CASE Plan(g)
  BY <1>1, <1>7 DEF Plan, At, End, Ended, Runs
<1>8. CASE Select(g)
  BY <1>1, <1>8 DEF Select, Cancelled, At, End, Ended, Again, To, Runs
<1>9. CASE Timer(g)
  BY <1>1, <1>9 DEF Timer, Again, Runs
<1>10. ASSUME NEW done \in BOOLEAN, ResetReturns(g, done)
       PROVE  /\ runs[g].step # "done"
              /\ runs'[g].step # "done" => runs'[g].target = runs[g].target
              /\ runs'[g].step = "waiting" => g = generation
  <2>1. Report(g) /\ At(g, "resetting")
    BY <1>10 DEF ResetReturns
  <2> QED
    BY <1>1, <2>1 DEF At, Report, Runs
<1>11. ASSUME NEW stored \in BOOLEAN, Stage(g, stored)
       PROVE  /\ runs[g].step # "done"
              /\ runs'[g].step # "done" => runs'[g].target = runs[g].target
              /\ runs'[g].step = "waiting" => g = generation
  BY <1>1, <1>11 DEF Stage, At, Runs
<1> QED
  BY <1>2, <1>3, <1>4, <1>5, <1>6, <1>7, <1>8, <1>9, <1>10, <1>11 DEF RunStep

LEMMA RunsFitStep ==
  ASSUME TypeTrackingOK, RunsFit, [Next]_vars
  PROVE  RunsFit'
<1>1. generation \in 0..MaxGeneration /\ MaxGeneration \in Nat
  BY TrackingAssumption DEF TypeTrackingOK
<1>2. ASSUME NEW source \in Sources, SetControlSource(source)
      PROVE  RunsFit'
  <2> SUFFICES ASSUME NEW g \in Generations
               PROVE  /\ g > generation' => runs'[g].step = "done"
                      /\ g = generation' /\ runs'[g].step # "done" => Current(g)'
                      /\ runs'[g].step = "waiting" => g = generation'
    BY DEF RunsFit
  <2>1. generation' = generation /\ SameTarget
    BY <1>2, SourceType
  <2>2. CASE runs'[g] = runs[g]
    BY <2>1, <2>2 DEF RunsFit, Current, SameTarget
  <2>3. CASE /\ runs[g].step = "waiting"
             /\ runs'[g] = [runs[g] EXCEPT !.step = "ready", !.manual = FALSE]
    <3>1. runs'[g].step = "ready" /\ runs'[g].target = runs[g].target
      BY <2>3 DEF TypeTrackingOK, Runs
    <3> QED
      BY <2>1, <2>3, <3>1, <1>1 DEF RunsFit, Current, SameTarget, Generations
  <2> QED
    BY <1>2, <2>2, <2>3, SourceType
<1>3. ASSUME NEW target \in Targets, Start(target)
      PROVE  RunsFit'
  <2> SUFFICES ASSUME NEW g \in Generations
               PROVE  /\ g > generation' => runs'[g].step = "done"
                      /\ g = generation' /\ runs'[g].step # "done" => Current(g)'
                      /\ runs'[g].step = "waiting" => g = generation'
    BY DEF RunsFit
  <2>1. /\ ~status.active /\ generation' = generation + 1
        /\ status'.active /\ status'.target = target
        /\ generation + 1 \in Generations
        /\ runs' = [runs EXCEPT
                      ![generation + 1] = [Ended EXCEPT !.step = "ready", !.target = target]]
    BY <1>3, StartType
  <2>2. CASE g = generation + 1
    <3>1. runs'[g].step = "ready" /\ runs'[g].target = target
      BY <2>1, <2>2 DEF TypeTrackingOK, Ended
    <3> QED
      BY <2>1, <2>2, <3>1, <1>1 DEF Current, Generations
  <2>3. CASE g # generation + 1
    <3>1. runs'[g] = runs[g]
      BY <2>1, <2>3 DEF TypeTrackingOK
    <3>2. runs[g].step # "waiting"
      BY <2>1 DEF RunsFit, Current
    <3> QED
      BY <2>1, <2>3, <3>1, <3>2, <1>1 DEF RunsFit, Generations
  <2> QED
    BY <2>2, <2>3
<1>4. CASE Stop
  <2> SUFFICES ASSUME NEW g \in Generations
               PROVE  /\ g > generation' => runs'[g].step = "done"
                      /\ g = generation' /\ runs'[g].step # "done" => Current(g)'
                      /\ runs'[g].step = "waiting" => g = generation'
    BY DEF RunsFit
  <2>1. /\ generation' = generation + 1
        /\ runs'[g] = IF runs[g].step = "waiting" THEN Ended ELSE runs[g]
    BY <1>4, StopType
  <2>2. runs'[g].step # "waiting" /\ (runs'[g].step # "done" => runs'[g] = runs[g])
    BY <2>1 DEF Ended
  <2>3. g > generation => runs[g].step = "done"
    BY DEF RunsFit
  <2> QED
    BY <2>1, <2>2, <2>3, <1>1 DEF Generations
<1>5. ASSUME NEW target \in Targets, HandlePathUpdated(target)
      PROVE  RunsFit'
  <2>1. UNCHANGED <<status, generation, runs>>
    BY <1>5, PathUpdatedType
  <2> QED
    BY <2>1 DEF RunsFit, Current
<1>6. ASSUME NEW h \in Generations, RunStep(h)
      PROVE  RunsFit'
  <2> SUFFICES ASSUME NEW g \in Generations
               PROVE  /\ g > generation' => runs'[g].step = "done"
                      /\ g = generation' /\ runs'[g].step # "done" => Current(g)'
                      /\ runs'[g].step = "waiting" => g = generation'
    BY DEF RunsFit
  <2>1. generation' = generation /\ SameTarget /\ Alone(h)
    BY <1>6, RunStepFrame DEF RunFrame
  <2>2. CASE g # h
    <3>1. runs'[g] = runs[g]
      BY <2>1, <2>2 DEF Alone
    <3> QED
      BY <2>1, <3>1 DEF RunsFit, Current, SameTarget
  <2>3. CASE g = h
    BY <1>6, <2>1, <2>3, RunStepRuns DEF RunsFit, Current, SameTarget
  <2> QED
    BY <2>2, <2>3
<1>7. CASE UNCHANGED vars
  BY <1>7 DEF vars, RunsFit, Current
<1> QED
  BY <1>2, <1>3, <1>4, <1>5, <1>6, <1>7 DEF Next

LEMMA RunsAlwaysFit == Spec => []RunsFit
<1>1. Init => RunsFit
  BY DEF Init, RunsFit, Ended
<1> QED
  BY <1>1, TrackingTypeCorrect, RunsFitStep, PTL DEF Spec

(* A run that is not the current one changes nothing but itself.           *)
LEMMA StaleRunStep ==
  ASSUME TypeTrackingOK, NEW g \in Generations, RunStep(g), ~Current(g)
  PROVE  UNCHANGED <<status, route>>
<1>1. ASSUME NEW done \in BOOLEAN, ResetReturns(g, done) PROVE UNCHANGED <<status, route>>
  BY <1>1 DEF ResetReturns
<1>2. ASSUME NEW stored \in BOOLEAN, Stage(g, stored) PROVE UNCHANGED <<status, route>>
  BY <1>2 DEF Stage
<1> QED
  BY <1>1, <1>2
     DEF RunStep, Ask, Answer, Recover, RecordFailure, RecordSuccess, Plan, Select, Timer

(* What a run does after Stop, and whatever it still waits for, changes    *)
(* nothing of the run that has come after it: the guards on generation and *)
(* target suffice although Stop waits for nobody.                          *)
THEOREM StaleRunsAlwaysHarmless == Spec => StaleRunsHarmless
<1> DEFINE Harmless ==
      \A g \in Generations :
        runs'[g] # runs[g] /\ ~Current(g) /\ generation' = generation
          => UNCHANGED <<status, route>>
<1>1. TypeTrackingOK /\ RunsFit /\ [Next]_vars => Harmless
  <2> SUFFICES ASSUME TypeTrackingOK, RunsFit, [Next]_vars, NEW g \in Generations,
                      runs'[g] # runs[g], ~Current(g), generation' = generation
               PROVE  UNCHANGED <<status, route>>
    OBVIOUS
  <2>1. generation + 1 # generation
    BY DEF TypeTrackingOK
  <2>2. ASSUME NEW source \in Sources, SetControlSource(source) PROVE FALSE
    <3>1. runs[g].step = "waiting"
      BY <2>2, SourceType
    <3> QED
      BY <3>1 DEF RunsFit
  <2>3. ASSUME NEW target \in Targets, Start(target) PROVE FALSE
    BY <2>1, <2>3, StartType
  <2>4. CASE Stop
    BY <2>1, <2>4, StopType
  <2>5. ASSUME NEW target \in Targets, HandlePathUpdated(target) PROVE FALSE
    BY <2>5, PathUpdatedType
  <2>6. ASSUME NEW h \in Generations, RunStep(h) PROVE UNCHANGED <<status, route>>
    <3>1. g = h
      BY <2>6, RunStepFrame DEF RunFrame, Alone
    <3> QED
      BY <2>6, <3>1, StaleRunStep
  <2>7. CASE UNCHANGED vars
    BY <2>7 DEF vars
  <2> QED
    BY <2>2, <2>3, <2>4, <2>5, <2>6, <2>7 DEF Next
<1>2. TypeTrackingOK /\ RunsFit /\ [Next]_vars => [Harmless]_vars
  BY <1>1
<1> QED
  BY <1>2, TrackingTypeCorrect, RunsAlwaysFit, PTL DEF Spec, StaleRunsHarmless

-----------------------------------------------------------------------------
(* The stale route recovery.                                               *)

(* What the controller counts is never more than what the radio has shown, *)
(* counted anew when a reset has been tried; and a route whose reset was   *)
(* acknowledged is still the one that the controller holds as reset.       *)
Fits(r, p) ==
  /\ r.stale = None => r.failures = 0
  /\ r.stale # None => p.route = r.stale
  /\ r.failures < Threshold => p.streak >= r.failures
  /\ r.failures >= Threshold => p.streak >= r.failures - Threshold
  /\ ~r.episode => r.failures < Threshold
  /\ p.spent # None =>
       r.episode /\ r.acknowledged /\ r.reset = p.spent /\ ~r.moved /\ ~r.flood

(* While the current run's reset is in flight the state is the one that    *)
(* called for it.                                                          *)
ResetFits ==
  \A g \in Generations :
    At(g, "resetting") /\ Current(g) =>
      route.episode /\ route.failures = Threshold /\ route.stale # None

RecoveryFits == Fits(route, past) /\ ResetFits

(* Among the counts that are kept, the threshold is its only multiple.     *)
LEMMA OneMultiple ==
  ASSUME NEW n \in Threshold..(2 * Threshold - 1), n % Threshold = 0
  PROVE  n = Threshold
<1>1. Threshold \in Nat /\ Threshold >= 1
  BY TrackingAssumption
<1>2. n - Threshold \in 0..(Threshold - 1)
  BY <1>1
<1>3. n % Threshold = n - Threshold
  BY <1>1, <1>2
<1> QED
  BY <1>1, <1>3

LEMMA RearmedFits ==
  ASSUME NEW r \in RouteStates, NEW p \in Pasts, Fits(r, p), NEW by \in Evidence
  PROVE  LET q == Rearmed(r, by) IN
         /\ q.stale = None => q.failures = 0
         /\ q.stale # None => p.route = q.stale
         /\ q.failures < Threshold => p.streak >= q.failures
         /\ q.failures >= Threshold => p.streak >= q.failures - Threshold
         /\ ~q.episode => q.failures < Threshold
         /\ p.spent = by.route /\ p.spent # None =>
              q.episode /\ q.acknowledged /\ q.reset = p.spent /\ ~q.moved /\ ~q.flood
<1> DEFINE q == Rearmed(r, by)
<1>1. CASE q = r
  BY <1>1 DEF Fits
<1>2. CASE q # r
  <2>1. q = Forgotten(Settled(r)) /\ (by.route # r.reset \/ r.flood \/ r.moved)
    BY <1>2 DEF Rearmed
  <2>2. q.stale = None /\ q.failures = 0
    BY <2>1 DEF Forgotten, Settled, RouteStates
  <2>3. p.streak \in Nat /\ Threshold \in Nat /\ Threshold > 0
    BY TrackingAssumption DEF Pasts
  <2>4. ~(p.spent = by.route /\ p.spent # None)
    BY <2>1 DEF Fits
  <2> HIDE DEF q
  <2>5. /\ q.stale = None => q.failures = 0
        /\ q.stale # None => p.route = q.stale
        /\ q.failures < Threshold => p.streak >= q.failures
        /\ q.failures >= Threshold => p.streak >= q.failures - Threshold
        /\ ~q.episode => q.failures < Threshold
    BY <2>2, <2>3
  <2> QED
    BY <2>4, <2>5 DEF q
<1> QED
  BY <1>1, <1>2

(* One more timeout along a route: the counts stay together, and when a    *)
(* reset is due it has been earned.                                        *)
LEMMA Earned ==
  ASSUME NEW r \in RouteStates, NEW p \in Pasts, Fits(r, p),
         NEW result \in Results, result.error = "timeout", Candidate(result.by)
  PROVE  LET due == Noted(Rearmed(r, result.by), result.by)
             q == Seen(p, result) IN
         /\ ResetDue(due) =>
              /\ due.failures = Threshold /\ due.stale # None
              /\ q.streak = Threshold /\ q.spent # q.route
              /\ Fits([due EXCEPT !.episode = TRUE], q)
         /\ ~ResetDue(due) => Fits(due, q)
<1> DEFINE by == result.by
           m == Rearmed(r, by)
           due == Noted(m, by)
           q == Seen(p, result)
<1>1. Threshold \in Nat /\ Threshold >= 1
  BY TrackingAssumption
<1>2. by \in Evidence /\ by.route # None
  <2>1. by \in Evidence
    BY DEF Results
  <2> QED
    BY <2>1, CandidateRoute
<1>3. m \in RouteStates /\ due \in RouteStates /\ q \in Pasts
  BY <1>2, RouteTypes, SeenType
<1>4. m.failures \in 0..(2 * Threshold - 1) /\ p.streak \in 0..Threshold
  BY <1>3 DEF RouteStates, Pasts
<1>5. /\ m.stale = None => m.failures = 0
      /\ m.stale # None => p.route = m.stale
      /\ m.failures < Threshold => p.streak >= m.failures
      /\ m.failures >= Threshold => p.streak >= m.failures - Threshold
      /\ ~m.episode => m.failures < Threshold
      /\ p.spent = by.route =>
           m.episode /\ m.acknowledged /\ m.reset = p.spent /\ ~m.moved /\ ~m.flood
  BY <1>2, RearmedFits
<1>6. /\ due.stale = by.route
      /\ due.failures = (IF m.stale = by.route THEN Longer(m.failures) ELSE 1)
      /\ due.episode = m.episode /\ due.acknowledged = m.acknowledged
      /\ due.reset = m.reset /\ due.moved = m.moved /\ due.flood = m.flood
  <2> HIDE DEF m
  <2> QED
    BY <1>3 DEF Noted, RouteStates
<1>7. /\ q.route = by.route
      /\ q.streak = (IF p.route = by.route /\ p.streak < Threshold
                     THEN p.streak + 1 ELSE IF p.route = by.route THEN Threshold ELSE 1)
      /\ q.spent = (IF p.spent = by.route THEN p.spent ELSE None)
  BY DEF Seen
<1> HIDE DEF by, m, due, q
<1>8. /\ due.failures \in 1..(2 * Threshold - 1)
      /\ due.failures < Threshold => q.streak >= due.failures
      /\ due.failures >= Threshold => q.streak >= due.failures - Threshold
      /\ due.failures = Threshold => q.streak = Threshold
      /\ ~m.episode => due.failures <= Threshold
  <2>1. CASE m.stale = by.route /\ m.failures = 2 * Threshold - 1
    <3>1. p.route = by.route /\ due.failures = Threshold
      BY <2>1, <1>2, <1>5, <1>6 DEF Longer
    <3>2. p.streak >= Threshold - 1
      BY <2>1, <1>1, <1>4, <1>5
    <3> QED
      BY <3>1, <3>2, <1>1, <1>4, <1>7
  <2>2. CASE m.stale = by.route /\ m.failures # 2 * Threshold - 1
    <3>1. p.route = by.route /\ due.failures = m.failures + 1
      BY <2>2, <1>2, <1>5, <1>6 DEF Longer
    <3> QED
      BY <2>2, <3>1, <1>1, <1>4, <1>5, <1>7
  <2>3. CASE m.stale # by.route
    <3>1. due.failures = 1 /\ q.streak >= 1 /\ q.streak <= Threshold
      BY <2>3, <1>1, <1>4, <1>6, <1>7
    <3> QED
      BY <3>1, <1>1, <1>3 DEF Pasts
  <2> QED
    BY <2>1, <2>2, <2>3
<1>9. q.spent # None =>
        /\ due.episode /\ due.acknowledged /\ due.reset = q.spent
        /\ ~due.moved /\ ~due.flood
  BY <1>5, <1>6, <1>7
<1>10. ASSUME ResetDue(due)
       PROVE  /\ due.failures = Threshold /\ due.stale # None
              /\ q.streak = Threshold /\ q.spent # q.route
              /\ Fits([due EXCEPT !.episode = TRUE], q)
  <2>1. due.failures = Threshold
    <3>1. CASE due.episode
      BY <3>1, <1>1, <1>8, <1>10, OneMultiple DEF ResetDue
    <3>2. CASE ~due.episode
      BY <3>2, <1>1, <1>6, <1>8, <1>10 DEF ResetDue
    <3> QED
      BY <3>1, <3>2
  <2>2. q.spent = None
    BY <1>9, <1>10 DEF ResetDue
  <2> DEFINE then == [due EXCEPT !.episode = TRUE]
  <2>3. /\ then.stale = due.stale /\ then.failures = due.failures /\ then.episode
    BY <1>3 DEF RouteStates
  <2>4. q.route = due.stale /\ due.stale # None
    BY <1>2, <1>6, <1>7
  <2> HIDE DEF then
  <2>5. Fits(then, q)
    BY <2>1, <2>2, <2>3, <2>4, <1>1, <1>8 DEF Fits
  <2> QED
    BY <2>1, <2>2, <2>4, <2>5, <1>8 DEF then
<1>11. ASSUME ~ResetDue(due)
       PROVE  Fits(due, q)
  <2>1. ~due.episode => due.failures < Threshold
    BY <1>1, <1>8, <1>11 DEF ResetDue
  <2>2. q.route = due.stale /\ due.stale # None
    BY <1>2, <1>6, <1>7
  <2> QED
    BY <2>1, <2>2, <1>8, <1>9 DEF Fits
<1> QED
  BY <1>10, <1>11 DEF by, m, due, q

(* A reading, and whatever is no timeout along a known route, end the      *)
(* count.                                                                  *)
LEMMA ForgottenFits ==
  ASSUME NEW r \in RouteStates, NEW p \in Pasts, Fits(r, p),
         NEW result \in Results, result.error = "timeout" => ~Candidate(result.by)
  PROVE  Fits(Forgotten(Observed(r, result.by)), Seen(p, result))
<1> DEFINE by == result.by
           m == Forgotten(Observed(r, by))
           q == Seen(p, result)
<1>1. Threshold \in Nat /\ Threshold >= 1
  BY TrackingAssumption
<1>2. /\ m.stale = None /\ m.failures = 0
      /\ m.episode = r.episode /\ m.acknowledged = r.acknowledged
      /\ m.reset = r.reset /\ m.moved = r.moved
      /\ m.flood => r.flood \/ (by.route = "flood" /\ by.sent)
  BY DEF Forgotten, Observed, RouteStates
<1>3. q.streak = 0 /\ (q.spent # None => q.spent = p.spent /\ ~(by.route = "flood" /\ by.sent))
  BY DEF Seen
<1> HIDE DEF by, m, q
<1>4. Fits(m, q)
  BY <1>1, <1>2, <1>3 DEF Fits
<1> QED
  BY <1>4 DEF by, m, q

LEMMA EstablishedFits ==
  ASSUME NEW r \in RouteStates, NEW p \in Pasts, Fits(r, p), NEW result \in Results
  PROVE  Fits(Established(Forgotten(r), result.by),
              [Seen(p, result) EXCEPT
                 !.spent = IF result.by.route = "unknown" THEN @ ELSE None])
<1> DEFINE by == result.by
           m == Established(Forgotten(r), by)
           seen == Seen(p, result)
           q == [seen EXCEPT !.spent = IF by.route = "unknown" THEN @ ELSE None]
<1>1. Threshold \in Nat /\ Threshold >= 1
  BY TrackingAssumption
<1>2. by \in Evidence
  BY DEF Results
<1>3. /\ Forgotten(r) \in RouteStates
      /\ Forgotten(r).stale = None /\ Forgotten(r).failures = 0
      /\ Forgotten(r).episode = r.episode /\ Forgotten(r).acknowledged = r.acknowledged
      /\ Forgotten(r).reset = r.reset /\ Forgotten(r).moved = r.moved
      /\ Forgotten(r).flood = r.flood
  BY <1>2, RouteTypes DEF Forgotten, RouteStates
<1>4. m.stale = None /\ m.failures = 0
  <2> DEFINE f == Forgotten(r)
  <2>1. Settled(f).stale = f.stale /\ Settled(f).failures = f.failures
    <3> HIDE DEF f
    <3> QED
      BY <1>3 DEF Settled, RouteStates, f
  <2> QED
    BY <1>3, <2>1 DEF Established
<1>5. seen \in Pasts
  BY SeenType
<1>6. q.streak \in Nat /\ (q.spent # None => by.route = "unknown" /\ q.spent = seen.spent)
  <2> HIDE DEF seen
  <2> QED
    BY <1>1, <1>5 DEF Pasts
<1>7. by.route = "unknown" => m = Forgotten(r) /\ (seen.spent # None => seen.spent = p.spent)
  <2> SUFFICES ASSUME by.route = "unknown"
               PROVE  m = Forgotten(r) /\ (seen.spent # None => seen.spent = p.spent)
    OBVIOUS
  <2>1. ~Candidate(by)
    BY <1>2, CandidateRoute
  <2> QED
    BY <2>1 DEF Established, Seen
<1> HIDE DEF by, m, seen, q
<1>8. Fits(m, q)
  BY <1>1, <1>3, <1>4, <1>6, <1>7 DEF Fits
<1> QED
  BY <1>8 DEF by, m, seen, q

LEMMA NothingFits == Fits(NoRoute, NothingSeen)
<1>1. Threshold \in Nat /\ Threshold > 0
  BY TrackingAssumption
<1> QED
  BY <1>1 DEF Fits, NoRoute, NothingSeen

(* A step that leaves the recovery alone, or whose run is not in a reset   *)
(* any more.                                                               *)
LEMMA ResetFitsKept ==
  ASSUME TypeTrackingOK, ResetFits, NEW g \in Generations, Alone(g), SameTarget,
         generation' = generation, runs'[g].step # "resetting",
         route' = route \/ Current(g)
  PROVE  ResetFits'
<1> SUFFICES ASSUME NEW h \in Generations, At(h, "resetting")', Current(h)'
             PROVE  route'.episode /\ route'.failures = Threshold /\ route'.stale # None
  BY DEF ResetFits
<1>1. h # g
  BY DEF At
<1>2. runs'[h] = runs[h]
  BY <1>1 DEF Alone
<1>3. At(h, "resetting") /\ Current(h)
  BY <1>2 DEF At, Current, SameTarget
<1>4. route' = route
  BY <1>1, <1>3 DEF Current
<1> QED
  BY <1>3, <1>4 DEF ResetFits

(* What a step of a run does to the recovery, and that a reset that it     *)
(* begins has been earned.                                                 *)
LEMMA RecoverFits ==
  ASSUME TypeTrackingOK, RecoveryFits, NEW g \in Generations, Recover(g)
  PROVE  /\ RecoveryFits'
         /\ runs'[g].step = "resetting" =>
              past'.streak = Threshold /\ past'.spent # past'.route
<1> DEFINE result == runs[g].result
           due == Noted(Rearmed(route, result.by), result.by)
<1>1. RunStep(g)
  BY DEF RunStep
<1>2. Alone(g) /\ SameTarget /\ generation' = generation
  BY <1>1, RunStepFrame DEF RunFrame
<1>3. result \in Results /\ route \in RouteStates /\ past \in Pasts /\ Fits(route, past)
  BY DEF TypeTrackingOK, Runs, RecoveryFits
<1>4. /\ Report(g) => runs'[g].step = "recording"
      /\ To(g, "resetting") => runs'[g].step = "resetting"
  BY DEF Report, To, TypeTrackingOK, Runs
<1>5. CASE ~Current(g)
  <2>1. Report(g) /\ UNCHANGED <<route, past>>
    BY <1>5 DEF Recover
  <2>2. ResetFits'
    BY <1>2, <1>4, <2>1, ResetFitsKept DEF RecoveryFits
  <2> QED
    BY <1>3, <1>4, <2>1, <2>2 DEF RecoveryFits
<1>6. CASE Current(g) /\ ~(result.error = "timeout" /\ Candidate(result.by))
  <2>1. /\ Report(g)
        /\ route' = Forgotten(Observed(route, result.by))
        /\ past' = Seen(past, result)
    BY <1>6 DEF Recover
  <2>2. Fits(route', past')
    BY <1>3, <1>6, <2>1, ForgottenFits
  <2>3. ResetFits'
    BY <1>2, <1>4, <1>6, <2>1, ResetFitsKept DEF RecoveryFits
  <2> QED
    BY <1>4, <2>1, <2>2, <2>3 DEF RecoveryFits
<1>7. CASE Current(g) /\ result.error = "timeout" /\ Candidate(result.by)
  <2>1. /\ past' = Seen(past, result)
        /\ IF ResetDue(due)
           THEN route' = [due EXCEPT !.episode = TRUE] /\ To(g, "resetting")
           ELSE route' = due /\ Report(g)
    BY <1>7 DEF Recover
  <2>2. CASE ResetDue(due)
    <3>1. due \in RouteStates
      <4>1. result.by \in Evidence
        BY <1>3 DEF Results
      <4> QED
        BY <1>3, <1>7, <4>1, RouteTypes
    <3>2. /\ due.failures = Threshold /\ due.stale # None
          /\ past'.streak = Threshold /\ past'.spent # past'.route
          /\ Fits([due EXCEPT !.episode = TRUE], past')
      BY <1>3, <1>7, <2>1, <2>2, Earned
    <3>3. route' = [due EXCEPT !.episode = TRUE]
      BY <2>1, <2>2
    <3> HIDE DEF due
    <3>4. route'.episode /\ route'.failures = Threshold /\ route'.stale # None
      BY <3>1, <3>2, <3>3 DEF RouteStates
    <3>5. ResetFits'
      BY <3>4 DEF ResetFits
    <3> QED
      BY <3>2, <3>3, <3>5 DEF RecoveryFits
  <2>3. CASE ~ResetDue(due)
    <3>1. Fits(due, past') /\ route' = due /\ Report(g)
      BY <1>3, <1>7, <2>1, <2>3, Earned
    <3>2. ResetFits'
      BY <1>2, <1>4, <1>7, <3>1, ResetFitsKept DEF RecoveryFits
    <3> QED
      BY <1>4, <3>1, <3>2 DEF RecoveryFits
  <2> QED
    BY <2>2, <2>3
<1> QED
  BY <1>5, <1>6, <1>7

(* A reset that was tried begins a new count, acknowledged or not.         *)
LEMMA ResetReturnsFits ==
  ASSUME TypeTrackingOK, RecoveryFits, NEW g \in Generations, NEW done \in BOOLEAN,
         ResetReturns(g, done)
  PROVE  RecoveryFits'
<1>1. RunStep(g)
  BY DEF RunStep
<1>2. Alone(g) /\ SameTarget /\ generation' = generation
  BY <1>1, RunStepFrame DEF RunFrame
<1>3. runs'[g].step # "resetting"
  BY DEF ResetReturns, Report, TypeTrackingOK, Runs
<1>4. ResetFits'
  <2>1. route' = route \/ Current(g)
    BY DEF ResetReturns
  <2> QED
    BY <1>2, <1>3, <2>1, ResetFitsKept DEF RecoveryFits
<1>5. route \in RouteStates /\ past \in Pasts /\ Fits(route, past)
  BY DEF TypeTrackingOK, RecoveryFits
<1>6. CASE ~Current(g)
  BY <1>4, <1>5, <1>6 DEF ResetReturns, RecoveryFits
<1>7. CASE Current(g)
  <2>1. /\ route.episode /\ route.failures = Threshold /\ route.stale # None
        /\ past.route = route.stale
    BY <1>5, <1>7 DEF ResetReturns, RecoveryFits, ResetFits, Fits
  <2>2. Threshold \in Nat
    BY TrackingAssumption
  <2>3. CASE done
    <3>1. /\ route' = [route EXCEPT !.acknowledged = TRUE, !.reset = route.stale,
                                    !.moved = FALSE, !.flood = FALSE]
          /\ past' = [past EXCEPT !.spent = past.route, !.streak = 0]
      BY <1>7, <2>3 DEF ResetReturns
    <3>2. /\ route'.stale = route.stale /\ route'.failures = Threshold
          /\ route'.episode /\ route'.acknowledged /\ route'.reset = route.stale
          /\ ~route'.moved /\ ~route'.flood
          /\ past'.route = route.stale /\ past'.spent = route.stale /\ past'.streak = 0
      BY <1>5, <2>1, <3>1 DEF RouteStates, Pasts
    <3>3. Fits(route', past')
      BY <2>1, <2>2, <3>2 DEF Fits
    <3> QED
      BY <1>4, <3>3 DEF RecoveryFits
  <2>4. CASE ~done
    <3>1. route' = route /\ past' = [past EXCEPT !.streak = 0]
      BY <1>7, <2>4 DEF ResetReturns
    <3>2. past'.route = past.route /\ past'.spent = past.spent /\ past'.streak = 0
      BY <1>5, <3>1 DEF Pasts
    <3>3. Fits(route', past')
      BY <1>5, <2>1, <2>2, <3>1, <3>2 DEF Fits
    <3> QED
      BY <1>4, <3>3 DEF RecoveryFits
  <2> QED
    BY <2>3, <2>4
<1> QED
  BY <1>6, <1>7

LEMMA RecordSuccessFits ==
  ASSUME TypeTrackingOK, RecoveryFits, NEW g \in Generations, RecordSuccess(g)
  PROVE  RecoveryFits'
<1>1. RunStep(g)
  BY DEF RunStep
<1>2. Alone(g) /\ SameTarget /\ generation' = generation
  BY <1>1, RunStepFrame DEF RunFrame
<1>3. runs'[g].step # "resetting"
  BY DEF RecordSuccess, Polled, TypeTrackingOK, Runs
<1>4. route' = route \/ Current(g)
  BY DEF RecordSuccess
<1>5. ResetFits'
  BY <1>2, <1>3, <1>4, ResetFitsKept DEF RecoveryFits
<1>6. /\ route \in RouteStates /\ past \in Pasts /\ Fits(route, past)
      /\ runs[g].result \in Results
  BY DEF TypeTrackingOK, RecoveryFits, Runs
<1>7. Fits(route', past')
  <2>1. CASE Current(g)
    <3>1. /\ route' = Established(Forgotten(route), runs[g].result.by)
          /\ past' = [Seen(past, runs[g].result) EXCEPT
                        !.spent = IF runs[g].result.by.route = "unknown" THEN @ ELSE None]
      BY <2>1 DEF RecordSuccess
    <3> QED
      BY <1>6, <3>1, EstablishedFits
  <2>2. CASE ~Current(g)
    BY <1>6, <2>2 DEF RecordSuccess
  <2> QED
    BY <2>1, <2>2
<1> QED
  BY <1>5, <1>7 DEF RecoveryFits

(* The other steps of a run have no part in the recovery.                  *)
OtherStep(g) ==
  \/ Ask(g) \/ Answer(g) \/ RecordFailure(g) \/ Plan(g) \/ Select(g) \/ Timer(g)
  \/ \E stored \in BOOLEAN : Stage(g, stored)

LEMMA OtherStepFits ==
  ASSUME TypeTrackingOK, RecoveryFits, NEW g \in Generations, OtherStep(g)
  PROVE  RecoveryFits'
<1>1. RunStep(g)
  BY DEF OtherStep, RunStep
<1>2. Alone(g) /\ SameTarget /\ generation' = generation
  BY <1>1, RunStepFrame DEF RunFrame
<1> USE DEF TypeTrackingOK
<1>3. UNCHANGED <<route, past>> /\ runs'[g].step # "resetting"
  <2>1. CASE Ask(g)
    BY <2>1 DEF Ask, To, End, Ended, Runs
  <2>2. CASE Answer(g)
    BY <2>2 DEF Answer, Runs
  <2>3. CASE RecordFailure(g)
    <3>1. Polled(g) /\ UNCHANGED <<route, past>>
      BY <2>3 DEF RecordFailure
    <3> QED
      BY <3>1 DEF Polled, Runs
  <2>4. CASE Plan(g)
    BY <2>4 DEF Plan, End, Ended, Runs
  <2>5. CASE Select(g)
    BY <2>5 DEF Select, End, Ended, Again, To, Runs
  <2>6. CASE Timer(g)
    BY <2>6 DEF Timer, Again, Runs
  <2>7. ASSUME NEW stored \in BOOLEAN, Stage(g, stored)
        PROVE  UNCHANGED <<route, past>> /\ runs'[g].step # "resetting"
    BY <2>7 DEF Stage, Runs
  <2> QED
    BY <2>1, <2>2, <2>3, <2>4, <2>5, <2>6, <2>7 DEF OtherStep
<1>4. ResetFits'
  BY <1>2, <1>3, ResetFitsKept DEF RecoveryFits
<1> QED
  BY <1>3, <1>4 DEF RecoveryFits

LEMMA RecoveryFitsStep ==
  ASSUME TypeTrackingOK, RecoveryFits, [Next]_vars
  PROVE  RecoveryFits'
<1>1. ASSUME NEW source \in Sources, SetControlSource(source)
      PROVE  RecoveryFits'
  <2>1. SameTarget /\ UNCHANGED <<route, generation, past>>
    BY <1>1, SourceType
  <2>2. ASSUME NEW g \in Generations, At(g, "resetting")', Current(g)'
        PROVE  At(g, "resetting") /\ Current(g)
    <3>1. runs'[g] = runs[g] \/ runs'[g] = [runs[g] EXCEPT !.step = "ready", !.manual = FALSE]
      BY <1>1, SourceType
    <3>2. runs'[g] = runs[g]
      BY <2>2, <3>1 DEF At, TypeTrackingOK, Runs
    <3> QED
      BY <2>1, <2>2, <3>2 DEF At, Current, SameTarget
  <2> QED
    BY <2>1, <2>2 DEF RecoveryFits, ResetFits
<1>2. ASSUME NEW target \in Targets, Start(target)
      PROVE  RecoveryFits'
  <2>1. /\ generation' = generation + 1 /\ generation + 1 \in Generations
        /\ route' = NoRoute /\ past' = NothingSeen
        /\ runs' = [runs EXCEPT
                      ![generation + 1] = [Ended EXCEPT !.step = "ready", !.target = target]]
    BY <1>2, StartType
  <2>2. runs'[generation'].step = "ready"
    BY <2>1 DEF TypeTrackingOK, Ended
  <2>3. ResetFits'
    BY <2>2 DEF ResetFits, At, Current
  <2> QED
    BY <2>1, <2>3, NothingFits DEF RecoveryFits
<1>3. CASE Stop
  BY <1>3, StopType, NothingFits DEF RecoveryFits, ResetFits, Current
<1>4. ASSUME NEW target \in Targets, HandlePathUpdated(target)
      PROVE  RecoveryFits'
  <2>1. UNCHANGED <<status, generation, runs>>
    BY <1>4, PathUpdatedType
  <2>2. /\ route'.stale = route.stale /\ route'.failures = route.failures
        /\ route'.episode = route.episode
        /\ past'.route = past.route /\ past'.streak = past.streak /\ past'.spent = None
    BY <1>4 DEF HandlePathUpdated, TypeTrackingOK, RouteStates, Pasts
  <2>3. Fits(route', past')
    BY <2>2 DEF RecoveryFits, Fits
  <2>4. ResetFits'
    BY <2>1, <2>2 DEF RecoveryFits, ResetFits, At, Current
  <2> QED
    BY <2>3, <2>4 DEF RecoveryFits
<1>5. ASSUME NEW g \in Generations, RunStep(g)
      PROVE  RecoveryFits'
  <2>1. CASE Recover(g)
    BY <2>1, RecoverFits
  <2>2. CASE RecordSuccess(g)
    BY <2>2, RecordSuccessFits
  <2>3. ASSUME NEW done \in BOOLEAN, ResetReturns(g, done) PROVE RecoveryFits'
    BY <2>3, ResetReturnsFits
  <2>4. CASE OtherStep(g)
    BY <2>4, OtherStepFits
  <2> QED
    BY <1>5, <2>1, <2>2, <2>3, <2>4 DEF RunStep, OtherStep
<1>6. CASE UNCHANGED vars
  BY <1>6 DEF vars, RecoveryFits, ResetFits, At, Current
<1> QED
  BY <1>1, <1>2, <1>3, <1>4, <1>5, <1>6 DEF Next

LEMMA RecoveryAlwaysFits == Spec => []RecoveryFits
<1>1. Init => RecoveryFits
  BY NothingFits DEF Init, RecoveryFits, ResetFits, At, Ended
<1> QED
  BY <1>1, TrackingTypeCorrect, RecoveryFitsStep, PTL DEF Spec

(* The companion's stored path is reset only after the threshold's number  *)
(* of timeouts in a row along one route, counted anew after each reset,    *)
(* and not again for a route whose reset was acknowledged - for any        *)
(* threshold, any routes, and with every stopped run still answering.      *)
THEOREM ResetAlwaysEarned == Spec => ResetEarned
<1> DEFINE EarnedNow ==
      \A g \in Generations :
        At(g, "failed") /\ runs'[g].step = "resetting"
          => past'.streak = Threshold /\ past'.spent # past'.route
<1>1. TypeTrackingOK /\ RecoveryFits /\ [Next]_vars => EarnedNow
  <2> SUFFICES ASSUME TypeTrackingOK, RecoveryFits, [Next]_vars, NEW g \in Generations,
                      At(g, "failed"), runs'[g].step = "resetting"
               PROVE  past'.streak = Threshold /\ past'.spent # past'.route
    OBVIOUS
  <2>1. runs[g].step = "failed" /\ runs'[g] # runs[g]
    BY DEF At
  <2>2. ASSUME NEW source \in Sources, SetControlSource(source) PROVE FALSE
    BY <2>1, <2>2, SourceType
  <2>3. ASSUME NEW target \in Targets, Start(target) PROVE FALSE
    <3>1. runs' = [runs EXCEPT
                    ![generation + 1] = [Ended EXCEPT !.step = "ready", !.target = target]]
      BY <2>3, StartType
    <3>2. runs'[g].step = "ready"
      BY <2>1, <3>1 DEF TypeTrackingOK, Ended
    <3> QED
      BY <3>2
  <2>4. ASSUME Stop PROVE FALSE
    BY <2>1, <2>4, StopType
  <2>5. ASSUME NEW target \in Targets, HandlePathUpdated(target) PROVE FALSE
    BY <2>1, <2>5, PathUpdatedType
  <2>6. ASSUME NEW h \in Generations, RunStep(h)
        PROVE  past'.streak = Threshold /\ past'.spent # past'.route
    <3>1. g = h
      BY <2>1, <2>6, RunStepFrame DEF RunFrame, Alone
    <3>2. Recover(g)
      BY <2>1, <2>6, <3>1
         DEF RunStep, At, Ask, Answer, RecordFailure, RecordSuccess, Plan, Select, Timer,
             ResetReturns, Stage
    <3> QED
      BY <3>2, RecoverFits
  <2>7. ASSUME UNCHANGED vars PROVE FALSE
    BY <2>1, <2>7 DEF vars
  <2> QED
    BY <2>2, <2>3, <2>4, <2>5, <2>6, <2>7 DEF Next
<1>2. TypeTrackingOK /\ RecoveryFits /\ [Next]_vars => [EarnedNow]_vars
  BY <1>1
<1> QED
  BY <1>2, TrackingTypeCorrect, RecoveryAlwaysFits, PTL DEF Spec, ResetEarned

-----------------------------------------------------------------------------
(* The interval of a session.                                              *)

(* A reading sets the interval from the motion it leaves, a failure too    *)
(* under a session, and a takeover by a session sets it anew; a source that*)
(* takes over after the adapter failed, or is not a session, is exempt.    *)
LEMMA CadenceStep ==
  ASSUME TypeTrackingOK, SessionCadence, [Next]_vars
  PROVE  SessionCadence'
<1> USE DEF TypeTrackingOK
<1>1. ASSUME NEW source \in Sources, SetControlSource(source) PROVE SessionCadence'
  <2>1. source \in Sources \cup {"nobody"}
    OBVIOUS
  <2>2. CASE source = "session" /\ status.active /\ status.lastError # "disconnected"
    <3>1. status' = [status EXCEPT !.source = source, !.interval = IntervalFor(status.motion)]
      BY <1>1, <2>2 DEF SetControlSource
    <3>2. status'.motion = status.motion /\ status'.interval = IntervalFor(status.motion)
      BY <3>1 DEF Statuses
    <3> QED
      BY <3>2 DEF SessionCadence
  <2>3. CASE ~(source = "session" /\ status.active /\ status.lastError # "disconnected")
    <3>1. status' = [status EXCEPT !.source = source]
      BY <1>1, <2>3 DEF SetControlSource
    <3>2. /\ status'.active = status.active /\ status'.source = source
          /\ status'.lastError = status.lastError
      BY <3>1 DEF Statuses
    <3> QED
      BY <2>3, <3>2 DEF SessionCadence, Unavailable
  <2> QED
    BY <2>2, <2>3
<1>2. ASSUME NEW target \in Targets, Start(target) PROVE SessionCadence'
  <2>1. status'.motion = "unknown" /\ status'.interval = UnknownInterval
    BY <1>2 DEF Start, Fresh
  <2> QED
    BY <2>1 DEF SessionCadence, IntervalFor
<1>3. CASE Stop
  <2>1. ~status'.active
    BY <1>3 DEF Stop, Statuses
  <2> QED
    BY <2>1 DEF SessionCadence
<1>4. ASSUME NEW g \in Generations, RecordFailure(g) PROVE SessionCadence'
  <2> DEFINE error == runs[g].result.error
             failures == IF status.failures = 0 THEN 1 ELSE 2
             noted == IF error \in Unavailable THEN error ELSE "other"
  <2>1. CASE Current(g)
    <3>1. /\ status'.active = status.active /\ status'.source = status.source
          /\ status'.motion = status.motion /\ status'.lastError = noted
          /\ status'.interval = FailureInterval(error, failures)
      BY <1>4, <2>1 DEF RecordFailure, Statuses
    <3>2. status.source = "session" /\ error \notin Unavailable
            => FailureInterval(error, failures) = IntervalFor(status.motion)
      BY DEF FailureInterval
    <3> QED
      BY <3>1, <3>2 DEF SessionCadence, Unavailable
  <2>2. CASE ~Current(g)
    BY <1>4, <2>2 DEF RecordFailure, SessionCadence
  <2> QED
    BY <2>1, <2>2
<1>5. ASSUME NEW g \in Generations, RecordSuccess(g) PROVE SessionCadence'
  <2> DEFINE cleared == [status EXCEPT !.failures = 0, !.adapterFailures = 0,
                                       !.diagnostic = FALSE, !.lastError = None]
             next == ApplyFix(cleared, runs[g].result.fix)
  <2>1. CASE Current(g)
    <3>1. status' = [next EXCEPT !.interval = IntervalFor(next.motion)]
      BY <1>5, <2>1 DEF RecordSuccess
    <3>2. cleared \in Statuses
      <4>1. 0 \in 0..2 /\ None \in {None, "other"} \cup Unavailable /\ FALSE \in BOOLEAN
        OBVIOUS
      <4> QED
        BY <4>1, Zenon DEF Statuses
    <3>3. runs[g].result.fix \in Fixes \cup {"none"}
      BY DEF Runs, Results
    <3>4. next \in Statuses
      <4> HIDE DEF cleared
      <4> QED
        BY <3>2, <3>3, ApplyFixType
    <3> HIDE DEF next
    <3>5. status'.motion = next.motion /\ status'.interval = IntervalFor(next.motion)
      BY <3>1, <3>4 DEF Statuses
    <3> QED
      BY <3>5 DEF SessionCadence
  <2>2. CASE ~Current(g)
    BY <1>5, <2>2 DEF RecordSuccess, SessionCadence
  <2> QED
    BY <2>1, <2>2
<1>6. CASE UNCHANGED status
  BY <1>6 DEF SessionCadence
<1>7. \/ UNCHANGED status
      \/ \E source \in Sources : SetControlSource(source)
      \/ \E target \in Targets : Start(target)
      \/ Stop
      \/ \E g \in Generations : RecordFailure(g) \/ RecordSuccess(g)
  BY DEF Next, RunStep, vars, HandlePathUpdated, Ask, Answer, Recover, Plan, Select, Timer,
         ResetReturns, Stage
<1> QED
  BY <1>1, <1>2, <1>3, <1>4, <1>5, <1>6, <1>7

(* Under a session the interval follows the motion, whoever owned the      *)
(* tracking before and whatever backoff a takeover finds (SetControlSource,*)
(* recordFailure), unless the adapter is what failed.                      *)
THEOREM CadenceAlwaysOfMotion == Spec => []SessionCadence
<1>1. Init => SessionCadence
  BY DEF Init, Fresh, SessionCadence
<1> QED
  BY <1>1, CadenceStep, TrackingTypeCorrect, PTL DEF Spec

=============================================================================
