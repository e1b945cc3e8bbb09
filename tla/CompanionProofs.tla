-------------------------- MODULE CompanionProofs --------------------------
(***************************************************************************)
(* Theorems about MeshCoreCompanion for all values of its constants: any   *)
(* number of callers, nodes, tags, requests and connections.               *)
(***************************************************************************)
EXTENDS MeshCoreCompanion, TLAPS

-----------------------------------------------------------------------------
(* Who asks and what is in flight.                                         *)

Asking == {"query", "snapshot", "send", "waiting"}

CallerRecords ==
  [pc : {"idle", "query", "snapshot", "send", "waiting", "resetting"}, id : Ids \cup {None},
   target : Targets \cup {None}, snapshot : Paths \cup {"unknown", None},
   done : Outcomes \cup {None}]

ArbiterType ==
  /\ request \in Requests \cup {None} /\ reset \in PathResets \cup {None}
  /\ expired \subseteq Tags /\ issued \in 0..MaxRequests
  /\ callers \in [Callers -> CallerRecords]

(* What a caller's record says, by the point it stands at; every request   *)
(* and reset has a number of its own.                                      *)
CallersShape ==
  /\ \A c \in Callers :
       /\ callers[c].pc = "idle" => callers[c].id = None /\ callers[c].done = None
       /\ callers[c].pc # "idle" => callers[c].id \in 1..issued /\ callers[c].target \in Targets
       /\ callers[c].pc # "snapshot" => callers[c].snapshot = None
       /\ callers[c].pc = "resetting" => c \in Resetters
  /\ \A c, d \in Callers :
       callers[c].pc # "idle" /\ callers[c].id = callers[d].id => c = d

(* The request or reset in flight is the newest; the contact is awaited    *)
(* only by a caller that waits for it; and no caller waits for a request   *)
(* that has ended without a word.                                          *)
InFlight ==
  /\ request # None =>
       /\ request.id = issued
       /\ request.target = callers[request.by].target
       /\ request.awaiting =>
            callers[request.by].pc = "snapshot" /\ callers[request.by].snapshot = None
  /\ reset # None => reset.id = issued
  /\ \A c \in Callers :
       callers[c].pc \in Asking /\ callers[c].done = None => IsCurrent(callers[c].id)

Arbitrated ==
  ArbiterType /\ CallersShape /\ InFlight /\ NothingLeftBehind /\ NoForeignTimeout

-----------------------------------------------------------------------------
(* The ends of a request and of a reset.                                   *)

LEMMA CurrentFacts ==
  ASSUME Arbitrated, request # None
  PROVE  /\ request \in Requests /\ request.by \in Callers /\ request.id = issued
         /\ issued \in Ids /\ request.target \in Targets /\ reset = None
         /\ callers[request.by].id = request.id /\ callers[request.by].done = None
         /\ callers[request.by].pc \in Asking
         /\ \A c \in Callers : callers[c].id = request.id => c = request.by
BY DEF Arbitrated, ArbiterType, InFlight, NothingLeftBehind, CallersShape, Requests, Asking

LEMMA ResetFacts ==
  ASSUME Arbitrated, reset # None
  PROVE  /\ reset \in PathResets /\ reset.by \in Resetters /\ reset.by \in Callers
         /\ reset.id = issued /\ issued \in Ids /\ request = None
         /\ callers[reset.by].id = reset.id /\ callers[reset.by].done = None
         /\ callers[reset.by].pc = "resetting"
         /\ \A c \in Callers : callers[c].id = reset.id => c = reset.by
BY CompanionAssumption DEF Arbitrated, ArbiterType, InFlight, NothingLeftBehind, CallersShape, PathResets

(* A caller that is told an outcome keeps the rest of its record.          *)
LEMMA ResolvedFacts ==
  ASSUME Arbitrated, NEW c \in Callers, NEW outcome \in Outcomes,
         callers' = Resolved(c, outcome)
  PROVE  /\ callers' \in [Callers -> CallerRecords]
         /\ callers'[c].done = outcome /\ outcome # None
         /\ \A d \in Callers :
              /\ callers'[d].pc = callers[d].pc /\ callers'[d].id = callers[d].id
              /\ callers'[d].target = callers[d].target
              /\ callers'[d].snapshot = callers[d].snapshot
              /\ d # c => callers'[d] = callers[d]
<1>1. outcome # None
  BY NoneAssumption
<1>2. callers \in [Callers -> CallerRecords]
  BY DEF Arbitrated, ArbiterType
<1> QED
  BY <1>1, <1>2 DEF Resolved, CallerRecords

LEMMA EndArbitrated ==
  ASSUME Arbitrated, request # None, NEW o \in Outcomes,
         o.error = "timeout" => o.timer = request.id,
         request' = None, callers' = Resolved(request.by, o), expired' \subseteq Tags,
         UNCHANGED <<reset, issued>>
  PROVE  Arbitrated'
<1> DEFINE c == request.by
<1>1. c \in Callers /\ callers[c].id = request.id /\ reset = None
      /\ \A d \in Callers : callers[d].id = request.id => d = c
  BY CurrentFacts
<1> HIDE DEF c
<1>2. /\ callers' \in [Callers -> CallerRecords]
      /\ callers'[c].done = o /\ o # None
      /\ \A d \in Callers :
           /\ callers'[d].pc = callers[d].pc /\ callers'[d].id = callers[d].id
           /\ callers'[d].target = callers[d].target
           /\ callers'[d].snapshot = callers[d].snapshot
           /\ d # c => callers'[d] = callers[d]
  BY <1>1, ResolvedFacts DEF c
<1>3. ArbiterType'
  BY <1>2 DEF Arbitrated, ArbiterType
<1>4. CallersShape'
  BY <1>2, <1>1, CurrentFacts DEF Arbitrated, CallersShape, Asking, c
<1>5. \A d \in Callers : d # c /\ callers[d].pc \in Asking => callers[d].done # None
  BY <1>1 DEF Arbitrated, InFlight, IsCurrent
<1>6. InFlight' /\ NothingLeftBehind'
  <2>1. \A d \in Callers : d # c /\ callers[d].pc = "resetting" => callers[d].done # None
    BY <1>1 DEF Arbitrated, NothingLeftBehind
  <2>2. \A d \in Callers : callers'[d].pc \in Asking \cup {"resetting"} => callers'[d].done # None
    BY <2>1, <1>2, <1>5
  <2> QED
    BY <2>2, <1>1 DEF InFlight, NothingLeftBehind, IsCurrent, Asking
<1>7. NoForeignTimeout'
  BY <1>1, <1>2 DEF Arbitrated, NoForeignTimeout
<1> QED
  BY <1>3, <1>4, <1>6, <1>7 DEF Arbitrated

LEMMA FinishArbitrated ==
  ASSUME Arbitrated, NEW id, NEW outcome \in Outcomes,
         outcome.error = "timeout" => outcome.timer = id,
         FinishTelemetry(id, outcome), UNCHANGED <<reset, issued>>
  PROVE  Arbitrated'
<1>1. CASE ~IsCurrent(id)
  BY <1>1 DEF FinishTelemetry, Retire, Arbitrated, ArbiterType, CallersShape, InFlight,
              NothingLeftBehind, NoForeignTimeout, IsCurrent
<1>2. CASE IsCurrent(id)
  <2> DEFINE o == [outcome EXCEPT !.route = request.route]
  <2>1. /\ request # None /\ id = request.id /\ request' = None
        /\ callers' = Resolved(request.by, o)
    BY <1>2 DEF IsCurrent, FinishTelemetry, Retire
  <2>2. o \in Outcomes /\ o.error = outcome.error /\ o.timer = outcome.timer
    BY <2>1, CurrentFacts DEF Outcomes, Requests
  <2>3. expired' \subseteq Tags
    BY <2>1, CurrentFacts DEF FinishTelemetry, Retire, Arbitrated, ArbiterType, Requests
  <2> HIDE DEF o
  <2> QED
    BY <2>1, <2>2, <2>3, EndArbitrated
<1> QED
  BY <1>1, <1>2

LEMMA ResetEndArbitrated ==
  ASSUME Arbitrated, NEW id, NEW outcome \in Outcomes,
         outcome.error = "timeout" => outcome.timer = id,
         FinishPathReset(id, outcome), UNCHANGED <<request, expired, issued>>
  PROVE  Arbitrated'
<1>1. CASE ~(reset # None /\ reset.id = id)
  BY <1>1 DEF FinishPathReset, Arbitrated, ArbiterType, CallersShape, InFlight,
              NothingLeftBehind, NoForeignTimeout, IsCurrent
<1>2. CASE reset # None /\ reset.id = id
  <2> DEFINE c == reset.by
  <2>1. reset' = None /\ callers' = Resolved(c, outcome)
    BY <1>2 DEF FinishPathReset
  <2>3. /\ c \in Callers /\ callers[c].id = id /\ request = None
        /\ \A d \in Callers : callers[d].id = id => d = c
    BY <1>2, ResetFacts
  <2> HIDE DEF c
  <2>4. /\ callers' \in [Callers -> CallerRecords]
        /\ callers'[c].done = outcome /\ outcome # None
        /\ \A d \in Callers :
             /\ callers'[d].pc = callers[d].pc /\ callers'[d].id = callers[d].id
             /\ callers'[d].target = callers[d].target
             /\ callers'[d].snapshot = callers[d].snapshot
             /\ d # c => callers'[d] = callers[d]
    BY <2>1, <2>3, ResolvedFacts
  <2>6. ArbiterType'
    BY <2>1, <2>4 DEF Arbitrated, ArbiterType
  <2>8. CallersShape'
    BY <2>4, <2>3, <1>2, ResetFacts DEF Arbitrated, CallersShape, c
  <2>10. InFlight' /\ NothingLeftBehind'
    <3>1. \A d \in Callers : d # c /\ callers[d].pc = "resetting" => callers[d].done # None
      BY <1>2, <2>3 DEF Arbitrated, NothingLeftBehind
    <3>2. \A d \in Callers : callers[d].pc \in Asking => callers[d].done # None
      BY <2>3 DEF Arbitrated, InFlight, IsCurrent
    <3>3. \A d \in Callers : callers'[d].pc \in Asking \cup {"resetting"} => callers'[d].done # None
      BY <3>1, <3>2, <2>4
    <3> QED
      BY <3>3, <2>1, <2>3 DEF InFlight, NothingLeftBehind, IsCurrent, Asking
  <2>11. NoForeignTimeout'
    BY <2>3, <2>4 DEF Arbitrated, NoForeignTimeout
  <2> QED
    BY <2>6, <2>8, <2>10, <2>11 DEF Arbitrated
<1> QED
  BY <1>1, <1>2

-----------------------------------------------------------------------------
(* What the loop and the callers tell of a request that goes on.           *)

SameRequest ==
  IF request = None THEN request' = None
  ELSE /\ request' \in Requests
       /\ request'.id = request.id /\ request'.by = request.by
       /\ request'.target = request.target
       /\ request.mode = "legacy" => request'.mode = "legacy"

(* The callers go on, each within its request.                             *)
SameCallers ==
  /\ callers' \in [Callers -> CallerRecords]
  /\ \A d \in Callers :
       /\ callers'[d].id = callers[d].id /\ callers'[d].target = callers[d].target
       /\ callers'[d].done = callers[d].done
       /\ callers'[d].pc = callers[d].pc
            \/ (callers'[d].pc \in Asking /\ callers[d].pc \in Asking)
       /\ callers'[d].pc # "snapshot" => callers'[d].snapshot = None

LEMMA StepArbitrated ==
  ASSUME Arbitrated, SameRequest, SameCallers,
         request' # None /\ request'.awaiting =>
           callers'[request'.by].pc = "snapshot" /\ callers'[request'.by].snapshot = None,
         expired' \subseteq Tags, UNCHANGED <<reset, issued>>
  PROVE  Arbitrated'
<1>1. ArbiterType'
  BY DEF Arbitrated, ArbiterType, SameRequest, SameCallers
<1>2. CallersShape'
  BY DEF Arbitrated, CallersShape, SameCallers, Asking
<1>3. request = None <=> request' = None
  BY NoneAssumption DEF SameRequest
<1>4. CASE request = None
  <2>1. InFlight'
    BY <1>3, <1>4 DEF Arbitrated, InFlight, SameCallers, IsCurrent, Asking
  <2>2. NothingLeftBehind'
    BY <1>3, <1>4, ResetFacts
    DEF Arbitrated, NothingLeftBehind, InFlight, SameCallers, IsCurrent, Asking
  <2> QED
    BY <1>1, <1>2, <2>1, <2>2 DEF Arbitrated, NoForeignTimeout, SameCallers
<1>5. CASE request # None
  <2>1. InFlight'
    BY <1>3, <1>5, CurrentFacts DEF Arbitrated, InFlight, SameCallers, SameRequest, IsCurrent, Asking
  <2>2. NothingLeftBehind'
    <3>1. reset' = None /\ request' # None /\ request'.by \in Callers
      BY <1>3, <1>5, CurrentFacts DEF SameRequest
    <3>2. /\ callers'[request'.by].id = request'.id /\ callers'[request'.by].done = None
          /\ callers'[request'.by].pc \in Asking
      BY <1>5, CurrentFacts DEF SameRequest, SameCallers, Asking
    <3>3. \A c \in Callers :
            callers'[c].done = None =>
              /\ callers'[c].pc = "waiting" => request'.id = callers'[c].id
              /\ callers'[c].pc = "resetting" => FALSE
      BY <1>5, CurrentFacts DEF Arbitrated, NothingLeftBehind, InFlight, SameRequest, SameCallers,
         IsCurrent, Asking
    <3> QED
      BY <3>1, <3>2, <3>3 DEF NothingLeftBehind, IsCurrent, Asking
  <2> QED
    BY <1>1, <1>2, <2>1, <2>2 DEF Arbitrated, NoForeignTimeout, SameCallers
<1> QED
  BY <1>4, <1>5

LEMMA StayArbitrated ==
  ASSUME Arbitrated, UNCHANGED <<request, reset, callers, issued>>, expired' \subseteq Tags
  PROVE  Arbitrated'
BY DEF Arbitrated, ArbiterType, CallersShape, InFlight, NothingLeftBehind, NoForeignTimeout, IsCurrent

(* A caller leaves, with its request if that is still in flight.           *)
LEMMA LeaveArbitrated ==
  ASSUME Arbitrated, NEW c \in Callers, NEW t \in Targets \cup {None},
         callers' = [callers EXCEPT ![c] = [Idle EXCEPT !.target = t]],
         request' \in {request, None}, request' # None => request.by # c,
         request' = None => request = None \/ request.by = c,
         reset # None => reset.by # c,
         expired' \subseteq Tags, UNCHANGED <<reset, issued>>
  PROVE  Arbitrated'
<1>1. callers \in [Callers -> CallerRecords]
  BY DEF Arbitrated, ArbiterType
<1>2. /\ callers' \in [Callers -> CallerRecords]
      /\ callers'[c] = [Idle EXCEPT !.target = t]
      /\ \A d \in Callers : d # c => callers'[d] = callers[d]
  BY <1>1 DEF Idle, CallerRecords
<1>3. /\ callers'[c].pc = "idle" /\ callers'[c].id = None /\ callers'[c].done = None
      /\ callers'[c].snapshot = None
  BY <1>2 DEF Idle
<1>4. ArbiterType'
  BY <1>2 DEF Arbitrated, ArbiterType
<1>5. CallersShape'
  <2>1. \A d \in Callers : callers[d].pc # "idle" => callers[d].id # None
    BY CompanionAssumption DEF Arbitrated, CallersShape, ArbiterType
  <2> QED
    BY <1>2, <1>3, <2>1 DEF Arbitrated, CallersShape
<1>6. InFlight'
  BY <1>2, <1>3, CurrentFacts DEF Arbitrated, InFlight, IsCurrent, Asking
<1>7. NothingLeftBehind'
  BY <1>2, <1>3, CurrentFacts, ResetFacts DEF Arbitrated, NothingLeftBehind, IsCurrent, Asking
<1>8. NoForeignTimeout'
  BY <1>2, <1>3 DEF Arbitrated, NoForeignTimeout
<1> QED
  BY <1>4, <1>5, <1>6, <1>7, <1>8 DEF Arbitrated

-----------------------------------------------------------------------------
(* The handlers of the loop.                                               *)

LEMMA FailureType ==
  /\ \A e \in {"disconnected", "firmware", "invalid", "mismatched", None} :
       /\ Failure(e) \in Outcomes /\ Failure(e).error = e
       /\ [Failure(e) EXCEPT !.ok = TRUE] \in Outcomes
       /\ [Failure(e) EXCEPT !.ok = TRUE].error = e
  /\ \A n \in Targets : Success(n) \in Outcomes /\ Success(n).error = None /\ Success(n).node = n
  /\ \A id \in Ids : TimedOut(id) \in Outcomes /\ TimedOut(id).timer = id
<1>1. None # "timeout"
  BY NoneAssumption DEF Errors
<1> QED
  BY <1>1 DEF Failure, Success, TimedOut, Outcomes, Errors, RouteNames

(* The contact's answer: the caller is told the route.                     *)
LEMMA TellsFacts ==
  ASSUME Arbitrated, Awaiting, NEW route \in Paths \cup {"unknown"},
         request' = [request EXCEPT !.awaiting = FALSE],
         callers' = [callers EXCEPT ![request.by].snapshot = route],
         UNCHANGED <<reset, issued, expired>>
  PROVE  SameRequest /\ SameCallers /\ Arbitrated'
<1>1. request # None /\ callers[request.by].pc = "snapshot"
  BY DEF Awaiting, Arbitrated, InFlight
<1>2. request \in Requests /\ callers \in [Callers -> CallerRecords] /\ request.by \in Callers
  BY <1>1, CurrentFacts DEF Arbitrated, ArbiterType
<1>3. SameRequest /\ request'.awaiting = FALSE
  BY <1>1, <1>2 DEF SameRequest, Requests
<1>4. SameCallers
  <2>1. callers' \in [Callers -> CallerRecords]
    BY <1>2 DEF CallerRecords
  <2>2. \A d \in Callers :
       /\ callers'[d].id = callers[d].id /\ callers'[d].target = callers[d].target
       /\ callers'[d].done = callers[d].done /\ callers'[d].pc = callers[d].pc
       /\ d # request.by => callers'[d].snapshot = callers[d].snapshot
    BY <1>2 DEF CallerRecords
  <2>3. \A d \in Callers : callers'[d].pc # "snapshot" => callers'[d].snapshot = None
    BY <1>1, <2>2 DEF Arbitrated, CallersShape
  <2> QED
    BY <2>1, <2>2, <2>3 DEF SameCallers
<1>5. expired' \subseteq Tags
  BY DEF Arbitrated, ArbiterType
<1> QED
  BY <1>3, <1>4, <1>5, StepArbitrated

LEMMA NoSnapshotArbitrated ==
  ASSUME Arbitrated, Awaiting, NoSnapshot, UNCHANGED issued
  PROVE  SameRequest /\ SameCallers /\ Arbitrated'
BY TellsFacts DEF NoSnapshot

LEMMA HandleOKArbitrated ==
  ASSUME Arbitrated, HandleOK, UNCHANGED issued
  PROVE  Arbitrated'
<1>1. CASE reset # None
  <2> DEFINE o == [Failure(None) EXCEPT !.ok = TRUE]
  <2>1. o \in Outcomes /\ o.error # "timeout"
    BY FailureType, NoneAssumption DEF Errors
  <2>2. FinishPathReset(reset.id, o) /\ UNCHANGED <<request, expired>>
    BY <1>1 DEF HandleOK
  <2> HIDE DEF o
  <2> QED
    BY <2>1, <2>2, ResetEndArbitrated
<1>2. CASE reset = None /\ Awaiting
  BY <1>2, NoSnapshotArbitrated DEF HandleOK
<1>3. CASE reset = None /\ ~Awaiting
  BY <1>3, StayArbitrated DEF HandleOK, Arbitrated, ArbiterType
<1> QED
  BY <1>1, <1>2, <1>3

LEMMA FailureOfRoute ==
  ASSUME NEW r \in RouteNames, NEW e \in {"firmware", "disconnected"}
  PROVE  /\ [Failure(e) EXCEPT !.route = r] \in Outcomes
         /\ [Failure(e) EXCEPT !.route = r].error = e
         /\ [Failure(e) EXCEPT !.route = r].ok = FALSE
         /\ [Failure(e) EXCEPT !.route = r].route = r
<1> DEFINE f == Failure(e)
<1>1. f \in Outcomes /\ f.error = e
  BY FailureType
<1>2. f.ok = FALSE
  BY DEF Failure
<1> HIDE DEF f
<1>3. /\ [f EXCEPT !.route = r] \in Outcomes /\ [f EXCEPT !.route = r].error = f.error
      /\ [f EXCEPT !.route = r].ok = f.ok /\ [f EXCEPT !.route = r].route = r
  BY <1>1 DEF Outcomes
<1> QED
  BY <1>1, <1>2, <1>3 DEF f

LEMMA FallBackArbitrated ==
  ASSUME Arbitrated, request # None, ~Awaiting, FallBack, UNCHANGED issued
  PROVE  Arbitrated'
<1>1. UNCHANGED <<reset, expired>> /\ expired' \subseteq Tags
  BY DEF FallBack, Arbitrated, ArbiterType
<1>2. CASE request' = [request EXCEPT !.mode = "legacy", !.tag = None] /\ UNCHANGED callers
  <2>1. SameRequest /\ request'.awaiting = FALSE
    BY <1>2, CurrentFacts DEF SameRequest, Requests, Awaiting
  <2>2. SameCallers
    BY <1>2 DEF SameCallers, Arbitrated, ArbiterType, CallersShape
  <2> QED
    BY <1>1, <2>1, <2>2, StepArbitrated
<1>3. CASE /\ request' = None
           /\ callers' = Resolved(request.by, [Failure("disconnected") EXCEPT !.route = request.route])
  <2> DEFINE o == [Failure("disconnected") EXCEPT !.route = request.route]
  <2>1. request.route \in RouteNames
    BY CurrentFacts DEF Requests
  <2>2. o \in Outcomes /\ o.error # "timeout"
    BY <2>1, FailureOfRoute
  <2> HIDE DEF o
  <2> QED
    BY <1>1, <1>3, <2>2, EndArbitrated DEF o
<1> QED
  BY <1>2, <1>3 DEF FallBack

LEMMA HandleErrorArbitrated ==
  ASSUME Arbitrated, NEW error, HandleError(error), UNCHANGED issued
  PROVE  Arbitrated'
<1>1. CASE reset # None
  BY <1>1, FailureType, ResetEndArbitrated DEF HandleError
<1>2. CASE reset = None /\ Awaiting
  BY <1>2, NoSnapshotArbitrated DEF HandleError
<1>3. CASE reset = None /\ ~Awaiting
  <2>1. CASE request # None /\ request.mode = "binary" /\ error = "unsupported"
    BY <1>3, <2>1, FallBackArbitrated DEF HandleError
  <2>2. CASE request # None /\ ~(request.mode = "binary" /\ error = "unsupported")
    BY <1>3, <2>2, FailureType, FinishArbitrated DEF HandleError
  <2>3. CASE request = None
    BY <1>3, <2>3, StayArbitrated DEF HandleError, Arbitrated, ArbiterType
  <2> QED
    BY <2>1, <2>2, <2>3
<1> QED
  BY <1>1, <1>2, <1>3

LEMMA HandleContactArbitrated ==
  ASSUME Arbitrated, NEW target, NEW route \in Paths, HandleContact(target, route),
         UNCHANGED issued
  PROVE  SameRequest /\ SameCallers /\ Arbitrated'
<1>1. CASE Awaiting /\ request.target = target
  BY <1>1, TellsFacts DEF HandleContact
<1>2. CASE ~(Awaiting /\ request.target = target)
  <2>1. UNCHANGED <<request, reset, callers, expired>>
    BY <1>2 DEF HandleContact
  <2>2. SameRequest /\ SameCallers
    BY <2>1, CurrentFacts DEF SameRequest, SameCallers, Arbitrated, ArbiterType, CallersShape
  <2> QED
    BY <2>1, <2>2, StayArbitrated DEF Arbitrated, ArbiterType
<1> QED
  BY <1>1, <1>2

LEMMA ConfirmedType ==
  ASSUME NEW route, NEW sent
  PROVE  /\ Confirmed(route, sent) \in RouteNames
         /\ Confirmed(route, sent) = "confirmed_direct" => sent # "flood"
BY DEF Confirmed, RouteNames

(* An answer under a tag given up ends the request, with what is known of  *)
(* its route.                                                              *)
LEMMA SentExpired ==
  ASSUME Arbitrated, request # None, NEW r \in RouteNames,
         request' = None,
         callers' = Resolved(request.by, [Failure("firmware") EXCEPT !.route = r]),
         expired' = expired \cup ({request.tag} \ {None}), UNCHANGED <<reset, issued>>
  PROVE  Arbitrated'
<1> DEFINE o == [Failure("firmware") EXCEPT !.route = r]
<1>1. o \in Outcomes /\ o.error # "timeout"
  BY FailureOfRoute
<1>2. expired' \subseteq Tags
  BY CurrentFacts DEF Arbitrated, ArbiterType, Requests
<1> HIDE DEF o
<1> QED
  BY <1>1, <1>2, EndArbitrated DEF o

LEMMA HandleSentArbitrated ==
  ASSUME Arbitrated, NEW tag \in Tags \cup {None}, NEW sent \in Paths, HandleSent(tag, sent),
         UNCHANGED issued
  PROVE  Arbitrated'
<1>1. CASE Awaiting
  BY <1>1, NoSnapshotArbitrated DEF HandleSent
<1>2. CASE request = None
  BY <1>2, StayArbitrated DEF HandleSent, Arbitrated, ArbiterType, arbiter, Awaiting
<1>3. CASE request # None /\ ~Awaiting
  <2> DEFINE r == Confirmed(request.route, sent)
             told == [request EXCEPT !.route = r]
  <2>1. told \in Requests /\ [told EXCEPT !.tag = tag] \in Requests /\ r \in RouteNames
    BY <1>3, CurrentFacts, ConfirmedType DEF Requests
  <2>2. told.awaiting = FALSE /\ [told EXCEPT !.tag = tag].awaiting = FALSE
    BY <1>3, CurrentFacts DEF Requests, Awaiting
  <2>3. \/ /\ SameCallers /\ expired' \subseteq Tags /\ UNCHANGED reset
           /\ request' = told \/ request' = [told EXCEPT !.tag = tag]
        \/ request' = None /\ request.mode = "binary" /\ tag \in expired
    <3>1. CASE request.mode = "legacy"
      BY <1>3, <3>1 DEF HandleSent, Arbitrated, ArbiterType, CallersShape, SameCallers
    <3>2. CASE request.mode # "legacy" /\ tag \notin expired
      BY <1>3, <3>2 DEF HandleSent, Arbitrated, ArbiterType, CallersShape, SameCallers
    <3>3. CASE request.mode # "legacy" /\ tag \in expired
      BY <1>3, <3>3, CurrentFacts DEF HandleSent, Requests
    <3> QED
      BY <3>1, <3>2, <3>3
  <2>4. CASE request' = None
    BY <1>3, <2>1, <2>3, <2>4, SentExpired, NoneAssumption DEF HandleSent
  <2>5. CASE request' # None
    <3>1. SameRequest /\ request'.awaiting = FALSE
      BY <1>3, <2>1, <2>2, <2>3, <2>5, CurrentFacts DEF SameRequest, Requests
    <3> QED
      BY <2>3, <2>5, <3>1, StepArbitrated
  <2> QED
    BY <2>4, <2>5
<1> QED
  BY <1>1, <1>2, <1>3

-----------------------------------------------------------------------------
(* The callers' own steps.                                                 *)

(* One caller goes on within its request.                                  *)
LEMMA GoesOn ==
  ASSUME Arbitrated, NEW c \in Callers, callers[c].pc \in Asking,
         NEW pc \in Asking, NEW s \in Paths \cup {"unknown", None},
         pc # "snapshot" => s = None,
         callers' = [callers EXCEPT ![c].pc = pc, ![c].snapshot = s]
  PROVE  /\ SameCallers /\ callers'[c].pc = pc /\ callers'[c].snapshot = s
         /\ \A d \in Callers : d # c => callers'[d] = callers[d]
<1>1. callers \in [Callers -> CallerRecords]
  BY DEF Arbitrated, ArbiterType
<1>2. callers' \in [Callers -> CallerRecords]
  <2>1. pc \in {"idle", "query", "snapshot", "send", "waiting", "resetting"}
    BY DEF Asking
  <2> DEFINE k == [callers[c] EXCEPT !.pc = pc, !.snapshot = s]
  <2>2. callers[c] \in CallerRecords
    BY <1>1
  <2>3. k \in CallerRecords
    BY <2>1, <2>2 DEF CallerRecords
  <2>4. callers' = [callers EXCEPT ![c] = k]
    BY <1>1 DEF CallerRecords
  <2> HIDE DEF k
  <2> QED
    BY <1>1, <2>3, <2>4
<1>3. /\ \A d \in Callers : d # c => callers'[d] = callers[d]
      /\ callers'[c].pc = pc /\ callers'[c].snapshot = s /\ callers'[c].id = callers[c].id
      /\ callers'[c].target = callers[c].target /\ callers'[c].done = callers[c].done
  BY <1>1 DEF CallerRecords
<1>4. \A d \in Callers : callers'[d].pc # "snapshot" => callers'[d].snapshot = None
  BY <1>3 DEF Arbitrated, CallersShape
<1> QED
  BY <1>2, <1>3, <1>4 DEF SameCallers

(* It goes on from a point where it has no snapshot.                       *)
LEMMA GoesOnPlain ==
  ASSUME Arbitrated, NEW c \in Callers, callers[c].pc \in Asking \ {"snapshot"},
         NEW pc \in Asking, callers' = [callers EXCEPT ![c].pc = pc]
  PROVE  /\ SameCallers /\ callers'[c].pc = pc /\ callers'[c].snapshot = None
         /\ \A d \in Callers : d # c => callers'[d] = callers[d]
<1>1. callers \in [Callers -> CallerRecords] /\ callers[c].snapshot = None
  BY DEF Arbitrated, ArbiterType, CallersShape
<1>2. callers' = [callers EXCEPT ![c].pc = pc, ![c].snapshot = None]
  BY <1>1 DEF CallerRecords
<1> QED
  BY <1>2, GoesOn

LEMMA RequestStays ==
  ASSUME Arbitrated, request' = request
  PROVE  SameRequest
BY CurrentFacts DEF SameRequest

LEMMA QueryContactArbitrated ==
  ASSUME Arbitrated, NEW c \in Callers, QueryContact(c)
  PROVE  SameRequest /\ SameCallers /\ Arbitrated'
<1>1. /\ callers[c].pc = "query" /\ UNCHANGED <<reset, issued, expired>>
      /\ expired' \subseteq Tags
  BY DEF QueryContact, At, Arbitrated, ArbiterType, asked
<1>2. PICK pc \in {"snapshot", "send", "waiting"} : callers' = [callers EXCEPT ![c].pc = pc]
  BY DEF QueryContact
<1>3. /\ SameCallers /\ callers'[c].pc = pc /\ callers'[c].snapshot = None
      /\ \A d \in Callers : d # c => callers'[d] = callers[d]
  BY <1>1, <1>2, GoesOnPlain DEF Asking
<1>4. CASE request' = request
  <2>1. request # None /\ request.awaiting => request.by # c
    BY <1>1 DEF Arbitrated, InFlight
  <2>2. request # None => request.by \in Callers
    BY CurrentFacts
  <2>3. request' # None /\ request'.awaiting =>
           callers'[request'.by].pc = "snapshot" /\ callers'[request'.by].snapshot = None
    BY <1>3, <1>4, <2>1, <2>2 DEF Arbitrated, InFlight
  <2> QED
    BY <1>1, <1>3, <1>4, <2>3, RequestStays, StepArbitrated
<1>5. CASE request' # request
  <2>1. /\ IsCurrent(callers[c].id) /\ request' = [request EXCEPT !.awaiting = TRUE]
        /\ callers' = [callers EXCEPT ![c].pc = "snapshot"]
    BY <1>5 DEF QueryContact
  <2>2. c = request.by /\ request # None
    BY <2>1, CurrentFacts DEF IsCurrent
  <2>3. callers'[c].pc = "snapshot"
    BY <2>1, <1>1 DEF Arbitrated, ArbiterType, CallerRecords
  <2>4. SameRequest /\ request'.by = c
    BY <2>1, <2>2, CurrentFacts DEF SameRequest, Requests
  <2> QED
    BY <1>1, <1>3, <2>3, <2>4, StepArbitrated
<1> QED
  BY <1>4, <1>5

LEMMA SnapshotEndsArbitrated ==
  ASSUME Arbitrated, NEW c \in Callers, SnapshotEnds(c)
  PROVE  SameRequest /\ SameCallers /\ Arbitrated'
<1>1. /\ callers[c].pc = "snapshot" /\ UNCHANGED <<reset, issued, expired>>
      /\ expired' \subseteq Tags
      /\ callers' = [callers EXCEPT ![c].pc = "send", ![c].snapshot = None]
  BY DEF SnapshotEnds, At, Arbitrated, ArbiterType, asked
<1>2. /\ SameCallers
      /\ \A d \in Callers : d # c => callers'[d] = callers[d]
  BY <1>1, GoesOn DEF Asking
<1>3. request # None /\ IsCurrent(callers[c].id) => c = request.by
  BY CurrentFacts DEF IsCurrent
<1>4. callers[c].snapshot \in Paths \cup {"unknown", None}
  BY DEF Arbitrated, ArbiterType, CallerRecords
<1>5. CASE request' = request
  <2>1. request # None /\ request.awaiting => request.by # c
    <3>1. SUFFICES ASSUME request # None, request.awaiting, request.by = c
                   PROVE  FALSE
      OBVIOUS
    <3>2. IsCurrent(callers[c].id) /\ callers[c].snapshot = None /\ request \in Requests
      BY <3>1, CurrentFacts DEF IsCurrent, Arbitrated, InFlight
    <3>3. request'.awaiting = FALSE
      BY <3>2 DEF SnapshotEnds, Requests
    <3> QED
      BY <3>1, <3>3, <1>5
  <2>2. request # None => request.by \in Callers
    BY CurrentFacts
  <2>3. request' # None /\ request'.awaiting =>
           callers'[request'.by].pc = "snapshot" /\ callers'[request'.by].snapshot = None
    BY <1>2, <1>5, <2>1, <2>2 DEF Arbitrated, InFlight
  <2> QED
    BY <1>1, <1>2, <1>5, <2>3, RequestStays, StepArbitrated
<1>6. CASE request' # request
  <2>1. /\ IsCurrent(callers[c].id)
        /\ \/ callers[c].snapshot # None /\ request' = [request EXCEPT !.route = callers[c].snapshot]
           \/ request' = [request EXCEPT !.awaiting = FALSE]
    BY <1>6 DEF SnapshotEnds
  <2>2. c = request.by /\ request # None
    BY <2>1, CurrentFacts DEF IsCurrent
  <2>3. request'.awaiting = FALSE
    <3>1. callers[c].snapshot # None => ~request.awaiting
      BY <2>2 DEF Arbitrated, InFlight
    <3> QED
      BY <3>1, <2>1, <2>2, CurrentFacts DEF Requests
  <2>4. SameRequest
    BY <2>1, <2>2, <1>4, CurrentFacts DEF SameRequest, Requests, Paths, RouteNames
  <2> QED
    BY <1>1, <1>2, <2>3, <2>4, StepArbitrated
<1> QED
  BY <1>5, <1>6

LEMMA RetireArbitrated ==
  ASSUME Arbitrated, NEW c \in Callers, callers[c].pc \in Asking, Retire(callers[c].id),
         callers' = [callers EXCEPT ![c] = Idle], UNCHANGED <<reset, issued>>
  PROVE  Arbitrated'
<1>1. expired' \subseteq Tags
  BY CurrentFacts DEF Retire, IsCurrent, Arbitrated, ArbiterType, Requests
<1>2. callers' = [callers EXCEPT ![c] = [Idle EXCEPT !.target = None]]
  BY DEF Idle
<1>3. request # None /\ IsCurrent(callers[c].id) <=> request # None /\ request.by = c
  BY CurrentFacts DEF IsCurrent
<1>4. reset # None => reset.by # c
  BY ResetFacts DEF Asking
<1>5. /\ request' \in {request, None} /\ (request' # None => request.by # c)
      /\ (request' = None => request = None \/ request.by = c)
  BY <1>3 DEF Retire, IsCurrent
<1> QED
  BY <1>1, <1>2, <1>4, <1>5, LeaveArbitrated

LEMMA SendTelemetryArbitrated ==
  ASSUME Arbitrated, NEW c \in Callers, SendTelemetry(c)
  PROVE  /\ Arbitrated'
         /\ \/ callers' = [callers EXCEPT ![c] = Idle]
            \/ SameCallers /\ UNCHANGED <<request, expired>>
<1>1. callers[c].pc = "send" /\ UNCHANGED <<reset, issued>>
  BY DEF SendTelemetry, At, asked
<1>2. CASE callers' = [callers EXCEPT ![c].pc = "waiting"] /\ UNCHANGED <<request, expired>>
  <2>1. /\ SameCallers /\ callers'[c].pc = "waiting"
        /\ \A d \in Callers : d # c => callers'[d] = callers[d]
    BY <1>1, <1>2, GoesOnPlain DEF Asking
  <2>2. request # None /\ request.awaiting => request.by # c /\ request.by \in Callers
    BY <1>1, CurrentFacts DEF Arbitrated, InFlight
  <2>3. request' # None /\ request'.awaiting =>
           callers'[request'.by].pc = "snapshot" /\ callers'[request'.by].snapshot = None
    BY <1>2, <2>1, <2>2 DEF Arbitrated, InFlight
  <2> QED
    BY <1>1, <1>2, <2>1, <2>3, RequestStays, StepArbitrated DEF Arbitrated, ArbiterType
<1>3. CASE Retire(callers[c].id) /\ callers' = [callers EXCEPT ![c] = Idle]
  BY <1>1, <1>3, RetireArbitrated DEF Asking
<1> QED
  BY <1>2, <1>3 DEF SendTelemetry

(* A new request, a new reset.                                             *)
LEMMA BeginFacts ==
  ASSUME Arbitrated, NEW c \in Callers, NEW t \in Targets, NEW pc \in {"query", "resetting"},
         pc = "resetting" => c \in Resetters,
         callers[c].pc = "idle", issued < MaxRequests, issued' = issued + 1,
         callers' = [callers EXCEPT ![c] = [Idle EXCEPT !.pc = pc, !.id = issued + 1, !.target = t]]
  PROVE  /\ issued' \in Ids /\ callers' \in [Callers -> CallerRecords]
         /\ callers'[c].pc = pc /\ callers'[c].id = issued' /\ callers'[c].target = t
         /\ callers'[c].done = None /\ callers'[c].snapshot = None
         /\ \A d \in Callers : d # c => callers'[d] = callers[d]
         /\ \A d \in Callers : callers[d].pc # "idle" => callers[d].id < issued'
         /\ CallersShape'
<1>1. /\ callers \in [Callers -> CallerRecords] /\ issued \in Nat /\ MaxRequests \in Nat
  BY CompanionAssumption DEF Arbitrated, ArbiterType
<1>2. issued' \in Ids /\ issued' \in Nat
  BY <1>1 DEF Ids
<1>3. callers' \in [Callers -> CallerRecords]
  BY <1>1, <1>2 DEF Idle, CallerRecords
<1>4. /\ callers'[c].pc = pc /\ callers'[c].id = issued' /\ callers'[c].target = t
      /\ callers'[c].done = None /\ callers'[c].snapshot = None
      /\ \A d \in Callers : d # c => callers'[d] = callers[d]
  BY <1>1 DEF Idle
<1>5. \A d \in Callers : callers[d].pc # "idle" => callers[d].id \in 1..issued
  BY DEF Arbitrated, CallersShape
<1>6. \A d \in Callers : callers[d].pc # "idle" => callers[d].id < issued'
  BY <1>1, <1>5
<1>7. CallersShape'
  <2>1. \A d \in Callers :
       /\ callers'[d].pc = "idle" => callers'[d].id = None /\ callers'[d].done = None
       /\ callers'[d].pc # "idle" => callers'[d].id \in 1..issued' /\ callers'[d].target \in Targets
       /\ callers'[d].pc # "snapshot" => callers'[d].snapshot = None
       /\ callers'[d].pc = "resetting" => d \in Resetters
    BY <1>1, <1>2, <1>4 DEF Arbitrated, CallersShape, Ids
  <2>2. \A d \in Callers : d # c => callers'[d].id # issued'
    BY <1>1, <1>2, <1>4, <1>6, CompanionAssumption DEF Arbitrated, CallersShape
  <2> QED
    BY <1>4, <2>1, <2>2 DEF Arbitrated, CallersShape
<1> QED
  BY <1>2, <1>3, <1>4, <1>6, <1>7

LEMMA RequestTelemetryArbitrated ==
  ASSUME Arbitrated, NEW c \in Callers, NEW t \in Targets, RequestTelemetry(c, t)
  PROVE  Arbitrated'
<1>1. /\ callers[c].pc = "idle" /\ request = None /\ reset = None /\ reset' = None
      /\ issued < MaxRequests /\ issued' = issued + 1 /\ expired' = expired
      /\ callers' = [callers EXCEPT ![c] = [Idle EXCEPT !.pc = "query", !.id = issued + 1, !.target = t]]
  BY DEF Issue, RequestTelemetry, At
<1>2. /\ issued' \in Ids /\ callers' \in [Callers -> CallerRecords]
      /\ callers'[c].pc = "query" /\ callers'[c].id = issued' /\ callers'[c].target = t
      /\ callers'[c].done = None /\ callers'[c].snapshot = None
      /\ \A d \in Callers : d # c => callers'[d] = callers[d]
      /\ CallersShape'
  BY <1>1, BeginFacts
<1>3. /\ request' \in Requests /\ request'.id = issued' /\ request'.by = c
      /\ request'.target = t /\ request'.awaiting = FALSE
  BY <1>1, <1>2 DEF RequestTelemetry, Requests, RouteNames
<1>4. request' # None
  BY <1>3, NoneAssumption
<1>5. ArbiterType'
  BY <1>1, <1>2, <1>3 DEF Arbitrated, ArbiterType, Ids
<1>6. InFlight'
  BY <1>1, <1>2, <1>3, <1>4 DEF Arbitrated, InFlight, IsCurrent
<1>7. NothingLeftBehind'
  BY <1>1, <1>2, <1>3, <1>4 DEF Arbitrated, NothingLeftBehind, IsCurrent
<1>8. NoForeignTimeout'
  BY <1>2 DEF Arbitrated, NoForeignTimeout
<1> QED
  BY <1>2, <1>5, <1>6, <1>7, <1>8 DEF Arbitrated

LEMMA ResetPathArbitrated ==
  ASSUME Arbitrated, NEW c \in Callers, NEW t \in Targets, ResetPath(c, t)
  PROVE  Arbitrated'
<1>1. /\ callers[c].pc = "idle" /\ request = None /\ reset = None /\ request' = None
      /\ issued < MaxRequests /\ issued' = issued + 1 /\ expired' = expired /\ c \in Resetters
  BY DEF Issue, ResetPath, At
<1>2. CASE /\ reset' = [id |-> issued + 1, by |-> c, target |-> t]
           /\ callers' = [callers EXCEPT ![c] = [Idle EXCEPT !.pc = "resetting",
                                               !.id = issued + 1, !.target = t]]
  <2>1. /\ issued' \in Ids /\ callers' \in [Callers -> CallerRecords]
        /\ callers'[c].pc = "resetting" /\ callers'[c].id = issued' /\ callers'[c].target = t
        /\ callers'[c].done = None /\ callers'[c].snapshot = None
        /\ \A d \in Callers : d # c => callers'[d] = callers[d]
        /\ CallersShape'
    BY <1>1, <1>2, BeginFacts
  <2>2. reset' \in PathResets /\ reset'.id = issued' /\ reset'.by = c
    BY <1>1, <1>2, <2>1 DEF PathResets
  <2>3. reset' # None
    BY <2>2, NoneAssumption
  <2>5. ArbiterType'
    BY <1>1, <2>1, <2>2 DEF Arbitrated, ArbiterType, Ids
  <2>6. InFlight'
    BY <1>1, <2>1, <2>2 DEF Arbitrated, InFlight, IsCurrent, Asking
  <2>7. NothingLeftBehind'
    BY <1>1, <2>1, <2>2, <2>3 DEF Arbitrated, NothingLeftBehind, IsCurrent
  <2>8. NoForeignTimeout'
    BY <2>1 DEF Arbitrated, NoForeignTimeout
  <2> QED
    BY <2>1, <2>5, <2>6, <2>7, <2>8 DEF Arbitrated
<1>3. CASE callers' = [callers EXCEPT ![c] = Idle] /\ reset' = reset
  <2>1. callers \in [Callers -> CallerRecords] /\ issued \in Nat /\ MaxRequests \in Nat
    BY CompanionAssumption DEF Arbitrated, ArbiterType
  <2>2. callers' \in [Callers -> CallerRecords] /\ callers'[c] = Idle
        /\ \A d \in Callers : d # c => callers'[d] = callers[d]
    BY <1>3, <2>1 DEF Idle, CallerRecords
  <2>3. /\ callers'[c].pc = "idle" /\ callers'[c].id = None /\ callers'[c].done = None
        /\ callers'[c].snapshot = None
    BY <2>2 DEF Idle
  <2>4. issued' \in 0..MaxRequests /\ 1..issued \subseteq 1..issued'
    BY <1>1, <2>1
  <2>5. ArbiterType'
    BY <1>1, <1>3, <2>2, <2>4 DEF Arbitrated, ArbiterType
  <2>6. CallersShape'
    BY <2>2, <2>3, <2>4, <1>1 DEF Arbitrated, CallersShape
  <2>7. InFlight' /\ NothingLeftBehind' /\ NoForeignTimeout'
    BY <1>1, <1>3, <2>2, <2>3 DEF Arbitrated, InFlight, NothingLeftBehind, NoForeignTimeout,
       IsCurrent, Asking
  <2> QED
    BY <2>5, <2>6, <2>7 DEF Arbitrated
<1> QED
  BY <1>2, <1>3 DEF ResetPath

LEMMA ReturnArbitrated ==
  ASSUME Arbitrated, NEW c \in Callers, Return(c)
  PROVE  Arbitrated'
<1>1. /\ callers[c].done # None /\ UNCHANGED <<request, reset, issued, expired>>
  BY DEF Return, arbiter, asked
<1>2. PICK t \in Targets \cup {None} : callers' = [callers EXCEPT ![c] = [Idle EXCEPT !.target = t]]
  <2>1. callers[c].target \in Targets \cup {None} /\ Idle = [Idle EXCEPT !.target = None]
    BY DEF Arbitrated, ArbiterType, CallerRecords, Idle
  <2> QED
    BY <2>1 DEF Return
<1>3. (request # None => request.by # c) /\ (reset # None => reset.by # c)
  BY <1>1, CurrentFacts, ResetFacts
<1> QED
  BY <1>1, <1>2, <1>3, LeaveArbitrated DEF Arbitrated, ArbiterType

LEMMA CancelArbitrated ==
  ASSUME Arbitrated, NEW c \in Callers, Cancel(c)
  PROVE  Arbitrated'
BY RetireArbitrated DEF Cancel, At, Asking, asked

LEMMA TimeoutArbitrated ==
  ASSUME Arbitrated, NEW id \in Ids, Timeout(id)
  PROVE  Arbitrated'
<1>1. TimedOut(id) \in Outcomes /\ TimedOut(id).timer = id /\ UNCHANGED issued
  BY FailureType DEF Timeout, asked
<1>2. CASE IsCurrent(id)
  BY <1>1, <1>2, FinishArbitrated DEF Timeout
<1>3. CASE ~IsCurrent(id)
  BY <1>1, <1>3, ResetEndArbitrated DEF Timeout
<1> QED
  BY <1>2, <1>3

-----------------------------------------------------------------------------
(* The steps of the loop.                                                  *)

LEMMA LoseArbitrated ==
  ASSUME Arbitrated, Lose
  PROVE  Arbitrated'
<1>1. Failure("disconnected") \in Outcomes /\ Failure("disconnected").error # "timeout"
  BY FailureType
<1>2. UNCHANGED issued
  BY DEF Lose, asked
<1>3. CASE reset # None
  BY <1>1, <1>2, <1>3, ResetEndArbitrated DEF Lose
<1>4. CASE reset = None /\ request # None
  BY <1>1, <1>2, <1>4, FinishArbitrated DEF Lose
<1>5. CASE reset = None /\ request = None
  BY <1>2, <1>5, StayArbitrated DEF Lose, Arbitrated, ArbiterType
<1> QED
  BY <1>3, <1>4, <1>5

LEMMA TelemetryArbitrated ==
  ASSUME Arbitrated, air \subseteq [tag : Tags \cup {None}, node : Targets], Telemetry
  PROVE  Arbitrated'
<1>1. UNCHANGED <<reset, issued>>
  BY DEF Telemetry, asked
<1>2. CASE UNCHANGED <<request, expired, callers>>
  BY <1>1, <1>2, StayArbitrated DEF Arbitrated, ArbiterType
<1>3. CASE \E o \in {Failure("invalid"), Failure("mismatched")} \cup {Success(n) : n \in Targets} :
             FinishTelemetry(request.id, o)
  <2>1. PICK o \in {Failure("invalid"), Failure("mismatched")} \cup {Success(n) : n \in Targets} :
             FinishTelemetry(request.id, o)
    BY <1>3
  <2>2. o \in Outcomes /\ o.error # "timeout"
    BY FailureType, NoneAssumption DEF Errors
  <2> QED
    BY <1>1, <2>1, <2>2, FinishArbitrated
<1> QED
  BY <1>2, <1>3 DEF Telemetry

(* Each answer is handed to what is in flight.                             *)
LEMMA HeadFacts ==
  ASSUME owed \in Seq(Commands), owed # <<>>
  PROVE  Head(owed) \in Commands /\ Tail(owed) \in Seq(Commands)
OBVIOUS

LEMMA CommandFacts ==
  ASSUME NEW k \in Commands
  PROVE  /\ k.kind \in {"contact", "listed", "binary", "legacy", "reset"} => k.target \in Targets
         /\ k.kind \in {"binary", "legacy", "reset"} => k.id \in Ids
BY DEF Commands

(* A tag comes with the answer to a tagged command only.                   *)
LEMMA AnswerTelemetryFacts ==
  ASSUME owed \in Seq(Commands), AnswerTelemetry
  PROVE  /\ Ready /\ owed # <<>> /\ Head(owed) \in Commands
         /\ Head(owed).kind \in {"binary", "legacy"}
         /\ Head(owed).target \in Targets /\ Head(owed).id \in Ids
         /\ \/ \E tag \in Tags \cup {None}, path \in Paths :
                 /\ HandleSent(tag, path)
                 /\ tag # None => ((\E r \in air : r.tag = tag) => tag \in expired)
                 /\ owed' = Tail(owed)
                 /\ air' = air \cup {[tag |-> tag, node |-> Head(owed).target]}
                 /\ sentAs' = [sentAs EXCEPT ![Head(owed).id] = @ \cup {path}]
            \/ \E error \in {"other", "unsupported"} :
                 HandleError(error) /\ UNCHANGED <<air, sentAs>>
         /\ UNCHANGED <<consumer, issued, companion>>
<1>1. Ready /\ owed # <<>> /\ Head(owed).kind \in {"binary", "legacy"}
  BY DEF AnswerTelemetry, Answered
<1>2. Head(owed) \in Commands /\ Head(owed).target \in Targets /\ Head(owed).id \in Ids
  BY <1>1, HeadFacts, CommandFacts
<1> QED
  BY <1>1, <1>2, CompanionAssumption DEF AnswerTelemetry, Answered, asked

LEMMA ReportsStay ==
  ASSUME TypeCompanionOK
  PROVE  /\ Arbitrated <=> (CallersShape /\ InFlight /\ NothingLeftBehind /\ NoForeignTimeout)
         /\ air \subseteq [tag : Tags \cup {None}, node : Targets]
BY DEF TypeCompanionOK, Arbitrated, ArbiterType, CallerRecords

LEMMA AnswerArbitrated ==
  ASSUME Arbitrated, owed \in Seq(Commands), Answer
  PROVE  Arbitrated'
<1>1. CASE AnswerContact
  <2>1. UNCHANGED issued
    BY <1>1 DEF AnswerContact, asked
  <2>2. CASE \E path \in Paths : HandleContact(Head(owed).target, path)
    BY <2>1, <2>2, HandleContactArbitrated
  <2>3. CASE \E error \in {"unsupported", "other"} : HandleError(error)
    BY <2>1, <2>3, HandleErrorArbitrated
  <2> QED
    BY <1>1, <2>2, <2>3 DEF AnswerContact
<1>2. CASE AnswerTelemetry
  <2>1. UNCHANGED issued
    BY <1>2 DEF AnswerTelemetry, asked
  <2>2. CASE \E tag \in Tags \cup {None}, path \in Paths : HandleSent(tag, path)
    BY <2>1, <2>2, HandleSentArbitrated
  <2>3. CASE \E error \in {"other", "unsupported"} : HandleError(error)
    BY <2>1, <2>3, HandleErrorArbitrated
  <2> QED
    BY <1>2, <2>2, <2>3, AnswerTelemetryFacts
<1>3. CASE AnswerReset
  BY <1>3, HandleOKArbitrated, HandleErrorArbitrated DEF AnswerReset, asked
<1>4. CASE AnswerList
  <2>1. UNCHANGED issued
    BY <1>4 DEF AnswerList, asked
  <2>2. CASE Answered("start") \/ Answered("end")
    <3>1. (Awaiting /\ NoSnapshot) \/ UNCHANGED <<arbiter, callers>>
      BY <1>4, <2>2 DEF AnswerList, Answered
    <3> QED
      BY <2>1, <3>1, NoSnapshotArbitrated, StayArbitrated DEF arbiter, Arbitrated, ArbiterType
  <2>3. CASE Answered("listed") /\ ~(Answered("start") \/ Answered("end"))
    BY <1>4, <2>1, <2>3, HandleContactArbitrated DEF AnswerList
  <2> QED
    BY <1>4, <2>2, <2>3 DEF AnswerList
<1>5. CASE AnswerSync
  BY <1>5, StayArbitrated DEF AnswerSync, arbiter, Arbitrated, ArbiterType, asked
<1> QED
  BY <1>1, <1>2, <1>3, <1>4, <1>5 DEF Answer

LEMMA NextArbitrated ==
  ASSUME Arbitrated, TypeCompanionOK, [Next]_vars
  PROVE  Arbitrated'
<1>1. owed \in Seq(Commands) /\ air \subseteq [tag : Tags \cup {None}, node : Targets]
      /\ expired \subseteq Tags
  BY DEF TypeCompanionOK
<1>2. CASE \E c \in Callers, t \in Targets : RequestTelemetry(c, t) \/ ResetPath(c, t)
  BY <1>2, RequestTelemetryArbitrated, ResetPathArbitrated
<1>3. CASE \E c \in Callers : CallerStep(c) \/ Cancel(c)
  BY <1>3, QueryContactArbitrated, SnapshotEndsArbitrated, SendTelemetryArbitrated,
     ReturnArbitrated, CancelArbitrated DEF CallerStep
<1>4. CASE \E id \in Ids : Timeout(id)
  BY <1>4, TimeoutArbitrated
<1>5. CASE Connect \/ Handshake \/ Detach \/ MessageWaiting \/ Published
  BY <1>1, <1>5, StayArbitrated DEF Connect, Handshake, Detach, MessageWaiting, Published, arbiter, asked
<1>6. CASE Lose
  BY <1>6, LoseArbitrated
<1>7. CASE Answer
  BY <1>1, <1>7, AnswerArbitrated
<1>8. CASE Telemetry
  BY <1>1, <1>8, TelemetryArbitrated
<1>9. CASE \E tag \in Tags : Forget(tag)
  BY <1>1, <1>9, StayArbitrated DEF Forget, asked
<1>10. CASE UNCHANGED vars
  BY <1>1, <1>10, StayArbitrated DEF vars, arbiter, asked
<1> QED
  BY <1>2, <1>3, <1>4, <1>5, <1>6, <1>7, <1>8, <1>9, <1>10 DEF Next

-----------------------------------------------------------------------------
(* Type correctness of the rest: the loop's state, the companion.          *)

LoopType ==
  /\ link \in {"down", "up", "left"}
  /\ session \in {"disconnected", "await_device", "await_self", "ready"}
  /\ degraded \in BOOLEAN /\ sessions \in 0..MaxSessions
  /\ capability \in {"unknown", "supported", "unsupported"}
  /\ fetches \in 0..MaxFetches /\ listing \in {"no", "requested", "active"}

OutsideType ==
  /\ owed \in Seq(Commands) /\ air \subseteq [tag : Tags \cup {None}, node : Targets]
  /\ companion \in [firmware : Firmware, inbox : 0..MaxInbox]
  /\ sentAs \in [Ids -> SUBSET (Paths \cup {"reset"})]

LEMMA TypeParts ==
  TypeCompanionOK <=> LoopType /\ OutsideType /\ ArbiterType /\ early \subseteq 1..issued
BY DEF TypeCompanionOK, LoopType, OutsideType, ArbiterType, CallerRecords

LEMMA LoopTypeKept ==
  ASSUME LoopType, Next
  PROVE  LoopType'
<1>1. /\ MaxFetches \in Nat /\ MaxSessions \in Nat
  BY CompanionAssumption
<1>2. CASE \E c \in Callers, t \in Targets : RequestTelemetry(c, t) \/ ResetPath(c, t)
  BY <1>2 DEF RequestTelemetry, ResetPath, consumer, LoopType
<1>3. CASE \E c \in Callers : CallerStep(c) \/ Cancel(c)
  BY <1>3 DEF CallerStep, QueryContact, SnapshotEnds, SendTelemetry, Return, Cancel, consumer,
     arbiter, LoopType
<1>4. CASE (\E id \in Ids : Timeout(id)) \/ (\E tag \in Tags : Forget(tag)) \/ Telemetry
  <2>1. UNCHANGED <<consumer, capability>>
    BY <1>4 DEF Timeout, Forget, Telemetry
  <2> QED
    BY <2>1 DEF consumer, LoopType
<1>5. CASE Connect
  <2>1. degraded' \in BOOLEAN
    BY <1>5 DEF Connect
  <2>2. /\ link' = "up" /\ session' = "await_device" /\ sessions' = sessions + 1
        /\ sessions < MaxSessions /\ fetches' = 0 /\ listing' = "no" /\ capability' = "unknown"
    BY <1>5 DEF Connect
  <2> QED
    BY <1>1, <2>1, <2>2 DEF LoopType
<1>6. CASE Handshake \/ Detach \/ Published \/ Lose
  <2>1. /\ link' \in {link, "left", "down"}
        /\ session' \in {session, "await_self", "ready", "disconnected"}
        /\ fetches' \in {fetches, 0}
        /\ listing' \in {listing, "requested", "no"} /\ UNCHANGED <<sessions, capability>>
    BY <1>6 DEF Handshake, Detach, Published, Lose, arbiter
  <2>2. degraded' \in BOOLEAN
    BY <1>6 DEF Handshake, Detach, Published, Lose, LoopType
  <2> QED
    BY <1>1, <2>1, <2>2 DEF LoopType
<1>7. CASE MessageWaiting
  BY <1>1, <1>7 DEF MessageWaiting, arbiter, LoopType
<1>8. CASE AnswerContact \/ AnswerReset \/ AnswerList
  BY <1>8 DEF AnswerContact, AnswerReset, AnswerList, HandleContact, HandleError, FallBack, HandleOK,
     NoSnapshot, consumer, arbiter, LoopType
<1>9. CASE AnswerTelemetry
  <2>1. UNCHANGED consumer /\ capability' \in {capability, "supported", "unsupported"}
    BY <1>9 DEF AnswerTelemetry, HandleSent, HandleError, FallBack, NoSnapshot, arbiter
  <2> QED
    BY <2>1 DEF consumer, LoopType
<1>10. CASE AnswerSync
  <2>1. /\ fetches' = 0 \/ (fetches > 0 /\ fetches' = fetches - 1) \/ fetches' = fetches
        /\ UNCHANGED <<link, session, sessions, listing, capability>>
    BY <1>1, <1>10 DEF AnswerSync, arbiter, LoopType
  <2>2. degraded' \in BOOLEAN
    BY <1>10 DEF AnswerSync, LoopType
  <2> QED
    BY <1>1, <2>1, <2>2 DEF LoopType
<1> QED
  BY <1>2, <1>3, <1>4, <1>5, <1>6, <1>7, <1>8, <1>9, <1>10 DEF Next, Answer

LEMMA QueueType ==
  ASSUME owed \in Seq(Commands), NEW k \in Commands
  PROVE  /\ Append(owed, k) \in Seq(Commands)
         /\ owed # <<>> => Tail(owed) \in Seq(Commands) /\ Append(Tail(owed), k) \in Seq(Commands)
<1>1. owed # <<>> => Tail(owed) \in Seq(Commands)
  BY HeadFacts
<1> QED
  BY <1>1

LEMMA WriteType ==
  ASSUME owed \in Seq(Commands), NEW k \in Commands, WriteFails(k)
  PROVE  owed' \in Seq(Commands)
BY QueueType DEF Write, WriteFails

(* A refusal is taken from the queue; only the old form of a request comes *)
(* after it.                                                               *)
Resent == [kind |-> "legacy", target |-> request.target, id |-> request.id]

LEMMA RefusalQueue ==
  ASSUME NEW error, HandleError(error)
  PROVE  \/ owed' = Tail(owed)
         \/ request # None /\ reset = None /\ ~Awaiting /\ FallBack /\ owed' = Append(Tail(owed), Resent)
BY DEF HandleError, FallBack, Resent

LEMMA RefusalType ==
  ASSUME Arbitrated, owed \in Seq(Commands), owed # <<>>, NEW error, HandleError(error)
  PROVE  owed' \in Seq(Commands)
<1>1. request # None => Resent \in Commands
  BY CurrentFacts DEF Resent, Commands
<1>2. Tail(owed) \in Seq(Commands)
  BY HeadFacts
<1> QED
  BY <1>1, <1>2, RefusalQueue

LEMMA OutsideTypeKept ==
  ASSUME Arbitrated, OutsideType, LoopType, Next
  PROVE  OutsideType'
<1>1. owed \in Seq(Commands)
  BY DEF OutsideType
<1>2. [kind |-> "sync"] \in Commands /\ [kind |-> "device"] \in Commands
      /\ [kind |-> "self"] \in Commands /\ [kind |-> "start"] \in Commands
      /\ [kind |-> "end"] \in Commands
      /\ \A t \in Targets : [kind |-> "listed", target |-> t] \in Commands
  BY DEF Commands
<1>3. CASE \E c \in Callers, t \in Targets : RequestTelemetry(c, t)
  BY <1>3 DEF RequestTelemetry, outside, OutsideType
<1>4. CASE \E c \in Callers, t \in Targets : ResetPath(c, t)
  <2>1. PICK c \in Callers, t \in Targets : ResetPath(c, t)
    BY <1>4
  <2>2. issued \in Nat /\ MaxRequests \in Nat /\ issued < MaxRequests
    BY <2>1, CompanionAssumption DEF Issue, ResetPath, Arbitrated, ArbiterType
  <2>3. [kind |-> "reset", target |-> t, id |-> issued + 1] \in Commands
    BY <2>2 DEF Commands, Ids
  <2>4. WriteFails([kind |-> "reset", target |-> t, id |-> issued + 1])
        /\ UNCHANGED <<air, companion, sentAs>>
    BY <2>1 DEF ResetPath, WriteFails
  <2>5. owed' \in Seq(Commands)
    BY <1>1, <2>3, <2>4, WriteType
  <2> QED
    BY <2>4, <2>5 DEF OutsideType
<1>5. CASE \E c \in Callers : CallerStep(c) \/ Cancel(c)
  <2>1. PICK c \in Callers : CallerStep(c) \/ Cancel(c)
    BY <1>5
  <2>2. UNCHANGED <<air, companion, sentAs>>
    BY <2>1 DEF CallerStep, QueryContact, SnapshotEnds, SendTelemetry, Return, Cancel, outside
  <2>3. CASE QueryContact(c)
    <3>1. callers[c].target \in Targets
      BY <2>3 DEF QueryContact, At, Arbitrated, CallersShape
    <3>2. [kind |-> "contact", target |-> callers[c].target, id |-> None] \in Commands
      BY <3>1 DEF Commands
    <3>3. owed' = owed \/ WriteFails([kind |-> "contact", target |-> callers[c].target, id |-> None])
      BY <2>3 DEF QueryContact, WriteFails
    <3> QED
      BY <1>1, <2>2, <3>2, <3>3, WriteType DEF OutsideType
  <2>4. CASE SendTelemetry(c)
    <3>1. callers[c].target \in Targets /\ callers[c].id \in Ids
          /\ (request # None => request.mode \in {"binary", "legacy"})
      <4>1. callers[c].target \in Targets /\ callers[c].id \in 1..issued /\ issued \in 0..MaxRequests
        BY <2>4 DEF SendTelemetry, At, Arbitrated, ArbiterType, CallersShape
      <4> QED
        BY <4>1, CurrentFacts, CompanionAssumption DEF Ids, Requests
    <3>2. request # None =>
            [kind |-> request.mode, target |-> callers[c].target, id |-> callers[c].id] \in Commands
      BY <3>1 DEF Commands
    <3>3. owed' = owed \/ (request # None /\
            WriteFails([kind |-> request.mode, target |-> callers[c].target, id |-> callers[c].id]))
      BY <2>4 DEF SendTelemetry, IsCurrent, WriteFails
    <3> QED
      BY <1>1, <2>2, <3>2, <3>3, WriteType DEF OutsideType
  <2>5. CASE SnapshotEnds(c) \/ Return(c) \/ Cancel(c)
    BY <2>5 DEF SnapshotEnds, Return, Cancel, outside, OutsideType
  <2> QED
    BY <2>1, <2>3, <2>4, <2>5 DEF CallerStep
<1>6. CASE (\E id \in Ids : Timeout(id)) \/ (\E tag \in Tags : Forget(tag)) \/ Detach \/ Published
  BY <1>6 DEF Timeout, Forget, Detach, Published, outside, OutsideType
<1>7. CASE Connect \/ Handshake \/ Lose
  <2>1. owed' \in Seq(Commands)
    <3>1. \A k \in Commands : <<k>> \in Seq(Commands)
      OBVIOUS
    <3>2. \A t \in Targets :
            <<[kind |-> "start"], [kind |-> "listed", target |-> t], [kind |-> "end"]>> \in Seq(Commands)
      <4>1. \A i, j, k \in Commands : <<i, j, k>> \in Seq(Commands)
        OBVIOUS
      <4> QED
        BY <1>2, <4>1
    <3>3. <<>> \in Seq(Commands)
      OBVIOUS
    <3>4. CASE Connect
      BY <1>2, <3>1, <3>4 DEF Connect
    <3>5. CASE Handshake
      BY <1>2, <3>1, <3>2, <3>3, <3>5 DEF Handshake
    <3>6. CASE Lose
      BY <3>3, <3>6 DEF Lose
    <3> QED
      BY <1>7, <3>4, <3>5, <3>6
  <2>2. UNCHANGED <<air, companion, sentAs>>
    BY <1>7 DEF Connect, Handshake, Lose
  <2> QED
    BY <2>1, <2>2 DEF OutsideType
<1>8. CASE MessageWaiting
  <2>1. owed' \in Seq(Commands) /\ UNCHANGED <<air, sentAs>>
    BY <1>1, <1>2, <1>8, QueueType DEF MessageWaiting
  <2>2. companion' \in [firmware : Firmware, inbox : 0..MaxInbox]
    BY <1>8, CompanionAssumption DEF MessageWaiting, OutsideType
  <2> QED
    BY <2>1, <2>2 DEF OutsideType
<1>9. CASE Telemetry
  BY <1>9 DEF Telemetry, OutsideType
<1>10. CASE AnswerContact
  <2>1. owed # <<>> /\ UNCHANGED <<air, companion, sentAs>>
    BY <1>10 DEF AnswerContact, Answered
  <2>2. owed' \in Seq(Commands)
    BY <1>1, <1>10, <2>1, HeadFacts, RefusalType DEF AnswerContact
  <2> QED
    BY <2>1, <2>2 DEF OutsideType
<1>11. CASE AnswerTelemetry
  <2>1. owed # <<>> /\ UNCHANGED companion
    BY <1>1, <1>11, AnswerTelemetryFacts
  <2>2. CASE \E error \in {"other", "unsupported"} : HandleError(error) /\ UNCHANGED <<air, sentAs>>
    BY <1>1, <2>1, <2>2, RefusalType DEF OutsideType
  <2>3. CASE \E tag \in Tags \cup {None}, path \in Paths :
                 /\ owed' = Tail(owed)
                 /\ air' = air \cup {[tag |-> tag, node |-> Head(owed).target]}
                 /\ sentAs' = [sentAs EXCEPT ![Head(owed).id] = @ \cup {path}]
    <3>1. PICK tag \in Tags \cup {None}, path \in Paths :
                 /\ owed' = Tail(owed)
                 /\ air' = air \cup {[tag |-> tag, node |-> Head(owed).target]}
                 /\ sentAs' = [sentAs EXCEPT ![Head(owed).id] = @ \cup {path}]
      BY <2>3
    <3>2. Head(owed).target \in Targets /\ Head(owed).id \in Ids
      BY <1>1, <1>11, AnswerTelemetryFacts
    <3>3. owed' \in Seq(Commands)
      BY <1>1, <2>1, <3>1, HeadFacts
    <3>4. air' \subseteq [tag : Tags \cup {None}, node : Targets]
      BY <3>1, <3>2 DEF OutsideType
    <3>5. sentAs' \in [Ids -> SUBSET (Paths \cup {"reset"})]
      BY <3>1, <3>2 DEF OutsideType
    <3> QED
      BY <2>1, <3>3, <3>4, <3>5 DEF OutsideType
  <2> QED
    BY <1>1, <1>11, <2>2, <2>3, AnswerTelemetryFacts
<1>12. CASE AnswerReset
  <2>1. owed # <<>> /\ UNCHANGED <<air, companion>> /\ Head(owed).kind = "reset"
    BY <1>12 DEF AnswerReset, Answered
  <2>2. owed' \in Seq(Commands)
    BY <1>1, <1>12, <2>1, HeadFacts, RefusalType DEF AnswerReset
  <2>3. Head(owed).id \in Ids
    BY <1>1, <2>1, HeadFacts, CommandFacts
  <2>4. sentAs' \in [Ids -> SUBSET (Paths \cup {"reset"})]
    BY <1>12, <2>3 DEF AnswerReset, OutsideType
  <2> QED
    BY <2>1, <2>2, <2>4 DEF OutsideType
<1>13. CASE AnswerList
  BY <1>1, <1>13, HeadFacts DEF AnswerList, Answered, OutsideType
<1>14. CASE AnswerSync
  <2>1. owed # <<>> /\ UNCHANGED <<air, sentAs>>
    BY <1>14 DEF AnswerSync, Answered
  <2>2. owed' \in Seq(Commands)
    BY <1>1, <1>2, <1>14, <2>1, QueueType, HeadFacts DEF AnswerSync
  <2>3. companion' \in [firmware : Firmware, inbox : 0..MaxInbox]
    BY <1>14, CompanionAssumption DEF AnswerSync, OutsideType
  <2> QED
    BY <2>1, <2>2, <2>3 DEF OutsideType
<1> QED
  BY <1>3, <1>4, <1>5, <1>6, <1>7, <1>8, <1>9, <1>10, <1>11, <1>12, <1>13, <1>14
  DEF Next, Answer

-----------------------------------------------------------------------------

LEMMA EarlyKept ==
  ASSUME ArbiterType, early \subseteq 1..issued, Next
  PROVE  early' \subseteq 1..issued'
<1>1. CASE Issue
  <2>1. issued \in Nat /\ issued' = issued + 1 /\ early' \subseteq early \cup {issued + 1}
    BY <1>1, CompanionAssumption DEF Issue, ArbiterType
  <2> QED
    BY <2>1
<1>2. CASE UNCHANGED asked
  BY <1>2 DEF asked
<1>3. Issue \/ UNCHANGED asked
  BY DEF Next, Answer, RequestTelemetry, ResetPath, CallerStep, QueryContact, SnapshotEnds,
     SendTelemetry, Return, Cancel, Timeout, Connect, Handshake, Lose, Detach, AnswerContact,
     AnswerTelemetry, AnswerReset, AnswerList, AnswerSync, MessageWaiting, Published, Telemetry,
     Forget
<1> QED
  BY <1>1, <1>2, <1>3

LEMMA InitArbitrated ==
  ASSUME Init
  PROVE  TypeCompanionOK /\ Arbitrated
<1>1. LoopType
  <2>1. degraded \in BOOLEAN
    BY DEF Init
  <2>2. sessions = 0 /\ fetches = 0 /\ link = "down" /\ session = "disconnected"
        /\ capability = "unknown" /\ listing = "no"
    BY DEF Init
  <2> QED
    BY <2>1, <2>2, CompanionAssumption DEF LoopType
<1>2. OutsideType
  <2>1. <<>> \in Seq(Commands)
    OBVIOUS
  <2>2. companion \in [firmware : Firmware, inbox : 0..MaxInbox]
    BY CompanionAssumption DEF Init
  <2> QED
    BY <2>1, <2>2 DEF Init, OutsideType
<1>3. ArbiterType
  BY CompanionAssumption DEF Init, ArbiterType, CallerRecords, Idle
<1>4. CallersShape /\ InFlight /\ NothingLeftBehind /\ NoForeignTimeout
  BY DEF Init, CallersShape, InFlight, NothingLeftBehind, NoForeignTimeout, Idle, Asking
<1> QED
  BY <1>1, <1>2, <1>3, <1>4, TypeParts DEF Arbitrated, Init

LEMMA ArbitratedInductive ==
  ASSUME TypeCompanionOK, Arbitrated, [Next]_vars
  PROVE  TypeCompanionOK' /\ Arbitrated'
<1>1. Arbitrated'
  BY NextArbitrated
<1>2. CASE Next
  <2>1. LoopType' /\ OutsideType'
    BY <1>2, TypeParts, LoopTypeKept, OutsideTypeKept
  <2>2. ArbiterType' /\ early' \subseteq 1..issued'
    BY <1>1, <1>2, TypeParts, EarlyKept DEF Arbitrated
  <2> QED
    BY <1>1, <2>1, <2>2 DEF TypeCompanionOK, LoopType, OutsideType, ArbiterType, CallerRecords
<1>3. CASE UNCHANGED vars
  BY <1>1, <1>3 DEF TypeCompanionOK, vars, consumer, arbiter, asked, outside
<1> QED
  BY <1>2, <1>3

(* The loop's state, the request and reset in flight, every caller's       *)
(* record, the queue of answers owed and what nodes may still send keep    *)
(* their types.                                                            *)
THEOREM CompanionTypeCorrect == Spec => []TypeCompanionOK
<1>1. Init => TypeCompanionOK /\ Arbitrated
  BY InitArbitrated
<1>2. (TypeCompanionOK /\ Arbitrated) /\ [Next]_vars => (TypeCompanionOK /\ Arbitrated)'
  BY ArbitratedInductive
<1> QED
  BY <1>1, <1>2, PTL DEF Spec

LEMMA AlwaysArbitrated == Spec => [](TypeCompanionOK /\ Arbitrated)
<1>1. Init => TypeCompanionOK /\ Arbitrated
  BY InitArbitrated
<1>2. (TypeCompanionOK /\ Arbitrated) /\ [Next]_vars => (TypeCompanionOK /\ Arbitrated)'
  BY ArbitratedInductive
<1> QED
  BY <1>1, <1>2, PTL DEF Spec

(* finishTelemetry, finishPathReset, Cancel and the end of the loop tell    *)
(* exactly the caller that waits: none waits for what is no longer in      *)
(* flight, and nothing is in flight that none waits for.                   *)
THEOREM NothingEverLeftBehind == Spec => []NothingLeftBehind
<1>1. Arbitrated => NothingLeftBehind
  BY DEF Arbitrated
<1> QED
  BY <1>1, AlwaysArbitrated, PTL

(* The timers of RequestTelemetry and ResetPath hand finishTelemetry and    *)
(* finishPathReset the pointer they were set for: none ends a later one.   *)
THEOREM TimeoutsOwn == Spec => []NoForeignTimeout
<1>1. Arbitrated => NoForeignTimeout
  BY DEF Arbitrated
<1> QED
  BY <1>1, AlwaysArbitrated, PTL

-----------------------------------------------------------------------------
(* An answer belongs to the command that is first in the queue.  A request *)
(* that began when the companion owed the callers nothing has the queue to *)
(* itself: no other command is asked of the companion while it is in       *)
(* flight.                                                                 *)

Pending == {owed[i] : i \in DOMAIN owed}

AsksFor(k) == k.kind \in {"binary", "legacy"}
OfRequest(k) == request # None /\ k.id = request.id /\ k.target = request.target

Own ==
  /\ request # None /\ request.id \notin early =>
       /\ \A k \in Pending : AsksFor(k) => OfRequest(k)
       /\ request.mode = "binary" /\ request.tag # None =>
            \A r \in air : r.tag = request.tag => r.node = request.target
       /\ request.route = "confirmed_direct" => "direct" \in sentAs[request.id]
  /\ reset # None /\ reset.id \notin early =>
       \A k \in Pending : k.kind = "reset" => k.id = reset.id

(* What a caller has been told is true of its own request.                 *)
ToldRight(c) ==
  callers[c].done # None /\ callers[c].id \notin early =>
    /\ callers[c].done.ok /\ callers[c].pc # "resetting" => callers[c].done.node = callers[c].target
    /\ callers[c].done.route = "confirmed_direct" => "direct" \in sentAs[callers[c].id]
    /\ callers[c].done.ok /\ callers[c].pc = "resetting" => "reset" \in sentAs[callers[c].id]

Known == TypeCompanionOK /\ Arbitrated
Attributed == Own /\ \A c \in Callers : ToldRight(c)

LEMMA KnownTypes ==
  ASSUME Known
  PROVE  /\ owed \in Seq(Commands) /\ issued \in 0..MaxRequests /\ issued \in Nat
         /\ MaxRequests \in Nat /\ early \subseteq 1..issued
         /\ callers \in [Callers -> CallerRecords]
         /\ air \subseteq [tag : Tags \cup {None}, node : Targets]
         /\ sentAs \in [Ids -> SUBSET (Paths \cup {"reset"})]
         /\ ArbiterType /\ CallersShape /\ InFlight
         /\ \A c \in Callers : callers[c].done # None => callers[c].id \in 1..issued /\ callers[c].id \in Ids
<1>1. /\ ArbiterType /\ CallersShape /\ InFlight /\ TypeCompanionOK /\ MaxRequests \in Nat
  BY CompanionAssumption DEF Known, Arbitrated
<1>2. issued \in 0..MaxRequests /\ issued \in Nat /\ callers \in [Callers -> CallerRecords]
  BY <1>1 DEF ArbiterType
<1>3. \A c \in Callers : callers[c].done # None => callers[c].id \in 1..issued /\ callers[c].id \in Ids
  BY <1>1, <1>2 DEF CallersShape, Ids
<1> QED
  BY <1>1, <1>2, <1>3 DEF TypeCompanionOK

-----------------------------------------------------------------------------
(* What a step does to the queue, and to what was told.                    *)

LEMMA PendingOf ==
  ASSUME owed \in Seq(Commands)
  PROVE  /\ Pending \subseteq Commands
         /\ owed' = owed => Pending' = Pending
         /\ owed' = <<>> => Pending' = {}
         /\ \A k \in Commands : owed' = <<k>> => Pending' = {k}
         /\ \A i, j, k \in Commands : owed' = <<i, j, k>> => Pending' = {i, j, k}
         /\ \A k \in Commands : owed' = Append(owed, k) => Pending' \subseteq Pending \cup {k}
         /\ owed # <<>> =>
              /\ Head(owed) \in Pending
              /\ owed' = Tail(owed) => Pending' \subseteq Pending
              /\ \A k \in Commands :
                   owed' = Append(Tail(owed), k) => Pending' \subseteq Pending \cup {k}
<1>1. DOMAIN owed = 1..Len(owed) /\ Len(owed) \in Nat /\ \A i \in 1..Len(owed) : owed[i] \in Commands
  OBVIOUS
<1>2. ASSUME NEW s \in Seq(Commands), NEW k \in Commands
      PROVE  {Append(s, k)[i] : i \in DOMAIN Append(s, k)} \subseteq {s[i] : i \in DOMAIN s} \cup {k}
  <2>1. /\ DOMAIN Append(s, k) = 1..(Len(s) + 1) /\ Append(s, k)[Len(s) + 1] = k
        /\ \A i \in 1..Len(s) : Append(s, k)[i] = s[i]
        /\ DOMAIN s = 1..Len(s) /\ Len(s) \in Nat
    OBVIOUS
  <2>2. \A i \in 1..(Len(s) + 1) : i = Len(s) + 1 \/ i \in 1..Len(s)
    BY <2>1
  <2> QED
    BY <2>1, <2>2
<1>3. ASSUME owed # <<>>
      PROVE  /\ Head(owed) \in Pending
             /\ Tail(owed) \in Seq(Commands)
             /\ {Tail(owed)[i] : i \in DOMAIN Tail(owed)} \subseteq Pending
  <2>1. /\ Tail(owed) \in Seq(Commands) /\ Len(owed) > 0 /\ Head(owed) = owed[1]
        /\ DOMAIN Tail(owed) = 1..(Len(owed) - 1)
        /\ \A i \in 1..(Len(owed) - 1) : Tail(owed)[i] = owed[i + 1]
    BY <1>1, <1>3
  <2> QED
    BY <1>1, <2>1 DEF Pending
<1>4. Pending \subseteq Commands
  BY <1>1 DEF Pending
<1>5. owed' = <<>> => Pending' = {}
  BY DEF Pending
<1>6. \A k \in Commands : owed' = <<k>> => Pending' = {k}
  BY DEF Pending
<1>7. \A i, j, k \in Commands : owed' = <<i, j, k>> => Pending' = {i, j, k}
  BY DEF Pending
<1>8. \A k \in Commands : owed' = Append(owed, k) => Pending' \subseteq Pending \cup {k}
  BY <1>2 DEF Pending
<1>9. ASSUME owed # <<>>, NEW k \in Commands, owed' = Append(Tail(owed), k)
      PROVE  Pending' \subseteq Pending \cup {k}
  <2>1. {Append(Tail(owed), k)[i] : i \in DOMAIN Append(Tail(owed), k)}
          \subseteq {Tail(owed)[i] : i \in DOMAIN Tail(owed)} \cup {k}
    BY <1>2, <1>3, <1>9
  <2> QED
    BY <1>3, <1>9, <2>1 DEF Pending
<1>10. owed # <<>> /\ owed' = Tail(owed) => Pending' \subseteq Pending
  BY <1>3 DEF Pending
<1>11. owed' = owed => Pending' = Pending
  BY DEF Pending
<1> QED
  BY <1>3, <1>4, <1>5, <1>6, <1>7, <1>8, <1>9, <1>10, <1>11

(* The companion has only done more.                                       *)
SentMore == \A i \in Ids : sentAs[i] \subseteq sentAs'[i]

(* Nobody's command is added, but the request's own.                       *)
QueueOwn ==
  \A k \in Pending' :
    \/ k \in Pending
    \/ k.kind \notin {"binary", "legacy", "reset"}
    \/ AsksFor(k) /\ OfRequest(k)'

(* The request goes on and has no other tag and no better route, or ends.  *)
NoNewer ==
  request' # None =>
    /\ request # None /\ request'.id = request.id /\ request'.target = request.target
    /\ request'.mode = "binary" /\ request'.tag # None =>
         request.mode = "binary" /\ request'.tag = request.tag
    /\ request'.route = "confirmed_direct" => request.route = "confirmed_direct"

LEMMA OwnKept ==
  ASSUME Known, Own, NoNewer, QueueOwn, SentMore,
         reset' \in {reset, None}, early' = early,
         request' # None /\ request'.id \notin early =>
           \A r \in air' : r \in air \/ r.node = request'.target
  PROVE  Own'
<1>1. ASSUME request' # None, request'.id \notin early'
      PROVE  /\ \A k \in Pending' : AsksFor(k) => OfRequest(k)'
             /\ request'.mode = "binary" /\ request'.tag # None =>
                  \A r \in air' : r.tag = request'.tag => r.node = request'.target
             /\ request'.route = "confirmed_direct" => "direct" \in sentAs'[request'.id]
  <2>1. /\ request # None /\ request'.id = request.id /\ request'.target = request.target
        /\ request.id \notin early /\ request.id \in Ids
    BY <1>1, CurrentFacts DEF NoNewer, Known
  <2>2. \A k \in Pending' : AsksFor(k) => OfRequest(k)'
    BY <1>1, <2>1 DEF Own, QueueOwn, OfRequest, AsksFor
  <2>3. request'.mode = "binary" /\ request'.tag # None =>
                  \A r \in air' : r.tag = request'.tag => r.node = request'.target
    BY <1>1, <2>1 DEF Own, NoNewer
  <2>4. request'.route = "confirmed_direct" => "direct" \in sentAs'[request'.id]
    BY <1>1, <2>1 DEF Own, NoNewer, SentMore
  <2> QED
    BY <2>2, <2>3, <2>4
<1>2. ASSUME reset' # None, reset'.id \notin early', NEW k \in Pending', k.kind = "reset"
      PROVE  k.id = reset'.id
  BY <1>2 DEF Own, QueueOwn, AsksFor
<1> QED
  BY <1>1, <1>2 DEF Own, AsksFor, OfRequest

(* A caller either keeps what it was told, or is told what is right.       *)
LEMMA ToldKept ==
  ASSUME Known, SentMore, NEW c \in Callers, ToldRight(c),
         early' \subseteq early \cup {issued + 1}, early \subseteq early',
         callers'[c].done # None =>
           /\ callers'[c].done = callers[c].done /\ callers'[c].id = callers[c].id
           /\ callers'[c].target = callers[c].target
           /\ callers'[c].pc = "resetting" <=> callers[c].pc = "resetting"
  PROVE  ToldRight(c)'
<1>1. SUFFICES ASSUME callers'[c].done # None, callers'[c].id \notin early'
               PROVE  ToldRight(c)'
  BY DEF ToldRight
<1>2. callers[c].done # None /\ callers[c].id \in Ids
  BY <1>1, KnownTypes
<1>3. sentAs[callers[c].id] \subseteq sentAs'[callers[c].id]
  BY <1>2 DEF SentMore
<1> QED
  BY <1>1, <1>2, <1>3 DEF ToldRight

LEMMA NobodyTold ==
  ASSUME Known, SentMore, early' = early, SameCallers, \A c \in Callers : ToldRight(c)
  PROVE  \A c \in Callers : ToldRight(c)'
<1>1. \A c \in Callers :
        callers'[c].done # None =>
           /\ callers'[c].done = callers[c].done /\ callers'[c].id = callers[c].id
           /\ callers'[c].target = callers[c].target
           /\ callers'[c].pc = "resetting" <=> callers[c].pc = "resetting"
  BY DEF SameCallers, Asking
<1> QED
  BY <1>1, ToldKept

LEMMA CallersStay ==
  ASSUME Known, callers' = callers
  PROVE  SameCallers
BY DEF SameCallers, Known, Arbitrated, ArbiterType, CallersShape

(* One caller leaves, and is told nothing.                                 *)
LEMMA LeaverTold ==
  ASSUME Known, SentMore, early' \subseteq early \cup {issued + 1}, early \subseteq early',
         \A c \in Callers : ToldRight(c),
         NEW c \in Callers, NEW r, r.done = None, callers' = [callers EXCEPT ![c] = r]
  PROVE  \A d \in Callers : ToldRight(d)'
<1>1. /\ callers'[c].done = None
      /\ \A d \in Callers : d # c => callers'[d] = callers[d]
  BY KnownTypes
<1>2. \A d \in Callers : callers'[d].done # None => callers'[d] = callers[d]
  BY <1>1
<1> QED
  BY <1>2, ToldKept

(* One caller is told the end of its request or reset.                     *)
LEMMA OneTold ==
  ASSUME Known, SentMore, early' = early, \A c \in Callers : ToldRight(c),
         NEW c \in Callers, NEW o \in Outcomes, callers' = Resolved(c, o),
         callers[c].id \notin early =>
           /\ o.ok /\ callers[c].pc # "resetting" => o.node = callers[c].target
           /\ o.route = "confirmed_direct" => "direct" \in sentAs'[callers[c].id]
           /\ o.ok /\ callers[c].pc = "resetting" => "reset" \in sentAs'[callers[c].id]
  PROVE  \A d \in Callers : ToldRight(d)'
<1>1. /\ callers'[c].done = o
      /\ \A d \in Callers :
           /\ callers'[d].pc = callers[d].pc /\ callers'[d].id = callers[d].id
           /\ callers'[d].target = callers[d].target
           /\ d # c => callers'[d] = callers[d]
  BY ResolvedFacts DEF Known
<1>2. ToldRight(c)'
  BY <1>1 DEF ToldRight
<1>3. \A d \in Callers : d # c => ToldRight(d)'
  BY <1>1, ToldKept
<1> QED
  BY <1>2, <1>3

(* The end of a request that says nothing but what is known of its route.  *)
LEMMA FinishAttributed ==
  ASSUME Known, Attributed, NEW id, NEW o \in Outcomes, FinishTelemetry(id, o),
         IsCurrent(id) /\ request.id \notin early /\ o.ok => o.node = request.target,
         SentMore, UNCHANGED <<reset, early>>, QueueOwn, air' \subseteq air
  PROVE  Attributed'
<1>1. CASE ~IsCurrent(id)
  <2>1. UNCHANGED <<request, callers>>
    BY <1>1 DEF FinishTelemetry, Retire
  <2>2. SameCallers /\ NoNewer
    BY <2>1, CallersStay DEF NoNewer
  <2> QED
    BY <2>2, OwnKept, NobodyTold DEF Attributed
<1>2. CASE IsCurrent(id)
  <2> DEFINE e == [o EXCEPT !.route = request.route]
             c == request.by
  <2>1. /\ request # None /\ id = request.id /\ request' = None /\ callers' = Resolved(c, e)
    BY <1>2 DEF IsCurrent, FinishTelemetry, Retire
  <2>2. /\ c \in Callers /\ callers[c].id = request.id /\ callers[c].pc \in Asking
        /\ request \in Requests /\ request.id \in Ids /\ callers[c].target = request.target
    BY <2>1, CurrentFacts, KnownTypes DEF Known, InFlight
  <2>3. e \in Outcomes /\ e.ok = o.ok /\ e.node = o.node /\ e.route = request.route
    BY <2>2 DEF Outcomes, Requests
  <2>4. request.id \notin early /\ request.route = "confirmed_direct" => "direct" \in sentAs'[request.id]
    BY <2>1, <2>2 DEF Attributed, Own, SentMore
  <2>5. Own'
    BY <2>1, OwnKept DEF NoNewer, Attributed
  <2> HIDE DEF e, c
  <2> QED
    BY <1>2, <2>1, <2>2, <2>3, <2>4, <2>5, OneTold DEF Attributed, Asking
<1> QED
  BY <1>1, <1>2


LEMMA ResetEndAttributed ==
  ASSUME Known, Attributed, reset # None, NEW o \in Outcomes, FinishPathReset(reset.id, o),
         reset.id \notin early /\ o.ok => "reset" \in sentAs'[reset.id],
         o.route # "confirmed_direct",
         SentMore, UNCHANGED <<request, early>>, QueueOwn, air' = air
  PROVE  Attributed'
<1>1. reset' = None /\ callers' = Resolved(reset.by, o)
  BY DEF FinishPathReset
<1>2. /\ reset.by \in Callers /\ callers[reset.by].id = reset.id
      /\ callers[reset.by].pc = "resetting" /\ request = None
  BY ResetFacts DEF Known
<1>3. Own'
  BY <1>1, <1>2, OwnKept DEF NoNewer, Attributed
<1> QED
  BY <1>1, <1>2, <1>3, OneTold DEF Attributed

(* A step that tells nobody anything and goes on within the requests.      *)
LEMMA QuietAttributed ==
  ASSUME Known, Attributed, NoNewer, SameCallers, UNCHANGED early, reset' \in {reset, None},
         SentMore, QueueOwn, air' \subseteq air
  PROVE  Attributed'
BY OwnKept, NobodyTold DEF Attributed

LEMMA NothingSent ==
  ASSUME sentAs' = sentAs
  PROVE  SentMore
BY DEF SentMore

LEMMA QueueStays ==
  ASSUME Known, owed' = owed \/ (owed # <<>> /\ owed' = Tail(owed)) \/ owed' = <<>>
  PROVE  QueueOwn
BY PendingOf, KnownTypes DEF QueueOwn

LEMMA FailureFacts ==
  /\ \A e \in {"disconnected", "firmware", "invalid", "mismatched", None} :
       /\ Failure(e) \in Outcomes /\ ~Failure(e).ok /\ Failure(e).route = "unknown"
       /\ [Failure(e) EXCEPT !.ok = TRUE] \in Outcomes
       /\ [Failure(e) EXCEPT !.ok = TRUE].route = "unknown"
  /\ \A n \in Targets : Success(n) \in Outcomes /\ Success(n).node = n
  /\ \A id \in Ids : /\ TimedOut(id) \in Outcomes /\ ~TimedOut(id).ok
                     /\ TimedOut(id).route = "unknown"
<1>1. \A e \in {"disconnected", "firmware", "invalid", "mismatched", "timeout", None} :
        ~Failure(e).ok /\ Failure(e).route = "unknown"
        /\ [Failure(e) EXCEPT !.ok = TRUE].route = "unknown"
  BY DEF Failure
<1>2. \A id \in Ids : ~TimedOut(id).ok /\ TimedOut(id).route = "unknown"
  BY DEF TimedOut, Failure
<1> QED
  BY <1>1, <1>2, FailureType

-----------------------------------------------------------------------------
(* The callers' steps.                                                     *)

LEMMA RequestTelemetryAttributed ==
  ASSUME Known, Attributed, NEW c \in Callers, NEW t \in Targets, RequestTelemetry(c, t)
  PROVE  Attributed'
<1>1. /\ callers[c].pc = "idle" /\ request = None /\ reset = None /\ reset' = None
      /\ issued < MaxRequests /\ issued' = issued + 1 /\ owed' = owed /\ sentAs' = sentAs
      /\ callers' = [callers EXCEPT ![c] = [Idle EXCEPT !.pc = "query", !.id = issued + 1, !.target = t]]
      /\ early \subseteq early' /\ early' \subseteq early \cup {issued + 1}
      /\ Unanswered => issued + 1 \in early'
  BY DEF RequestTelemetry, Issue, At, outside, consumer
<1>2. /\ request'.id = issued + 1 /\ request'.tag = None /\ request'.route = "unknown"
  BY <1>1 DEF RequestTelemetry
<1>3. issued + 1 \notin early' => \A k \in Pending' : ~AsksFor(k)
  <2>1. Pending' = Pending
    BY <1>1, PendingOf, KnownTypes
  <2> QED
    BY <1>1, <2>1 DEF Unanswered, Pending, AsksFor
<1>4. Own'
  BY <1>1, <1>2, <1>3 DEF Own
<1>5. [Idle EXCEPT !.pc = "query", !.id = issued + 1, !.target = t].done = None
  BY DEF Idle
<1> QED
  BY <1>1, <1>4, <1>5, LeaverTold, NothingSent DEF Attributed

LEMMA WriteOwn ==
  ASSUME Known, NEW k \in Commands, WriteFails(k),
         k.kind \notin {"binary", "legacy", "reset"} \/ (AsksFor(k) /\ OfRequest(k)')
  PROVE  QueueOwn
<1>1. Pending' \subseteq Pending \cup {k}
  BY PendingOf, KnownTypes DEF WriteFails, Write
<1> QED
  BY <1>1 DEF QueueOwn

LEMMA QueryContactAttributed ==
  ASSUME Known, Attributed, NEW c \in Callers, QueryContact(c)
  PROVE  Attributed'
<1>1. SameRequest /\ SameCallers
  BY QueryContactArbitrated DEF Known
<1>2. /\ UNCHANGED <<reset, early, air, sentAs>>
      /\ request' \in {request, [request EXCEPT !.awaiting = TRUE]}
      /\ request' # request => request # None
  BY DEF QueryContact, IsCurrent, asked
<1>3. NoNewer
  BY <1>1, <1>2, CurrentFacts DEF NoNewer, Known, Requests
<1>4. QueueOwn
  <2>1. callers[c].target \in Targets
    BY DEF QueryContact, At, Known, Arbitrated, CallersShape
  <2>2. [kind |-> "contact", target |-> callers[c].target, id |-> None] \in Commands
    BY <2>1 DEF Commands
  <2>3. owed' = owed \/ WriteFails([kind |-> "contact", target |-> callers[c].target, id |-> None])
    BY DEF QueryContact, WriteFails
  <2> QED
    BY <2>2, <2>3, QueueStays, WriteOwn
<1> QED
  BY <1>1, <1>2, <1>3, <1>4, QuietAttributed, NothingSent

LEMMA SnapshotEndsAttributed ==
  ASSUME Known, Attributed, NEW c \in Callers, SnapshotEnds(c)
  PROVE  Attributed'
<1>1. SameRequest /\ SameCallers
  BY SnapshotEndsArbitrated DEF Known
<1>2. /\ UNCHANGED <<reset, early, air, sentAs, owed>>
      /\ request' \in {request, [request EXCEPT !.route = callers[c].snapshot],
                       [request EXCEPT !.awaiting = FALSE]}
      /\ request' # request => request # None
  BY DEF SnapshotEnds, IsCurrent, asked, outside
<1>3. callers[c].snapshot # "confirmed_direct"
  <2>1. callers[c].snapshot \in Paths \cup {"unknown", None}
    BY KnownTypes DEF CallerRecords
  <2> QED
    BY <2>1, NoneAssumption DEF Paths, RouteNames
<1>4. NoNewer
  BY <1>1, <1>2, <1>3, CurrentFacts DEF NoNewer, Known, Requests
<1> QED
  BY <1>1, <1>2, <1>4, QuietAttributed, NothingSent, QueueStays

LEMMA RetireAttributed ==
  ASSUME Known, Attributed, NEW c \in Callers, NEW id, Retire(id),
         callers' = [callers EXCEPT ![c] = Idle],
         UNCHANGED <<reset, early, air, sentAs>>,
         \A k \in Pending' : k \in Pending \/ k.kind \notin {"binary", "legacy", "reset"}
                               \/ (AsksFor(k) /\ request' = None)
  PROVE  Attributed'
<1>1. request' \in {request, None}
  BY DEF Retire
<1>2. \A d \in Callers : ToldRight(d)'
  BY LeaverTold, NothingSent DEF Attributed, Idle
<1>3. CASE request' = None
  BY <1>2, <1>3 DEF Attributed, Own, AsksFor
<1>4. CASE request' # None
  <2>1. QueueOwn /\ NoNewer
    BY <1>1, <1>4 DEF QueueOwn, NoNewer
  <2> QED
    BY <1>2, <2>1, OwnKept, NothingSent DEF Attributed
<1> QED
  BY <1>3, <1>4

LEMMA SendTelemetryAttributed ==
  ASSUME Known, Attributed, NEW c \in Callers, SendTelemetry(c)
  PROVE  Attributed'
<1> DEFINE k == [kind |-> request.mode, target |-> callers[c].target, id |-> callers[c].id]
<1>1. UNCHANGED <<reset, early, air, sentAs>>
  BY DEF SendTelemetry, asked
<1>2. callers[c].target \in Targets /\ callers[c].id \in Ids
  <2>1. callers[c].target \in Targets /\ callers[c].id \in 1..issued
    BY KnownTypes DEF SendTelemetry, At, CallersShape
  <2> QED
    BY <2>1, KnownTypes DEF Ids
<1>3. ASSUME IsCurrent(callers[c].id)
      PROVE  /\ k \in Commands /\ AsksFor(k) /\ k.id = request.id /\ k.target = request.target
             /\ request # None
  <2>1. /\ request # None /\ request.id = callers[c].id /\ request.by = c
        /\ request.mode \in {"binary", "legacy"} /\ request.target = callers[c].target
    BY <1>3, CurrentFacts, KnownTypes DEF IsCurrent, Known, Requests, InFlight
  <2> QED
    BY <1>2, <2>1 DEF Commands, AsksFor
<1> HIDE DEF k
<1>4. CASE UNCHANGED <<request, expired>> /\ SameCallers
  <2>1. owed' = owed \/ (IsCurrent(callers[c].id) /\ WriteFails(k))
        \/ (Retire(callers[c].id) /\ IsCurrent(callers[c].id))
    BY DEF SendTelemetry, WriteFails, k
  <2>2. ~(Retire(callers[c].id) /\ IsCurrent(callers[c].id))
    BY <1>4 DEF Retire, IsCurrent
  <2>3. QueueOwn
    BY <1>3, <1>4, <2>1, <2>2, WriteOwn, QueueStays DEF OfRequest, AsksFor
  <2>4. NoNewer
    BY <1>4 DEF NoNewer
  <2> QED
    BY <1>1, <1>4, <2>3, <2>4, QuietAttributed, NothingSent
<1>5. CASE callers' = [callers EXCEPT ![c] = Idle]
  <2>1. callers'[c].pc = "idle"
    BY <1>5, KnownTypes DEF Idle
  <2>2. callers' # [callers EXCEPT ![c].pc = "waiting"]
    <3>1. [callers EXCEPT ![c].pc = "waiting"][c].pc = "waiting"
      BY KnownTypes DEF CallerRecords
    <3> QED
      BY <2>1, <3>1
  <2>3. IsCurrent(callers[c].id) /\ WriteFails(k) /\ Retire(callers[c].id)
    BY <2>2 DEF SendTelemetry, k
  <2>4. request' = None
    BY <2>3 DEF Retire
  <2>5. Pending' \subseteq Pending \cup {k}
    BY <1>3, <2>3, PendingOf, KnownTypes DEF WriteFails, Write
  <2> QED
    BY <1>1, <1>3, <1>5, <2>3, <2>4, <2>5, RetireAttributed
<1> QED
  BY <1>4, <1>5, SendTelemetryArbitrated DEF Known

LEMMA ResetPathAttributed ==
  ASSUME Known, Attributed, NEW c \in Callers, NEW t \in Targets, ResetPath(c, t)
  PROVE  Attributed'
<1> DEFINE k == [kind |-> "reset", target |-> t, id |-> issued + 1]
<1>1. /\ request = None /\ request' = None /\ reset = None /\ UNCHANGED <<air, sentAs>>
      /\ early \subseteq early' /\ early' \subseteq early \cup {issued + 1}
      /\ Unanswered => issued + 1 \in early'
      /\ WriteFails(k)
      /\ issued < MaxRequests
  BY DEF ResetPath, Issue, WriteFails
<1>2. k \in Commands /\ k.id = issued + 1
  BY <1>1, KnownTypes DEF Commands, Ids
<1>3. Pending' \subseteq Pending \cup {k}
  BY <1>1, <1>2, PendingOf, KnownTypes DEF WriteFails, Write
<1> HIDE DEF k
<1>4. reset' # None => reset'.id = issued + 1
  BY <1>1 DEF ResetPath
<1>5. issued + 1 \notin early' => \A j \in Pending : j.kind # "reset"
  BY <1>1 DEF Unanswered, Pending
<1>6. Own'
  BY <1>1, <1>2, <1>3, <1>4, <1>5 DEF Own
<1>7. PICK r : r.done = None /\ callers' = [callers EXCEPT ![c] = r]
  BY DEF ResetPath, Idle
<1> QED
  BY <1>1, <1>6, <1>7, LeaverTold, NothingSent DEF Attributed

LEMMA ReturnAttributed ==
  ASSUME Known, Attributed, NEW c \in Callers, Return(c)
  PROVE  Attributed'
<1>1. UNCHANGED <<request, reset, early, owed, air, sentAs>>
  BY DEF Return, arbiter, asked, outside
<1>2. PICK r : r.done = None /\ callers' = [callers EXCEPT ![c] = r]
  <2> DEFINE named == [Idle EXCEPT !.target = callers[c].target]
  <2>1. named.done = None /\ Idle.done = None
    BY DEF Idle
  <2>2. callers' \in {[callers EXCEPT ![c] = named], [callers EXCEPT ![c] = Idle]}
    BY DEF Return
  <2> HIDE DEF named
  <2> QED
    BY <2>1, <2>2
<1>3. NoNewer
  BY <1>1 DEF NoNewer
<1> QED
  BY <1>1, <1>2, <1>3, OwnKept, LeaverTold, NothingSent, QueueStays DEF Attributed

LEMMA CancelAttributed ==
  ASSUME Known, Attributed, NEW c \in Callers, Cancel(c)
  PROVE  Attributed'
<1>1. /\ UNCHANGED <<reset, early, owed, air, sentAs>>
      /\ Retire(callers[c].id) /\ callers' = [callers EXCEPT ![c] = Idle]
  BY DEF Cancel, asked, outside
<1>2. Pending' = Pending
  BY <1>1, PendingOf, KnownTypes
<1> QED
  BY <1>1, <1>2, RetireAttributed

LEMMA TimeoutAttributed ==
  ASSUME Known, Attributed, NEW id \in Ids, Timeout(id)
  PROVE  Attributed'
<1>1. UNCHANGED <<early, owed, air, sentAs>>
  BY DEF Timeout, asked, outside
<1>2. TimedOut(id) \in Outcomes /\ ~TimedOut(id).ok /\ TimedOut(id).route = "unknown"
  BY FailureFacts
<1>3. CASE IsCurrent(id)
  BY <1>1, <1>2, <1>3, FinishAttributed, NothingSent, QueueStays DEF Timeout
<1>4. CASE ~IsCurrent(id)
  BY <1>1, <1>2, <1>4, ResetEndAttributed, NothingSent, QueueStays DEF Timeout
<1> QED
  BY <1>3, <1>4


-----------------------------------------------------------------------------
(* The loop's steps.                                                       *)

LEMMA SessionAttributed ==
  ASSUME Known, Attributed,
         Connect \/ Handshake \/ Detach \/ MessageWaiting \/ Published \/ (\E tag \in Tags : Forget(tag))
  PROVE  Attributed'
<1>1. UNCHANGED <<request, reset, callers, early, air, sentAs>>
  BY DEF Connect, Handshake, Detach, MessageWaiting, Published, Forget, asked, arbiter, outside
<1>2. /\ [kind |-> "device"] \in Commands /\ [kind |-> "self"] \in Commands
      /\ [kind |-> "start"] \in Commands /\ [kind |-> "end"] \in Commands
      /\ [kind |-> "sync"] \in Commands
      /\ \A t \in Targets : [kind |-> "listed", target |-> t] \in Commands
  BY DEF Commands
<1>3. QueueOwn
  <2>1. CASE owed' = owed \/ owed' = <<>>
    BY <2>1, QueueStays
  <2>2. CASE owed' = Append(owed, [kind |-> "sync"])
    <3>1. Pending' \subseteq Pending \cup {[kind |-> "sync"]}
      BY <1>2, <2>2, PendingOf, KnownTypes
    <3> QED
      BY <3>1 DEF QueueOwn
  <2>3. CASE owed' \in {<<[kind |-> "device"]>>, <<[kind |-> "self"]>>}
    <3>1. Pending' \subseteq {[kind |-> "device"], [kind |-> "self"]}
      BY <1>2, <2>3, PendingOf, KnownTypes
    <3> QED
      BY <3>1 DEF QueueOwn
  <2>4. CASE \E t \in Targets :
              owed' = <<[kind |-> "start"], [kind |-> "listed", target |-> t], [kind |-> "end"]>>
    <3>1. PICK t \in Targets :
              owed' = <<[kind |-> "start"], [kind |-> "listed", target |-> t], [kind |-> "end"]>>
      BY <2>4
    <3>2. Pending' = {[kind |-> "start"], [kind |-> "listed", target |-> t], [kind |-> "end"]}
      BY <1>2, <3>1, PendingOf, KnownTypes
    <3> QED
      BY <3>2 DEF QueueOwn
  <2>5. \/ owed' = owed \/ owed' = <<>> \/ owed' = Append(owed, [kind |-> "sync"])
        \/ owed' \in {<<[kind |-> "device"]>>, <<[kind |-> "self"]>>}
        \/ \E t \in Targets :
              owed' = <<[kind |-> "start"], [kind |-> "listed", target |-> t], [kind |-> "end"]>>
    BY DEF Connect, Handshake, Detach, MessageWaiting, Published, Forget, outside
  <2> QED
    BY <2>1, <2>2, <2>3, <2>4, <2>5
<1>4. NoNewer /\ SameCallers
  BY <1>1, CallersStay DEF NoNewer
<1> QED
  BY <1>1, <1>3, <1>4, QuietAttributed, NothingSent

LEMMA LoseAttributed ==
  ASSUME Known, Attributed, Lose
  PROVE  Attributed'
<1>1. UNCHANGED <<early, air, sentAs>> /\ owed' = <<>>
  BY DEF Lose, asked
<1>2. QueueOwn /\ SentMore
  BY <1>1, QueueStays, NothingSent
<1>3. LET o == Failure("disconnected") IN o \in Outcomes /\ ~o.ok /\ o.route = "unknown"
  BY FailureFacts
<1>4. CASE reset # None
  BY <1>1, <1>2, <1>3, <1>4, ResetEndAttributed DEF Lose
<1>5. CASE reset = None /\ request # None
  BY <1>1, <1>2, <1>3, <1>5, FinishAttributed DEF Lose
<1>6. CASE reset = None /\ request = None
  <2>1. UNCHANGED <<request, reset, callers>>
    BY <1>6 DEF Lose
  <2>2. NoNewer /\ SameCallers
    BY <2>1, CallersStay DEF NoNewer
  <2> QED
    BY <1>1, <1>2, <2>1, <2>2, QuietAttributed
<1> QED
  BY <1>4, <1>5, <1>6

(* The node's own telemetry: a tagged one is taken under the tag that the  *)
(* companion gave to this request, the other when it names its node.       *)
LEMMA TelemetryAttributed ==
  ASSUME Known, Attributed, Telemetry
  PROVE  Attributed'
<1>1. /\ UNCHANGED <<reset, early, owed, sentAs>> /\ air' \subseteq air
  BY DEF Telemetry, asked
<1>2. QueueOwn /\ SentMore
  BY <1>1, QueueStays, NothingSent
<1>3. CASE UNCHANGED <<request, callers>>
  <2>1. NoNewer /\ SameCallers
    BY <1>3, CallersStay DEF NoNewer
  <2> QED
    BY <1>1, <1>2, <2>1, QuietAttributed
<1>4. CASE \E e \in {"invalid", "mismatched"} : FinishTelemetry(request.id, Failure(e))
  BY <1>1, <1>2, <1>4, FailureFacts, FinishAttributed
<1>5. CASE \E r \in air : /\ request # None /\ FinishTelemetry(request.id, Success(r.node))
                          /\ \/ Matches(r)
                             \/ r.node = request.target
  <2>1. PICK r \in air : /\ request # None /\ FinishTelemetry(request.id, Success(r.node))
                         /\ \/ Matches(r)
                            \/ r.node = request.target
    BY <1>5
  <2>2. request.id \notin early => r.node = request.target
    BY <2>1 DEF Matches, Attributed, Own
  <2>3. r.node \in Targets
    BY <2>1, KnownTypes
  <2>4. Success(r.node) \in Outcomes /\ Success(r.node).node = r.node
    BY <2>3, FailureFacts
  <2> QED
    BY <1>1, <1>2, <2>1, <2>2, <2>4, FinishAttributed
<1>6. PICK r \in air, valid \in BOOLEAN :
        \/ UNCHANGED <<request, expired, callers>>
        \/ /\ request # None /\ Matches(r)
           /\ FinishTelemetry(request.id, IF valid THEN Success(r.node) ELSE Failure("invalid"))
        \/ /\ request # None
           /\ FinishTelemetry(request.id, IF ~valid THEN Failure("invalid")
                                          ELSE IF r.node = request.target THEN Success(r.node)
                                          ELSE Failure("mismatched"))
  BY DEF Telemetry
<1>7. CASE UNCHANGED <<request, expired, callers>>
  BY <1>3, <1>7
<1>8. CASE /\ request # None /\ Matches(r)
           /\ FinishTelemetry(request.id, IF valid THEN Success(r.node) ELSE Failure("invalid"))
  BY <1>4, <1>5, <1>8
<1>9. CASE /\ request # None
           /\ FinishTelemetry(request.id, IF ~valid THEN Failure("invalid")
                                          ELSE IF r.node = request.target THEN Success(r.node)
                                          ELSE Failure("mismatched"))
  BY <1>4, <1>5, <1>9
<1> QED
  BY <1>6, <1>7, <1>8, <1>9

-----------------------------------------------------------------------------
(* The companion's answers.                                                *)

LEMMA NoSnapshotAttributed ==
  ASSUME Known, Attributed, Awaiting, NoSnapshot, UNCHANGED asked,
         SentMore, QueueOwn,
         request.id \notin early => \A r \in air' : r \in air \/ r.node = request.target
  PROVE  Attributed'
<1>1. SameCallers /\ request # None
  BY NoSnapshotArbitrated DEF Known, asked, Awaiting
<1>2. UNCHANGED <<early, reset>> /\ request' = [request EXCEPT !.awaiting = FALSE]
  BY DEF NoSnapshot, asked
<1>3. NoNewer /\ request'.target = request.target /\ request'.id = request.id
  BY <1>1, <1>2, CurrentFacts DEF NoNewer, Known, Requests
<1> QED
  BY <1>1, <1>2, <1>3, OwnKept, NobodyTold DEF Attributed

LEMMA FallBackAttributed ==
  ASSUME Known, Attributed, request # None, ~Awaiting, FallBack, UNCHANGED asked, owed # <<>>,
         UNCHANGED <<air, sentAs>>
  PROVE  Attributed'
<1>1. PICK old \in Commands :
        /\ AsksFor(old) /\ old.id = request.id /\ old.target = request.target
        /\ old = [kind |-> "legacy", target |-> request.target, id |-> request.id]
  <2>1. [kind |-> "legacy", target |-> request.target, id |-> request.id] \in Commands
    BY CurrentFacts DEF Commands, Known
  <2> QED
    BY <2>1 DEF AsksFor
<1>2. Pending' \subseteq Pending \cup {old}
  BY <1>1, PendingOf, KnownTypes DEF FallBack
<1>3. UNCHANGED <<reset, early>>
  BY DEF FallBack, asked
<1>4. CASE request' = [request EXCEPT !.mode = "legacy", !.tag = None] /\ UNCHANGED callers
  <2>1. /\ request'.mode = "legacy" /\ request'.id = request.id /\ request'.target = request.target
        /\ request'.route = request.route
    BY <1>4, CurrentFacts DEF Known, Requests
  <2>5. request' # None
    <3>1. [request EXCEPT !.mode = "legacy", !.tag = None] \in Requests
      BY CurrentFacts DEF Known, Requests
    <3> QED
      BY <1>4, <3>1, NoneAssumption
  <2>3. OfRequest(old)'
    BY <1>1, <2>1, <2>5 DEF OfRequest
  <2>4. NoNewer /\ SameCallers
    BY <1>4, <2>1, CallersStay DEF NoNewer
  <2>2. QueueOwn
    BY <1>1, <1>2, <2>3 DEF QueueOwn
  <2> QED
    BY <1>3, <2>2, <2>4, QuietAttributed, NothingSent
<1>5. CASE /\ request' = None
           /\ callers' = Resolved(request.by, [Failure("disconnected") EXCEPT !.route = request.route])
  <2> DEFINE o == [Failure("disconnected") EXCEPT !.route = request.route]
             c == request.by
  <2>1. /\ request.route \in RouteNames /\ c \in Callers /\ callers[c].id = request.id
        /\ request.id \in Ids
    BY CurrentFacts DEF Known, Requests
  <2>2. o \in Outcomes /\ ~o.ok /\ o.route = request.route
    BY <2>1, FailureOfRoute
  <2>3. request.id \notin early /\ request.route = "confirmed_direct" => "direct" \in sentAs'[request.id]
    BY DEF Attributed, Own
  <2> HIDE DEF o, c
  <2>4. \A d \in Callers : ToldRight(d)'
    BY <1>3, <1>5, <2>1, <2>2, <2>3, OneTold, NothingSent DEF Attributed, o, c
  <2>5. Own'
    BY <1>1, <1>2, <1>3, <1>5 DEF Attributed, Own, AsksFor
  <2> QED
    BY <2>4, <2>5 DEF Attributed
<1> QED
  BY <1>4, <1>5 DEF FallBack

LEMMA RefusalAttributed ==
  ASSUME Known, Attributed, NEW error, HandleError(error), owed # <<>>, UNCHANGED asked,
         UNCHANGED <<air, sentAs>>
  PROVE  Attributed'
<1>1. SentMore /\ UNCHANGED early
  BY NothingSent DEF asked
<1>2. owed' = Tail(owed) => QueueOwn
  BY QueueStays
<1>3. LET o == Failure("firmware") IN o \in Outcomes /\ ~o.ok /\ o.route = "unknown"
  BY FailureFacts
<1>4. CASE reset # None
  BY <1>1, <1>2, <1>3, <1>4, ResetEndAttributed DEF HandleError
<1>5. CASE reset = None /\ Awaiting
  BY <1>1, <1>2, <1>5, NoSnapshotAttributed DEF HandleError
<1>6. CASE reset = None /\ ~Awaiting /\ request # None /\ request.mode = "binary" /\ error = "unsupported"
  BY <1>6, FallBackAttributed DEF HandleError
<1>7. CASE reset = None /\ ~Awaiting /\ request # None /\ ~(request.mode = "binary" /\ error = "unsupported")
  BY <1>1, <1>2, <1>3, <1>7, FinishAttributed DEF HandleError
<1>8. CASE reset = None /\ request = None
  <2>1. UNCHANGED <<request, reset, callers>> /\ owed' = Tail(owed)
    BY <1>8 DEF HandleError, Awaiting
  <2>2. NoNewer /\ SameCallers
    BY <2>1, CallersStay DEF NoNewer
  <2> QED
    BY <1>1, <1>2, <2>1, <2>2, QuietAttributed
<1> QED
  BY <1>4, <1>5, <1>6, <1>7, <1>8

LEMMA ContactAttributed ==
  ASSUME Known, Attributed, NEW target, NEW route \in Paths, HandleContact(target, route),
         owed # <<>>, owed' = Tail(owed), UNCHANGED asked, UNCHANGED <<air, sentAs>>
  PROVE  Attributed'
<1>1. SameCallers
  BY HandleContactArbitrated DEF Known, asked
<1>2. UNCHANGED <<early, reset>>
      /\ (request' = request \/ (request # None /\ request' = [request EXCEPT !.awaiting = FALSE]))
  BY DEF HandleContact, Awaiting, asked
<1>3. NoNewer
  BY <1>2, CurrentFacts DEF NoNewer, Known, Requests
<1> QED
  BY <1>1, <1>2, <1>3, QuietAttributed, NothingSent, QueueStays

LEMMA AnswerContactAttributed ==
  ASSUME Known, Attributed, AnswerContact
  PROVE  Attributed'
<1>1. owed # <<>> /\ UNCHANGED asked /\ UNCHANGED <<air, sentAs>>
  BY DEF AnswerContact, Answered
<1> QED
  BY <1>1, ContactAttributed, RefusalAttributed DEF AnswerContact

LEMMA AnswerListAttributed ==
  ASSUME Known, Attributed, AnswerList
  PROVE  Attributed'
<1>1. owed # <<>> /\ owed' = Tail(owed) /\ UNCHANGED asked /\ UNCHANGED <<air, sentAs>>
  BY DEF AnswerList, Answered
<1>2. CASE \E path \in Paths : HandleContact(Head(owed).target, path)
  BY <1>1, <1>2, ContactAttributed
<1>3. CASE IF Awaiting THEN NoSnapshot ELSE UNCHANGED <<arbiter, callers>>
  <2>1. CASE Awaiting
    BY <1>1, <1>3, <2>1, NoSnapshotAttributed, NothingSent, QueueStays
  <2>2. CASE ~Awaiting
    <3>1. UNCHANGED <<request, reset, callers, early>>
      BY <1>1, <1>3, <2>2 DEF arbiter, asked
    <3>2. NoNewer /\ SameCallers
      BY <3>1, CallersStay DEF NoNewer
    <3> QED
      BY <1>1, <3>1, <3>2, QuietAttributed, NothingSent, QueueStays
  <2> QED
    BY <2>1, <2>2
<1> QED
  BY <1>2, <1>3 DEF AnswerList


(* The answer to a request's own command brings its own tag and its route. *)
LEMMA HandleSentAttributed ==
  ASSUME Known, Attributed, NEW k \in Pending, AsksFor(k),
         NEW tag \in Tags \cup {None}, NEW path \in Paths, HandleSent(tag, path),
         tag # None => ((\E r \in air : r.tag = tag) => tag \in expired),
         owed # <<>>, owed' = Tail(owed), air' = air \cup {[tag |-> tag, node |-> k.target]},
         sentAs' = [sentAs EXCEPT ![k.id] = @ \cup {path}], UNCHANGED asked
  PROVE  Attributed'
<1>1. k.id \in Ids /\ k \in Commands
  BY PendingOf, KnownTypes, CommandFacts DEF AsksFor
<1>2. SentMore /\ path \in sentAs'[k.id] /\ UNCHANGED <<early, issued>>
  BY <1>1, KnownTypes DEF SentMore, asked
<1>3. request # None /\ request.id \notin early => k.id = request.id /\ k.target = request.target
  BY DEF Attributed, Own, OfRequest
<1>4. Pending' \subseteq Pending /\ QueueOwn
  BY PendingOf, KnownTypes, QueueStays
<1>5. CASE Awaiting
  <2>1. request.id \notin early => \A r \in air' : r \in air \/ r.node = request.target
    BY <1>3, <1>5 DEF Awaiting
  <2> QED
    BY <1>2, <1>4, <1>5, <2>1, NoSnapshotAttributed DEF HandleSent
<1>6. CASE ~Awaiting /\ request = None
  <2>1. UNCHANGED <<request, reset, callers>>
    BY <1>6 DEF HandleSent, arbiter
  <2>2. NoNewer /\ SameCallers
    BY <2>1, CallersStay DEF NoNewer
  <2> QED
    BY <1>2, <1>4, <1>6, <2>1, <2>2, OwnKept, NobodyTold DEF Attributed
<1>7. CASE ~Awaiting /\ request # None
  <2> DEFINE route == Confirmed(request.route, path)
  <2>1. /\ request \in Requests /\ request.id \in Ids /\ reset = None /\ request.by \in Callers
        /\ callers[request.by].id = request.id
    BY <1>7, CurrentFacts DEF Known
  <2>2. route \in RouteNames /\ (route = "confirmed_direct" => path = "direct")
    BY ConfirmedType DEF Paths
  <2>3. request.id \notin early /\ route = "confirmed_direct" => "direct" \in sentAs'[request.id]
    BY <1>2, <1>3, <1>7, <2>2
  <2> HIDE DEF route
  <2>4. CASE request.mode = "legacy"
    <3>1. request' = [request EXCEPT !.route = route] /\ UNCHANGED <<reset, callers>>
      BY <1>7, <2>4 DEF HandleSent, route
    <3>2. /\ request'.id = request.id /\ request'.target = request.target /\ request'.mode = "legacy"
          /\ request'.route = route
      BY <2>1, <2>4, <3>1 DEF Requests
    <3>3. Own'
      BY <1>2, <1>4, <1>7, <2>1, <2>3, <3>1, <3>2 DEF Attributed, Own, OfRequest, AsksFor
    <3>4. SameCallers
      BY <3>1, CallersStay
    <3> QED
      BY <1>2, <3>3, <3>4, NobodyTold DEF Attributed
  <2>5. CASE request.mode # "legacy" /\ tag \in expired
    <3> DEFINE o == [Failure("firmware") EXCEPT !.route = route]
               c == request.by
    <3>1. /\ request' = None /\ UNCHANGED reset
          /\ callers' = Resolved(c, [Failure("firmware") EXCEPT !.route = [request EXCEPT !.route = route].route])
      BY <1>7, <2>5 DEF HandleSent, route
    <3>2. [request EXCEPT !.route = route].route = route
      BY <2>1 DEF Requests
    <3>3. callers' = Resolved(c, o)
      BY <3>1, <3>2
    <3>4. o \in Outcomes /\ ~o.ok /\ o.route = route
      BY <2>2, FailureOfRoute
    <3>5. Own'
      BY <1>2, <1>4, <2>1, <3>1 DEF Attributed, Own
    <3> HIDE DEF o, c
    <3>6. \A d \in Callers : ToldRight(d)'
      BY <1>2, <2>1, <2>3, <3>3, <3>4, OneTold DEF Attributed, c
    <3> QED
      BY <3>5, <3>6 DEF Attributed
  <2>6. CASE request.mode # "legacy" /\ tag \notin expired
    <3>1. request' = [[request EXCEPT !.route = route] EXCEPT !.tag = tag] /\ UNCHANGED <<reset, callers>>
      BY <1>7, <2>6 DEF HandleSent, route
    <3>2. /\ request'.id = request.id /\ request'.target = request.target
          /\ request'.tag = tag /\ request'.route = route
      BY <2>1, <3>1 DEF Requests
    <3>3. request.id \notin early /\ tag # None => \A r \in air' : r.tag = tag => r.node = request.target
      BY <1>3, <1>7, <2>6
    <3>4. Own'
      BY <1>2, <1>4, <1>7, <2>1, <2>3, <3>1, <3>2, <3>3 DEF Attributed, Own, OfRequest, AsksFor
    <3>5. SameCallers
      BY <3>1, CallersStay
    <3> QED
      BY <1>2, <3>4, <3>5, NobodyTold DEF Attributed
  <2> QED
    BY <2>4, <2>5, <2>6
<1> QED
  BY <1>5, <1>6, <1>7

LEMMA AnswerTelemetryAttributed ==
  ASSUME Known, Attributed, AnswerTelemetry
  PROVE  Attributed'
<1>1. UNCHANGED asked /\ owed # <<>> /\ Head(owed).kind \in {"binary", "legacy"}
  BY KnownTypes, AnswerTelemetryFacts DEF AnswerTelemetry
<1>2. Head(owed) \in Pending /\ AsksFor(Head(owed))
  BY <1>1, PendingOf, KnownTypes DEF AsksFor
<1>3. CASE \E error \in {"other", "unsupported"} : HandleError(error) /\ UNCHANGED <<air, sentAs>>
  BY <1>1, <1>3, RefusalAttributed
<1>4. CASE \E tag \in Tags \cup {None}, path \in Paths :
                 /\ HandleSent(tag, path)
                 /\ tag # None => ((\E r \in air : r.tag = tag) => tag \in expired)
                 /\ owed' = Tail(owed)
                 /\ air' = air \cup {[tag |-> tag, node |-> Head(owed).target]}
                 /\ sentAs' = [sentAs EXCEPT ![Head(owed).id] = @ \cup {path}]
  BY <1>1, <1>2, <1>4, HandleSentAttributed
<1> QED
  BY <1>3, <1>4, KnownTypes, AnswerTelemetryFacts

LEMMA AnswerResetAttributed ==
  ASSUME Known, Attributed, AnswerReset
  PROVE  Attributed'
<1>1. /\ owed # <<>> /\ Head(owed).kind = "reset" /\ UNCHANGED asked /\ UNCHANGED air
      /\ UNCHANGED early
  BY DEF AnswerReset, Answered, asked
<1>2. CASE HandleError("other") /\ UNCHANGED sentAs
  BY <1>1, <1>2, RefusalAttributed
<1>3. CASE HandleOK /\ owed' = Tail(owed) /\ sentAs' = [sentAs EXCEPT ![Head(owed).id] = @ \cup {"reset"}]
  <2>1. Head(owed) \in Pending /\ Head(owed).id \in Ids
    BY <1>1, PendingOf, KnownTypes, CommandFacts
  <2>2. SentMore /\ "reset" \in sentAs'[Head(owed).id]
    BY <1>3, <2>1, KnownTypes DEF SentMore
  <2>3. QueueOwn
    BY <1>1, <1>3, QueueStays
  <2>4. CASE reset # None
    <3>1. reset.id \notin early => Head(owed).id = reset.id
      BY <1>1, <2>1, <2>4 DEF Attributed, Own
    <3> DEFINE o == [Failure(None) EXCEPT !.ok = TRUE]
    <3>2. FinishPathReset(reset.id, o) /\ UNCHANGED request
      BY <1>3, <2>4 DEF HandleOK
    <3>3. o \in Outcomes /\ o.route = "unknown"
      BY FailureFacts
    <3> HIDE DEF o
    <3> QED
      BY <1>1, <2>2, <2>3, <2>4, <3>1, <3>2, <3>3, ResetEndAttributed
  <2>5. CASE reset = None /\ Awaiting
    BY <1>1, <1>3, <2>2, <2>3, <2>5, NoSnapshotAttributed DEF HandleOK
  <2>6. CASE reset = None /\ ~Awaiting
    <3>1. UNCHANGED <<request, reset, callers>>
      BY <1>3, <2>6 DEF HandleOK
    <3>2. NoNewer /\ SameCallers
      BY <3>1, CallersStay DEF NoNewer
    <3> QED
      BY <1>1, <2>2, <2>3, <3>1, <3>2, QuietAttributed
  <2> QED
    BY <2>4, <2>5, <2>6
<1> QED
  BY <1>2, <1>3 DEF AnswerReset

LEMMA AnswerSyncAttributed ==
  ASSUME Known, Attributed, AnswerSync
  PROVE  Attributed'
<1>1. UNCHANGED <<request, reset, callers, early, air, sentAs>> /\ owed # <<>>
  BY DEF AnswerSync, Answered, arbiter, asked
<1>2. QueueOwn
  <2>1. [kind |-> "sync"] \in Commands
    BY DEF Commands
  <2>2. owed' = Tail(owed) \/ owed' = Append(Tail(owed), [kind |-> "sync"])
    BY DEF AnswerSync
  <2>3. Pending' \subseteq Pending \cup {[kind |-> "sync"]}
    BY <1>1, <2>1, <2>2, PendingOf, KnownTypes
  <2> QED
    BY <2>3 DEF QueueOwn
<1>3. NoNewer /\ SameCallers
  BY <1>1, CallersStay DEF NoNewer
<1> QED
  BY <1>1, <1>2, <1>3, QuietAttributed, NothingSent

-----------------------------------------------------------------------------

LEMMA InitAttributed ==
  ASSUME Init
  PROVE  Attributed
BY DEF Init, Attributed, Own, ToldRight, Idle

LEMMA AttributedInductive ==
  ASSUME Known, Attributed, [Next]_vars
  PROVE  Attributed'
<1>1. CASE \E c \in Callers, t \in Targets : RequestTelemetry(c, t) \/ ResetPath(c, t)
  BY <1>1, RequestTelemetryAttributed, ResetPathAttributed
<1>2. CASE \E c \in Callers : CallerStep(c) \/ Cancel(c)
  BY <1>2, QueryContactAttributed, SnapshotEndsAttributed, SendTelemetryAttributed,
     ReturnAttributed, CancelAttributed DEF CallerStep
<1>3. CASE \E id \in Ids : Timeout(id)
  BY <1>3, TimeoutAttributed
<1>4. CASE Connect \/ Handshake \/ Detach \/ MessageWaiting \/ Published \/ (\E tag \in Tags : Forget(tag))
  BY <1>4, SessionAttributed
<1>5. CASE Lose \/ Telemetry
  BY <1>5, LoseAttributed, TelemetryAttributed
<1>6. CASE Answer
  BY <1>6, AnswerContactAttributed, AnswerTelemetryAttributed, AnswerResetAttributed,
     AnswerListAttributed, AnswerSyncAttributed DEF Answer
<1>7. CASE UNCHANGED vars
  <2>1. UNCHANGED <<request, reset, callers, early, owed, air, sentAs>>
    BY <1>7 DEF vars, arbiter, asked, outside
  <2>2. NoNewer /\ SameCallers
    BY <2>1, CallersStay DEF NoNewer
  <2> QED
    BY <2>1, <2>2, QuietAttributed, NothingSent, QueueStays
<1> QED
  BY <1>1, <1>2, <1>3, <1>4, <1>5, <1>6, <1>7 DEF Next

LEMMA AlwaysAttributed == Spec => []Attributed
<1>1. Init => Known /\ Attributed
  BY InitArbitrated, InitAttributed DEF Known
<1>2. (Known /\ Attributed) /\ [Next]_vars => (Known /\ Attributed)'
  BY ArbitratedInductive, AttributedInductive DEF Known
<1> QED
  BY <1>1, <1>2, PTL DEF Spec

(* handleTelemetryResponse: the telemetry that RequestTelemetry returns is  *)
(* that of the node the caller named, whatever comes late - unless the     *)
(* companion still owed the answer to an earlier command when the request  *)
(* began, as it may after a timeout, a cancellation or a failed write.     *)
THEOREM ResultAlwaysOfTarget == Spec => []ResultOfTarget
<1>1. Attributed => ResultOfTarget
  <2>1. SUFFICES ASSUME Attributed, NEW c \in Callers, callers[c].id \notin early
                 PROVE  OfTarget(c)
    BY DEF ResultOfTarget
  <2> QED
    BY <2>1 DEF Attributed, ToldRight, OfTarget
<1> QED
  BY <1>1, AlwaysAttributed, PTL

(* handleSent and handleOK: a caller is told of a confirmed direct route    *)
(* only when the companion sent this very request directly, and of a path  *)
(* reset only when the companion reset the path - with the same exception. *)
THEOREM EvidenceAlwaysConfirmed == Spec => []EvidenceConfirmed
<1>1. Attributed => EvidenceConfirmed
  BY DEF Attributed, ToldRight, EvidenceConfirmed
<1> QED
  BY <1>1, AlwaysAttributed, PTL

=============================================================================
