------------------------- MODULE MeshCoreCompanion -------------------------
(***************************************************************************)
(* One link to a MeshCore companion: its handshake, the loop that consumes *)
(* its frames, the telemetry requests and path resets that callers wait    *)
(* for, the contact list and the drain of the queued messages.             *)
(*                                                                         *)
(* The companion (external) answers the commands one after the other; an   *)
(* answer does not say which command it belongs to.  A node's telemetry    *)
(* comes later, as a push, under the tag that the answer to the command    *)
(* had named or, from an older companion, under the node's prefix alone.   *)
(*                                                                         *)
(* One mutex, telemetryMu, guards the request, the reset and the tables;   *)
(* the loop, the callers and the timers take it for single sections.       *)
(* A timer may fire at any moment: the two of a request, the first and the *)
(* one that the companion's estimate starts, are one here.                 *)
(* Left out: payloads and their parsing, statuses, the raw frames kept for *)
(* the evidence of reception.                                              *)
(***************************************************************************)
EXTENDS Integers, Sequences, FiniteSets, SequencesExt

CONSTANTS
  Targets,        \* nodes that may be asked
  Tags,           \* tags that the companion gives to its requests
  Callers,        \* goroutines that ask: the portal's, the tracking's
  Resetters,      \* those that reset paths: the tracking's
  Cancellable,    \* those whose context may end: the portal's
  Firmware,       \* companions that may be attached: "binary" and "legacy"
  WithContacts,   \* whether a new session asks for the contact list
  MaxFetches,     \* maxQueuedMessageFetches
  MaxInbox,       \* bound: messages queued in the companion
  MaxSyncs,       \* bound: unanswered fetches when the notice of a message comes
  MaxRequests,    \* bound: requests and resets
  MaxSessions,    \* bound: connections
  None

ASSUME CompanionAssumption ==
  /\ Resetters \subseteq Callers /\ Cancellable \subseteq Callers
  /\ Firmware \subseteq {"binary", "legacy"}
  /\ WithContacts \in BOOLEAN
  /\ {MaxFetches, MaxInbox, MaxSyncs, MaxRequests, MaxSessions} \subseteq Nat
  /\ MaxFetches > 0
  /\ None \notin Targets \cup Tags \cup Callers \cup Nat

VARIABLES
  link,        \* "down", "up", or "left": the loop has ended, the adapter shows it still
  session,     \* CompanionSession.state
  degraded,    \* the adapter's state is StateDegraded: an event was dropped
  sessions,    \* connections so far
  request,     \* Adapter.telemetry
  reset,       \* Adapter.pathReset
  capability,  \* binaryTelemetryCapability
  expired,     \* expiredTelemetryTags
  callers,     \* where each caller stands, and the channels it waits on
  issued,      \* requests and resets so far
  fetches,     \* queuedMessageFetches
  listing,     \* contactSyncRequested and contactSyncActive
  owed,        \* the answers that the companion owes, in order
  air,         \* the telemetry that nodes may still send
  companion,   \* the companion: its firmware, the messages it has queued
  sentAs,      \* history: how the companion sent each request
  early        \* history: requests begun while an earlier command was unanswered

consumer == <<link, session, degraded, sessions, fetches, listing>>
arbiter == <<request, reset, capability, expired>>
outside == <<owed, air, companion, sentAs>>
asked == <<issued, early>>
vars == <<consumer, arbiter, callers, asked, outside>>

Ids == 1..MaxRequests
Paths == {"direct", "flood"}
RouteNames == {"unknown", "direct", "flood", "sent_flood", "confirmed_direct"}

Requests ==
  [id : Ids, by : Callers, target : Targets, awaiting : BOOLEAN, mode : {"binary", "legacy"},
   tag : Tags \cup {None}, route : RouteNames]

PathResets == [id : Ids, by : Resetters, target : Targets]

Errors == {"timeout", "disconnected", "firmware", "invalid", "mismatched"}

Outcomes ==
  [ok : BOOLEAN, error : Errors \cup {None}, node : Targets \cup {None}, route : RouteNames,
   timer : Ids \cup {None}]

(* What the companion has been asked and has not answered.                 *)
Commands ==
  [kind : {"device", "self", "start", "end", "sync"}]
    \cup [kind : {"listed"}, target : Targets]
    \cup [kind : {"contact"}, target : Targets, id : {None}]
    \cup [kind : {"binary", "legacy", "reset"}, target : Targets, id : Ids]

ASSUME NoneAssumption ==
  None \notin Requests \cup PathResets \cup Outcomes \cup Errors \cup RouteNames

Failure(error) == [ok |-> FALSE, error |-> error, node |-> None, route |-> "unknown", timer |-> None]
Idle == [pc |-> "idle", id |-> None, target |-> None, snapshot |-> None, done |-> None]

Init ==
  /\ link = "down" /\ session = "disconnected" /\ degraded = FALSE /\ sessions = 0
  /\ request = None /\ reset = None /\ capability = "unknown" /\ expired = {}
  /\ callers = [c \in Callers |-> Idle]
  /\ issued = 0
  /\ fetches = 0 /\ listing = "no"
  /\ owed = <<>> /\ air = {}
  /\ companion \in [firmware : Firmware, inbox : {0}]
  /\ sentAs = [i \in Ids |-> {}] /\ early = {}

-----------------------------------------------------------------------------
(* The ends of a request and of a reset.  Whoever finds it already ended   *)
(* changes nothing: a pointer is compared, here the number.                *)

IsCurrent(id) == request # None /\ request.id = id

Resolved(c, outcome) == [callers EXCEPT ![c].done = outcome]

Retire(id) ==
  /\ request' = IF IsCurrent(id) THEN None ELSE request
  /\ expired' = IF IsCurrent(id) /\ request.mode = "binary" /\ request.tag # None
                THEN expired \cup {request.tag} ELSE expired

FinishTelemetry(id, outcome) ==
  /\ Retire(id)
  /\ callers' = IF IsCurrent(id)
                THEN Resolved(request.by, [outcome EXCEPT !.route = request.route])
                ELSE callers

FinishPathReset(id, outcome) ==
  IF reset # None /\ reset.id = id
  THEN reset' = None /\ callers' = Resolved(reset.by, outcome)
  ELSE UNCHANGED <<reset, callers>>

-----------------------------------------------------------------------------
(* The callers.                                                            *)

At(c, pc) == callers[c].pc = pc

Accepts == ~degraded /\ (link = "left" \/ (link = "up" /\ session = "ready"))

(* A write reaches the companion while the loop runs; on a link that the   *)
(* loop has left it may still succeed, to no avail.  One that fails may    *)
(* have been carried out all the same.                                     *)
Write(command) == owed' = IF link = "up" THEN Append(owed, command) ELSE owed

WriteFails(command) == Write(command) \/ UNCHANGED owed

(* The companion has not answered all that callers have asked of it.       *)
Unanswered == \E i \in DOMAIN owed : owed[i].kind \in {"contact", "binary", "legacy", "reset"}

Issue ==
  /\ issued < MaxRequests
  /\ issued' = issued + 1
  /\ early' = IF Unanswered THEN early \cup {issued + 1} ELSE early

RequestTelemetry(c, target) ==
  /\ At(c, "idle")
  /\ request = None /\ reset = None
  /\ Accepts
  /\ Issue
  /\ request' = [id |-> issued + 1, by |-> c, target |-> target, awaiting |-> FALSE,
                 mode |-> IF capability = "unsupported" THEN "legacy" ELSE "binary",
                 tag |-> None, route |-> "unknown"]
  /\ callers' = [callers EXCEPT ![c] = [Idle EXCEPT !.pc = "query", !.id = issued + 1,
                                                    !.target = target]]
  /\ UNCHANGED <<consumer, reset, capability, expired, outside>>

(* captureTelemetryRoute: the companion is asked for the contact first.    *)
QueryContact(c) ==
  LET command == [kind |-> "contact", target |-> callers[c].target, id |-> None] IN
  /\ At(c, "query")
  /\ IF IsCurrent(callers[c].id)
     THEN \/ /\ request' = [request EXCEPT !.awaiting = TRUE]
             /\ callers' = [callers EXCEPT ![c].pc = "snapshot"]
             /\ Write(command)
          \/ /\ callers' = [callers EXCEPT ![c].pc = "send"]
             /\ WriteFails(command)
             /\ UNCHANGED request
     ELSE /\ callers' = [callers EXCEPT ![c].pc = "waiting"]
          /\ UNCHANGED <<request, owed>>
  /\ UNCHANGED <<consumer, reset, capability, expired, asked, air, companion, sentAs>>

(* The wait for the contact ends: with the evidence, by its own timer, or  *)
(* because the caller's context does.                                      *)
SnapshotEnds(c) ==
  LET current == IsCurrent(callers[c].id) IN
  /\ At(c, "snapshot")
  /\ \/ /\ callers[c].snapshot # None
        /\ request' = IF current THEN [request EXCEPT !.route = callers[c].snapshot] ELSE request
     \/ request' = IF current THEN [request EXCEPT !.awaiting = FALSE] ELSE request
  /\ callers' = [callers EXCEPT ![c].pc = "send", ![c].snapshot = None]
  /\ UNCHANGED <<consumer, reset, capability, expired, asked, outside>>

(* The command goes out if the request has not ended meanwhile.  The check *)
(* and the write are one step here: an end in the few instructions between *)
(* them is taken for one before the check.                                 *)
SendTelemetry(c) ==
  LET command == [kind |-> request.mode, target |-> callers[c].target, id |-> callers[c].id] IN
  /\ At(c, "send")
  /\ \/ /\ IF IsCurrent(callers[c].id) THEN Write(command) ELSE UNCHANGED owed
        /\ callers' = [callers EXCEPT ![c].pc = "waiting"]
        /\ UNCHANGED <<request, expired>>
     \/ /\ IsCurrent(callers[c].id)
        /\ WriteFails(command)
        /\ Retire(callers[c].id) /\ callers' = [callers EXCEPT ![c] = Idle]
  /\ UNCHANGED <<consumer, reset, capability, asked, air, companion, sentAs>>

(* The tracking resets the path of a node whose request has just timed     *)
(* out: the record of an idle caller still names it.                       *)
ResetPath(c, target) ==
  LET command == [kind |-> "reset", target |-> target, id |-> issued + 1] IN
  /\ At(c, "idle") /\ c \in Resetters /\ target = callers[c].target
  /\ request = None /\ reset = None
  /\ Accepts
  /\ Issue
  /\ \/ /\ reset' = [id |-> issued + 1, by |-> c, target |-> target]
        /\ callers' = [callers EXCEPT ![c] = [Idle EXCEPT !.pc = "resetting",
                         !.id = issued + 1, !.target = target]]
        /\ Write(command)
     \/ /\ callers' = [callers EXCEPT ![c] = Idle]
        /\ WriteFails(command)
        /\ UNCHANGED reset
  /\ UNCHANGED <<consumer, request, capability, expired, air, companion, sentAs>>

Return(c) ==
  /\ callers[c].pc \in {"waiting", "resetting"}
  /\ callers[c].done # None
  /\ callers' = [callers EXCEPT ![c] =
       IF At(c, "waiting") /\ callers[c].done.error = "timeout" /\ c \in Resetters
       THEN [Idle EXCEPT !.target = callers[c].target] ELSE Idle]
  /\ UNCHANGED <<consumer, arbiter, asked, outside>>

(* The portal's client goes away.                                          *)
(* Mutation: its request is left in flight.                                *)
Cancel_Leaves(c) ==
  /\ c \in Cancellable /\ At(c, "waiting")
  /\ callers' = [callers EXCEPT ![c] = Idle]
  /\ UNCHANGED <<consumer, arbiter, asked, outside>>

Cancel(c) ==
  /\ c \in Cancellable /\ At(c, "waiting")
  /\ Retire(callers[c].id)
  /\ callers' = [callers EXCEPT ![c] = Idle]
  /\ UNCHANGED <<consumer, reset, capability, asked, outside>>

(* A timer of a request that has ended may fire late.                      *)
TimedOut(id) == [Failure("timeout") EXCEPT !.timer = id]

(* Mutation: the timer ends whatever is in flight.                         *)
Timeout_Any(id) ==
  /\ id <= issued
  /\ IF request # None
     THEN FinishTelemetry(request.id, TimedOut(id)) /\ UNCHANGED reset
     ELSE FinishPathReset(id, TimedOut(id)) /\ UNCHANGED <<request, expired>>
  /\ UNCHANGED <<consumer, capability, asked, outside>>

Timeout(id) ==
  /\ IsCurrent(id) \/ (reset # None /\ reset.id = id)
  /\ IF IsCurrent(id)
     THEN FinishTelemetry(id, TimedOut(id)) /\ UNCHANGED reset
     ELSE FinishPathReset(id, TimedOut(id)) /\ UNCHANGED <<request, expired>>
  /\ UNCHANGED <<consumer, capability, asked, outside>>

-----------------------------------------------------------------------------
(* The loop, consume: the session and its end.                             *)

Connect ==
  /\ link = "down"
  /\ sessions < MaxSessions
  /\ link' = "up" /\ session' = "await_device" /\ sessions' = sessions + 1
  /\ degraded' = FALSE /\ fetches' = 0 /\ listing' = "no"
  /\ capability' = "unknown" /\ expired' = {}
  /\ owed' = <<[kind |-> "device"]>>
  /\ UNCHANGED <<request, reset, callers, asked, air, companion, sentAs>>

Handshake ==
  /\ link = "up" /\ owed # <<>>
  /\ \/ /\ session = "await_device"
        /\ session' = "await_self"
        /\ owed' = <<[kind |-> "self"]>>
        /\ UNCHANGED listing
     \/ /\ session = "await_self"
        /\ session' = "ready"
        /\ IF WithContacts
           THEN /\ listing' = "requested"
                /\ \E t \in Targets :
                     owed' = <<[kind |-> "start"], [kind |-> "listed", target |-> t],
                               [kind |-> "end"]>>
           ELSE owed' = <<>> /\ UNCHANGED listing
  /\ UNCHANGED <<link, degraded, sessions, fetches, arbiter, callers, asked, air, companion,
                 sentAs>>

(* The link is lost, the handshake takes too long or a frame breaks the    *)
(* session: the loop ends, and with it what waits for its frames.          *)
Lose ==
  /\ link = "up"
  /\ link' = IF session = "ready" THEN "left" ELSE "down"
  /\ session' = "disconnected" /\ owed' = <<>> /\ fetches' = 0 /\ listing' = "no"
  /\ IF reset # None
     THEN FinishPathReset(reset.id, Failure("disconnected")) /\ UNCHANGED <<request, expired>>
     ELSE IF request # None
     THEN FinishTelemetry(request.id, Failure("disconnected")) /\ UNCHANGED reset
     ELSE UNCHANGED <<request, reset, expired, callers>>
  /\ UNCHANGED <<degraded, sessions, capability, asked, air, companion, sentAs>>

Detach ==
  /\ link = "left"
  /\ link' = "down" /\ degraded' = FALSE
  /\ UNCHANGED <<session, sessions, fetches, listing, arbiter, callers, asked, outside>>

-----------------------------------------------------------------------------
(* The loop: the answer of a command is handed to what is in flight.       *)

Ready == link = "up" /\ session = "ready"

(* An answer that is not the contact ends the wait for it.                 *)
NoSnapshot ==
  /\ request' = [request EXCEPT !.awaiting = FALSE]
  /\ callers' = [callers EXCEPT ![request.by].snapshot = "unknown"]
  /\ UNCHANGED <<reset, capability, expired>>

Awaiting == request # None /\ request.awaiting

HandleOK ==
  /\ UNCHANGED <<capability, expired>>
  /\ IF reset # None
     THEN /\ FinishPathReset(reset.id, [Failure(None) EXCEPT !.ok = TRUE])
          /\ UNCHANGED request
     ELSE IF Awaiting THEN NoSnapshot
     ELSE UNCHANGED <<request, reset, callers>>

(* An older companion does not know the tagged request: it is sent again   *)
(* in the old form, and a write that fails ends it.                        *)
FallBack ==
  LET old == [kind |-> "legacy", target |-> request.target, id |-> request.id] IN
  /\ capability' = "unsupported"
  /\ \/ /\ request' = [request EXCEPT !.mode = "legacy", !.tag = None]
        /\ owed' = Append(Tail(owed), old)
        /\ UNCHANGED callers
     \/ /\ request' = None
        /\ callers' = Resolved(request.by, [Failure("disconnected") EXCEPT !.route = request.route])
        /\ owed' \in {Tail(owed), Append(Tail(owed), old)}
  /\ UNCHANGED <<reset, expired>>

HandleError(error) ==
  IF reset # None
  THEN /\ FinishPathReset(reset.id, Failure("firmware"))
       /\ owed' = Tail(owed)
       /\ UNCHANGED <<request, capability, expired>>
  ELSE IF Awaiting THEN NoSnapshot /\ owed' = Tail(owed)
  ELSE IF request # None /\ request.mode = "binary" /\ error = "unsupported" THEN FallBack
  ELSE /\ owed' = Tail(owed)
       /\ UNCHANGED <<reset, capability>>
       /\ IF request # None THEN FinishTelemetry(request.id, Failure("firmware"))
          ELSE UNCHANGED <<request, expired, callers>>

HandleContact(target, route) ==
  /\ UNCHANGED <<reset, capability, expired>>
  /\ IF Awaiting /\ request.target = target
     THEN /\ request' = [request EXCEPT !.awaiting = FALSE]
          /\ callers' = [callers EXCEPT ![request.by].snapshot = route]
     ELSE UNCHANGED <<request, callers>>

(* Mutation: the companion's word is not asked for.                        *)
Confirmed_Trusting(route, sent) ==
  IF route \in {"direct", "confirmed_direct"} THEN "confirmed_direct"
  ELSE IF sent = "flood" THEN "sent_flood" ELSE "unknown"

Confirmed(route, sent) ==
  IF sent = "flood" THEN "sent_flood"
  ELSE IF route \in {"direct", "confirmed_direct"} THEN "confirmed_direct" ELSE "unknown"

HandleSent(tag, sent) ==
  IF Awaiting THEN NoSnapshot
  ELSE IF request = None THEN UNCHANGED <<arbiter, callers>>
  ELSE LET told == [request EXCEPT !.route = Confirmed(@, sent)] IN
       IF request.mode = "legacy"
       THEN request' = told /\ UNCHANGED <<reset, capability, expired, callers>>
       ELSE IF tag \in expired
       THEN /\ request' = None
            /\ callers' = Resolved(request.by, [Failure("firmware") EXCEPT !.route = told.route])
            /\ expired' = expired \cup ({request.tag} \ {None})
            /\ UNCHANGED <<reset, capability>>
       ELSE /\ request' = [told EXCEPT !.tag = tag]
            /\ capability' = "supported"
            /\ UNCHANGED <<reset, expired, callers>>

-----------------------------------------------------------------------------
(* The companion's answers, and what the loop does with each.              *)

Answered(kind) == Ready /\ owed # <<>> /\ Head(owed).kind = kind

AnswerContact ==
  LET target == Head(owed).target IN
  /\ Answered("contact")
  /\ \/ \E path \in Paths : HandleContact(target, path) /\ owed' = Tail(owed)
     \/ HandleError(IF companion.firmware = "legacy" THEN "unsupported" ELSE "other")
  /\ UNCHANGED <<consumer, asked, air, companion, sentAs>>

(* The path the companion takes, and what it says of it, is the one it has *)
(* stored: any.  A tag comes again only while the adapter remembers it.     *)
AnswerTelemetry ==
  LET command == Head(owed)
      \* the tag by which the node's answer will come
      Accept(tag) ==
        \E path \in Paths :
          /\ HandleSent(tag, path)
          /\ owed' = Tail(owed)
          /\ air' = air \cup {[tag |-> tag, node |-> command.target]}
          /\ sentAs' = [sentAs EXCEPT ![command.id] = @ \cup {path}]
      Refuse(error) == HandleError(error) /\ UNCHANGED <<air, sentAs>> IN
  /\ \/ /\ Answered("binary")
        /\ \/ /\ companion.firmware = "binary"
              /\ \E tag \in {u \in Tags : (\E r \in air : r.tag = u) => u \in expired} :
                   Accept(tag)
           \/ Refuse(IF companion.firmware = "binary" THEN "other" ELSE "unsupported")
     \/ /\ Answered("legacy")
        /\ Accept(None) \/ Refuse("other")
  /\ UNCHANGED <<consumer, asked, companion>>

AnswerReset ==
  /\ Answered("reset")
  /\ \/ /\ HandleOK
        /\ owed' = Tail(owed)
        /\ sentAs' = [sentAs EXCEPT ![Head(owed).id] = @ \cup {"reset"}]
     \/ HandleError("other") /\ UNCHANGED sentAs
  /\ UNCHANGED <<consumer, asked, air, companion>>

(* The contact list: its first and last frame are answers like any other,  *)
(* a contact may be the one that a request waits for.                      *)
AnswerList ==
  /\ \/ /\ Answered("start") \/ Answered("end")
        /\ IF Awaiting THEN NoSnapshot ELSE UNCHANGED <<arbiter, callers>>
        /\ listing' = IF listing = "no" THEN "no"
                      ELSE IF Head(owed).kind = "start" THEN "active" ELSE "no"
     \/ /\ Answered("listed")
        /\ \E path \in Paths : HandleContact(Head(owed).target, path)
        /\ UNCHANGED listing
  /\ owed' = Tail(owed)
  /\ UNCHANGED <<link, session, degraded, sessions, fetches, asked, air, companion, sentAs>>

-----------------------------------------------------------------------------
(* Pushes.                                                                 *)

(* An event that finds the adapter's buffer full is dropped, the drain     *)
(* ends.                                                                   *)
AnswerSync ==
  /\ Answered("sync")
  /\ \/ /\ companion.inbox = 0
        /\ fetches' = 0
        /\ owed' = Tail(owed)
        /\ UNCHANGED <<degraded, companion>>
     \/ /\ companion.inbox > 0
        /\ companion' = [companion EXCEPT !.inbox = @ - 1]
        /\ LET left == IF fetches > 0 THEN fetches - 1 ELSE 0 IN
           \/ /\ fetches' = 0 /\ degraded' = TRUE
              /\ owed' = Tail(owed)
           \/ /\ fetches' = left /\ degraded' = FALSE
              /\ owed' = IF left > 0 THEN Append(Tail(owed), [kind |-> "sync"]) ELSE Tail(owed)
  /\ UNCHANGED <<link, session, sessions, listing, arbiter, callers, asked, air, sentAs>>

(* A message comes in, and the notice of it.                               *)
MessageWaiting ==
  /\ companion.inbox < MaxInbox
  /\ Cardinality({i \in DOMAIN owed : owed[i].kind = "sync"}) <= MaxSyncs
  /\ companion' = [companion EXCEPT !.inbox = @ + 1]
  /\ IF Ready /\ fetches = 0
     THEN fetches' = MaxFetches /\ owed' = Append(owed, [kind |-> "sync"])
     ELSE UNCHANGED <<fetches, owed>>
  /\ UNCHANGED <<link, session, degraded, sessions, listing, arbiter, callers, asked, air,
                 sentAs>>

(* Any other push, a path update or what the radio has heard.              *)
Published ==
  /\ Ready
  /\ \/ degraded' = TRUE /\ fetches' = 0
     \/ degraded' = FALSE /\ UNCHANGED fetches
  /\ UNCHANGED <<link, session, sessions, listing, arbiter, callers, asked, outside>>

Success(node) == [Failure(None) EXCEPT !.ok = TRUE, !.node = node]

(* Mutation: the tag is not compared.                                      *)
Matches_AnyTag(r) == request.mode = "binary"

Matches(r) == request.mode = "binary" /\ request.tag # None /\ request.tag = r.tag

Telemetry ==
  /\ Ready
  /\ \E r \in air, valid \in BOOLEAN :
       /\ air' = air \ {r}
       /\ \/ /\ r.tag # None
             /\ IF request # None /\ Matches(r) /\ (valid => r.tag \notin expired)
                THEN FinishTelemetry(request.id, IF valid THEN Success(r.node)
                                                 ELSE Failure("invalid"))
                ELSE UNCHANGED <<request, expired, callers>>
          \/ /\ r.tag = None
             /\ IF request # None /\ (valid => request.mode = "legacy")
                THEN FinishTelemetry(request.id,
                       IF ~valid THEN Failure("invalid")
                       ELSE IF r.node = request.target THEN Success(r.node)
                       ELSE Failure("mismatched"))
                ELSE UNCHANGED <<request, expired, callers>>
  /\ UNCHANGED <<consumer, reset, capability, asked, owed, companion, sentAs>>

(* A tag is forgotten after its time, whatever is still to come under it.  *)
Forget(tag) ==
  /\ tag \in expired
  /\ expired' = expired \ {tag}
  /\ UNCHANGED <<consumer, request, reset, capability, callers, asked, owed, air, companion,
                 sentAs>>

-----------------------------------------------------------------------------
Answer == AnswerContact \/ AnswerTelemetry \/ AnswerReset \/ AnswerList \/ AnswerSync

CallerStep(c) == QueryContact(c) \/ SnapshotEnds(c) \/ SendTelemetry(c) \/ Return(c)

Next ==
  \/ \E c \in Callers, t \in Targets : RequestTelemetry(c, t) \/ ResetPath(c, t)
  \/ \E c \in Callers : CallerStep(c) \/ Cancel(c)
  \/ \E id \in Ids : Timeout(id)
  \/ Connect \/ Handshake \/ Lose \/ Detach \/ Answer \/ MessageWaiting \/ Published \/ Telemetry
  \/ \E tag \in Tags : Forget(tag)

Spec == Init /\ [][Next]_vars

-----------------------------------------------------------------------------
(* Properties.                                                             *)

TypeCompanionOK ==
  /\ link \in {"down", "up", "left"}
  /\ session \in {"disconnected", "await_device", "await_self", "ready"}
  /\ degraded \in BOOLEAN /\ sessions \in 0..MaxSessions
  /\ request \in Requests \cup {None} /\ reset \in PathResets \cup {None}
  /\ capability \in {"unknown", "supported", "unsupported"} /\ expired \subseteq Tags
  /\ issued \in 0..MaxRequests /\ fetches \in 0..MaxFetches
  /\ listing \in {"no", "requested", "active"}
  /\ callers \in [Callers -> [
       pc : {"idle", "query", "snapshot", "send", "waiting", "resetting"}, id : Ids \cup {None},
       target : Targets \cup {None}, snapshot : Paths \cup {"unknown", None},
       done : Outcomes \cup {None}]]
  /\ owed \in Seq(Commands) /\ air \subseteq [tag : Tags \cup {None}, node : Targets]
  /\ companion \in [firmware : Firmware, inbox : 0..MaxInbox]
  /\ sentAs \in [Ids -> SUBSET (Paths \cup {"reset"})] /\ early \subseteq 1..issued

(* Nothing is left behind: the request or the reset in flight, the only    *)
(* one, belongs to a caller that still waits for it, and who waits for an  *)
(* end either has it or has something in flight that will end.             *)
NothingLeftBehind ==
  /\ request = None \/ reset = None
  /\ request # None =>
       /\ callers[request.by].id = request.id /\ callers[request.by].done = None
       /\ callers[request.by].pc \in {"query", "snapshot", "send", "waiting"}
  /\ reset # None =>
       /\ callers[reset.by].id = reset.id /\ callers[reset.by].done = None
       /\ callers[reset.by].pc = "resetting"
  /\ \A c \in Callers :
       callers[c].done = None =>
         /\ callers[c].pc = "waiting" => IsCurrent(callers[c].id)
         /\ callers[c].pc = "resetting" => reset # None /\ reset.id = callers[c].id

OfTarget(c) ==
  callers[c].done # None /\ callers[c].done.ok /\ callers[c].pc # "resetting"
    => callers[c].done.node = callers[c].target

(* The telemetry that a caller gets is that of the node it asked, however  *)
(* late its contact, the companion and the nodes answer, also to requests  *)
(* given up before - unless the companion still owed the answer to an      *)
(* earlier command when this request began: no command's answer says which *)
(* command it belongs to.                                                  *)
ResultOfTarget == \A c \in Callers : callers[c].id \notin early => OfTarget(c)

(* telemetry.go calls the tag equivalent to checking the target; without   *)
(* the exception a late answer breaks that.                                *)
TagStandsForTarget == \A c \in Callers : OfTarget(c)

(* What the end of a request tells of the route is what the companion has  *)
(* done: a confirmed direct route was taken by this very request, and a    *)
(* path whose reset is acknowledged was reset by the companion.  The       *)
(* exception is the same.                                                  *)
EvidenceConfirmed ==
  \A c \in Callers :
    callers[c].done # None /\ callers[c].id \notin early =>
      /\ callers[c].done.route = "confirmed_direct" => "direct" \in sentAs[callers[c].id]
      /\ callers[c].pc = "resetting" /\ callers[c].done.ok => "reset" \in sentAs[callers[c].id]

(* A request ends with a timeout only when its own time is up: a timer     *)
(* that fires when its request has ended ends nothing.                     *)
NoForeignTimeout ==
  \A c \in Callers :
    callers[c].done # None /\ callers[c].done.error = "timeout"
      => callers[c].done.timer = callers[c].id

(* While the loop counts on queued messages an answer is on its way: the   *)
(* drain is not stuck with the notices of further messages ignored.        *)
DrainGoesOn ==
  fetches > 0 => \E i \in DOMAIN owed : owed[i].kind = "sync"
=============================================================================
