-------------------------- MODULE IngestQueue --------------------------
(***************************************************************************)
(* The Meshtastic ingest queue of the Run loop (internal/runtime/          *)
(* service.go): packets wait in memory, a drain posts them one by one with *)
(* the credentials it read when it began, a retryable failure ends the     *)
(* drain and sets the packet's retry window, a full queue drops its oldest *)
(* packet. The portal and the cloud give and take credentials meanwhile.   *)
(***************************************************************************)
EXTENDS Integers, Sequences

CONSTANTS
  Depth,       \* maxIngestQueueDepth
  Batch,       \* maxIngestBatchTick
  Flaky,       \* packets whose posts may fail retryably, for ever if need be
  MaxLosses    \* bound: how often the receiver loses its credentials

ASSUME QueueAssumption ==
  /\ Depth \in Nat \ {0} /\ Batch \in Nat \ {0}
  /\ MaxLosses \in Nat

VARIABLES
  queue,       \* waiting packets, oldest first: [id, attempts, window]
  wake,        \* a signal is in the channel ingestWake
  drain,       \* the Run loop: [pc, by, left, at]
  ready,       \* credentialsReady of the state file
  losses,      \* times the credentials were lost so far
  gone         \* packets that left the queue

queueVars == <<queue, wake, drain, ready, losses, gone>>

Resting == [pc |-> "select", by |-> "none", left |-> 0, at |-> 0]

QueueInit ==
  /\ queue = <<>> /\ wake = FALSE /\ drain = Resting
  /\ ready = TRUE /\ losses = 0 /\ gone = {}

Idle == drain.pc = "select"

Without(q, i) == SubSeq(q, 1, i - 1) \o SubSeq(q, i + 1, Len(q))

(* nextDispatchableIngestIndex: the first packet outside its retry window.  *)
Dispatchable == {i \in 1..Len(queue) : queue[i].window = 0}

NextDispatchable == CHOOSE i \in Dispatchable : \A j \in Dispatchable : i <= j

Ids(q) == {q[i].id : i \in 1..Len(q)}

-----------------------------------------------------------------------------
(* onMeshtasticEvent: the packet is appended, the oldest dropped to make    *)
(* room, and the drain is signalled.                                        *)
Trimmed == IF Len(queue) >= Depth THEN Tail(queue) ELSE queue

Enqueue(id) ==
  /\ Idle
  /\ queue' = Append(Trimmed, [id |-> id, attempts |-> 0, window |-> 0])
  /\ gone' = gone \cup (Ids(queue) \ Ids(Trimmed))
  /\ wake' = TRUE
  /\ UNCHANGED <<drain, ready, losses>>

(* processIngestDispatch, on a wake or a tick: nothing to do without        *)
(* packets or credentials. A drain works to its end with the credentials of *)
(* the snapshot that was taken here.                                        *)
Drain(by) ==
  drain' = IF queue = <<>> \/ ~ready THEN Resting
           ELSE [pc |-> "pick", by |-> by, left |-> Batch, at |-> 0]

Woken ==
  /\ Idle /\ wake
  /\ wake' = FALSE /\ Drain("event")
  /\ UNCHANGED <<queue, ready, losses, gone>>

Ticked ==
  /\ Idle /\ queue # <<>> /\ Drain("interval")
  /\ UNCHANGED <<queue, wake, ready, losses, gone>>

(* Retry windows last longer than the two seconds between two ticks, so the *)
(* time they take is counted in drains of the ticker that passed the packet *)
(* over.                                                                    *)
Aged(q) ==
  IF drain.by = "interval"
  THEN [i \in 1..Len(q) |-> [q[i] EXCEPT !.window = IF @ = 0 THEN 0 ELSE @ - 1]]
  ELSE q

(* drainIngestQueue: one more packet, or the end of the drain.              *)
Pick ==
  /\ drain.pc = "pick" /\ drain.left > 0 /\ Dispatchable # {}
  /\ drain' = [drain EXCEPT !.pc = "post", !.at = NextDispatchable, !.left = @ - 1]
  /\ UNCHANGED <<queue, wake, ready, losses, gone>>

DrainEnds ==
  /\ drain.pc = "pick" /\ (drain.left = 0 \/ Dispatchable = {})
  /\ queue' = Aged(queue) /\ drain' = Resting
  /\ UNCHANGED <<wake, ready, losses, gone>>

Posting == drain.pc = "post"

(* An acknowledgement and a refusal take the packet away.                   *)
Answered ==
  /\ Posting
  /\ queue' = Without(queue, drain.at)
  /\ gone' = gone \cup {queue[drain.at].id}
  /\ drain' = [drain EXCEPT !.pc = "pick", !.at = 0]
  /\ UNCHANGED <<wake, ready, losses>>

MaxAttempts == 3

(* Mutation: no window, the packet may be sent again at once.               *)
Windows_None(attempts) == {0}

(* The retry window after so many attempts, in ticks. It begins before the  *)
(* call, so that a slow call may outlast the first ones.                    *)
Windows(attempts) == IF attempts < MaxAttempts THEN {0, 1} ELSE {1, 2}

(* A failure worth repeating: the packet waits and the drain ends.          *)
Failed ==
  /\ Posting
  /\ LET p == queue[drain.at]
         n == IF p.attempts = MaxAttempts THEN MaxAttempts ELSE p.attempts + 1
     IN  /\ p.id \in Flaky
         /\ \E w \in Windows(n) :
              queue' = [Aged(queue) EXCEPT ![drain.at] = [id |-> p.id, attempts |-> n, window |-> w]]
  /\ drain' = Resting
  /\ UNCHANGED <<wake, ready, losses, gone>>

(* The cloud reports the receiver revoked, disabled or replaced: the        *)
(* credentials are cleared and every waiting packet is forgotten.           *)
LifecycleEnds ==
  /\ Posting /\ losses < MaxLosses /\ losses' = losses + 1
  /\ ready' = FALSE /\ queue' = <<>> /\ drain' = Resting
  /\ gone' = gone \cup Ids(queue)
  /\ UNCHANGED <<wake>>

(* The portal deauthorizes the receiver, or a pairing ends. Waiting packets *)
(* stay, and a drain under way goes on.                                     *)
PortalDeauthorizes ==
  /\ ready /\ losses < MaxLosses /\ losses' = losses + 1
  /\ ready' = FALSE
  /\ UNCHANGED <<queue, wake, drain, gone>>

Paired ==
  /\ ~ready /\ ready' = TRUE
  /\ UNCHANGED <<queue, wake, drain, losses, gone>>

DrainStep == Pick \/ DrainEnds

CloudStep == Answered \/ Failed \/ LifecycleEnds

-----------------------------------------------------------------------------
(* A packet is overtaken only while it waits to be sent again: whenever one *)
(* is answered, every older one that stays in the queue has failed before.  *)
(* Removing by index from a queue that is trimmed at one end and drained    *)
(* from the middle must keep the order of the rest.                         *)
InOrderUnlessRetried ==
  [][Posting =>
       \A id \in Ids(queue) \ Ids(queue') :
         \A j \in 1..Len(queue') : queue'[j].id < id => queue'[j].attempts > 0]_queueVars
=============================================================================
