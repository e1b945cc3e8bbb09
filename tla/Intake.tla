----------------------------- MODULE Intake ----------------------------
(***************************************************************************)
(* From a radio's serial device to the cloud: the serial loops of          *)
(* SerialDevices, the channels of the Meshtastic service and of the        *)
(* adapter manager (internal/protocoladapter/adapter.go), the Run loop     *)
(* with the queue of IngestQueue, and the shutdown of all of them.         *)
(***************************************************************************)
EXTENDS SerialDevices, IngestQueue, FrameScanner

CONSTANTS
  LocalBuffer, \* capacity of the Meshtastic service's channel
  EventBuffer  \* defaultEventBuffer, the capacity of the manager's channel

ASSUME BufferAssumption ==
  LocalBuffer \in Nat \ {0} /\ EventBuffer \in Nat \ {0}

VARIABLES
  packets,     \* packets read so far
  contacts,    \* events of the MeshCore adapter so far
  local,       \* the channel between the Meshtastic loop and its pump
  pump,        \* the pump, meshtasticRadioAdapter.Start: [pc, hand]
  events,      \* the channel every adapter publishes into; 0 is MeshCore's
  manager      \* "open", then the steps of Run's deferred shutdown

pipeVars == <<packets, contacts, local, pump, events>>
vars == <<serialVars, queueVars, pipeVars, manager>>

Init ==
  /\ SerialInit /\ QueueInit
  /\ packets = 0 /\ contacts = 0
  /\ local = <<>> /\ events = <<>>
  /\ pump = [pc |-> "running", hand |-> 0]
  /\ manager = "open"

-----------------------------------------------------------------------------
(* A packet decoded by the Meshtastic loop; it waits while the channel is   *)
(* full.                                                                    *)
ReadPacket ==
  /\ meshtastic.pc = "reading" /\ Occupied(meshtastic.tty)
  /\ packets < config.packets /\ packets' = packets + 1
  /\ Len(local) < LocalBuffer
  /\ local' = Append(local, packets')
  /\ UNCHANGED <<contacts, pump, events, serialVars, queueVars, manager>>

PumpTakes ==
  /\ pump.pc = "running" /\ pump.hand = 0 /\ local # <<>>
  /\ pump' = [pump EXCEPT !.hand = Head(local)] /\ local' = Tail(local)
  /\ UNCHANGED <<packets, contacts, events, serialVars, queueVars, manager>>

(* channelSink.Publish waits for room in the channel, or for the end.       *)
Publish ==
  /\ pump.pc = "running" /\ pump.hand # 0
  /\ Len(events) < EventBuffer
  /\ events' = Append(events, pump.hand) /\ pump' = [pump EXCEPT !.hand = 0]
  /\ UNCHANGED <<packets, contacts, local, serialVars, queueVars, manager>>

PumpEnds ==
  /\ service = "stopping" /\ pump.pc = "running"
  /\ pump' = [pump EXCEPT !.pc = "ended"]
  /\ UNCHANGED <<packets, contacts, local, events, serialVars, queueVars, manager>>

(* The MeshCore adapter's TryPublish: no room, no event.                    *)
TryPublish ==
  /\ companion.pc = "reading" /\ contacts < config.contacts
  /\ contacts' = contacts + 1
  /\ events' = IF Len(events) < EventBuffer THEN Append(events, 0) ELSE events
  /\ UNCHANGED <<packets, local, pump, serialVars, queueVars, manager>>

-----------------------------------------------------------------------------
(* The Run loop, until it returns.                                          *)
Looping == service \in {"running", "stopping"} /\ manager = "open"

OnAdapterEvent ==
  /\ Looping /\ Idle /\ events # <<>>
  /\ events' = Tail(events)
  /\ IF Head(events) = 0 THEN UNCHANGED queueVars ELSE Enqueue(Head(events))
  /\ UNCHANGED <<packets, contacts, local, pump, serialVars, manager>>

RestUnchanged == UNCHANGED <<serialVars, pipeVars, manager>>

WakeStep == Looping /\ Woken /\ RestUnchanged

TickStep == Looping /\ Ticked /\ RestUnchanged

LoopStep == Looping /\ DrainStep /\ RestUnchanged

AnswerStep == Looping /\ CloudStep /\ RestUnchanged

(* Run returns: the context was cancelled, which also ends a call to the    *)
(* cloud, or the portal failed while the context still holds.               *)
LoopReturns ==
  /\ Looping
  /\ Idle \/ (Posting /\ service = "stopping")
  /\ drain' = Resting /\ manager' = "returned"
  /\ UNCHANGED <<queue, wake, ready, losses, gone, serialVars, pipeVars>>

(* Manager.Close: cancel, close every adapter, wait for every Start to      *)
(* return, close the channel. MeshCore's Close closes the link it reads.    *)
CloseCancels ==
  /\ manager = "returned" /\ manager' = "closing"
  /\ service' = "stopping"
  /\ UNCHANGED <<config, attached, plugs, owners, companion, meshtastic, queueVars, pipeVars>>

(* Mutation: Close does not wait.                                           *)
StartsReturned_Assumed == TRUE

StartsReturned ==
  /\ pump.pc = "ended"
  /\ companion.pc \in {"new", "ended"}

CloseWaits ==
  /\ manager = "closing" /\ StartsReturned
  /\ companion.pc = "new" => config.companion = None
  /\ manager' = "closed"
  /\ UNCHANGED <<serialVars, queueVars, pipeVars>>

(* The reservations go last; each release undoes only its own acquisition.  *)
ReleaseReservations ==
  /\ manager = "closed" /\ manager' = "done"
  /\ owners' = [p \in Paths |-> IF p = meshtastic.lease THEN owners[p] ELSE None]
  /\ UNCHANGED <<config, attached, plugs, service, companion, meshtastic, queueVars, pipeVars>>

-----------------------------------------------------------------------------
elsewhere == UNCHANGED <<queueVars, pipeVars, manager>>

AdapterStep ==
  \/ (CompanionLoop \/ MeshtasticLoop) /\ elsewhere
  \/ CompanionCloses /\ elsewhere
  \/ StreamEnds /\ elsewhere

Outside ==
  \/ (Hotplug \/ Reserve \/ StopRequested) /\ elsewhere
  \/ (PortalDeauthorizes \/ Paired) /\ RestUnchanged

PipeStep == ReadPacket \/ PumpTakes \/ Publish \/ PumpEnds \/ TryPublish

RunStep ==
  \/ OnAdapterEvent \/ WakeStep \/ TickStep \/ LoopStep \/ AnswerStep \/ LoopReturns
  \/ CloseCancels \/ CloseWaits \/ ReleaseReservations

Next == Outside \/ AdapterStep \/ PipeStep \/ RunStep

Spec == Init /\ [][Next]_vars

(* Goroutines run; Go's select takes every case that stays ready; the cloud *)
(* answers or times out; the receiver is paired again in the end. Nobody    *)
(* has to stop the service, and a stopped service's device may stay silent, *)
(* so that nothing makes the Meshtastic loop return.                        *)
FairSpec ==
  /\ Spec
  /\ WF_vars(Reserve /\ elsewhere)
  /\ WF_vars(CompanionLoop /\ elsewhere) /\ WF_vars(CompanionCloses /\ service = "stopping" /\ elsewhere)
  /\ WF_vars(MeshtasticLoop /\ elsewhere)
  /\ WF_vars(StreamEnds /\ ~Occupied(meshtastic.tty) /\ elsewhere)
  /\ WF_vars(PumpTakes) /\ SF_vars(Publish) /\ WF_vars(PumpEnds)
  /\ SF_vars(OnAdapterEvent) /\ SF_vars(TickStep) /\ WF_vars(LoopStep) /\ WF_vars(AnswerStep)
  /\ SF_vars(LoopReturns /\ service = "stopping")
  /\ WF_vars(CloseCancels) /\ WF_vars(CloseWaits) /\ WF_vars(ReleaseReservations)
  /\ WF_vars(Paired /\ RestUnchanged)

-----------------------------------------------------------------------------
(* Types of the variables this module adds.                                 *)
TypePipeOK ==
  /\ packets \in Nat /\ contacts \in Nat
  /\ local \in Seq(Nat) /\ Len(local) <= LocalBuffer
  /\ events \in Seq(Nat) /\ Len(events) <= EventBuffer
  /\ pump \in [pc : {"running", "ended"}, hand : Nat]
  /\ manager \in {"open", "returned", "closing", "closed", "done"}

(* The loop that reads a device gets every frame the device writes,         *)
(* whatever console output came before it.                                  *)
ScannerInStep == meshtastic.pc = "reading" => FramesFound

(* The channel of events is closed only once nobody can publish into it any *)
(* more: a send on a closed channel would end the process during Close.     *)
NoSendAfterClose ==
  manager \in {"closed", "done"} =>
    pump.pc = "ended" /\ companion.pc \notin {"detect", "reading"}

(* A stopped service ends although nobody reads the channels any more and   *)
(* the Meshtastic loop may still sit in a read.                             *)
StopCompletes == service = "stopping" ~> manager = "done"

(* Every packet read leaves the receiver, by an acknowledgement, a refusal, *)
(* the full queue or the loss of the credentials, unless the cloud fails on *)
(* it each time; one that it fails on does not hold up the others.          *)
PacketsGoOn ==
  \A id \in UNION {1..c.packets : c \in Configs} \ Flaky :
    packets >= id ~> \/ id \in gone
                     \/ manager # "open" \/ service = "stopping"

(* A device the Meshtastic adapter may read is opened, again and again,     *)
(* however its sessions end and whatever was plugged before, unless none is *)
(* attached or all are leased to the other adapter: no lease of its own may *)
(* stay behind and hide a device from its detection.  Which of several      *)
(* attached devices it opens, and whether that one is a Meshtastic radio,   *)
(* is not said: a device that sends no frames is kept open.                 *)
RadioReadAgain ==
  []<>( \/ meshtastic.tty # None \/ service # "running"
        \/ \A p \in (IF config.meshtastic = None THEN Ttys ELSE {config.meshtastic}) :
             Opened(p) = None \/ owners[Normalized(p)] = "meshcore" )
=============================================================================
