------------------------- MODULE SerialDevices -------------------------
(***************************************************************************)
(* Serial devices shared by the two radio adapters: the lease table of     *)
(* internal/protocoladapter/lease.go, the reservations service.New takes   *)
(* before any adapter runs, and the two loops that detect, lease, open,    *)
(* read and close a device while radios come and go.                       *)
(*                                                                         *)
(* A radio is also the name of its /dev/serial/by-id link, which exists    *)
(* and resolves to a tty only while the radio is attached.                 *)
(*                                                                         *)
(* The Meshtastic transport is serial or bridge: json_stream, a mode for   *)
(* tests, takes no lease and is left out.                                  *)
(***************************************************************************)
EXTENDS Integers, FiniteSets

CONSTANTS
  Ttys,        \* device nodes, /dev/ttyACM0, /dev/ttyUSB0, ...
  Radios,      \* radios; each is also the path of its by-id link
  Configs,     \* configurations explored: [companion |-> p, meshtastic |-> q,
               \* at |-> where the radios may be at the start,
               \* plugs |-> bound: how often they are plugged or unplugged,
               \* packets, contacts |-> bounds: packets that the Meshtastic
               \* radio delivers, events of the MeshCore adapter]
  None         \* no path, tty or owner; as the Meshtastic path: detect one

Paths == Ttys \cup Radios

ASSUME ConfigAssumption ==
  /\ None \notin Paths \cup {"meshcore", "meshtastic"} /\ Ttys \cap Radios = {}
  /\ Configs \subseteq [companion : Paths \cup {None}, meshtastic : Paths \cup {None},
                         at : SUBSET [Radios -> Ttys \cup {None}],
                         plugs : Nat, packets : Nat, contacts : Nat]

VARIABLES
  config,      \* the configuration of this process
  attached,    \* radio -> the tty it is under, or None
  plugs,       \* radios plugged and unplugged so far
  service,     \* "starting", "refused", "running", "stopping"
  owners,      \* the lease table: path -> adapter, or None
  companion,   \* the MeshCore serial loop, with the lease it has to give back
  meshtastic   \* the Meshtastic loop; target in both is history: what the
               \* path named when the loop took its lease

serialVars == <<config, attached, plugs, service, owners, companion, meshtastic>>

(* Mutation: the path as it was written.                                    *)
Normalized_Verbatim(p) == p

(* What a path names: a link may name nothing.                              *)
Named(p) == IF p \in Radios THEN attached[p] ELSE p

(* The path a lease is kept under: symbolic links are followed as far as    *)
(* they exist at that moment.                                               *)
Normalized(p) == IF p \in Radios /\ attached[p] # None THEN attached[p] ELSE p

Occupied(t) == \E r \in Radios : attached[r] = t

(* The tty an open of the path reaches, None if there is no such file.      *)
Opened(p) ==
  IF p \in Radios THEN attached[p] ELSE IF p \in Ttys /\ Occupied(p) THEN p ELSE None

Admits(p, who) == owners[Normalized(p)] \in {None, who}

(* Acquire: the owner's second acquisition succeeds and its release does    *)
(* nothing; the lease that a successful call has to give back is LeaseOf.   *)
LeaseOf(p) == IF owners[Normalized(p)] = None THEN Normalized(p) ELSE None

Leased(p, who) == [owners EXCEPT ![Normalized(p)] = who]

Freed(table, p) == IF p = None THEN table ELSE [table EXCEPT ![p] = None]

SerialInit ==
  /\ config \in Configs
  /\ attached \in config.at
  /\ \A r, s \in Radios : r # s /\ attached[r] # None => attached[r] # attached[s]
  /\ plugs = 0
  /\ service = "starting"
  /\ owners = [p \in Paths |-> None]
  /\ companion = [pc |-> "new", lease |-> None, target |-> None, tty |-> None]
  /\ meshtastic = [pc |-> "new", device |-> None, lease |-> None, target |-> None, tty |-> None]

-----------------------------------------------------------------------------
(* The system's devices. A tty number is reused once nobody has it open.    *)

Plug(r, t) ==
  /\ plugs < config.plugs /\ plugs' = plugs + 1
  /\ attached[r] = None /\ ~Occupied(t)
  /\ t \notin {companion.tty, meshtastic.tty}
  /\ attached' = [attached EXCEPT ![r] = t]
  /\ UNCHANGED <<config, service, owners, companion, meshtastic>>

Unplug(r) ==
  /\ plugs < config.plugs /\ plugs' = plugs + 1
  /\ attached[r] # None
  /\ attached' = [attached EXCEPT ![r] = None]
  /\ UNCHANGED <<config, service, owners, companion, meshtastic>>

Hotplug == \E r \in Radios : Unplug(r) \/ \E t \in Ttys : Plug(r, t)

-----------------------------------------------------------------------------
(* service.New reserves the configured paths, MeshCore's first, for as long *)
(* as the process runs; a conflict undoes the reservations and New fails.   *)
Reserve ==
  /\ service = "starting"
  /\ LET c == IF config.companion = None THEN None ELSE Normalized(config.companion)
         q == IF config.meshtastic = None THEN None ELSE Normalized(config.meshtastic)
     IN  IF c # None /\ c = q
         THEN service' = "refused" /\ UNCHANGED owners
         ELSE /\ service' = "running"
              /\ owners' = [p \in Paths |-> CASE p = c -> "meshcore"
                                               [] p = q -> "meshtastic"
                                               [] OTHER -> None]
  /\ UNCHANGED <<config, attached, plugs, companion, meshtastic>>

(* The context of the service is cancelled.                                 *)
StopRequested ==
  /\ service = "running"
  /\ service' = "stopping"
  /\ UNCHANGED <<config, attached, plugs, owners, companion, meshtastic>>

Live == service \in {"running", "stopping"}

-----------------------------------------------------------------------------
(* Adapter.run of the MeshCore adapter: one lease for the whole run.        *)

companionOnly == UNCHANGED <<config, attached, plugs, service, meshtastic>>

CompanionStarts ==
  /\ Live /\ companion.pc = "new" /\ config.companion # None
  /\ IF Admits(config.companion, "meshcore")
     THEN /\ companion' = [companion EXCEPT !.pc = "detect", !.lease = LeaseOf(config.companion),
                                           !.target = Named(config.companion)]
          /\ owners' = Leased(config.companion, "meshcore")
     ELSE companion' = [companion EXCEPT !.pc = "conflict"] /\ UNCHANGED owners
  /\ companionOnly

CompanionOpens ==
  /\ service = "running" /\ companion.pc = "detect"
  /\ Opened(config.companion) # None
  /\ companion' = [companion EXCEPT !.pc = "reading", !.tty = Opened(config.companion)]
  /\ UNCHANGED owners /\ companionOnly

(* The stream ends, is malformed, or its link is closed by the shutdown.    *)
CompanionCloses ==
  /\ companion.pc = "reading"
  /\ companion' = [companion EXCEPT !.pc = "detect", !.tty = None]
  /\ UNCHANGED owners /\ companionOnly

CompanionEnds ==
  /\ service = "stopping" /\ companion.pc \in {"detect", "conflict"}
  /\ companion' = [companion EXCEPT !.pc = "ended", !.lease = None]
  /\ owners' = Freed(owners, companion.lease)
  /\ companionOnly

-----------------------------------------------------------------------------
(* The run goroutine of the Meshtastic service.                             *)

meshtasticOnly == UNCHANGED <<config, attached, plugs, service, companion>>

(* Without a configured path the first candidate nobody has leased is       *)
(* taken, under its normalized path; which one comes first depends on the   *)
(* names. A lease of the adapter's own counts as well.                      *)
Candidates ==
  IF config.meshtastic = None
  THEN {t \in Ttys : Occupied(t) /\ owners[t] = None}
  ELSE {p \in {config.meshtastic} : Opened(p) # None}

Detect ==
  /\ service = "running" /\ meshtastic.pc \in {"new", "detect"}
  /\ \E p \in Candidates : meshtastic' = [meshtastic EXCEPT !.pc = "acquire", !.device = p]
  /\ UNCHANGED owners /\ meshtasticOnly

AcquireSerialLease ==
  /\ meshtastic.pc = "acquire"
  /\ IF Admits(meshtastic.device, "meshtastic")
     THEN /\ meshtastic' = [meshtastic EXCEPT !.pc = "open", !.lease = LeaseOf(meshtastic.device),
                                             !.target = Named(meshtastic.device)]
          /\ owners' = Leased(meshtastic.device, "meshtastic")
     ELSE meshtastic' = [meshtastic EXCEPT !.pc = "detect"] /\ UNCHANGED owners
  /\ meshtasticOnly

OpenDevice ==
  /\ meshtastic.pc = "open"
  /\ LET t == Opened(meshtastic.device)
     IN  meshtastic' = IF t = None THEN [meshtastic EXCEPT !.pc = "release"]
                       ELSE [meshtastic EXCEPT !.pc = "reading", !.tty = t]
  /\ UNCHANGED owners /\ meshtasticOnly

(* The end of the stream, too many frames that do not decode, an idle       *)
(* bridge: the device is closed.                                            *)
StreamEnds ==
  /\ meshtastic.pc = "reading"
  /\ meshtastic' = [meshtastic EXCEPT !.pc = "release", !.tty = None]
  /\ UNCHANGED owners /\ meshtasticOnly

(* Mutation: the lease stays with the adapter after its session.            *)
ReleaseSerialLease_Kept ==
  /\ meshtastic.pc = "release"
  /\ meshtastic' = [meshtastic EXCEPT !.pc = "detect", !.lease = None]
  /\ UNCHANGED owners /\ meshtasticOnly

ReleaseSerialLease ==
  /\ meshtastic.pc = "release"
  /\ meshtastic' = [meshtastic EXCEPT !.pc = "detect", !.lease = None]
  /\ owners' = Freed(owners, meshtastic.lease)
  /\ meshtasticOnly

(* A context that was cancelled is seen between two devices.                *)
MeshtasticEnds ==
  /\ service = "stopping" /\ meshtastic.pc \in {"new", "detect"}
  /\ meshtastic' = [meshtastic EXCEPT !.pc = "ended"]
  /\ UNCHANGED owners /\ meshtasticOnly

CompanionLoop == CompanionStarts \/ CompanionOpens \/ CompanionCloses \/ CompanionEnds

MeshtasticLoop == Detect \/ AcquireSerialLease \/ OpenDevice \/ ReleaseSerialLease \/ MeshtasticEnds

-----------------------------------------------------------------------------
(* Types.                                                                   *)
TypeSerialOK ==
  /\ config \in Configs /\ plugs \in 0..config.plugs
  /\ attached \in [Radios -> Ttys \cup {None}]
  /\ service \in {"starting", "refused", "running", "stopping"}
  /\ owners \in [Paths -> {"meshcore", "meshtastic", None}]
  /\ companion \in [pc : {"new", "detect", "reading", "conflict", "ended"},
                     lease : Paths \cup {None}, target : Ttys \cup {None}, tty : Ttys \cup {None}]
  /\ meshtastic \in [pc : {"new", "detect", "acquire", "open", "reading", "release", "ended"},
                      device : Paths \cup {None}, lease : Paths \cup {None},
                      target : Ttys \cup {None}, tty : Ttys \cup {None}]
  /\ meshtastic.pc \in {"acquire", "open", "reading", "release"} => meshtastic.device # None

(* A lease excludes the other adapter from the device that its path named:  *)
(* two readers meet on one tty only if one of them came there by a link     *)
(* that named another device, or none, when its lease was taken.            *)
LeaseExcludes ==
  companion.tty # None /\ companion.tty = meshtastic.tty =>
    companion.target # companion.tty \/ meshtastic.target # meshtastic.tty

(* No device is read by two adapters: what runtime/                         *)
(* serial_reservations_test.go, "runtime reservation must exclude another   *)
(* adapter", says; links that move or were absent break it.                 *)
OneReaderPerDevice == companion.tty # None => companion.tty # meshtastic.tty
=============================================================================
