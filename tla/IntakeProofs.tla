---------------------------- MODULE IntakeProofs ----------------------------
(***************************************************************************)
(* Theorems about Intake for all values of its constants: any number of    *)
(* devices, radios, packets and re-pluggings, and buffers of any size.     *)
(***************************************************************************)
EXTENDS Intake, SequenceTheorems, WellFoundedInduction, TLAPS

-----------------------------------------------------------------------------
(* Type correctness.                                                       *)

(* What a path names is what its lease is kept under.                      *)
LEMMA NormalizedType ==
  ASSUME attached \in [Radios -> Ttys \cup {None}], NEW p \in Paths
  PROVE  /\ Normalized(p) \in Paths
         /\ Named(p) \in Ttys \cup {None}
         /\ Named(p) # None => Normalized(p) = Named(p)
BY DEF Normalized, Named, Paths

LEMMA ConfigType ==
  ASSUME NEW c \in Configs
  PROVE  /\ c.companion \in Paths \cup {None} /\ c.meshtastic \in Paths \cup {None}
         /\ c.at \subseteq [Radios -> Ttys \cup {None}]
         /\ c.plugs \in Nat /\ c.packets \in Nat /\ c.contacts \in Nat
BY ConfigAssumption

LEMMA HotplugType ==
  ASSUME TypeSerialOK, Hotplug
  PROVE  TypeSerialOK'
<1>1. plugs \in Nat /\ config.plugs \in Nat /\ plugs < config.plugs /\ plugs' = plugs + 1
  BY ConfigType DEF Hotplug, Plug, Unplug, TypeSerialOK
<1>2. plugs' \in 0..config.plugs
  BY <1>1
<1>3. attached' \in [Radios -> Ttys \cup {None}]
  BY DEF Hotplug, Plug, Unplug, TypeSerialOK
<1>4. UNCHANGED <<config, service, owners, companion, meshtastic>>
  BY DEF Hotplug, Plug, Unplug
<1> QED
  BY <1>2, <1>3, <1>4 DEF TypeSerialOK

LEMMA ReserveType ==
  ASSUME TypeSerialOK, Reserve
  PROVE  TypeSerialOK'
<1>1. owners' \in [Paths -> {"meshcore", "meshtastic", None}]
  BY DEF Reserve, TypeSerialOK
<1>2. service' \in {"refused", "running"}
  BY DEF Reserve
<1>3. UNCHANGED <<config, attached, plugs, companion, meshtastic>>
  BY DEF Reserve
<1> QED
  BY <1>1, <1>2, <1>3 DEF TypeSerialOK

LEMMA TableType ==
  ASSUME TypeSerialOK
  PROVE  /\ \A p \in Paths, who \in {"meshcore", "meshtastic"} :
              /\ Leased(p, who) \in [Paths -> {"meshcore", "meshtastic", None}]
              /\ LeaseOf(p) \in Paths \cup {None}
              /\ Named(p) \in Ttys \cup {None}
         /\ \A p \in Paths \cup {None} :
              Freed(owners, p) \in [Paths -> {"meshcore", "meshtastic", None}]
         /\ \A p : Opened(p) \in Ttys \cup {None}
<1>1. \A p \in Paths : Normalized(p) \in Paths /\ Named(p) \in Ttys \cup {None}
  BY NormalizedType DEF TypeSerialOK
<1>2. \A p : Opened(p) \in Ttys \cup {None}
  BY DEF Opened, TypeSerialOK
<1> QED
  BY <1>1, <1>2 DEF Leased, LeaseOf, Freed, TypeSerialOK

LEMMA CompanionType ==
  ASSUME TypeSerialOK, CompanionLoop
  PROVE  TypeSerialOK'
<1>1. config.companion \in Paths \cup {None}
  BY ConfigType DEF TypeSerialOK
<1>2. /\ companion' \in [pc : {"new", "detect", "reading", "conflict", "ended"},
                         lease : Paths \cup {None}, target : Ttys \cup {None},
                         tty : Ttys \cup {None}]
      /\ owners' \in [Paths -> {"meshcore", "meshtastic", None}]
  <2>1. CASE CompanionStarts
    <3>1. config.companion \in Paths
      BY <1>1, <2>1 DEF CompanionStarts
    <3>2. /\ Leased(config.companion, "meshcore") \in [Paths -> {"meshcore", "meshtastic", None}]
          /\ LeaseOf(config.companion) \in Paths \cup {None}
          /\ Named(config.companion) \in Ttys \cup {None}
      BY <3>1, TableType
    <3>3. owners' \in {owners, Leased(config.companion, "meshcore")}
      BY <2>1 DEF CompanionStarts
    <3>4. \/ companion' = [companion EXCEPT !.pc = "detect", !.lease = LeaseOf(config.companion),
                                            !.target = Named(config.companion)]
          \/ companion' = [companion EXCEPT !.pc = "conflict"]
      BY <2>1 DEF CompanionStarts
    <3> QED
      BY <3>2, <3>3, <3>4 DEF TypeSerialOK
  <2>2. CASE CompanionOpens
    BY <2>2, TableType DEF CompanionOpens, TypeSerialOK
  <2>3. CASE CompanionCloses
    BY <2>3 DEF CompanionCloses, TypeSerialOK
  <2>4. CASE CompanionEnds
    BY <2>4, TableType DEF CompanionEnds, TypeSerialOK
  <2> QED
    BY <2>1, <2>2, <2>3, <2>4 DEF CompanionLoop
<1>3. UNCHANGED <<config, attached, plugs, service, meshtastic>>
  BY DEF CompanionLoop, CompanionStarts, CompanionOpens, CompanionCloses, CompanionEnds, companionOnly
<1> QED
  BY <1>2, <1>3 DEF TypeSerialOK

LEMMA MeshtasticType ==
  ASSUME TypeSerialOK, MeshtasticLoop \/ StreamEnds
  PROVE  TypeSerialOK'
<1>1. config.meshtastic \in Paths \cup {None}
  BY ConfigType DEF TypeSerialOK
<1>2. Candidates \subseteq Paths
  BY <1>1 DEF Candidates, Paths
<1>3. /\ meshtastic' \in [pc : {"new", "detect", "acquire", "open", "reading", "release", "ended"},
                          device : Paths \cup {None}, lease : Paths \cup {None},
                          target : Ttys \cup {None}, tty : Ttys \cup {None}]
      /\ owners' \in [Paths -> {"meshcore", "meshtastic", None}]
      /\ meshtastic'.pc \in {"acquire", "open", "reading", "release"} => meshtastic'.device # None
  <2>1. CASE Detect
    <3>1. PICK p \in Candidates : meshtastic' = [meshtastic EXCEPT !.pc = "acquire", !.device = p]
      BY <2>1 DEF Detect
    <3>2. p \in Paths /\ p # None /\ owners' = owners
      BY <1>2, <2>1, ConfigAssumption DEF Detect
    <3> QED
      BY <3>1, <3>2 DEF TypeSerialOK
  <2>2. CASE AcquireSerialLease
    <3>1. meshtastic.pc = "acquire" /\ meshtastic.device \in Paths
      BY <2>2 DEF AcquireSerialLease, TypeSerialOK
    <3>2. /\ Leased(meshtastic.device, "meshtastic") \in [Paths -> {"meshcore", "meshtastic", None}]
          /\ LeaseOf(meshtastic.device) \in Paths \cup {None}
          /\ Named(meshtastic.device) \in Ttys \cup {None}
      BY <3>1, TableType
    <3>3. owners' \in {owners, Leased(meshtastic.device, "meshtastic")}
      BY <2>2 DEF AcquireSerialLease
    <3>4. \/ meshtastic' = [meshtastic EXCEPT !.pc = "open", !.lease = LeaseOf(meshtastic.device),
                                              !.target = Named(meshtastic.device)]
          \/ meshtastic' = [meshtastic EXCEPT !.pc = "detect"]
      BY <2>2 DEF AcquireSerialLease
    <3>5. meshtastic' \in [pc : {"new", "detect", "acquire", "open", "reading", "release", "ended"},
                           device : Paths \cup {None}, lease : Paths \cup {None},
                           target : Ttys \cup {None}, tty : Ttys \cup {None}]
      BY <3>2, <3>4 DEF TypeSerialOK
    <3>6. meshtastic'.device = meshtastic.device
      BY <3>4 DEF TypeSerialOK
    <3>7. meshtastic.device # None
      BY <3>1, ConfigAssumption
    <3> QED
      BY <3>2, <3>3, <3>5, <3>6, <3>7 DEF TypeSerialOK
  <2>3. CASE OpenDevice
    BY <2>3, TableType DEF OpenDevice, TypeSerialOK
  <2>4. CASE StreamEnds
    BY <2>4 DEF StreamEnds, TypeSerialOK
  <2>5. CASE ReleaseSerialLease
    <3>1. meshtastic.lease \in Paths \cup {None}
      BY DEF TypeSerialOK
    <3>2. Freed(owners, meshtastic.lease) \in [Paths -> {"meshcore", "meshtastic", None}]
      BY <3>1, TableType
    <3> QED
      BY <2>5, <3>2 DEF ReleaseSerialLease, TypeSerialOK
  <2>6. CASE MeshtasticEnds
    BY <2>6 DEF MeshtasticEnds, TypeSerialOK
  <2> QED
    BY <2>1, <2>2, <2>3, <2>4, <2>5, <2>6 DEF MeshtasticLoop
<1>4. UNCHANGED <<config, attached, plugs, service, companion>>
  BY DEF MeshtasticLoop, Detect, AcquireSerialLease, OpenDevice, StreamEnds,
         ReleaseSerialLease, MeshtasticEnds, meshtasticOnly
<1> QED
  BY <1>3, <1>4 DEF TypeSerialOK

LEMMA InitType ==
  ASSUME Init
  PROVE  TypeSerialOK /\ TypePipeOK
<1>1. config \in Configs /\ attached \in config.at /\ plugs = 0
  BY DEF Init, SerialInit
<1>2. attached \in [Radios -> Ttys \cup {None}] /\ plugs \in 0..config.plugs
  BY <1>1, ConfigType
<1> QED
  BY <1>1, <1>2, BufferAssumption DEF Init, SerialInit, TypeSerialOK, TypePipeOK

-----------------------------------------------------------------------------
(* The steps, by what they do to the devices and to the shutdown.          *)

DeviceStep ==
  \/ Hotplug \/ Reserve \/ StopRequested
  \/ CompanionLoop \/ MeshtasticLoop \/ StreamEnds

PacketStep ==
  /\ UNCHANGED <<serialVars, manager>>
  /\ \/ pump'.pc = pump.pc
     \/ pump'.pc = "ended" /\ service = "stopping"

LEMMA Sorted ==
  ASSUME TypeSerialOK, TypePipeOK, [Next]_vars
  PROVE  /\ TypePipeOK'
         /\ \/ DeviceStep /\ UNCHANGED <<pump, manager>>
            \/ PacketStep
            \/ LoopReturns \/ CloseCancels \/ CloseWaits \/ ReleaseReservations
<1>1. CASE UNCHANGED vars
  BY <1>1 DEF vars, pipeVars, PacketStep, TypePipeOK
<1>2. ASSUME DeviceStep, elsewhere
      PROVE  TypePipeOK' /\ UNCHANGED <<pump, manager>>
  BY <1>2 DEF elsewhere, pipeVars, TypePipeOK
<1>3. ASSUME RestUnchanged
      PROVE  TypePipeOK' /\ PacketStep
  BY <1>3 DEF RestUnchanged, pipeVars, TypePipeOK, PacketStep
<1>4. CASE PipeStep
  <2>1. UNCHANGED <<serialVars, manager>>
    BY <1>4 DEF PipeStep, ReadPacket, PumpTakes, Publish, PumpEnds, TryPublish
  <2>2. CASE ReadPacket
    <3>1. packets' \in Nat /\ local' = Append(local, packets') /\ Len(local) < LocalBuffer
          /\ UNCHANGED <<contacts, pump, events, manager>>
      BY <2>2 DEF ReadPacket, TypePipeOK
    <3>2. LocalBuffer \in Nat /\ Len(local) \in Nat
      BY BufferAssumption DEF TypePipeOK
    <3>3. local' \in Seq(Nat) /\ Len(local') = Len(local) + 1
      BY <3>1 DEF TypePipeOK
    <3>4. Len(local') <= LocalBuffer
      BY <3>1, <3>2, <3>3
    <3> QED
      BY <2>1, <3>1, <3>3, <3>4 DEF TypePipeOK, PacketStep
  <2>3. CASE PumpTakes
    <3>1. /\ local # <<>> /\ local' = Tail(local) /\ pump' = [pump EXCEPT !.hand = Head(local)]
          /\ UNCHANGED <<packets, contacts, events, manager>>
      BY <2>3 DEF PumpTakes
    <3>2. Head(local) \in Nat /\ local' \in Seq(Nat) /\ Len(local') <= LocalBuffer
      BY <3>1, BufferAssumption DEF TypePipeOK
    <3> QED
      BY <2>1, <3>1, <3>2 DEF TypePipeOK, PacketStep
  <2>4. CASE Publish
    <3>1. /\ events' = Append(events, pump.hand) /\ Len(events) < EventBuffer
          /\ pump' = [pump EXCEPT !.hand = 0]
          /\ UNCHANGED <<packets, contacts, local, manager>>
      BY <2>4 DEF Publish
    <3>2. EventBuffer \in Nat /\ Len(events) \in Nat /\ pump.hand \in Nat
      BY BufferAssumption DEF TypePipeOK
    <3>3. events' \in Seq(Nat) /\ Len(events') = Len(events) + 1
      BY <3>1, <3>2 DEF TypePipeOK
    <3>4. Len(events') <= EventBuffer
      BY <3>1, <3>2, <3>3
    <3> QED
      BY <2>1, <3>1, <3>3, <3>4 DEF TypePipeOK, PacketStep
  <2>5. CASE PumpEnds
    BY <2>1, <2>5 DEF PumpEnds, TypePipeOK, PacketStep
  <2>6. CASE TryPublish
    <3>1. /\ contacts' = contacts + 1
          /\ events' = IF Len(events) < EventBuffer THEN Append(events, 0) ELSE events
          /\ UNCHANGED <<packets, local, pump, manager>>
      BY <2>6 DEF TryPublish
    <3>2. contacts' \in Nat
      BY <3>1 DEF TypePipeOK
    <3>3. EventBuffer \in Nat /\ Len(events) \in Nat
      BY BufferAssumption DEF TypePipeOK
    <3>4. CASE Len(events) < EventBuffer
      <4>1. events' \in Seq(Nat) /\ Len(events') = Len(events) + 1
        BY <3>1, <3>4 DEF TypePipeOK
      <4>2. Len(events') <= EventBuffer
        BY <3>3, <3>4, <4>1
      <4> QED
        BY <2>1, <3>1, <3>2, <4>1, <4>2 DEF TypePipeOK, PacketStep
    <3>5. CASE ~(Len(events) < EventBuffer)
      BY <2>1, <3>1, <3>2, <3>5 DEF TypePipeOK, PacketStep
    <3> QED
      BY <3>4, <3>5
  <2> QED
    BY <1>4, <2>2, <2>3, <2>4, <2>5, <2>6 DEF PipeStep
<1>5. CASE OnAdapterEvent
  <2>1. /\ events # <<>> /\ events' = Tail(events)
        /\ UNCHANGED <<packets, contacts, local, pump, serialVars, manager>>
    BY <1>5 DEF OnAdapterEvent
  <2>2. events' \in Seq(Nat) /\ Len(events') <= EventBuffer
    BY <2>1, BufferAssumption DEF TypePipeOK
  <2> QED
    BY <2>1, <2>2 DEF TypePipeOK, PacketStep
<1>6. CASE LoopReturns \/ CloseCancels \/ CloseWaits \/ ReleaseReservations
  BY <1>6 DEF LoopReturns, CloseCancels, CloseWaits, ReleaseReservations, pipeVars, TypePipeOK
<1>7. CASE Outside
  BY <1>2, <1>3, <1>7 DEF Outside, DeviceStep
<1>8. CASE AdapterStep
  BY <1>2, <1>8 DEF AdapterStep, DeviceStep, CompanionLoop
<1>9. CASE WakeStep \/ TickStep \/ LoopStep \/ AnswerStep
  BY <1>3, <1>9 DEF WakeStep, TickStep, LoopStep, AnswerStep
<1> QED
  BY <1>1, <1>4, <1>5, <1>6, <1>7, <1>8, <1>9 DEF Next, RunStep

LEMMA SerialType ==
  ASSUME TypeSerialOK, TypePipeOK, [Next]_vars
  PROVE  TypeSerialOK'
<1>1. CASE DeviceStep
  <2>1. CASE StopRequested
    BY <2>1 DEF StopRequested, TypeSerialOK
  <2> QED
    BY <1>1, <2>1, HotplugType, ReserveType, CompanionType, MeshtasticType DEF DeviceStep
<1>2. CASE PacketStep
  BY <1>2 DEF PacketStep, serialVars, TypeSerialOK
<1>3. CASE LoopReturns \/ CloseWaits
  BY <1>3 DEF LoopReturns, CloseWaits, serialVars, TypeSerialOK
<1>4. CASE CloseCancels
  BY <1>4 DEF CloseCancels, TypeSerialOK
<1>5. CASE ReleaseReservations
  BY <1>5 DEF ReleaseReservations, TypeSerialOK
<1> QED
  BY <1>1, <1>2, <1>3, <1>4, <1>5, Sorted

(* Every variable keeps its type: in particular an adapter that acquires a *)
(* lease, opens or releases a device has one (lease.go, native_serial.go). *)
THEOREM IntakeTypeCorrect == Spec => [](TypeSerialOK /\ TypePipeOK)
<1>1. Init => TypeSerialOK /\ TypePipeOK
  BY InitType
<1>2. TypeSerialOK /\ TypePipeOK /\ [Next]_vars => TypeSerialOK' /\ TypePipeOK'
  BY Sorted, SerialType
<1> QED
  BY <1>1, <1>2, PTL DEF Spec

-----------------------------------------------------------------------------
(* The shutdown.                                                           *)

NotStarted ==
  service \in {"starting", "refused"} =>
    companion.pc = "new" /\ meshtastic.pc = "new" /\ manager = "open"

Waited ==
  /\ manager \in {"closing", "closed", "done"} => service = "stopping"
  /\ manager \in {"closed", "done"} =>
       /\ pump.pc = "ended" /\ companion.pc \in {"new", "ended"}
       /\ companion.pc = "new" => config.companion = None

Order == TypeSerialOK /\ TypePipeOK /\ NotStarted /\ Waited

(* Once the service stops, the MeshCore loop can only run on if it had     *)
(* started, or is configured; an ended one stays ended.                    *)
LEMMA OrderNext ==
  ASSUME Order, [Next]_vars
  PROVE  Order'
<1> USE DEF Order
<1>1. TypeSerialOK' /\ TypePipeOK'
  BY Sorted, SerialType
<1> SUFFICES NotStarted' /\ Waited'
  BY <1>1
<1>2. CASE DeviceStep /\ UNCHANGED <<pump, manager>>
  <2>1. CASE Hotplug
    BY <1>2, <2>1 DEF Hotplug, Plug, Unplug, NotStarted, Waited
  <2>2. CASE Reserve
    BY <1>2, <2>2 DEF Reserve, NotStarted, Waited
  <2>3. CASE StopRequested
    BY <1>2, <2>3 DEF StopRequested, NotStarted, Waited
  <2>4. CASE CompanionLoop
    BY <1>2, <2>4 DEF CompanionLoop, CompanionStarts, CompanionOpens, CompanionCloses, CompanionEnds,
                      companionOnly, Live, NotStarted, Waited, TypeSerialOK
  <2>5. CASE MeshtasticLoop \/ StreamEnds
    BY <1>2, <2>5 DEF MeshtasticLoop, Detect, AcquireSerialLease, OpenDevice, StreamEnds,
                      ReleaseSerialLease, MeshtasticEnds, meshtasticOnly, NotStarted, Waited
  <2> QED
    BY <1>2, <2>1, <2>2, <2>3, <2>4, <2>5 DEF DeviceStep
<1>3. CASE PacketStep
  BY <1>3 DEF PacketStep, serialVars, NotStarted, Waited
<1>4. CASE LoopReturns
  BY <1>4 DEF LoopReturns, Looping, serialVars, pipeVars, NotStarted, Waited
<1>5. CASE CloseCancels
  BY <1>5 DEF CloseCancels, pipeVars, NotStarted, Waited
<1>6. CASE CloseWaits
  BY <1>6 DEF CloseWaits, StartsReturned, serialVars, pipeVars, NotStarted, Waited
<1>7. CASE ReleaseReservations
  BY <1>7 DEF ReleaseReservations, pipeVars, NotStarted, Waited
<1> QED
  BY <1>2, <1>3, <1>4, <1>5, <1>6, <1>7, Sorted

LEMMA OrderInit ==
  ASSUME Init
  PROVE  Order
<1>1. NotStarted /\ Waited
  BY DEF Init, SerialInit, NotStarted, Waited
<1> QED
  BY <1>1, InitType DEF Order

(* Manager.Close closes the channel of events after every Start returned,  *)
(* so nobody sends on the closed channel.                                  *)
THEOREM NeverSendAfterClose == Spec => []NoSendAfterClose
<1>1. Init => Order
  BY OrderInit
<1>2. Order /\ [Next]_vars => Order'
  BY OrderNext
<1>3. Order => NoSendAfterClose
  BY DEF Order, Waited, NoSendAfterClose
<1> QED
  BY <1>1, <1>2, <1>3, PTL DEF Spec

-----------------------------------------------------------------------------
(* Leases.                                                                 *)

(* What its path named when a loop took its lease stays leased to it until *)
(* the loop gives the lease back, or the reservations go.                  *)
CompanionHolds ==
  /\ companion.pc # "new" => config.companion # None
  /\ companion.tty # None => companion.pc = "reading"
  /\ companion.lease # None =>
       companion.pc \in {"detect", "reading"} /\ owners[companion.lease] = "meshcore"
  /\ companion.pc \in {"detect", "reading"} /\ companion.target # None =>
       owners[companion.target] = "meshcore"

MeshtasticHolds ==
  /\ meshtastic.tty # None => meshtastic.pc = "reading"
  /\ meshtastic.lease # None =>
       meshtastic.pc \in {"open", "reading", "release"} /\ owners[meshtastic.lease] = "meshtastic"
  /\ meshtastic.pc \in {"open", "reading", "release"} /\ meshtastic.target # None =>
       manager = "done" \/ owners[meshtastic.target] = "meshtastic"

Leases == Order /\ CompanionHolds /\ MeshtasticHolds

LEMMA ReserveLeases ==
  ASSUME Leases, Reserve, UNCHANGED <<pump, manager>>
  PROVE  CompanionHolds' /\ MeshtasticHolds'
<1>1. companion.pc = "new" /\ meshtastic.pc = "new" /\ UNCHANGED <<companion, meshtastic, config>>
  BY DEF Reserve, Leases, Order, NotStarted
<1> QED
  BY <1>1 DEF Leases, CompanionHolds, MeshtasticHolds

LEMMA HotplugLeases ==
  ASSUME Leases, Hotplug, UNCHANGED <<pump, manager>>
  PROVE  CompanionHolds' /\ MeshtasticHolds'
<1>1. UNCHANGED <<config, service, owners, companion, meshtastic>>
  BY DEF Hotplug, Plug, Unplug
<1> QED
  BY <1>1 DEF Leases, CompanionHolds, MeshtasticHolds

(* The MeshCore adapter takes a path that is free or its own and gives back *)
(* what it took itself; a path of the other adapter is neither.             *)
LEMMA CompanionLeases ==
  ASSUME Leases, CompanionLoop, UNCHANGED <<pump, manager>>
  PROVE  CompanionHolds' /\ MeshtasticHolds'
<1> DEFINE p == Normalized(config.companion)
           n == Named(config.companion)
<1>1. TypeSerialOK /\ CompanionHolds /\ MeshtasticHolds
  BY DEF Leases, Order
<1>2. UNCHANGED <<config, attached, plugs, service, meshtastic, manager>>
  BY DEF CompanionLoop, CompanionStarts, CompanionOpens, CompanionCloses, CompanionEnds, companionOnly
<1>3. /\ config.companion \in Paths \cup {None}
      /\ config.companion # None => p \in Paths /\ n \in Ttys \cup {None} /\ (n # None => n = p)
      /\ owners \in [Paths -> {"meshcore", "meshtastic", None}]
      /\ None \notin {"meshcore", "meshtastic"} /\ None \notin Paths
  BY <1>1, ConfigType, NormalizedType, ConfigAssumption DEF TypeSerialOK
<1>4. /\ companion \in [pc : {"new", "detect", "reading", "conflict", "ended"},
                         lease : Paths \cup {None}, target : Ttys \cup {None}, tty : Ttys \cup {None}]
      /\ meshtastic.lease \in Paths \cup {None} /\ meshtastic.target \in Ttys \cup {None}
      /\ Ttys \subseteq Paths
  BY <1>1 DEF TypeSerialOK, Paths
<1>5. ASSUME \A q \in Paths : owners[q] = "meshtastic" => owners'[q] = "meshtastic"
      PROVE  MeshtasticHolds'
  BY <1>1, <1>2, <1>3, <1>4, <1>5 DEF MeshtasticHolds
<1>6. CASE CompanionStarts
  <2>1. CASE Admits(config.companion, "meshcore")
    <3>1. /\ config.companion # None /\ companion.pc = "new"
          /\ companion' = [companion EXCEPT !.pc = "detect", !.lease = LeaseOf(config.companion),
                                           !.target = n]
          /\ owners' = [owners EXCEPT ![p] = "meshcore"]
          /\ owners[p] \in {None, "meshcore"} /\ LeaseOf(config.companion) \in {p, None}
      BY <1>6, <2>1 DEF CompanionStarts, Leased, Admits, LeaseOf
    <3> HIDE DEF p, n
    <3>2. /\ companion'.pc = "detect" /\ companion'.tty = companion.tty
          /\ companion'.lease \in {p, None} /\ companion'.target = n
      BY <1>4, <3>1
    <3>3. companion.tty = None
      BY <1>1, <3>1 DEF CompanionHolds
    <3>4. p \in Paths /\ owners'[p] = "meshcore" /\ (n # None => n = p)
      BY <1>3, <3>1
    <3>5. \A q \in Paths : owners[q] = "meshtastic" => owners'[q] = "meshtastic"
      BY <1>3, <3>1
    <3>6. CompanionHolds'
      BY <1>2, <3>1, <3>2, <3>3, <3>4 DEF CompanionHolds
    <3> QED
      BY <1>5, <3>5, <3>6
  <2>2. CASE ~Admits(config.companion, "meshcore")
    <3>1. /\ companion' = [companion EXCEPT !.pc = "conflict"] /\ owners' = owners
          /\ config.companion # None /\ companion.pc = "new"
      BY <1>6, <2>2 DEF CompanionStarts
    <3>2. /\ companion'.pc = "conflict" /\ companion'.tty = companion.tty
          /\ companion'.lease = companion.lease
      BY <1>4, <3>1
    <3>3. companion.tty = None /\ companion.lease = None
      BY <1>1, <3>1 DEF CompanionHolds
    <3>4. CompanionHolds'
      BY <1>2, <3>1, <3>2, <3>3 DEF CompanionHolds
    <3> QED
      BY <1>5, <3>1, <3>4
  <2> QED
    BY <2>1, <2>2
<1>7. CASE CompanionOpens
  <2>1. /\ companion.pc = "detect" /\ owners' = owners
        /\ companion' = [companion EXCEPT !.pc = "reading", !.tty = Opened(config.companion)]
    BY <1>7 DEF CompanionOpens
  <2>2. /\ companion'.pc = "reading" /\ companion'.lease = companion.lease
        /\ companion'.target = companion.target
    BY <1>4, <2>1
  <2>3. CompanionHolds'
    BY <1>1, <1>2, <2>1, <2>2 DEF CompanionHolds
  <2> QED
    BY <1>5, <2>1, <2>3
<1>8. CASE CompanionCloses
  <2>1. /\ companion.pc = "reading" /\ owners' = owners
        /\ companion' = [companion EXCEPT !.pc = "detect", !.tty = None]
    BY <1>8 DEF CompanionCloses
  <2>2. /\ companion'.pc = "detect" /\ companion'.tty = None
        /\ companion'.lease = companion.lease /\ companion'.target = companion.target
    BY <1>4, <2>1
  <2>3. CompanionHolds'
    BY <1>1, <1>2, <2>1, <2>2 DEF CompanionHolds
  <2> QED
    BY <1>5, <2>1, <2>3
<1>9. CASE CompanionEnds
  <2>1. /\ companion.pc \in {"detect", "conflict"} /\ owners' = Freed(owners, companion.lease)
        /\ companion' = [companion EXCEPT !.pc = "ended", !.lease = None]
    BY <1>9 DEF CompanionEnds
  <2>2. companion'.pc = "ended" /\ companion'.tty = companion.tty /\ companion'.lease = None
    BY <1>4, <2>1
  <2>3. companion.tty = None
    BY <1>1, <2>1 DEF CompanionHolds
  <2>4. \A q \in Paths : owners[q] = "meshtastic" => owners'[q] = "meshtastic"
    BY <1>1, <1>3, <1>4, <2>1 DEF Freed, CompanionHolds
  <2>5. CompanionHolds'
    BY <1>1, <1>2, <2>1, <2>2, <2>3 DEF CompanionHolds
  <2> QED
    BY <1>5, <2>4, <2>5
<1> QED
  BY <1>6, <1>7, <1>8, <1>9 DEF CompanionLoop

(* So does the Meshtastic adapter.                                          *)
LEMMA MeshtasticLeases ==
  ASSUME Leases, MeshtasticLoop \/ StreamEnds, UNCHANGED <<pump, manager>>
  PROVE  CompanionHolds' /\ MeshtasticHolds'
<1> DEFINE p == Normalized(meshtastic.device)
           n == Named(meshtastic.device)
<1>1. TypeSerialOK /\ CompanionHolds /\ MeshtasticHolds
  BY DEF Leases, Order
<1>2. UNCHANGED <<config, attached, plugs, service, companion, manager>>
  BY DEF MeshtasticLoop, Detect, AcquireSerialLease, OpenDevice, StreamEnds,
         ReleaseSerialLease, MeshtasticEnds, meshtasticOnly
<1>3. /\ meshtastic.pc = "acquire" =>
           p \in Paths /\ n \in Ttys \cup {None} /\ (n # None => n = p)
      /\ owners \in [Paths -> {"meshcore", "meshtastic", None}]
      /\ None \notin {"meshcore", "meshtastic"} /\ None \notin Paths
  BY <1>1, NormalizedType, ConfigAssumption DEF TypeSerialOK
<1>4. /\ meshtastic \in [pc : {"new", "detect", "acquire", "open", "reading", "release", "ended"},
                          device : Paths \cup {None}, lease : Paths \cup {None},
                          target : Ttys \cup {None}, tty : Ttys \cup {None}]
      /\ companion.lease \in Paths \cup {None} /\ companion.target \in Ttys \cup {None}
      /\ Ttys \subseteq Paths
  BY <1>1 DEF TypeSerialOK, Paths
<1>5. ASSUME \A q \in Paths : owners[q] = "meshcore" => owners'[q] = "meshcore"
      PROVE  CompanionHolds'
  BY <1>1, <1>2, <1>3, <1>4, <1>5 DEF CompanionHolds
<1>6. CASE Detect
  <2>1. PICK q \in Candidates : meshtastic' = [meshtastic EXCEPT !.pc = "acquire", !.device = q]
    BY <1>6 DEF Detect
  <2>2. owners' = owners /\ meshtastic.pc \in {"new", "detect"}
    BY <1>6 DEF Detect
  <2>3. /\ meshtastic'.pc = "acquire"
        /\ meshtastic'.lease = meshtastic.lease /\ meshtastic'.tty = meshtastic.tty
    BY <1>4, <2>1
  <2>4. MeshtasticHolds'
    BY <1>1, <2>2, <2>3 DEF MeshtasticHolds
  <2> QED
    BY <1>5, <2>2, <2>4
<1>7. CASE AcquireSerialLease
  <2>1. CASE Admits(meshtastic.device, "meshtastic")
    <3>1. /\ meshtastic.pc = "acquire"
          /\ meshtastic' = [meshtastic EXCEPT !.pc = "open", !.lease = LeaseOf(meshtastic.device),
                                             !.target = n]
          /\ owners' = [owners EXCEPT ![p] = "meshtastic"]
          /\ owners[p] \in {None, "meshtastic"} /\ LeaseOf(meshtastic.device) \in {p, None}
      BY <1>7, <2>1 DEF AcquireSerialLease, Leased, Admits, LeaseOf
    <3> HIDE DEF p, n
    <3>2. /\ meshtastic'.pc = "open" /\ meshtastic'.tty = meshtastic.tty
          /\ meshtastic'.lease \in {p, None} /\ meshtastic'.target = n
      BY <1>4, <3>1
    <3>3. meshtastic.tty = None
      BY <1>1, <3>1 DEF MeshtasticHolds
    <3>4. p \in Paths /\ owners'[p] = "meshtastic" /\ (n # None => n = p)
      BY <1>3, <3>1
    <3>5. \A q \in Paths : owners[q] = "meshcore" => owners'[q] = "meshcore"
      BY <1>3, <3>1
    <3>6. MeshtasticHolds'
      BY <1>2, <3>2, <3>3, <3>4 DEF MeshtasticHolds
    <3> QED
      BY <1>5, <3>5, <3>6
  <2>2. CASE ~Admits(meshtastic.device, "meshtastic")
    <3>1. /\ meshtastic.pc = "acquire" /\ owners' = owners
          /\ meshtastic' = [meshtastic EXCEPT !.pc = "detect"]
      BY <1>7, <2>2 DEF AcquireSerialLease
    <3>2. /\ meshtastic'.pc = "detect" /\ meshtastic'.tty = meshtastic.tty
          /\ meshtastic'.lease = meshtastic.lease
      BY <1>4, <3>1
    <3>3. MeshtasticHolds'
      BY <1>1, <3>1, <3>2 DEF MeshtasticHolds
    <3> QED
      BY <1>5, <3>1, <3>3
  <2> QED
    BY <2>1, <2>2
<1>8. CASE OpenDevice
  <2>1. meshtastic.pc = "open" /\ owners' = owners
    BY <1>8 DEF OpenDevice
  <2>2. /\ meshtastic'.target = meshtastic.target /\ meshtastic'.lease = meshtastic.lease
        /\ \/ meshtastic'.pc = "release" /\ meshtastic'.tty = meshtastic.tty
           \/ meshtastic'.pc = "reading"
    BY <1>4, <1>8 DEF OpenDevice
  <2>3. MeshtasticHolds'
    BY <1>1, <1>2, <2>1, <2>2 DEF MeshtasticHolds
  <2> QED
    BY <1>5, <2>1, <2>3
<1>9. CASE StreamEnds
  <2>1. /\ meshtastic.pc = "reading" /\ owners' = owners
        /\ meshtastic' = [meshtastic EXCEPT !.pc = "release", !.tty = None]
    BY <1>9 DEF StreamEnds
  <2>2. /\ meshtastic'.pc = "release" /\ meshtastic'.tty = None
        /\ meshtastic'.lease = meshtastic.lease /\ meshtastic'.target = meshtastic.target
    BY <1>4, <2>1
  <2>3. MeshtasticHolds'
    BY <1>1, <1>2, <2>1, <2>2 DEF MeshtasticHolds
  <2> QED
    BY <1>5, <2>1, <2>3
<1>10. CASE ReleaseSerialLease
  <2>1. /\ meshtastic.pc = "release" /\ owners' = Freed(owners, meshtastic.lease)
        /\ meshtastic' = [meshtastic EXCEPT !.pc = "detect", !.lease = None]
    BY <1>10 DEF ReleaseSerialLease
  <2>2. meshtastic'.pc = "detect" /\ meshtastic'.tty = meshtastic.tty /\ meshtastic'.lease = None
    BY <1>4, <2>1
  <2>3. meshtastic.tty = None
    BY <1>1, <2>1 DEF MeshtasticHolds
  <2>4. \A q \in Paths : owners[q] = "meshcore" => owners'[q] = "meshcore"
    BY <1>1, <1>3, <1>4, <2>1 DEF Freed, MeshtasticHolds
  <2>5. MeshtasticHolds'
    BY <2>2, <2>3 DEF MeshtasticHolds
  <2> QED
    BY <1>5, <2>4, <2>5
<1>11. CASE MeshtasticEnds
  <2>1. /\ meshtastic.pc \in {"new", "detect"} /\ owners' = owners
        /\ meshtastic' = [meshtastic EXCEPT !.pc = "ended"]
    BY <1>11 DEF MeshtasticEnds
  <2>2. /\ meshtastic'.pc = "ended" /\ meshtastic'.tty = meshtastic.tty
        /\ meshtastic'.lease = meshtastic.lease
    BY <1>4, <2>1
  <2>3. MeshtasticHolds'
    BY <1>1, <2>1, <2>2 DEF MeshtasticHolds
  <2> QED
    BY <1>5, <2>1, <2>3
<1> QED
  BY <1>6, <1>7, <1>8, <1>9, <1>10, <1>11 DEF MeshtasticLoop

LEMMA LeasesNext ==
  ASSUME Leases, [Next]_vars
  PROVE  Leases'
<1>1. Order /\ Order' /\ CompanionHolds /\ MeshtasticHolds /\ TypeSerialOK
  BY OrderNext DEF Leases, Order
<1> SUFFICES CompanionHolds' /\ MeshtasticHolds'
  BY <1>1 DEF Leases
<1>2. CASE DeviceStep /\ UNCHANGED <<pump, manager>>
  <2>1. CASE StopRequested
    BY <1>1, <1>2, <2>1 DEF StopRequested, CompanionHolds, MeshtasticHolds
  <2> QED
    BY <1>2, <2>1, ReserveLeases, HotplugLeases, CompanionLeases, MeshtasticLeases DEF DeviceStep
<1>3. CASE PacketStep
  BY <1>1, <1>3 DEF PacketStep, serialVars, CompanionHolds, MeshtasticHolds
<1>4. CASE LoopReturns
  BY <1>1, <1>4 DEF LoopReturns, Looping, serialVars, CompanionHolds, MeshtasticHolds
<1>5. CASE CloseCancels
  BY <1>1, <1>5 DEF CloseCancels, CompanionHolds, MeshtasticHolds
<1>6. CASE CloseWaits
  BY <1>1, <1>6 DEF CloseWaits, serialVars, CompanionHolds, MeshtasticHolds
<1>7. CASE ReleaseReservations
  <2>1. /\ companion.pc \in {"new", "ended"} /\ manager' = "done"
        /\ owners' = [q \in Paths |-> IF q = meshtastic.lease THEN owners[q] ELSE None]
        /\ UNCHANGED <<config, companion, meshtastic>>
    BY <1>1, <1>7 DEF ReleaseReservations, Order, Waited
  <2>2. companion.tty = None /\ companion.lease = None
    BY <1>1, <2>1 DEF CompanionHolds
  <2>3. meshtastic.lease # None => owners'[meshtastic.lease] = owners[meshtastic.lease]
    BY <1>1, <2>1 DEF TypeSerialOK
  <2> QED
    BY <1>1, <2>1, <2>2, <2>3 DEF CompanionHolds, MeshtasticHolds
<1> QED
  BY <1>1, <1>2, <1>3, <1>4, <1>5, <1>6, <1>7, Sorted DEF Order

(* A device is read by two adapters only if one of them came there by a    *)
(* link that named another device, or none, when its lease was taken: for  *)
(* any devices, links and re-pluggings (lease.go, serial_reservations.go). *)
THEOREM LeaseAlwaysExcludes == Spec => []LeaseExcludes
<1>1. Init => Leases
  <2> SUFFICES ASSUME Init PROVE Leases
    OBVIOUS
  <2>1. CompanionHolds /\ MeshtasticHolds
    BY DEF Init, SerialInit, CompanionHolds, MeshtasticHolds
  <2> QED
    BY <2>1, OrderInit DEF Leases
<1>2. Leases /\ [Next]_vars => Leases'
  BY LeasesNext
<1>3. Leases => LeaseExcludes
  BY DEF Leases, Order, Waited, CompanionHolds, MeshtasticHolds, LeaseExcludes
<1> QED
  BY <1>1, <1>2, <1>3, PTL DEF Spec

-----------------------------------------------------------------------------
(* Induction over the natural numbers, stated of sets.                     *)
LEMMA LessWF == IsWellFoundedOn({ss \in Nat \X Nat : ss[1] < ss[2]}, Nat)
BY NatLessThanWellFounded DEF OpToRel

LEMMA Least ==
  ASSUME NEW T, T \subseteq Nat, T # {}
  PROVE  \E x \in T : \A y \in T : x <= y
<1> DEFINE R == {ss \in Nat \X Nat : ss[1] < ss[2]}
<1>1. IsWellFoundedOn(R, Nat)
  BY LessWF
<1>2. PICK x \in T : \A y \in T : ~(<<y, x>> \in R)
  <2> HIDE DEF R
  <2> QED BY <1>1, WFMin
<1>3. \A y \in T : y < x => <<y, x>> \in R
  OBVIOUS
<1>4. ASSUME NEW y \in T PROVE x <= y
  <2>1. x \in Nat /\ y \in Nat
    OBVIOUS
  <2>2. ~(y < x)
    BY <1>2, <1>3
  <2> QED BY <2>1, <2>2
<1> QED
  BY <1>4

LEMMA Induct ==
  ASSUME NEW S, 0 \in S, \A n \in Nat : n \in S => n + 1 \in S
  PROVE  Nat \subseteq S
<1> DEFINE T == Nat \ S
<1>1. SUFFICES ASSUME T # {} PROVE FALSE
  OBVIOUS
<1>2. PICK x \in T : \A y \in T : x <= y
  BY <1>1, Least
<1>3. x # 0 /\ x - 1 \in Nat
  BY <1>2
<1>4. x - 1 \in S
  BY <1>2, <1>3
<1> QED
  BY <1>2, <1>3, <1>4

-----------------------------------------------------------------------------
(* Recursion: a rule G that computes the value at x from values at places  *)
(* of smaller rank has a function that follows it.                         *)
Descends(D, V, rank, G) ==
  /\ rank \in [D -> Nat] /\ G \in [[D -> V] -> [D -> V]]
  /\ \A f, g \in [D -> V], x \in D :
       (\A y \in D : rank[y] < rank[x] => f[y] = g[y]) => G[f][x] = G[g][x]

LEMMA RecursionExists ==
  ASSUME NEW D, NEW V, V # {}, NEW rank, NEW G, Descends(D, V, rank, G)
  PROVE  \E h \in [D -> V] : h = G[h]
<1> USE DEF Descends
<1> DEFINE F == [D -> V]
           Follows(n) == {f \in F : \A x \in D : rank[x] < n => f[x] = G[f][x]}
<1>1. \A n \in Nat : Follows(n) # {}
  <2> DEFINE S == {n \in Nat : Follows(n) # {}}
  <2>1. 0 \in S
    <3>1. PICK v \in V : TRUE
      OBVIOUS
    <3>2. [x \in D |-> v] \in Follows(0)
      OBVIOUS
    <3> QED
      BY <3>2
  <2>2. ASSUME NEW n \in Nat, n \in S PROVE n + 1 \in S
    <3>1. PICK f \in F : \A x \in D : rank[x] < n => f[x] = G[f][x]
      BY <2>2
    <3>2. G[f] \in F
      BY <3>1
    <3>3. ASSUME NEW x \in D, rank[x] < n + 1 PROVE G[f][x] = G[G[f]][x]
      <4>1. \A y \in D : rank[y] < rank[x] => rank[y] < n
        BY <3>3
      <4>2. \A y \in D : rank[y] < rank[x] => f[y] = G[f][y]
        BY <3>1, <4>1
      <4> QED
        BY <3>1, <3>2, <4>2
    <3>4. G[f] \in Follows(n + 1)
      BY <3>2, <3>3
    <3> QED
      BY <3>4
  <2> HIDE DEF S
  <2>3. Nat \subseteq S
    BY <2>1, <2>2, Induct
  <2> QED
    BY <2>3 DEF S
<1>2. ASSUME NEW n \in Nat, NEW f \in Follows(n), NEW g \in Follows(n), NEW x \in D, rank[x] < n
      PROVE  f[x] = g[x]
  <2> DEFINE S == {m \in Nat : \A y \in D : rank[y] < m /\ rank[y] < n => f[y] = g[y]}
  <2>1. 0 \in S
    OBVIOUS
  <2>2. ASSUME NEW m \in Nat, m \in S PROVE m + 1 \in S
    <3>1. ASSUME NEW y \in D, rank[y] < m + 1, rank[y] < n PROVE f[y] = g[y]
      <4>1. \A z \in D : rank[z] < rank[y] => rank[z] < m /\ rank[z] < n
        BY <3>1
      <4>2. \A z \in D : rank[z] < rank[y] => f[z] = g[z]
        BY <2>2, <4>1
      <4>3. G[f][y] = G[g][y]
        BY <4>2
      <4>4. f[y] = G[f][y] /\ g[y] = G[g][y]
        BY <3>1
      <4> QED
        BY <4>3, <4>4
    <3> QED
      BY <3>1
  <2> HIDE DEF S
  <2>3. Nat \subseteq S
    BY <2>1, <2>2, Induct
  <2>4. n \in S
    BY <2>3
  <2> QED
    BY <1>2, <2>4 DEF S
<1> DEFINE at(n) == CHOOSE f : f \in Follows(n)
           h == [x \in D |-> at(rank[x] + 1)[x]]
<1>3. \A n \in Nat : at(n) \in Follows(n)
  BY <1>1
<1> HIDE DEF at
<1>4. h \in F
  <2>1. ASSUME NEW x \in D PROVE at(rank[x] + 1)[x] \in V
    <3>1. at(rank[x] + 1) \in F
      BY <1>3
    <3> QED
      BY <3>1
  <2> QED
    BY <2>1
<1>5. ASSUME NEW x \in D PROVE h[x] = G[h][x]
  <2> DEFINE f == at(rank[x] + 1)
  <2>1. f \in Follows(rank[x] + 1) /\ rank[x] < rank[x] + 1
    BY <1>3
  <2>2. h[x] = f[x]
    OBVIOUS
  <2>3. ASSUME NEW y \in D, rank[y] < rank[x] PROVE h[y] = f[y]
    <3>1. rank[y] + 1 \in Nat /\ rank[y] < rank[y] + 1
      OBVIOUS
    <3>2. \A z \in D : rank[z] < rank[y] + 1 => rank[z] < rank[x] + 1
      BY <2>3
    <3>3. f \in Follows(rank[y] + 1)
      BY <2>1, <3>2
    <3>4. at(rank[y] + 1) \in Follows(rank[y] + 1)
      BY <1>3
    <3> HIDE DEF f, Follows
    <3>5. at(rank[y] + 1)[y] = f[y]
      BY <1>2, <3>1, <3>3, <3>4
    <3> QED
      BY <3>5
  <2> HIDE DEF h
  <2>4. f \in F /\ f[x] = G[f][x]
    BY <2>1
  <2> HIDE DEF f
  <2>5. G[h][x] = G[f][x]
    BY <1>4, <2>3, <2>4
  <2> QED
    BY <2>2, <2>4, <2>5
<1>6. G[h] \in F
  BY <1>4
<1> HIDE DEF h
<1>7. h = G[h]
  BY <1>4, <1>5, <1>6
<1> QED
  BY <1>4, <1>7

-----------------------------------------------------------------------------
(* The frame scanner.                                                      *)

(* What is left of a stream after n bytes.                                 *)
LEMMA LeftType ==
  ASSUME NEW s \in Scanner, NEW n \in Nat, n >= 1, n <= Len(s.rest)
  PROVE  Left(s, n) \in Seq(Byte) /\ Len(Left(s, n)) = Len(s.rest) - n
<1> DEFINE q == s.rest
<1>1. q \in Seq(Byte) /\ Len(q) \in Nat /\ n <= Len(q)
  BY DEF Scanner
<1> HIDE DEF q
<1>2. \A i \in (n + 1)..Len(q) : q[i] \in Byte
  BY <1>1, ElementOfSeq
<1>3. /\ SubSeq(q, n + 1, Len(q)) \in Seq(Byte)
      /\ Len(SubSeq(q, n + 1, Len(q))) = IF n + 1 <= Len(q) THEN Len(q) - (n + 1) + 1 ELSE 0
  BY <1>1, <1>2, SubSeqProperties
<1>4. Len(SubSeq(q, n + 1, Len(q))) = Len(q) - n
  BY <1>1, <1>3
<1> QED
  BY <1>3, <1>4 DEF Left, q

LEMMA LengthType ==
  ASSUME NEW s \in Scanner, Len(s.rest) >= 3
  PROVE  Length(s) \in Nat
<1>1. s.rest[2] \in Byte /\ s.rest[3] \in Byte
  BY DEF Scanner
<1>2. \A x, y \in Byte : 256 * x + y \in Nat
  BY DEF Byte
<1> QED
  BY <1>1, <1>2 DEF Length

LEMMA DiscardedType ==
  ASSUME NEW s \in Scanner, NEW n \in Nat
  PROVE  Discarded(s, n) \in Nat
BY DEF Discarded, Scanner

(* Each round consumes something: the scanner ends.                        *)
LEMMA StepProgress ==
  ASSUME NEW s \in Scanner, ~Ended(s)
  PROVE  /\ Step(s) \in Scanner /\ Len(Step(s).rest) < Len(s.rest)
         /\ Found(s) \in Seq(Seq(Byte))
<1>1. s.rest \in Seq(Byte) /\ Len(s.rest) \in Nat /\ Len(s.rest) >= 1 /\ s.haveStart1 \in BOOLEAN /\ s.discarded \in Nat
  BY DEF Scanner, Ended
<1>2. Discarded(s, 1) \in Nat /\ Discarded(s, 4) \in Nat
  BY DiscardedType
<1>3. Left(s, 1) \in Seq(Byte) /\ Len(Left(s, 1)) < Len(s.rest)
  BY <1>1, LeftType
<1>4. CASE ~AtHeader(s)
  <2>1. Found(s) = <<>>
    BY <1>4 DEF Found, AtFrame
  <2>2. \/ Step(s) = [rest |-> Left(s, 1), haveStart1 |-> TRUE, discarded |-> s.discarded]
        \/ Step(s) = [rest |-> Left(s, 1), haveStart1 |-> FALSE, discarded |-> Discarded(s, 1)]
        \/ Step(s) = [rest |-> Left(s, 1), discarded |-> Discarded(s, 1),
                      haveStart1 |-> Discarded(s, 1) > 0 /\ Restarts(Head(s.rest))]
    <3>1. CASE s.haveStart1
      BY <1>4, <3>1 DEF Step, AtHeader, AtFrame
    <3>2. CASE ~s.haveStart1 /\ Head(s.rest) = Start1
      BY <3>2 DEF Step, AtHeader, AtFrame
    <3>3. CASE ~s.haveStart1 /\ Head(s.rest) # Start1
      BY <3>3 DEF Step, AtHeader, AtFrame
    <3> QED
      BY <3>1, <3>2, <3>3
  <2>3. (Discarded(s, 1) > 0 /\ Restarts(Head(s.rest))) \in BOOLEAN
    OBVIOUS
  <2> DEFINE have == Discarded(s, 1) > 0 /\ Restarts(Head(s.rest))
  <2> HIDE DEF have
  <2>4. Step(s) \in Scanner /\ Step(s).rest = Left(s, 1)
    <3>1. CASE Step(s) = [rest |-> Left(s, 1), haveStart1 |-> TRUE, discarded |-> s.discarded]
      BY <1>1, <1>3, <3>1 DEF Scanner
    <3>2. CASE Step(s) = [rest |-> Left(s, 1), haveStart1 |-> FALSE, discarded |-> Discarded(s, 1)]
      BY <1>2, <1>3, <3>2 DEF Scanner
    <3>3. CASE Step(s) = [rest |-> Left(s, 1), discarded |-> Discarded(s, 1), haveStart1 |-> have]
      <4>1. have \in BOOLEAN
        BY <2>3 DEF have
      <4> QED
        BY <1>2, <1>3, <3>3, <4>1 DEF Scanner
    <3> QED
      BY <2>2, <3>1, <3>2, <3>3 DEF have
  <2>5. Found(s) \in Seq(Seq(Byte))
    BY <2>1
  <2> QED
    BY <1>3, <2>4, <2>5
<1>5. CASE AtHeader(s) /\ ~AtFrame(s)
  <2>1. Found(s) = <<>>
    BY <1>5 DEF Found
  <2>2. Left(s, 3) \in Seq(Byte) /\ Len(Left(s, 3)) < Len(s.rest)
    <3>1. Len(s.rest) >= 3
      BY <1>1, <1>5 DEF Ended
    <3> QED
      BY <1>1, <3>1, LeftType
  <2>3. Step(s) = [rest |-> Left(s, 3), haveStart1 |-> FALSE, discarded |-> Discarded(s, 4)]
    BY <1>5 DEF Step, AtHeader
  <2> QED
    BY <1>2, <2>1, <2>2, <2>3 DEF Scanner
<1>6. CASE AtFrame(s)
  <2>1. Len(s.rest) >= 3 /\ Length(s) \in 1..MaxPayload /\ Len(s.rest) >= 3 + Length(s)
    <3>1. AtHeader(s) /\ Length(s) \in 1..MaxPayload
      BY <1>6 DEF AtFrame
    <3>2. Length(s) \in Nat
      BY <3>1, FrameAssumption
    <3> QED
      BY <1>1, <1>6, <3>1, <3>2 DEF Ended
  <2>2. Length(s) \in Nat /\ Length(s) >= 1
    BY <2>1, FrameAssumption
  <2>3. Left(s, 3 + Length(s)) \in Seq(Byte) /\ Len(Left(s, 3 + Length(s))) < Len(s.rest)
    <3>1. 3 + Length(s) \in Nat /\ 3 + Length(s) >= 1
      BY <2>2
    <3>2. Len(Left(s, 3 + Length(s))) = Len(s.rest) - (3 + Length(s))
      BY <2>1, <3>1, LeftType
    <3>3. Len(Left(s, 3 + Length(s))) < Len(s.rest)
      BY <1>1, <2>2, <3>2
    <3> QED
      BY <2>1, <3>1, <3>3, LeftType
  <2>4. Step(s) = [rest |-> Left(s, 3 + Length(s)), haveStart1 |-> FALSE, discarded |-> 0]
    BY <1>6 DEF Step, AtFrame, AtHeader
  <2>5. SubSeq(s.rest, 4, 3 + Length(s)) \in Seq(Byte)
    <3>1. \A i \in 4..(3 + Length(s)) : s.rest[i] \in Byte
      BY <1>1, <2>1, <2>2, ElementOfSeq
    <3> QED
      BY <2>2, <3>1, SubSeqProperties
  <2>6. Found(s) \in Seq(Seq(Byte))
    BY <1>6, <2>5 DEF Found
  <2> QED
    BY <2>3, <2>4, <2>6 DEF Scanner
<1> QED
  BY <1>4, <1>5, <1>6 DEF AtFrame

(* So the recursion that defines Scan defines it.                          *)
LEMMA ScanDefined ==
  /\ Scan \in [Scanner -> Seq(Seq(Byte))]
  /\ \A s \in Scanner : Scan[s] = IF Ended(s) THEN <<>> ELSE Found(s) \o Scan[Step(s)]
<1> DEFINE V == Seq(Seq(Byte))
           rank == [s \in Scanner |-> Len(s.rest)]
           Round(f, s) == IF Ended(s) THEN <<>> ELSE Found(s) \o f[Step(s)]
           G == [f \in [Scanner -> V] |-> [s \in Scanner |-> Round(f, s)]]
<1>1. V # {} /\ rank \in [Scanner -> Nat]
  <2>1. <<>> \in V
    OBVIOUS
  <2>2. \A s \in Scanner : Len(s.rest) \in Nat
    BY DEF Scanner
  <2> QED
    BY <2>1, <2>2
<1>2. ASSUME NEW f \in [Scanner -> V], NEW s \in Scanner PROVE Round(f, s) \in V
  BY StepProgress
<1> HIDE DEF V
<1>3. G \in [[Scanner -> V] -> [Scanner -> V]]
  <2> HIDE DEF Round
  <2> QED
    BY <1>2
<1>4. ASSUME NEW f \in [Scanner -> V], NEW g \in [Scanner -> V], NEW s \in Scanner,
             \A y \in Scanner : rank[y] < rank[s] => f[y] = g[y]
      PROVE  G[f][s] = G[g][s]
  <2>1. G[f][s] = Round(f, s) /\ G[g][s] = Round(g, s)
    <3> HIDE DEF Round
    <3> QED
      OBVIOUS
  <2>2. CASE Ended(s)
    BY <2>1, <2>2
  <2>3. CASE ~Ended(s)
    <3>1. Step(s) \in Scanner /\ Len(Step(s).rest) < Len(s.rest)
      BY <2>3, StepProgress
    <3>2. f[Step(s)] = g[Step(s)]
      BY <1>4, <3>1
    <3> QED
      BY <2>1, <2>3, <3>2
  <2> QED
    BY <2>2, <2>3
<1>5. \E h \in [Scanner -> V] : h = G[h]
  <2> HIDE DEF G, rank
  <2>1. \A f, g \in [Scanner -> V], s \in Scanner :
          (\A y \in Scanner : rank[y] < rank[s] => f[y] = g[y]) => G[f][s] = G[g][s]
    BY <1>4
  <2>2. Descends(Scanner, V, rank, G)
    BY <1>1, <1>3, <2>1 DEF Descends
  <2> QED
    BY <1>1, <2>2, RecursionExists
<1>6. PICK h \in [Scanner -> V] : h = [s \in Scanner |-> Round(h, s)]
  <2> HIDE DEF Round
  <2> QED
    BY <1>5
<1>7. Scan = [s \in Scanner |-> IF Ended(s) THEN <<>> ELSE Found(s) \o Scan[Step(s)]]
  BY <1>6 DEF Scan
<1> HIDE DEF Scan
<1>8. ASSUME NEW s \in Scanner PROVE Scan[s] = IF Ended(s) THEN <<>> ELSE Found(s) \o Scan[Step(s)]
  BY <1>7
<1>9. Scan \in [Scanner -> V]
  <2> DEFINE S == {n \in Nat : \A s \in Scanner : Len(s.rest) < n => Scan[s] \in V}
  <2>1. \A s \in Scanner : Len(s.rest) \in Nat
    BY DEF Scanner
  <2>2. 0 \in S
    BY <2>1
  <2>3. ASSUME NEW n \in Nat, n \in S PROVE n + 1 \in S
    <3>1. ASSUME NEW s \in Scanner, Len(s.rest) < n + 1 PROVE Scan[s] \in V
      <4>1. CASE Ended(s)
        <5>1. Scan[s] = <<>>
          BY <1>8, <4>1
        <5> QED
          BY <5>1 DEF V
      <4>2. CASE ~Ended(s)
        <5>1. /\ Step(s) \in Scanner /\ Len(Step(s).rest) < Len(s.rest)
              /\ Found(s) \in Seq(Seq(Byte))
          BY <4>2, StepProgress
        <5>2. Len(Step(s).rest) < n
          BY <2>1, <3>1, <5>1
        <5>3. Scan[Step(s)] \in V
          BY <2>3, <5>1, <5>2
        <5> QED
          <6>1. Scan[s] = Found(s) \o Scan[Step(s)]
            BY <1>8, <4>2
          <6> QED
            BY <5>1, <5>3, <6>1 DEF V
      <4> QED
        BY <4>1, <4>2
    <3> QED
      BY <3>1
  <2> HIDE DEF S
  <2>4. Nat \subseteq S
    BY <2>2, <2>3, Induct
  <2>5. ASSUME NEW s \in Scanner PROVE Scan[s] \in V
    <3>1. Len(s.rest) + 1 \in Nat /\ Len(s.rest) < Len(s.rest) + 1
      BY <2>1
    <3> QED
      BY <2>4, <3>1 DEF S
  <2> QED
    BY <1>7, <2>5
<1> QED
  BY <1>8, <1>9 DEF V

At(rest, haveStart1, discarded) ==
  [rest |-> rest, haveStart1 |-> haveStart1, discarded |-> discarded]

LEMMA AtType ==
  ASSUME NEW q \in Seq(Byte), NEW have \in BOOLEAN, NEW d \in Nat
  PROVE  /\ At(q, have, d) \in Scanner
         /\ At(q, have, d).rest = q /\ At(q, have, d).haveStart1 = have
         /\ At(q, have, d).discarded = d
         /\ Scan[At(q, have, d)] \in Seq(Seq(Byte))
<1>1. At(q, have, d) \in Scanner
  BY DEF At, Scanner
<1>2. Scan[At(q, have, d)] \in Seq(Seq(Byte))
  <2> HIDE DEF At
  <2> QED
    BY <1>1, ScanDefined
<1> QED
  BY <1>1, <1>2 DEF At

(* A round that reads one byte, unless that byte begins a header.          *)
LEMMA ByteRound ==
  ASSUME NEW b \in Byte, NEW q \in Seq(Byte), NEW have \in BOOLEAN, NEW d \in Nat,
         have => b # Start2
  PROVE  LET n == IF d + 1 > MaxDiscarded THEN 0 ELSE d + 1
         IN  /\ ~have /\ b = Start1 =>
                  Scan[At(<<b>> \o q, have, d)] = Scan[At(q, TRUE, d)]
             /\ ~have /\ b # Start1 =>
                  Scan[At(<<b>> \o q, have, d)] = Scan[At(q, FALSE, n)]
             /\ have => Scan[At(<<b>> \o q, have, d)] = Scan[At(q, n > 0 /\ b = Start1, n)]
<1> DEFINE n == IF d + 1 > MaxDiscarded THEN 0 ELSE d + 1
           r == <<b>> \o q
           s == At(r, have, d)
<1>1. /\ r \in Seq(Byte) /\ Len(r) = Len(q) + 1 /\ r[1] = b /\ Head(r) = b /\ r # <<>>
      /\ \A i \in 1..Len(q) : r[i + 1] = q[i]
      /\ Len(q) \in Nat
  OBVIOUS
<1> HIDE DEF r
<1>2. SubSeq(r, 2, Len(r)) = q
  <2>1. \A i \in 2..Len(r) : r[i] \in Byte
    BY <1>1, ElementOfSeq
  <2>2. /\ SubSeq(r, 2, Len(r)) \in Seq(Byte)
        /\ Len(SubSeq(r, 2, Len(r))) = IF 2 <= Len(r) THEN Len(r) - 2 + 1 ELSE 0
        /\ \A i \in 1..(Len(r) - 2 + 1) : SubSeq(r, 2, Len(r))[i] = r[2 + i - 1]
    BY <1>1, <2>1, SubSeqProperties
  <2>3. Len(SubSeq(r, 2, Len(r))) = Len(q)
    BY <1>1, <2>2
  <2>4. \A i \in 1..Len(q) : SubSeq(r, 2, Len(r))[i] = q[i]
    BY <1>1, <2>2
  <2> QED
    BY <2>2, <2>3, <2>4, SeqEqual
<1>3. /\ s \in Scanner /\ s.rest = r /\ s.haveStart1 = have /\ s.discarded = d
  BY <1>1, AtType
<1> HIDE DEF s
<1>4. Left(s, 1) = q /\ Discarded(s, 1) = n
  BY <1>2, <1>3 DEF Left, Discarded
<1>5. ~AtHeader(s) /\ ~AtFrame(s)
  BY <1>1, <1>3 DEF AtHeader, AtFrame
<1>6. ~Ended(s) /\ Found(s) = <<>>
  BY <1>1, <1>3, <1>5 DEF Ended, Found
<1>7. Step(s) \in Scanner
  BY <1>3, <1>6, StepProgress
<1>8. Scan[s] = Scan[Step(s)]
  <2>1. Scan[Step(s)] \in Seq(Seq(Byte))
    BY <1>7, ScanDefined
  <2>2. Scan[s] = <<>> \o Scan[Step(s)]
    BY <1>3, <1>6, ScanDefined
  <2> QED
    BY <2>1, <2>2, ConcatEmptySeq
<1>9. ~have /\ b = Start1 => Step(s) = At(q, TRUE, d)
  BY <1>1, <1>3, <1>4, <1>5 DEF Step, At
<1>10. ~have /\ b # Start1 => Step(s) = At(q, FALSE, n)
  BY <1>1, <1>3, <1>4, <1>5 DEF Step, At
<1>11. have => Step(s) = At(q, n > 0 /\ b = Start1, n)
  <2>1. have => Step(s) = [rest |-> Left(s, 1), discarded |-> Discarded(s, 1),
                           haveStart1 |-> Discarded(s, 1) > 0 /\ Restarts(Head(s.rest))]
    BY <1>1, <1>3, <1>5 DEF Step
  <2>2. (Discarded(s, 1) > 0 /\ Restarts(Head(s.rest))) = (n > 0 /\ b = Start1)
    BY <1>1, <1>3, <1>4 DEF Restarts
  <2> HIDE DEF n
  <2> QED
    BY <1>4, <2>1, <2>2 DEF At
<1> HIDE DEF n
<1> QED
  BY <1>8, <1>9, <1>10, <1>11 DEF s, r, n

-----------------------------------------------------------------------------
(* The frame of a payload, after its first start byte.                     *)
Header(p) == <<Start2, Len(p) \div 256, Len(p) % 256>>

LEMMA HeaderType ==
  ASSUME NEW p \in Messages
  PROVE  /\ p \in Seq(Byte) /\ Len(p) \in 1..MaxPayload
         /\ Len(p) \div 256 \in Byte /\ Len(p) % 256 \in Byte
         /\ Len(p) = 256 * (Len(p) \div 256) + (Len(p) % 256)
         /\ Header(p) \in Seq(Byte)
<1>1. p \in Seq(Byte) /\ Len(p) \in 1..MaxPayload
  BY StreamAssumption
<1>2. Len(p) \in Nat /\ Len(p) <= 65535
  BY <1>1, FrameAssumption
<1>3. \A n \in Nat : n <= 65535 => n \div 256 \in 0..255
  OBVIOUS
<1>4. /\ Len(p) \div 256 \in Byte /\ Len(p) % 256 \in Byte
      /\ Len(p) = 256 * (Len(p) \div 256) + (Len(p) % 256)
  <2>1. \A n \in Nat : n % 256 \in 0..255 /\ n = 256 * (n \div 256) + (n % 256)
    OBVIOUS
  <2> DEFINE n == Len(p)
  <2>2. n \in Nat /\ n <= 65535
    BY <1>2
  <2> HIDE DEF n
  <2>3. n \div 256 \in Byte
    BY <1>3, <2>2 DEF Byte
  <2>4. n % 256 \in Byte
    BY <2>1, <2>2 DEF Byte
  <2>5. n = 256 * (n \div 256) + (n % 256)
    BY <2>1, <2>2
  <2> QED
    BY <2>3, <2>4, <2>5 DEF n
<1>5. Header(p) \in Seq(Byte)
  BY <1>4, FrameAssumption DEF Header
<1> QED
  BY <1>1, <1>4, <1>5

LEMMA ConcatAt ==
  ASSUME NEW a \in Seq(Byte), NEW b \in Seq(Byte), NEW i \in 1..(Len(a) + Len(b))
  PROVE  (a \o b)[i] = IF i <= Len(a) THEN a[i] ELSE b[i - Len(a)]
BY ConcatProperties

LEMMA PartsOfStream ==
  ASSUME NEW p \in Messages, NEW rest \in Seq(Byte)
  PROVE  LET q == Header(p) \o (p \o rest)
         IN  /\ q \in Seq(Byte) /\ Len(q) = 3 + Len(p) + Len(rest)
             /\ q[1] = Start2 /\ q[2] = Len(p) \div 256 /\ q[3] = Len(p) % 256
             /\ SubSeq(q, 4, 3 + Len(p)) = p
             /\ SubSeq(q, 3 + Len(p) + 1, Len(q)) = rest
<1> DEFINE q == Header(p) \o (p \o rest)
           L == Len(p)
           hi == L \div 256
           lo == L % 256
           h == <<Start2, hi, lo>>
<1>1. /\ p \in Seq(Byte) /\ L \in Nat /\ L >= 1 /\ hi \in Byte /\ lo \in Byte
      /\ h \in Seq(Byte) /\ Header(p) = h
  BY HeaderType, FrameAssumption DEF Header
<1> HIDE DEF hi, lo
<1>2. h \in Seq(Byte) /\ Len(h) = 3 /\ h[1] = Start2 /\ h[2] = hi /\ h[3] = lo
  BY <1>1
<1> HIDE DEF h
<1>3. /\ p \o rest \in Seq(Byte) /\ Len(p \o rest) = L + Len(rest) /\ Len(rest) \in Nat
      /\ \A i \in 1..(L + Len(rest)) : (p \o rest)[i] = IF i <= L THEN p[i] ELSE rest[i - L]
  BY <1>1, ConcatProperties
<1> DEFINE t == p \o rest
<1>4. /\ q \in Seq(Byte) /\ Len(q) = 3 + (L + Len(rest))
      /\ \A i \in 1..(3 + (L + Len(rest))) : q[i] = IF i <= 3 THEN h[i] ELSE t[i - 3]
  <2>1. q = h \o t
    BY <1>1
  <2>2. t \in Seq(Byte) /\ Len(t) = L + Len(rest)
    BY <1>3
  <2> HIDE DEF q, t, L
  <2>3. q \in Seq(Byte) /\ Len(q) = Len(h) + Len(t)
    BY <1>2, <2>1, <2>2, ConcatProperties
  <2>4. \A i \in 1..(Len(h) + Len(t)) : q[i] = IF i <= Len(h) THEN h[i] ELSE t[i - Len(h)]
    <3>1. ASSUME NEW i \in 1..(Len(h) + Len(t))
          PROVE  (h \o t)[i] = IF i <= Len(h) THEN h[i] ELSE t[i - Len(h)]
      BY <1>2, <2>2, ConcatAt, Zenon
    <3> QED
      BY <2>1, <3>1
  <2> QED
    BY <1>2, <2>2, <2>3, <2>4
<1> HIDE DEF q, L, t
<1>5. Len(q) = 3 + L + Len(rest) /\ q[1] = Start2 /\ q[2] = hi /\ q[3] = lo
  <2>1. 1 \in 1..(3 + (L + Len(rest))) /\ 2 \in 1..(3 + (L + Len(rest))) /\ 3 \in 1..(3 + (L + Len(rest)))
    BY <1>1, <1>3
  <2> QED
    BY <1>1, <1>2, <1>3, <1>4, <2>1
<1>6. \A i \in 1..Len(q) : q[i] \in Byte
  BY <1>4, ElementOfSeq
<1>7. SubSeq(q, 4, 3 + L) = p
  <2>1. \A i \in 4..(3 + L) : q[i] \in Byte
    BY <1>1, <1>3, <1>5, <1>6
  <2>2. /\ SubSeq(q, 4, 3 + L) \in Seq(Byte)
        /\ Len(SubSeq(q, 4, 3 + L)) = IF 4 <= 3 + L THEN 3 + L - 4 + 1 ELSE 0
        /\ \A i \in 1..(3 + L - 4 + 1) : SubSeq(q, 4, 3 + L)[i] = q[4 + i - 1]
    BY <1>1, <2>1, SubSeqProperties
  <2>3. Len(SubSeq(q, 4, 3 + L)) = L
    BY <1>1, <2>2
  <2>4. ASSUME NEW i \in 1..L PROVE SubSeq(q, 4, 3 + L)[i] = p[i]
    <3>1. /\ i \in 1..(3 + L - 4 + 1) /\ 4 + i - 1 \in 1..(3 + (L + Len(rest))) /\ ~(4 + i - 1 <= 3)
          /\ 4 + i - 1 - 3 = i /\ i \in 1..(L + Len(rest)) /\ i <= L
      BY <1>1, <1>3
    <3>2. SubSeq(q, 4, 3 + L)[i] = q[4 + i - 1]
      BY <2>2, <3>1
    <3>3. q[4 + i - 1] = t[i]
      BY <1>4, <3>1
    <3>4. t[i] = p[i]
      BY <1>3, <3>1 DEF t
    <3> QED
      BY <3>1, <3>2, <3>3, <3>4
  <2> QED
    BY <1>1, <2>2, <2>3, <2>4, SeqEqual DEF L
<1>8. SubSeq(q, 3 + L + 1, Len(q)) = rest
  <2> DEFINE m == 3 + L + 1
             k == Len(q)
  <2>1. m \in Nat /\ k \in Nat /\ k - m + 1 = Len(rest) /\ m >= 1
    BY <1>1, <1>3, <1>5
  <2>2. \A i \in m..k : q[i] \in Byte
    BY <1>6, <2>1
  <2> HIDE DEF m, k
  <2>3. /\ SubSeq(q, m, k) \in Seq(Byte)
        /\ Len(SubSeq(q, m, k)) = IF m <= k THEN k - m + 1 ELSE 0
        /\ \A i \in 1..(k - m + 1) : SubSeq(q, m, k)[i] = q[m + i - 1]
    BY <2>1, <2>2, SubSeqProperties
  <2>4. Len(SubSeq(q, m, k)) = Len(rest)
    BY <1>3, <2>1, <2>3
  <2>5. ASSUME NEW i \in 1..Len(rest) PROVE SubSeq(q, m, k)[i] = rest[i]
    <3>1. /\ i \in 1..(k - m + 1) /\ m + i - 1 \in 1..(3 + (L + Len(rest))) /\ ~(m + i - 1 <= 3)
          /\ m + i - 1 - 3 = L + i /\ L + i \in 1..(L + Len(rest)) /\ ~(L + i <= L) /\ L + i - L = i
      BY <1>1, <1>3, <2>1 DEF m
    <3>2. SubSeq(q, m, k)[i] = q[m + i - 1]
      BY <2>3, <3>1
    <3> DEFINE x == m + i - 1
               y == L + i
    <3>3. q[x] = t[y]
      <4>1. x \in 1..(3 + (L + Len(rest))) /\ ~(x <= 3) /\ x - 3 = y
        BY <1>1, <1>3, <2>1 DEF m
      <4> HIDE DEF x, y
      <4> QED
        BY <1>4, <4>1
    <3>4. t[y] = rest[i]
      <4>1. y \in 1..(L + Len(rest)) /\ ~(y <= L) /\ y - L = i
        BY <1>1, <1>3
      <4> HIDE DEF y
      <4> QED
        BY <1>3, <4>1 DEF t
    <3> QED
      BY <3>1, <3>2, <3>3, <3>4
  <2> QED
    BY <2>3, <2>4, <2>5, SeqEqual DEF m, k
<1> QED
  BY <1>4, <1>5, <1>7, <1>8 DEF q, L, hi, lo

(* With its first start byte read, a frame is returned and what follows it *)
(* is read as a stream of its own.                                         *)
LEMMA HeaderRound ==
  ASSUME NEW p \in Messages, NEW rest \in Seq(Byte), NEW d \in Nat
  PROVE  Scan[At(Header(p) \o (p \o rest), TRUE, d)] = <<p>> \o Scan[At(rest, FALSE, 0)]
<1> DEFINE q == Header(p) \o (p \o rest)
           s == At(q, TRUE, d)
<1>1. /\ q \in Seq(Byte) /\ Len(q) = 3 + Len(p) + Len(rest)
      /\ q[1] = Start2 /\ q[2] = Len(p) \div 256 /\ q[3] = Len(p) % 256
      /\ SubSeq(q, 4, 3 + Len(p)) = p
      /\ SubSeq(q, 3 + Len(p) + 1, Len(q)) = rest
  BY PartsOfStream
<1>2. /\ p \in Seq(Byte) /\ Len(p) \in 1..MaxPayload
      /\ Len(p) = 256 * (Len(p) \div 256) + (Len(p) % 256)
  BY HeaderType
<1> HIDE DEF q
<1>3. s \in Scanner /\ s.rest = q /\ s.haveStart1 = TRUE
  BY <1>1, AtType
<1> HIDE DEF s
<1>4. Length(s) = Len(p)
  BY <1>1, <1>2, <1>3 DEF Length
<1>5. Len(p) \in Nat /\ Len(rest) \in Nat /\ Len(q) >= 3 /\ Len(q) >= 3 + Len(p)
  BY <1>1, <1>2
<1>6. Head(q) = Start2 /\ q # <<>>
  BY <1>1, <1>5
<1>7. AtHeader(s) /\ AtFrame(s)
  BY <1>2, <1>3, <1>4, <1>6 DEF AtHeader, AtFrame
<1>8. ~Ended(s)
  BY <1>3, <1>4, <1>5, <1>6 DEF Ended
<1>9. Found(s) = <<p>>
  BY <1>1, <1>3, <1>4, <1>7 DEF Found
<1>10. Step(s) = At(rest, FALSE, 0)
  <2>1. Step(s) = [rest |-> Left(s, 3 + Length(s)), haveStart1 |-> FALSE, discarded |-> 0]
    BY <1>3, <1>7 DEF Step, AtFrame, AtHeader
  <2>2. Left(s, 3 + Length(s)) = rest
    BY <1>1, <1>3, <1>4 DEF Left
  <2> QED
    BY <2>1, <2>2 DEF At
<1> QED
  BY <1>3, <1>8, <1>9, <1>10, ScanDefined DEF s, q

LEMMA HarmlessTail ==
  ASSUME NEW noise \in Seq(Byte), noise # <<>>, Harmless(noise)
  PROVE  /\ Head(noise) \in Byte /\ Tail(noise) \in Seq(Byte)
         /\ Len(noise) \in Nat /\ Len(Tail(noise)) = Len(noise) - 1
         /\ noise = <<Head(noise)>> \o Tail(noise)
         /\ Harmless(Tail(noise))
         /\ Head(noise) = Start1 => Tail(noise) = <<>> \/ Head(Tail(noise)) # Start2
<1> DEFINE t == Tail(noise)
<1>1. /\ Head(noise) \in Byte /\ t \in Seq(Byte) /\ Len(t) = Len(noise) - 1
      /\ Len(noise) \in Nat /\ Len(noise) >= 1
      /\ \A i \in 1..Len(t) : t[i] = noise[i + 1]
      /\ Head(noise) = noise[1]
  BY HeadTailProperties
<1>2. noise = <<Head(noise)>> \o t
  BY <1>1
<1> HIDE DEF t
<1>3. Harmless(t)
  <2> SUFFICES ASSUME NEW i \in 1..(Len(t) - 1) PROVE ~(t[i] = Start1 /\ t[i + 1] = Start2)
    BY DEF Harmless
  <2>1. i \in 1..Len(t) /\ i + 1 \in 1..Len(t) /\ i + 1 \in 1..(Len(noise) - 1)
    BY <1>1
  <2>2. t[i] = noise[i + 1] /\ t[i + 1] = noise[i + 1 + 1]
    BY <1>1, <2>1
  <2> QED
    BY <2>1, <2>2 DEF Harmless
<1>4. Head(noise) = Start1 => t = <<>> \/ Head(t) # Start2
  <2> SUFFICES ASSUME noise[1] = Start1, t # <<>> PROVE Head(t) # Start2
    BY <1>1
  <2>1. Len(t) >= 1 /\ Head(t) = t[1]
    BY <1>1
  <2>2. 1 \in 1..(Len(noise) - 1) /\ t[1] = noise[1 + 1]
    BY <1>1, <2>1
  <2> QED
    BY <2>1, <2>2 DEF Harmless
<1> QED
  BY <1>1, <1>2, <1>3, <1>4 DEF t

(* The stream after the noise.                                             *)
Framed(p, rest) == <<Start1>> \o (Header(p) \o (p \o rest))

(* A start byte right before the frame counts as discarded; it must not    *)
(* reach the limit.                                                        *)
Passes(noise, have, d) ==
  /\ Harmless(noise)
  /\ have => noise = <<>> \/ Head(noise) # Start2
  /\ d + Len(noise) + (IF have THEN 1 ELSE 0) <= MaxDiscarded

LEMMA FrameRead ==
  ASSUME NEW p \in Messages, NEW rest \in Seq(Byte), NEW have \in BOOLEAN, NEW d \in Nat,
         d + (IF have THEN 1 ELSE 0) <= MaxDiscarded
  PROVE  Scan[At(Framed(p, rest), have, d)] = <<p>> \o Scan[At(rest, FALSE, 0)]
<1> DEFINE q == Header(p) \o (p \o rest)
<1>1. q \in Seq(Byte) /\ Start1 \in Byte /\ Start1 # Start2 /\ MaxDiscarded \in Nat
  BY PartsOfStream, FrameAssumption
<1>2. \A e \in Nat : Scan[At(q, TRUE, e)] = <<p>> \o Scan[At(rest, FALSE, 0)]
  BY HeaderRound
<1>3. Framed(p, rest) = <<Start1>> \o q
  BY DEF Framed
<1> HIDE DEF q
<1>4. CASE ~have
  <2>1. Scan[At(<<Start1>> \o q, have, d)] = Scan[At(q, TRUE, d)]
    BY <1>1, <1>4, ByteRound
  <2> QED
    BY <1>2, <1>3, <2>1
<1>5. CASE have
  <2>1. d + 1 <= MaxDiscarded /\ d + 1 \in Nat /\ d + 1 > 0
    BY <1>5
  <2> DEFINE n == IF d + 1 > MaxDiscarded THEN 0 ELSE d + 1
  <2>2. n = d + 1
    BY <1>1, <2>1
  <2>3. Scan[At(<<Start1>> \o q, have, d)] = Scan[At(q, n > 0 /\ Start1 = Start1, n)]
    <3> HIDE DEF n
    <3>1. have => Scan[At(<<Start1>> \o q, have, d)] = Scan[At(q, n > 0 /\ Start1 = Start1, n)]
      BY <1>1, ByteRound DEF n
    <3> QED
      BY <1>5, <3>1
  <2>4. (n > 0 /\ Start1 = Start1) = TRUE
    BY <2>1, <2>2
  <2> HIDE DEF n
  <2>5. Scan[At(<<Start1>> \o q, have, d)] = Scan[At(q, TRUE, n)]
    BY <2>3, <2>4
  <2> QED
    BY <1>2, <1>3, <2>1, <2>2, <2>5
<1> QED
  BY <1>4, <1>5

(* Noise before a frame changes nothing of what is read.                   *)
LEMMA NoiseSkipped ==
  ASSUME NEW p \in Messages, NEW rest \in Seq(Byte)
  PROVE  \A noise \in Seq(Byte), have \in BOOLEAN, d \in Nat :
           Passes(noise, have, d) =>
             Scan[At(noise \o Framed(p, rest), have, d)] = <<p>> \o Scan[At(rest, FALSE, 0)]
<1> DEFINE q == Framed(p, rest)
           R == <<p>> \o Scan[At(rest, FALSE, 0)]
           S == {n \in Nat : \A noise \in Seq(Byte), have \in BOOLEAN, d \in Nat :
                   Len(noise) = n /\ Passes(noise, have, d) => Scan[At(noise \o q, have, d)] = R}
<1>1. q \in Seq(Byte)
  BY PartsOfStream, FrameAssumption DEF Framed
<1>2. \A have \in BOOLEAN, d \in Nat :
        d + (IF have THEN 1 ELSE 0) <= MaxDiscarded => Scan[At(q, have, d)] = R
  BY FrameRead
<1> HIDE DEF q, R
<1>3. 0 \in S
  <2> SUFFICES ASSUME NEW noise \in Seq(Byte), NEW have \in BOOLEAN, NEW d \in Nat,
                      Len(noise) = 0, Passes(noise, have, d)
               PROVE  Scan[At(noise \o q, have, d)] = R
    OBVIOUS
  <2>1. noise = <<>>
    OBVIOUS
  <2>2. noise \o q = q
    BY <1>1, <2>1, ConcatEmptySeq
  <2>3. d + (IF have THEN 1 ELSE 0) <= MaxDiscarded
    BY DEF Passes
  <2> QED
    BY <1>2, <2>2, <2>3
<1>4. ASSUME NEW n \in Nat, n \in S PROVE n + 1 \in S
  <2> SUFFICES ASSUME NEW noise \in Seq(Byte), NEW have \in BOOLEAN, NEW d \in Nat,
                      Len(noise) = n + 1, Passes(noise, have, d)
               PROVE  Scan[At(noise \o q, have, d)] = R
    OBVIOUS
  <2> DEFINE b == Head(noise)
             t == Tail(noise)
             m == IF d + 1 > MaxDiscarded THEN 0 ELSE d + 1
  <2>1. noise # <<>> /\ Harmless(noise)
    BY DEF Passes
  <2>2. /\ b \in Byte /\ t \in Seq(Byte) /\ Len(t) = n
        /\ noise = <<b>> \o t /\ Harmless(t)
        /\ b = Start1 => t = <<>> \/ Head(t) # Start2
    BY <2>1, HarmlessTail
  <2>3. have => b # Start2
    BY <2>1 DEF Passes
  <2> HIDE DEF b, t
  <2>4. noise \o q = <<b>> \o (t \o q) /\ t \o q \in Seq(Byte)
    <3>1. <<b>> \in Seq(Byte)
      BY <2>2
    <3> QED
      BY <1>1, <2>2, <3>1, ConcatAssociative, ConcatProperties
  <2>5. m = d + 1 /\ m \in Nat /\ m > 0
    BY <2>2, FrameAssumption DEF Passes
  <2> DEFINE u == t \o q
  <2> HIDE DEF u
  <2>6. /\ ~have /\ b = Start1 => Scan[At(<<b>> \o u, have, d)] = Scan[At(u, TRUE, d)]
        /\ ~have /\ b # Start1 => Scan[At(<<b>> \o u, have, d)] = Scan[At(u, FALSE, m)]
        /\ have => Scan[At(<<b>> \o u, have, d)] = Scan[At(u, m > 0 /\ b = Start1, m)]
    <3>1. b \in Byte /\ u \in Seq(Byte)
      BY <2>2, <2>4 DEF u
    <3> QED
      BY <2>3, <3>1, ByteRound, Zenon
  <2> HIDE DEF m
  <2>7. \A h \in BOOLEAN, e \in Nat : Passes(t, h, e) => Scan[At(u, h, e)] = R
    BY <1>4, <2>2 DEF u
  <2> HIDE DEF S
  <2>8. CASE ~have /\ b = Start1
    <3>1. Passes(t, TRUE, d)
      BY <2>2, <2>8 DEF Passes
    <3> QED
      BY <2>4, <2>6, <2>7, <2>8, <3>1 DEF u
  <2>9. CASE ~have /\ b # Start1
    <3>1. Passes(t, FALSE, m)
      BY <2>2, <2>5, <2>9 DEF Passes
    <3> QED
      BY <2>4, <2>5, <2>6, <2>7, <2>9, <3>1 DEF u
  <2>10. CASE have
    <3> DEFINE h == m > 0 /\ b = Start1
    <3>1. h \in BOOLEAN /\ (h => b = Start1)
      OBVIOUS
    <3>2. d + 1 + n + 1 <= MaxDiscarded
      BY <2>10 DEF Passes
    <3>3. Scan[At(<<b>> \o u, have, d)] = Scan[At(u, h, m)]
      BY <2>6, <2>10
    <3> HIDE DEF h
    <3>4. Passes(t, h, m)
      <4>1. m + Len(t) + (IF h THEN 1 ELSE 0) <= MaxDiscarded
        BY <2>2, <2>5, <3>1, <3>2, FrameAssumption
      <4>2. h => t = <<>> \/ Head(t) # Start2
        BY <2>2, <3>1
      <4> QED
        BY <2>2, <4>1, <4>2 DEF Passes
    <3> QED
      BY <2>4, <2>5, <2>7, <3>1, <3>3, <3>4 DEF u
  <2> QED
    BY <2>8, <2>9, <2>10
<1>5. Nat \subseteq S
  <2> HIDE DEF S
  <2> QED
    BY <1>3, <1>4, Induct
<1> SUFFICES ASSUME NEW noise \in Seq(Byte), NEW have \in BOOLEAN, NEW d \in Nat, Passes(noise, have, d)
             PROVE  Scan[At(noise \o q, have, d)] = R
  BY DEF q, R
<1>6. Len(noise) \in S
  <2> HIDE DEF S
  <2> QED
    BY <1>5
<1> QED
  BY <1>6

LEMMA Assoc ==
  ASSUME NEW a \in Seq(Byte), NEW b \in Seq(Byte), NEW c \in Seq(Byte)
  PROVE  (a \o b) \o c = a \o (b \o c)
BY ConcatAssociative

LEMMA HeaderBytes ==
  ASSUME NEW p \in Messages
  PROVE  <<Start1, Start2, Len(p) \div 256, Len(p) % 256>> = <<Start1>> \o Header(p)
<1> DEFINE x == Len(p) \div 256
           y == Len(p) % 256
           s == <<Start1, Start2, x, y>>
           a == <<Start1>>
           b == <<Start2, x, y>>
<1>1. x \in Byte /\ y \in Byte /\ Start1 \in Byte /\ Start2 \in Byte
  BY HeaderType, FrameAssumption
<1> HIDE DEF x, y
<1>2. /\ a \in Seq(Byte) /\ Len(a) = 1 /\ a[1] = Start1
      /\ b \in Seq(Byte) /\ Len(b) = 3 /\ b[1] = Start2 /\ b[2] = x /\ b[3] = y
      /\ s \in Seq(Byte) /\ Len(s) = 4 /\ s[1] = Start1 /\ s[2] = Start2 /\ s[3] = x /\ s[4] = y
  BY <1>1
<1> HIDE DEF a, b, s
<1>3. a \o b \in Seq(Byte) /\ Len(a \o b) = 4
  <2>1. a \in Seq(Byte) /\ b \in Seq(Byte)
    BY <1>2
  <2>2. a \o b \in Seq(Byte) /\ Len(a \o b) = Len(a) + Len(b)
    BY <2>1, ConcatProperties
  <2> QED
    BY <1>2, <2>2
<1>4. ASSUME NEW i \in 1..4 PROVE s[i] = (a \o b)[i]
  <2>1. (a \o b)[i] = IF i <= 1 THEN a[i] ELSE b[i - 1]
    <3>1. a \in Seq(Byte) /\ b \in Seq(Byte) /\ i \in 1..(Len(a) + Len(b))
      BY <1>2
    <3>2. (a \o b)[i] = IF i <= Len(a) THEN a[i] ELSE b[i - Len(a)]
      BY <3>1, ConcatAt
    <3> QED
      BY <1>2, <3>2
  <2> QED
    BY <1>2, <2>1
<1>5. s = a \o b
  BY <1>2, <1>3, <1>4, SeqEqual
<1> QED
  BY <1>5 DEF Header, s, a, b, x, y

LEMMA FramesAlwaysFound == FramesFound
<1> SUFFICES ASSUME NEW noise \in Noises, NEW p \in Messages, NEW rest \in Tails,
                    Harmless(noise), Len(noise) <= MaxDiscarded
             PROVE  Payloads(noise \o Frame(p) \o rest) = <<p>> \o Payloads(rest)
  BY DEF FramesFound
<1>1. /\ noise \in Seq(Byte) /\ rest \in Seq(Byte) /\ p \in Seq(Byte)
      /\ Header(p) \in Seq(Byte) /\ Start1 \in Byte /\ <<Start1>> \in Seq(Byte)
  BY StreamAssumption, FrameAssumption, HeaderType
<1>2. (noise \o Frame(p)) \o rest = noise \o Framed(p, rest)
  <2>1. Frame(p) = <<Start1>> \o (Header(p) \o p)
    <3>1. <<Start1, Start2, Len(p) \div 256, Len(p) % 256>> = <<Start1>> \o Header(p)
      BY HeaderBytes
    <3>2. Frame(p) = (<<Start1>> \o Header(p)) \o p
      BY <3>1 DEF Frame
    <3>3. (<<Start1>> \o Header(p)) \o p = <<Start1>> \o (Header(p) \o p)
      BY <1>1, Assoc, Zenon
    <3> QED
      BY <3>2, <3>3
  <2> DEFINE s1 == <<Start1>>
             f == Header(p) \o p
  <2>2. s1 \in Seq(Byte) /\ f \in Seq(Byte) /\ p \o rest \in Seq(Byte)
    BY <1>1, ConcatProperties
  <2>3. f \o rest = Header(p) \o (p \o rest)
    BY <1>1, Assoc, Zenon
  <2> HIDE DEF s1, f
  <2>4. s1 \o f \in Seq(Byte)
    BY <2>2, ConcatProperties, Zenon
  <2>5. (noise \o (s1 \o f)) \o rest = noise \o ((s1 \o f) \o rest)
    <3> DEFINE g == s1 \o f
    <3> HIDE DEF g
    <3>1. noise \in Seq(Byte) /\ g \in Seq(Byte) /\ rest \in Seq(Byte)
      BY <1>1, <2>4, Zenon DEF g
    <3>2. (noise \o g) \o rest = noise \o (g \o rest)
      BY <3>1, Assoc, Zenon
    <3> QED
      BY <3>2, Zenon DEF g
  <2>6. (s1 \o f) \o rest = s1 \o (f \o rest)
    <3>1. s1 \in Seq(Byte) /\ f \in Seq(Byte) /\ rest \in Seq(Byte)
      BY <1>1, <2>2, Zenon
    <3> QED
      BY <3>1, Assoc, Zenon
  <2> QED
    BY <2>1, <2>3, <2>5, <2>6, Zenon DEF Framed, s1, f
<1>3. Passes(noise, FALSE, 0)
  BY <1>1 DEF Passes
<1>4. Scan[At(noise \o Framed(p, rest), FALSE, 0)] = <<p>> \o Scan[At(rest, FALSE, 0)]
  <2>1. FALSE \in BOOLEAN /\ 0 \in Nat /\ noise \in Seq(Byte) /\ rest \in Seq(Byte)
    BY <1>1
  <2> QED
    BY <1>3, <2>1, NoiseSkipped, Zenon
<1>5. \A stream : Payloads(stream) = Scan[At(stream, FALSE, 0)]
  BY DEF Payloads, At
<1> QED
  BY <1>2, <1>4, <1>5

(* While runConnectedNativeSerial reads a device, no frame the device      *)
(* writes is lost to the console output before it, whatever the streams.   *)
THEOREM ScannerAlwaysInStep == Spec => []ScannerInStep
<1>1. ScannerInStep
  BY FramesAlwaysFound DEF ScannerInStep
<1> QED
  BY <1>1, PTL

-----------------------------------------------------------------------------
(* Packets stay in line on their way through the channels and the queue.   *)

(* Ids in a channel of the pipe; 0 is no packet of the Meshtastic adapter. *)
Passing(s) == {s[i] : i \in 1..Len(s)} \ {0}
Hand == {pump.hand} \ {0}

Rising(s) == \A i, j \in 1..Len(s) : i < j /\ s[i] # 0 /\ s[j] # 0 => s[i] < s[j]
Precede(A, B) == \A a \in A, b \in B : a < b

Packet == [id : Nat, attempts : Nat, window : Nat]

QueueShape ==
  /\ queue \in Seq(Packet)
  /\ drain \in [pc : {"select", "pick", "post"}, by : {"none", "event", "interval"},
                left : Nat, at : Nat]
  /\ Posting => drain.at \in 1..Len(queue)

(* Only a failed packet is in a retry window, and a drain passes over no   *)
(* other.                                                                  *)
Retried ==
  /\ \A i \in 1..Len(queue) : queue[i].window > 0 => queue[i].attempts > 0
  /\ Posting => \A i \in 1..(drain.at - 1) : queue[i].window > 0

(* A packet read earlier is further on.                                    *)
InLine ==
  /\ \A i, j \in 1..Len(queue) : i < j => queue[i].id < queue[j].id
  /\ Rising(events) /\ Rising(local)
  /\ Precede(Ids(queue), Passing(events)) /\ Precede(Ids(queue), Hand)
  /\ Precede(Ids(queue), Passing(local))
  /\ Precede(Passing(events), Hand) /\ Precede(Passing(events), Passing(local))
  /\ Precede(Hand, Passing(local))
  /\ Ids(queue) \cup Passing(events) \cup Hand \cup Passing(local) \subseteq 1..packets

LEMMA ChannelSend ==
  ASSUME NEW s \in Seq(Nat), NEW x \in Nat, Rising(s), Precede(Passing(s), {x} \ {0})
  PROVE  /\ Rising(Append(s, x))
         /\ Passing(Append(s, x)) = Passing(s) \cup ({x} \ {0})
<1> DEFINE t == Append(s, x)
<1>1. /\ Len(s) \in Nat /\ Len(t) = Len(s) + 1 /\ t[Len(s) + 1] = x
      /\ \A i \in 1..Len(s) : t[i] = s[i] /\ s[i] \in Nat
  OBVIOUS
<1> HIDE DEF t
<1>2. 1..Len(t) = 1..Len(s) \cup {Len(s) + 1}
  BY <1>1
<1>3. Passing(t) = Passing(s) \cup ({x} \ {0})
  BY <1>1, <1>2 DEF Passing
<1>4. ASSUME NEW i \in 1..Len(t), NEW j \in 1..Len(t), i < j, t[i] # 0, t[j] # 0
      PROVE  t[i] < t[j]
  <2>1. i \in 1..Len(s)
    BY <1>1, <1>4
  <2>2. CASE j \in 1..Len(s)
    BY <1>1, <1>4, <2>1, <2>2 DEF Rising
  <2>3. CASE j = Len(s) + 1
    <3>1. s[i] \in Passing(s) /\ x \in {x} \ {0}
      BY <1>1, <1>4, <2>1, <2>3 DEF Passing
    <3> QED
      BY <1>1, <2>1, <2>3, <3>1 DEF Precede
  <2> QED
    BY <1>2, <2>2, <2>3
<1> QED
  BY <1>3, <1>4 DEF Rising, t

LEMMA ChannelReceive ==
  ASSUME NEW s \in Seq(Nat), s # <<>>, Rising(s)
  PROVE  /\ Rising(Tail(s)) /\ Passing(Tail(s)) \subseteq Passing(s)
         /\ Head(s) \in Nat /\ Tail(s) \in Seq(Nat)
         /\ {Head(s)} \ {0} \subseteq Passing(s)
         /\ Precede({Head(s)} \ {0}, Passing(Tail(s)))
<1> DEFINE t == Tail(s)
<1>1. /\ Len(s) \in Nat /\ Len(s) >= 1 /\ Len(t) = Len(s) - 1 /\ Head(s) = s[1]
      /\ t \in Seq(Nat) /\ Head(s) \in Nat
      /\ \A i \in 1..Len(t) : t[i] = s[i + 1]
  BY HeadTailProperties
<1> HIDE DEF t
<1>2. \A i \in 1..Len(t) : i + 1 \in 1..Len(s) /\ 1 < i + 1 /\ 1 \in 1..Len(s)
  BY <1>1
<1>3. Rising(t)
  <2> SUFFICES ASSUME NEW i \in 1..Len(t), NEW j \in 1..Len(t), i < j, t[i] # 0, t[j] # 0
               PROVE  t[i] < t[j]
    BY DEF Rising
  <2>1. i + 1 \in 1..Len(s) /\ j + 1 \in 1..Len(s)
    BY <1>2
  <2>2. t[i] = s[i + 1] /\ t[j] = s[j + 1]
    BY <1>1, Zenon
  <2>3. i + 1 < j + 1
    OBVIOUS
  <2> HIDE DEF t
  <2> QED
    BY <2>1, <2>2, <2>3 DEF Rising
<1>4. Passing(t) \subseteq Passing(s)
  BY <1>1, <1>2 DEF Passing
<1>5. {Head(s)} \ {0} \subseteq Passing(s)
  BY <1>1 DEF Passing
<1>6. Precede({Head(s)} \ {0}, Passing(t))
  <2> SUFFICES ASSUME Head(s) # 0, NEW i \in 1..Len(t), t[i] # 0 PROVE Head(s) < t[i]
    BY DEF Precede, Passing
  <2> QED
    BY <1>1, <1>2 DEF Rising
<1> QED
  BY <1>1, <1>3, <1>4, <1>5, <1>6 DEF t

(* What is left when one packet is taken out.                              *)
LEMMA WithoutAt ==
  ASSUME NEW q \in Seq(Packet), NEW i \in 1..Len(q)
  PROVE  /\ Without(q, i) \in Seq(Packet) /\ Len(Without(q, i)) = Len(q) - 1
         /\ \A k \in 1..(Len(q) - 1) : Without(q, i)[k] = IF k < i THEN q[k] ELSE q[k + 1]
<1> DEFINE a == SubSeq(q, 1, i - 1)
           b == SubSeq(q, i + 1, Len(q))
<1>1. Len(q) \in Nat /\ i \in Nat /\ i >= 1 /\ i <= Len(q)
  OBVIOUS
<1>2. a \in Seq(Packet) /\ Len(a) = i - 1 /\ \A k \in 1..(i - 1) : a[k] = q[k]
  <2>1. \A k \in 1..(i - 1) : q[k] \in Packet
    BY <1>1, ElementOfSeq
  <2>2. /\ a \in Seq(Packet) /\ Len(a) = IF 1 <= i - 1 THEN i - 1 - 1 + 1 ELSE 0
        /\ \A k \in 1..(i - 1 - 1 + 1) : a[k] = q[1 + k - 1]
    BY <1>1, <2>1, SubSeqProperties
  <2> HIDE DEF a
  <2> QED
    BY <1>1, <2>2
<1>3. b \in Seq(Packet) /\ Len(b) = Len(q) - i /\ \A k \in 1..(Len(q) - i) : b[k] = q[i + k]
  <2>1. \A k \in (i + 1)..Len(q) : q[k] \in Packet
    BY <1>1, ElementOfSeq
  <2>2. /\ b \in Seq(Packet) /\ Len(b) = IF i + 1 <= Len(q) THEN Len(q) - (i + 1) + 1 ELSE 0
        /\ \A k \in 1..(Len(q) - (i + 1) + 1) : b[k] = q[i + 1 + k - 1]
    BY <1>1, <2>1, SubSeqProperties
  <2> HIDE DEF b
  <2> QED
    BY <1>1, <2>2
<1> HIDE DEF a, b
<1>4. a \o b \in Seq(Packet) /\ Len(a \o b) = Len(a) + Len(b)
  BY <1>2, <1>3, ConcatProperties
<1>5. ASSUME NEW k \in 1..(Len(q) - 1) PROVE (a \o b)[k] = IF k < i THEN q[k] ELSE q[k + 1]
  <2>1. k \in 1..(Len(a) + Len(b))
    BY <1>1, <1>2, <1>3
  <2>2. (a \o b)[k] = IF k <= Len(a) THEN a[k] ELSE b[k - Len(a)]
    BY <1>2, <1>3, <2>1, ConcatProperties
  <2>3. CASE k < i
    BY <1>1, <1>2, <2>2, <2>3
  <2>4. CASE ~(k < i)
    <3>1. ~(k <= Len(a)) /\ k - Len(a) \in 1..(Len(q) - i) /\ i + (k - Len(a)) = k + 1
      BY <1>1, <1>2, <2>4
    <3> QED
      BY <1>3, <2>2, <2>4, <3>1
  <2> QED
    BY <2>3, <2>4
<1>6. Len(a \o b) = Len(q) - 1
  BY <1>1, <1>2, <1>3, <1>4
<1> QED
  BY <1>4, <1>5, <1>6 DEF Without, a, b

(* The packets passed over by a drain wait for their retry.                *)
LEMMA PickedFirst ==
  ASSUME QueueShape, Dispatchable # {}
  PROVE  /\ NextDispatchable \in 1..Len(queue)
         /\ \A i \in 1..(NextDispatchable - 1) : queue[i].window > 0
<1>1. queue \in Seq(Packet) /\ Len(queue) \in Nat
  BY DEF QueueShape
<1>2. Dispatchable \subseteq Nat
  BY <1>1 DEF Dispatchable
<1>3. \E i \in Dispatchable : \A j \in Dispatchable : i <= j
  BY <1>2, Least
<1>4. NextDispatchable \in Dispatchable /\ \A j \in Dispatchable : NextDispatchable <= j
  BY <1>3 DEF NextDispatchable
<1> DEFINE n == NextDispatchable
<1> HIDE DEF n
<1>5. n \in 1..Len(queue) /\ \A j \in Dispatchable : n <= j
  BY <1>4 DEF Dispatchable, n
<1>6. ASSUME NEW i \in 1..(n - 1) PROVE queue[i].window > 0
  <2>1. i \in 1..Len(queue) /\ ~(n <= i)
    BY <1>1, <1>5
  <2>2. i \notin Dispatchable
    BY <1>5, <2>1
  <2>3. queue[i].window # 0 /\ queue[i] \in Packet
    BY <1>1, <2>1, <2>2 DEF Dispatchable
  <2> QED
    BY <2>3 DEF Packet
<1> QED
  BY <1>5, <1>6 DEF n

(* Time passes for the packets of the queue.                               *)
LEMMA AgedQueue ==
  ASSUME QueueShape
  PROVE  /\ Aged(queue) \in Seq(Packet) /\ Len(Aged(queue)) = Len(queue) /\ Len(queue) \in Nat
         /\ \A i \in 1..Len(queue) :
              /\ Aged(queue)[i].id = queue[i].id
              /\ Aged(queue)[i].attempts = queue[i].attempts
              /\ Aged(queue)[i].window > 0 => queue[i].window > 0
<1>1. queue \in Seq(Packet) /\ Len(queue) \in Nat /\ \A i \in 1..Len(queue) : queue[i] \in Packet
  BY DEF QueueShape
<1> DEFINE next(i) == [queue[i] EXCEPT !.window = IF @ = 0 THEN 0 ELSE @ - 1]
           t == [i \in 1..Len(queue) |-> next(i)]
<1>2. ASSUME NEW i \in 1..Len(queue)
      PROVE  /\ next(i) \in Packet /\ next(i).id = queue[i].id
             /\ next(i).attempts = queue[i].attempts /\ (next(i).window > 0 => queue[i].window > 0)
  <2> DEFINE p == queue[i]
             w == IF p.window = 0 THEN 0 ELSE p.window - 1
  <2>1. p \in Packet
    BY <1>1
  <2> HIDE DEF p
  <2>2. w \in Nat /\ (w > 0 => p.window > 0)
    BY <2>1 DEF Packet
  <2>3. next(i) = [p EXCEPT !.window = w]
    BY DEF p
  <2> HIDE DEF w, next
  <2> QED
    BY <2>1, <2>2, <2>3 DEF Packet, p
<1> HIDE DEF next
<1>3. t \in Seq(Packet) /\ Len(t) = Len(queue) /\ \A i \in 1..Len(queue) : t[i] = next(i)
  BY <1>1, <1>2
<1> HIDE DEF t
<1>4. Aged(queue) = t \/ Aged(queue) = queue
  BY DEF Aged, t, next
<1>5. CASE Aged(queue) = t
  BY <1>1, <1>2, <1>3, <1>5
<1>6. CASE Aged(queue) = queue
  BY <1>1, <1>6
<1> QED
  BY <1>4, <1>5, <1>6

-----------------------------------------------------------------------------
(* What the queue keeps of its packets it keeps in order.                  *)
LEMMA LineKept ==
  ASSUME InLine, UNCHANGED pipeVars, Ids(queue') \subseteq Ids(queue),
         \A i, j \in 1..Len(queue') : i < j => queue'[i].id < queue'[j].id
  PROVE  InLine'
<1>1. /\ events' = events /\ local' = local /\ pump' = pump /\ packets' = packets
      /\ Ids(queue)' = Ids(queue')
  BY DEF pipeVars, Ids
<1>2. /\ Rising(events)' = Rising(events) /\ Rising(local)' = Rising(local)
      /\ Passing(events)' = Passing(events) /\ Passing(local)' = Passing(local) /\ Hand' = Hand
  BY <1>1 DEF Rising, Passing, Hand
<1>3. ASSUME NEW B, Precede(Ids(queue), B) PROVE Precede(Ids(queue'), B)
  BY <1>3 DEF Precede
<1>4. /\ Precede(Ids(queue'), Passing(events)) /\ Precede(Ids(queue'), Hand)
      /\ Precede(Ids(queue'), Passing(local))
  BY <1>3, Zenon DEF InLine
<1>5. /\ Precede(Passing(events), Hand)' = Precede(Passing(events), Hand)
      /\ Precede(Passing(events), Passing(local))' = Precede(Passing(events), Passing(local))
      /\ Precede(Hand, Passing(local))' = Precede(Hand, Passing(local))
      /\ Precede(Ids(queue), Passing(events))' = Precede(Ids(queue'), Passing(events))
      /\ Precede(Ids(queue), Hand)' = Precede(Ids(queue'), Hand)
      /\ Precede(Ids(queue), Passing(local))' = Precede(Ids(queue'), Passing(local))
  BY <1>1, <1>2 DEF Precede
<1>6. (Ids(queue) \cup Passing(events) \cup Hand \cup Passing(local) \subseteq 1..packets)'
  <2>1. Ids(queue') \cup Passing(events) \cup Hand \cup Passing(local) \subseteq 1..packets
    BY DEF InLine
  <2> QED
    BY <1>1, <1>2, <2>1
<1> QED
  BY <1>2, <1>4, <1>5, <1>6 DEF InLine

LEMMA PickKeeps ==
  ASSUME QueueShape, Retried, InLine, Pick, UNCHANGED pipeVars
  PROVE  QueueShape' /\ Retried' /\ InLine'
<1>1. /\ drain.pc = "pick" /\ drain.left > 0 /\ Dispatchable # {} /\ queue' = queue
      /\ drain' = [drain EXCEPT !.pc = "post", !.at = NextDispatchable, !.left = @ - 1]
  BY DEF Pick
<1>2. /\ NextDispatchable \in 1..Len(queue)
      /\ \A i \in 1..(NextDispatchable - 1) : queue[i].window > 0
  BY <1>1, PickedFirst
<1> DEFINE n == NextDispatchable
<1> HIDE DEF n
<1>3. n \in 1..Len(queue) /\ \A i \in 1..(n - 1) : queue[i].window > 0
  BY <1>2 DEF n
<1>4. drain' = [drain EXCEPT !.pc = "post", !.at = n, !.left = drain.left - 1]
  BY <1>1 DEF n
<1>5. /\ drain' \in [pc : {"select", "pick", "post"}, by : {"none", "event", "interval"},
                     left : Nat, at : Nat]
      /\ drain'.at = n /\ drain'.pc = "post"
  <2>1. n \in Nat /\ drain.left - 1 \in Nat
    BY <1>1, <1>3 DEF QueueShape
  <2> QED
    BY <1>4, <2>1 DEF QueueShape
<1>6. QueueShape'
  BY <1>1, <1>3, <1>5 DEF QueueShape
<1>7. Retried'
  BY <1>1, <1>3, <1>5 DEF Retried
<1> QED
  BY <1>1, <1>6, <1>7, LineKept DEF InLine

LEMMA AnsweredKeeps ==
  ASSUME QueueShape, Retried, InLine, Answered, UNCHANGED pipeVars
  PROVE  QueueShape' /\ Retried' /\ InLine'
<1> DEFINE n == drain.at
           q == Without(queue, n)
<1>1. /\ Posting /\ n \in 1..Len(queue) /\ queue \in Seq(Packet) /\ Len(queue) \in Nat
      /\ queue' = q /\ drain' = [drain EXCEPT !.pc = "pick", !.at = 0]
  BY DEF Answered, QueueShape
<1>2. /\ q \in Seq(Packet) /\ Len(q) = Len(queue) - 1
      /\ \A k \in 1..(Len(queue) - 1) : q[k] = IF k < n THEN queue[k] ELSE queue[k + 1]
  BY <1>1, WithoutAt
<1> HIDE DEF q, n
<1>3. drain'.pc = "pick" /\ drain' \in [pc : {"select", "pick", "post"},
         by : {"none", "event", "interval"}, left : Nat, at : Nat]
  BY <1>1 DEF QueueShape
<1> DEFINE was(k) == IF k < n THEN k ELSE k + 1
<1>4. ASSUME NEW k \in 1..Len(q) PROVE was(k) \in 1..Len(queue) /\ q[k] = queue[was(k)]
  BY <1>1, <1>2
<1>5. ASSUME NEW i \in 1..Len(q), NEW j \in 1..Len(q), i < j PROVE was(i) < was(j)
  BY <1>1, <1>2, <1>5
<1> HIDE DEF was
<1>6. Ids(q) \subseteq Ids(queue) /\ \A i, j \in 1..Len(q) : i < j => q[i].id < q[j].id
  BY <1>4, <1>5 DEF Ids, InLine
<1>7. \A i \in 1..Len(q) : q[i].window > 0 => q[i].attempts > 0
  BY <1>4 DEF Retried
<1>8. QueueShape' /\ Retried'
  BY <1>1, <1>2, <1>3, <1>7 DEF QueueShape, Retried, Posting
<1> QED
  BY <1>1, <1>6, <1>8, LineKept

LEMMA DrainEndsKeeps ==
  ASSUME QueueShape, Retried, InLine, DrainEnds, UNCHANGED pipeVars
  PROVE  QueueShape' /\ Retried' /\ InLine'
<1> DEFINE q == Aged(queue)
<1>1. queue' = q /\ drain' = Resting /\ queue \in Seq(Packet)
  BY DEF DrainEnds, QueueShape
<1>2. /\ q \in Seq(Packet) /\ Len(q) = Len(queue) /\ Len(queue) \in Nat
      /\ \A i \in 1..Len(queue) : /\ q[i].id = queue[i].id /\ q[i].attempts = queue[i].attempts
                                  /\ q[i].window > 0 => queue[i].window > 0
  BY AgedQueue
<1> HIDE DEF q
<1>3. Ids(q) \subseteq Ids(queue) /\ \A i, j \in 1..Len(q) : i < j => q[i].id < q[j].id
  BY <1>2 DEF Ids, InLine
<1>4. \A i \in 1..Len(q) : q[i].window > 0 => q[i].attempts > 0
  BY <1>2 DEF Retried
<1>5. QueueShape' /\ Retried'
  BY <1>1, <1>2, <1>4 DEF QueueShape, Retried, Posting, Resting
<1> QED
  BY <1>1, <1>3, <1>5, LineKept

LEMMA FailedKeeps ==
  ASSUME QueueShape, Retried, InLine, Failed, UNCHANGED pipeVars
  PROVE  QueueShape' /\ Retried' /\ InLine'
<1> DEFINE n == drain.at
           a == Aged(queue)
           tries == IF queue[n].attempts = MaxAttempts THEN MaxAttempts
                    ELSE queue[n].attempts + 1
<1>1. /\ Posting /\ n \in 1..Len(queue) /\ queue \in Seq(Packet) /\ Len(queue) \in Nat
      /\ drain' = Resting
  BY DEF Failed, QueueShape
<1>2. PICK w \in Windows(tries) :
        queue' = [a EXCEPT ![n] = [id |-> queue[n].id, attempts |-> tries, window |-> w]]
  BY DEF Failed
<1>3. queue[n] \in Packet
  BY <1>1
<1>4. tries \in Nat /\ tries > 0 /\ w \in Nat
  <2>1. tries \in Nat /\ tries > 0
    BY <1>3 DEF Packet, MaxAttempts
  <2> HIDE DEF tries
  <2> QED
    BY <2>1, <1>2 DEF Windows
<1>5. /\ a \in Seq(Packet) /\ Len(a) = Len(queue)
      /\ \A i \in 1..Len(queue) : /\ a[i].id = queue[i].id /\ a[i].attempts = queue[i].attempts
                                  /\ a[i].window > 0 => queue[i].window > 0
  BY AgedQueue
<1> DEFINE p == [id |-> queue[n].id, attempts |-> tries, window |-> w]
<1>6. p \in Packet /\ p.id = queue[n].id /\ p.attempts > 0
  <2> HIDE DEF tries
  <2> QED BY <1>3, <1>4 DEF Packet
<1> DEFINE q == [a EXCEPT ![n] = p]
<1>7. queue' = q
  BY <1>2
<1> HIDE DEF p, a, n
<1>8. /\ q \in Seq(Packet) /\ Len(q) = Len(queue)
      /\ \A i \in 1..Len(queue) : q[i] = IF i = n THEN p ELSE a[i]
  BY <1>1, <1>5, <1>6
<1> HIDE DEF q
<1>9. \A i \in 1..Len(queue) : q[i].id = queue[i].id
  BY <1>5, <1>6, <1>8
<1>10. \A i \in 1..Len(queue) : q[i].window > 0 => q[i].attempts > 0
  BY <1>5, <1>6, <1>8 DEF Retried
<1>11. Ids(q) \subseteq Ids(queue) /\ \A i, j \in 1..Len(q) : i < j => q[i].id < q[j].id
  BY <1>8, <1>9 DEF Ids, InLine
<1>12. QueueShape' /\ Retried'
  BY <1>1, <1>7, <1>8, <1>10 DEF QueueShape, Retried, Posting, Resting
<1> QED
  BY <1>7, <1>11, <1>12, LineKept

(* Steps that leave the queue alone, or empty it, and post nothing.        *)
LEMMA RestKeeps ==
  ASSUME QueueShape, Retried, InLine, UNCHANGED pipeVars,
         queue' \in {queue, <<>>}, drain' # drain => drain'.pc # "post",
         drain' = drain => queue' = queue,
         drain' \in [pc : {"select", "pick", "post"}, by : {"none", "event", "interval"},
                     left : Nat, at : Nat]
  PROVE  QueueShape' /\ Retried' /\ InLine'
<1>1. CASE queue' = queue
  <2>1. QueueShape' /\ Retried'
    BY <1>1 DEF QueueShape, Retried, Posting
  <2> QED
    BY <1>1, <2>1, LineKept DEF InLine
<1>2. CASE queue' = <<>> /\ queue' # queue
  <2>1. /\ QueueShape' /\ Retried'
        /\ Ids(queue') = {}
        /\ \A i, j \in 1..Len(queue') : i < j => queue'[i].id < queue'[j].id
    BY <1>2 DEF QueueShape, Retried, Posting, Ids
  <2> QED
    BY <2>1, LineKept
<1> QED
  BY <1>1, <1>2

LEMMA QueueSteps ==
  ASSUME QueueShape, Retried, InLine, UNCHANGED pipeVars,
         \/ Woken \/ Ticked \/ DrainStep \/ CloudStep \/ LoopReturns
         \/ PortalDeauthorizes \/ Paired \/ UNCHANGED queueVars
  PROVE  QueueShape' /\ Retried' /\ InLine'
<1> DEFINE Drains == [pc : {"select", "pick", "post"}, by : {"none", "event", "interval"},
                      left : Nat, at : Nat]
<1>1. drain \in Drains /\ Resting \in Drains /\ Resting.pc # "post"
  BY DEF QueueShape, Resting
<1>2. CASE Woken \/ Ticked
  <2>1. PICK by \in {"event", "interval"} : Drain(by)
    BY <1>2 DEF Woken, Ticked
  <2>2. queue' = queue /\ drain.pc = "select"
    BY <1>2 DEF Woken, Ticked, Idle
  <2>3. drain' \in Drains /\ drain'.pc # "post"
    BY <1>1, <2>1, QueueAssumption DEF Drain
  <2> QED
    BY <2>2, <2>3, RestKeeps
<1>3. CASE LifecycleEnds \/ LoopReturns
  <2>1. drain' = Resting /\ queue' \in {queue, <<>>} /\ (LifecycleEnds => drain # Resting)
        /\ (LoopReturns => queue' = queue)
    BY <1>3 DEF LifecycleEnds, LoopReturns, Posting, Resting
  <2> QED
    BY <1>1, <1>3, <2>1, RestKeeps
<1>4. CASE PortalDeauthorizes \/ Paired \/ UNCHANGED queueVars
  <2>1. drain' = drain /\ queue' = queue
    BY <1>4 DEF PortalDeauthorizes, Paired, queueVars
  <2> QED
    BY <1>1, <2>1, RestKeeps
<1>5. CASE DrainStep
  BY <1>5, PickKeeps, DrainEndsKeeps DEF DrainStep
<1>6. CASE Answered \/ Failed
  BY <1>6, AnsweredKeeps, FailedKeeps
<1> QED
  BY <1>2, <1>3, <1>4, <1>5, <1>6 DEF CloudStep

(* A packet that moves on in the pipe stays between its neighbours.        *)
LEMMA PipeKeepsLine ==
  ASSUME TypePipeOK, InLine, PipeStep
  PROVE  InLine'
<1> DEFINE QueueRises == \A i, j \in 1..Len(queue) : i < j => queue[i].id < queue[j].id
<1>1. queue' = queue
  BY DEF PipeStep, ReadPacket, PumpTakes, Publish, PumpEnds, TryPublish, queueVars
<1>2. /\ packets \in Nat /\ local \in Seq(Nat) /\ events \in Seq(Nat) /\ pump.hand \in Nat
      /\ pump \in [pc : {"running", "ended"}, hand : Nat]
  BY DEF TypePipeOK
<1> DEFINE Q == Ids(queue)
           E == Passing(events)
           H == Hand
           L == Passing(local)
<1>3. /\ QueueRises /\ Rising(events) /\ Rising(local)
      /\ Precede(Q, E) /\ Precede(Q, H) /\ Precede(Q, L) /\ Precede(E, H) /\ Precede(E, L)
      /\ Precede(H, L) /\ Q \cup E \cup H \cup L \subseteq 1..packets
  BY DEF InLine
<1>4. SUFFICES /\ Rising(events') /\ Rising(local')
               /\ Precede(Q, E') /\ Precede(Q, H') /\ Precede(Q, L') /\ Precede(E', H')
               /\ Precede(E', L') /\ Precede(H', L')
               /\ Q \cup E' \cup H' \cup L' \subseteq 1..packets'
  BY <1>1, <1>3 DEF InLine, Passing, Hand, Rising, Precede, Ids
<1>5. CASE ReadPacket
  <2> DEFINE x == packets + 1
  <2>1. local' = Append(local, x) /\ packets' = x /\ UNCHANGED <<pump, events>>
    BY <1>5 DEF ReadPacket
  <2>2. x \in Nat /\ x \notin {0} /\ \A y \in 1..packets : y < x /\ y \in 1..x
    BY <1>2
  <2>3. x \in 1..x
    BY <1>2
  <2> HIDE DEF x
  <2>4. Precede(L, {x} \ {0}) /\ Precede(Q, {x}) /\ Precede(E, {x}) /\ Precede(H, {x})
    BY <1>3, <2>2 DEF Precede
  <2>5. Rising(local') /\ L' = L \cup {x}
    BY <1>2, <1>3, <2>1, <2>2, <2>4, ChannelSend
  <2>6. E' = E /\ H' = H /\ Rising(events')
    BY <1>3, <2>1 DEF Passing, Hand, Rising
  <2> HIDE DEF Q, E, H, L
  <2>7. Precede(Q, L') /\ Precede(E, L') /\ Precede(H, L')
    BY <1>3, <2>4, <2>5 DEF Precede
  <2> QED
    BY <1>3, <2>1, <2>2, <2>3, <2>5, <2>6, <2>7
<1>6. CASE PumpTakes
  <2>1. /\ pump.hand = 0 /\ local # <<>> /\ local' = Tail(local)
        /\ pump' = [pump EXCEPT !.hand = Head(local)] /\ UNCHANGED <<packets, events>>
    BY <1>6 DEF PumpTakes
  <2>2. /\ Rising(local') /\ L' \subseteq L
        /\ {Head(local)} \ {0} \subseteq L /\ Precede({Head(local)} \ {0}, L')
    BY <1>2, <1>3, <2>1, ChannelReceive
  <2>3. H' = {Head(local)} \ {0} /\ E' = E /\ Rising(events')
    BY <1>2, <1>3, <2>1 DEF Hand, Passing, Rising
  <2> HIDE DEF Q, E, H, L
  <2> QED
    BY <1>3, <2>1, <2>2, <2>3 DEF Precede
<1>7. CASE Publish
  <2>1. /\ pump.hand # 0 /\ events' = Append(events, pump.hand)
        /\ pump' = [pump EXCEPT !.hand = 0] /\ UNCHANGED <<packets, local>>
    BY <1>7 DEF Publish
  <2>2. H = {pump.hand} \ {0} /\ H' = {} /\ L' = L /\ Rising(local')
    BY <1>2, <1>3, <2>1 DEF Hand, Passing, Rising
  <2>3. Rising(events') /\ E' = E \cup H
    <3>1. Precede(Passing(events), {pump.hand} \ {0})
      BY <1>3, <2>2
    <3> QED
      BY <1>2, <1>3, <2>1, <2>2, <3>1, ChannelSend
  <2> HIDE DEF Q, E, H, L
  <2> QED
    BY <1>3, <2>1, <2>2, <2>3 DEF Precede
<1>8. CASE PumpEnds
  <2>1. /\ UNCHANGED <<packets, local, events>> /\ pump' = [pump EXCEPT !.pc = "ended"]
    BY <1>8 DEF PumpEnds
  <2>2. E' = E /\ H' = H /\ L' = L /\ Rising(events') /\ Rising(local')
    BY <1>2, <1>3, <2>1 DEF Hand, Passing, Rising
  <2> QED
    BY <1>3, <2>1, <2>2
<1>9. CASE TryPublish
  <2>1. /\ UNCHANGED <<packets, local, pump>> /\ events' \in {Append(events, 0), events}
    BY <1>9 DEF TryPublish
  <2>2. H' = H /\ L' = L /\ Rising(local')
    BY <1>3, <2>1 DEF Hand, Passing, Rising
  <2>3. Rising(events') /\ E' = E
    <3>1. CASE events' = events
      BY <1>3, <3>1 DEF Passing, Rising
    <3>2. CASE events' = Append(events, 0)
      <4>1. Precede(Passing(events), {0} \ {0}) /\ {0} \ {0} = {}
        BY DEF Precede
      <4>2. /\ Rising(Append(events, 0))
            /\ Passing(Append(events, 0)) = Passing(events) \cup ({0} \ {0})
        BY <1>2, <1>3, <4>1, ChannelSend
      <4>3. E' = Passing(Append(events, 0))
        BY <3>2 DEF Passing
      <4>4. Rising(events')
        BY <3>2, <4>2 DEF Rising
      <4> QED
        BY <4>1, <4>2, <4>3, <4>4
    <3> QED
      BY <2>1, <3>1, <3>2
  <2> QED
    BY <1>3, <2>1, <2>2, <2>3
<1> QED
  BY <1>5, <1>6, <1>7, <1>8, <1>9 DEF PipeStep

(* The Run loop takes the next event into the queue, which may drop its    *)
(* oldest packet.                                                          *)
LEMMA EnqueueKeeps ==
  ASSUME TypePipeOK, QueueShape, Retried, InLine, OnAdapterEvent
  PROVE  QueueShape' /\ Retried' /\ InLine'
<1> DEFINE x == Head(events)
           Q == Ids(queue)
           E == Passing(events)
           H == Hand
           L == Passing(local)
<1>1. /\ packets \in Nat /\ local \in Seq(Nat) /\ events \in Seq(Nat) /\ events # <<>>
      /\ events' = Tail(events) /\ UNCHANGED <<packets, local, pump>>
      /\ IF x = 0 THEN UNCHANGED queueVars ELSE Enqueue(x)
  BY DEF TypePipeOK, OnAdapterEvent
<1>2. /\ Rising(events) /\ Rising(local)
      /\ Precede(Q, E) /\ Precede(Q, H) /\ Precede(Q, L) /\ Precede(E, H) /\ Precede(E, L)
      /\ Precede(H, L) /\ Q \cup E \cup H \cup L \subseteq 1..packets
  BY DEF InLine
<1>3. /\ Rising(events') /\ E' \subseteq E /\ x \in Nat /\ {x} \ {0} \subseteq E
      /\ Precede({x} \ {0}, E')
  BY <1>1, <1>2, ChannelReceive
<1>4. H' = H /\ L' = L /\ Rising(local')
  BY <1>1, <1>2 DEF Hand, Passing, Rising
<1>5. CASE x = 0
  <2>1. queue' = queue /\ drain' = drain
    BY <1>1, <1>5 DEF queueVars
  <2>2. QueueShape' /\ Retried' /\ Ids(queue') = Q
    BY <2>1 DEF QueueShape, Retried, Posting, Ids
  <2>3. \A i, j \in 1..Len(queue') : i < j => queue'[i].id < queue'[j].id
    BY <2>1 DEF InLine
  <2>4. Precede(Q, E') /\ Precede(E', H) /\ Precede(E', L) /\ E' \subseteq 1..packets
    <3> HIDE DEF Q, E, H, L
    <3> QED BY <1>2, <1>3 DEF Precede
  <2> QED
    BY <1>1, <1>2, <1>3, <1>4, <2>2, <2>3, <2>4 DEF InLine, Hand, Passing
<1>6. CASE x # 0
  <2> DEFINE t == Trimmed
             p == [id |-> x, attempts |-> 0, window |-> 0]
             q == Append(t, p)
  <2>1. Idle /\ queue' = q /\ drain' = drain
    BY <1>1, <1>6 DEF Enqueue
  <2>2. /\ queue \in Seq(Packet) /\ Len(queue) \in Nat
        /\ \A i, j \in 1..Len(queue) : i < j => queue[i].id < queue[j].id
    BY DEF QueueShape, InLine
  <2>3. /\ t \in Seq(Packet) /\ Len(t) \in Nat
        /\ \E d \in {0, 1} : \A i \in 1..Len(t) : i + d \in 1..Len(queue) /\ t[i] = queue[i + d]
    <3>1. CASE Len(queue) >= Depth
      <4>1. t = Tail(queue) /\ queue # <<>>
        BY <2>2, <3>1, QueueAssumption DEF Trimmed
      <4>2. /\ t \in Seq(Packet) /\ Len(t) = Len(queue) - 1 /\ Len(queue) >= 1
            /\ \A i \in 1..Len(t) : t[i] = queue[i + 1]
        BY <2>2, <4>1, HeadTailProperties
      <4> HIDE DEF t
      <4> QED BY <2>2, <4>2
    <3>2. CASE ~(Len(queue) >= Depth)
      <4>1. t = queue
        BY <3>2 DEF Trimmed
      <4> HIDE DEF t
      <4> QED BY <2>2, <4>1
    <3> QED BY <3>1, <3>2
  <2>4. /\ Ids(t) \subseteq Q /\ \A i, j \in 1..Len(t) : i < j => t[i].id < t[j].id
        /\ \A i \in 1..Len(t) : t[i].window > 0 => t[i].attempts > 0
    <3> HIDE DEF t
    <3>1. PICK d \in {0, 1} : \A i \in 1..Len(t) : i + d \in 1..Len(queue) /\ t[i] = queue[i + d]
      BY <2>3
    <3>2. \A i, j \in 1..Len(t) : i < j => i + d < j + d
      OBVIOUS
    <3> QED
      BY <2>2, <3>1, <3>2 DEF Ids, Retried
  <2>5. p \in Packet /\ p.id = x /\ p.window = 0
    BY <1>3 DEF Packet
  <2> HIDE DEF t, p
  <2>6. /\ q \in Seq(Packet) /\ Len(q) = Len(t) + 1 /\ q[Len(t) + 1] = p
        /\ \A i \in 1..Len(t) : q[i] = t[i]
    BY <2>3, <2>5
  <2> HIDE DEF q
  <2>7. 1..Len(q) = 1..Len(t) \cup {Len(t) + 1}
    BY <2>3, <2>6
  <2>8. QueueShape' /\ Retried'
    <3>1. ~Posting' /\ drain' \in [pc : {"select", "pick", "post"},
            by : {"none", "event", "interval"}, left : Nat, at : Nat]
      BY <2>1 DEF Posting, Idle, QueueShape
    <3>2. \A i \in 1..Len(q) : q[i].window > 0 => q[i].attempts > 0
      BY <2>4, <2>5, <2>6, <2>7
    <3> QED
      BY <2>1, <2>6, <3>1, <3>2 DEF QueueShape, Retried
  <2>9. Ids(q) \subseteq Q \cup {x}
    <3> SUFFICES ASSUME NEW i \in 1..Len(q) PROVE q[i].id \in Q \cup {x}
      BY DEF Ids
    <3>1. CASE i \in 1..Len(t)
      <4>1. t[i].id \in Ids(t) /\ q[i] = t[i]
        BY <2>6, <3>1 DEF Ids
      <4> QED
        BY <2>4, <4>1
    <3>2. CASE i = Len(t) + 1
      BY <2>5, <2>6, <3>2
    <3> QED
      BY <2>7, <3>1, <3>2
  <2>10. x \in E /\ Precede(Q, {x}) /\ Precede({x}, E') /\ Precede({x}, H) /\ Precede({x}, L)
    <3> HIDE DEF Q, E, H, L, x
    <3> QED BY <1>2, <1>3, <1>6 DEF Precede
  <2>11. ASSUME NEW i \in 1..Len(q), NEW j \in 1..Len(q), i < j PROVE q[i].id < q[j].id
    <3>1. i \in 1..Len(t)
      BY <2>3, <2>6, <2>11
    <3>2. CASE j \in 1..Len(t)
      BY <2>4, <2>6, <2>11, <3>1, <3>2
    <3>3. CASE j = Len(t) + 1
      <4>1. t[i].id \in Q
        BY <2>4, <3>1 DEF Ids
      <4> QED
        BY <2>5, <2>6, <2>10, <3>1, <3>3, <4>1 DEF Precede
    <3> QED
      BY <2>7, <3>2, <3>3
  <2>12. /\ Precede(Ids(q), E') /\ Precede(Ids(q), H) /\ Precede(Ids(q), L)
         /\ Precede(E', H) /\ Precede(E', L)
         /\ Ids(q) \cup E' \cup H \cup L \subseteq 1..packets
    <3> HIDE DEF Q, E, H, L, x
    <3> QED BY <1>2, <1>3, <2>9, <2>10 DEF Precede
  <2>13. InLine'
    BY <1>1, <1>2, <1>3, <1>4, <2>1, <2>11, <2>12 DEF InLine, Hand, Passing
  <2> QED
    BY <2>8, <2>13
<1> QED
  BY <1>5, <1>6

Line == TypePipeOK /\ QueueShape /\ Retried /\ InLine

LEMMA LineNext ==
  ASSUME Line, [Next]_vars
  PROVE  QueueShape' /\ Retried' /\ InLine'
<1>1. CASE OnAdapterEvent
  BY <1>1, EnqueueKeeps DEF Line
<1>2. CASE PipeStep
  <2>1. queue' = queue /\ drain' = drain
    BY <1>2 DEF PipeStep, ReadPacket, PumpTakes, Publish, PumpEnds, TryPublish, queueVars
  <2>2. QueueShape' /\ Retried'
    BY <2>1 DEF Line, QueueShape, Retried, Posting
  <2> QED
    BY <1>2, <2>2, PipeKeepsLine DEF Line
<1>3. CASE \/ UNCHANGED <<queueVars, pipeVars>>
           \/ UNCHANGED pipeVars
              /\ \/ Woken \/ Ticked \/ DrainStep \/ CloudStep \/ LoopReturns
                 \/ PortalDeauthorizes \/ Paired
  <2>1. UNCHANGED pipeVars
    BY <1>3
  <2> QED
    BY <1>3, <2>1, QueueSteps DEF Line
<1>4. CASE LoopReturns \/ CloseCancels \/ CloseWaits \/ ReleaseReservations
  BY <1>3, <1>4 DEF LoopReturns, CloseCancels, CloseWaits, ReleaseReservations
<1>5. CASE WakeStep \/ TickStep \/ LoopStep \/ AnswerStep
  BY <1>3, <1>5 DEF WakeStep, TickStep, LoopStep, AnswerStep, RestUnchanged
<1>6. CASE Outside \/ AdapterStep
  BY <1>3, <1>6 DEF Outside, AdapterStep, elsewhere, RestUnchanged
<1>7. CASE UNCHANGED vars
  BY <1>3, <1>7 DEF vars
<1> QED
  BY <1>1, <1>2, <1>4, <1>5, <1>6, <1>7 DEF Next, RunStep

LEMMA LineInit ==
  ASSUME Init
  PROVE  QueueShape /\ Retried /\ InLine
BY DEF Init, QueueInit, QueueShape, Retried, InLine, Posting, Resting, Rising, Precede,
       Passing, Hand, Ids

(* An answer takes out the packet that was posted, and every older one is  *)
(* in its retry window.                                                    *)
LEMMA AnswerInOrder ==
  ASSUME QueueShape, Retried, InLine, Answered
  PROVE  \A id \in Ids(queue) \ Ids(queue') :
           \A j \in 1..Len(queue') : queue'[j].id < id => queue'[j].attempts > 0
<1> DEFINE n == drain.at
           q == Without(queue, n)
<1>1. /\ Posting /\ n \in 1..Len(queue) /\ queue \in Seq(Packet) /\ Len(queue) \in Nat
      /\ queue' = q
  BY DEF Answered, QueueShape
<1>2. /\ q \in Seq(Packet) /\ Len(q) = Len(queue) - 1
      /\ \A k \in 1..(Len(queue) - 1) : q[k] = IF k < n THEN queue[k] ELSE queue[k + 1]
  BY <1>1, WithoutAt
<1>3. \A i \in 1..(n - 1) : queue[i].window > 0
  BY <1>1 DEF Retried
<1> HIDE DEF q, n
<1>4. ASSUME NEW i \in 1..Len(queue), i # n PROVE queue[i].id \in Ids(q)
  <2>1. CASE i < n
    <3>1. i \in 1..Len(q) /\ q[i] = queue[i]
      BY <1>1, <1>2, <2>1
    <3> QED BY <3>1 DEF Ids
  <2>2. CASE i > n
    <3>1. i - 1 \in 1..Len(q) /\ q[i - 1] = queue[i]
      <4>1. i - 1 \in 1..(Len(queue) - 1) /\ ~(i - 1 < n) /\ (i - 1) + 1 = i
        BY <1>1, <2>2
      <4> QED BY <1>2, <4>1
    <3> QED BY <3>1 DEF Ids
  <2> QED BY <1>1, <1>4, <2>1, <2>2
<1>5. SUFFICES ASSUME NEW id \in Ids(queue) \ Ids(q), NEW j \in 1..Len(q), q[j].id < id
               PROVE  q[j].attempts > 0
  BY <1>1
<1>6. id = queue[n].id
  BY <1>4 DEF Ids
<1>7. j \in 1..(n - 1)
  <2>1. SUFFICES ASSUME ~(j < n) PROVE FALSE
    BY <1>1, <1>2
  <2>2. j + 1 \in 1..Len(queue) /\ n < j + 1 /\ q[j] = queue[j + 1]
    BY <1>1, <1>2, <2>1
  <2>3. queue[n].id < queue[j + 1].id
    BY <1>1, <2>2 DEF InLine
  <2>4. queue[n] \in Packet /\ queue[j + 1] \in Packet
    BY <1>1, <2>2
  <2> QED
    BY <1>5, <1>6, <2>2, <2>3, <2>4 DEF Packet
<1>8. q[j] = queue[j] /\ j \in 1..Len(queue)
  BY <1>1, <1>2, <1>7
<1> QED
  BY <1>3, <1>7, <1>8 DEF Retried

(* A packet of the ingest queue is overtaken only while it waits to be     *)
(* sent again (drainIngestQueue, nextDispatchableIngestIndex): older ones  *)
(* still queued when a packet is answered have failed before.              *)
THEOREM AlwaysInOrderUnlessRetried == Spec => InOrderUnlessRetried
<1> DEFINE Ordered ==
      Posting =>
        \A id \in Ids(queue) \ Ids(queue') :
          \A j \in 1..Len(queue') : queue'[j].id < id => queue'[j].attempts > 0
<1>1. Init => Line
  BY LineInit, InitType DEF Line
<1>2. TypeSerialOK /\ TypePipeOK /\ Line /\ [Next]_vars => Line'
  BY LineNext, Sorted DEF Line
<1>3. Line /\ [Next]_vars => [Ordered]_queueVars
  <2> SUFFICES ASSUME Line, [Next]_vars, Posting, queueVars' # queueVars PROVE Ordered
    OBVIOUS
  <2>1. CASE Answered
    BY <2>1, AnswerInOrder DEF Line
  <2>2. ASSUME queue' = <<>> \/ Len(queue') = 0 PROVE Ordered
    BY <2>2
  <2>3. ASSUME Ids(queue') = Ids(queue) PROVE Ordered
    BY <2>3
  <2>4. CASE Failed
    <3> DEFINE a == Aged(queue)
    <3>1. PICK r : queue' = [a EXCEPT ![drain.at] = r] /\ r.id = queue[drain.at].id
      BY <2>4 DEF Failed
    <3>2. /\ a \in Seq(Packet) /\ Len(a) = Len(queue) /\ Len(queue) \in Nat
          /\ \A i \in 1..Len(queue) : a[i].id = queue[i].id
      BY AgedQueue DEF Line
    <3> HIDE DEF a
    <3>3. Len(queue') = Len(queue) /\ \A i \in 1..Len(queue) : queue'[i].id = queue[i].id
      BY <3>1, <3>2
    <3> QED
      BY <2>3, <3>3 DEF Ids
  <2>5. ASSUME queue' = queue PROVE Ordered
    BY <2>3, <2>5
  <2>6. CASE LifecycleEnds
    BY <2>2, <2>6 DEF LifecycleEnds
  <2>7. CASE LoopReturns \/ PortalDeauthorizes \/ Paired
    BY <2>5, <2>7 DEF LoopReturns, PortalDeauthorizes, Paired
  <2>8. CASE OnAdapterEvent
    BY <2>5, <2>8 DEF OnAdapterEvent, Idle, Posting
  <2>9. CASE PipeStep \/ CloseCancels \/ CloseWaits \/ ReleaseReservations
    BY <2>9 DEF PipeStep, ReadPacket, PumpTakes, Publish, PumpEnds, TryPublish, CloseCancels,
                CloseWaits, ReleaseReservations
  <2>10. CASE WakeStep \/ TickStep \/ LoopStep
    BY <2>10 DEF WakeStep, TickStep, LoopStep, DrainStep, Woken, Ticked, Pick, DrainEnds,
                 Idle, Posting
  <2>11. CASE AnswerStep
    BY <2>1, <2>4, <2>6, <2>11 DEF AnswerStep, CloudStep
  <2>12. CASE Outside \/ AdapterStep
    BY <2>7, <2>12 DEF Outside, AdapterStep, elsewhere
  <2>13. CASE UNCHANGED vars
    BY <2>13 DEF vars
  <2> QED
    BY <2>7, <2>8, <2>9, <2>10, <2>11, <2>12, <2>13 DEF Next, RunStep
<1> QED
  BY <1>1, <1>2, <1>3, IntakeTypeCorrect, PTL DEF Spec, InOrderUnlessRetried
=============================================================================
