# Formal models of loramapr-receiver

TLA+ modules, TLC configurations and machine-checked proofs for the receiver
in this repository: the daemon that takes observations from Meshtastic and
MeshCore radios and delivers them to a cloud. Paths below are relative to the
repository root.

Contents: 1 the system, 2 modules and correspondence with the code, 3 runs,
4 bounds, 5 fairness, 6 proofs, 7 findings, 8 what is not modelled, 9 plan.

## 1. The system

One process (`cmd/loramapr-receiverd`) built by `internal/runtime/service.go`.
Its goroutines are the **Run loop** (all tickers, adapter events, cloud calls),
one or two goroutines per **protocol adapter**, the **MeshCore tracking**
controller's runs, the **home auto session** module, the **outbox engine** (only
writer of the outbox database), and the **web portal** (one goroutine per
request).

| Component | State | Operations | Talks to |
|---|---|---|---|
| Outbox store `outbox/store.go` | bbolt buckets: deliveries, due_index, quarantine, stats, meta (pause, rotation journal, reconciled binding) | 17 transactions: Enqueue, NextDue, MarkInflight, Retry, ... | called by the engine; reads also directly |
| Outbox engine `outbox/engine.go` | stage, results and operations channels, accepting, stageBytes | TryStage, write (all mutations), Close, run | stagers, Run loop, portal |
| Dispatch `receiverevents/dispatch.go` | none of its own; a snapshot of key and binding per batch | DispatchOnce, Classify | engine, cloud client |
| Installation rotation `runtime/installation_rotation.go` | journal (outbox meta) and state file | RotateInstallation, Recover | engine, state store; called by pairing and by `New` |
| Pairing `pairing/manager.go` | pairing section of the state file | SubmitPairingCode, ResetPairing, ApplyLifecycleChange, Process | state store, rotation, cloud; called by portal and Run loop |
| State store `state/state.go` | `state.Data`, one JSON file written by rename; credential and binding generations | Snapshot, Update, Open with recovery | everybody |
| Service loop `runtime/service.go` | Meshtastic ingest queue (memory), intents applied, heartbeat bookkeeping | tick, dispatch ticks, event handlers, BLE and tracking operations, shutdown | everybody |
| Home auto session `homeautosession/module.go` | session state, pending action, retry and cooldown times; part persisted | position and event observation, start and stop calls | cloud, state store |
| MeshCore adapter, BLE loop `meshcore/adapter.go`, `ble.go` | peer, loop, suppression, status, wake channel | Release, Resume, Reconnect, Reconfigure, Close | BlueZ, portal, Run loop |
| MeshCore companion session `meshcore/session.go`, `telemetry.go` | handshake phase, one request, one reset, tables of tags, message drain | RequestTelemetry, ResetPath, frames, timeouts | radio, tracking, portal |
| MeshCore tracking `meshcore/tracking.go` | status, stale route recovery, generation | Start, Stop, SetControlSource, HandlePathUpdated, run | companion session, outbox stage |
| Meshtastic adapter `meshtastic/` | stream framing, local event channel, reconnect loop | detect, open, read, close | radio, pump |
| Adapter manager and leases `protocoladapter/` | adapter life cycles, event channel, lease table | Start, Close, Publish, Acquire, Release | adapters, Run loop |
| Cloud client, clock attestation, status, diagnostics, config, update, portal, release, install, logging | small or derived | classification, formatting, I/O | Run loop |

**Hard behaviours.** The dispatcher holds a stale snapshot for a batch while
other goroutines change pause, buckets and credentials between any two of its
transactions; a POST is unanswered for seconds while its record may be moved;
two durable files (outbox, state) change in turn during an installation
rotation, with crashes in between; index, counters and marker of the store are
maintained by hand; two bounded channels connect the engine and the Run loop
in opposite directions; pairing calls overlap portal requests; retries race
answers; radios answer late, twice, or without saying what they answer; runs of
the tracking controller outlive Stop; the BLE loop and the operations that
release, resume or reconfigure it see each other's work half done; devices move
between paths while a lease is held; channels are closed under their senders.
`PROJECT.json` lists each hazard at its line with the property that covers it.

**Correctness, by component.** Store: index, counters, marker agree with the
buckets; evidence is never evicted; bounds hold; the journal only advances.
Dispatch: nothing is sent under a pause or with another principal's key,
unacknowledged bytes stay on disk, deliveries and superseded pauses make
progress. Rotation: the two files agree at every crash point. Engine: byte
accounting, calls that return, drain before close. Pairing: a crash alone never
has the next start refused, new credentials supersede a pause, clock samples stay
with their binding, every pairing ends. Home session: a running module loses sight
of no session it has opened, an action that was begun takes place, memory and disk
fit together. Tracking: a stopped run changes nothing, a path reset is
earned, tracking shown as active goes on. Companion session: results, timeouts
and route evidence go to the request they belong to, and nothing is left behind.
Control of the adapter: file, service and adapter agree on the peer; a release
disconnects the radio, stops its polling and holds until it is resumed; a
link that is allowed comes back. Intake: a leased device has no second reader, no
send on a closed channel, no frame lost after noise, packets that go on, devices
that are read again. Some of these the code keeps only up to an exception; the
property then names it, and section 7 shows it.

## 2. Modules and correspondence with the code

**`DeliveryLedger`** - abstract specification of the outbox: a set of *held*
and a set of *set aside* deliveries. `Accept` needs room after at most letting
go of set-aside evidence; `Settle` forgets one; `KeepAside` moves some; `Expire`
drops set-aside ones; `StartEmpty` is the replacement of a corrupt database.

**`OutboxStore`** - `internal/outbox/store.go`. A bbolt bucket is a function
from delivery ids to a record or `NoRecord`; `due` is the key set of
`due_index`; `count`, `used` are the stats keys; `pause`, `journal`, `memo` the
meta keys. One action per exported method, because each runs in one
transaction (Enqueue with its prune-and-retry is three in a row of a single
writer). The last parameter is the returned error; an error rolls back. Byte
sizes are kept by `Weight`: a record takes `RecordBytes`, one byte more while
its state reads "inflight", `FailureBytes` once its last-failure fields are
set and `QuarantineBytes` once quarantined. All times are read from `clock`,
which may also step back. `Open` is initialize, resetInflight and the prune;
`RecoverCorrupt` the replacement of a corrupt file.

**`Dispatch`** - extends `OutboxStore` with the goroutines around it. `stage` is
the engine's channel; `receiver` what `state.Data` says of identity and
credentials (with the two generations of `normalizeGenerations`); `disp` the
locals of `processNormalizedDispatch`/`DispatchOnce`, one program counter per
transaction or HTTP call; `rotation` the locals of a rotation, one step per
durable write; `up` the process. A staged delivery remembers the binding of its
state snapshot; the wait in `stage` stands as well for the time between that
snapshot and TryStage. `Crash` loses memory and keeps both files; `Start` is the
part of `New` that opens the outbox and recovers the rotation. One rotation
runs at a time here. `HeartbeatAnswered` writes the identity into the state as it is
when the answer arrives, after a loss of credentials or between two steps of a
rotation too: `stray` says that identity then stays without a key, and
`RotateRefused` is the start that `validateRotatedState` refuses for it. The calls
inside pairing are collapsed to their effect on credentials (`Activate`, `Promote`).

**`Pairing`** - `pairing/manager.go`, `runtime/installation_rotation.go`, the
generations and the recovery of `state/state.go`, and the parts of
`runtime/service.go` that write identity and credentials. `data` is
`state.Data` (memory and file agree, because `Update` replaces the file before
the memory), `journal` and `pause` the two outbox records that interact with
it. `actor` holds, per goroutine that may rotate (portal requests, the Run loop
on a replaced receiver, startup), the locals of `RotateInstallation`/`recover`
and of the request around it: the journal `j` that the last store call
returned may be older than `journal`. One step per read or durable write:
`ReadJournal`, `MintInstallation`, `BeginInstallationRotation`, `QuarantineOld`,
`CheckBoundary`, `WriteRotated`, `RecordRotated`, `CompleteRotation`, and `Finish`,
the update that ends the request. `call` is the Run loop's snapshot while it
waits for the cloud: exchange, activation, promotion, expiry, heartbeat (with
the clock attestation that follows it), lifecycle error, dispatch batch. `up`
is the process; `Start` is `New` with `Recover`, "refused" its error return.
Owner id, receiver id and key are one value, because the cloud issues them
together; `NextRetryAt` is whether it is ahead. Requests, rotations and the calls of
the Run loop overlap in every way, as nothing in the code serialises them; `Events`
selects only which of them a configuration explores. `marred` is a history: a
rotation was "crossed" - another began within it, or an answer of the cloud was
written between its state file and its journal record (`HalfRotated`) - or the state
file was "lost" beside a journal or a pause. A lifecycle error of a heartbeat
stands for the same error of a batch.

**`OutboxEngine`** - `internal/outbox/engine.go` and `shutdownNormalizedOutbox`
with the real channels: `TryStage`, the engine goroutine with a step per
channel operation or critical section, callers in `write`, the Run loop as the
only reader of results, and the shutdown. The store is abstracted to the order
of `Enqueue` calls.

**`HomeAutoSession`** - `internal/homeautosession/module.go`, the two places of
`runtime/service.go` that give it a configuration, and the cloud as far as its
answers matter. `mem` holds the fields of `Module` that its decisions read, `disk`
what `persistLocked` left in `state.HomeAutoSessionState` (everything but the
candidates), `fact` the remembered side of the geofence per node, `call` the
HTTP call. The module's mutex is held during that call, so an observation or
a tick is one step up to the call and `Receive` or `Lose` the rest of it; `Drop` and
`Overflow` are the observer that finds the queue full and waits for the mutex to
degrade the module. `Evaluate` is `evaluateLocked`, branch by branch, with
`DecideStop`, `DecideStart`, `AttemptStop`, `AttemptStart` below it; `HandleCloudError` is
`handleCloudErrorLocked`, with one class per branch; `FallsBack` the second stop
request without a session id. Times are flags: a candidate is `ripe` once its
debounce passed, `cooling` and `settling` say that `cooldownUntil` and
`decisionCooldownUntil` are ahead, `hasty` that the cooldown is that of a stop that
timed out, which an event may cut short. `again` are the start keys of the attested
reports that the outbox may deliver once more after a crash; such a report yields
the dedupe key it had. Keys and session ids that are in use nowhere are used again.
`Boot` is `bootstrapFromStateLocked` with `reconcileStartupLocked`, on what `service.New`
leaves for it to read: `Found` is an empty session, because the constructor has
persisted the new module's state with the report of its configuration
(`service.go:371-378`; section 7). The model of the cloud opens one session per key,
may refuse another start while a session is open, and may close or open sessions by
itself.

**`MeshCoreTracking`** - `meshcore/tracking.go`. `status` holds the fields of
`TrackingStatus` and of the motion filter that decide something, `route` those of
the stale route recovery, `runs` the goroutines that `Start` has spawned, by
generation: `Stop` waits for none of them. A run's step is where it stands in
`run`, one action per section of the mutex and one per call it waits for: `Ask`,
`Answer` (the telemetry request), `Recover` (`recoverStaleRouteTimeout` up to the
reset), `ResetReturns`, `RecordFailure`, `Stage` and `RecordSuccess`
(`recordSuccess` before and after the mutex), `Plan` (`nextTrackingRequestAt`),
`Select` and `Timer`. `wake` is the buffered `scheduleChanged`, `Signal` the send
to it. A position is what `applyFix` finds by comparing it. A failure is "disconnected"
by its type, but two places compare its text (`tracking.go:278`, `671`): a request that
could not be written wraps the error, and its text is another ("unwritten", the other
member of `Unavailable`). `past` is a history
of what the radio has shown, kept for `ResetEarned` by a rule of its own and
not by the controller's counters.

**`MeshCoreCompanion`** - `meshcore/session.go`, `telemetry.go`, `route.go` and
the frame loop of `adapter.go`. `request` and `reset` are `Adapter.telemetry` and
`Adapter.pathReset`; a caller is where `RequestTelemetry` or `ResetPath` stands
and the channel it waits on. `owed` are the answers that the companion (external:
it answers commands in order and does not name them) still owes, `air` the
telemetry of nodes that may still come, by tag or by prefix. `HandleOK`,
`HandleError`, `HandleSent`, `HandleContact` and `Telemetry` are the frame
handlers; `TimedOut`, `Cancel`, `WriteFails` (an error on a link that stays up, with
or without the command having reached the companion), `Lose` and `Detach` the other
ends of a request; `AnswerSync` and `MessageWaiting` the drain of queued messages;
`Published` the event that finds the service's buffer full. The companion answers a
command when it likes, after the timer, the snapshot's timeout or the caller are
gone. `early` is a history: the requests and resets that began while it still owed an
answer to an earlier one. A tag that a request gave up is kept for 45 seconds
(`Forget` drops it at any time after that, answers in the air or not); of the
companion it is assumed that it does not use a tag for another request while telemetry
under that tag may still come, unless the adapter still remembers the tag
(`HandleSent` then ends the new request). The two timers of a request, its own and the
one the companion's estimate starts, are one; a RESP_SENT that belongs to an earlier
request and starts that timer too early is a timer that may fire at any moment.

**`MeshCoreLink`** - `runBLE` and the operations of `meshcore/adapter.go` on it,
one action per section of the adapter's mutex and per BlueZ call: `Permit`
(waiting for permission), `Woken`, `BeginAttempt`, `Open`, `Admit`, `BeginSession`,
`Frame`, `SessionEnds`, `Judge`, `Degrade`, `Retry` for the loop;
`ReleaseSection`, `ConfigureSection`, `ReconnectSection`, `Resume`, `CancelHeld`,
`Disconnected`, `Close` for the others. Operations fall between any two of the loop's
sections, also between its look at the state and the registration of its attempt
(`Found` and `Overlooked`; the history `missed` remembers which one found nothing to
cancel). `connected` is what BlueZ holds connected. An attempt that ends, in
`OpenFails`, `Admit` or `SessionEnds`, gives its device up (`GivenUp`): the bounded
disconnect may succeed, or time out or fail with its error discarded, and the device
stays connected, which the history `stranded` remembers.
**`MeshCoreControl`** extends it with those who call: portal
operations and cloud intents (`CloudOperation`) under `meshcoreBLEMu`, in the pieces
of `service.go` with a failure possible at each (`OpRelease` to `OpCommit`); the
session intent (`IntentArrives`, `IntentServed`) and the portal's tracking requests
(`TrackingRequested`, `TrackingServed`), which look, and then start, without that
mutex; the portal's saving of another section of the configuration
(`ConfigCopied`, `ConfigSaved`, `ConfigAssigned`: `UpdateHomeAutoSessionConfig` copies
the service's configuration, saves it and assigns it back, peer included, without
that mutex either; the history `crossed` says that this fell into a change of the
peer); the configuration file, the service's copy of it, and the tracking
controller seen from outside. A copy of the configuration is taken and assigned in
one step each, and one saving is under way at a time. Any cloud intent may come at
any time: that one already applied is skipped is left out.

**`SerialDevices`** - the lease table of `protocoladapter/lease.go` with paths
normalised when taken (`Named`; what a loop's path named then is its `target`),
`service.New`'s reservations (`Reserve`), and the two loops
that detect, lease, open, read and release a device (`Companion...`, `Detect` to
`MeshtasticEnds`) while radios are plugged in and out under ttys that are used
again. **`IngestQueue`** - the Meshtastic queue of `runtime/service.go`:
`Enqueue` with `Trimmed`, `Drain` (ticker or wake), `Pick`, `Posting` answers,
retry windows by attempt (`Windows`), loss and return of credentials.
**`Intake`** composes the two with the channels between radio and Run loop: the
Meshtastic service's own channel, its pump (`PumpTakes`, `Publish`), the manager's
event channel (`TryPublish` for MeshCore's non-blocking send), the Run loop's
select, and the deferred shutdown (`CloseCancels`, `CloseWaits`,
`ReleaseReservations`). **`FrameScanner`** - the framing of
`meshtastic/native_serial.go`: one read (`Step`) and the recursive function `Scan`
over a stream of bytes (noise, a frame, the rest: `Noises`, `Messages`, `Tails`),
compared with the frames that were written (`FramesFound`).

Theorems (section 6): **`OutboxProofs`** about `OutboxStore` and `Dispatch`,
**`EngineProofs`** about `OutboxEngine`, **`PairingProofs`** about `Pairing`,
**`TrackingProofs`** about `MeshCoreTracking`, **`CompanionProofs`** about
`MeshCoreCompanion`, **`ControlProofs`** about `MeshCoreLink` and
`MeshCoreControl`, **`HomeAutoProofs`** about `HomeAutoSession`,
**`IntakeProofs`** about `Intake`.

Definitions named `X_Suffix`, for a definition `X`, are mutations of `X`: plausible mistakes in the code
behind `X`. Replacing `X` by one of them makes the property listed for it in
`PROJECT.json` fail, which shows the property is sensitive to that code.

## 3. Runs

| Run | Question | Properties | Result |
|---|---|---|---|
| `outbox_store` | Do index, counters and marker stay consistent under every call sequence, within both bounds? Does the store implement the ledger that never evicts? | `DueIndexExact` `MemoSound` `CountersExact` `WithinBounds` `ImplementsLedger` | hold |
| `dispatch` | Staging, dispatch, portal requests, rotation, a revoked receiver, heartbeat answers that come late, crashes: is anything sent under a pause, lost while unacknowledged, left inflight; do the two files agree? | `NoSendWhilePaused` `UnackedEvidenceKept` `InflightOnlyWhileSending` `RotationAgrees` | hold |
| `dispatch_fair` | Do durable deliveries leave, are superseded pauses lifted? | `Delivered` `PauseEventuallyLifted` | hold |
| `dispatch_misbinding` | Is a delivery sent only with the credentials of its own binding? | `SentWithOwnCredentials` | violated (section 7) |
| `outbox_engine` | Byte accounting; do calls into the engine return, does the shutdown end? | `StageBytesExact` `WriteReturns` `ShutdownCompletes` | hold, but for the named wedge |
| `pairing` | Requests, rotations and calls that overlap, crashes anywhere, the reset-pairing command and a lost state file: what has a start refused, does a pause outlive new credentials, do clock samples outlive their binding? | `RefusedOnlyIfMarred` `PauseSupersedable` `SamplesOfBinding` | hold |
| `home_auto` | Calls lost, refused, in conflict or cut off by a crash, sessions opened and closed elsewhere, configuration changes, resets: does what is pending fit the session in memory and on disk, does a running module lose sight of a session? | `PendingFitsSession` `NoneForgotten` | hold |
| `home_auto_fair` | Does a start or stop that was begun take place? | `PendingResolves` | holds |
| `tracking` | Start, Stop and takeovers against runs whose calls return late: does a stopped run change anything, is a path reset earned, does tracking go on? | `StaleRunsHarmless` `ResetEarned` `TrackingGoesOn` | hold |
| `companion` | Concurrent requests and resets over a radio that answers late, twice, untagged or not at all, failed writes: whose result, whose timeout, whose route; what is left behind? | `NothingLeftBehind` `ResultOfTarget` `EvidenceConfirmed` `NoForeignTimeout` | hold |
| `meshcore_control` | Portal and cloud operations in pieces, savings of the configuration, tracking requests and intents against the BLE loop, with disconnects that fail: do file and adapter agree, what stays connected, what polls a released radio, is an allowed link re-established? | `ConfigurationAgrees` `RadioHandedBack` `PollsStopped` `OnlySelectedPeer` `ReleaseHolds` `Reconnects` | hold |
| `intake` | Devices that come, go and move under two adapters, the channels to the Run loop, the queue with its retry windows, the shutdown: how a device gets two readers, a send on a closed channel, a frame lost after noise, a packet or a device stuck? | `LeaseExcludes` `NoSendAfterClose` `ScannerInStep` `PacketsGoOn` `RadioReadAgain` | hold |

Some properties name an exception, by a history variable that only says that a
certain interleaving took place: `RefusedOnlyIfMarred` (`marred`), `ConfigurationAgrees`
(`crossed`), `RadioHandedBack` (`stranded`), `OnlySelectedPeer` (`missed`), `PollsStopped`
(polls started `late`), `ResultOfTarget` and `EvidenceConfirmed` (`early`), `LeaseExcludes`
(a link that names another device than it did). The runs contain these
interleavings, so each of these properties says that there is no other way to the
harm; that there is this one is shown by the configurations of section 7.

Every property is stated in words above its definition, and has a mutation of
the code that violates it. The invariants that the next ones rest on, and some
properties that say less, are defined but in no run; on the instances of the
runs they hold: the type invariants (`TypeOK`, `TypeDispatchOK`,
`TypeTrackingOK`, `TypeCompanionOK`, `TypeLinkOK`, `TypeControlOK`,
`TypeSerialOK`, `TypePipeOK`),
`BucketsExclusive`, `JournalForward`, `CollisionLiftedWithEvidence`,
`PauseLiftedByNewerBinding`, `AcceptedInOrder`, `StoreClosedAfterDrain`,
`CallOnDisk`, `SessionCadence`, `DrainGoesOn`, `LoopStops`, `InOrderUnlessRetried`,
`StopCompletes`. Those among them that are no liveness property are theorems
(section 6), but for `TypeLinkOK`, a part of `TypeControlOK`. `PairingSettles`, that every pairing comes to
its end, holds too; its state space and that of the run `pairing` do not fit one
run, so it has a configuration of its own, `MCPairingFair`.

The other configurations that belong to no run reproduce the behaviours of section 7,
and end with a violation.

Deadlock is not looked for where the system may really stop: a receiver that was
shut down and whose goroutines returned, or whose bounded calls of Start, plugs
or requests are used up (`outbox_engine`, `tracking`, `companion`,
`meshcore_control`, `intake`).

## 4. Bounds

*Outbox and dispatch.* Two deliveries suffice for every relation between records
(order, one moved and one kept, exclusive buckets); `outbox_store` has a third id, which
the event bound refuses while there are bytes left. Two principals suffice for a binding
and its replacement, two installations for a rotation (a rotation back to an old
id cannot happen: ids are random). `MaxBytes` = 31 in `outbox_store` admits two
records of 10 but not every combination of the growths 1, 4 and 6, so both bounds
refuse; `MaxSequence` 2 means that two deliveries are accepted until the database is
replaced. In the other runs bytes are ample except in
`MCDispatchStuckInflight`. `MaxSequence`, `MaxGeneration`, `MaxTime` cap counters;
`Retention` 2 exceeds `MaxTime` 1 in `Dispatch` because thirty days exceed any
request, and equals 1 in `outbox_store` where expiry is exercised.
`MaxGeneration` is 2 in `dispatch`: credentials, their loss, and the next ones.
`StageMaxEvents` is 2, so that the channels are often full.

*`Pairing`* runs with three installation ids: a stored one, the new one of a
journal and a fresh one (a run out of fresh ids only stops rotating, and the
configurations where a second rotation matters have four); two keys, the one a
pause was set with and the next; one code in the run, two in the configurations where
a pairing is replaced by another; one request beside the Run loop's own rotation and
the startup's, two in `MCPairingRotators`. `MaxGeneration` 2 allows two activations,
hence credentials, a pause, their loss and a re-pairing.

*`HomeAutoSession`* runs with one node: candidates, pending action and session are
single fields, so a second node only adds which node they name. The node is
attested in `home_auto`, so that
reports are replayed, and not in the fair run, where an event may bypass a
cooldown. Three keys per action suffice for the last one, the pending one and
the candidate's; where all are in use, an observation waits (`CanName`). Two sessions
are the receiver's and another. The events are divided between `home_auto` and
`home_auto_fair`; together they explore all but "blank" (section 8).

*`MeshCoreTracking`*: three generations, so that a run left over by Stop meets a
later run and that one is stopped too; one target, the worst case, because the
guard compares targets; two routes, a threshold of two (the code's is three, but
the counters only matter up to twice the threshold), four intervals with three
values, a backoff cap that the first failure reaches in the run and the second in
`MCMeshCoreTakeover`.

*`MeshCoreCompanion`*: two targets and two tags (tags are used again, so that a
late answer can carry a tag that is in use), two callers of which one can be
cancelled and one resets paths, two requests or resets and one connection in all, with
a drain of one message in the run and no contact list in `MCMeshCoreLate`.

*`MeshCoreControl`*: one peer, selected or not at the start and deselected or selected
again by operations, so that "the peer of before" and "the peer of now" differ as one
peer and none; with two peers (checked for the safety properties, 8.5 million states)
nothing else happens. One node. `Company` is {"tracking"} or {"saving"}: in one behaviour
tracking requests and intents go on beside the operations, in another the savings of
the configuration; the two touch no common state.

*`Intake`*: two radios and two ttys in six device configurations: MeshCore by tty, by
link or absent, Meshtastic detected or by link, each radio plugged anywhere or nowhere
at the start and re-plugged anywhere once or twice (fewer where both devices are
configured by link, where the states are many); the sixth has the packets, and devices
that stay. Three packets, a queue of two (`Depth`), two posts per drain (`Batch`),
buffers of one, one packet the cloud fails on every time (`Flaky`), one loss of
credentials. `MCIntakeLink` is one of the six alone. The frame scanner is compared on all
streams of up to four bytes of noise over the two start bytes and two lengths,
with payloads of up to two bytes.

Every action, and every disjunct of a next-state relation, fires in the passing runs.

## 5. Fairness

`Dispatch!Fairness`: the engine goroutine returns to its select (WF of
`WriteStaged`); tickers fire forever and Go's select picks among ready cases at
random (SF of `BeginBatch`); each HTTP call has a timeout (WF of some `Answer`);
the cloud does not fail every time (SF of the acknowledgement); requests and
startup proceed (WF); crashes are finitely many. Portal requests are not fair.

`Pairing!Fairness` (for `MCPairingFair` only): the Run loop's ticker fires for ever (SF of the steps that
begin a call, which other activities disable for a while); each call has an
HTTP timeout, and the cloud does not answer with a retryable error for ever (SF
of an answer that is final); requests and rotations run on (WF); the service
manager restarts the process (WF of `Start`); crashes are finitely many.

`HomeAutoSession!FairSpec`: the run loop's ticker fires for ever and debounces and
cooldowns pass, also between two restarts (SF: a call or a process that is down
disables them); a call ends, with an answer or its timeout, and the process is
started again (WF); a cloud that is asked again and again serves a request in the
end, and one such answer arrives (SF). Crashes and shutdowns may go on for ever.
Nothing says that a node falls silent, so the idle timeout is not fair. A restart
forgets what is pending (`Found`), which ends it as far as `PendingResolves` asks.

`OutboxEngine!FairSpec`: every goroutine that can take a step does; the select
of the engine is strongly fair to each waiting caller; neither the shutdown
nor its ten-second deadline is forced.

`MeshCoreTracking!FairSpec`: each run takes its next step (WF): its request and its
path reset have timers of their own (`telemetry.go`), staging waits for the
engine, its delay is a timer.

`MeshCoreControl!FairSpec`: the BLE loop does not rest by itself, and a session ends
when its context ended or its handshake takes too long (`LoopFairness`, WF); an
operation's next step is taken (WF of `OpStep`: its D-Bus calls have timeouts);
a peer that can be opened is opened in the end, and answers the handshake
(`RadioFairness`, SF, needed for `Reconnects` alone). Who calls operations is not fair.

`Intake!FairSpec`: the loops, the pump and the shutdown take their next step (WF);
Go's select is fair in the end to each case that is ready again and again (SF of
`OnAdapterEvent`, `TickStep`, `Publish`, of the end of the Run loop once it is
stopped); a stream ends once its device is gone; somebody pairs again a
receiver that lost its credentials (without which packets wait). Neither plugs
nor losses are fair, and the cloud may fail on the packets in `Flaky` for ever.

## 6. Proofs

All of `OutboxStore`'s properties are theorems of `OutboxProofs`, checked by
TLAPS for all values of the constants, under the assumptions named in `OutboxStore` (finitely many
ids, natural bounds and sizes, a `NoRecord` that is no record).

| Theorem | Says |
|---|---|
| `TypeCorrect` | `TypeOK` always holds |
| `DueIndexAlwaysExact`, `BucketsAlwaysExclusive`, `MemoAlwaysSound` | the index, the buckets and the marker agree |
| `CountersAlwaysExact`, `AlwaysWithinBounds` | counters are exact and bounded |
| `StoreImplementsLedger` | the refinement of `DeliveryLedger` |
| `JournalOnlyForward` | the rotation journal advances |

*The argument.* `TypeOK` is inductive by itself. `DueIndexExact` is not: that
`Rewrite` removes the right key needs the index to be exact for the record
rewritten, that a fresh key cannot clash needs the sequence numbers of stored
records to be at most `sequence`, and that `Open` may index every stored record
needs the states of bucket "deliveries". Hence `Consistent`, the conjunction
of `TypeOK`, `DueIndexExact`, `BucketsExclusive` and `MemoSound`, which is
inductive. Neither are the bounds: `Open` recomputes the counters without a
test, so that they still fit needs them to have been exact. Hence `Accounted`,
which adds `CountersExact` and `WithinBounds`. The counters rest on two lemmas,
that weight is additive over a set and its rest (`SplitWeight`) and looks at
nothing but the records of the set (`SameWeight`), from which three say what
dropping, adding and replacing records does to the size of a bucket. That
`Enqueue` is an `Accept` of the ledger needs the counters once more: the code
compares `total_count`, the ledger the set of stored ids.

The theorems of `PairingProofs` are about `Pairing`, for any number of
requests, keys and installations, the first three with overlapping requests
included, which TLC can only sample; the assumptions are those named in
`Pairing` (a `None` that is no value, requests that are neither the Run loop nor
startup).

| Theorem | Says |
|---|---|
| `PairingTypeCorrect` | `TypeOK` always holds |
| `SamplesAlwaysOfBinding` | clock samples are of the binding they are kept with |
| `PauseAlwaysSupersedable` | if the state file is never lost, credentials other than the rejected ones supersede the pause |
| `StartAlwaysGoesOn` | `StartNeverRefused`, if requests and calls take turns and the state file is not lost while the outbox refers to it |
| `InstallationBoundOnce` | `BoundOnce`, under the same assumptions |
| `CredentialsAlwaysOfInstallation` | `CredentialsOfInstallation`, under the same assumptions |
| `PhaseAlwaysResumable` | `PhaseResumable`, under the same assumptions |
| `IdentityAlwaysGoesWithKey` | `IdentityGoesWithKey`, under the same assumptions |
| `NeverLateActivation` | `NoLateActivation`, under the same assumptions |

*The argument.* `TypeOK` needs `LocalsKnown`: a rotator that is past its first
store call holds a journal, and a request that re-pairs holds its code. The
lemma `Effects` then sorts the steps by what they do to the state file: an
update that keeps the credentials, one that drops them, an activation, a
heartbeat's acknowledgement, an attestation, a retry time that passes, the
replacement of a lost file. `SamplesOfBinding` is inductive over these cases. `PauseSupersedable` is not: a batch that has
not been answered may still set a pause, and a heartbeat's answer may change the
binding. `PauseInv` adds that the stored identity is that of the key, that no key
other than the heartbeat's has been stored since it was sent (only the Run
loop stores keys, and it waits), and that both the pause and the snapshot of a
batch are `Behind` the state file: its binding generation is never lower, and it is
higher once the key is another. The comparison of binding generations alone is
enough; the theorem needs no credential generation. Its assumption cannot be
dropped: a lost state file starts again at generation zero (section 7).

For `StartAlwaysGoesOn` and `InstallationBoundOnce`, `Orderly` adds to the types: that at most one actor is busy, and no
request beside a call (`Alone`); what the state file holds at each phase of the
journal (`FilesAgree`), which is what a crash leaves to the next start; that a
rotator's copy of the journal is the stored one and what its next step relies on
(`InStep`); and that only an unbound installation is being paired (`Unbound`). Then
`CheckBoundary` never meets a state file of neither boundary, so a start never fails,
and `Request` has rotated a bound installation before an activation binds it again.
`StartNeverRefused` is not inductive without these: whether a start is refused is
decided by what was written before the crash. With "overlap", "parallel", or
"corrupt" and "referenced" together TLC finds it violated (section 7).

The last four are about what the state file says of itself. `Sound` joins the
three invariants among them: the key is the installation's, the identity the key's,
and the phase has the secret it needs. It is not inductive: an answer is written
into the state as it is when it arrives (`service.go:1735`, `manager.go:306`), not as
it was when the call was sent. `Current` says that with turns the two are the same
as far as it matters: a code is still entered, a token is still the one sent, a key
is still there. Together with `Orderly`, which says which installation a state file
names within a rotation, this is inductive, and `NoLateActivation` is `Current` at
the step that stores a key.

The theorems of `TrackingProofs` are about `MeshCoreTracking`, for any number of
generations, routes, targets and intervals and any threshold; the assumptions
are those of `TrackingAssumption` (the policy is normalised as
`TrackingPolicy.normalized` does it, routes have names of their own).

| Theorem | Says |
|---|---|
| `TrackingTypeCorrect` | `TypeTrackingOK` always holds |
| `StaleRunsAlwaysHarmless` | `StaleRunsHarmless`: steps of stopped runs change nothing |
| `ResetAlwaysEarned` | `ResetEarned`: a path reset is earned by timeouts along one route |
| `CadenceAlwaysOfMotion` | `SessionCadence`: under a session the interval is that of the motion |

*The argument.* That stopped runs are harmless needs `RunsFit`: a run of the
present generation that has not ended is current, none is of a later one, and
only the current one waits for its timer - otherwise the wake-up of a takeover
would restart a stopped run. `ResetEarned` relates the controller's counters to
what the radio has shown; `RecoveryFits` carries the relation through every step:
the count is at most the streak of timeouts seen, or that of the streak since
the last reset once it passed the threshold; the fingerprint counted is the
route seen last; and a route that was reset with an acknowledgement is still the
one remembered, with no notice of another path since. While a reset is in flight
the counters are those that called for it (`ResetFits`), because nobody but the
run that waits changes them. The lemma `Earned` then takes one timeout, and
`OneMultiple` says that the count, kept below twice the threshold, is a
multiple of it only where it equals it. `SessionCadence` is inductive over the types:
each of the two reports, and a takeover, sets the interval as it says.

The other theorems of `OutboxProofs` are about `Dispatch`, for any number of
deliveries, principals, installations and batches and every set of answers and
events; the assumptions are those of `OutboxStore` and `DispatchAssumption`.

| Theorem | Says |
|---|---|
| `DispatchTypeCorrect` | `TypeDispatchOK` always holds |
| `DispatchUsesStore` | `SpecDispatch` implies `OutboxStore`'s `Spec` |
| `DispatchKeepsStore` | the store's invariants and `ImplementsLedger` hold in the receiver |
| `NeverSendWhilePaused` | `NoSendWhilePaused` |
| `EvidenceAlwaysKept` | `UnackedEvidenceKept`, if no attempt is as long as the retention (`LongRetention`) |
| `RotationAlwaysAgrees` | `RotationAgrees` |
| `InflightAlwaysSending` | `InflightOnlyWhileSending`, if the byte bound leaves room for every outcome (`Ample`) |
| `CollisionStaysWithEvidence` | `CollisionLiftedWithEvidence` |
| `PauseStaysForItsBinding` | `PauseLiftedByNewerBinding` |

*The argument.* The lemma `CallsStore` says that every step is one call of the
store, with arguments of the right type, or leaves the store alone; this needs the
types of the dispatcher's locals, and that `PickDue` finds a record under the
key it took needs the index to be exact. Hence the invariant `Typed`: `Consistent`
of the store, `TypeDispatchOK`, and that nothing is dispatched while the process is
down or starting (`AtRest`). From there on the store's theorems carry over as they
are. `NoSendWhilePaused` holds because only the dispatcher sets a pause, and
stops with it (`PauseByDispatcher`); the others only lift one. For the evidence
of an attempt, `EvidenceHeld` follows the delivery from `Mark` on: `MoveAside`,
whoever calls it, leaves what it takes in the quarantine, `Enqueue` never takes an
id that is stored, and only an expired record could be pruned, by the pruning
or by an `Enqueue` that finds the outbox full. The assumption is that of the code's
defaults (30 days against the timeout of one call); without it the statement
fails. `RotationAgrees` looks at journal and state file alone; that it is kept
needs `RotationFits`, which adds what makes the two writers safe: a rotation
about to begin finds no other unfinished and the installation it read; past
the quarantine somebody is recovering or the process is down; and a state file
that already names the new installation holds no credentials. In `Dispatch`
rotations take turns, and the theorem is about these; what happens when they
overlap is in section 7. `InflightOnlyWhileSending` needs that opening the outbox
leaves nothing inflight, so that a starting receiver has none either
(`OnlyInAttempt`), and that every outcome can be recorded: with `Ample`, that is
`MaxEvents` times the size of a record grown to the full within `MaxBytes`, the
exact counters rule out that a rewrite or a move is refused (`RewriteFits`,
`AsideFits`). At the code's defaults (64 MiB, 10000 events) a record may take 6710
bytes, and a companion frame carries 176; without the assumption the statement
fails (`MCDispatchStuckInflight`).
The last two ask what lifts a pause. `PauseLifted` sorts the steps: a pause changes
only as `ClearResolvedPause` decides on the snapshot of a batch, or as its delivery
is moved aside; `PauseOn` cannot overwrite one, because no pause is in force where
it may run (`Unpaused`, the invariant behind `NeverSendWhilePaused`). That a snapshot
which supersedes the pause speaks for the receiver as it is now is `NotAhead`: the
generations of a snapshot are at most the state file's, which only rise.

The theorems of `EngineProofs` are about `OutboxEngine`, for any deliveries and
sizes, any number of stagers and callers, and channels of any capacity.

| Theorem | Says |
|---|---|
| `EngineTypeCorrect` | `TypeOK` always holds, the channels within their capacities |
| `StageBytesAlwaysExact` | `StageBytesExact` |
| `AlwaysAcceptedInOrder` | `AcceptedInOrder`: deliveries are written in the order of acceptance |
| `StoreClosedDrained` | `StoreClosedAfterDrain` |

*The argument.* `StageBytesExact` is not inductive: `ReleaseBytes` subtracts the size
of the item the engine holds, which changes the size of a set of items by that much
only if the item is not in the stage as well. That is what the queues say of each
other (`Queues`): what was accepted is what was written followed by the stage, what
was written is what was reported, what waits in the results channel and what the
engine holds, and nothing is accepted twice (`ReleasedNotStaged`). The size of a set
of items is the number of its bytes, the union of what each one occupies, so that
adding and removing one item (`BytesAdd`, `BytesRemove`) are facts about finite sets.
`Lifecycle` says what the shutdown has closed at each point: stage, results channel,
engine and store, in this order. `StoreClosedAfterDrain` is its last case: the
results channel is closed when the engine is gone, and emptied before the store is
closed. That the shutdown gets there is liveness and stays with TLC.

The theorems of `IntakeProofs` are about `Intake`, for any number of ttys, radios,
packets and re-pluggings and buffers of any size.

| Theorem | Says |
|---|---|
| `IntakeTypeCorrect` | `TypeSerialOK` and `TypePipeOK` always hold |
| `NeverSendAfterClose` | `NoSendAfterClose` |
| `OneReaderAlways` | `OneReaderPerDevice`, where by-id links keep their tty (`NamesStay`) |
| `ScannerAlwaysInStep` | `ScannerInStep`, for every set of noises, messages and tails |
| `AlwaysInOrderUnlessRetried` | `InOrderUnlessRetried` |

*The argument.* The lemma `Sorted` splits the steps into those of the devices,
those of a packet and those of the shutdown. `NoSendAfterClose` needs `Order`: before
the service runs, no loop has begun, and a manager that is past its waiting has
seen the pump end and the MeshCore loop return, or never had one. `OneReaderAlways`
needs that a reader's path is reserved under the name that an open of it reaches:
`CompanionHolds` and `MeshtasticHolds` say, for each loop at each point, whose name
the table of owners holds for its path, normalised as it is now. A radio that is
plugged in elsewhere changes what a by-id link normalises to, which is why
`NamesStay` is assumed; `MCIntakeLink` shows that the theorem fails without it. An
automatic detection takes tty names only, which the theorem covers.

`ScannerAlwaysInStep` is about a recursive function, whose value TLA+ gives only if
a function exists that follows the recursion. The library's theorem for this takes
an operator as a parameter, which the provers cannot instantiate; `RecursionExists`
is proved instead for a step *function* over states of which each has a smaller one
next (`Descends`), by `Induct`, an induction over a set of naturals: a set that
leaves one out leaves out a least one (`Least`, from the library's well-founded
order on pairs). `StepProgress` says that a read leaves less of the stream, so
`ScanDefined` gives `Scan` its equation. `FrameRead` is one frame read from its start
bytes on; `NoiseSkipped` is the same induction over the bytes of noise before it,
with the case the resynchronisation is for, a lone start byte right before a frame.

`AlwaysInOrderUnlessRetried` follows the packets through the pipe. `InLine` says
that they are in line: those in the queue are older than those in the manager's
channel, these than the one in the pump's hand, and this one than those in the
service's own channel; `Retried` says that only a packet that has failed is in a
retry window, and that the drain that posts a packet has passed over no others.
Trimming the queue at one end, removing from its middle and waiting out windows
keep both (`EnqueueKeeps`, `WithoutAt`, `AgedQueue`); a packet that is answered is
then preceded by failed ones only.

The theorems of `CompanionProofs` are about `MeshCoreCompanion`, for any number of
callers, nodes, tags, requests and connections; the assumptions are
`CompanionAssumption` and `NoneAssumption` (`None` is no value).

| Theorem | Says |
|---|---|
| `CompanionTypeCorrect` | `TypeCompanionOK` always holds |
| `NothingEverLeftBehind` | `NothingLeftBehind` |
| `TimeoutsOwn` | `NoForeignTimeout` |
| `ResultAlwaysOfTarget` | `ResultOfTarget`, if commands are answered in time (`Prompt`) |
| `EvidenceAlwaysConfirmed` | `EvidenceConfirmed`, if moreover one goroutine resets paths |

*The argument.* The first invariant, `Arbitrated`, is about the one request and the
one reset: the number in flight is the newest, its caller stands where it should
(`CallersShape`), the contact is awaited only by a caller whose snapshot waits for it,
and no caller waits for a request that has ended without a word (`InFlight`). It needs
nothing of the companion, so these theorems hold for answers in any order. The
second, `Correlated`, is about the queue of answers owed. Answers are matched by
their order alone, so an answer to a request that was given up may be noted on the
request that came after it: its tag, even its route, is then wrong. `Settling` says why
this does no harm: as long as such a foreign answer is owed, the request's own
command has not been sent or is in the queue behind it (`Unsettled`), and its own
answer overwrites what was noted; after that the tag names its own node. That needs
`Prompt`: an answer to the contact lookup does not come after the snapshot has given
up. `MCMeshCoreLate` shows that the theorem fails without it. `Evident` adds that a
request that has ended with a result or a timeout has no answer outstanding
(`Settled`), and at most one reset is owed, the one in flight (`OneReset`); there the
code's one tracking goroutine is an assumption, since a second resetter could
take the acknowledgement of the first.

The theorems of `ControlProofs` are about `MeshCoreControl` with `MeshCoreLink`, for
any peers, nodes and versions of the cloud's intent.

| Theorem | Says |
|---|---|
| `ControlTypeCorrect` | `TypeControlOK` always holds |
| `RadioAlwaysHandedBack` | `RadioHandedBack` |
| `ConfigurationAlwaysAgrees` | `ConfigurationAgrees` |
| `ReleasedNeverPolled` | `NoPollsWhileReleased`, if tracking requests and operations take turns (`~Overlap`) |
| `SessionAlwaysSelected` | `OnlySelectedPeer`, if no operation falls into the loop's seams (`~Seams`) |

*The argument.* `Typed` adds to the types what an operation's record carries at each
of its steps (`OpShape`) and that an attempt has a peer. The lemma `AllMove` sums up
what any step does to the loop and to what BlueZ holds connected; from it follows
that BlueZ has connected no peer but that of the attempt under way (`OnlyAttempted`),
hence `RadioHandedBack`, with seams and overlaps included. `Consistent` follows the
three copies of the selected peer through an operation: the file is written first,
then the adapter, then the service's copy; an error before the file is written leaves
the former peer in all three, and afterwards only a closed adapter stops the
operation. For `NoPollsWhileReleased`, `Silent` says that a
released radio is suppressed, and that a suppressed one is polled only within the one
operation that pairs with a PIN before it stops the tracking (`Pairing`), which
nothing else overlaps (`Alone`). `Chosen` says that an attempt for a peer no longer
selected has been cancelled, or will be by the operation that holds its cancel
function. `MCMeshCoreOverlap` violates `NoPollsWhileReleased` without the first
assumption; with `Seams` TLC finds `OnlySelectedPeer` violated as well.

The theorems of `HomeAutoProofs` are about `HomeAutoSession`, for any number of nodes,
keys and sessions.

| Theorem | Says |
|---|---|
| `HomeAutoTypeCorrect` | `TypeOK` always holds |
| `RequestsAlwaysOnDisk` | `CallOnDisk` |
| `NeverRepeated` | `NotRepeated`, for every set of events |
| `PendingAlwaysFits` | `PendingFitsSession`, if the cloud names the sessions it starts (no event "blank") |
| `SessionNeverForgotten` | `NoneForgotten`, if moreover a restart finds what the module left (no event "service") |

*The argument.* The lemma `AllMove` sorts the steps into eight kinds: a decision, the
operator's reset, a step that leaves the session alone, a session the cloud closes or opens
by itself, an answer of the cloud, the end of a call, a death, a boot. `Steady` says that the disk
has of the sessions what memory has (`Standing`), that the request of a call is on the
disk (`Calling`), and that what is pending does not carry the key of the action that
took place last, in memory and on disk (`Unrepeated`); it needs no assumption on the
cloud. `Fitting` adds that a start is pending only without a session and a stop only
with one, which an answer that names no session would break. `NoneForgotten` is about
the cloud's sessions: a key opens one (`Opened`), and an answer on its way is true
of the sessions that are open (`Truthful`), though the cloud may close or open others
meanwhile; so what a call's end forgets is not there any more. `MCHomeAutoRestart`
violates it where the service's constructor overwrites the disk first (section 7).

Every invariant and every action property of the passing runs is a theorem. Model-checked
only are the liveness properties, which are out of the prover's reach: `Delivered`,
`PauseEventuallyLifted`, `WriteReturns`, `ShutdownCompletes`, `PairingSettles`,
`PendingResolves`, `TrackingGoesOn`, `ReleaseHolds`, `Reconnects`, `PacketsGoOn`,
`RadioReadAgain`, and `ComesBack`, `DrainGoesOn`, `LoopStops` and `StopCompletes`, which
are in no run.

## 7. Findings

1. **Key of another binding** (run `dispatch_misbinding`). `DispatchOnce` reconciles
   the binding and then picks the next due delivery in separate transactions.
   A delivery captured before a re-pairing and written between the two is sent
   with the new key, against the comment above `ReconcileBinding`
   (`internal/outbox/store.go:618`).

Further disagreements between the code and a statement of the repository, each
with a configuration that ends in the violation of the property named:

- `MCPairingCorrupt` (`StartNeverRefused`): the state file that replaces a corrupt
  one has a new installation id; a completed rotation journal names another, and
  `Recover` refuses every start (`docs/diagnostics.md:130`).
- `MCPairingLateHeartbeat` (`IdentityGoesWithKey`): an acknowledgement that arrives
  after a deauthorization writes the receiver's identity back
  (`docs/multi-receiver-identity.md:44`).
- `MCHomeAutoRestart` (`NoneForgotten`): the constructor of the service applies the
  local configuration to the new module and records the report
  (`service.go:378`); the report is persisted together with the module's empty
  session state, before the module's `Start` reads what the former process left.
  The session of the cloud runs on, and a pending action is not retried
  (`docs/ga-v2.9.0-home-auto-session-m1.md:56`).
- `MCPairingCommand` (`CommandDeauthorizes`): `reset-pairing`, which
  `docs/receiver-lifecycle.md:36` says deauthorizes by default, has no rotator and
  is refused on a bound receiver.
- `MCMeshCoreForget` (`ReleasedByUser`): forgetting a peer whose file cannot be
  written fails after the radio was quiesced (`service.go:636`), and the adapter
  stays shown as released by the user, who did not release it
  (`docs/meshcore-ble-lifecycle.md:62`).
- `MCMeshCoreOverlap` (`NoPollsWhileReleased`): a session intent or a tracking
  request that is between its check and its start when a release runs, starts
  polling a released radio.
- `MCMeshCoreSeams` (`ReleaseHolds`): a release whose section falls between the
  loop's look at the suppression and the registration of its attempt finds nothing
  to cancel, although an operation "cancels any old attempt" (`adapter.go:442`);
  the loop connects, and the radio shown as released stays connected.
- `MCMeshCoreTakeover` (`TakeoverWakes`): the wake-up of a takeover is taken from its
  channel by a stopped run, which waits on the same channel and has not looked at
  its cancellation yet; the current run sits out its manual delay
  (`tracking.go:262`).
- `MCMeshCoreLate` (`ResultOfTarget`): an error that answers the contact lookup of a
  request after its snapshot gave up ends that request, whose command is already
  sent; the tag the companion reports for the command is taken by the next request,
  of another node, and the telemetry that comes under it is given out as that
  node's (`telemetry.go:432`, where the tag mapping is "the equivalent target
  validation").
- `MCIntakeLink` (`OneReaderPerDevice`): a by-id link that is absent while
  `service.New` reserves it, or moves to another tty later, is reserved under a
  path that the other adapter does not meet; both read the device
  (`serial_reservations_test.go:42`).

And behaviours for which the repository has no statement that is as specific:

- `MCDispatchCollisionWedge`: a revoked or disabled receiver has its deliveries
  quarantined in bulk; a collision stop on one of them stays,
  `ResolveDeliveryCollision` answers not found, and nothing else clears it but an
  installation rotation that finds the delivery in the outbox, which it is not.
- `MCDispatchStuckInflight`: at the byte bound the outcome of an attempt does not
  fit; the delivery stays inflight and is not retried until a restart.
- `MCPairingRotators`: two requests that rotate at the same time can leave a state
  file that matches neither boundary of the journal, which every start refuses. With
  "overlap" among the events of `MCPairing` one request is enough: the answer to a
  heartbeat that was sent before writes the receiver's identity into the state file
  between its rotation and the record of it in the journal, and after a crash there
  `validateRotatedState` refuses it. `StartAlwaysGoesOn` therefore assumes that
  requests and calls take turns.
- `MCPairingLateActivation`: an activation that was reset meanwhile takes effect
  when it is answered.
- `MCHomeAutoReturn`: a start that timed out is retried although its node returned
  meanwhile; the pending start displaces the stop candidate of that return, and
  the session then lasts until the node leaves and returns once more or is silent
  for the idle timeout.

Met while reading, without a configuration. *Pairing and dispatch*: after the
recovery of a corrupt state file the generations start from zero, so a pause
kept in the outbox is not superseded by the next credentials; a retryable error
of an overtaken pairing call restores the phase without the code
(`PhaseResumable` with the event "overlap"); a pairing code
submitted in the moment an activation is answered finds the installation not yet
bound, and it is paired again without a rotation; a late rejection of an old key
clears a fresh pairing; the portal's deauthorization leaves the ingest queue as
it is, whereas `handleLifecycleCloudError` clears it; packets captured before a
re-pairing are sent with the new key, and a drain keeps its snapshot's key to its
end. *Engine*: the Run loop, waiting in `Engine.write`, and the engine, waiting
to send to a full results channel that only the Run loop reads, wait for each
other (`Wedged`; it needs 256 results to pile up during one handler). *Home
session*: the mutex is held during a cloud call, so the Run loop, when it observes
an event and finds the queue full, waits for that call, although the module
"never blocks packet forwarding" (`docs/home-auto-session.md:4`); a process that
is shut down during such a call finds a cancelled context, which is not an error
to retry, and persists a degraded module that waits for the operator. *MeshCore*:
the count of path notices is read after the reset returned (`tracking.go:854`), so
a notice that arrives during the reset is not seen as newer; a malformed frame of
the older kind ends a tagged request; an error that answers a late contact lookup
ends the next request; an error that answers the fetch of a queued message leaves
the drain counting on an answer; a full buffer of events degrades the adapter,
which then refuses requests; the loss of a ready link goes unnoticed until a write
fails; the portal's pairing holds `meshcoreBLEMu` while a heartbeat answer waits
for it; the version of the applied intent is in memory only. *Files*:
`config.Save` writes in place, not by rename. *Intake*: the Meshtastic goroutine
may outlive `Close` in a blocked read.

## 8. Not modelled

In `Pairing`: a failing write of the state file, the salvage of a damaged file
(`decodeStateBytes`) and migration of old schemas, a rotation that finds the
outbox full (it is in `Dispatch`), and the command line beside a running
service. In `HomeAutoSession`: geometry and the validity of a position (both end in
"inside", "outside" or "unknown"), the control state and the GPS report shown to
the operator, an invalid configuration, `startup_reconcile` off, a start endpoint or client that
is missing, and a failing write of the state file; an answer without a session id is there
as the event "blank", but whether the cloud ever sends one is not known here, so
no run includes it (`PendingFitsSession` does not survive it). In
`MeshCoreTracking`: time, the recent polls and their labels. In
`MeshCoreCompanion`: payloads, raw frames, and the correlation of RF metadata
(`telemetry_rf.go`), which annotates results only. In `MeshCoreLink`: the serial
transport of the companion beyond the loop in `SerialDevices`, scans, the pairing
agent. In `Intake`: the handshake and the configuration share of the Meshtastic
radio, and the handling of an event beyond the queue. Envelope contents and JSON;
bbolt itself; HTTP; D-Bus, serial and BLE I/O; the portal's pages; derived status
text; event preparation and normalisation; release, install and logging code.

## 9. Plan

Done: `OutboxStore`, `DeliveryLedger`, `Dispatch`, `OutboxEngine`; `Pairing`;
`HomeAutoSession`; `MeshCoreTracking`, `MeshCoreCompanion`, `MeshCoreLink`,
`MeshCoreControl`; `SerialDevices`, `IngestQueue`, `Intake`, `FrameScanner`; proofs
about all of them.

What could follow, in order of importance:

1. `ClockSamples` (the attestation's samples), `Semver` (the update check) and
   `FailureTaxonomy` as algorithms against reference definitions; the configuration
   share of the Meshtastic radio.
