# Verification of stableCOPS

TLA+ specifications of stableCOPS, a CANopen/CiA 402 motor-control library on
Lely CANopen, with TLC configurations that check them and TLAPS proofs about
them. Paths such as `src/lely/MotorDriver.cpp` are relative to the repository.

## 1. The system

    MotorDrive handles (any thread)                       include/stablecops/app
        | post / invoke
    Bus, one per CAN interface, with one loop thread      src/app/Bus.cpp
        | owns
    CanopenApplication: master, SYNC, shutdown            src/app/CanopenApplication.cpp
        | one per node
    lely::MotorDriver: cyclic engine, requests            src/lely/MotorDriver.cpp
        | PDO every SYNC, SDO on demand
    the drive: CiA 402 firmware                           (external)

| Component | State it keeps | Operations | What is hard | Correct means |
| --- | --- | --- | --- | --- |
| `MotorDriver` | `stop_phase_`, `enable_phase_`, `homing_phase_`, `setpoint_phase_`, `cyclic_active_`, intent, command image, feedback | `OnSync`, `OnBoot`, `OnConfig`, heartbeat, EMCY; requests for stop, quick stop, reset, enable, mode, move, homing | every callback is a fiber; fibers interleave at each SDO exchange and sleep; five writers of one controlword | a stop wins and ends; nothing energises against the intent; homing and recovery end |
| `CanopenApplication` | `shutdown_initiated_`, `stops_remaining_`, deadline, timer | request shutdown, stopped-callback, grace check, signals, forced stop | drives already stopped, re-enabled or still enabling when the count starts | the loop always stops; quietly only when every drive is stopped; reset only as a last resort |
| `Bus`, `MotorDrive` | registry of weak references, `started_`, `app_`, `loop_thread_`, handles | construct, start, post, invoke, stop, destroy, shut down, force | many threads against one loop thread; teardown overlapping construction | one master per interface; no call on a dead application; teardown ends |
| telemetry of `MotorDriver` | `feedback_`, `feedback_snapshot_`, live flag, `node_loss_`, cadence statistics | publish on SYNC, EMCY, heartbeat; `enabled()`, `feedback()` | flag and snapshot are two steps against readers on other threads | a live answer is true; faults show; the statistics agree |
| object access | none | read and write objects by PDO or SDO | three conversions of width and sign in a row | the value that arrives is the value given |
| `ds402::*` | none | decoding of statusword, fault texts | bit masks | the decoded state is the drive's |
| `config::PdoMap` | none | load the PDO layout, rebase COB-IDs per node | two metadata formats | distinct identifiers for distinct nodes |
| `config::MotorConfig` | none | resolve defaults against the profile | "unset" is encoded as "equal to the default" | explicit values win |
| `log`, `RealtimeScheduling` | sink, level | write, tune the loop thread | sink replaced while threads write | no lost or torn line |
| `stablecops_commissiond` | HTTP connection, signal count, three threads | JSON API over `MotorDrive`; escalation of signals | watcher, main and loop thread around one shutdown | requests checked before they reach a drive; a signal ends the process, and no drive keeps running |
| `stablecops_master`, examples | the loop on the main thread, a statistics thread | enable at boot, print, end on a signal | signals delivered in the loop | as for the daemon |
| `generate_canopen_config.py` | none | file generation | - | - |

The components interact by calls deferred to the loop thread (`postToDriver`,
`invokeOnDriver`), by the stopped-callback from `MotorDriver` to
`CanopenApplication`, by an atomic application pointer and by published
snapshots. PROJECT.json lists every hazard at its line.

## 2. The modules

| Module | Models | Built on |
| --- | --- | --- |
| `Ds402` | states, controlwords, the drive's power state machine | - |
| `SafeStop` | abstract promise of `stop()` for one drive | - |
| `MotorDriver` | one driver, its fibers, the wire and its drive | `Ds402`; implements `SafeStop` |
| `QuickStopHold` | `MotorDriver` with a history of its quick stops | `MotorDriver` |
| `HomingGeometry` | positions of a homing: stops, back-off, centre, zero | - |
| `ProfileSetpoint` | the handshake of `moveToPosition` with the drive's latch | - |
| `Telemetry` | live flag, snapshot, emergencies, node loss, readers | - |
| `CyclicStats` | the cadence statistics | - |
| `ObjectAccess` | route and conversion of every object access | - |
| `CanopenApplication` | coordinated shutdown over several drivers | - |
| `Tools` | the threads of the daemon and of the master | composes `CanopenApplication` |
| `CommissioningApi` | what the daemon's API refuses and passes on | - |
| `Bus` | registry, handles, threads, loop thread | - |
| `PdoMap` | COB-IDs of each drive of a chain, from either summary format | - |
| `PdoConfiguration` | boot-time SDO configuration of the drives | `PdoMap` |
| `MotorConfig` | defaults against the profile | - |
| `MC*` | instances for TLC | the above |
| `MotorDriverProofs` | theorems | `MotorDriver`, `QuickStopHold`, TLAPS |
| `HomingGeometryProofs`, `ProfileSetpointProofs`, `ToolsProofs`, `BusProofs` | theorems | the module named, TLAPS |
| `TelemetryProofs` | theorems | `Telemetry`, `CyclicStats`, TLAPS |
| `ConfigProofs` | theorems | `PdoConfiguration`, `PdoMap`, `MotorConfig`, TLAPS |
| `CommissioningProofs` | theorems | `CommissioningApi`, `ObjectAccess`, TLAPS |

**MotorDriver.** `motor` holds the members of the object that control depends
on, under the code's names without the underscore and `phase`; `wire` is what
the master sends on every SYNC, `tpdo` the last frame received, `drive` the
firmware. A step is the code between two suspension points: `OnSync` is one
step unless it suspends in homing (`OnSyncSuspends`, then `ExchangeReturns`),
and a blocking request is a sequence of steps of a fiber (`Poll`,
`ImageZeroed`, `ImagePrimed`, `ImageStreamed`, `PulseEnds`, `WaitEnds`, ...).
`Throw` is any exception of a wait. Only the controlword of the command image
is kept. The search and centring phases of homing are one phase, `Motion`,
which may settle, fail or time out. A deadline may have passed at any SYNC
that reads it (`late`). The drive may execute its controlword at any time, may
ignore a mode change, may fault, fall silent, be lost, or restart: it then boots
again, and `OnBoot` runs the boot action (`enableDrive` with `BootEnables`)
whatever has been asked of the driver in between, as the code does.
`Disturbances` says which of these happen. `SingleCaller` is an application that
waits for the boot and for the answer of each request. A homing requested
after a stop that ended by its deadline, of a drive still enabled in cyclic
velocity mode, skips `enableDrive` and never streams: it then neither advances
nor times out, and `HomingEnds` is about homings that stream.

`QuickStopHold` adds `held`: a quick stop took effect (it was not ignored, and no
exchange of homing was in flight), and nothing has been asked for since.

**HomingGeometry.** The phase `Motion` of `MotorDriver` taken apart. A step is
a SYNC: `advanceHoming` reads position, speed and torque, and the axis then
moves (external): it reaches its command at once or in steps, stands after two
cycles of zero, and meets a stop within one cycle. Torque rises at a stop sooner or
later. Times count cycles; the deadline may pass at any cycle after the one that
armed it. `Wrap` is the assignment to an int32; `track` and `zero` are
what the application cannot see. `Homing`'s fields are the members `homing_*`.

**ProfileSetpoint.** `phase` is `setpoint_phase_`. The drive (external) executes a frame, raises and
drops its acknowledge, and sends it back, each in a step of its own, so a
frame may be lost and an acknowledge late. Stop, fault reset and quick stop
are the sequences that take the controlword; `Resume` gives it back.

**Telemetry.** `live` and `snapshot` are the two things readers see; the step
between their updates is `motor.pc = "publish"`. `drive.talks` and
`drive.beats` are its TPDOs and its heartbeat. A reader loads the flag, then
the snapshot. `sampled` is what the last SYNC knew (history).

**ObjectAccess, CommissioningApi, CyclicStats, MotorConfig.** Pure operators
(`CyclicStats` has one action). Values are integers and each cast is an
operator; the objects are abstract, each with a type. A request of the API is a
record of its parsed fields. They have no run; their theorems
cover every input.

**CanopenApplication, Tools.** Of each driver the stop phase, streaming, and what
may yet make it stream are kept: the enable of a boot (`boots`), a call that
enables or homes (`call`), and a homing (`homing`), whose fiber streams or not when
it ends, and when its mode write is answered (`ModeRestored`), whatever the stop phase
is by then. Bounds: one boot, one such call and one homing at a time per drive. `requestShutdown` calls every driver
in one step, as the code does, and counts the drivers that report from inside the
request. `Tools` adds the program around it: `main.pc` is where
`main` is, `helper` the watcher, `thread` the loop thread of `Bus::start`,
`posted` and `asked` its queue. The pointer `app_` loaded by the watcher and
its use are two steps (`WatcherForces`, `WatcherForced`). `signals` counts to 3, from where
on nothing changes. `early` and `crossing` are history: the drives that were
stopped before the shutdown began, and those whose boot enable or mode write was under
way when it began, or that booted later. The API's calls are those that
matter here, with `other` for any that `main` waits for. `tool` chooses the program in `ProcessInit`.

**Bus.** Buses of one interface. A step is a critical section, an atomic
access or a wait; the pointer loaded from `app_` and its use are two steps. The
loop thread goes `constructing`, `running`, `left`, `detached`, `ended`; the
object behind the pointer exists in the middle three. A weak reference is the
registry's entry together with the set of holders. `booted` is a history
variable.

**PdoMap, PdoConfiguration.** A COB-ID is its flags and its 11-bit identifier;
the channels of a layout are numbered, RxPDOs first. `Configuration(n)` is the
sequence of parts that OnConfig's fiber works through (one per channel, then the
operation mode, then the parameters), each the sequence of SDO downloads that the
code makes for it; a step makes the first download of the first part that has any
left (`Due`). A download succeeds, is refused, or takes effect and loses its
answer. The drive's object dictionary and NVM are external: a restart brings the
factory PDOs (stale, enabled, longer than the layout's) and the saved parameters
back, and ends the request under way. A mode request may come at any time of the
boot, too: the drive takes the mode in one step and the driver remembers it in
another, when the answer comes (`asked`), and the answer may be lost; `crossed` is
history: either fell between the configuration's choice of the mode and its end. The profile parameters, disable mode and raw
object writes are one sequence, `Params`.

### Plan

1. (done) `Ds402`, `MotorDriver`, `SafeStop`, with proofs of type correctness,
   the exchange guard, the stop's priority and the refinement.
2. (done) `CanopenApplication`, then `Bus`.
3. (done) `PdoMap` with its theorems, `PdoConfiguration`, `MotorConfig`.
4. (done) `ProfileSetpoint`, `HomingGeometry`, `Telemetry`, `CyclicStats`,
   `ObjectAccess`.
5. (done) `Tools` over `CanopenApplication`, and `CommissioningApi`.
6. (done) Proofs: the type invariants, and every safety property a passing run checks.
7. (done) `QuickStopHold`.
8. Modules left: the tracking of targets in `OnSync`.

## 3. What the runs check

Sizes are TLC's distinct states.

| Run | Asks | States |
| --- | --- | --- |
| `MotorDriverRace` | a stop in progress owns the wire when stop, quick stop, reset, enable, mode change and move overlap, with faults and drives that boot, and are enabled by that, at any time | 3.4 M |
| `MotorDriverSequential` | a caller that waits, faults: energising words and fault recovery follow the intent, a finished stop is silent, `SafeStop` is implemented, a quick stop in effect is the last word until the next request or boot, or a stop's | 0.69 M |
| `MotorDriverLive` | stops end and take the power off, recovery ladders end, silence while streaming is followed by a stop | 276 k |
| `MotorDriverHoming` | with faults and node loss: one exchange at a time, the mode restored without power, homing ends | 874 k |
| `HomingGeometry` | five tracks, four configurations: the ends found are the stops, the centre is midway, the zero is taken there, a stop is released, homing ends | 37 k |
| `Setpoints` | four moves, two interruptions: no move is lost or taken twice unless it was overtaken or cut, the handshake ends | 83 k |
| `Telemetry` | an answer of `enabled()` that the loop does not write across is true of the drive, faults show, feedback returns | 121 k |
| `Processes` | two drives under the daemon or the master, with enables, homings and the master's boots in flight: after a quiet exit, or one signal, every drive is stopped and none streams but those whose boot or mode write crossed the shutdown; resets only for a reason; a signal ends the process | 620 k |
| `BusSequential` | calls that do not overlap: one master | 994 |
| `BusConcurrent` | siblings share the registered bus; a constructor that races `start()` ends in a drive of the chain or is refused; no caller outlives the application; starts, calls and shutdowns return | 216 k |
| `Configuration` | two drives, refusals, lost answers, restarts, mode requests to one of them at any time: no PDO enabled half programmed, a drive boots as laid out, on identifiers of its own, and in its mode unless a request crossed the end of the configuration, NVM saved whole, every configuration reports | 312 k |
| `HomingVsStop` | finds a behaviour against a comment of the code, below | - |

The bounds, and why they are enough:

- `Fibers` is the number of blocking requests in progress at once.
  `PrimeCycles` stands for the 4 cycles an image is streamed; 1 or 2 is enough
  for a SYNC to fall before, between and after. `MaxExchanges` = 2 lets a second
  OnSync suspend, which is what `OneExchange` forbids.
- Two drives let the first be done, or be walked up again, while the other is in
  mid-stop; the count reaches zero from two. `MaxPosted` = 1 is the one call `main` waits for, or one it did
  not wait for; main serves one request at a time.
- Two buses and two or three threads let a teardown overlap a construction and
  a call. Two drives are enough for an identifier to be shared. The drives of a chain do
  not otherwise interact in their configuration, so one of them is asked for modes
  (`Switched`), and the summary is one without metadata, whose identifiers are rebased;
  that metadata gives the same ones is proved (`FormatsAgree`).
- `Processes` has the boot enables of the master only. Those of the daemon
  (`BootEnables`) multiply the states by four; the safety properties hold of them, too
  (section 4).
- `MaxInt` = 7 is an int32 of four bits, small enough for tracks that are
  longer than it can measure; travels up to `MaxInt`, beyond half the range, are
  accepted.
- `MaxMoves` = 4 lets a move be requested over one that was itself overtaken,
  and two interruptions cut a handshake again after it resumed.
- One reader stands for all, because readers write nothing others read; two
  emergencies let a clearing one queue behind a fault's.

No counter grows beyond these. Deadlock is checked except where the system really ends: a process
that has ended, and a homing that is done or was refused, do nothing more. No run
checks a type invariant: each is proved (section 4).

The exemptions a property states, each a behaviour that is shown below: `early`
(`ResetJustified`), `crossing` (`QuietExit`, `NoDriveLeftRunning`), `crossed`
(`BootsAsSelected`), `overtaken` and `cut` (`NoMoveLost`, `TakenOnce`), `clean`
(`EnabledIsHonest`).

### Where the code departs from its own word

`HomingVsStop` checks what the comment at `src/lely/MotorDriver.cpp:816-818`
says, "a controlled shutdown always wins", and TLC finds a behaviour against it:
homing resumes from an SDO exchange during a stop and puts its controlword on the wire.

The same models, with other constants or another property of the module, show what the
passing runs exclude. Where a sentence of the repository says otherwise, it is quoted:

| Constants | Behaviour |
| --- | --- |
| `MotorDriver`, `BootEnables`, silence | against `EnergisedByIntent`: a watchdog stop in the first reads of `enableDrive` is undone by the fiber (`MotorDriver.cpp:1355`) |
| `MotorDriver`, `Requests` with homing, silence, `FairSpec` | against `WatchdogTrips`: after a failed homing the watchdog de-energises no more (`MotorDriver.cpp:794`) |
| `QuickStopHold`, `SingleCaller = FALSE`, enable and quick stop | against `QuickStopHolds`: the fiber of an `enableDrive` under way stages the next word of its ladder after the quick stop, though "it aborts in-flight sequences" (`docs/architecture.md:135`) and "the hold persists without any further action" (`MotorDriver.cpp:1278-1279`) |
| `MotorDriver`, `SingleCaller = FALSE`, enable and stop | against `StoppedIsSilent`, `EnergisedByIntent`: a fiber of `enableDrive` that is suspended across a stop streams, and walks the drive up, once the stop is done |
| `MotorDriver`, `BootEnables`, restarts | against the same two: the boot action of a drive that restarts after a stop enables it (`MotorDriver.cpp:1110-1122`) |
| `MotorDriver`, `Requests` of homing, stop and quick stop | against `ModeRestoredUnpowered`: a quick stop fails the homing but not its exchange; the next homing powers the drive before the old mode's write ends (`MotorDriver.cpp:1271`) |
| `MotorDriver`, reset and move | a move enables a drive that streams but was never enabled (`MotorDrive.hpp:129` calls it effective only when enabled) |
| `HomingGeometry`, `Transients` | against `ReleasesStop`, `EndsAreStops`: a torque peak of an axis that stands still, or leans on a stop when homing starts, is taken for the stop |
| `Tools`, as in `Processes` | against `StopsOnceDeEnergised`, which has no exception ("graceful-stop every drive and stop the loop once they are de-energised", `CanopenApplication.hpp:55-56`): homing's mode write is answered after the drive's stop was counted, `RestoreMode` streams again and walks the drive up (`MotorDriver.cpp:1856-1860`), and the last callback then stops the loop |
| `PdoConfiguration`, as in `Configuration` | against `RebootsAsSelected`, which has no exception ("a node that reboots gets the mode last selected", `docs/architecture.md:70-71`): `selectOperationMode` copies `selected_mode_`, a request's answer changes it, and the older mode is written last |
| `Tools`, `BootEnables` | against `StopsOnceDeEnergised`: a drive may boot, or end its boot's enable, after it was counted as stopped; the master, which always enables at boot, may do the same, if its signal falls into the boot |
| `Bus`, one thread, `StartFails` | against `StartedMeansConstructed`: after a failed start the next one succeeds with nothing running |
| `Bus`, `Overlapping` | against `OneMaster`: the `weak_ptr` expires before `~Bus` has joined its loop, so a second bus is booted on an interface (`Bus.hpp:27` promises one master) |
| `Bus`, `Overlapping`, `Tooling` | against `AppOutlivesCallers`: a forced stop destroys the application under a caller |
| `Bus`, `Overlapping`, `Mismatches` | deadlock: `getOrCreate` throws with the last reference, and `~Bus` needs the mutex its thread holds |

So each constant says under which use a property holds. Other clauses say what
the code does and its comments do not:

- A drive stopped before the shutdown begins is counted but does not report
  again; the shutdown waits 1500 ms and resets nodes that all confirmed
  (`CanopenApplication.cpp:112`, against the comment at 158-160). `ResetJustified` names
  it with `early`.
- A move requested in `WaitAck` or `Clear` of another raises no edge and is
  lost, though the comment at `MotorDriver.cpp:1420-1421` calls re-arming mid-move
  fine (`overtaken`). A handshake cut by a stop or reset keeps its phase, resumes
  later, and may take a relative move twice (`cut`). It has no deadline:
  outside profile position mode it may never end, and homing is then refused
  (`MotorDriver.cpp:1525`). A move requested while a drive is being enabled overwrites the
  words of `enableDrive`.
- The live flag is stored before the snapshot. A reader between the two, when
  feedback returns or arrives first, reads the older or default snapshot with
  a live flag, so `waitUntilLive()` followed by `feedback()` may see position 0 (as in
  `examples/csp_position.cpp:64`). `EnabledIsHonest` is about calls the loop
  did not write across (`clean`); `MotorDrive.hpp:92-93` makes no exception,
  nor does `docs/architecture.md:155-157` ("can never report a stale "operation
  enabled""): a drive that was lost while enabled and is heard again de-energised is
  reported as enabled between the two stores (`MotorDriver.cpp:780-781`).
  The telemetry's one staleness stamp serves all TPDOs (`MotorDriver.cpp:737`).
- A quick stop clears the set-point, recovery and homing phases, but not an exchange
  of homing that is in flight: when that returns it stages its own word
  (`MotorDriver.cpp:1270-1272`). `QuickStopHolds` is about quick stops with none in flight.
- `setpoint_phase_`, `enable_phase_` and `homing_phase_` survive a stop and resume
  when the drive streams again (`MotorDriver.cpp:1220`). No property judges that;
  `RecoverRespectsIntent` says only that the ladder so resumed respects the intent.
- Heartbeat and node guarding share one latch of node loss (`MotorDriver.cpp:885`).
  The model has one disturbance for both, so the missed edge of a second channel
  is not reached.
- A fixed COB-ID whose low bits coincide with the representative's node id is
  rebased with the rest (`PdoMap.cpp:126`). No layout checked has one, and
  `DrivesApart` excludes it (`WellLaid`).
- A back-off longer than the track, or a home offset beyond half the travel,
  drives the axis against a stop until the deadline. The back-off target may
  leave int32 (`MotorDriver.cpp:1700`): undefined in C++, modelled as wrapping.
- The API checks a relative or absolute CSP step against a snapshot; two quick moves use the
  same position. Indices given as JSON numbers are truncated, strings are range-checked.
  Calls that block may answer 500 after they took effect. The sum of an int64 move and
  a position is modelled as wrapping.
- An index mapped in two RPDOs is found in the first only
  (`ObjectAccess`), and cached reads do not look at the subindex.
- A server that fails after `--enable` stops the loop by force before any drive
  was stopped, and the shutdown that follows finds no application
  (`stablecops_commissiond.cpp:1396-1400`). `NoDriveLeftRunning` is about processes that a
  signal ended.
- The daemon's `::send` has no `MSG_NOSIGNAL` (`stablecops_commissiond.cpp:592`): a client that
  closes early ends the process by SIGPIPE, without a shutdown. That end is outside
  `Tools`, whose processes end as `exit` says.

### Fairness

`LoopFairness` of `MotorDriver`: the master produces SYNC itself, so `OnSync`
keeps running, and with its deadlines passed, because they are compared with a
steady clock; an SDO exchange ends, in an answer or in the client's timeout.
`DriveFairness` is assumed only where power is the question: a drive that is on
the bus executes its controlword. Nothing is assumed of the application, of
frames arriving or of fibers of requests. `HomingGeometry`: SYNC, the clock and the exchange, as
above; the axis owes nothing. `ProfileSetpoint`: a frame that is sent every
cycle gets through in the end, in both directions, and the drive works; without
it the handshake, which has no deadline, would not end. `Telemetry`: SYNC comes
and what is sent every cycle is received (strong, because the loop thread is now and then
busy), the timeout and the heartbeat consumer run; readers need not. `Tools`: main, the watcher
and the loop thread run, the loop takes what is queued, timers fire, each call
(`CallReturns(n)`) ends in an answer or a timeout, a signal is delivered; no drive has
to answer, boot, stop or end its homing.
`PdoConfiguration`: an SDO request ends, in an answer or in the client's
timeout. `Bus`: threads and the loop thread run, and a loop asked to stop stops,
by the last report, the grace period or force; the registry's mutex need not be fair, so
`CallsReturn` does not cover waiting for it.

## 4. What is proved

TLAPS checks these for all values of the constants that satisfy the named
assumptions (any number of fibers, any subset of requests, modes and
disturbances, any bounds).

**MotorDriver** (`MotorDriverProofs`). The assumptions on `Requests`,
`SingleCaller` and `Disturbances` are those of the run that checks the property, or
weaker.

| Theorem | States | Argument |
| --- | --- | --- |
| `TypeCorrect` | `Spec => []TypeOK` | one lemma per operation on the object, then one step per action |
| `OneExchangeHolds` | `Spec => []OneExchange` | `Accounted`: the number of suspended exchanges is one if the in-flight flag is set, else zero. `OneExchange` alone does not say that the flag is what prevents the second |
| `RecoveryRespectsIntent` | `Spec => []RecoverRespectsIntent`, no homing; any disturbance | `Respected`, with `NoHoming`: only homing enters the ladder at Shutdown without a reset |
| `StopWins` | `Spec => ShutdownWins`, no homing; any disturbance | only an OnSync writes the wire, and in a stop it writes disable-voltage whatever fibers staged before |
| `StoppedStaysSilent` | `Spec => []StoppedIsSilent`, a caller that waits, no homing, no disturbance but faults | `Calm`: a stop and a fiber that may write are never there together; `Unbooted`: nothing has been asked of a driver whose drive has not booted |
| `ImplementsSafeStop` | `Spec => KeepsSafeStop`, same assumptions | initial states map to initial states, and each action to a step or a stutter, by `Calm` |
| `EnergisedOnlyByIntent` | `Spec => []EnergisedByIntent`, the same and no move | `Intended`, on top of `Calm`: without the intent nothing on the way to the wire energises, neither the image, nor a ladder, nor a fiber |
| `QuickStopsHold` | `HoldSpec => QuickStopHolds`, a caller that waits; every request, homing included, and every disturbance | `Held`: from the quick stop on, the image is the quick stop's word, or a stop's, no phase is under way, no fiber and no exchange is suspended; each step without a request or a boot keeps that |
| `ModeComesBackUnpowered` | `Spec => []ModeRestoredUnpowered`, a caller that waits, with stops, moves, mode changes and homing; faults and node loss | `HomingAlone`: a homing owns the ladder, the fibers and the exchange; once it leaves the centre only two words go out, and a drive last heard without power stays without it on both |

**HomingGeometry** (`HomingGeometryProofs`), for any tracks, starts,
configurations and width of int32.

| Theorem | States | Argument |
| --- | --- | --- |
| `HomingTypeCorrect` | `Spec => []TypeOK` | with the next, from one invariant: `Good` of the members, by phase |
| `CentreAlwaysMidway` | `Spec => []CentreIsMidway`, travels of at most half the range (`Moderate`), any torque | what is known of ends and back-off when the axis gets there: an accepted travel bounds the distance of the ends, so that no difference wraps |
| `CentreOfStopsMidway` | the same for any travel, no torque peaks while the axis stands (`~Transients`) | the ends are the stops, so a distance that does not fit is never accepted |
| `ZeroAlwaysAtCentre` | `Spec => []ZeroIsAtCentre` | the position read before the settling time and the exchange is still the axis's: it has stood since |
| `EndsAlwaysStops` | `Spec => []EndsAreStops`, `~Transients` | torque together with a stall means that the axis leans on a stop, and the direction says which |
| `StopAlwaysReleased` | `Spec => ReleasesStop`, `~Transients`, an axis with room for back-off and offset (`Roomy`) | by phase, how far the axis is from the stop it is driven towards |

**ProfileSetpoint** (`ProfileSetpointProofs`), for any number of moves and interruptions.

| Theorem | States | Argument |
| --- | --- | --- |
| `SetpointTypeCorrect` | `Spec => []TypeOK` | with the two below, from one invariant |
| `NoMoveEverLost` | `Spec => []NoMoveLost` | `Travels`: where the edge of an undisturbed move is, on the wire, in the drive, in its acknowledge, or on the way back |
| `MovesTakenOnce` | `Spec => []TakenOnce` | `Spent`: a move that was taken is on the wire only while the drive sees its bit up, and the bit does not rise for it again |

**Telemetry, CyclicStats** (`TelemetryProofs`), for any readers.

| Theorem | States | Argument |
| --- | --- | --- |
| `TelemetryTypeCorrect` | `Spec => []TypeOK` | one step per action |
| `EnabledHonest` | `Spec => []EnabledIsHonest` | between publications a live flag means that the snapshot is `sampled`; a clean call sees both of one publication |
| `StatsAlwaysAgree` | mean and last interval lie between the extremes, the jitter is that of the further extreme | `StatsAgree`, with the sum and jitter that an empty record has, is inductive |

**CanopenApplication, Tools** (`ToolsProofs`), for any finite set of drives, with
enables, homings and boots in flight; no assumption but that of the module.

| Theorem | States | Argument |
| --- | --- | --- |
| `ShutdownAccounted` | the inductive invariant | `Accounted`: from the shutdown on, the count is the number of drives still expected to report, no call that enables a drive is under way, and a drive streams after its stop only if it is in `crossing`, or in `early`, whose drives never report and so allow no quiet exit; `Daemon`, `Master`: which thread may be where; `Causes`: what the end was due to |
| `ProcessTypeCorrect` | `ProcessSpec => []ProcessTypeOK` | part of it |
| `QuietExitTheorem` | `ProcessSpec => []QuietExit` | a count of zero leaves nobody expected, and nobody in `early` |
| `NoDriveLeftRunningTheorem` | `ProcessSpec => []NoDriveLeftRunning` | after one signal an end without force has finished the shutdown |
| `ResetJustifiedTheorem` | `ProcessSpec => ResetJustified` | the reset is sent with the count above zero |

**Bus** (`BusProofs`), for any threads, drives and buses.

| Theorem | States | Argument |
| --- | --- | --- |
| `LifecycleSound` | the inductive invariant, with the type invariant | who owns which drive, bus and mutex, and that `~Bus` runs once, after the last reference |
| `RegistryHoldsLiveTheorem` | `Spec => []RegistryHoldsLive` | part of it |
| `NodesKnownTheorem` | `Spec => []NodesKnown` | a drive is registered in the section that checks `started_` |
| `AppOutlivesCallersTheorem` | `Spec => []AppOutlivesCallers`, without shutdownBus and forceStopBus | `Asked`: the loop is then asked to stop by `~Bus` alone, after the last call |
| `OneMasterTheorem` | `Spec => []OneMaster`, calls that do not overlap | one thread is in a call, so a second bus is made after `~Bus` has joined the first one's loop |

**PdoMap, PdoConfiguration, MotorConfig** (`ConfigProofs`), for any chain, layout,
NVM and parameters; the drives have the PDOs the summary names, with room for its
entries (`ChainAssumption`).

| Theorem | States | Argument |
| --- | --- | --- |
| `FormatsAgree`, `ChainIdentifiersDiffer` | metadata and rebasing give the same COB-IDs; two channels of a chain share an identifier only if they are the same | quotient and remainder by the number of node ids |
| `RebaseNeverThrows` | rebasing stays in eleven bits | the same |
| `ChainInvariant` | the inductive invariant | every PDO is at a `Stage`, which the downloads left of its part name; so for the mode and the parameters. A refused download ends the work where it stands; a lost answer leaves the next stage |
| `PdoTypeCorrect` | `Spec => []TypeOK` | part of it |
| `NeverActsHalfProgrammed` | `Spec => []NeverHalfProgrammed` | the stages in which a PDO is enabled are the first and the last |
| `PoweredUpAsLaid` | `Spec => []BootedAsLaid` | a drive boots when no download is left, that is, at the last stage of each part |
| `NeverSavedInPart` | `Spec => []SavedWhole` | the save is the last download of its part |
| `DrivesApart` | `Spec => []DistinctIdentifiers`, if the used channels are distinct function codes plus the node id (`WellLaid`) | `PoweredUpAsLaid`, with `ChainIdentifiersDiffer` |
| `ComesUpAsSelected` | `Spec => BootsAsSelected`, mode requests at any time of the boot | the mode's part of the invariant: once chosen, the mode left to write is the one selected, unless a request crossed |
| `Idempotent`, `ExplicitWins`, `SiblingsMatch` | resolving twice is resolving once; explicit values are kept; siblings agree on the SYNC period | by cases |

**CommissioningApi, ObjectAccess** (`CommissioningProofs`), for every input.

| Theorem | States | Argument |
| --- | --- | --- |
| `CspStepIsBounded`, `MoveValuesFit`, `OnlyConfiguredDrives` | a call the API makes steps at most `max_position_step` from the position read, fits its parameter, and goes to a drive of the daemon | by request; `Widths` relates int16, int32 and int64, and the wrapped sum is true for what is accepted |
| `StagedValueArrives`, `FeedbackReadsBack` | a value of the object's type comes out of all casts as it went in | quotient and remainder by the type's span |

Every safety property that a passing run checks is thus also proved. The
assumptions are not for convenience: without those of `MotorDriver`, `Bus` and `Transients` the behaviours of section 3 are counterexamples; an axis
that is not `Roomy` is driven against a stop, a travel of more than half the range
can differ from its int32 member by the range when a torque peak passes for a stop,
and a chain that is not `WellLaid` has its overlaps from the start. `CyclicStats`
takes the nominal period from the naturals, and `Bus` keeps the names of threads
and drives apart. The instances of section 3 satisfy the assumptions of the
theorems about what they check.

Only model-checked are the properties that something eventually happens, all of
them under the fairness above: `StopFinishes`, `PowerRemoved`, `LadderEnds`,
`WatchdogTrips`, `HomingEnds`, `HomingReturns`, `HandshakeEnds`, `FaultIsReported`,
`FeedbackReturns`, `SignalEnds`, `CallsReturn` and `ConfigReturns`: the provers
reason neither about `ENABLED`, which fairness needs, nor by induction over data.

## 5. Not modelled

- The tracking of target position, velocity and torque in `OnSync`, and the
  move to the actual position that prepares CSP at boot: data with their own
  limits, left for a module of their own.
- `Diagnostics`: tables of texts; a property would repeat the table. The bits
  of the statusword likewise.
- `Log`: line buffers and a sink replaced under a mutex, on which no other
  component's state depends. `RealtimeScheduling`: system calls.
- The HTTP and JSON syntax, the page and the object catalogue of the daemon,
  the command lines of the tools, and the examples: straight-line code.
- The configuration generator: an offline file transformation; what it writes
  enters through `PdoMap`'s layouts.
- The Lely library, the kernel's CAN stack and the drive's firmware are
  external: they appear as the fibers' suspension points, as lost or late
  frames, as `Ds402`'s state machine, as the axis and as the drive's latch.
