----------------------------- MODULE MotorDriver -----------------------------
(***************************************************************************)
(* lely::MotorDriver of one node: the controlword side of the cyclic       *)
(* engine, the requests that compete for it, and the drive at the other    *)
(* end of the bus.                                                         *)
(*                                                                         *)
(* One loop thread runs every callback and every deferred request in a     *)
(* fiber of its own.  A fiber is preempted only where it suspends, in an   *)
(* SDO exchange (Wait) or a sleep (USleep), so an action below is the code *)
(* between two suspension points.  OnSync runs in a fiber too: while one   *)
(* OnSync is suspended in the SDO exchanges of homing, the next ones run.  *)
(*                                                                         *)
(* Abstracted: of the command image only the controlword is kept (targets  *)
(* and their tracking flags are data), of the feedback the DS402 state and *)
(* the displayed mode; the searching and centring phases of homing are one *)
(* phase, Motion; a deadline may have passed at any SYNC that reads it.    *)
(***************************************************************************)
EXTENDS Ds402, FiniteSets

CONSTANTS
    Requests,       \* the requests the application makes, of MotorDrive's API
    Modes,          \* the operation modes in play
    Disturbances,   \* what goes wrong: faults, silence, the node lost, restarts
    Fibers,         \* fibers of blocking requests (a bound: the code has no limit)
    PrimeCycles,    \* SYNC cycles a fresh image is streamed before the ladder (4)
    BootEnables,    \* wantsMotionAction(): the configuration enables on boot
    SingleCaller,   \* the application waits for the boot and for each request
    MaxExchanges    \* OnSync fibers suspended at once, per exchange (a bound)

ApiRequests == {"stop", "quickStop", "resetFault", "enable", "move", "mode",
                "homing"}

ASSUME MotorDriverAssumption ==
    /\ Requests \subseteq ApiRequests
    /\ Modes \subseteq {"csp", "csv"} /\ Modes # {}
    /\ Disturbances \subseteq {"fault", "silence", "nodeLoss", "restart"}
    /\ PrimeCycles \in Nat \ {0}
    /\ BootEnables \in BOOLEAN
    /\ SingleCaller \in BOOLEAN
    /\ MaxExchanges \in Nat \ {0}

VARIABLES
    motor,      \* the members of the MotorDriver object
    fibers,     \* the blocking requests in progress, suspended
    exchanges,  \* OnSync fibers suspended in homing, by the exchange they await
    wire,       \* tpdo_mapped 0x6040: what the master sends on every SYNC
    tpdo,       \* rpdo_mapped: the last frame received from the drive
    drive       \* the drive's power state machine and mode (0x6060), and
                \* whether it has booted: until then it takes part in no PDO

vars == <<motor, fibers, exchanges, wire, tpdo, drive>>

Mode == {"csp", "csv"}
StopPhase == {"None", "DisableVoltage", "Done"}
EnablePhase == {"Idle", "FaultReset", "Shutdown", "SwitchOn", "EnableOp"}
SetpointPhase == {"Idle", "Assert", "WaitAck", "Clear"}
HomingPhase == {"Idle", "Motion", "ZeroAtCenter", "RestoreDisable",
                "RestoreMode", "RestoreEnable", "Done", "Failed"}
Exchange == {"ZeroAtCenter", "RestoreMode"}

\* Where a blocking request is suspended.
FiberPC == {"idle", "readFeedback", "prime", "stream", "faultReset",
            "awaitReady", "awaitSwitchedOn", "awaitEnabled",
            "homeDisable", "homeMode", "mode"}
\* The state each asks readFeedback for: enableDrive whether the drive is
\* enabled already, waitForDriveState for the state it waits for.
Awaited == [readFeedback    |-> "OperationEnabled",
            awaitReady      |-> "ReadyToSwitchOn",
            awaitSwitchedOn |-> "SwitchedOn",
            awaitEnabled    |-> "OperationEnabled",
            homeDisable     |-> "SwitchOnDisabled"]

Motor == [stop : StopPhase, enable : EnablePhase, setpoint : SetpointPhase,
          homing : HomingPhase, inFlight : BOOLEAN,
          restoreMode : Mode, restoreOn : BOOLEAN,
          cyclic : BOOLEAN, want : BOOLEAN, recover : BOOLEAN,
          loss : BOOLEAN, seen : BOOLEAN, stale : BOOLEAN,
          state : State, mode : Mode, cw : Controlword]

\* `snap` is what the code goes on to ask of the state readFeedback returned
\* (is it the awaited one, or a fault), "asleep" before the read; `home` says
\* the request is requestHoming; `n` counts SYNC cycles.
Snap == {"asleep", "awaited", "fault", "other"}
Fiber == [pc : FiberPC, snap : Snap, home : BOOLEAN, n : 0 .. PrimeCycles]
Idle == [pc |-> "idle", snap |-> "asleep", home |-> FALSE, n |-> 0]

Drive == [state : State \ {"Unknown"}, mode : Mode, bit7 : BOOLEAN,
          booted : BOOLEAN]

TypeOK ==
    /\ motor \in Motor
    /\ fibers \in [Fibers -> Fiber]
    /\ exchanges \in [Exchange -> 0 .. MaxExchanges]
    /\ wire \in Controlword
    /\ tpdo \in [state : State, mode : Mode]
    /\ drive \in Drive

\* A drive that has lost its supply: in the mode its configuration or its NVM
\* selects, and not booted yet.
Started ==
    [state : {"SwitchOnDisabled", "Fault"}, mode : Modes, bit7 : {FALSE}, booted : {FALSE}]

Init ==
    /\ motor = [stop |-> "None", enable |-> "Idle", setpoint |-> "Idle",
                homing |-> "Idle", inFlight |-> FALSE,
                restoreMode |-> "csp", restoreOn |-> FALSE,
                cyclic |-> FALSE, want |-> BootEnables, recover |-> FALSE,
                loss |-> FALSE, seen |-> FALSE, stale |-> FALSE,
                state |-> "Unknown", mode |-> "csp", cw |-> disable_voltage]
    /\ exchanges = [x \in Exchange |-> 0]
    /\ wire = disable_voltage
    /\ tpdo = [state |-> "Unknown", mode |-> "csp"]
    /\ drive \in Started
    /\ fibers = [f \in Fibers |-> Idle]
-----------------------------------------------------------------------------
(* The members' own operations: each maps the object to the object.        *)

HomingActive(m) == m.homing \notin {"Idle", "Done", "Failed"}
Sequencing(m) == m.enable # "Idle" \/ m.setpoint # "Idle" \/ HomingActive(m)
isDriveDeEnergized(m) == m.state \in DeEnergized
feedbackStale(m) == m.seen /\ m.stale

requestGracefulStop(m) ==
    CASE m.stop # "None" -> m
      [] m.stop = "None" /\ ~m.cyclic ->
             [m EXCEPT !.want = FALSE, !.stop = "Done"]
      [] OTHER ->
             [m EXCEPT !.want = FALSE, !.stop = "DisableVoltage",
                       !.cw = disable_voltage]

failHoming(m) ==
    [m EXCEPT !.cw = enable_operation, !.homing = "Failed"]

\* Mutant: the recovery ladder survives the quick stop.
requestQuickStop_KeepsLadder(m) ==
    IF m.stop = "DisableVoltage" \/ ~m.cyclic THEN m
    ELSE [m EXCEPT !.setpoint = "Idle", !.cw = quick_stop]

requestQuickStop(m) ==
    IF m.stop = "DisableVoltage" \/ ~m.cyclic THEN m
    ELSE [m EXCEPT !.setpoint = "Idle", !.enable = "Idle",
                   !.homing = IF HomingActive(m) THEN "Failed" ELSE @,
                   !.cw = quick_stop]

\* Mutant: a reset always recovers to operation enabled.
requestFaultReset_AlwaysEnables(m) ==
    IF m.stop # "None" THEN m
    ELSE [m EXCEPT !.recover = TRUE, !.cyclic = TRUE, !.enable = "FaultReset"]

requestFaultReset(m) ==
    IF m.stop # "None" THEN m
    ELSE [m EXCEPT !.recover = m.want, !.cyclic = TRUE,
                   !.enable = "FaultReset"]

requestProfileMove(m) == [m EXCEPT !.setpoint = "Assert"]

handleNodeLoss(m, lost) ==
    LET heard == [m EXCEPT !.loss = lost]
    IN  IF lost /\ m.cyclic /\ m.stop = "None"
        THEN requestGracefulStop(heard) ELSE heard

\* Mutants: no deadline; a quick stop in place of disable-voltage; and streaming
\* that goes on after the stop.
advanceGracefulStop_NoDeadline(m, late) ==
    LET held == [m EXCEPT !.cw = disable_voltage]
    IN  IF isDriveDeEnergized(m)
        THEN [held EXCEPT !.stop = "Done", !.cyclic = FALSE] ELSE held
advanceGracefulStop_Ramps(m, late) ==
    LET held == [m EXCEPT !.cw = quick_stop]
    IN  IF isDriveDeEnergized(m) \/ late
        THEN [held EXCEPT !.stop = "Done", !.cyclic = FALSE] ELSE held
advanceGracefulStop_KeepsStreaming(m, late) ==
    LET held == [m EXCEPT !.cw = disable_voltage]
    IN  IF isDriveDeEnergized(m) \/ late THEN [held EXCEPT !.stop = "Done"] ELSE held

advanceGracefulStop(m, late) ==
    LET held == [m EXCEPT !.cw = disable_voltage]
    IN  IF isDriveDeEnergized(m) \/ late
        THEN [held EXCEPT !.stop = "Done", !.cyclic = FALSE] ELSE held

(* ------------------------ the fault-recovery ladder -------------------- *)
LadderWord == [FaultReset |-> fault_reset, Shutdown |-> shutdown,
               SwitchOn |-> switch_on, EnableOp |-> enable_operation]
LadderNext == [FaultReset |-> "Shutdown", Shutdown |-> "SwitchOn",
               SwitchOn |-> "EnableOp", EnableOp |-> "Idle"]
\* The reported states that complete a phase.
LadderGoal ==
    [FaultReset |-> State \ FaultStates,
     Shutdown   |-> {"ReadyToSwitchOn", "SwitchedOn", "OperationEnabled"},
     SwitchOn   |-> {"SwitchedOn", "OperationEnabled"},
     EnableOp   |-> {"OperationEnabled"}]

LadderFail(m) == [m EXCEPT !.cw = disable_voltage, !.enable = "Idle"]

LadderEnter(m, phase) ==
    IF phase = "Idle" THEN [m EXCEPT !.cw = enable_operation, !.enable = "Idle"]
    ELSE [m EXCEPT !.cw = LadderWord[phase], !.enable = phase]

\* Mutants: no deadline; and a reset that walks up whatever the intent.
advanceEnableLadder_NoDeadline(m, late) ==
    CASE m.enable # "FaultReset" /\ m.state \in FaultStates -> LadderFail(m)
      [] m.state \in LadderGoal[m.enable] ->
             IF m.enable = "FaultReset" /\ ~m.recover
             THEN [m EXCEPT !.cw = shutdown, !.enable = "Idle"]
             ELSE LadderEnter(m, LadderNext[m.enable])
      [] OTHER -> [m EXCEPT !.cw = LadderWord[m.enable]]
advanceEnableLadder_IgnoresIntent(m, late) ==
    CASE m.state \in LadderGoal[m.enable] -> LadderEnter(m, LadderNext[m.enable])
      [] late -> LadderFail(m)
      [] OTHER -> [m EXCEPT !.cw = LadderWord[m.enable]]

advanceEnableLadder(m, late) ==
    CASE m.enable # "FaultReset" /\ m.state \in FaultStates -> LadderFail(m)
      [] m.state \in LadderGoal[m.enable] ->
             IF m.enable = "FaultReset" /\ ~m.recover
             THEN [m EXCEPT !.cw = shutdown, !.enable = "Idle"]
             ELSE LadderEnter(m, LadderNext[m.enable])
      [] m.state \notin LadderGoal[m.enable] /\ late -> LadderFail(m)
      [] OTHER -> [m EXCEPT !.cw = LadderWord[m.enable]]

(* ----------------------------- homing ---------------------------------- *)
CsvPhase == {"Motion", "ZeroAtCenter"}

\* Mutant: homing never times out.
HomingAborts_NoTimeout(m, late) ==
    \/ m.state \in FaultStates
    \/ m.homing \in CsvPhase /\ (m.state # "OperationEnabled" \/ m.mode # "csv")

HomingAborts(m, late) ==
    \/ m.state \in FaultStates
    \/ m.homing \in CsvPhase /\ (m.state # "OperationEnabled" \/ m.mode # "csv")
    \/ late

\* Mutant: the exchange in flight is forgotten.
HomingSuspends_Reentrant(m, late) == m.homing \in Exchange /\ ~HomingAborts(m, late)

\* The phases that end in an SDO exchange suspend OnSync in it.
HomingSuspends(m, late) ==
    /\ m.homing \in Exchange
    /\ ~m.inFlight
    /\ ~HomingAborts(m, late)

\* The objects a step of the other phases may leave.  Searching may go on,
\* reach the settled centre, or fail on travel; leaving the old mode may
\* only succeed once the drive reports its power stage off; the ladder has
\* finished by the time RestoreEnable runs again.
HomingProgress(m) ==
    LET on == [m EXCEPT !.cw = enable_operation]
        off == [m EXCEPT !.cw = disable_voltage]
    IN  CASE m.homing = "Motion" ->
                 {on, [on EXCEPT !.homing = "ZeroAtCenter"], failHoming(m)}
          [] m.homing = "RestoreDisable" ->
                 {IF ~isDriveDeEnergized(m) THEN off
                  ELSE IF m.restoreMode # "csv"
                  THEN [off EXCEPT !.homing = "RestoreMode"]
                  ELSE [off EXCEPT !.homing = "Done", !.cyclic = m.restoreOn]}
          [] m.homing = "RestoreEnable" ->
                 {IF m.state = "OperationEnabled"
                  THEN [on EXCEPT !.homing = "Done"] ELSE failHoming(m)}
          \* requestOperationMode refuses an axis that is moving
          [] m.homing = "RestoreMode" /\ m.state = "OperationEnabled" -> {failHoming(m)}
          [] OTHER -> {}

advanceHoming(m, late) ==
    CASE m.inFlight -> {m}
      [] ~m.inFlight /\ HomingAborts(m, late) -> {failHoming(m)}
      [] OTHER -> HomingProgress(m)

\* Mutant: the old mode is restored without dropping the power stage first.
ZeroReturns_Powered(m) ==
    [m EXCEPT !.inFlight = FALSE,
              !.homing = IF m.restoreMode = "csv" /\ m.restoreOn THEN "Done" ELSE "RestoreMode"]

\* OnSync resumes with the answer of the exchange.
ZeroReturns(m) ==
    IF m.restoreMode = "csv" /\ m.restoreOn
    THEN [m EXCEPT !.inFlight = FALSE, !.homing = "Done"]
    ELSE [m EXCEPT !.inFlight = FALSE, !.homing = "RestoreDisable",
                   !.cw = disable_voltage]
RestoreModeReturns(m) ==
    IF m.restoreOn
    THEN [m EXCEPT !.inFlight = FALSE, !.cyclic = TRUE, !.cw = shutdown,
                   !.enable = "Shutdown", !.homing = "RestoreEnable"]
    ELSE [m EXCEPT !.inFlight = FALSE, !.cyclic = FALSE, !.homing = "Done"]

startHoming(m) ==
    [m EXCEPT !.homing = "Motion", !.cw = enable_operation]

(* --------------------- Profile Position handshake ----------------------- *)
\* What statusword bit 12 allows next.
SetpointNext == [Assert |-> {"WaitAck"}, WaitAck |-> {"WaitAck", "Clear"},
                 Clear |-> {"Clear", "Idle"}]

advanceProfileSetpoint(m) ==
    {[m EXCEPT !.setpoint = next,
               !.cw = IF m.setpoint = "Clear" THEN enable_operation
                      ELSE new_setpoint_edge] : next \in SetpointNext[m.setpoint]}
-----------------------------------------------------------------------------
(* OnSync.                                                                 *)

RefreshFeedback(m) ==
    IF m.seen THEN [m EXCEPT !.state = tpdo.state, !.mode = tpdo.mode] ELSE m

\* Mutant: the watchdog is not consulted while the ladder runs.
Watchdog_NotInLadder(m) ==
    IF m.cyclic /\ m.stop = "None" /\ feedbackStale(m) /\ m.enable = "Idle"
       /\ ~HomingActive(m) THEN requestGracefulStop(m) ELSE m

Watchdog(m) ==
    IF ~(m.cyclic /\ m.stop = "None" /\ feedbackStale(m)) THEN m
    ELSE IF HomingActive(m) THEN failHoming(m)
    ELSE IF m.homing = "Failed" THEN m   \* only zeroes the velocity target
    ELSE requestGracefulStop(m)

\* Exactly one controlword driver runs per cycle, in priority order.
StopTurn(m) == m.stop = "DisableVoltage"
LadderTurn(m) == ~StopTurn(m) /\ m.enable # "Idle"
HomingTurn(m) == ~StopTurn(m) /\ ~LadderTurn(m) /\ HomingActive(m)

\* Mutant: the ladder is asked before the stop.
Advance_LadderFirst(m, late) ==
    CASE m.enable # "Idle" -> {advanceEnableLadder(m, late)}
      [] m.enable = "Idle" /\ StopTurn(m) -> {advanceGracefulStop(m, late)}
      [] HomingTurn(m) -> advanceHoming(m, late)
      [] m.enable = "Idle" /\ ~StopTurn(m) /\ ~HomingActive(m) /\ m.setpoint # "Idle"
           -> advanceProfileSetpoint(m)
      [] OTHER -> {m}

\* `late`: the deadline of the one whose turn it is has passed.
Advance(m, late) ==
    CASE StopTurn(m) -> {advanceGracefulStop(m, late)}
      [] LadderTurn(m) -> {advanceEnableLadder(m, late)}
      [] HomingTurn(m) -> advanceHoming(m, late)
      [] ~StopTurn(m) /\ ~LadderTurn(m) /\ ~HomingTurn(m)
         /\ m.setpoint # "Idle" -> advanceProfileSetpoint(m)
      [] OTHER -> {m}

\* The requests waiting for SYNC cycles to pass see this one.
CountSync ==
    fibers' = [f \in Fibers |->
        IF fibers[f].pc = "stream" /\ fibers[f].n < PrimeCycles
        THEN [fibers[f] EXCEPT !.n = @ + 1] ELSE fibers[f]]

OnSyncAt(late) ==
    LET m == Watchdog(RefreshFeedback(motor))
    IN  /\ \/ ~m.cyclic /\ motor' = m /\ UNCHANGED wire
           \/ m.cyclic /\ \E next \in Advance(m, late) : motor' = next /\ wire' = next.cw
        /\ CountSync
        /\ UNCHANGED <<exchanges, tpdo, drive>>
OnSync == \E late \in BOOLEAN : OnSyncAt(late)

\* OnSync suspends in homing's SDO exchange, before it emits the image.
OnSyncSuspends ==
    LET m == Watchdog(RefreshFeedback(motor))
    IN  /\ m.cyclic /\ HomingTurn(m) /\ HomingSuspends(m, FALSE)
        /\ exchanges[m.homing] < MaxExchanges
        /\ motor' = [m EXCEPT !.cw = enable_operation, !.inFlight = TRUE]
        /\ exchanges' = [exchanges EXCEPT ![m.homing] = @ + 1]
        /\ CountSync
        \* firmware may accept the write of 0x6060 and silently ignore it
        /\ \/ UNCHANGED drive
           \/ m.homing = "RestoreMode" /\ drive' = [drive EXCEPT !.mode = m.restoreMode]
        /\ UNCHANGED <<wire, tpdo>>

\* The exchange ends, in an answer or in an SDO abort; OnSync emits the image.
ExchangeReturns(x) ==
    /\ exchanges[x] > 0
    /\ exchanges' = [exchanges EXCEPT ![x] = @ - 1]
    /\ \/ x = "ZeroAtCenter" /\ motor' = ZeroReturns(motor)
       \/ x = "RestoreMode" /\ motor' = RestoreModeReturns(motor)
       \/ motor' = [failHoming(motor) EXCEPT !.inFlight = FALSE]
    /\ wire' = motor'.cw
    /\ UNCHANGED <<fibers, tpdo, drive>>
-----------------------------------------------------------------------------
(* The requests.  A request that does not block is one step.               *)

Suspended(f) == fibers[f].pc # "idle"
\* An application that waits makes no request before the boot, and none while
\* another blocks or the boot's enable is under way.
MayCall(r) ==
    r \in Requests /\ (SingleCaller => drive.booted /\ \A f \in Fibers : ~Suspended(f))

Immediate(r, m) ==
    /\ MayCall(r)
    /\ motor' = m
    /\ UNCHANGED <<fibers, exchanges, wire, tpdo, drive>>

Stop == Immediate("stop", requestGracefulStop(motor))
QuickStop == Immediate("quickStop", requestQuickStop(motor))
ResetFault == Immediate("resetFault", requestFaultReset(motor))
Move == Immediate("move", requestProfileMove(motor))

\* A blocking request occupies a fiber until it returns or throws.
Start(f, r, m, fiber) ==
    /\ MayCall(r) /\ ~Suspended(f)
    /\ motor' = m
    /\ fibers' = [fibers EXCEPT ![f] = fiber]
    /\ UNCHANGED <<exchanges, wire, tpdo, drive>>

Entering(home) == [Idle EXCEPT !.pc = "readFeedback", !.home = home]

\* Mutant: a stop in progress does not refuse the request.
requestEnableOperation_DuringStop(f) ==
    Start(f, "enable", [motor EXCEPT !.stop = "None", !.want = TRUE], Entering(FALSE))

requestEnableOperation(f) ==
    /\ motor.stop # "DisableVoltage"
    /\ Start(f, "enable", [motor EXCEPT !.stop = "None", !.want = TRUE],
             Entering(FALSE))

\* requestOperationMode refuses an axis that is moving; the confirmation
\* loop that follows the exchange only reads.
requestOperationMode(f) == Start(f, "mode", motor, [Idle EXCEPT !.pc = "mode"])

requestHoming(f) ==
    LET m == [motor EXCEPT !.restoreMode = motor.mode,
                           !.restoreOn = motor.state = "OperationEnabled"]
        At(pc) == [Idle EXCEPT !.pc = pc, !.home = TRUE]
    IN  /\ motor.stop # "DisableVoltage" /\ ~Sequencing(motor)
        /\ \/ /\ m.mode = "csv" /\ m.state = "OperationEnabled"
              /\ Immediate("homing", startHoming(m))
           \/ /\ m.mode = "csv" /\ m.state # "OperationEnabled"
              /\ Start(f, "homing", m, Entering(TRUE))
           \/ /\ m.mode # "csv" /\ isDriveDeEnergized(m)
              /\ Start(f, "homing", m, At("homeMode"))
           \/ /\ m.mode # "csv" /\ ~isDriveDeEnergized(m)
              /\ Start(f, "homing", [m EXCEPT !.cw = disable_voltage],
                       At("homeDisable"))
-----------------------------------------------------------------------------
(* The fibers of blocking requests, from one suspension to the next.       *)

Resume(f, m, fiber) ==
    /\ motor' = m
    /\ fibers' = [fibers EXCEPT ![f] = fiber]
    /\ UNCHANGED <<exchanges, wire, tpdo>>

\* The statusword comes from the image, over SDO until a frame was received.
StatusRead == IF motor.seen THEN motor.state ELSE drive.state
Compare(state, awaited) ==
    IF state = awaited THEN "awaited" ELSE IF state \in FaultStates THEN "fault" ELSE "other"

\* readFeedback takes the state, then suspends reading the error code, which
\* the profile maps into no PDO.
Poll(f) ==
    /\ fibers[f].pc \in DOMAIN Awaited /\ fibers[f].snap = "asleep"
    /\ Resume(f, motor, [fibers[f] EXCEPT
                           !.snap = Compare(StatusRead, Awaited[fibers[f].pc])])
    /\ UNCHANGED drive

\* A wait or an exchange ends in an exception: an SDO abort, the deadline, a
\* fault or error code the drive reports, a stop.  Nothing is undone.
Throw(f) ==
    /\ Suspended(f) /\ fibers[f].pc \notin {"prime", "faultReset"}
    /\ Resume(f, motor, Idle)
    /\ UNCHANGED drive

\* enableDrive returns to requestHoming, which starts the search.
Enabled(f, m) == Resume(f, IF fibers[f].home THEN startHoming(m) ELSE m, Idle)

At(f, pc) == fibers[f].pc = pc
Go(f, pc) == [fibers[f] EXCEPT !.pc = pc, !.snap = "asleep", !.n = 0]

\* The error code is read after the state, and 0; primeCommandImage zeroes the
\* image, then reads the position over SDO.
ImageZeroed(f) ==
    /\ At(f, "readFeedback") /\ fibers[f].snap \in {"awaited", "other"}
    /\ Resume(f, [motor EXCEPT !.cw = disable_voltage],
              [fibers[f] EXCEPT !.pc = "prime"])
    /\ UNCHANGED drive

ImagePrimed(f) ==
    /\ At(f, "prime")
    /\ Resume(f, [motor EXCEPT !.cw = shutdown, !.cyclic = TRUE],
              [fibers[f] EXCEPT !.pc = "stream", !.n = 0])
    /\ UNCHANGED drive

\* Enough cycles have passed; `snap` is the state from before the streaming.
ImageStreamed(f) ==
    /\ At(f, "stream") /\ fibers[f].n = PrimeCycles
    /\ \/ /\ fibers[f].snap = "awaited"
          /\ Enabled(f, [motor EXCEPT !.cw = enable_operation])
       \/ /\ fibers[f].snap # "awaited"
          /\ Resume(f, [motor EXCEPT !.cw = fault_reset], Go(f, "faultReset"))
    /\ UNCHANGED drive

PulseEnds(f) ==
    /\ At(f, "faultReset")
    /\ Resume(f, [motor EXCEPT !.cw = shutdown], Go(f, "awaitReady"))
    /\ UNCHANGED drive

\* waitForDriveState compares the state of its last poll.
Waits == DOMAIN Awaited \ {"readFeedback"}

WaitAgain(f) ==
    /\ fibers[f].pc \in Waits /\ fibers[f].snap = "other"
    /\ motor.stop = "None"
    /\ Resume(f, motor, [fibers[f] EXCEPT !.snap = "asleep"])
    /\ UNCHANGED drive

WaitEnds(f) ==
    /\ fibers[f].pc \in Waits /\ fibers[f].snap = "awaited"
    /\ motor.stop = "None"
    /\ \/ /\ At(f, "awaitReady")
          /\ Resume(f, [motor EXCEPT !.cw = switch_on], Go(f, "awaitSwitchedOn"))
       \/ /\ At(f, "awaitSwitchedOn")
          /\ Resume(f, [motor EXCEPT !.cw = enable_operation], Go(f, "awaitEnabled"))
       \/ At(f, "awaitEnabled") /\ Enabled(f, motor)
       \/ At(f, "homeDisable") /\ Resume(f, motor, Go(f, "homeMode"))
    /\ UNCHANGED drive

\* 0x6060 is written; firmware may silently ignore the request.
ModeWritten(f) ==
    /\ fibers[f].pc \in {"mode", "homeMode"}
    /\ \E mode \in IF At(f, "mode") THEN Modes ELSE {"csv"} :
           drive' \in {drive, [drive EXCEPT !.mode = mode]}
    /\ \/ At(f, "mode") /\ Resume(f, motor, Idle)
       \/ /\ At(f, "homeMode")
          /\ IF motor.state = "OperationEnabled" /\ motor.mode = "csv"
             THEN Resume(f, startHoming(motor), Idle)
             ELSE Resume(f, motor, Go(f, "readFeedback"))

FiberStep(f) ==
    \/ Poll(f) \/ Throw(f) \/ ImageZeroed(f) \/ ImagePrimed(f) \/ ImageStreamed(f)
    \/ PulseEnds(f) \/ WaitAgain(f) \/ WaitEnds(f) \/ ModeWritten(f)
-----------------------------------------------------------------------------
(* The bus and the drive.                                                  *)

\* The node has booted; the boot action enables the drive, whatever has been
\* asked of the driver since the last boot.
OnBoot(f) ==
    /\ ~drive.booted /\ drive' = [drive EXCEPT !.booted = TRUE]
    /\ ~Suspended(f)
    /\ fibers' = IF BootEnables THEN [fibers EXCEPT ![f] = Entering(FALSE)] ELSE fibers
    /\ UNCHANGED <<motor, exchanges, wire, tpdo>>

\* A frame of the drive arrives; OnSync reads it later.
OnRpdoWrite ==
    /\ drive.booted
    /\ tpdo' = [state |-> drive.state, mode |-> drive.mode]
    /\ motor' = [motor EXCEPT !.seen = TRUE, !.stale = FALSE]
    /\ UNCHANGED <<fibers, exchanges, wire, drive>>

\* The drive executes the controlword it last received.
DriveStep ==
    /\ drive.booted
    /\ drive' = [drive EXCEPT
                   !.state = DriveNext(@, wire, Bit(wire, 7) /\ ~drive.bit7),
                   !.bit7 = Bit(wire, 7)]
    /\ UNCHANGED <<motor, fibers, exchanges, wire, tpdo>>

DriveFaults ==
    /\ "fault" \in Disturbances
    /\ drive.state \notin FaultStates
    /\ drive' = [drive EXCEPT !.state = "FaultReactionActive"]
    /\ UNCHANGED <<motor, fibers, exchanges, wire, tpdo>>

\* The drive loses its supply, and the driver keeps what it knows of it.
DriveRestarts ==
    /\ "restart" \in Disturbances
    /\ drive.booted /\ drive' \in Started
    /\ UNCHANGED <<motor, fibers, exchanges, wire, tpdo>>

OnHeartbeat ==
    /\ "nodeLoss" \in Disturbances
    /\ \E lost \in BOOLEAN \ {motor.loss} : motor' = handleNodeLoss(motor, lost)
    /\ UNCHANGED <<fibers, exchanges, wire, tpdo, drive>>

\* feedback_timeout has passed since the last frame.
Silence ==
    /\ "silence" \in Disturbances
    /\ motor.seen /\ ~motor.stale
    /\ motor' = [motor EXCEPT !.stale = TRUE]
    /\ UNCHANGED <<fibers, exchanges, wire, tpdo, drive>>
-----------------------------------------------------------------------------
OtherRequest ==
    \/ Stop \/ ResetFault \/ Move
    \/ \E f \in Fibers : \/ requestEnableOperation(f)
                        \/ requestOperationMode(f)
                        \/ requestHoming(f)
Request == QuickStop \/ OtherRequest

Boots == \E f \in Fibers : OnBoot(f)

\* What goes on without a request.
Runs ==
    \/ OnSync \/ OnSyncSuspends
    \/ \E x \in Exchange : ExchangeReturns(x)
    \/ \E f \in Fibers : FiberStep(f)
    \/ OnRpdoWrite \/ DriveStep \/ DriveFaults \/ DriveRestarts
    \/ OnHeartbeat \/ Silence

Next == Request \/ Boots \/ Runs

Spec == Init /\ [][Next]_vars

(***************************************************************************)
(* SYNC keeps coming and the steady clock keeps running whatever the drive *)
(* does: the master produces SYNC itself, a deadline that stays armed      *)
(* passes, and an SDO exchange ends in an answer or in the client's own    *)
(* timeout.                                                                *)
(***************************************************************************)
LoopFairness ==
    /\ WF_vars(OnSyncAt(TRUE)) /\ WF_vars(OnSyncSuspends)
    /\ \A x \in Exchange : WF_vars(ExchangeReturns(x))

\* A drive that is on the bus executes its controlword.
DriveFairness == WF_vars(DriveStep)

FairSpec == Spec /\ LoopFairness
LiveSpec == FairSpec /\ DriveFairness
-----------------------------------------------------------------------------
(* Properties of every application, without homing.                        *)

\* "A controlled shutdown always wins": once the drive hears disable-voltage
\* in a stop, no other controlword reaches the wire before the stop is done,
\* whichever requests, fibers and sequences are in progress.
ShutdownWins ==
    [][(motor.stop = "DisableVoltage" /\ motor'.stop = "DisableVoltage"
        /\ wire = disable_voltage) => wire' = disable_voltage]_vars

\* Fault recovery walks past the reset only when the intent it was asked
\* under was to run; what a stop leaves of a ladder is never resumed above it.
RecoverRespectsIntent ==
    motor.enable \in {"Shutdown", "SwitchOn", "EnableOp"} => motor.recover

(* Properties of an application that makes one request at a time.          *)

\* Until a stop has run, or after it, the drive hears an energising word only
\* if the application's last word was to enable: neither fault recovery nor
\* anything a stop interrupted brings the power back.
EnergisedByIntent ==
    Energising(wire) => motor.want \/ motor.stop = "DisableVoltage"

\* A stop that is done stays done: nothing streams, and the master goes on
\* repeating disable-voltage.
StoppedIsSilent ==
    motor.stop = "Done" => ~motor.cyclic /\ wire = disable_voltage

\* The driver keeps the promise of SafeStop.
Stopping == INSTANCE SafeStop WITH
    phase <- motor.stop,
    word <- IF wire = disable_voltage THEN "disable" ELSE "else"
KeepsSafeStop == Stopping!Spec

(* Liveness.                                                               *)

\* Every stop ends, even if the drive never reports its power stage off.
StopFinishes == (motor.stop = "DisableVoltage") ~> (motor.stop = "Done")

\* Every stop drops the power of a drive that listens, also when the stop
\* gave up waiting, unless a later request makes the driver stream again.
PowerRemoved ==
    (motor.stop = "DisableVoltage")
    ~> (~Energised(drive.state) \/ (motor.cyclic /\ motor.stop # "DisableVoltage"))

\* While commands stream, a drive that stays silent is stopped.
WatchdogTrips ==
    (motor.cyclic /\ motor.stale)
    ~> (motor.stop # "None" \/ ~motor.stale \/ ~motor.cyclic)

\* A recovery ladder ends, unless resets keep restarting it or the stream
\* it needs has been stopped.
LadderEnds == []<>(motor.enable = "Idle" \/ ~motor.cyclic) \/ []<><<ResetFault>>_vars

(* Homing.                                                                 *)

\* At most one OnSync waits in homing's SDO exchanges, so the zero is set and
\* stored once per homing.
OneExchange == exchanges["ZeroAtCenter"] + exchanges["RestoreMode"] <= 1

\* The previous mode is written back only while the drive is without power.
ModeRestoredUnpowered ==
    motor.homing = "RestoreMode" \/ exchanges["RestoreMode"] > 0
    => ~Energised(drive.state)

\* A homing that has its turn ends, done or failed.
HomingEnds ==
    HomingActive(motor) ~> (~HomingActive(motor) \/ ~motor.cyclic)
=============================================================================
