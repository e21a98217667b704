-------------------------- MODULE MotorDriverProofs --------------------------
(***************************************************************************)
(* Theorems about MotorDriver, for every set of requests, every number of  *)
(* fibers and every pattern of disturbances its assumption admits.         *)
(* First its types and its SDO exchanges; then what stop() guarantees, for *)
(* an application that does not home, and for one that also makes one      *)
(* request at a time; then quick stops and the end of a homing.            *)
(***************************************************************************)
EXTENDS QuickStopHold, TLAPS

(* --------------------- the operators keep the types -------------------- *)

LEMMA StopTypes ==
    ASSUME NEW m \in Motor, NEW late \in BOOLEAN
    PROVE  /\ requestGracefulStop(m) \in Motor
           /\ advanceGracefulStop(m, late) \in Motor
           /\ handleNodeLoss(m, late) \in Motor
<1>1. requestGracefulStop(m) \in Motor
  BY ZenonT(60) DEF requestGracefulStop, Motor, StopPhase, Controlword
<1>2. advanceGracefulStop(m, late) \in Motor
  BY ZenonT(60) DEF advanceGracefulStop, Motor, StopPhase, Controlword
<1>3. handleNodeLoss(m, late) \in Motor
  <2> DEFINE heard == [m EXCEPT !.loss = late]
  <2>1. heard \in Motor
    BY ZenonT(60) DEF Motor
  <2>2. requestGracefulStop(heard) \in Motor
    BY <2>1, ZenonT(60) DEF requestGracefulStop, Motor, StopPhase, Controlword
  <2>3. QED
    BY <2>1, <2>2 DEF handleNodeLoss
<1>4. QED
  BY <1>1, <1>2, <1>3

LEMMA RequestTypes ==
    ASSUME NEW m \in Motor
    PROVE  /\ requestQuickStop(m) \in Motor
           /\ requestFaultReset(m) \in Motor
           /\ requestProfileMove(m) \in Motor
<1>1. requestQuickStop(m) \in Motor
  <2>1. ASSUME NEW phase \in HomingPhase
        PROVE  [m EXCEPT !.setpoint = "Idle", !.enable = "Idle",
                         !.homing = phase, !.cw = quick_stop] \in Motor
    BY ZenonT(60) DEF Motor, Controlword, EnablePhase, SetpointPhase
  <2>2. (IF HomingActive(m) THEN "Failed" ELSE m.homing) \in HomingPhase
    BY DEF Motor, HomingPhase
  <2>3. QED
    BY <2>1, <2>2 DEF requestQuickStop
<1>2. requestFaultReset(m) \in Motor
  BY ZenonT(60) DEF requestFaultReset, Motor, EnablePhase
<1>3. requestProfileMove(m) \in Motor
  BY DEF requestProfileMove, Motor, SetpointPhase
<1>4. QED
  BY <1>1, <1>2, <1>3

LEMMA HomingStepTypes ==
    ASSUME NEW m \in Motor
    PROVE  /\ failHoming(m) \in Motor
           /\ startHoming(m) \in Motor
           /\ ZeroReturns(m) \in Motor
           /\ RestoreModeReturns(m) \in Motor
<1>1. failHoming(m) \in Motor /\ startHoming(m) \in Motor
  BY ZenonT(60) DEF failHoming, startHoming, Motor, HomingPhase, Controlword
<1>2. ZeroReturns(m) \in Motor
  BY ZenonT(60) DEF ZeroReturns, Motor, HomingPhase, Controlword
<1>3. RestoreModeReturns(m) \in Motor
  BY ZenonT(60) DEF RestoreModeReturns, Motor, HomingPhase, Controlword, EnablePhase
<1>4. QED
  BY <1>1, <1>2, <1>3

LEMMA LadderTypes ==
    ASSUME NEW m \in Motor, NEW late \in BOOLEAN, m.enable # "Idle"
    PROVE  advanceEnableLadder(m, late) \in Motor
<1>1. LadderFail(m) \in Motor
  BY DEF LadderFail, Motor, Controlword, EnablePhase
<1>2. m.enable \in {"FaultReset", "Shutdown", "SwitchOn", "EnableOp"}
  BY DEF Motor, EnablePhase
<1>3. LadderWord[m.enable] \in Controlword /\ LadderNext[m.enable] \in EnablePhase
  BY <1>2 DEF LadderWord, LadderNext, Controlword, EnablePhase
<1>4. ASSUME NEW phase \in EnablePhase
      PROVE  LadderEnter(m, phase) \in Motor
  <2>1. CASE phase = "Idle"
    BY <2>1 DEF LadderEnter, Motor, Controlword, EnablePhase
  <2>2. CASE phase # "Idle"
    <3>1. LadderWord[phase] \in Controlword
      BY <2>2 DEF LadderWord, Controlword, EnablePhase
    <3>2. QED
      BY <2>2, <3>1 DEF LadderEnter, Motor
  <2>3. QED
    BY <2>1, <2>2
<1>5. [m EXCEPT !.cw = LadderWord[m.enable]] \in Motor
  BY <1>3 DEF Motor
<1>6. [m EXCEPT !.cw = shutdown, !.enable = "Idle"] \in Motor
  BY DEF Motor, Controlword, EnablePhase
<1>7. LadderEnter(m, LadderNext[m.enable]) \in Motor
  BY <1>3, <1>4
<1>8. QED
  BY <1>1, <1>5, <1>6, <1>7 DEF advanceEnableLadder

LEMMA HomingTypes ==
    ASSUME NEW m \in Motor, NEW late \in BOOLEAN
    PROVE  advanceHoming(m, late) \subseteq Motor
<1> DEFINE on == [m EXCEPT !.cw = enable_operation]
           off == [m EXCEPT !.cw = disable_voltage]
<1>1. failHoming(m) \in Motor
  BY HomingStepTypes
<1>2. on \in Motor /\ off \in Motor
  BY DEF Motor, Controlword
<1>3. /\ [on EXCEPT !.homing = "ZeroAtCenter"] \in Motor
      /\ [on EXCEPT !.homing = "Done"] \in Motor
      /\ [off EXCEPT !.homing = "RestoreMode"] \in Motor
      /\ [off EXCEPT !.homing = "Done", !.cyclic = m.restoreOn] \in Motor
  BY DEF Motor, Controlword, HomingPhase
<1>4. HomingProgress(m) \subseteq Motor
  BY <1>1, <1>2, <1>3 DEF HomingProgress
<1>5. QED
  BY <1>1, <1>4 DEF advanceHoming

LEMMA SetpointTypes ==
    ASSUME NEW m \in Motor, m.setpoint # "Idle"
    PROVE  advanceProfileSetpoint(m) \subseteq Motor
<1>1. m.setpoint \in {"Assert", "WaitAck", "Clear"}
  BY DEF Motor, SetpointPhase
<1>2. SetpointNext[m.setpoint] \subseteq SetpointPhase
  BY <1>1 DEF SetpointNext, SetpointPhase
<1>3. ASSUME NEW next \in SetpointPhase, NEW cw \in Controlword
      PROVE  [m EXCEPT !.setpoint = next, !.cw = cw] \in Motor
  BY DEF Motor
<1>4. enable_operation \in Controlword /\ new_setpoint_edge \in Controlword
  BY DEF Controlword
<1>5. SUFFICES ASSUME NEW next \in SetpointNext[m.setpoint],
                      NEW cw \in {enable_operation, new_setpoint_edge}
               PROVE  [m EXCEPT !.setpoint = next, !.cw = cw] \in Motor
  BY DEF advanceProfileSetpoint
<1>6. QED
  BY <1>2, <1>3, <1>4

LEMMA AdvanceTypes ==
    ASSUME NEW m \in Motor, NEW late \in BOOLEAN
    PROVE  Advance(m, late) \subseteq Motor
<1>1. advanceGracefulStop(m, late) \in Motor
  BY StopTypes
<1>2. LadderTurn(m) => advanceEnableLadder(m, late) \in Motor
  BY LadderTypes DEF LadderTurn
<1>3. advanceHoming(m, late) \subseteq Motor
  BY HomingTypes
<1>4. m.setpoint # "Idle" => advanceProfileSetpoint(m) \subseteq Motor
  BY SetpointTypes
<1>5. QED
  BY <1>1, <1>2, <1>3, <1>4 DEF Advance

LEMMA OnSyncTypes ==
    ASSUME NEW m \in Motor, TypeOK
    PROVE  /\ RefreshFeedback(m) \in Motor
           /\ Watchdog(m) \in Motor
<1>1. tpdo.state \in State /\ tpdo.mode \in Mode
  BY DEF TypeOK
<1>2. RefreshFeedback(m) \in Motor
  BY <1>1 DEF RefreshFeedback, Motor
<1>3. Watchdog(m) \in Motor
  BY HomingStepTypes, StopTypes DEF Watchdog
<1>4. QED
  BY <1>2, <1>3

\* A controlword moves the drive from a real state to a real state.
LEMMA DriveStays ==
    ASSUME NEW s \in State \ {"Unknown"}, NEW cw, NEW edge \in BOOLEAN
    PROVE  DriveNext(s, cw, edge) \in State \ {"Unknown"}
<1> DEFINE On(t) == t[1] = s /\ t[2] = Command(cw)
<1>1. \A t \in Transitions : t[3] \in State \ {"Unknown"}
  <2>1. \A t \in Transitions :
            \E a, b : \/ t = <<a, b, "SwitchOnDisabled">>
                     \/ t = <<a, b, "ReadyToSwitchOn">>
                     \/ t = <<a, b, "SwitchedOn">>
                     \/ t = <<a, b, "OperationEnabled">>
                     \/ t = <<a, b, "QuickStopActive">>
    BY DEF Transitions
  <2>2. QED
    BY <2>1 DEF State
<1>2. ASSUME \E t \in Transitions : On(t)
      PROVE  (CHOOSE t \in Transitions : On(t))[3] \in State \ {"Unknown"}
  BY <1>1, <1>2
<1>3. {"SwitchOnDisabled", "Fault"} \subseteq State \ {"Unknown"}
  BY DEF State
<1>4. QED
  BY <1>2, <1>3 DEF DriveNext

-----------------------------------------------------------------------------
(* -------------------------- type correctness ---------------------------- *)

LEMMA IdleTypes ==
    ASSUME NEW pc \in FiberPC, NEW home \in BOOLEAN
    PROVE  /\ Idle \in Fiber
           /\ [Idle EXCEPT !.pc = pc] \in Fiber
           /\ [Idle EXCEPT !.pc = pc, !.home = home] \in Fiber
           /\ Entering(home) \in Fiber
<1>1. PrimeCycles \in Nat
  BY MotorDriverAssumption
<1>2. 0 \in 0 .. PrimeCycles /\ "asleep" \in Snap /\ "idle" \in FiberPC
  BY <1>1 DEF Snap, FiberPC
<1>3. "readFeedback" \in FiberPC
  BY DEF FiberPC
<1>4. QED
  BY <1>2, <1>3 DEF Idle, Fiber, Entering

LEMMA InitTypes == Init => TypeOK
<1> SUFFICES ASSUME Init PROVE TypeOK
  OBVIOUS
<1>1. motor \in Motor
  BY MotorDriverAssumption DEF Init, Motor, StopPhase, EnablePhase, SetpointPhase,
     HomingPhase, Mode, State, Controlword
<1>2. Idle \in Fiber
  BY IdleTypes DEF FiberPC
<1>3. fibers \in [Fibers -> Fiber]
  BY <1>2 DEF Init
<1>4. exchanges \in [Exchange -> 0 .. MaxExchanges]
  BY MotorDriverAssumption DEF Init
<1>5. wire \in Controlword /\ tpdo \in [state : State, mode : Mode]
  BY DEF Init, Controlword, State, Mode
<1>6. drive \in Drive
  BY MotorDriverAssumption DEF Init, Started, Drive, State, Mode
<1>7. QED
  BY <1>1, <1>3, <1>4, <1>5, <1>6 DEF TypeOK

LEMMA SyncStepTypes ==
    ASSUME TypeOK, OnSync \/ OnSyncSuspends \/ \E x \in Exchange : ExchangeReturns(x)
    PROVE  TypeOK'
<1> DEFINE m == Watchdog(RefreshFeedback(motor))
<1>1. m \in Motor
  BY OnSyncTypes DEF TypeOK
<1>2. CountSync => fibers' \in [Fibers -> Fiber]
  BY MotorDriverAssumption DEF CountSync, TypeOK, Fiber
<1>3. CASE OnSync
  <2>1. PICK late \in BOOLEAN : OnSyncAt(late)
    BY <1>3 DEF OnSync
  <2>2. Advance(m, late) \subseteq Motor
    BY <1>1, AdvanceTypes
  <2>3. motor' \in Motor /\ wire' \in Controlword
    BY <1>1, <2>1, <2>2 DEF OnSyncAt, TypeOK, Motor
  <2>4. QED
    BY <1>2, <2>1, <2>3 DEF OnSyncAt, TypeOK
<1>4. CASE OnSyncSuspends
  <2>1. m.homing \in Exchange
    BY <1>4 DEF OnSyncSuspends, HomingSuspends
  <2>2. exchanges' \in [Exchange -> 0 .. MaxExchanges]
    BY <1>4, <2>1, MotorDriverAssumption DEF OnSyncSuspends, TypeOK
  <2>3. motor' \in Motor
    BY <1>1, <1>4, ZenonT(60) DEF OnSyncSuspends, Motor, Controlword
  <2>4. drive' \in Drive
    BY <1>1, <1>4, ZenonT(60) DEF OnSyncSuspends, TypeOK, Drive, Motor
  <2>5. QED
    BY <1>2, <1>4, <2>2, <2>3, <2>4, ZenonT(60) DEF OnSyncSuspends, TypeOK
<1>5. ASSUME NEW x \in Exchange, ExchangeReturns(x)
      PROVE  TypeOK'
  <2>1. failHoming(motor) \in Motor
    BY HomingStepTypes DEF TypeOK
  <2>2. [failHoming(motor) EXCEPT !.inFlight = FALSE] \in Motor
    BY <2>1 DEF Motor
  <2>3. motor' \in Motor /\ wire' \in Controlword
    <3>1. ZeroReturns(motor) \in Motor /\ RestoreModeReturns(motor) \in Motor
      BY HomingStepTypes DEF TypeOK
    <3>2. motor' \in Motor /\ wire' = motor'.cw
      BY <1>5, <2>2, <3>1 DEF ExchangeReturns
    <3>3. QED
      BY <3>2 DEF Motor
  <2>4. exchanges' \in [Exchange -> 0 .. MaxExchanges]
    BY <1>5, MotorDriverAssumption DEF ExchangeReturns, TypeOK
  <2>5. QED
    BY <1>5, <2>3, <2>4, ZenonT(60) DEF ExchangeReturns, TypeOK
<1>6. QED
  BY <1>3, <1>4, <1>5

LEMMA RequestStepTypes == ASSUME TypeOK, Request PROVE TypeOK'
<1>1. motor \in Motor
  BY DEF TypeOK
<1>2. ASSUME NEW r, NEW m \in Motor, Immediate(r, m) PROVE TypeOK'
  BY <1>2 DEF Immediate, TypeOK
<1>3. ASSUME NEW f \in Fibers, NEW r, NEW m \in Motor, NEW fiber \in Fiber,
             Start(f, r, m, fiber)
      PROVE  TypeOK'
  BY <1>3 DEF Start, TypeOK
<1>4. CASE Stop \/ QuickStop \/ ResetFault \/ Move
  BY <1>1, <1>2, <1>4, StopTypes, RequestTypes DEF Stop, QuickStop, ResetFault, Move
<1>5. ASSUME NEW f \in Fibers, requestEnableOperation(f) PROVE TypeOK'
  <2>1. [motor EXCEPT !.stop = "None", !.want = TRUE] \in Motor
    BY <1>1 DEF Motor, StopPhase
  <2>2. Entering(FALSE) \in Fiber
    BY IdleTypes DEF FiberPC
  <2>3. QED
    BY <1>3, <1>5, <2>1, <2>2 DEF requestEnableOperation
<1>6. ASSUME NEW f \in Fibers, requestOperationMode(f) PROVE TypeOK'
  <2>1. [Idle EXCEPT !.pc = "mode"] \in Fiber
    BY IdleTypes DEF FiberPC
  <2>2. QED
    BY <1>1, <1>3, <1>6, <2>1 DEF requestOperationMode
<1>7. ASSUME NEW f \in Fibers, requestHoming(f) PROVE TypeOK'
  <2> DEFINE m == [motor EXCEPT !.restoreMode = motor.mode,
                                !.restoreOn = motor.state = "OperationEnabled"]
             AtPC(pc) == [Idle EXCEPT !.pc = pc, !.home = TRUE]
  <2>1. m \in Motor /\ [m EXCEPT !.cw = disable_voltage] \in Motor
    BY <1>1 DEF Motor, Controlword
  <2>2. startHoming(m) \in Motor
    BY <2>1, HomingStepTypes
  <2>3. /\ Entering(TRUE) \in Fiber
        /\ AtPC("homeMode") \in Fiber
        /\ AtPC("homeDisable") \in Fiber
    BY IdleTypes DEF FiberPC
  <2>4. \/ Immediate("homing", startHoming(m))
        \/ Start(f, "homing", m, Entering(TRUE))
        \/ Start(f, "homing", m, AtPC("homeMode"))
        \/ Start(f, "homing", [m EXCEPT !.cw = disable_voltage], AtPC("homeDisable"))
    BY <1>7 DEF requestHoming
  <2> HIDE DEF m, AtPC
  <2>5. QED
    BY <1>2, <1>3, <2>1, <2>2, <2>3, <2>4
<1>8. QED
  BY <1>4, <1>5, <1>6, <1>7 DEF Request, OtherRequest

\* Where a blocking request may go from one suspension point to the next.
LEMMA GoTypes ==
    ASSUME TypeOK, NEW f \in Fibers, NEW pc \in FiberPC, NEW snap \in Snap
    PROVE  /\ Go(f, pc) \in Fiber
           /\ [fibers[f] EXCEPT !.pc = pc] \in Fiber
           /\ [fibers[f] EXCEPT !.snap = snap] \in Fiber
           /\ [fibers[f] EXCEPT !.pc = pc, !.n = 0] \in Fiber
<1>1. PrimeCycles \in Nat
  BY MotorDriverAssumption
<1>2. 0 \in 0 .. PrimeCycles /\ "asleep" \in Snap /\ fibers[f] \in Fiber
  BY <1>1 DEF Snap, TypeOK
<1>3. QED
  BY <1>2 DEF Go, Fiber

LEMMA FiberStepTypes ==
    ASSUME TypeOK, NEW f \in Fibers, FiberStep(f)
    PROVE  TypeOK'
<1>1. motor \in Motor
  BY DEF TypeOK
<1>2. ASSUME NEW m \in Motor, NEW fiber \in Fiber, Resume(f, m, fiber),
             drive' \in Drive
      PROVE  TypeOK'
  BY <1>2 DEF Resume, TypeOK
<1>3. UNCHANGED drive =>
          drive' \in Drive
  BY DEF TypeOK
<1>4. Idle \in Fiber /\ startHoming(motor) \in Motor
  BY <1>1, IdleTypes, HomingStepTypes DEF FiberPC
<1>5. ASSUME NEW cw \in Controlword
      PROVE  /\ [motor EXCEPT !.cw = cw] \in Motor
             /\ [motor EXCEPT !.cw = cw, !.cyclic = TRUE] \in Motor
             /\ startHoming([motor EXCEPT !.cw = cw]) \in Motor
  <2>1. /\ [motor EXCEPT !.cw = cw] \in Motor
        /\ [motor EXCEPT !.cw = cw, !.cyclic = TRUE] \in Motor
    BY <1>1 DEF Motor
  <2>2. QED
    BY <2>1, HomingStepTypes
<1>6. {disable_voltage, shutdown, switch_on, enable_operation, fault_reset}
          \subseteq Controlword
  BY DEF Controlword
<1>7. CASE Poll(f)
  <2>1. Compare(StatusRead, Awaited[fibers[f].pc]) \in Snap
    BY DEF Compare, Snap
  <2>2. QED
    BY <1>1, <1>2, <1>3, <1>7, <2>1, GoTypes DEF Poll, FiberPC
<1>8. CASE Throw(f)
  BY <1>1, <1>2, <1>3, <1>4, <1>8 DEF Throw
<1>9. CASE ImageZeroed(f)
  BY <1>2, <1>3, <1>5, <1>6, <1>9, GoTypes DEF ImageZeroed, FiberPC, Snap
<1>10. CASE ImagePrimed(f)
  BY <1>2, <1>3, <1>5, <1>6, <1>10, GoTypes DEF ImagePrimed, FiberPC, Snap
<1>11. CASE ImageStreamed(f)
  BY <1>2, <1>3, <1>4, <1>5, <1>6, <1>11, GoTypes
     DEF ImageStreamed, Enabled, FiberPC, Snap
<1>12. CASE PulseEnds(f)
  BY <1>2, <1>3, <1>5, <1>6, <1>12, GoTypes DEF PulseEnds, FiberPC, Snap
<1>13. CASE WaitAgain(f)
  BY <1>1, <1>2, <1>3, <1>13, GoTypes DEF WaitAgain, FiberPC, Snap
<1>14. CASE WaitEnds(f)
  BY <1>1, <1>2, <1>3, <1>4, <1>5, <1>6, <1>14, GoTypes
     DEF WaitEnds, Enabled, FiberPC, Snap
<1>15. CASE ModeWritten(f)
  <2>1. drive' \in Drive
    BY <1>15, MotorDriverAssumption DEF ModeWritten, TypeOK, Drive, Mode
  <2>2. QED
    BY <1>1, <1>2, <1>4, <1>15, <2>1, GoTypes DEF ModeWritten, FiberPC, Snap
<1>16. QED
  BY <1>7, <1>8, <1>9, <1>10, <1>11, <1>12, <1>13, <1>14, <1>15 DEF FiberStep

LEMMA BusStepTypes ==
    ASSUME TypeOK, \/ OnRpdoWrite \/ DriveStep \/ DriveFaults \/ DriveRestarts
                   \/ OnHeartbeat \/ Silence \/ Boots
    PROVE  TypeOK'
<1>1. motor \in Motor
  BY DEF TypeOK
<1>2. CASE OnRpdoWrite
  BY <1>1, <1>2 DEF OnRpdoWrite, TypeOK, Motor, Drive
<1>3. CASE DriveStep
  <2>1. Bit(wire, 7) \in BOOLEAN /\ (Bit(wire, 7) /\ ~drive.bit7) \in BOOLEAN
    BY DEF Bit
  <2>2. DriveNext(drive.state, wire, Bit(wire, 7) /\ ~drive.bit7)
            \in State \ {"Unknown"}
    BY <2>1, DriveStays DEF TypeOK, Drive
  <2>3. QED
    BY <1>3, <2>1, <2>2 DEF DriveStep, TypeOK, Drive
<1>4. CASE DriveFaults
  BY <1>4 DEF DriveFaults, TypeOK, Drive, State
<1>5. CASE OnHeartbeat
  <2>1. PICK lost \in BOOLEAN : motor' = handleNodeLoss(motor, lost)
    BY <1>5 DEF OnHeartbeat
  <2>2. QED
    BY <1>1, <1>5, <2>1, StopTypes DEF OnHeartbeat, TypeOK
<1>6. CASE Silence
  BY <1>1, <1>6 DEF Silence, TypeOK, Motor
<1>7. CASE DriveRestarts
  <2>1. Started \subseteq Drive
    BY MotorDriverAssumption DEF Started, Drive, State, Mode
  <2>2. QED
    BY <1>7, <2>1 DEF DriveRestarts, TypeOK
<1>8. CASE Boots
  <2>1. Entering(FALSE) \in Fiber
    BY IdleTypes DEF FiberPC
  <2>2. PICK f \in Fibers : OnBoot(f)
    BY <1>8 DEF Boots
  <2>3. fibers' \in [Fibers -> Fiber] /\ drive' \in Drive
    BY <2>1, <2>2 DEF OnBoot, TypeOK, Drive
  <2>4. QED
    BY <2>2, <2>3 DEF OnBoot, TypeOK
<1>9. QED
  BY <1>2, <1>3, <1>4, <1>5, <1>6, <1>7, <1>8

LEMMA StepTypes == TypeOK /\ [Next]_vars => TypeOK'
<1> SUFFICES ASSUME TypeOK, [Next]_vars PROVE TypeOK'
  OBVIOUS
<1>1. CASE OnSync \/ OnSyncSuspends \/ \E x \in Exchange : ExchangeReturns(x)
  BY <1>1, SyncStepTypes
<1>2. CASE Request
  BY <1>2, RequestStepTypes
<1>3. CASE \E f \in Fibers : FiberStep(f)
  BY <1>3, FiberStepTypes
<1>4. CASE \/ OnRpdoWrite \/ DriveStep \/ DriveFaults \/ DriveRestarts
           \/ OnHeartbeat \/ Silence \/ Boots
  BY <1>4, BusStepTypes
<1>5. CASE UNCHANGED vars
  BY <1>5 DEF vars, TypeOK
<1>6. QED
  BY <1>1, <1>2, <1>3, <1>4, <1>5 DEF Next, Runs

\* Every value the driver, its requests and the drive ever hold is one the
\* code declares: no phase is skipped to an undeclared one, the counters stay
\* within their bounds and every staged controlword is one of the seven.
THEOREM TypeCorrect == Spec => []TypeOK
<1>1. Init => TypeOK
  BY InitTypes
<1>2. TypeOK /\ [Next]_vars => TypeOK'
  BY StepTypes
<1>3. QED
  BY <1>1, <1>2, PTL DEF Spec
-----------------------------------------------------------------------------
(* ---------------------- one exchange of homing at a time ---------------- *)

\* The exchanges suspended are exactly the one the driver remembers.
Accounted ==
    exchanges["ZeroAtCenter"] + exchanges["RestoreMode"]
        = IF motor.inFlight THEN 1 ELSE 0

\* Only entering an exchange and returning from it touch the memory of it.
LEMMA InFlightKept ==
    ASSUME NEW m \in Motor, NEW late \in BOOLEAN
    PROVE  /\ requestGracefulStop(m).inFlight = m.inFlight
           /\ requestQuickStop(m).inFlight = m.inFlight
           /\ requestFaultReset(m).inFlight = m.inFlight
           /\ requestProfileMove(m).inFlight = m.inFlight
           /\ handleNodeLoss(m, late).inFlight = m.inFlight
           /\ failHoming(m).inFlight = m.inFlight
           /\ startHoming(m).inFlight = m.inFlight
           /\ RefreshFeedback(m).inFlight = m.inFlight
           /\ Watchdog(m).inFlight = m.inFlight
           /\ \A next \in Advance(m, late) : next.inFlight = m.inFlight
<1>1. /\ requestGracefulStop(m).inFlight = m.inFlight
      /\ handleNodeLoss(m, late).inFlight = m.inFlight
  BY DEF requestGracefulStop, handleNodeLoss, Motor
<1>2. /\ requestQuickStop(m).inFlight = m.inFlight
      /\ requestFaultReset(m).inFlight = m.inFlight
      /\ requestProfileMove(m).inFlight = m.inFlight
  BY DEF requestQuickStop, requestFaultReset, requestProfileMove, Motor
<1>3. failHoming(m).inFlight = m.inFlight /\ startHoming(m).inFlight = m.inFlight
  BY DEF failHoming, startHoming, Motor
<1>4. RefreshFeedback(m).inFlight = m.inFlight
  BY DEF RefreshFeedback, Motor
<1>5. Watchdog(m).inFlight = m.inFlight
  BY <1>1, <1>3 DEF Watchdog
<1>6. advanceGracefulStop(m, late).inFlight = m.inFlight
  BY DEF advanceGracefulStop, Motor
<1>7. advanceEnableLadder(m, late).inFlight = m.inFlight
  BY DEF advanceEnableLadder, LadderFail, LadderEnter, Motor
<1>8. \A next \in advanceHoming(m, late) : next.inFlight = m.inFlight
  <2>1. \A next \in HomingProgress(m) : next.inFlight = m.inFlight
    BY <1>3 DEF HomingProgress, Motor
  <2>2. QED
    BY <1>3, <2>1 DEF advanceHoming
<1>9. \A next \in advanceProfileSetpoint(m) : next.inFlight = m.inFlight
  BY DEF advanceProfileSetpoint, Motor
<1>10. \A next \in Advance(m, late) : next.inFlight = m.inFlight
  BY <1>6, <1>7, <1>8, <1>9 DEF Advance
<1>11. QED
  BY <1>1, <1>2, <1>3, <1>4, <1>5, <1>10

LEMMA FiberKeepsInFlight ==
    ASSUME TypeOK, NEW f \in Fibers, FiberStep(f)
    PROVE  motor'.inFlight = motor.inFlight /\ UNCHANGED exchanges
<1>1. motor \in Motor
  BY DEF TypeOK
<1>2. ASSUME NEW m, m.inFlight = motor.inFlight, NEW fiber, Resume(f, m, fiber)
      PROVE  motor'.inFlight = motor.inFlight /\ UNCHANGED exchanges
  BY <1>2 DEF Resume
<1>3. ASSUME NEW cw
      PROVE  /\ [motor EXCEPT !.cw = cw].inFlight = motor.inFlight
             /\ [motor EXCEPT !.cw = cw, !.cyclic = TRUE].inFlight = motor.inFlight
             /\ startHoming([motor EXCEPT !.cw = cw]).inFlight = motor.inFlight
  BY <1>1 DEF startHoming, Motor
<1>4. startHoming(motor).inFlight = motor.inFlight
  BY <1>1 DEF startHoming, Motor
<1>5. CASE Poll(f) \/ Throw(f) \/ WaitAgain(f)
  BY <1>2, <1>5 DEF Poll, Throw, WaitAgain
<1>6. CASE ImageZeroed(f) \/ ImagePrimed(f) \/ PulseEnds(f)
  BY <1>2, <1>3, <1>6 DEF ImageZeroed, ImagePrimed, PulseEnds
<1>7. CASE ImageStreamed(f)
  BY <1>2, <1>3, <1>7 DEF ImageStreamed, Enabled
<1>8. CASE WaitEnds(f)
  BY <1>2, <1>3, <1>4, <1>8 DEF WaitEnds, Enabled
<1>9. CASE ModeWritten(f)
  BY <1>2, <1>4, <1>9 DEF ModeWritten
<1>10. QED
  BY <1>5, <1>6, <1>7, <1>8, <1>9 DEF FiberStep

LEMMA AccountedStep == TypeOK /\ Accounted /\ [Next]_vars => Accounted'
<1> SUFFICES ASSUME TypeOK, Accounted, [Next]_vars PROVE Accounted'
  OBVIOUS
<1> DEFINE m == Watchdog(RefreshFeedback(motor))
<1>1. motor \in Motor /\ m \in Motor /\ RefreshFeedback(motor) \in Motor
  BY OnSyncTypes DEF TypeOK
<1>2. m.inFlight = motor.inFlight
  BY <1>1, InFlightKept
<1>3. motor'.inFlight = motor.inFlight /\ UNCHANGED exchanges => Accounted'
  BY DEF Accounted
<1>4. CASE OnSync
  <2>1. PICK late \in BOOLEAN : OnSyncAt(late)
    BY <1>4 DEF OnSync
  <2>2. motor'.inFlight = m.inFlight /\ UNCHANGED exchanges
    BY <1>1, <2>1, InFlightKept DEF OnSyncAt
  <2>3. QED
    BY <1>2, <1>3, <2>2
<1>5. CASE OnSyncSuspends
  <2>1. ~motor.inFlight /\ m.homing \in {"ZeroAtCenter", "RestoreMode"}
    BY <1>2, <1>5 DEF OnSyncSuspends, HomingSuspends, Exchange
  <2>2. /\ exchanges["ZeroAtCenter"] \in Nat /\ exchanges["RestoreMode"] \in Nat
        /\ DOMAIN exchanges = {"ZeroAtCenter", "RestoreMode"}
    BY MotorDriverAssumption DEF TypeOK, Exchange
  <2>3. motor'.inFlight /\ exchanges' = [exchanges EXCEPT ![m.homing] = @ + 1]
    BY <1>1, <1>5 DEF OnSyncSuspends, Motor
  <2>4. exchanges["ZeroAtCenter"] + exchanges["RestoreMode"] = 0
    BY <2>1 DEF Accounted
  <2>5. exchanges'["ZeroAtCenter"] + exchanges'["RestoreMode"] = 1
    <3>1. CASE m.homing = "ZeroAtCenter"
      BY <2>2, <2>3, <2>4, <3>1
    <3>2. CASE m.homing = "RestoreMode"
      BY <2>2, <2>3, <2>4, <3>2
    <3>3. QED
      BY <2>1, <3>1, <3>2
  <2>6. QED
    BY <2>3, <2>5 DEF Accounted
<1>6. ASSUME NEW x \in Exchange, ExchangeReturns(x)
      PROVE  Accounted'
  <2>1. /\ exchanges["ZeroAtCenter"] \in Nat /\ exchanges["RestoreMode"] \in Nat
        /\ DOMAIN exchanges = {"ZeroAtCenter", "RestoreMode"}
        /\ x \in {"ZeroAtCenter", "RestoreMode"}
    BY MotorDriverAssumption DEF TypeOK, Exchange
  <2>2. exchanges[x] > 0 /\ exchanges' = [exchanges EXCEPT ![x] = @ - 1]
    BY <1>6 DEF ExchangeReturns
  <2>3. motor'.inFlight = FALSE
    <3>1. ZeroReturns(motor).inFlight = FALSE
      BY <1>1 DEF ZeroReturns, Motor
    <3>2. RestoreModeReturns(motor).inFlight = FALSE
      BY <1>1 DEF RestoreModeReturns, Motor
    <3>3. [failHoming(motor) EXCEPT !.inFlight = FALSE].inFlight = FALSE
      BY <1>1 DEF failHoming, Motor
    <3>4. QED
      BY <1>6, <3>1, <3>2, <3>3 DEF ExchangeReturns
  <2>4. exchanges["ZeroAtCenter"] + exchanges["RestoreMode"] = 1
    BY <2>1, <2>2 DEF Accounted
  <2>5. exchanges'["ZeroAtCenter"] + exchanges'["RestoreMode"] = 0
    <3>1. CASE x = "ZeroAtCenter"
      BY <2>1, <2>2, <2>4, <3>1
    <3>2. CASE x = "RestoreMode"
      BY <2>1, <2>2, <2>4, <3>2
    <3>3. QED
      BY <2>1, <3>1, <3>2
  <2>6. QED
    BY <2>3, <2>5 DEF Accounted
<1>7. CASE Request
  <2>1. ASSUME NEW r, NEW n, n.inFlight = motor.inFlight, Immediate(r, n)
        PROVE  Accounted'
    BY <1>3, <2>1 DEF Immediate
  <2>2. ASSUME NEW f, NEW r, NEW n, n.inFlight = motor.inFlight, NEW fiber,
               Start(f, r, n, fiber)
        PROVE  Accounted'
    BY <1>3, <2>2 DEF Start
  <2>3. CASE Stop \/ QuickStop \/ ResetFault \/ Move
    BY <1>1, <2>1, <2>3, InFlightKept DEF Stop, QuickStop, ResetFault, Move
  <2>4. ASSUME NEW f \in Fibers, requestEnableOperation(f) \/ requestOperationMode(f)
        PROVE  Accounted'
    <3>1. [motor EXCEPT !.stop = "None", !.want = TRUE].inFlight = motor.inFlight
      BY <1>1 DEF Motor
    <3>2. QED
      BY <2>2, <2>4, <3>1 DEF requestEnableOperation, requestOperationMode
  <2>5. ASSUME NEW f \in Fibers, requestHoming(f)
        PROVE  Accounted'
    <3> DEFINE n == [motor EXCEPT !.restoreMode = motor.mode,
                                  !.restoreOn = motor.state = "OperationEnabled"]
               AtPC(pc) == [Idle EXCEPT !.pc = pc, !.home = TRUE]
    <3>1. /\ n.inFlight = motor.inFlight
          /\ [n EXCEPT !.cw = disable_voltage].inFlight = motor.inFlight
          /\ startHoming(n).inFlight = motor.inFlight
      BY <1>1 DEF startHoming, Motor
    <3>2. \/ Immediate("homing", startHoming(n))
          \/ Start(f, "homing", n, Entering(TRUE))
          \/ Start(f, "homing", n, AtPC("homeMode"))
          \/ Start(f, "homing", [n EXCEPT !.cw = disable_voltage], AtPC("homeDisable"))
      BY <2>5 DEF requestHoming
    <3> HIDE DEF n, AtPC
    <3>3. QED
      BY <2>1, <2>2, <3>1, <3>2
  <2>6. QED
    BY <1>7, <2>3, <2>4, <2>5 DEF Request, OtherRequest
<1>8. CASE \E f \in Fibers : FiberStep(f)
  BY <1>3, <1>8, FiberKeepsInFlight
<1>9. CASE OnRpdoWrite \/ Silence
  BY <1>1, <1>3, <1>9 DEF OnRpdoWrite, Silence, Motor
<1>10. CASE OnHeartbeat
  BY <1>1, <1>3, <1>10, InFlightKept DEF OnHeartbeat
<1>11. CASE DriveStep \/ DriveFaults \/ DriveRestarts \/ Boots \/ UNCHANGED vars
  BY <1>3, <1>11 DEF DriveStep, DriveFaults, DriveRestarts, Boots, OnBoot, vars
<1>12. QED
  BY <1>4, <1>5, <1>6, <1>7, <1>8, <1>9, <1>10, <1>11 DEF Next, Runs

\* However many requests, faults and SYNC cycles overlap, at most one OnSync
\* is suspended in homing's SDO exchanges: the guard in_flight admits one and
\* every way out of the exchange releases it.
THEOREM OneExchangeHolds == Spec => []OneExchange
<1>1. Init => Accounted
  BY DEF Init, Accounted, Exchange
<1>2. TypeOK /\ Accounted => OneExchange
  BY MotorDriverAssumption DEF Accounted, OneExchange, TypeOK, Exchange
<1>3. QED
  BY <1>1, <1>2, AccountedStep, TypeCorrect, PTL DEF Spec

(* ----------------------- an application without homing ------------------ *)

\* Nothing of homing is in progress, in the object, in OnSync or in a request.
NoHoming ==
    /\ motor.homing = "Idle"
    /\ \A x \in Exchange : exchanges[x] = 0
    /\ \A f \in Fibers : ~fibers[f].home /\ fibers[f].pc \notin {"homeDisable", "homeMode"}

\* Ladder phases above the reset are entered under a run intent only.
Respected(m) == m.enable \in {"Shutdown", "SwitchOn", "EnableOp"} => m.recover

LEMMA OperatorsKeepIdle ==
    ASSUME NEW m \in Motor, NEW late \in BOOLEAN, m.homing = "Idle"
    PROVE  /\ requestGracefulStop(m).homing = "Idle"
           /\ requestQuickStop(m).homing = "Idle"
           /\ requestFaultReset(m).homing = "Idle"
           /\ requestProfileMove(m).homing = "Idle"
           /\ handleNodeLoss(m, late).homing = "Idle"
           /\ RefreshFeedback(m).homing = "Idle"
           /\ Watchdog(m).homing = "Idle"
           /\ \A next \in Advance(m, late) : next.homing = "Idle"
<1>1. ~HomingActive(m) /\ ~HomingTurn(m)
  BY DEF HomingActive, HomingTurn
<1>2. /\ requestGracefulStop(m).homing = "Idle"
      /\ handleNodeLoss(m, late).homing = "Idle"
  BY DEF requestGracefulStop, handleNodeLoss, Motor
<1>3. requestQuickStop(m).homing = "Idle"
  BY <1>1 DEF requestQuickStop, Motor
<1>4. /\ requestFaultReset(m).homing = "Idle"
      /\ requestProfileMove(m).homing = "Idle"
      /\ RefreshFeedback(m).homing = "Idle"
  BY DEF requestFaultReset, requestProfileMove, RefreshFeedback, Motor
<1>5. Watchdog(m).homing = "Idle"
  BY <1>1, <1>2 DEF Watchdog
<1>6. advanceGracefulStop(m, late).homing = "Idle"
  BY DEF advanceGracefulStop, Motor
<1>7. advanceEnableLadder(m, late).homing = "Idle"
  BY DEF advanceEnableLadder, LadderFail, LadderEnter, Motor
<1>8. \A next \in advanceProfileSetpoint(m) : next.homing = "Idle"
  BY DEF advanceProfileSetpoint, Motor
<1>9. \A next \in Advance(m, late) : next.homing = "Idle"
  BY <1>1, <1>6, <1>7, <1>8 DEF Advance
<1>10. QED
  BY <1>2, <1>3, <1>4, <1>5, <1>9

LEMMA OperatorsRespect ==
    ASSUME NEW m \in Motor, NEW late \in BOOLEAN, m.homing = "Idle", Respected(m)
    PROVE  /\ Respected(requestGracefulStop(m))
           /\ Respected(requestQuickStop(m))
           /\ Respected(requestFaultReset(m))
           /\ Respected(requestProfileMove(m))
           /\ Respected(handleNodeLoss(m, late))
           /\ Respected(RefreshFeedback(m))
           /\ Respected(Watchdog(m))
           /\ \A next \in Advance(m, late) : Respected(next)
<1>1. ~HomingActive(m) /\ ~HomingTurn(m)
  BY DEF HomingActive, HomingTurn
<1>2. /\ Respected(requestGracefulStop(m))
      /\ Respected(handleNodeLoss(m, late))
  BY DEF requestGracefulStop, handleNodeLoss, Motor, Respected
<1>3. /\ Respected(requestQuickStop(m))
      /\ Respected(requestFaultReset(m))
      /\ Respected(requestProfileMove(m))
      /\ Respected(RefreshFeedback(m))
  BY DEF requestQuickStop, requestFaultReset, requestProfileMove, RefreshFeedback,
         Motor, Respected
<1>4. Respected(Watchdog(m))
  BY <1>1, <1>2 DEF Watchdog
<1>5. Respected(advanceGracefulStop(m, late))
  BY DEF advanceGracefulStop, Motor, Respected
<1>6. LadderTurn(m) => Respected(advanceEnableLadder(m, late))
  <2> SUFFICES ASSUME LadderTurn(m) PROVE Respected(advanceEnableLadder(m, late))
    OBVIOUS
  <2>1. m.enable \in {"FaultReset", "Shutdown", "SwitchOn", "EnableOp"}
    BY DEF LadderTurn, Motor, EnablePhase
  <2>2. Respected(LadderFail(m))
    BY DEF LadderFail, Motor, Respected
  <2>3. ASSUME m.enable = "FaultReset" => m.recover
        PROVE  Respected(LadderEnter(m, LadderNext[m.enable]))
    BY <2>1, <2>3 DEF LadderEnter, LadderNext, Motor, Respected
  <2>4. /\ Respected([m EXCEPT !.cw = LadderWord[m.enable]])
        /\ Respected([m EXCEPT !.cw = shutdown, !.enable = "Idle"])
    BY DEF Motor, Respected
  <2>5. QED
    BY <2>2, <2>3, <2>4 DEF advanceEnableLadder
<1>7. \A next \in advanceProfileSetpoint(m) : Respected(next)
  BY DEF advanceProfileSetpoint, Motor, Respected
<1>8. \A next \in Advance(m, late) : Respected(next)
  BY <1>1, <1>5, <1>6, <1>7 DEF Advance
<1>9. QED
  BY <1>2, <1>3, <1>4, <1>8

\* A request changes nothing of homing unless it is a homing request, and a
\* fiber that is not one of homing never becomes one.
LEMMA FiberKeepsNoHoming ==
    ASSUME TypeOK, NoHoming, NEW f \in Fibers, FiberStep(f)
    PROVE  /\ NoHoming'
           /\ motor'.enable = motor.enable /\ motor'.recover = motor.recover
           /\ UNCHANGED wire
<1> DEFINE Kept(m) == m.homing = "Idle" /\ m.enable = motor.enable
                      /\ m.recover = motor.recover
           Plain(fiber) == ~fiber.home /\ fiber.pc \notin {"homeDisable", "homeMode"}
<1>1. motor \in Motor /\ motor.homing = "Idle" /\ fibers[f] \in Fiber /\ Plain(fibers[f])
  BY DEF TypeOK, NoHoming
<1>2. ASSUME NEW m, NEW fiber, Kept(m), Plain(fiber), Resume(f, m, fiber)
      PROVE  /\ NoHoming'
             /\ motor'.enable = motor.enable /\ motor'.recover = motor.recover
             /\ UNCHANGED wire
  BY <1>2 DEF Resume, NoHoming, TypeOK
<1>3. ASSUME NEW cw
      PROVE  /\ Kept([motor EXCEPT !.cw = cw])
             /\ Kept([motor EXCEPT !.cw = cw, !.cyclic = TRUE])
             /\ Kept(motor)
  BY <1>1 DEF Motor
<1>4. Plain(Idle)
  BY DEF Idle
<1>5. ASSUME NEW pc \in FiberPC \ {"homeDisable", "homeMode"}
      PROVE  /\ Plain(Go(f, pc))
             /\ Plain([fibers[f] EXCEPT !.pc = pc])
             /\ Plain([fibers[f] EXCEPT !.pc = pc, !.n = 0])
  BY <1>1 DEF Go, Fiber
<1>5a. ASSUME NEW snap PROVE Plain([fibers[f] EXCEPT !.snap = snap])
  BY <1>1 DEF Fiber
<1> HIDE DEF Kept, Plain
<1>6. CASE Poll(f) \/ Throw(f) \/ WaitAgain(f)
  BY <1>2, <1>3, <1>4, <1>6, <1>5a DEF Poll, Throw, WaitAgain
<1>7. CASE ImageZeroed(f) \/ ImagePrimed(f) \/ PulseEnds(f)
  BY <1>2, <1>3, <1>5, <1>7 DEF ImageZeroed, ImagePrimed, PulseEnds, FiberPC
<1>8. ~fibers[f].home /\ ~At(f, "homeDisable") /\ ~At(f, "homeMode")
  BY <1>1 DEF Plain, At
<1>9. CASE ImageStreamed(f)
  BY <1>2, <1>3, <1>4, <1>5, <1>8, <1>9 DEF ImageStreamed, Enabled, FiberPC
<1>10. CASE WaitEnds(f)
  BY <1>2, <1>3, <1>4, <1>5, <1>8, <1>10 DEF WaitEnds, Enabled, FiberPC
<1>11. CASE ModeWritten(f)
  BY <1>2, <1>3, <1>4, <1>8, <1>11 DEF ModeWritten
<1>12. QED
  BY <1>6, <1>7, <1>9, <1>10, <1>11 DEF FiberStep

LEMMA NoHomingStep ==
    ASSUME "homing" \notin Requests, TypeOK, NoHoming, Respected(motor), [Next]_vars
    PROVE  NoHoming' /\ Respected(motor')
<1> DEFINE m == Watchdog(RefreshFeedback(motor))
<1>1. motor \in Motor /\ motor.homing = "Idle"
  BY DEF TypeOK, NoHoming
<1>2. /\ m \in Motor /\ m.homing = "Idle" /\ Respected(m)
      /\ ~HomingTurn(m)
  <2>1. RefreshFeedback(motor) \in Motor /\ m \in Motor
    BY <1>1, OnSyncTypes
  <2>2. RefreshFeedback(motor).homing = "Idle" /\ Respected(RefreshFeedback(motor))
    BY <1>1, OperatorsKeepIdle, OperatorsRespect
  <2>3. QED
    BY <2>1, <2>2, OperatorsKeepIdle, OperatorsRespect DEF HomingTurn, HomingActive
<1>3. ASSUME motor'.homing = "Idle", UNCHANGED <<fibers, exchanges>>
      PROVE  NoHoming'
  BY <1>3 DEF NoHoming
<1>4. CASE OnSync
  <2>1. PICK late \in BOOLEAN : OnSyncAt(late)
    BY <1>4 DEF OnSync
  <2>2. motor'.homing = "Idle" /\ Respected(motor')
    BY <1>2, <2>1, OperatorsKeepIdle, OperatorsRespect DEF OnSyncAt
  <2>3. \A f \in Fibers : fibers'[f].home = fibers[f].home /\ fibers'[f].pc = fibers[f].pc
    BY <2>1 DEF OnSyncAt, CountSync, TypeOK, Fiber
  <2>4. UNCHANGED exchanges
    BY <2>1 DEF OnSyncAt
  <2>5. QED
    BY <2>2, <2>3, <2>4 DEF NoHoming
<1>5. CASE OnSyncSuspends
  BY <1>2, <1>5 DEF OnSyncSuspends
<1>6. CASE \E x \in Exchange : ExchangeReturns(x)
  BY <1>6 DEF ExchangeReturns, NoHoming
<1>7. CASE Request
  <2>1. CASE Stop \/ QuickStop \/ ResetFault \/ Move
    BY <1>1, <1>3, <2>1, OperatorsKeepIdle, OperatorsRespect
       DEF Stop, QuickStop, ResetFault, Move, Immediate
  <2>2. ASSUME NEW f \in Fibers, requestEnableOperation(f)
        PROVE  NoHoming' /\ Respected(motor')
    <3>1. Respected([motor EXCEPT !.stop = "None", !.want = TRUE])
          /\ [motor EXCEPT !.stop = "None", !.want = TRUE].homing = "Idle"
      BY <1>1 DEF Motor, Respected
    <3>2. ~Entering(FALSE).home /\ Entering(FALSE).pc = "readFeedback"
      BY DEF Entering, Idle
    <3>3. QED
      BY <2>2, <3>1, <3>2 DEF requestEnableOperation, Start, NoHoming, TypeOK
  <2>3. ASSUME NEW f \in Fibers, requestOperationMode(f)
        PROVE  NoHoming' /\ Respected(motor')
    <3>1. ~[Idle EXCEPT !.pc = "mode"].home /\ [Idle EXCEPT !.pc = "mode"].pc = "mode"
      BY DEF Idle
    <3>2. QED
      BY <2>3, <3>1 DEF requestOperationMode, Start, NoHoming, TypeOK
  <2>4. ASSUME NEW f \in Fibers, requestHoming(f)
        PROVE  FALSE
    BY <2>4 DEF requestHoming, Immediate, Start, MayCall
  <2>5. QED
    BY <1>7, <2>1, <2>2, <2>3, <2>4 DEF Request, OtherRequest
<1>8. CASE \E f \in Fibers : FiberStep(f)
  BY <1>8, FiberKeepsNoHoming DEF Respected
<1>9. CASE OnRpdoWrite \/ Silence
  BY <1>1, <1>3, <1>9 DEF OnRpdoWrite, Silence, Motor, Respected
<1>10. CASE OnHeartbeat
  BY <1>1, <1>3, <1>10, OperatorsKeepIdle, OperatorsRespect DEF OnHeartbeat
<1>11. CASE DriveStep \/ DriveFaults \/ DriveRestarts \/ UNCHANGED vars
  BY <1>1, <1>3, <1>11 DEF DriveStep, DriveFaults, DriveRestarts, vars
<1>12. CASE Boots
  <2>1. ~Entering(FALSE).home /\ Entering(FALSE).pc = "readFeedback"
    BY DEF Entering, Idle
  <2>2. QED
    BY <1>12, <2>1 DEF Boots, OnBoot, NoHoming, TypeOK
<1>13. QED
  BY <1>4, <1>5, <1>6, <1>7, <1>8, <1>9, <1>10, <1>11, <1>12 DEF Next, Runs

LEMMA NoHomingInit == Init => NoHoming /\ Respected(motor)
  BY DEF Init, NoHoming, Respected, Idle

\* Fault recovery never climbs past the reset without a run intent, in any
\* interleaving of requests, fibers, faults, silence and node loss.
THEOREM RecoveryRespectsIntent ==
    ASSUME "homing" \notin Requests
    PROVE  Spec => []RecoverRespectsIntent
<1>1. TypeOK /\ NoHoming /\ Respected(motor) /\ [Next]_vars
          => NoHoming' /\ Respected(motor)'
  BY NoHomingStep
<1>2. Respected(motor) => RecoverRespectsIntent
  BY DEF Respected, RecoverRespectsIntent
<1>3. QED
  BY <1>1, <1>2, NoHomingInit, TypeCorrect, PTL DEF Spec

LEMMA StopHoldsTheWire ==
    ASSUME TypeOK, NoHoming, [Next]_vars, motor.stop = "DisableVoltage",
           wire = disable_voltage
    PROVE  wire' = disable_voltage
<1>1. CASE OnSync
  <2>1. PICK late \in BOOLEAN : OnSyncAt(late)
    BY <1>1 DEF OnSync
  <2> DEFINE m == RefreshFeedback(motor)
  <2>2. m \in Motor /\ m.stop = "DisableVoltage"
    BY OnSyncTypes DEF RefreshFeedback, TypeOK, Motor
  <2>3. Watchdog(m) = m
    BY <2>2 DEF Watchdog
  <2>4. \A next \in Advance(m, late) : next.cw = disable_voltage
    <3>1. Advance(m, late) = {advanceGracefulStop(m, late)}
      BY <2>2 DEF Advance, StopTurn, LadderTurn, HomingTurn
    <3>2. advanceGracefulStop(m, late).cw = disable_voltage
      BY <2>2 DEF advanceGracefulStop, Motor
    <3>3. QED
      BY <3>1, <3>2
  <2>5. QED
    BY <2>1, <2>3, <2>4 DEF OnSyncAt
<1>2. CASE OnSyncSuspends
  BY <1>2 DEF OnSyncSuspends
<1>3. CASE \E x \in Exchange : ExchangeReturns(x)
  BY <1>3 DEF ExchangeReturns, NoHoming
<1>4. CASE Request
  BY <1>4 DEF Request, OtherRequest, Stop, QuickStop, ResetFault, Move, Immediate,
     requestEnableOperation, requestOperationMode, requestHoming, Start
<1>5. CASE \E f \in Fibers : FiberStep(f)
  BY <1>5, FiberKeepsNoHoming
<1>6. CASE \/ OnRpdoWrite \/ DriveStep \/ DriveFaults \/ DriveRestarts
           \/ OnHeartbeat \/ Silence \/ Boots
  BY <1>6 DEF OnRpdoWrite, DriveStep, DriveFaults, DriveRestarts, OnHeartbeat,
     Silence, Boots, OnBoot
<1>7. CASE UNCHANGED vars
  BY <1>7 DEF vars
<1>8. QED
  BY <1>1, <1>2, <1>3, <1>4, <1>5, <1>6, <1>7 DEF Next, Runs

\* The promise of OnSync's priorities: whatever fibers, ladders, setpoint
\* handshakes and disturbances run at the same time, a stop in progress never
\* lets another controlword follow its disable-voltage.  An application that
\* homes does not have it (HomingVsStop).
THEOREM StopWins ==
    ASSUME "homing" \notin Requests
    PROVE  Spec => ShutdownWins
<1>1. TypeOK /\ NoHoming /\ Respected(motor) /\ [Next]_vars
          => NoHoming' /\ Respected(motor)'
  BY NoHomingStep
<1>2. TypeOK /\ NoHoming /\ [Next]_vars
          => [(motor.stop = "DisableVoltage" /\ motor'.stop = "DisableVoltage"
               /\ wire = disable_voltage) => wire' = disable_voltage]_vars
  BY StopHoldsTheWire
<1>3. QED
  BY <1>1, <1>2, NoHomingInit, TypeCorrect, PTL DEF Spec, ShutdownWins
-----------------------------------------------------------------------------
(* --------------- an application that makes one request at a time -------- *)

\* Until the drive has booted for the first time, an application that waits has
\* asked for nothing, and the driver is as its constructor left it.
Unbooted ==
    ~drive.booted =>
        /\ motor.stop = "None" /\ motor.want = BootEnables /\ motor.homing = "Idle"
        /\ ~motor.cyclic /\ ~motor.seen
        /\ \A f \in Fibers : fibers[f].pc = "idle"
        /\ \A x \in Exchange : exchanges[x] = 0

LEMMA UnbootedInit == Init => Unbooted
  BY DEF Init, Unbooted, Idle

LEMMA UnbootedStep ==
    ASSUME SingleCaller, "restart" \notin Disturbances, TypeOK, Unbooted, [Next]_vars
    PROVE  Unbooted'
<1> DEFINE Untouched == UNCHANGED <<motor, fibers, exchanges>>
<1>1. motor \in Motor /\ drive \in Drive /\ ~DriveRestarts
  BY DEF TypeOK, DriveRestarts
<1>2. Untouched /\ (drive.booted => drive'.booted) => Unbooted'
  BY DEF Unbooted
<1>3. drive.booted /\ drive'.booted => Unbooted'
  BY DEF Unbooted
<1>4. CASE OnSync
  <2>1. PICK late \in BOOLEAN : OnSyncAt(late)
    BY <1>4 DEF OnSync
  <2>2. /\ UNCHANGED <<exchanges, drive>>
        /\ \A f \in Fibers : fibers'[f].pc = fibers[f].pc
    BY <2>1 DEF OnSyncAt, CountSync, TypeOK, Fiber
  <2>3. ~drive.booted => motor' = motor
    BY <2>1 DEF OnSyncAt, Watchdog, RefreshFeedback, Unbooted
  <2>4. QED
    BY <2>2, <2>3 DEF Unbooted
<1>5. CASE OnSyncSuspends
  <2>1. drive.booted
    BY <1>5 DEF OnSyncSuspends, Watchdog, RefreshFeedback, Unbooted
  <2>2. drive'.booted
    BY <1>1, <1>5, <2>1 DEF OnSyncSuspends, Drive
  <2>3. QED
    BY <1>3, <2>1, <2>2
<1>6. ASSUME NEW x \in Exchange, ExchangeReturns(x) PROVE Unbooted'
  <2>1. drive.booted /\ drive' = drive
    BY <1>6 DEF ExchangeReturns, Unbooted
  <2>2. QED
    BY <1>3, <2>1
<1>7. CASE Request
  <2>1. drive.booted /\ drive' = drive
    BY <1>7 DEF Request, OtherRequest, Stop, QuickStop, ResetFault, Move, Immediate,
       requestEnableOperation, requestOperationMode, requestHoming, Start, MayCall
  <2>2. QED
    BY <1>3, <2>1
<1>8. ASSUME NEW f \in Fibers, FiberStep(f) PROVE Unbooted'
  <2>1. fibers[f].pc # "idle"
    BY <1>8 DEF FiberStep, Poll, Throw, ImageZeroed, ImagePrimed, ImageStreamed,
       PulseEnds, WaitAgain, WaitEnds, Waits, ModeWritten, Awaited, At, Suspended
  <2>2. drive.booted
    BY <2>1 DEF Unbooted
  <2>3. drive'.booted
    BY <1>1, <1>8, <2>2 DEF FiberStep, Poll, Throw, ImageZeroed, ImagePrimed,
       ImageStreamed, PulseEnds, WaitAgain, WaitEnds, ModeWritten, Drive
  <2>4. QED
    BY <1>3, <2>2, <2>3
<1>9. CASE Boots
  BY <1>1, <1>9 DEF Boots, OnBoot, Unbooted, Drive
<1>10. CASE OnRpdoWrite \/ DriveStep \/ DriveFaults \/ UNCHANGED vars
  <2>1. CASE OnRpdoWrite
    BY <1>3, <2>1 DEF OnRpdoWrite
  <2>2. CASE DriveStep \/ DriveFaults \/ UNCHANGED vars
    <3>1. Untouched /\ (drive.booted => drive'.booted)
      BY <1>1, <2>2 DEF DriveStep, DriveFaults, vars, Drive
    <3>2. QED
      BY <1>2, <3>1
  <2>3. QED
    BY <1>10, <2>1, <2>2
<1>11. CASE Silence
  BY <1>3, <1>11 DEF Silence, Unbooted
<1>12. CASE OnHeartbeat
  <2>1. ~motor.cyclic => \E lost \in BOOLEAN : motor' = [motor EXCEPT !.loss = lost]
    BY <1>1, <1>12 DEF OnHeartbeat, handleNodeLoss, Motor
  <2>2. UNCHANGED <<fibers, exchanges, drive>>
    BY <1>12 DEF OnHeartbeat
  <2>3. QED
    BY <1>1, <2>1, <2>2 DEF Unbooted, Motor
<1>13. QED
  BY <1>1, <1>4, <1>5, <1>6, <1>7, <1>8, <1>9, <1>10, <1>11, <1>12 DEF Next, Runs

\* What a stop relies on: feedback is fresh, an idle stream repeats
\* disable-voltage, a completed stop streams nothing, and no fiber that could
\* stage a controlword outlives the beginning of a stop.
Calm ==
    /\ ~motor.stale
    /\ ~motor.cyclic => wire = disable_voltage
    /\ motor.stop = "Done" => ~motor.cyclic
    /\ motor.stop # "None" => \A f \in Fibers : fibers[f].pc \in {"idle", "mode"}

word == IF wire = disable_voltage THEN "disable" ELSE "else"
SafeStep == Stopping!Next \/ UNCHANGED <<motor.stop, word>>

LEMMA SyncIsCalm ==
    ASSUME TypeOK, NoHoming, Calm, OnSync
    PROVE  Calm' /\ SafeStep
<1> DEFINE m == RefreshFeedback(motor)
<1>1. PICK late \in BOOLEAN : OnSyncAt(late)
  BY DEF OnSync
<1>2. /\ m \in Motor /\ m.stop = motor.stop /\ m.cyclic = motor.cyclic
      /\ m.stale = motor.stale /\ m.homing = "Idle"
  BY OnSyncTypes DEF RefreshFeedback, TypeOK, Motor, NoHoming
<1>3. Watchdog(m) = m
  BY <1>2 DEF Watchdog, feedbackStale, Calm
<1>4. \A f \in Fibers : fibers'[f].pc = fibers[f].pc
  BY <1>1 DEF OnSyncAt, CountSync, TypeOK, Fiber
<1>5. CASE ~motor.cyclic
  <2>1. motor' = m /\ wire' = wire
    BY <1>1, <1>2, <1>3, <1>5 DEF OnSyncAt
  <2>2. QED
    BY <1>2, <1>4, <2>1 DEF Calm, SafeStep, word
<1>6. CASE motor.cyclic /\ motor.stop = "DisableVoltage"
  <2>1. Advance(m, late) = {advanceGracefulStop(m, late)}
    BY <1>2, <1>6 DEF Advance, StopTurn, LadderTurn, HomingTurn
  <2>2. motor' = advanceGracefulStop(m, late) /\ wire' = motor'.cw
    BY <1>1, <1>2, <1>3, <1>6, <2>1 DEF OnSyncAt
  <2>3. /\ motor'.cw = disable_voltage /\ motor'.stale = m.stale
        /\ \/ motor'.stop = "Done" /\ ~motor'.cyclic
           \/ motor'.stop = m.stop /\ motor'.cyclic = m.cyclic
    BY <1>2, <2>2 DEF advanceGracefulStop, Motor
  <2>4. Calm'
    BY <1>2, <1>4, <1>6, <2>2, <2>3 DEF Calm
  <2>5. Stopping!Disable
    BY <1>2, <1>6, <2>2, <2>3 DEF Stopping!Disable
  <2>6. QED
    BY <2>4, <2>5 DEF SafeStep, Stopping!Next
<1>7. CASE motor.cyclic /\ motor.stop = "None"
  <2>1. m.homing = "Idle" /\ ~StopTurn(m) /\ ~HomingTurn(m)
    BY <1>2, <1>7 DEF StopTurn, HomingTurn, HomingActive
  <2> DEFINE Kept(n) == n.stop = "None" /\ n.cyclic /\ n.stale = m.stale
  <2>2. Kept(advanceEnableLadder(m, late))
    BY <1>2, <1>7, ZenonT(60) DEF advanceEnableLadder, LadderFail, LadderEnter, Motor
  <2>3. \A n \in advanceProfileSetpoint(m) : Kept(n)
    <3>1. ASSUME NEW next, NEW cw
          PROVE  Kept([m EXCEPT !.setpoint = next, !.cw = cw])
      BY <1>2, <1>7, ZenonT(60) DEF Motor
    <3>2. ASSUME NEW n \in advanceProfileSetpoint(m) PROVE Kept(n)
      <4>1. PICK next \in SetpointNext[m.setpoint] :
              n = [m EXCEPT !.setpoint = next,
                            !.cw = IF m.setpoint = "Clear" THEN enable_operation
                                   ELSE new_setpoint_edge]
        BY <3>2 DEF advanceProfileSetpoint
      <4>2. QED
        BY <3>1, <4>1
    <3>3. QED
      BY <3>2
  <2>4. \A n \in Advance(m, late) : Kept(n)
    BY <1>2, <1>7, <2>1, <2>2, <2>3 DEF Advance
  <2>5. motor' \in Advance(m, late)
    BY <1>1, <1>2, <1>3, <1>7 DEF OnSyncAt
  <2>6. motor'.stop = "None" /\ motor'.cyclic /\ motor'.stale = motor.stale
    BY <1>2, <2>4, <2>5
  <2>7. Stopping!Run
    BY <1>7, <2>6 DEF Stopping!Run
  <2>8. QED
    BY <2>6, <2>7 DEF Calm, SafeStep, Stopping!Next
<1>8. QED
  BY <1>5, <1>6, <1>7 DEF Calm, TypeOK, Motor, StopPhase

LEMMA RequestIsCalm ==
    ASSUME SingleCaller, "homing" \notin Requests, TypeOK, NoHoming, Calm, Request
    PROVE  Calm' /\ SafeStep
<1>1. motor \in Motor
  BY DEF TypeOK
<1>2. ASSUME UNCHANGED <<fibers, wire>>, motor'.stop = motor.stop,
             motor'.stale = motor.stale,
             \/ motor'.cyclic = motor.cyclic
             \/ motor'.cyclic /\ motor.stop = "None"
      PROVE  Calm' /\ SafeStep
  BY <1>2 DEF Calm, SafeStep, word
<1>3. CASE Stop
  <2>1. /\ motor' = requestGracefulStop(motor) /\ UNCHANGED <<fibers, wire>>
        /\ \A f \in Fibers : fibers[f].pc = "idle"
    BY <1>3 DEF Stop, Immediate, MayCall, Suspended
  <2>2. CASE motor.stop # "None"
    BY <1>2, <2>1, <2>2 DEF requestGracefulStop
  <2>3. CASE motor.stop = "None" /\ ~motor.cyclic
    <3>1. motor'.stop = "Done" /\ ~motor'.cyclic /\ motor'.stale = motor.stale
      BY <1>1, <2>1, <2>3 DEF requestGracefulStop, Motor
    <3>2. Stopping!Begin
      BY <2>1, <2>3, <3>1 DEF Stopping!Begin, Calm
    <3>3. QED
      BY <2>1, <2>3, <3>1, <3>2 DEF Calm, SafeStep, Stopping!Next
  <2>4. CASE motor.stop = "None" /\ motor.cyclic
    <3>1. motor'.stop = "DisableVoltage" /\ motor'.cyclic /\ motor'.stale = motor.stale
      BY <1>1, <2>1, <2>4 DEF requestGracefulStop, Motor
    <3>2. Stopping!Begin
      BY <2>1, <2>4, <3>1 DEF Stopping!Begin
    <3>3. QED
      BY <2>1, <3>1, <3>2 DEF Calm, SafeStep, Stopping!Next
  <2>5. QED
    BY <2>2, <2>3, <2>4
<1>4. CASE QuickStop
  <2>1. motor' = requestQuickStop(motor) /\ UNCHANGED <<fibers, wire>>
    BY <1>4 DEF QuickStop, Immediate
  <2>2. /\ requestQuickStop(motor).stop = motor.stop
        /\ requestQuickStop(motor).stale = motor.stale
        /\ requestQuickStop(motor).cyclic = motor.cyclic
    BY <1>1 DEF requestQuickStop, Motor
  <2>3. QED
    BY <1>2, <2>1, <2>2
<1>5. CASE ResetFault
  <2>1. motor' = requestFaultReset(motor) /\ UNCHANGED <<fibers, wire>>
    BY <1>5 DEF ResetFault, Immediate
  <2>2. /\ requestFaultReset(motor).stop = motor.stop
        /\ requestFaultReset(motor).stale = motor.stale
        /\ \/ requestFaultReset(motor).cyclic = motor.cyclic
           \/ requestFaultReset(motor).cyclic /\ motor.stop = "None"
    BY <1>1 DEF requestFaultReset, Motor
  <2>3. QED
    BY <1>2, <2>1, <2>2
<1>6. CASE Move
  <2>1. motor' = requestProfileMove(motor) /\ UNCHANGED <<fibers, wire>>
    BY <1>6 DEF Move, Immediate
  <2>2. /\ requestProfileMove(motor).stop = motor.stop
        /\ requestProfileMove(motor).stale = motor.stale
        /\ requestProfileMove(motor).cyclic = motor.cyclic
    BY <1>1 DEF requestProfileMove, Motor
  <2>3. QED
    BY <1>2, <2>1, <2>2
<1>7. ASSUME NEW f \in Fibers, requestEnableOperation(f)
      PROVE  Calm' /\ SafeStep
  <2>1. /\ motor.stop # "DisableVoltage" /\ UNCHANGED wire
        /\ motor' = [motor EXCEPT !.stop = "None", !.want = TRUE]
    BY <1>7 DEF requestEnableOperation, Start
  <2>2. /\ motor'.stop = "None" /\ motor'.cyclic = motor.cyclic
        /\ motor'.stale = motor.stale
    BY <1>1, <2>1 DEF Motor
  <2>3. Stopping!Run \/ Stopping!Enable
    BY <1>1, <2>1, <2>2 DEF Stopping!Run, Stopping!Enable, Motor, StopPhase
  <2>4. QED
    BY <2>1, <2>2, <2>3 DEF Calm, SafeStep, Stopping!Next
<1>8. ASSUME NEW f \in Fibers, requestOperationMode(f)
      PROVE  Calm' /\ SafeStep
  <2>1. /\ motor' = motor /\ UNCHANGED wire
        /\ fibers' = [fibers EXCEPT ![f] = [Idle EXCEPT !.pc = "mode"]]
    BY <1>8 DEF requestOperationMode, Start
  <2>2. [Idle EXCEPT !.pc = "mode"].pc = "mode"
    BY DEF Idle
  <2>3. QED
    BY <2>1, <2>2 DEF Calm, SafeStep, word, TypeOK
<1>9. ASSUME NEW f \in Fibers, requestHoming(f)
      PROVE  FALSE
  BY <1>9 DEF requestHoming, Immediate, Start, MayCall
<1>10. QED
  BY <1>3, <1>4, <1>5, <1>6, <1>7, <1>8, <1>9 DEF Request, OtherRequest

LEMMA FiberIsCalm ==
    ASSUME TypeOK, NoHoming, Calm, NEW f \in Fibers, FiberStep(f)
    PROVE  Calm' /\ SafeStep
<1>1. motor \in Motor
  BY DEF TypeOK
<1>2. wire' = wire
  BY FiberKeepsNoHoming
<1>3. CASE motor.stop # "None"
  <2>1. fibers[f].pc \in {"idle", "mode"}
    BY <1>3 DEF Calm
  <2>2. motor' = motor /\ fibers' = [fibers EXCEPT ![f] = Idle]
    BY <2>1 DEF FiberStep, Poll, Throw, ImageZeroed, ImagePrimed, ImageStreamed,
       PulseEnds, WaitAgain, WaitEnds, Waits, ModeWritten, Awaited, At, Resume, Suspended
  <2>3. Idle.pc = "idle"
    BY DEF Idle
  <2>4. QED
    BY <1>2, <2>2, <2>3 DEF Calm, SafeStep, word, TypeOK
<1>4. CASE motor.stop = "None"
  <2> DEFINE Kept(n) == /\ n.stop = motor.stop /\ n.stale = motor.stale
                        /\ n.cyclic = motor.cyclic \/ n.cyclic
             KeptNext == /\ motor'.stop = motor.stop /\ motor'.stale = motor.stale
                         /\ motor'.cyclic = motor.cyclic \/ motor'.cyclic
  <2>1. ASSUME NEW n, NEW fiber, Kept(n), Resume(f, n, fiber)
        PROVE  KeptNext
    BY <2>1 DEF Resume
  <2>2. ASSUME NEW cw
        PROVE  /\ Kept([motor EXCEPT !.cw = cw])
               /\ Kept([motor EXCEPT !.cw = cw, !.cyclic = TRUE])
               /\ Kept(startHoming([motor EXCEPT !.cw = cw]))
               /\ Kept(startHoming(motor)) /\ Kept(motor)
    BY <1>1 DEF startHoming, Motor
  <2> HIDE DEF Kept
  <2> SUFFICES KeptNext
    BY <1>2, <1>4 DEF Calm, SafeStep, word
  <2>3. CASE Poll(f) \/ Throw(f) \/ WaitAgain(f) \/ ModeWritten(f)
    BY <2>1, <2>2, <2>3 DEF Poll, Throw, WaitAgain, ModeWritten
  <2>4. CASE ImageZeroed(f) \/ ImagePrimed(f) \/ PulseEnds(f)
    BY <2>1, <2>2, <2>4 DEF ImageZeroed, ImagePrimed, PulseEnds
  <2>5. CASE ImageStreamed(f)
    BY <2>1, <2>2, <2>5 DEF ImageStreamed, Enabled
  <2>6. CASE WaitEnds(f)
    BY <2>1, <2>2, <2>6 DEF WaitEnds, Enabled
  <2>7. QED
    BY <2>3, <2>4, <2>5, <2>6 DEF FiberStep
<1>5. QED
  BY <1>3, <1>4

LEMMA CalmStep ==
    ASSUME SingleCaller, "homing" \notin Requests, Disturbances \subseteq {"fault"},
           TypeOK, NoHoming, Unbooted, Calm, [Next]_vars
    PROVE  Calm' /\ SafeStep
<1>1. motor \in Motor /\ motor.homing = "Idle"
  BY DEF TypeOK, NoHoming
<1>2. CASE OnSync
  BY <1>2, SyncIsCalm
<1>3. CASE OnSyncSuspends
  <2> DEFINE m == Watchdog(RefreshFeedback(motor))
  <2>1. RefreshFeedback(motor) \in Motor /\ RefreshFeedback(motor).homing = "Idle"
    BY <1>1, OnSyncTypes, OperatorsKeepIdle
  <2>2. m.homing = "Idle"
    BY <2>1, OperatorsKeepIdle
  <2>3. QED
    BY <1>3, <2>2 DEF OnSyncSuspends, HomingTurn, HomingActive
<1>4. CASE \E x \in Exchange : ExchangeReturns(x)
  BY <1>4 DEF ExchangeReturns, NoHoming
<1>5. CASE Request
  BY <1>5, RequestIsCalm
<1>6. CASE \E f \in Fibers : FiberStep(f)
  BY <1>6, FiberIsCalm
<1>7. CASE OnRpdoWrite
  <2>1. /\ motor'.stop = motor.stop /\ motor'.cyclic = motor.cyclic
        /\ ~motor'.stale /\ UNCHANGED <<fibers, wire>>
    BY <1>1, <1>7 DEF OnRpdoWrite, Motor
  <2>2. QED
    BY <2>1 DEF Calm, SafeStep, word
<1>8. CASE OnHeartbeat \/ Silence
  BY <1>8 DEF OnHeartbeat, Silence
<1>9. CASE DriveStep \/ DriveFaults \/ UNCHANGED vars
  BY <1>9 DEF DriveStep, DriveFaults, vars, Calm, SafeStep, word
<1>10. CASE Boots
  <2>1. motor.stop = "None" /\ UNCHANGED <<motor, wire>>
    BY <1>10 DEF Boots, OnBoot, Unbooted
  <2>2. QED
    BY <2>1 DEF Calm, SafeStep, word
<1>11. ~DriveRestarts
  BY DEF DriveRestarts
<1>12. QED
  BY <1>2, <1>3, <1>4, <1>5, <1>6, <1>7, <1>8, <1>9, <1>10, <1>11 DEF Next, Runs

LEMMA CalmInit == Init => Calm
  BY DEF Init, Calm

\* Once a stop is done nothing streams and the last word on the bus is
\* disable-voltage, for as long as the application does not enable again.
\* Concurrent callers lose this: a fiber suspended across the stop restarts
\* the stream.
THEOREM StoppedStaysSilent ==
    ASSUME SingleCaller, "homing" \notin Requests, Disturbances \subseteq {"fault"}
    PROVE  Spec => []StoppedIsSilent
<1>1. TypeOK /\ NoHoming /\ Respected(motor) /\ [Next]_vars
          => NoHoming' /\ Respected(motor)'
  BY NoHomingStep
<1>2. /\ TypeOK /\ Unbooted /\ [Next]_vars => Unbooted'
      /\ TypeOK /\ NoHoming /\ Unbooted /\ Calm /\ [Next]_vars => Calm'
  BY UnbootedStep, CalmStep
<1>3. Calm => StoppedIsSilent
  BY DEF Calm, StoppedIsSilent
<1>4. QED
  BY <1>1, <1>2, <1>3, CalmInit, UnbootedInit, NoHomingInit, TypeCorrect, PTL DEF Spec

\* MotorDriver implements SafeStop: seen through the stop phase and whether
\* the wire carries disable-voltage, every step of the driver, its requests,
\* its fibers and its drive is a step of the abstract stop or leaves it alone.
THEOREM ImplementsSafeStop ==
    ASSUME SingleCaller, "homing" \notin Requests, Disturbances \subseteq {"fault"}
    PROVE  Spec => KeepsSafeStop
<1>1. TypeOK /\ NoHoming /\ Respected(motor) /\ [Next]_vars
          => NoHoming' /\ Respected(motor)'
  BY NoHomingStep
<1>2. /\ TypeOK /\ Unbooted /\ [Next]_vars => Unbooted'
      /\ TypeOK /\ NoHoming /\ Unbooted /\ Calm /\ [Next]_vars => Calm'
  BY UnbootedStep, CalmStep
<1>3. Init => Stopping!Init
  BY DEF Init, Stopping!Init
<1>4. TypeOK /\ NoHoming /\ Unbooted /\ Calm /\ [Next]_vars => [Stopping!Next]_(Stopping!vars)
  BY CalmStep DEF SafeStep, Stopping!vars, word
<1>5. QED
  BY <1>1, <1>2, <1>3, <1>4, CalmInit, UnbootedInit, NoHomingInit, TypeCorrect, PTL
     DEF Spec, KeepsSafeStop, Stopping!Spec
-----------------------------------------------------------------------------
(* ------------------ what the wire owes to the application --------------- *)

\* 2^n for the bits of a command.
LEMMA Weights == 2^0 = 1 /\ 2^1 = 2 /\ 2^2 = 4 /\ 2^3 = 8
  OBVIOUS

\* Of the words the driver stages, these two let a drive reach operation enabled.
LEMMA EnergisingWords ==
    ASSUME NEW cw \in Controlword
    PROVE  Energising(cw) <=> cw \in {enable_operation, new_setpoint_edge}
  BY Weights DEF Controlword, Energising, Command, Bit, shutdown, switch_on,
     enable_operation, disable_voltage, quick_stop, fault_reset, new_setpoint_edge

\* Before the application has enabled or stopped, nothing on the way to the wire
\* energises: a reset is not followed by the ladder, and no fiber walks up.
Unasked(m) ==
    /\ m.enable \in {"Idle", "FaultReset"} /\ ~m.recover /\ m.setpoint = "Idle"
    /\ m.cw \notin {enable_operation, new_setpoint_edge}
    /\ ~m.want /\ m.stop = "None"
Intended ==
    /\ EnergisedByIntent
    /\ ~motor.want /\ motor.stop = "None" =>
           Unasked(motor) /\ \A f \in Fibers : fibers[f].pc \in {"idle", "mode"}

LEMMA IntendedInit == Init => Intended
<1> SUFFICES ASSUME Init PROVE Intended
  OBVIOUS
<1>1. disable_voltage \in Controlword
  BY DEF Controlword
<1>2. ~Energising(wire) /\ motor.cw = disable_voltage
  BY <1>1, EnergisingWords DEF Init, disable_voltage, enable_operation, new_setpoint_edge
<1>3. ~motor.want => \A f \in Fibers : fibers[f].pc = "idle"
  BY MotorDriverAssumption DEF Init, Idle
<1>4. motor.enable = "Idle" /\ ~motor.recover /\ motor.setpoint = "Idle"
  BY DEF Init
<1>5. QED
  BY <1>2, <1>3, <1>4 DEF Intended, EnergisedByIntent, Unasked, disable_voltage,
     enable_operation, new_setpoint_edge

\* The turn of OnSync, while the application has asked for nothing.
LEMMA AdvanceUnasked ==
    ASSUME NEW m \in Motor, NEW late \in BOOLEAN, m.homing = "Idle", Unasked(m)
    PROVE  \A n \in Advance(m, late) : Unasked(n)
<1>1. ~StopTurn(m) /\ ~HomingTurn(m)
  BY DEF Unasked, StopTurn, HomingTurn, HomingActive
<1>2. ASSUME NEW cw \in {disable_voltage, shutdown, fault_reset}
      PROVE  Unasked([m EXCEPT !.cw = cw]) /\ Unasked([m EXCEPT !.cw = cw, !.enable = "Idle"])
  BY DEF Unasked, Motor, disable_voltage, shutdown, fault_reset, enable_operation,
     new_setpoint_edge
<1>3. CASE m.enable = "FaultReset"
  <2>1. Advance(m, late) = {advanceEnableLadder(m, late)}
    BY <1>1, <1>3 DEF Advance, LadderTurn
  <2>2. LadderWord[m.enable] = fault_reset /\ ~m.recover
    BY <1>3 DEF LadderWord, Unasked
  <2>3. Unasked(advanceEnableLadder(m, late))
    BY <1>2, <1>3, <2>2 DEF advanceEnableLadder, LadderFail
  <2>4. QED
    BY <2>1, <2>3
<1>4. CASE m.enable = "Idle"
  BY <1>1, <1>4 DEF Advance, LadderTurn, Unasked
<1>5. QED
  BY <1>3, <1>4 DEF Unasked

\* No turn of OnSync changes what the application asked for.
LEMMA AdvanceKeepsIntent ==
    ASSUME NEW m \in Motor, NEW late \in BOOLEAN, m.homing = "Idle"
    PROVE  \A n \in Advance(m, late) : n.want = m.want
<1>1. advanceGracefulStop(m, late).want = m.want
  BY DEF advanceGracefulStop, Motor
<1>2. advanceEnableLadder(m, late).want = m.want
  BY DEF advanceEnableLadder, LadderFail, LadderEnter, Motor
<1>3. \A n \in advanceProfileSetpoint(m) : n.want = m.want
  BY DEF advanceProfileSetpoint, Motor
<1>4. QED
  BY <1>1, <1>2, <1>3 DEF Advance, HomingTurn, HomingActive

LEMMA SyncIntended ==
    ASSUME TypeOK, NoHoming, Calm, Intended, OnSync
    PROVE  Intended'
<1> DEFINE m == RefreshFeedback(motor)
<1>1. PICK late \in BOOLEAN : OnSyncAt(late)
  BY DEF OnSync
<1>2. m \in Motor /\ m.homing = "Idle"
  BY OnSyncTypes DEF RefreshFeedback, TypeOK, Motor, NoHoming
<1>3. /\ m.stop = motor.stop /\ m.cyclic = motor.cyclic /\ m.stale = motor.stale
      /\ m.want = motor.want /\ m.cw = motor.cw
      /\ Unasked(motor) => Unasked(m)
  BY DEF RefreshFeedback, TypeOK, Motor, Unasked
<1>4. Watchdog(m) = m
  BY <1>3 DEF Watchdog, feedbackStale, Calm
<1>5. \A f \in Fibers : fibers'[f].pc = fibers[f].pc
  BY <1>1 DEF OnSyncAt, CountSync, TypeOK, Fiber
<1>6. motor' \in Motor
  BY <1>1, SyncStepTypes DEF TypeOK, OnSync
<1>7. CASE ~motor.cyclic
  <2>1. motor' = m /\ wire' = wire
    BY <1>1, <1>3, <1>4, <1>7 DEF OnSyncAt
  <2>2. QED
    BY <1>3, <1>5, <2>1 DEF Intended, EnergisedByIntent
<1>8. CASE motor.cyclic
  <2>1. motor' \in Advance(m, late) /\ wire' = motor'.cw
    BY <1>1, <1>3, <1>4, <1>8 DEF OnSyncAt
  <2>2. motor'.want = motor.want
    BY <1>2, <1>3, <2>1, AdvanceKeepsIntent
  <2>3. motor'.cw \in Controlword
    BY <1>6 DEF Motor
  <2>4. CASE motor.stop = "DisableVoltage"
    <3>1. motor' = advanceGracefulStop(m, late)
      BY <1>2, <1>3, <2>1, <2>4 DEF Advance, StopTurn, LadderTurn, HomingTurn
    <3>2. motor'.cw = disable_voltage /\ motor'.stop # "None"
      BY <1>2, <1>3, <2>4, <3>1 DEF advanceGracefulStop, Motor
    <3>3. ~Energising(wire')
      BY <2>1, <2>3, <3>2, EnergisingWords
         DEF disable_voltage, enable_operation, new_setpoint_edge
    <3>4. QED
      BY <3>2, <3>3 DEF Intended, EnergisedByIntent
  <2>5. CASE motor.stop = "None" /\ ~motor.want
    <3>1. Unasked(motor')
      BY <1>2, <1>3, <2>1, <2>5, AdvanceUnasked DEF Intended
    <3>2. ~Energising(wire')
      BY <2>1, <2>3, <3>1, EnergisingWords DEF Unasked
    <3>3. QED
      BY <1>5, <2>5, <3>1, <3>2 DEF Intended, EnergisedByIntent
  <2>6. CASE motor.want
    BY <2>2, <2>6 DEF Intended, EnergisedByIntent
  <2>7. motor.stop # "Done"
    BY <1>8 DEF Calm
  <2>8. QED
    BY <2>4, <2>5, <2>6, <2>7 DEF TypeOK, Motor, StopPhase
<1>9. QED
  BY <1>7, <1>8

LEMMA RequestIntended ==
    ASSUME SingleCaller, Requests \cap {"homing", "move"} = {}, TypeOK, Calm, Intended,
           Request
    PROVE  Intended'
<1>1. motor \in Motor
  BY DEF TypeOK
<1>2. ~Energising(disable_voltage)
  BY EnergisingWords DEF Controlword, disable_voltage, enable_operation, new_setpoint_edge
<1>3. CASE Stop
  <2>1. motor' = requestGracefulStop(motor) /\ UNCHANGED <<fibers, wire>>
    BY <1>3 DEF Stop, Immediate
  <2>2. CASE motor.stop # "None"
    BY <2>1, <2>2 DEF requestGracefulStop, Intended, EnergisedByIntent
  <2>3. CASE motor.stop = "None" /\ ~motor.cyclic
    <3>1. wire = disable_voltage /\ motor'.stop = "Done"
      BY <1>1, <2>1, <2>3 DEF requestGracefulStop, Motor, Calm
    <3>2. QED
      BY <1>2, <2>1, <3>1 DEF Intended, EnergisedByIntent
  <2>4. CASE motor.stop = "None" /\ motor.cyclic
    <3>1. motor'.stop = "DisableVoltage"
      BY <1>1, <2>1, <2>4 DEF requestGracefulStop, Motor
    <3>2. QED
      BY <3>1 DEF Intended, EnergisedByIntent
  <2>5. QED
    BY <2>2, <2>3, <2>4
<1>4. CASE QuickStop \/ ResetFault
  <2>1. /\ motor' \in {requestQuickStop(motor), requestFaultReset(motor)}
        /\ UNCHANGED <<fibers, wire>>
    BY <1>4 DEF QuickStop, ResetFault, Immediate
  <2>2. /\ requestQuickStop(motor).want = motor.want
        /\ requestQuickStop(motor).stop = motor.stop
        /\ Unasked(motor) => Unasked(requestQuickStop(motor))
    BY <1>1 DEF requestQuickStop, Motor, Unasked, quick_stop, enable_operation, new_setpoint_edge
  <2>3. /\ requestFaultReset(motor).want = motor.want
        /\ requestFaultReset(motor).stop = motor.stop
        /\ Unasked(motor) => Unasked(requestFaultReset(motor))
    BY <1>1 DEF requestFaultReset, Motor, Unasked
  <2>4. /\ motor'.want = motor.want /\ motor'.stop = motor.stop
        /\ Unasked(motor) => Unasked(motor')
    BY <2>1, <2>2, <2>3
  <2>5. QED
    BY <2>1, <2>4 DEF Intended, EnergisedByIntent
<1>5. ASSUME NEW f \in Fibers, requestEnableOperation(f) PROVE Intended'
  <2>1. motor'.want
    BY <1>1, <1>5 DEF requestEnableOperation, Start, Motor
  <2>2. QED
    BY <2>1 DEF Intended, EnergisedByIntent
<1>6. ASSUME NEW f \in Fibers, requestOperationMode(f) PROVE Intended'
  <2>1. /\ motor' = motor /\ UNCHANGED wire
        /\ fibers' = [fibers EXCEPT ![f] = [Idle EXCEPT !.pc = "mode"]]
    BY <1>6 DEF requestOperationMode, Start
  <2>2. [Idle EXCEPT !.pc = "mode"].pc = "mode"
    BY DEF Idle
  <2>3. QED
    BY <2>1, <2>2 DEF Intended, EnergisedByIntent, TypeOK
<1>7. ~Move /\ \A f \in Fibers : ~requestHoming(f)
  BY DEF Move, requestHoming, Immediate, Start, MayCall
<1>8. QED
  BY <1>3, <1>4, <1>5, <1>6, <1>7 DEF Request, OtherRequest

LEMMA FiberIntended ==
    ASSUME TypeOK, NoHoming, Calm, Intended, NEW f \in Fibers, FiberStep(f)
    PROVE  Intended'
<1>1. motor \in Motor /\ wire' = wire
  BY FiberKeepsNoHoming DEF TypeOK
<1>2. CASE fibers[f].pc \in {"idle", "mode"}
  <2>1. motor' = motor /\ fibers' = [fibers EXCEPT ![f] = Idle]
    BY <1>2 DEF FiberStep, Poll, Throw, ImageZeroed, ImagePrimed, ImageStreamed,
       PulseEnds, WaitAgain, WaitEnds, Waits, ModeWritten, Awaited, At, Resume, Suspended
  <2>2. Idle.pc = "idle"
    BY DEF Idle
  <2>3. QED
    BY <1>1, <2>1, <2>2 DEF Intended, EnergisedByIntent, TypeOK
<1>3. CASE fibers[f].pc \notin {"idle", "mode"}
  <2>1. motor.want
    BY <1>3 DEF Calm, Intended
  <2> DEFINE Kept(n) == n.want
  <2>2. ASSUME NEW n, NEW fiber, Kept(n), Resume(f, n, fiber) PROVE motor'.want
    BY <2>2 DEF Resume
  <2>3. ASSUME NEW cw
        PROVE  /\ Kept([motor EXCEPT !.cw = cw])
               /\ Kept([motor EXCEPT !.cw = cw, !.cyclic = TRUE])
               /\ Kept(startHoming([motor EXCEPT !.cw = cw]))
               /\ Kept(startHoming(motor)) /\ Kept(motor)
    BY <1>1, <2>1 DEF startHoming, Motor
  <2> HIDE DEF Kept
  <2>4. motor'.want
    <3>1. CASE Poll(f) \/ Throw(f) \/ WaitAgain(f) \/ ModeWritten(f)
      BY <2>2, <2>3, <3>1 DEF Poll, Throw, WaitAgain, ModeWritten
    <3>2. CASE ImageZeroed(f) \/ ImagePrimed(f) \/ PulseEnds(f)
      BY <2>2, <2>3, <3>2 DEF ImageZeroed, ImagePrimed, PulseEnds
    <3>3. CASE ImageStreamed(f)
      BY <2>2, <2>3, <3>3 DEF ImageStreamed, Enabled
    <3>4. CASE WaitEnds(f)
      BY <2>2, <2>3, <3>4 DEF WaitEnds, Enabled
    <3>5. QED
      BY <3>1, <3>2, <3>3, <3>4 DEF FiberStep
  <2>5. QED
    BY <2>4 DEF Intended, EnergisedByIntent
<1>4. QED
  BY <1>2, <1>3

LEMMA IntendedStep ==
    ASSUME SingleCaller, Requests \cap {"homing", "move"} = {}, Disturbances \subseteq {"fault"},
           TypeOK, NoHoming, Unbooted, Calm, Intended, [Next]_vars
    PROVE  Intended'
<1>1. motor \in Motor /\ motor.homing = "Idle"
  BY DEF TypeOK, NoHoming
<1>2. CASE OnSync
  BY <1>2, SyncIntended
<1>3. ~OnSyncSuspends
  <2> DEFINE m == Watchdog(RefreshFeedback(motor))
  <2>1. RefreshFeedback(motor) \in Motor /\ RefreshFeedback(motor).homing = "Idle"
    BY <1>1, OnSyncTypes, OperatorsKeepIdle
  <2>2. m.homing = "Idle"
    BY <2>1, OperatorsKeepIdle
  <2>3. QED
    BY <2>2 DEF OnSyncSuspends, HomingTurn, HomingActive
<1>4. \A x \in Exchange : ~ExchangeReturns(x)
  BY DEF ExchangeReturns, NoHoming
<1>5. CASE Request
  BY <1>5, RequestIntended
<1>6. CASE \E f \in Fibers : FiberStep(f)
  BY <1>6, FiberIntended
<1>7. CASE OnRpdoWrite
  <2>1. /\ motor'.want = motor.want /\ motor'.stop = motor.stop
        /\ Unasked(motor) => Unasked(motor')
        /\ UNCHANGED <<fibers, wire>>
    BY <1>1, <1>7 DEF OnRpdoWrite, Motor, Unasked
  <2>2. QED
    BY <2>1 DEF Intended, EnergisedByIntent
<1>8. ~OnHeartbeat /\ ~Silence
  BY DEF OnHeartbeat, Silence
<1>9. CASE DriveStep \/ DriveFaults \/ UNCHANGED vars
  BY <1>9 DEF DriveStep, DriveFaults, vars, Intended, EnergisedByIntent
<1>10. CASE Boots
  <2>1. /\ motor.want = BootEnables /\ UNCHANGED <<motor, wire>>
        /\ ~BootEnables => fibers' = fibers
    BY <1>10 DEF Boots, OnBoot, Unbooted
  <2>2. QED
    BY <2>1 DEF Intended, EnergisedByIntent
<1>11. ~DriveRestarts
  BY DEF DriveRestarts
<1>12. QED
  BY <1>2, <1>3, <1>4, <1>5, <1>6, <1>7, <1>8, <1>9, <1>10, <1>11 DEF Next, Runs

\* Until a stop has run, or after it, the drive hears an energising word only if
\* the application's last word was to enable, whatever faults, resets and quick
\* stops come between.  A move stages such a word in every state of the drive, so
\* an application that also moves does not have it.
THEOREM EnergisedOnlyByIntent ==
    ASSUME SingleCaller, Requests \cap {"homing", "move"} = {}, Disturbances \subseteq {"fault"}
    PROVE  Spec => []EnergisedByIntent
<1>1. TypeOK /\ NoHoming /\ Respected(motor) /\ [Next]_vars
          => NoHoming' /\ Respected(motor)'
  BY NoHomingStep
<1>2. /\ TypeOK /\ Unbooted /\ [Next]_vars => Unbooted'
      /\ TypeOK /\ NoHoming /\ Unbooted /\ Calm /\ [Next]_vars => Calm'
  BY UnbootedStep, CalmStep
<1>3. TypeOK /\ NoHoming /\ Unbooted /\ Calm /\ Intended /\ [Next]_vars => Intended'
  BY IntendedStep
<1>4. Intended => EnergisedByIntent
  BY DEF Intended
<1>5. QED
  BY <1>1, <1>2, <1>3, <1>4, CalmInit, UnbootedInit, IntendedInit, NoHomingInit, TypeCorrect, PTL DEF Spec
-----------------------------------------------------------------------------
(* ------------------------ what a quick stop holds ----------------------- *)

\* Nothing in the object, in OnSync or in a request would stage another word
\* than the quick stop's, or a stop's.
HoldWord(m) == m.cw = quick_stop \/ (m.cw = disable_voltage /\ m.stop # "None")
Settled(m) == /\ m.setpoint = "Idle" /\ m.enable = "Idle" /\ ~HomingActive(m)
              /\ HoldWord(m)
Held == held => /\ Settled(motor)
                /\ \A f \in Fibers : fibers[f].pc = "idle"
                /\ \A x \in Exchange : exchanges[x] = 0

LEMMA StopSettles ==
    ASSUME NEW m \in Motor, NEW late \in BOOLEAN, Settled(m)
    PROVE  /\ Settled(requestGracefulStop(m)) /\ Settled(handleNodeLoss(m, late))
           /\ Settled(requestQuickStop(m)) /\ Settled(RefreshFeedback(m))
           /\ Settled(Watchdog(m))
           /\ \A next \in Advance(m, late) : Settled(next)
<1>1. Settled(requestGracefulStop(m)) /\ Settled(handleNodeLoss(m, late))
  BY DEF Settled, HoldWord, requestGracefulStop, handleNodeLoss, HomingActive, Motor
<1>2. Settled(requestQuickStop(m)) /\ Settled(RefreshFeedback(m))
  BY DEF Settled, HoldWord, requestQuickStop, RefreshFeedback, HomingActive, Motor
<1>3. Settled(Watchdog(m))
  BY <1>1 DEF Watchdog, Settled
<1>4. ASSUME m.stop = "DisableVoltage" PROVE Settled(advanceGracefulStop(m, late))
  BY <1>4 DEF Settled, HoldWord, advanceGracefulStop, HomingActive, Motor
<1>5. ~LadderTurn(m) /\ ~HomingTurn(m) /\ m.setpoint = "Idle"
  BY DEF Settled, LadderTurn, HomingTurn
<1>6. \A next \in Advance(m, late) : Settled(next)
  BY <1>4, <1>5 DEF Advance, StopTurn
<1>7. QED
  BY <1>1, <1>2, <1>3, <1>6

LEMMA HeldStep ==
    ASSUME SingleCaller, TypeOK, Held, [HoldNext]_holdVars
    PROVE  Held' /\ (held /\ held' => wire' \in {wire, motor'.cw})
<1>1. motor \in Motor
  BY DEF TypeOK
<1>2. ASSUME UNCHANGED <<fibers, exchanges, wire>>, held' = held,
             held => Settled(motor')
      PROVE  Held' /\ (held /\ held' => wire' \in {wire, motor'.cw})
  BY <1>2 DEF Held
<1>3. CASE QuickStop /\ held' = (held \/ TakesEffect)
  <2>1. /\ motor' = requestQuickStop(motor) /\ UNCHANGED <<fibers, exchanges, wire>>
        /\ \A f \in Fibers : fibers[f].pc = "idle"
    BY <1>3 DEF QuickStop, Immediate, MayCall, Suspended
  <2>2. held => Settled(motor')
    BY <1>1, <2>1, StopSettles DEF Held
  <2>3. TakesEffect => Settled(motor')
    <3>1. SUFFICES ASSUME TakesEffect PROVE Settled(motor')
      OBVIOUS
    <3>2. /\ motor'.setpoint = "Idle" /\ motor'.enable = "Idle"
          /\ motor'.cw = quick_stop
          /\ motor'.homing = IF HomingActive(motor) THEN "Failed" ELSE motor.homing
      BY <1>1, <2>1, <3>1 DEF TakesEffect, requestQuickStop, Motor
    <3>3. QED
      BY <3>2 DEF Settled, HoldWord, HomingActive
  <2>4. TakesEffect => \A x \in Exchange : exchanges[x] = 0
    BY DEF TakesEffect
  <2>5. QED
    BY <1>3, <2>1, <2>2, <2>3, <2>4 DEF Held
<1>4. CASE (OtherRequest \/ Boots) /\ held' = FALSE
  BY <1>4 DEF Held
<1>5. CASE Runs /\ held' = held /\ ~held
  BY <1>5 DEF Held
<1>6. CASE Runs /\ held' = held /\ held
  <2>1. /\ Settled(motor) /\ \A f \in Fibers : fibers[f].pc = "idle"
        /\ \A x \in Exchange : exchanges[x] = 0
    BY <1>6 DEF Held
  <2> DEFINE r == RefreshFeedback(motor)
             m == Watchdog(r)
  <2>2. r \in Motor /\ m \in Motor /\ Settled(m)
    <3>1. r \in Motor /\ Settled(r)
      BY <1>1, <2>1, StopSettles, OnSyncTypes
    <3>2. QED
      BY <3>1, StopSettles, OnSyncTypes
  <2>3. CASE OnSync
    <3>1. PICK late \in BOOLEAN : OnSyncAt(late)
      BY <2>3 DEF OnSync
    <3>2. Settled(motor') /\ wire' \in {wire, motor'.cw}
      BY <2>2, <3>1, StopSettles DEF OnSyncAt
    <3>3. /\ \A f \in Fibers : fibers'[f].pc = fibers[f].pc
          /\ UNCHANGED exchanges
      BY <3>1 DEF OnSyncAt, CountSync, TypeOK, Fiber
    <3>4. QED
      BY <2>1, <3>2, <3>3 DEF Held
  <2>4. ~OnSyncSuspends
    BY <2>2 DEF OnSyncSuspends, HomingTurn, Settled
  <2>5. \A x \in Exchange : ~ExchangeReturns(x)
    BY <2>1 DEF ExchangeReturns
  <2>6. \A f \in Fibers : ~FiberStep(f)
    BY <2>1 DEF FiberStep, Poll, Throw, ImageZeroed, ImagePrimed, ImageStreamed,
       PulseEnds, WaitAgain, WaitEnds, Waits, ModeWritten, Awaited, At, Suspended
  <2>7. CASE OnRpdoWrite \/ Silence
    <3>1. Settled(motor')
      BY <1>1, <2>1, <2>7 DEF OnRpdoWrite, Silence, Settled, HoldWord, HomingActive, Motor
    <3>2. QED
      BY <1>2, <1>6, <2>7, <3>1 DEF OnRpdoWrite, Silence
  <2>8. CASE OnHeartbeat
    BY <1>1, <1>2, <1>6, <2>1, <2>8, StopSettles DEF OnHeartbeat
  <2>9. CASE DriveStep \/ DriveFaults \/ DriveRestarts
    BY <1>2, <1>6, <2>1, <2>9 DEF DriveStep, DriveFaults, DriveRestarts
  <2>10. QED
    BY <1>6, <2>3, <2>4, <2>5, <2>6, <2>7, <2>8, <2>9 DEF Runs
<1>7. CASE UNCHANGED holdVars
  BY <1>2, <1>7 DEF holdVars, vars, Held
<1>8. QED
  BY <1>3, <1>4, <1>5, <1>6, <1>7 DEF HoldNext

\* A quick stop that took effect is the last word the drive hears until the
\* application asks for something else or the drive boots again: neither a
\* ladder, a handshake nor a homing it interrupted goes on, and a watchdog or a
\* lost node makes it a stop.  It rests on the application's waiting: a fiber
\* suspended in an enable goes on.
THEOREM QuickStopsHold ==
    ASSUME SingleCaller
    PROVE  HoldSpec => QuickStopHolds
<1>1. HoldInit => TypeOK /\ Held
  BY InitTypes DEF HoldInit, Held
<1>2. TypeOK /\ [HoldNext]_holdVars => TypeOK'
  BY StepTypes DEF HoldNext, holdVars, Next, Request
<1>3. TypeOK /\ Held /\ [HoldNext]_holdVars => Held'
  BY HeldStep
<1>4. TypeOK /\ Held /\ [HoldNext]_holdVars
          => [held /\ held' /\ wire' # wire
              => \/ wire' = quick_stop
                 \/ wire' = disable_voltage /\ motor'.stop # "None"]_holdVars
  BY HeldStep DEF Held, Settled, HoldWord
<1>5. QED
  BY <1>1, <1>2, <1>3, <1>4, PTL DEF HoldSpec, QuickStopHolds
-----------------------------------------------------------------------------
(* ----------------- the old mode comes back without power ---------------- *)

\* The phases from the centre on, in which homing leaves the drive's mode; and
\* the states out of which neither of the two words it then sends brings power.
Returning == {"ZeroAtCenter", "RestoreDisable", "RestoreMode"}
ReturnWords == {enable_operation, disable_voltage}
Unpowered == {"NotReadyToSwitchOn", "SwitchOnDisabled", "FaultReactionActive", "Fault"}

\* What holds of the object: the feedback is the last frame's or none yet, the
\* ladder is homing's own, and nothing but homing writes while it returns.
Returned(m) ==
    /\ ~m.stale /\ (~m.seen => m.state = "Unknown")
    /\ m.enable # "Idle" => m.homing = "RestoreEnable"
    /\ m.homing \in Returning => m.cw \in ReturnWords

\* A homing runs alone, and what the driver last heard of a drive without power
\* is true of it for as long as homing returns.
HomingAlone ==
    /\ Returned(motor)
    /\ \A f, g \in Fibers : Suspended(f) /\ Suspended(g) => f = g
    /\ HomingActive(motor) => \A f \in Fibers : fibers[f].pc \in {"idle", "mode"}
    /\ \A x \in Exchange : exchanges[x] > 0 => motor.homing = x
    /\ motor.homing \in Returning =>
           /\ wire \in ReturnWords
           /\ tpdo.state \in DeEnergized => drive.state \in Unpowered
    /\ motor.homing = "RestoreMode" => drive.state \in Unpowered

\* A step of OnSync enters the phases that return only from a drive that reports
\* operation enabled, and the last of them only from one that reports no power.
Advances(m, next) ==
    /\ next.stale = m.stale /\ next.seen = m.seen /\ next.state = m.state
    /\ next.enable # "Idle" => next.homing = "RestoreEnable"
    /\ next.homing \in Returning => next.cw \in ReturnWords
    /\ HomingActive(next) => HomingActive(m)
    /\ m.inFlight => next.homing = m.homing
    /\ next.homing \in Returning /\ next.homing # m.homing
       => \/ next.homing = "ZeroAtCenter" /\ m.state = "OperationEnabled"
          \/ /\ next.homing = "RestoreMode" /\ m.homing = "RestoreDisable"
             /\ m.state \in DeEnergized

LEMMA HomingAdvances ==
    ASSUME NEW m \in Motor, NEW late \in BOOLEAN, HomingTurn(m),
           NEW next \in advanceHoming(m, late), Returned(m)
    PROVE  Advances(m, next)
<1>1. HomingActive(m) /\ m.enable = "Idle"
  BY DEF HomingTurn, LadderTurn
<1>2. ASSUME NEW cw \in ReturnWords, NEW n, n = [m EXCEPT !.cw = cw]
      PROVE  Advances(m, n)
  <2>1. /\ n.stale = m.stale /\ n.seen = m.seen /\ n.state = m.state
        /\ n.enable = "Idle" /\ n.cw = cw /\ n.homing = m.homing
    BY <1>1, <1>2 DEF Motor
  <2>2. QED
    BY <1>1, <1>2, <2>1 DEF Advances, HomingActive
<1>3. ASSUME NEW cw, NEW phase, phase \notin Returning, NEW n,
             n = [m EXCEPT !.cw = cw, !.homing = phase], ~m.inFlight
      PROVE  Advances(m, n)
  <2>1. /\ n.stale = m.stale /\ n.seen = m.seen /\ n.state = m.state
        /\ n.enable = "Idle" /\ n.homing = phase
    BY <1>1, <1>3 DEF Motor
  <2>2. QED
    BY <1>1, <1>3, <2>1 DEF Advances
<1>4. CASE m.inFlight
  <2>1. next = m
    BY <1>4 DEF advanceHoming
  <2>2. QED
    BY <1>1, <2>1 DEF Advances, Returned
<1>5. CASE ~m.inFlight /\ HomingAborts(m, late)
  <2>1. next = [m EXCEPT !.cw = enable_operation, !.homing = "Failed"]
    BY <1>5 DEF advanceHoming, failHoming
  <2>2. QED
    BY <1>3, <1>5, <2>1 DEF Returning
<1>6. CASE ~m.inFlight /\ ~HomingAborts(m, late)
  <2> DEFINE on == [m EXCEPT !.cw = enable_operation]
             off == [m EXCEPT !.cw = disable_voltage]
  <2>1. next \in HomingProgress(m)
    BY <1>6 DEF advanceHoming
  <2>2. /\ Advances(m, on) /\ Advances(m, off)
    BY <1>2 DEF ReturnWords
  <2>3. Advances(m, failHoming(m))
    BY <1>3, <1>6 DEF failHoming, Returning
  <2>4. CASE m.homing = "Motion"
    <3>1. m.state = "OperationEnabled"
      BY <1>6, <2>4 DEF HomingAborts, CsvPhase
    <3>2. Advances(m, [on EXCEPT !.homing = "ZeroAtCenter"])
      <4> DEFINE n == [m EXCEPT !.cw = enable_operation, !.homing = "ZeroAtCenter"]
      <4>1. /\ n.stale = m.stale /\ n.seen = m.seen /\ n.state = m.state
            /\ n.enable = "Idle" /\ n.cw = enable_operation /\ n.homing = "ZeroAtCenter"
        BY <1>1 DEF Motor
      <4>2. n = [on EXCEPT !.homing = "ZeroAtCenter"]
        BY DEF Motor
      <4> HIDE DEF n
      <4>3. Advances(m, n)
        BY <1>1, <1>6, <3>1, <4>1 DEF Advances, ReturnWords
      <4>4. QED
        BY <4>2, <4>3
    <3>3. QED
      BY <2>1, <2>2, <2>3, <2>4, <3>2 DEF HomingProgress
  <2>5. CASE m.homing = "RestoreDisable"
    <3>1. ASSUME isDriveDeEnergized(m)
          PROVE  Advances(m, [off EXCEPT !.homing = "RestoreMode"])
      <4> DEFINE n == [m EXCEPT !.cw = disable_voltage, !.homing = "RestoreMode"]
      <4>1. /\ n.stale = m.stale /\ n.seen = m.seen /\ n.state = m.state
            /\ n.enable = "Idle" /\ n.cw = disable_voltage /\ n.homing = "RestoreMode"
        BY <1>1 DEF Motor
      <4>2. n = [off EXCEPT !.homing = "RestoreMode"]
        BY DEF Motor
      <4> HIDE DEF n
      <4>3. Advances(m, n)
        BY <1>1, <1>6, <2>5, <3>1, <4>1 DEF Advances, ReturnWords, isDriveDeEnergized
      <4>4. QED
        BY <4>2, <4>3
    <3>2. Advances(m, [off EXCEPT !.homing = "Done", !.cyclic = m.restoreOn])
      <4> DEFINE n == [off EXCEPT !.homing = "Done", !.cyclic = m.restoreOn]
      <4>1. /\ n.stale = m.stale /\ n.seen = m.seen /\ n.state = m.state
            /\ n.enable = "Idle" /\ n.homing = "Done"
        BY <1>1 DEF Motor
      <4> HIDE DEF n
      <4>2. QED
        BY <1>1, <1>6, <4>1 DEF Advances, Returning
    <3>3. QED
      BY <2>1, <2>2, <2>5, <3>1, <3>2 DEF HomingProgress
  <2>6. CASE m.homing = "RestoreEnable"
    <3>1. [on EXCEPT !.homing = "Done"] = [m EXCEPT !.cw = enable_operation, !.homing = "Done"]
      BY DEF Motor
    <3>2. Advances(m, [on EXCEPT !.homing = "Done"])
      BY <1>3, <1>6, <3>1 DEF Returning
    <3>3. QED
      BY <2>1, <2>3, <2>6, <3>2 DEF HomingProgress
  <2>7. CASE m.homing \notin {"Motion", "RestoreDisable", "RestoreEnable"}
    BY <2>1, <2>3, <2>7 DEF HomingProgress
  <2>8. QED
    BY <2>4, <2>5, <2>6, <2>7
<1>7. QED
  BY <1>4, <1>5, <1>6

LEMMA AdvanceAdvances ==
    ASSUME NEW m \in Motor, NEW late \in BOOLEAN, Returned(m),
           NEW next \in Advance(m, late)
    PROVE  Advances(m, next)
<1> DEFINE Same(n) == /\ n.stale = m.stale /\ n.seen = m.seen /\ n.state = m.state
                      /\ n.homing = m.homing
                      /\ n.enable # "Idle" => m.enable # "Idle"
<1>1. CASE StopTurn(m)
  <2>1. next = advanceGracefulStop(m, late)
    BY <1>1 DEF Advance, LadderTurn, HomingTurn
  <2>2. Same(next) /\ next.cw = disable_voltage
    BY <2>1 DEF advanceGracefulStop, Motor
  <2>3. QED
    BY <2>2 DEF Advances, Returned, ReturnWords, HomingActive
<1>2. CASE LadderTurn(m)
  <2>1. next = advanceEnableLadder(m, late) /\ m.enable # "Idle"
    BY <1>2 DEF Advance, LadderTurn, HomingTurn
  <2>2. Same(next)
    BY <2>1 DEF advanceEnableLadder, LadderFail, LadderEnter, Motor
  <2>3. m.homing = "RestoreEnable"
    BY <2>1 DEF Returned
  <2>4. QED
    BY <2>1, <2>2, <2>3 DEF Advances, Returning, HomingActive
<1>3. CASE HomingTurn(m)
  <2>1. next \in advanceHoming(m, late)
    BY <1>3 DEF Advance, LadderTurn, HomingTurn
  <2>2. QED
    BY <1>3, <2>1, HomingAdvances
<1>4. CASE ~StopTurn(m) /\ ~LadderTurn(m) /\ ~HomingTurn(m)
  <2>1. ~HomingActive(m) /\ m.enable = "Idle"
    BY <1>4 DEF HomingTurn, LadderTurn
  <2>2. next = m \/ next \in advanceProfileSetpoint(m)
    BY <1>4 DEF Advance
  <2>3. Same(next)
    BY <2>2 DEF advanceProfileSetpoint, Motor
  <2>4. QED
    BY <2>1, <2>3 DEF Advances, Returning, HomingActive
<1>5. QED
  BY <1>1, <1>2, <1>3, <1>4

\* What OnSync works on after it has refreshed the feedback.
LEMMA FreshFeedback ==
    ASSUME TypeOK, Returned(motor), NEW m, m = Watchdog(RefreshFeedback(motor))
    PROVE  /\ m \in Motor /\ Returned(m)
           /\ m.homing = motor.homing /\ m.inFlight = motor.inFlight
           /\ m.state \in {"Unknown", tpdo.state}
<1>1. motor \in Motor /\ RefreshFeedback(motor) \in Motor
  BY OnSyncTypes DEF TypeOK
<1>2. /\ RefreshFeedback(motor).stale = motor.stale
      /\ RefreshFeedback(motor).seen = motor.seen
      /\ RefreshFeedback(motor).enable = motor.enable
      /\ RefreshFeedback(motor).homing = motor.homing
      /\ RefreshFeedback(motor).inFlight = motor.inFlight
      /\ RefreshFeedback(motor).cw = motor.cw
  BY <1>1 DEF RefreshFeedback, Motor
<1>3. /\ motor.seen => RefreshFeedback(motor).state = tpdo.state
      /\ ~motor.seen => RefreshFeedback(motor).state = motor.state
  BY <1>1 DEF RefreshFeedback, Motor
<1>4. ~RefreshFeedback(motor).stale
  BY <1>2 DEF Returned
<1>5. m = RefreshFeedback(motor)
  BY <1>4 DEF Watchdog, feedbackStale
<1>6. /\ m.enable # "Idle" => m.homing = "RestoreEnable"
      /\ m.homing \in Returning => m.cw \in ReturnWords
  BY <1>2, <1>5 DEF Returned
<1>7. ~m.seen => m.state = "Unknown"
  BY <1>2, <1>3, <1>5 DEF Returned
<1>8. Returned(m)
  BY <1>4, <1>5, <1>6, <1>7 DEF Returned
<1>9. m.state \in {"Unknown", tpdo.state}
  BY <1>2, <1>3, <1>5 DEF Returned
<1>10. QED
  BY <1>1, <1>2, <1>5, <1>8, <1>9

\* SYNC cycles are counted without a request moving on.
LEMMA CountingKeepsFibers ==
    ASSUME TypeOK, CountSync
    PROVE  \A f \in Fibers : fibers'[f].pc = fibers[f].pc
  BY DEF CountSync, TypeOK, Fiber

LEMMA SyncKeepsHomingAlone ==
    ASSUME TypeOK, Accounted, HomingAlone, OnSync
    PROVE  HomingAlone'
<1>1. PICK late \in BOOLEAN : OnSyncAt(late)
  BY DEF OnSync
<1>2. PICK m : m = Watchdog(RefreshFeedback(motor))
  OBVIOUS
<1>3. /\ m \in Motor /\ Returned(m)
      /\ m.homing = motor.homing /\ m.inFlight = motor.inFlight
      /\ m.state \in {"Unknown", tpdo.state}
  BY <1>2, FreshFeedback DEF HomingAlone
<1>4. /\ \/ ~m.cyclic /\ motor' = m /\ UNCHANGED wire
         \/ m.cyclic /\ \E next \in Advance(m, late) : motor' = next /\ wire' = next.cw
      /\ CountSync
      /\ UNCHANGED <<exchanges, tpdo, drive>>
  BY <1>1, <1>2 DEF OnSyncAt
<1>5. Advances(m, motor')
  <2>1. Advances(m, m)
    BY <1>3 DEF Advances, Returned
  <2>2. QED
    BY <1>3, <1>4, <2>1, AdvanceAdvances
<1>6. Returned(motor')
  BY <1>3, <1>5 DEF Advances, Returned
<1>7. HomingActive(motor') => HomingActive(motor)
  <2>1. HomingActive(m) <=> HomingActive(motor)
    BY <1>3 DEF HomingActive
  <2>2. QED
    BY <1>5, <2>1 DEF Advances
<1>8. /\ \A f, g \in Fibers : Suspended(f)' /\ Suspended(g)' => f = g
      /\ HomingActive(motor') => \A f \in Fibers : fibers'[f].pc \in {"idle", "mode"}
  <2>1. \A f \in Fibers : fibers'[f].pc = fibers[f].pc
    BY <1>4, CountingKeepsFibers
  <2>2. QED
    BY <1>7, <2>1 DEF HomingAlone, Suspended
<1>9. ASSUME NEW x \in Exchange, exchanges'[x] > 0
      PROVE  motor'.homing = x
  <2>1. motor.homing = x /\ exchanges[x] > 0
    BY <1>4, <1>9 DEF HomingAlone
  <2>2. exchanges["ZeroAtCenter"] \in Nat /\ exchanges["RestoreMode"] \in Nat
    BY MotorDriverAssumption DEF TypeOK, Exchange
  <2>3. motor.inFlight
    BY <1>9, <2>1, <2>2 DEF Accounted, Exchange
  <2>4. QED
    BY <1>3, <1>5, <2>1, <2>3 DEF Advances
<1>10. CASE motor'.homing = motor.homing
  <2>1. motor'.homing \in Returning => wire' \in ReturnWords
    BY <1>4, <1>6, <1>10 DEF HomingAlone, Returned
  <2>2. QED
    BY <1>4, <1>6, <1>8, <1>9, <1>10, <2>1 DEF HomingAlone
<1>11. CASE motor'.homing # motor.homing /\ motor'.homing \in Returning
  <2>1. wire' \in ReturnWords
    BY <1>3, <1>4, <1>6, <1>11 DEF Returned
  <2>2. CASE motor'.homing = "ZeroAtCenter" /\ m.state = "OperationEnabled"
    <3>1. tpdo.state \notin DeEnergized
      BY <1>3, <2>2 DEF DeEnergized
    <3>2. QED
      BY <1>4, <1>6, <1>8, <1>9, <2>1, <2>2, <3>1 DEF HomingAlone
  <2>3. CASE /\ motor'.homing = "RestoreMode" /\ motor.homing = "RestoreDisable"
             /\ m.state \in DeEnergized
    <3>1. tpdo.state \in DeEnergized
      BY <1>3, <2>3 DEF DeEnergized
    <3>2. drive.state \in Unpowered
      BY <2>3, <3>1 DEF HomingAlone, Returning
    <3>3. QED
      BY <1>4, <1>6, <1>8, <1>9, <2>1, <3>2 DEF HomingAlone
  <2>4. QED
    BY <1>3, <1>5, <1>11, <2>2, <2>3 DEF Advances
<1>12. CASE motor'.homing # motor.homing /\ motor'.homing \notin Returning
  BY <1>6, <1>8, <1>9, <1>12 DEF HomingAlone, Returning
<1>13. QED
  BY <1>10, <1>11, <1>12

LEMMA SuspendKeepsHomingAlone ==
    ASSUME TypeOK, Accounted, HomingAlone, OnSyncSuspends
    PROVE  HomingAlone'
<1>1. PICK m : m = Watchdog(RefreshFeedback(motor))
  OBVIOUS
<1>2. m \in Motor /\ Returned(m) /\ m.homing = motor.homing /\ m.inFlight = motor.inFlight
  BY <1>1, FreshFeedback DEF HomingAlone
<1>3. /\ m.homing \in Exchange /\ ~m.inFlight
      /\ motor' = [m EXCEPT !.cw = enable_operation, !.inFlight = TRUE]
      /\ exchanges' = [exchanges EXCEPT ![m.homing] = @ + 1]
      /\ CountSync
      /\ drive'.state = drive.state
      /\ UNCHANGED <<wire, tpdo>>
  BY <1>1 DEF OnSyncSuspends, HomingSuspends, TypeOK, Drive
<1>4. /\ motor'.homing = motor.homing /\ motor'.cw = enable_operation
      /\ motor'.stale = m.stale /\ motor'.seen = m.seen /\ motor'.state = m.state
      /\ motor'.enable = m.enable
  BY <1>2, <1>3 DEF Motor
<1>5. Returned(motor')
  BY <1>2, <1>4 DEF Returned, ReturnWords
<1>6. \A f \in Fibers : fibers'[f].pc = fibers[f].pc
  BY <1>3, CountingKeepsFibers
<1>7. /\ \A f, g \in Fibers : Suspended(f)' /\ Suspended(g)' => f = g
      /\ HomingActive(motor') => \A f \in Fibers : fibers'[f].pc \in {"idle", "mode"}
  BY <1>4, <1>6 DEF HomingAlone, Suspended, HomingActive
<1>8. ASSUME NEW x \in Exchange, exchanges'[x] > 0 PROVE motor'.homing = x
  <2>1. exchanges["ZeroAtCenter"] \in Nat /\ exchanges["RestoreMode"] \in Nat
    BY MotorDriverAssumption DEF TypeOK, Exchange
  <2>2. exchanges["ZeroAtCenter"] = 0 /\ exchanges["RestoreMode"] = 0
    BY <1>2, <1>3, <2>1 DEF Accounted
  <2>3. x = m.homing
    BY <1>3, <1>8, <2>2 DEF Exchange, TypeOK
  <2>4. QED
    BY <1>2, <1>4, <2>3
<1>9. QED
  BY <1>3, <1>4, <1>5, <1>7, <1>8 DEF HomingAlone

LEMMA ReturnKeepsHomingAlone ==
    ASSUME TypeOK, Accounted, HomingAlone, NEW x \in Exchange, ExchangeReturns(x)
    PROVE  HomingAlone'
<1>1. motor \in Motor
  BY DEF TypeOK
<1>2. motor.homing = x /\ x \in {"ZeroAtCenter", "RestoreMode"}
  BY DEF ExchangeReturns, HomingAlone, Exchange
<1>3. /\ wire' = motor'.cw
      /\ exchanges' = [exchanges EXCEPT ![x] = @ - 1]
      /\ UNCHANGED <<fibers, tpdo, drive>>
  BY DEF ExchangeReturns
<1>4. \A y \in Exchange : exchanges'[y] = 0
  <2>1. exchanges["ZeroAtCenter"] \in Nat /\ exchanges["RestoreMode"] \in Nat
    BY MotorDriverAssumption DEF TypeOK, Exchange
  <2>2. exchanges[x] > 0
    BY DEF ExchangeReturns
  <2>3. exchanges["ZeroAtCenter"] + exchanges["RestoreMode"] <= 1
    BY <2>1 DEF Accounted
  <2>4. QED
    BY <1>2, <1>3, <2>1, <2>2, <2>3 DEF TypeOK, Exchange
<1>5. /\ \A f, g \in Fibers : Suspended(f)' /\ Suspended(g)' => f = g
      /\ \A f \in Fibers : fibers'[f].pc \in {"idle", "mode"}
  BY <1>2, <1>3 DEF HomingAlone, Suspended, HomingActive
<1>6. ~motor.stale /\ (~motor.seen => motor.state = "Unknown") /\ motor.enable = "Idle"
  BY <1>2 DEF HomingAlone, Returned
<1> DEFINE Heard == motor'.stale = motor.stale /\ motor'.seen = motor.seen
                    /\ motor'.state = motor.state
<1>7. CASE x = "ZeroAtCenter" /\ motor' = ZeroReturns(motor)
  <2>1. /\ Heard /\ motor'.enable = motor.enable
        /\ motor'.homing \in {"Done", "RestoreDisable"}
        /\ motor'.homing = "RestoreDisable" => motor'.cw = disable_voltage
    BY <1>1, <1>7 DEF ZeroReturns, Motor
  <2>2. Returned(motor')
    BY <1>6, <2>1 DEF Returned, Returning, ReturnWords
  <2>3. motor'.homing \in Returning => motor'.homing = "RestoreDisable"
    BY <2>1 DEF Returning
  <2>4. motor'.homing \in Returning =>
            /\ wire' \in ReturnWords
            /\ tpdo'.state \in DeEnergized => drive'.state \in Unpowered
    BY <1>2, <1>3, <1>7, <2>1, <2>3 DEF ReturnWords, HomingAlone, Returning
  <2>5. QED
    BY <1>3, <1>4, <1>5, <2>1, <2>2, <2>4 DEF HomingAlone
<1>8. CASE x = "RestoreMode" /\ motor' = RestoreModeReturns(motor)
  <2>1. /\ Heard /\ motor'.homing \in {"Done", "RestoreEnable"}
        /\ motor'.enable # "Idle" => motor'.homing = "RestoreEnable"
    BY <1>1, <1>6, <1>8 DEF RestoreModeReturns, Motor
  <2>2. Returned(motor')
    BY <1>6, <2>1 DEF Returned, Returning
  <2>3. QED
    BY <1>3, <1>4, <1>5, <2>1, <2>2 DEF HomingAlone, Returning
<1>9. CASE motor' = [failHoming(motor) EXCEPT !.inFlight = FALSE]
  <2>1. Heard /\ motor'.homing = "Failed" /\ motor'.enable = motor.enable
    BY <1>1, <1>9 DEF failHoming, Motor
  <2>2. Returned(motor')
    BY <1>6, <2>1 DEF Returned, Returning
  <2>3. QED
    BY <1>3, <1>4, <1>5, <2>1, <2>2 DEF HomingAlone, Returning
<1>10. QED
  BY <1>7, <1>8, <1>9 DEF ExchangeReturns

\* The home request and the end of an enabling start the search, when none runs.
LEMMA StartsReturned ==
    ASSUME NEW m \in Motor, Returned(m), ~HomingActive(m)
    PROVE  /\ Returned(startHoming(m)) /\ startHoming(m).homing = "Motion"
           /\ m.enable = "Idle"
  BY DEF Returned, startHoming, Motor, Returning, HomingActive

LEMMA FiberKeepsHomingAlone ==
    ASSUME TypeOK, HomingAlone, NEW f \in Fibers, FiberStep(f)
    PROVE  HomingAlone'
<1>1. motor \in Motor /\ fibers[f] \in Fiber
  BY DEF TypeOK
<1>3. CASE fibers[f].pc \in {"idle", "mode"}
  <2>1. motor' = motor /\ fibers' = [fibers EXCEPT ![f] = Idle]
    BY <1>3 DEF FiberStep, Poll, Throw, ImageZeroed, ImagePrimed, ImageStreamed,
       PulseEnds, WaitAgain, WaitEnds, Waits, ModeWritten, Awaited, At, Resume, Suspended
  <2>2. Idle.pc = "idle"
    BY DEF Idle
  <2>3. UNCHANGED <<exchanges, wire, tpdo>> /\ drive'.state = drive.state
    BY <1>3 DEF FiberStep, Poll, Throw, ImageZeroed, ImagePrimed, ImageStreamed,
       PulseEnds, WaitAgain, WaitEnds, Waits, ModeWritten, Awaited, At, Resume, Suspended,
       TypeOK, Drive
  <2>4. QED
    BY <2>1, <2>2, <2>3 DEF HomingAlone, Suspended, TypeOK
<1>4. CASE fibers[f].pc \notin {"idle", "mode"}
  <2> DEFINE Kept(n) == Returned(n) /\ n.homing = motor.homing
             Seeking(n) == Returned(n) /\ n.homing = "Motion"
  <2>1. ~HomingActive(motor) /\ Returned(motor)
    BY <1>4 DEF HomingAlone
  <2>2. \A g \in Fibers : g # f => fibers[g].pc = "idle"
    BY <1>4 DEF HomingAlone, Suspended
  <2>3. \A x \in Exchange : ~(exchanges[x] > 0)
    BY <2>1 DEF HomingAlone, HomingActive, Exchange
  <2>4. ASSUME NEW n, NEW fiber, Kept(n), Resume(f, n, fiber) PROVE HomingAlone'
    <3>1. ~HomingActive(motor') /\ motor'.homing \notin Returning /\ Returned(motor')
      BY <2>1, <2>4 DEF Resume, HomingActive, Returning
    <3>2. \A g \in Fibers : g # f => fibers'[g].pc = "idle"
      BY <2>2, <2>4 DEF Resume, TypeOK
    <3>3. exchanges' = exchanges
      BY <2>4 DEF Resume
    <3>4. QED
      BY <2>3, <3>1, <3>2, <3>3 DEF HomingAlone, Suspended, Returning
  <2>5. ASSUME NEW n, Seeking(n), Resume(f, n, Idle) PROVE HomingAlone'
    <3>1. motor'.homing = "Motion" /\ Returned(motor')
      BY <2>5 DEF Resume
    <3>2. \A g \in Fibers : fibers'[g].pc = "idle"
      BY <2>2, <2>5 DEF Resume, TypeOK, Idle
    <3>3. exchanges' = exchanges
      BY <2>5 DEF Resume
    <3>4. QED
      BY <2>3, <3>1, <3>2, <3>3 DEF HomingAlone, Suspended, Returning
  <2>6. ASSUME NEW cw \in Controlword
        PROVE  /\ Kept([motor EXCEPT !.cw = cw])
               /\ Kept([motor EXCEPT !.cw = cw, !.cyclic = TRUE])
               /\ Kept(motor)
    BY <1>1, <2>1 DEF Returned, Motor, Returning, HomingActive
  <2>7. Seeking(startHoming([motor EXCEPT !.cw = enable_operation]))
    <3> DEFINE n == [motor EXCEPT !.cw = enable_operation]
    <3>1. n \in Motor /\ n.homing = motor.homing
      BY <1>1 DEF Motor, Controlword
    <3>2. Returned(n) /\ ~HomingActive(n)
      BY <2>1, <2>6, <3>1 DEF HomingActive, Controlword
    <3>3. QED
      BY <3>1, <3>2, StartsReturned
  <2>8. Seeking(startHoming(motor))
    BY <1>1, <2>1, StartsReturned
  <2>9. {disable_voltage, shutdown, fault_reset, switch_on, enable_operation} \subseteq Controlword
    BY DEF Controlword
  <2> HIDE DEF Kept, Seeking
  <2>10. CASE Poll(f) \/ Throw(f) \/ WaitAgain(f)
    BY <2>4, <2>6, <2>9, <2>10 DEF Poll, Throw, WaitAgain
  <2>11. CASE ImageZeroed(f) \/ ImagePrimed(f) \/ PulseEnds(f)
    BY <2>4, <2>6, <2>9, <2>11 DEF ImageZeroed, ImagePrimed, PulseEnds
  <2>12. CASE ImageStreamed(f)
    BY <2>4, <2>5, <2>6, <2>7, <2>9, <2>12 DEF ImageStreamed, Enabled
  <2>13. CASE WaitEnds(f)
    BY <2>4, <2>5, <2>6, <2>8, <2>9, <2>13 DEF WaitEnds, Enabled
  <2>14. CASE ModeWritten(f)
    BY <2>4, <2>5, <2>6, <2>8, <2>9, <2>14 DEF ModeWritten
  <2>15. QED
    BY <2>10, <2>11, <2>12, <2>13, <2>14 DEF FiberStep
<1>5. QED
  BY <1>3, <1>4

LEMMA RequestKeepsHomingAlone ==
    ASSUME SingleCaller, Requests \subseteq {"stop", "homing", "mode", "move"},
           TypeOK, HomingAlone, Request
    PROVE  HomingAlone'
<1>1. motor \in Motor /\ Returned(motor)
  BY DEF TypeOK, HomingAlone
<1> DEFINE Kept(n) == Returned(n) /\ n.homing = motor.homing
           Alone(f) == \A g \in Fibers : g # f => fibers[g].pc = "idle"
<1>2. ASSUME NEW r, NEW n, Kept(n), Immediate(r, n) PROVE HomingAlone'
  BY <1>2 DEF Immediate, HomingAlone, Suspended, HomingActive
<1>3. ASSUME NEW f, NEW r, NEW n, NEW fiber, Start(f, r, n, fiber), f \in Fibers
      PROVE  /\ fibers'[f] = fiber
             /\ \A g \in Fibers : g # f => fibers'[g].pc = "idle"
             /\ \A g, h \in Fibers : Suspended(g)' /\ Suspended(h)' => g = h
             /\ motor' = n /\ UNCHANGED <<exchanges, wire, tpdo, drive>>
  BY <1>3 DEF Start, MayCall, Suspended, TypeOK
<1>4. CASE Stop
  <2>1. Kept(requestGracefulStop(motor))
    BY <1>1 DEF requestGracefulStop, Returned, Motor, ReturnWords
  <2> HIDE DEF Kept
  <2>2. QED
    BY <1>2, <1>4, <2>1 DEF Stop
<1>5. CASE Move
  <2>1. Kept(requestProfileMove(motor))
    BY <1>1 DEF requestProfileMove, Returned, Motor
  <2> HIDE DEF Kept
  <2>2. QED
    BY <1>2, <1>5, <2>1 DEF Move
<1>6. ASSUME NEW f \in Fibers, requestOperationMode(f) PROVE HomingAlone'
  <2>1. [Idle EXCEPT !.pc = "mode"].pc = "mode"
    BY DEF Idle
  <2>2. Start(f, "mode", motor, [Idle EXCEPT !.pc = "mode"])
    BY <1>6 DEF requestOperationMode
  <2>3. /\ \A g \in Fibers : fibers'[g].pc \in {"idle", "mode"}
        /\ \A g, h \in Fibers : Suspended(g)' /\ Suspended(h)' => g = h
        /\ motor' = motor /\ UNCHANGED <<exchanges, wire, tpdo, drive>>
    BY <1>3, <2>1, <2>2
  <2>4. QED
    BY <2>3 DEF HomingAlone
<1>7. ASSUME NEW f \in Fibers, requestHoming(f) PROVE HomingAlone'
  <2>1. PICK n : n = [motor EXCEPT !.restoreMode = motor.mode,
                                   !.restoreOn = motor.state = "OperationEnabled"]
    OBVIOUS
  <2>2. n \in Motor /\ [n EXCEPT !.cw = disable_voltage] \in Motor
    BY <1>1, <2>1 DEF Motor, Controlword
  <2>3. ~HomingActive(motor)
    BY <1>7 DEF requestHoming, Sequencing
  <2>4. \A x \in Exchange : ~(exchanges[x] > 0)
    BY <2>3 DEF HomingAlone, HomingActive, Exchange
  <2>5. Kept(n) /\ ~HomingActive(n)
    BY <1>1, <2>1, <2>3 DEF Returned, Motor, HomingActive
  <2>6. Kept([n EXCEPT !.cw = disable_voltage])
    BY <2>2, <2>5 DEF Returned, Motor, ReturnWords
  <2>7. Returned(startHoming(n)) /\ startHoming(n).homing = "Motion"
    BY <2>2, <2>5, StartsReturned
  <2>8. CASE Immediate("homing", startHoming(n))
    <3>1. /\ motor'.homing = "Motion" /\ Returned(motor')
          /\ UNCHANGED <<fibers, exchanges, wire, tpdo, drive>>
      BY <2>7, <2>8 DEF Immediate
    <3>2. \A g \in Fibers : fibers[g].pc = "idle"
      BY <2>8 DEF Immediate, MayCall, Suspended
    <3>3. QED
      BY <2>4, <3>1, <3>2 DEF HomingAlone, Suspended, Returning
  <2>9. ASSUME NEW k, NEW fiber, Kept(k), Start(f, "homing", k, fiber) PROVE HomingAlone'
    <3>1. /\ \A g, h \in Fibers : Suspended(g)' /\ Suspended(h)' => g = h
          /\ motor' = k /\ UNCHANGED <<exchanges, wire, tpdo, drive>>
      BY <1>3, <2>9
    <3>2. ~HomingActive(motor') /\ motor'.homing \notin Returning /\ Returned(motor')
      BY <2>3, <2>9, <3>1 DEF HomingActive, Returning
    <3>3. QED
      BY <2>4, <3>1, <3>2 DEF HomingAlone, Returning
  <2>10. \/ Immediate("homing", startHoming(n))
         \/ \E fiber : \/ Start(f, "homing", n, fiber)
                       \/ Start(f, "homing", [n EXCEPT !.cw = disable_voltage], fiber)
    BY <1>7, <2>1 DEF requestHoming
  <2>11. QED
    BY <2>5, <2>6, <2>8, <2>9, <2>10
<1>8. /\ ~QuickStop /\ ~ResetFault
      /\ \A f \in Fibers : ~requestEnableOperation(f)
  BY DEF QuickStop, ResetFault, requestEnableOperation, Immediate, Start, MayCall
<1>9. QED
  BY <1>4, <1>5, <1>6, <1>7, <1>8 DEF Request, OtherRequest

\* A drive without power stays so on the words with which homing returns.
LEMMA StaysUnpowered ==
    ASSUME NEW s \in Unpowered, NEW cw \in ReturnWords, NEW edge \in BOOLEAN
    PROVE  DriveNext(s, cw, edge) \in Unpowered
<1>1. Command(cw) \in {"disable voltage", "enable operation"}
  BY Weights DEF ReturnWords, Command, Bit, enable_operation, disable_voltage
<1>2. CASE s # "SwitchOnDisabled"
  <2>1. \A t \in Transitions : t[1] # s
    <3>1. \A t \in Transitions :
              \E a, b : t \in {<<"SwitchOnDisabled", a, b>>, <<"ReadyToSwitchOn", a, b>>,
                              <<"SwitchedOn", a, b>>, <<"OperationEnabled", a, b>>,
                              <<"QuickStopActive", a, b>>}
      BY DEF Transitions
    <3>2. QED
      BY <1>2, <3>1 DEF Unpowered
  <2>2. QED
    BY <1>2, <2>1 DEF DriveNext, Unpowered
<1>3. CASE s = "SwitchOnDisabled"
  <2>1. \A t \in Transitions : ~(t[1] = s /\ t[2] = Command(cw))
    <3>1. \A t \in Transitions :
              \/ \E b : t = <<"SwitchOnDisabled", "shutdown", b>>
              \/ \E a, b : t \in {<<"ReadyToSwitchOn", a, b>>, <<"SwitchedOn", a, b>>,
                                  <<"OperationEnabled", a, b>>, <<"QuickStopActive", a, b>>}
      BY DEF Transitions
    <3>2. QED
      <4> SUFFICES ASSUME NEW t \in Transitions, t[1] = "SwitchOnDisabled"
                   PROVE  t[2] = "shutdown"
        BY <1>1, <1>3
      <4>1. QED
        BY <3>1
  <2>2. QED
    BY <1>3, <2>1 DEF DriveNext, Unpowered
<1>4. QED
  BY <1>2, <1>3

LEMMA HomingAloneStep ==
    ASSUME SingleCaller, Requests \subseteq {"stop", "homing", "mode", "move"},
           Disturbances \subseteq {"fault", "nodeLoss"},
           TypeOK, Accounted, Unbooted, HomingAlone, [Next]_vars
    PROVE  HomingAlone'
<1>1. motor \in Motor /\ Returned(motor)
  BY DEF TypeOK, HomingAlone
<1>2. CASE OnRpdoWrite
  <2>1. /\ motor'.homing = motor.homing /\ motor'.enable = motor.enable
        /\ motor'.cw = motor.cw /\ ~motor'.stale /\ motor'.seen
    BY <1>1, <1>2 DEF OnRpdoWrite, Motor
  <2>2. Returned(motor')
    BY <1>1, <2>1 DEF Returned
  <2>3. tpdo'.state = drive.state /\ UNCHANGED <<fibers, exchanges, wire, drive>>
    BY <1>2 DEF OnRpdoWrite
  <2>4. QED
    BY <2>1, <2>2, <2>3 DEF HomingAlone, Suspended, HomingActive, DeEnergized, Unpowered
<1>3. CASE DriveStep
  <2>1. /\ UNCHANGED <<motor, fibers, exchanges, wire, tpdo>>
        /\ \E edge \in BOOLEAN : drive'.state = DriveNext(drive.state, wire, edge)
    BY <1>3 DEF DriveStep, TypeOK, Drive
  <2>2. motor.homing \in Returning /\ drive.state \in Unpowered => drive'.state \in Unpowered
    BY <2>1, StaysUnpowered DEF HomingAlone
  <2>3. QED
    BY <2>1, <2>2 DEF HomingAlone, Suspended, Returning
<1>4. CASE DriveFaults
  <2>1. /\ UNCHANGED <<motor, fibers, exchanges, wire, tpdo>>
        /\ drive'.state = "FaultReactionActive"
    BY <1>4 DEF DriveFaults, TypeOK, Drive
  <2>2. QED
    BY <2>1 DEF HomingAlone, Suspended, Unpowered
<1>5. CASE OnHeartbeat
  <2>1. /\ UNCHANGED <<fibers, exchanges, wire, tpdo, drive>>
        /\ \E lost \in BOOLEAN : motor' = handleNodeLoss(motor, lost)
    BY <1>5 DEF OnHeartbeat
  <2>2. /\ motor'.homing = motor.homing /\ motor'.enable = motor.enable
        /\ motor'.stale = motor.stale /\ motor'.seen = motor.seen
        /\ motor'.state = motor.state /\ motor'.cw \in {motor.cw, disable_voltage}
    BY <1>1, <2>1 DEF handleNodeLoss, requestGracefulStop, Motor
  <2>3. Returned(motor')
    BY <1>1, <2>2 DEF Returned, ReturnWords
  <2>4. QED
    BY <2>1, <2>2, <2>3 DEF HomingAlone, Suspended, HomingActive
<1>6. ~Silence
  BY DEF Silence
<1>7. CASE UNCHANGED vars
  BY <1>7 DEF vars, HomingAlone, Suspended
<1>8. CASE Boots
  <2>1. PICK f \in Fibers : OnBoot(f)
    BY <1>8 DEF Boots
  <2>2. /\ motor.homing = "Idle" /\ \A g \in Fibers : fibers[g].pc = "idle"
        /\ UNCHANGED <<motor, exchanges, wire, tpdo>>
        /\ \A g \in Fibers : g # f => fibers'[g] = fibers[g]
    BY <2>1 DEF OnBoot, Unbooted, TypeOK
  <2>3. \A g, h \in Fibers : Suspended(g)' /\ Suspended(h)' => g = h
    BY <2>2 DEF Suspended
  <2>4. QED
    BY <2>2, <2>3 DEF HomingAlone, HomingActive, Returning
<1>9. ~DriveRestarts
  BY DEF DriveRestarts
<1>10. QED
  BY <1>2, <1>3, <1>4, <1>5, <1>6, <1>7, <1>8, <1>9, SyncKeepsHomingAlone, SuspendKeepsHomingAlone,
     ReturnKeepsHomingAlone, RequestKeepsHomingAlone, FiberKeepsHomingAlone DEF Next, Runs

LEMMA HomingAloneInit == Init => HomingAlone
<1> SUFFICES ASSUME Init PROVE HomingAlone
  OBVIOUS
<1>1. motor.homing = "Idle" /\ Returned(motor) /\ ~HomingActive(motor)
  BY DEF Init, Returned, Returning, HomingActive
<1>2. \A f, g \in Fibers : Suspended(f) /\ Suspended(g) => f = g
  BY DEF Init, Suspended, Idle
<1>3. \A x \in Exchange : ~(exchanges[x] > 0)
  BY DEF Init
<1>4. QED
  BY <1>1, <1>2, <1>3 DEF HomingAlone, Returning

\* When homing has left the centre, the drive's old mode is written back only
\* while its power stage is off: homing waits for a frame that says so, and the
\* words it sends from then on do not bring the power back.  For an application
\* that waits for each request, does not enable, reset or quick-stop, and a drive
\* that faults or is lost but does not fall silent: an enable or a reset may bring
\* the power back while the exchange is under way, and silence or a quick stop ends
\* the homing under it, so that the next one may.
THEOREM ModeComesBackUnpowered ==
    ASSUME SingleCaller, Requests \subseteq {"stop", "homing", "mode", "move"},
           Disturbances \subseteq {"fault", "nodeLoss"}
    PROVE  Spec => []ModeRestoredUnpowered
<1>1. Init => Accounted
  BY DEF Init, Accounted, Exchange
<1>2. TypeOK /\ Accounted /\ [Next]_vars => Accounted'
  BY AccountedStep
<1>3. /\ TypeOK /\ Unbooted /\ [Next]_vars => Unbooted'
      /\ TypeOK /\ Accounted /\ Unbooted /\ HomingAlone /\ [Next]_vars => HomingAlone'
  BY UnbootedStep, HomingAloneStep
<1>4. HomingAlone => ModeRestoredUnpowered
  BY DEF HomingAlone, ModeRestoredUnpowered, Unpowered, Energised, Exchange
<1>5. QED
  BY <1>1, <1>2, <1>3, <1>4, HomingAloneInit, UnbootedInit, TypeCorrect, PTL DEF Spec
=============================================================================
