-------------------------------- MODULE Ds402 --------------------------------
(***************************************************************************)
(* The CiA 402 vocabulary shared by the driver and the drive: the states   *)
(* of include/stablecops/ds402/State.hpp, the controlwords the driver      *)
(* stages (0x6040), and the power state machine of the drive itself, which *)
(* is firmware outside this repository and is modelled from how the driver *)
(* uses it.                                                                *)
(***************************************************************************)
EXTENDS Naturals

State == {"NotReadyToSwitchOn", "SwitchOnDisabled", "ReadyToSwitchOn",
          "SwitchedOn", "OperationEnabled", "QuickStopActive",
          "FaultReactionActive", "Fault", "Unknown"}

FaultStates == {"FaultReactionActive", "Fault"}

\* The states in which the driver takes the power stage to be off.
DeEnergized == {"SwitchOnDisabled", "NotReadyToSwitchOn"}

(* ------------------------------ controlwords --------------------------- *)
shutdown           == 6
switch_on          == 7
enable_operation   == 15
disable_voltage    == 0
quick_stop         == 2
fault_reset        == 128
\* enable_operation | new_setpoint | change_immediately, the asserted edge
\* of the Profile Position handshake.
new_setpoint_edge  == 63

Controlword == {shutdown, switch_on, enable_operation, disable_voltage,
                quick_stop, fault_reset, new_setpoint_edge}

Bit(word, i) == (word \div (2^i)) % 2 = 1

(***************************************************************************)
(* The drive.  A controlword is a command by its low four bits; bit 7      *)
(* counts only as a rising edge in Fault.                                  *)
(***************************************************************************)
Command(cw) ==
    CASE ~Bit(cw, 1)                                            -> "disable voltage"
      []  Bit(cw, 1) /\ ~Bit(cw, 2)                             -> "quick stop"
      []  Bit(cw, 1) /\  Bit(cw, 2) /\ ~Bit(cw, 0)              -> "shutdown"
      []  Bit(cw, 1) /\  Bit(cw, 2) /\  Bit(cw, 0) /\ ~Bit(cw, 3) -> "switch on"
      [] OTHER                                                  -> "enable operation"

\* <<from, command, to>>; a command not listed is ignored.  Enable operation
\* in ready-to-switch-on passes through switched-on.
Transitions ==
    {<<"SwitchOnDisabled", "shutdown",         "ReadyToSwitchOn">>,
     <<"ReadyToSwitchOn",  "switch on",        "SwitchedOn">>,
     <<"ReadyToSwitchOn",  "enable operation", "SwitchedOn">>,
     <<"ReadyToSwitchOn",  "disable voltage",  "SwitchOnDisabled">>,
     <<"ReadyToSwitchOn",  "quick stop",       "SwitchOnDisabled">>,
     <<"SwitchedOn",       "enable operation", "OperationEnabled">>,
     <<"SwitchedOn",       "shutdown",         "ReadyToSwitchOn">>,
     <<"SwitchedOn",       "disable voltage",  "SwitchOnDisabled">>,
     <<"SwitchedOn",       "quick stop",       "SwitchOnDisabled">>,
     <<"OperationEnabled", "switch on",        "SwitchedOn">>,
     <<"OperationEnabled", "shutdown",         "ReadyToSwitchOn">>,
     <<"OperationEnabled", "disable voltage",  "SwitchOnDisabled">>,
     <<"OperationEnabled", "quick stop",       "QuickStopActive">>,
     <<"QuickStopActive",  "enable operation", "OperationEnabled">>,
     <<"QuickStopActive",  "disable voltage",  "SwitchOnDisabled">>}

\* The state after the drive has executed `cw`; `edge` is a rising bit 7.
\* Not-ready and fault-reaction are left without a command.
DriveNext(s, cw, edge) ==
    LET On(t) == t[1] = s /\ t[2] = Command(cw)
    IN  CASE s = "NotReadyToSwitchOn"    -> "SwitchOnDisabled"
          [] s = "FaultReactionActive"   -> "Fault"
          [] s = "Fault"                 -> IF edge THEN "SwitchOnDisabled" ELSE s
          [] \E t \in Transitions : On(t) -> (CHOOSE t \in Transitions : On(t))[3]
          [] OTHER                       -> s

\* The power stage drives the motor in these states.
Energised(s) == s \in {"OperationEnabled", "QuickStopActive"}

\* A word on which a drive that is not in fault may reach operation enabled.
Energising(cw) == Command(cw) = "enable operation"
==============================================================================
