---------------------------- MODULE QuickStopHold ----------------------------
(***************************************************************************)
(* MotorDriver, with a history of quick stops: "the command image streams  *)
(* controlword every SYNC, so the hold persists without any further        *)
(* action" (MotorDriver.cpp).                                              *)
(***************************************************************************)
EXTENDS MotorDriver

VARIABLE held   \* a quick stop took effect, and nothing was asked for since

holdVars == <<vars, held>>

HoldInit == Init /\ held = FALSE

\* requestQuickStop is not ignored, and none of homing's exchanges is in
\* flight: the quick stop aborts the homing but not the exchange.
TakesEffect ==
    /\ motor.stop # "DisableVoltage" /\ motor.cyclic
    /\ \A x \in Exchange : exchanges[x] = 0

HoldNext ==
    \/ QuickStop /\ held' = (held \/ TakesEffect)
    \/ (OtherRequest \/ Boots) /\ held' = FALSE
    \/ Runs /\ UNCHANGED held

HoldSpec == HoldInit /\ [][HoldNext]_holdVars
-----------------------------------------------------------------------------
\* From a quick stop on, until something else is asked for, the drive hears no
\* new controlword but the quick stop's, or disable-voltage when a watchdog or
\* the loss of the node stops it: no sequence that was in progress goes on.
QuickStopHolds ==
    [][held /\ held' /\ wire' # wire
       => \/ wire' = quick_stop
          \/ wire' = disable_voltage /\ motor'.stop # "None"]_holdVars
==============================================================================
