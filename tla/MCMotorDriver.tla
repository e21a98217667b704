---------------------------- MODULE MCMotorDriver ----------------------------
(***************************************************************************)
(* Instances of MotorDriver for TLC: which requests the application makes, *)
(* and what goes wrong, in each question the runs ask.                     *)
(***************************************************************************)
EXTENDS MotorDriver, TLC

Recovering      == {"stop", "quickStop", "resetFault", "enable"}
NotHoming       == ApiRequests \ {"homing"}
Switching       == Recovering \cup {"mode"}
Homings         == {"stop", "homing"}

NoDisturbance   == {}
FaultyOrSilent  == {"fault", "silence"}
FaultsOrRestarts == {"fault", "restart"}
FaultsOrLost    == {"fault", "nodeLoss"}
Faults          == {"fault"}

OneMode         == {"csp"}
BothModes       == {"csp", "csv"}
==============================================================================
