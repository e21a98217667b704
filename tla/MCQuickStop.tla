----------------------------- MODULE MCQuickStop -----------------------------
(***************************************************************************)
(* MotorDriver with the history of its quick stops, for TLC.               *)
(***************************************************************************)
EXTENDS QuickStopHold, MCMotorDriver
==============================================================================
