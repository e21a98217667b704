----------------------------- MODULE MCTelemetry -----------------------------
(***************************************************************************)
(* Telemetry for TLC: one reader, which is any number of them, since       *)
(* readers write nothing the others read; emergencies queue up to a bound. *)
(***************************************************************************)
EXTENDS Telemetry
==============================================================================
