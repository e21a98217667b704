-------------------------- MODULE MCProfileSetpoint --------------------------
(***************************************************************************)
(* ProfileSetpoint for TLC.                                                *)
(***************************************************************************)
EXTENDS ProfileSetpoint
==============================================================================
