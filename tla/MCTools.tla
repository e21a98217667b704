------------------------------ MODULE MCTools ------------------------------
(***************************************************************************)
(* Tools for TLC.                                                          *)
(***************************************************************************)
EXTENDS Tools
=============================================================================
