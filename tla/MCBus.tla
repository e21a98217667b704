-------------------------------- MODULE MCBus --------------------------------
(***************************************************************************)
(* Bus for TLC.  Threads, drives and buses are each alike, so permutations *)
(* of them are symmetries of every safety question.                        *)
(***************************************************************************)
EXTENDS Bus, TLC

Alike == Permutations(Threads) \cup Permutations(Drives) \cup Permutations(Buses)
==============================================================================
