------------------------------- MODULE SafeStop -------------------------------
(***************************************************************************)
(* What stop() promises of one drive, whatever the machinery behind it: a  *)
(* stop, once begun, puts disable-voltage on the bus and keeps it there    *)
(* until the stop is done, and a stopped drive hears nothing else until    *)
(* the application enables it again (MotorDrive.hpp, stop();               *)
(* docs/architecture.md, "DS402 control sequences").                       *)
(***************************************************************************)
VARIABLES
    phase,   \* "None" while running, "DisableVoltage" while stopping, "Done"
    word     \* what the drive hears: "disable" or anything "else"

vars == <<phase, word>>

Init == phase = "None" /\ word = "disable"

\* A running drive is sent whatever the application asks for.
Run == phase = "None" /\ phase' = "None" /\ word' \in {"disable", "else"}

\* A stop begins; one that finds nothing energised is done at once.
Begin ==
    /\ phase = "None"
    /\ \/ phase' = "DisableVoltage" /\ word' \in {word, "disable"}
       \/ phase' = "Done" /\ word = "disable" /\ word' = word

\* The next frames disable the drive, and the last of them ends the stop.
Disable == phase = "DisableVoltage" /\ phase' \in {phase, "Done"} /\ word' = "disable"

\* Only the application ends a completed stop.
Enable == phase = "Done" /\ phase' = "None" /\ word' = word

Next == Run \/ Begin \/ Disable \/ Enable

Spec == Init /\ [][Next]_vars
==============================================================================
