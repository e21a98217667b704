--------------------------- MODULE ProfileSetpoint ---------------------------
(***************************************************************************)
(* moveToPosition: the driver stages a target and pulses bit 4 of the      *)
(* controlword until the drive acknowledges; the drive takes the target of *)
(* the frame in which it sees the bit rise.  Frames may be lost, the       *)
(* acknowledge comes late, further moves may be requested at any time, and *)
(* a stop, a fault reset or a quick stop may take the controlword away.    *)
(*                                                                         *)
(* Moves are numbered in the order of their requests; 0 is no target.      *)
(***************************************************************************)
EXTENDS Naturals, Sequences

CONSTANTS
    MaxMoves,           \* moves the application requests (a bound)
    MaxInterruptions    \* times another sequence takes over (a bound)

ASSUME ProfileSetpointAssumption == {MaxMoves, MaxInterruptions} \subseteq Nat

VARIABLES
    phase,      \* setpoint_phase_
    staged,     \* the target in the command image
    owner,      \* who drives the controlword: this handshake, or the others
    wire,       \* the frame of the last SYNC: bit 4, and the target
    drive,      \* bit 4 as last executed, its acknowledge, the targets taken
    reported,   \* the acknowledge in the last TPDO received
    overtaken,  \* moves requested in another move's handshake (history)
    cut,        \* moves whose handshake another sequence cut (history)
    interruptions

vars == <<phase, staged, owner, wire, drive, reported, overtaken, cut, interruptions>>

Moves == 1 .. MaxMoves
SetpointPhase == {"Idle", "Assert", "WaitAck", "Clear"}

TypeOK ==
    /\ phase \in SetpointPhase
    /\ staged \in 0 .. MaxMoves
    /\ owner \in {"setpoint", "other"}
    /\ wire \in [edge : BOOLEAN, move : 0 .. MaxMoves]
    /\ drive \in [edge : BOOLEAN, ack : BOOLEAN, taken : Seq(Moves)]
    /\ reported \in BOOLEAN
    /\ overtaken \in SUBSET Moves /\ cut \in SUBSET Moves
    /\ interruptions \in 0 .. MaxInterruptions

Init ==
    /\ phase = "Idle" /\ staged = 0 /\ owner = "setpoint"
    /\ wire = [edge |-> FALSE, move |-> 0]
    /\ drive = [edge |-> FALSE, ack |-> FALSE, taken |-> <<>>]
    /\ reported = FALSE
    /\ overtaken = {} /\ cut = {} /\ interruptions = 0
-----------------------------------------------------------------------------
(* The driver.                                                             *)

\* Nothing is left of an earlier handshake.
quiet == phase = "Idle" /\ ~(wire.edge \/ drive.edge \/ drive.ack \/ reported)
\* A request in a handshake that may have raised bit 4, or in the traces of
\* one that was itself overtaken or cut.
Overtakes ==
    phase \in {"WaitAck", "Clear"} \/ (staged \in overtaken \cup cut /\ ~quiet)

\* It is accepted in every phase, and while another sequence is in control.
requestProfileMove ==
    /\ staged < MaxMoves
    /\ staged' = staged + 1
    /\ phase' = "Assert"
    /\ overtaken' = IF Overtakes THEN overtaken \cup {staged + 1} ELSE overtaken
    /\ UNCHANGED <<owner, wire, drive, reported, cut, interruptions>>

\* Mutants: the bit is given up after a cycle; a handshake that saw no
\* acknowledge is repeated; the bit is up in the first cycle only.
SetpointNext_Pulse(ack) ==
    [Assert |-> "WaitAck", WaitAck |-> "Clear",
     Clear |-> IF ack THEN "Clear" ELSE "Idle", Idle |-> "Idle"]
SetpointNext_Retry(ack) ==
    [Assert |-> "WaitAck", WaitAck |-> "Clear",
     Clear |-> IF ack THEN "Idle" ELSE "Assert", Idle |-> "Idle"]
edge_Once == phase = "Assert"

\* The phase after this SYNC, by the phase before, and the word it sends.
SetpointNext(ack) ==
    [Assert  |-> "WaitAck",
     WaitAck |-> IF ack THEN "Clear" ELSE "WaitAck",
     Clear   |-> IF ack THEN "Clear" ELSE "Idle",
     Idle    |-> "Idle"]
edge == phase \in {"Assert", "WaitAck"}

\* OnSync: the turn of the handshake, or of a sequence that comes before it;
\* then the command image is sent.
OnSync ==
    /\ wire' = [edge |-> owner = "setpoint" /\ edge, move |-> staged]
    /\ phase' = IF owner = "setpoint" THEN SetpointNext(reported)[phase] ELSE phase
    /\ UNCHANGED <<staged, owner, drive, reported, overtaken, cut, interruptions>>

Interrupts ==
    /\ owner = "setpoint" /\ interruptions < MaxInterruptions
    /\ owner' = "other" /\ interruptions' = interruptions + 1
    /\ UNCHANGED <<staged, wire, drive, reported, overtaken>>

\* A stop, or a fault reset: the phase is kept.
requestGracefulStop ==
    /\ Interrupts
    /\ cut' = IF phase \in {"WaitAck", "Clear"} THEN cut \cup {staged} ELSE cut
    /\ UNCHANGED phase
\* A quick stop drops the move.
requestQuickStop ==
    /\ Interrupts
    /\ cut' = IF phase # "Idle" THEN cut \cup {staged} ELSE cut
    /\ phase' = "Idle"

\* The drive is enabled again, by enableOperation, or by the ladder if the
\* handshake still is in a phase: it was walked up by words without bit 4.
Resume ==
    /\ owner = "other" /\ ~drive.edge /\ ~drive.ack /\ ~reported /\ ~wire.edge
    /\ owner' = "setpoint"
    /\ UNCHANGED <<phase, staged, wire, drive, reported, overtaken, cut, interruptions>>
-----------------------------------------------------------------------------
(* The drive, in profile position mode.                                    *)

\* It executes a frame.  A bit that rises before its acknowledge of the last
\* target fell may be missed.
DriveExecutes ==
    /\ \E missed \in {FALSE, drive.ack} :
          drive' = [drive EXCEPT
              !.edge = wire.edge,
              !.taken = IF wire.edge /\ ~drive.edge /\ ~missed
                        THEN Append(@, wire.move) ELSE @]
    /\ UNCHANGED <<phase, staged, owner, wire, reported, overtaken, cut, interruptions>>
DriveAcknowledges ==
    /\ drive' = [drive EXCEPT !.ack = drive.edge]
    /\ UNCHANGED <<phase, staged, owner, wire, reported, overtaken, cut, interruptions>>
OnRpdoWrite ==
    /\ reported' = drive.ack
    /\ UNCHANGED <<phase, staged, owner, wire, drive, overtaken, cut, interruptions>>

Next ==
    \/ requestProfileMove \/ OnSync
    \/ requestGracefulStop \/ requestQuickStop \/ Resume
    \/ DriveExecutes \/ DriveAcknowledges \/ OnRpdoWrite

Spec == Init /\ [][Next]_vars

\* SYNC is produced by the master, and what is sent every cycle gets through.
Fairness ==
    /\ WF_vars(OnSync) /\ WF_vars(DriveExecutes)
    /\ WF_vars(DriveAcknowledges) /\ WF_vars(OnRpdoWrite)
FairSpec == Spec /\ Fairness
-----------------------------------------------------------------------------
\* A handshake that is over has brought its move to the drive, as the last
\* one the drive took, unless it was cut or armed over another handshake.
NoMoveLost ==
    phase = "Idle" /\ staged \notin overtaken \cup cut \cup {0}
    => drive.taken # <<>> /\ drive.taken[Len(drive.taken)] = staged

\* The drive takes no move twice, which would double a relative one, unless
\* another sequence cut its handshake.
TakenOnce ==
    \A i, j \in DOMAIN drive.taken :
        i # j /\ drive.taken[i] = drive.taken[j] => drive.taken[i] \in cut

\* The handshake has no deadline, but it ends, or another sequence cuts it.
HandshakeEnds == phase # "Idle" ~> phase = "Idle" \/ owner = "other"
==============================================================================
