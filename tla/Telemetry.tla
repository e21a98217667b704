------------------------------ MODULE Telemetry ------------------------------
(***************************************************************************)
(* What other threads see of a drive.  The loop thread decodes the TPDOs,  *)
(* emergencies and node losses into feedback_, keeps the atomic            *)
(* feedback_live_, and copies feedback_ under a mutex into the snapshot    *)
(* that MotorDrive::enabled() and faulted() read.  Flag and snapshot are   *)
(* written, and read, one after the other.                                 *)
(*                                                                         *)
(* Of the feedback, the state of the drive and its emergency are kept.     *)
(***************************************************************************)
EXTENDS Naturals, Sequences

CONSTANTS
    Readers,        \* threads of the application
    MaxEmergencies  \* emergency frames in flight (a bound)

VARIABLES
    drive,      \* its state, whether its TPDOs and its heartbeat arrive, EMCYs
    image,      \* the state in the last TPDO received (rpdo_mapped)
    heard,      \* no feedback_timeout has passed since the last TPDO
    motor,      \* rpdo_seen_, node_loss_, feedback_, fault_active_logged_, pc
    live,       \* feedback_live_
    snapshot,   \* feedback_published_
    sampled,    \* what the last SYNC saw of the drive (history)
    caller      \* the call of each reader

vars == <<drive, image, heard, motor, live, snapshot, sampled, caller>>

\* The states told apart; NotReadyToSwitchOn is what a default Feedback says.
Reported == {"SwitchOnDisabled", "OperationEnabled", "Fault"}
State == Reported \cup {"NotReadyToSwitchOn"}
Feedback == [state : State, emcy : BOOLEAN]
NoFeedback == [state |-> "NotReadyToSwitchOn", emcy |-> FALSE]
\* A reader between calls, its last answer sound or not.
Resting(sound) == [pc |-> "idle", live |-> FALSE, clean |-> FALSE, sound |-> sound]

Motor == [seen : BOOLEAN, lost : BOOLEAN, feedback : Feedback,
          logged : BOOLEAN, pc : {"idle", "publish"}]

TypeOK ==
    /\ drive \in [state : Reported, talks : BOOLEAN, beats : BOOLEAN, emcy : Seq(BOOLEAN)]
    /\ image \in State /\ heard \in BOOLEAN
    /\ motor \in Motor
    /\ live \in BOOLEAN /\ snapshot \in Feedback
    /\ sampled \in [state : State, heard : BOOLEAN]
    /\ caller \in [Readers -> [pc : {"idle", "snapshot"}, live : BOOLEAN,
                               clean : BOOLEAN, sound : BOOLEAN]]

Init ==
    /\ drive = [state |-> "SwitchOnDisabled", talks |-> TRUE, beats |-> TRUE, emcy |-> <<>>]
    /\ image = "NotReadyToSwitchOn" /\ heard = FALSE
    /\ motor = [seen |-> FALSE, lost |-> FALSE, feedback |-> NoFeedback,
                logged |-> FALSE, pc |-> "idle"]
    /\ live = FALSE /\ snapshot = NoFeedback
    /\ sampled = [state |-> "NotReadyToSwitchOn", heard |-> FALSE]
    /\ caller = [r \in Readers |-> Resting(TRUE)]
-----------------------------------------------------------------------------
(* The drive and the bus.                                                  *)

\* It moves at will; a fault, and its end, is announced by an emergency.
DriveMoves ==
    /\ \E s \in Reported \ {drive.state} :
          /\ Len(drive.emcy) < MaxEmergencies \/ "Fault" \notin {s, drive.state}
          /\ drive' = [drive EXCEPT !.state = s,
                          !.emcy = IF "Fault" \in {s, drive.state}
                                   THEN Append(@, s = "Fault") ELSE @]
    /\ UNCHANGED <<image, heard, motor, live, snapshot, sampled, caller>>
DriveChanges ==
    /\ \/ drive' = [drive EXCEPT !.talks = ~@]
       \/ drive' = [drive EXCEPT !.beats = ~@]
    /\ UNCHANGED <<image, heard, motor, live, snapshot, sampled, caller>>
TimesOut ==
    /\ heard /\ ~drive.talks
    /\ heard' = FALSE
    /\ UNCHANGED <<drive, image, motor, live, snapshot, sampled, caller>>
-----------------------------------------------------------------------------
(* The loop thread.  Each step reaches as far as its first store that      *)
(* another thread can see; "publish" is the copy still to come.            *)

InFault(f) == f.state = "Fault" \/ f.emcy

\* Each call in progress learns that flag or snapshot is being written.
Disturb == caller' = [r \in Readers |-> [caller[r] EXCEPT !.clean = FALSE]]

OnRpdoWrite ==
    /\ motor.pc = "idle" /\ drive.talks
    /\ image' = drive.state /\ heard' = TRUE
    /\ motor' = [motor EXCEPT !.seen = TRUE]
    /\ UNCHANGED <<drive, live, snapshot, sampled, caller>>

feedbackStale == motor.seen /\ ~heard

\* Mutant: liveness is denied in a fault.
LiveNow_Unfaulted == motor.seen /\ ~feedbackStale /\ ~motor.lost /\ ~motor.logged
\* Mutant: only a drive that is live is refreshed.
Decoded_WhenLive ==
    IF live THEN [motor.feedback EXCEPT !.state = image] ELSE motor.feedback

LiveNow == motor.seen /\ ~feedbackStale /\ ~motor.lost

\* feedback_ refreshed from the mapped objects.
Decoded ==
    IF motor.seen THEN [motor.feedback EXCEPT !.state = image] ELSE motor.feedback

\* Refresh, log a fault once, store the flag.
OnSync ==
    /\ motor.pc = "idle"
    /\ motor' = [motor EXCEPT
           !.feedback = Decoded, !.pc = "publish",
           !.logged = IF motor.seen THEN InFault(Decoded) ELSE @]
    /\ live' = LiveNow
    /\ sampled' = [state |-> image, heard |-> heard]
    /\ Disturb
    /\ UNCHANGED <<drive, image, heard, snapshot>>

publishFeedback ==
    /\ motor.pc = "publish"
    /\ motor' = [motor EXCEPT !.pc = "idle"]
    /\ snapshot' = motor.feedback
    /\ Disturb
    /\ UNCHANGED <<drive, image, heard, live, sampled>>

OnEmcy ==
    /\ motor.pc = "idle" /\ drive.emcy # <<>>
    /\ drive' = [drive EXCEPT !.emcy = Tail(@)]
    /\ motor' = [motor EXCEPT !.feedback.emcy = Head(drive.emcy), !.pc = "publish"]
    /\ UNCHANGED <<image, heard, live, snapshot, sampled, caller>>

\* Mutant: a node that is heard of again is live at once.
handleNodeLoss_Trusts ==
    /\ motor' = [motor EXCEPT !.lost = ~@, !.pc = "publish"]
    /\ live' = motor.lost

\* Once per transition; a restored node is live from the next SYNC only.
handleNodeLoss ==
    /\ motor' = [motor EXCEPT !.lost = ~@, !.pc = "publish"]
    /\ live' = (live /\ motor.lost)

OnHeartbeat ==
    /\ motor.pc = "idle" /\ motor.lost = drive.beats
    /\ handleNodeLoss
    /\ Disturb
    /\ UNCHANGED <<drive, image, heard, snapshot, sampled>>

\* The latched emergency is dropped, and the next publication shows it.
requestFaultReset ==
    /\ motor.pc = "idle"
    /\ motor' = [motor EXCEPT !.feedback.emcy = FALSE]
    /\ UNCHANGED <<drive, image, heard, live, snapshot, sampled, caller>>

\* The boot inspection publishes what is in feedback_.
inspectNode ==
    /\ motor.pc = "idle"
    /\ motor' = [motor EXCEPT !.pc = "publish"]
    /\ UNCHANGED <<drive, image, heard, live, snapshot, sampled, caller>>
-----------------------------------------------------------------------------
(* enabled(), and waitUntilLive() followed by feedback().                  *)

feedbackLive(r) ==
    /\ caller[r].pc = "idle"
    /\ caller' = [caller EXCEPT ![r] =
           [pc |-> "snapshot", live |-> live, clean |-> motor.pc = "idle", sound |-> TRUE]]
    /\ UNCHANGED <<drive, image, heard, motor, live, snapshot, sampled>>

\* `sound' is whether the answer is true of the drive as the loop knows it.
feedbackSnapshot(r) ==
    /\ caller[r].pc = "snapshot"
    /\ caller' = [caller EXCEPT ![r] = Resting(
           caller[r].clean /\ caller[r].live
           => sampled = [state |-> snapshot.state, heard |-> TRUE] /\ ~motor.lost)]
    /\ UNCHANGED <<drive, image, heard, motor, live, snapshot, sampled>>
-----------------------------------------------------------------------------
Next ==
    \/ DriveMoves \/ DriveChanges \/ TimesOut
    \/ OnRpdoWrite \/ OnSync \/ publishFeedback \/ OnEmcy \/ OnHeartbeat
    \/ requestFaultReset \/ inspectNode
    \/ \E r \in Readers : feedbackLive(r) \/ feedbackSnapshot(r)

Spec == Init /\ [][Next]_vars

\* SYNC comes, each step of the loop thread ends, a frame that is sent every
\* cycle is received, and the timeout and the heartbeat consumer run.
Fairness ==
    /\ SF_vars(OnSync) /\ WF_vars(publishFeedback)
    /\ SF_vars(OnRpdoWrite) /\ WF_vars(TimesOut) /\ SF_vars(OnHeartbeat)
FairSpec == Spec /\ Fairness
-----------------------------------------------------------------------------
\* "enabled() requires live feedback so a stale 'operation enabled' snapshot
\* never reads as enabled": if the loop thread wrote neither flag nor snapshot
\* during the call, nor was between the two when it began, a live answer is
\* the state the last SYNC saw, of a drive it heard and has not lost since.
EnabledIsHonest == \A r \in Readers : caller[r].sound

\* A drive that stays in Fault shows in faulted() and in the log, although
\* emergencies and fault resets come in any order.
FaultIsReported ==
    drive.state = "Fault" ~> \/ ~drive.talks \/ drive.state # "Fault"
                             \/ InFault(snapshot) /\ motor.logged

\* A drive that talks and beats is live in the end.
FeedbackReturns ==
    (drive.talks /\ drive.beats) ~> (live \/ ~drive.talks \/ ~drive.beats)
==============================================================================
