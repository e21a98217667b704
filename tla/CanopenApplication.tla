-------------------------- MODULE CanopenApplication --------------------------
(***************************************************************************)
(* The coordinated shutdown of one bus: CanopenApplication asks every      *)
(* MotorDriver to stop, counts the stopped-callbacks, and tears the loop   *)
(* down when the last one came or when a grace period is over.  Everything *)
(* here runs on the loop thread, so an action is one callback or one       *)
(* deferred request.  Which happen when is up to the program that owns the *)
(* application: Tools composes them with the two programs there are.       *)
(*                                                                         *)
(* Of each MotorDriver only what the stopped-callback depends on is kept:  *)
(* its stop phase, whether it streams, and what may yet make it stream: an *)
(* enable, of a call or of a boot, and a homing (MotorDriver has the rest). *)
(***************************************************************************)
EXTENDS Naturals, FiniteSets

CONSTANT Nodes     \* the drives of the bus

ASSUME CanopenApplicationAssumption == IsFiniteSet(Nodes) /\ Nodes # {}

VARIABLES
    motors,     \* motors_, one driver per node
    app,        \* the members of CanopenApplication::Impl
    loop        \* whether the event loop runs

vars == <<motors, app, loop>>

Driver == [stop : {"None", "DisableVoltage", "Done"},   \* stop_phase_
           cyclic : BOOLEAN,                            \* cyclic_active_
           boots : BOOLEAN,     \* OnBoot's enableDrive does not stream yet
           call : {"none", "enable", "home"},   \* nor does the one of a call
           homing : {"idle", "runs", "restoring"}]  \* homing_phase_; its mode write
                                                    \* is without an answer
Impl == [initiated : BOOLEAN,               \* shutdown_initiated_
         complete  : BOOLEAN,               \* shutdown_complete_
         remaining : 0 .. Cardinality(Nodes),   \* stops_remaining_
         expired   : BOOLEAN,               \* shutdown_deadline_ has passed
         timer     : {"off", "check", "drain"},
         reset     : BOOLEAN]               \* RESET_NODE was sent

TypeOK ==
    /\ motors \in [Nodes -> Driver]
    /\ app \in Impl
    /\ loop \in {"running", "stopped"}

Init ==
    /\ motors = [n \in Nodes |-> [stop |-> "None", cyclic |-> FALSE, boots |-> FALSE,
                                  call |-> "none", homing |-> "idle"]]
    /\ app = [initiated |-> FALSE, complete |-> FALSE, remaining |-> 0,
              expired |-> FALSE, timer |-> "off", reset |-> FALSE]
    /\ loop = "running"
-----------------------------------------------------------------------------
(* MotorDriver, as far as the application sees it.                         *)

requestGracefulStop(m) ==
    CASE m.stop # "None" -> m
      [] m.stop = "None" /\ ~m.cyclic -> [m EXCEPT !.stop = "Done"]
      [] OTHER -> [m EXCEPT !.stop = "DisableVoltage"]

\* Mutant: a drive that was not energised never reports.
StopsAtOnce_Silent(m) == FALSE

\* The request calls on_stopped_ itself when nothing was energised.
StopsAtOnce(m) == m.stop = "None" /\ ~m.cyclic

\* Mutant: the last report but one finishes.
onMotorStopped_OffByOne(a, k) ==
    LET left == IF a.remaining > k THEN a.remaining - k ELSE 0
    IN  IF a.initiated
        THEN [a EXCEPT !.remaining = left, !.complete = a.complete \/ left <= 1] ELSE a

\* The object after `k` calls of the stopped-callback.  The last one expected
\* finishes the shutdown without resetting the nodes.
onMotorStopped(a, k) ==
    LET left == IF a.remaining > k THEN a.remaining - k ELSE 0
    IN  IF a.initiated
        THEN [a EXCEPT !.remaining = left, !.complete = a.complete \/ left = 0] ELSE a

\* The loop stops with a shutdown that finishes without the reset.
LoopAfter(a) == IF a.complete /\ ~app.complete THEN "stopped" ELSE loop

Stops(n) ==
    /\ motors' = [motors EXCEPT ![n] = requestGracefulStop(@)]
    /\ app' = IF StopsAtOnce(motors[n]) THEN onMotorStopped(app, 1) ELSE app
    /\ loop' = LoopAfter(app')

\* stop() of one drive, or its feedback or heartbeat watchdog.
stopNode(n) == loop = "running" /\ Stops(n)

\* A call that enables is refused while a stop is in progress, and forgets one
\* that is Done; a boot action looks at no stop (a bound: one boot at a time).
Takes(n, driver) ==
    /\ loop = "running" /\ motors' = [motors EXCEPT ![n] = driver]
    /\ UNCHANGED <<app, loop>>
enableOperation(n) ==
    /\ motors[n].stop # "DisableVoltage" /\ motors[n].call = "none"
    /\ Takes(n, [motors[n] EXCEPT !.stop = "None", !.call = "enable"])
OnBoot(n) == ~motors[n].boots /\ Takes(n, [motors[n] EXCEPT !.boots = TRUE])

\* requestHoming does not forget a stop that is Done.
requestHoming(n) ==
    /\ motors[n].stop # "DisableVoltage" /\ motors[n].call = "none"
    /\ motors[n].homing # "runs"
    /\ Takes(n, [motors[n] EXCEPT !.call = "home"])

\* The enable has read the drive: it streams from here on, or it gives up.
BootEnds(n) ==
    /\ motors[n].boots
    /\ \E streams \in {motors[n].cyclic, TRUE} :
           Takes(n, [motors[n] EXCEPT !.boots = FALSE, !.cyclic = streams])

\* So does a call; homing may find its drive enabled already, or throw later.
CallEnds(n) ==
    /\ motors[n].call # "none"
    /\ \E streams \in {motors[n].cyclic, TRUE}, homing \in {motors[n].homing, "runs"} :
           /\ homing # motors[n].homing =>
                  motors[n].call = "home" /\ motors[n].homing = "idle"
           /\ Takes(n, [motors[n] EXCEPT !.call = "none", !.cyclic = streams, !.homing = homing])

\* OnSync, unless a stop has the controlword: homing ends or fails, or a quick
\* stop fails it; or it asks the drive for the mode it had.
advanceHoming(n) ==
    /\ motors[n].homing = "runs" /\ motors[n].cyclic /\ motors[n].stop # "DisableVoltage"
    /\ \/ \E streams \in BOOLEAN :
              Takes(n, [motors[n] EXCEPT !.homing = "idle", !.cyclic = streams])
       \/ Takes(n, [motors[n] EXCEPT !.homing = "restoring"])

\* The fiber of RestoreMode goes on, whatever came in between: it streams to
\* enable the drive again, or streams no more, or the mode write has failed.
ModeRestored(n) ==
    /\ motors[n].homing = "restoring"
    /\ \E streams \in BOOLEAN :
           Takes(n, [motors[n] EXCEPT !.homing = "idle", !.cyclic = streams])

\* resetFault streams at once, unless the drive was stopped.
requestFaultReset(n) ==
    /\ loop = "running" /\ motors[n].stop = "None"
    /\ motors' = [motors EXCEPT ![n].cyclic = TRUE]
    /\ UNCHANGED <<app, loop>>

\* OnSync in a stop: the drive reports its power stage off, or the deadline
\* of the stop has passed.
finishGracefulStop(n) ==
    /\ loop = "running" /\ motors[n].stop = "DisableVoltage" /\ motors[n].cyclic
    /\ motors' = [motors EXCEPT ![n].stop = "Done", ![n].cyclic = FALSE]
    /\ app' = onMotorStopped(app, 1)
    /\ loop' = LoopAfter(app')
-----------------------------------------------------------------------------
(* CanopenApplication.                                                     *)

\* Every drive is asked in turn; some report at once, from inside the request.
requestShutdown ==
    /\ loop = "running" /\ ~app.initiated
    /\ motors' = [n \in Nodes |-> requestGracefulStop(motors[n])]
    /\ app' = onMotorStopped([app EXCEPT !.initiated = TRUE, !.timer = "check",
                                         !.remaining = Cardinality(Nodes)],
                             Cardinality({n \in Nodes : StopsAtOnce(motors[n])}))
    /\ loop' = LoopAfter(app')

\* A second signal stops the loop without more ado.
SecondSignal ==
    /\ loop = "running" /\ app.initiated
    /\ loop' = "stopped"
    /\ UNCHANGED <<motors, app>>

\* scheduleShutdownCheck's callback resets the nodes after the grace period;
\* before that it arms the timer again.
ShutdownCheck ==
    /\ loop = "running" /\ app.timer = "check" /\ ~app.complete /\ app.expired
    /\ app' = [app EXCEPT !.complete = TRUE, !.reset = TRUE, !.timer = "drain"]
    /\ UNCHANGED <<motors, loop>>

\* The grace of 1500 ms passes.
GraceEnds ==
    /\ app.initiated /\ ~app.expired
    /\ app' = [app EXCEPT !.expired = TRUE]
    /\ UNCHANGED <<motors, loop>>

\* The reset frames have left the channel.
Drained ==
    /\ loop = "running" /\ app.timer = "drain"
    /\ loop' = "stopped"
    /\ UNCHANGED <<motors, app>>
=============================================================================
