-------------------------------- MODULE Tools --------------------------------
(***************************************************************************)
(* The two programs that run a bus, from the start of the bus to the end   *)
(* of the process, composed with the application they own.                 *)
(*                                                                         *)
(* stablecops_commissiond has three threads: main serves one HTTP request  *)
(* at a time, the loop thread of the Bus runs the application, and a       *)
(* watcher escalates signals.  stablecops_master runs the loop on its main *)
(* thread and takes the signals in it; a thread may print statistics.      *)
(*                                                                         *)
(* Main is the only caller of the drives, so the ways in which             *)
(* CanopenApplication is used follow from the code of main, not from an    *)
(* assumption on the application's callers.                                *)
(***************************************************************************)
EXTENDS CanopenApplication, Sequences

CONSTANTS
    None,           \* no node
    BootEnables,    \* the daemon runs with --enable; the master always does
    Fails,          \* the construction of the bus, or the server, may throw
    MaxPosted       \* calls of the daemon on the loop's queue (a bound)

ASSUME ToolsAssumption ==
    /\ None \notin Nodes
    /\ {BootEnables, Fails} \subseteq BOOLEAN
    /\ MaxPosted \in Nat \ {0}

VARIABLES
    tool,       \* which program this is
    signals,    \* g_signal_count, of which 3 is as good as any more
    pending,    \* a signal the master's SignalSet has not delivered
    main,       \* where the main thread is, and the drive it waits for
    helper,     \* the force watcher; the statistics thread of the master
    thread,     \* the loop thread of the Bus
    posted,     \* the daemon's calls on the loop's queue
    asked,      \* requestShutdown is on the loop's queue
    early,      \* history: the drives stopped before the shutdown began
    crossing,   \* and those whose enabling at boot, or mode write, it crossed
    exit        \* how the process ended

queue == <<posted, asked>>
history == <<early, crossing>>
process == <<tool, signals, pending, main, helper, thread, queue, history, exit>>
all == <<vars, process>>

MainPC == {"start", "ready", "listen", "check", "accept", "handle", "await",
           "force", "shutdown", "ask", "join", "unwatch", "run"}
ThreadPC == {"none", "constructing", "failed", "running", "left", "detached", "ended"}
\* What of the API matters to the drivers here: "other" is every other call that
\* main waits for.  A move is not waited for, a quick stop no more than that.
Call == [op : {"stop", "reset", "enable", "home", "other"}, node : Nodes]
Awaited == {"enable", "home", "other"}

ProcessTypeOK ==
    /\ TypeOK
    /\ tool \in {"commissiond", "master"}
    /\ signals \in 0 .. 3 /\ pending \in BOOLEAN
    /\ main \in [pc : MainPC, node : Nodes \cup {None}, failing : BOOLEAN]
    /\ helper \in {"polls", "forces", "forced", "ended"}
    /\ thread \in ThreadPC
    /\ posted \in Seq(Call) /\ asked \in BOOLEAN /\ {early, crossing} \subseteq SUBSET Nodes
    /\ exit \in {"none", "success", "failure", "killed"}

ProcessInit ==
    /\ Init
    /\ signals = 0 /\ pending = FALSE /\ asked = FALSE /\ posted = <<>>
    /\ early = {} /\ crossing = {} /\ exit = "none"
    /\ \/ /\ tool = "commissiond"
          /\ main = [pc |-> "start", node |-> None, failing |-> FALSE]
          /\ helper = "polls" /\ thread = "none"
       \/ /\ tool = "master"
          /\ main = [pc |-> "run", node |-> None, failing |-> FALSE]
          /\ helper \in {"polls", "ended"}      \* with and without --stats
          /\ thread = "running"
-----------------------------------------------------------------------------
At(pc) == exit = "none" /\ main.pc = pc
Goes(pc) == main' = [main EXCEPT !.pc = pc, !.node = None]
\* app_ of the Bus, and whether what it points to exists.
AppVisible == thread \in {"running", "left"}
AppExists == thread \in {"running", "left", "detached"}

Ends(how) ==
    /\ exit' = how
    /\ UNCHANGED <<vars, tool, signals, pending, main, helper, thread, queue, history>>

(* ------------------------ main of commissiond --------------------------- *)

MainOnly == UNCHANGED <<vars, tool, signals, pending, helper, thread, queue, history, exit>>

\* drives.front()->start() launches the loop thread and waits for it.
StartBus ==
    /\ At("start") /\ Goes("ready")
    /\ thread' = "constructing"
    /\ UNCHANGED <<vars, tool, signals, pending, helper, queue, history, exit>>
Throws == main' = [main EXCEPT !.pc = "force", !.node = None, !.failing = TRUE]
BusStarted ==
    /\ At("ready") /\ thread # "constructing" /\ MainOnly
    /\ IF thread = "failed" THEN Throws ELSE Goes("listen")
Listen == At("listen") /\ MainOnly /\ (Goes("check") \/ (Fails /\ Throws))

\* The loop of HttpServer::run, one connection at a time.
CheckStop ==
    /\ At("check") /\ MainOnly
    /\ Goes(IF signals > 0 THEN "shutdown" ELSE "accept")
PollAccept == At("accept") /\ MainOnly /\ (Goes("check") \/ Goes("handle"))

\* The handler reads only, or posts a call, or makes a call and waits for it.
Posts(op, n) ==
    /\ Len(posted) < MaxPosted
    /\ posted' = Append(posted, [op |-> op, node |-> n])
Handle ==
    /\ At("handle")
    /\ \/ Goes("check") /\ UNCHANGED posted
       \/ \E n \in Nodes, op \in {"stop", "reset"} : AppVisible /\ Posts(op, n) /\ Goes("check")
       \/ \E n \in Nodes, op \in Awaited :
              /\ AppVisible /\ Posts(op, n)
              /\ main' = [main EXCEPT !.pc = "await", !.node = n]
    /\ UNCHANGED <<vars, tool, signals, pending, helper, thread, asked, history, exit>>

\* The call was refused, failed or made; or the loop has dropped it, and
\* whether a broken promise wakes main is up to the executor.
Answered ==
    /\ At("await") /\ MainOnly /\ Goes("check")
    /\ \A k \in DOMAIN posted : posted[k].op \notin Awaited
    /\ motors[main.node].call = "none"
BrokenPromise == At("await") /\ ~AppExists /\ MainOnly /\ Goes("check")

\* The handler of an exception stops the loop before the shutdown.
Recover ==
    /\ At("force") /\ Goes("shutdown")
    /\ loop' = IF AppVisible THEN "stopped" ELSE loop
    /\ UNCHANGED <<motors, app, tool, signals, pending, helper, thread, queue, history, exit>>

\* Bus::shutdown.
ShutdownBus ==
    /\ At("shutdown") /\ MainOnly
    /\ Goes(CASE thread \in {"none", "failed"} -> "unwatch"
              [] AppVisible -> "ask"
              [] OTHER -> "join")
Ask ==
    /\ At("ask") /\ Goes("join")
    /\ asked' = AppExists
    /\ UNCHANGED <<vars, tool, signals, pending, helper, thread, posted, history, exit>>
Join == At("join") /\ thread = "ended" /\ MainOnly /\ Goes("unwatch")

\* stop_force_watcher joins; then main returns or rethrows.
Return ==
    /\ At("unwatch") /\ helper = "ended"
    /\ Ends(IF main.failing THEN "failure" ELSE "success")

MainStep ==
    \/ StartBus \/ BusStarted \/ Listen \/ CheckStop \/ PollAccept \/ Handle
    \/ Answered \/ Recover \/ ShutdownBus \/ Ask \/ Join \/ Return
-----------------------------------------------------------------------------
(* The force watcher, and the statistics thread of the master.             *)

HelperOnly == UNCHANGED <<vars, tool, signals, pending, main, thread, queue, history, exit>>
Polling == exit = "none" /\ helper \in {"polls", "forced"}

\* Its loop's condition is false from stop_force_watcher on.
HelperEnds == Polling /\ main.pc = "unwatch" /\ HelperOnly /\ helper' = "ended"
ThirdSignal ==
    /\ tool = "commissiond" /\ Polling /\ main.pc # "unwatch" /\ signals >= 3
    /\ Ends("killed")

\* Mutant: the watcher forces at the first signal.
WatcherForces_AtFirst ==
    /\ tool = "commissiond" /\ exit = "none" /\ helper = "polls" /\ signals >= 1
    /\ AppVisible /\ HelperOnly /\ helper' = "forces"

\* forceStopBus, tried until the application is there: it loads the pointer,
\* then stops what it points to.
WatcherForces ==
    /\ tool = "commissiond" /\ exit = "none" /\ helper = "polls" /\ signals >= 2
    /\ AppVisible /\ HelperOnly /\ helper' = "forces"
WatcherForced ==
    /\ exit = "none" /\ helper = "forces" /\ helper' = "forced"
    /\ loop' = IF AppExists THEN "stopped" ELSE loop
    /\ UNCHANGED <<motors, app, tool, signals, pending, main, thread, queue, history, exit>>

\* Mutant: no delay bounds the forced shutdown.
ForcedDelayEnds_Never == FALSE

\* kForcedShutdownExitDelay after the forced stop.
ForcedDelayEnds == exit = "none" /\ helper = "forced" /\ main.pc # "unwatch" /\ Ends("killed")

HelperStep ==
    \/ HelperEnds \/ ThirdSignal \/ WatcherForces \/ WatcherForced \/ ForcedDelayEnds
-----------------------------------------------------------------------------
(* The loop thread.                                                        *)

ThreadGoes(from, to) ==
    /\ exit = "none" /\ thread = from /\ thread' = to
    /\ UNCHANGED <<vars, tool, signals, pending, main, helper, queue, history, exit>>
Construct == ThreadGoes("constructing", "running")
ConstructFails == Fails /\ ThreadGoes("constructing", "failed")
LoopLeft == loop = "stopped" /\ ThreadGoes("running", "left") /\ tool = "commissiond"
Detach == ThreadGoes("left", "detached")
Destroy == ThreadGoes("detached", "ended")
\* The master's main thread returns from run().
RunReturns ==
    /\ At("run") /\ loop = "stopped"
    /\ thread' = "left" /\ Goes("unwatch")
    /\ UNCHANGED <<vars, tool, signals, pending, helper, queue, history, exit>>
ThreadStep ==
    Construct \/ ConstructFails \/ LoopLeft \/ (tool = "commissiond" /\ (Detach \/ Destroy))
    \/ RunReturns

(* The application, while its loop runs.                                   *)

InLoop ==
    /\ exit = "none" /\ thread = "running"
    /\ UNCHANGED <<tool, signals, main, helper, thread, exit>>

\* The loop takes a call of main's.  requestFaultReset does nothing to a drive
\* that was stopped, and a call that main waits for may throw at once.
RunCall ==
    /\ InLoop /\ posted # <<>> /\ loop = "running"
    /\ posted' = Tail(posted)
    /\ LET op == Head(posted).op
           n == Head(posted).node
       IN  \/ op = "stop" /\ stopNode(n)
           \/ op = "reset" /\ requestFaultReset(n)
           \/ op = "reset" /\ motors[n].stop # "None" /\ UNCHANGED vars
           \/ op = "enable" /\ enableOperation(n)
           \/ op = "home" /\ requestHoming(n)
           \/ op \in Awaited /\ UNCHANGED vars
    /\ UNCHANGED <<pending, asked, history>>

\* What goes on in the drivers without a call.
DriversRun ==
    /\ InLoop /\ UNCHANGED <<pending, queue, history>>
    /\ \E n \in Nodes :
          \/ finishGracefulStop(n) \/ BootEnds(n) \/ CallEnds(n)
          \/ advanceHoming(n) \/ ModeRestored(n)
          \/ motors[n].cyclic /\ motors[n].stop = "None" /\ stopNode(n)   \* a watchdog
Boot ==
    /\ InLoop /\ UNCHANGED <<pending, queue, early>>
    /\ tool = "master" \/ BootEnables
    /\ \E n \in Nodes :
          OnBoot(n) /\ crossing' = IF app.initiated THEN crossing \cup {n} ELSE crossing

BeginShutdown ==
    /\ InLoop /\ requestShutdown
    /\ early' = {n \in Nodes : motors[n].stop = "Done"}
    /\ crossing' = {n \in Nodes : motors[n].boots \/ motors[n].homing = "restoring"}
    /\ UNCHANGED posted
RunShutdown == asked /\ BeginShutdown /\ asked' = FALSE /\ UNCHANGED pending
\* The master's signals, each delivered after the wait was armed again.
FirstSignal == pending /\ pending' = FALSE /\ BeginShutdown /\ UNCHANGED asked
SignalAgain ==
    /\ pending /\ pending' = FALSE /\ InLoop /\ SecondSignal
    /\ UNCHANGED <<queue, history>>

Timers ==
    /\ InLoop /\ (ShutdownCheck \/ GraceEnds \/ Drained)
    /\ UNCHANGED <<pending, queue, history>>

ArrivingSignal ==
    /\ exit = "none" /\ signals < 3 /\ signals' = signals + 1
    /\ pending' = (tool = "master")
    /\ UNCHANGED <<vars, tool, main, helper, thread, queue, history, exit>>
-----------------------------------------------------------------------------
ProcessNext ==
    \/ MainStep \/ BrokenPromise \/ HelperStep \/ ThreadStep
    \/ RunCall \/ DriversRun \/ Boot \/ RunShutdown \/ FirstSignal \/ SignalAgain
    \/ Timers \/ ArrivingSignal

ProcessSpec == ProcessInit /\ [][ProcessNext]_all

\* The threads run, the loop takes what is queued, timers fire, a call ends in
\* an answer or a timeout, and a pending signal is delivered.  No drive has to
\* answer.
CallReturns(n) ==
    InLoop /\ CallEnds(n) /\ UNCHANGED <<pending, queue, history>>
ProcessFairness ==
    /\ WF_all(MainStep) /\ WF_all(HelperStep) /\ WF_all(ThreadStep)
    /\ WF_all(RunCall) /\ WF_all(RunShutdown) /\ WF_all(FirstSignal) /\ WF_all(Timers)
    /\ \A n \in Nodes : WF_all(CallReturns(n))
FairProcess == ProcessSpec /\ ProcessFairness
-----------------------------------------------------------------------------
\* What a shutdown leaves of drive `n`: its driver was stopped and does not
\* stream, unless an enabling at boot or a mode write of homing crossed the stop.
AtRest(n) == motors[n].stop = "Done" /\ (motors[n].cyclic => n \in crossing)

\* A shutdown that ends without resetting the nodes leaves every drive at rest:
\* nobody serves the drives once the loop is gone.
QuietExit == app.complete /\ ~app.reset => \A n \in Nodes : AtRest(n)

\* So does a process that a single signal ended, or it has reset the nodes.
NoDriveLeftRunning ==
    exit = "success" /\ signals < 2 => app.reset \/ \A n \in Nodes : AtRest(n)

\* What the daemon's documentation promises without the exception: "graceful-stop
\* every drive and stop the loop once they are de-energised"
\* (CanopenApplication.hpp).
StopsOnceDeEnergised ==
    tool = "commissiond" /\ app.complete /\ ~app.reset => \A n \in Nodes : ~motors[n].cyclic

\* Nodes are reset only if one of them had not confirmed that it stopped, or
\* had been stopped before the shutdown began and does not report again.
ResetJustified ==
    [][app'.reset /\ ~app.reset
       => early # {} \/ \E n \in Nodes : motors[n].stop # "Done"]_all

\* A signal ends the process, whatever main waits for, whatever the drives
\* do, and also if main never wakes from a call the forced stop dropped.
SignalEnds == signals > 0 ~> exit # "none"
=============================================================================
