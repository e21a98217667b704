----------------------------- MODULE ToolsProofs -----------------------------
(***************************************************************************)
(* The coordinated shutdown, in the two programs, for any finite number of *)
(* drives and calls: a quiet end leaves every drive at rest, and so does a *)
(* process after one signal, but for those whose enabling at boot or mode  *)
(* write crossed the shutdown; and nodes are reset for a reason.           *)
(***************************************************************************)
EXTENDS Tools, FiniteSetTheorems, TLAPS

(* --------------------- the inductive invariant ------------------------- *)

\* The drives that still count in stops_remaining_: those whose stop is in
\* progress, and those stopped earlier, which never report again.
Expected == {n \in Nodes : motors[n].stop = "DisableVoltage"} \cup early

\* What the count is worth: from the shutdown on no drive starts another stop,
\* so it is the number of those expected, until it has finished.
Accounted ==
    /\ app.initiated =>
           /\ \A n \in Nodes : motors[n].stop # "None" /\ motors[n].call = "none"
           /\ \A n \in Nodes : motors[n].boots \/ motors[n].homing = "restoring"
                                => n \in crossing \cup early
           /\ \A n \in Nodes : motors[n].stop = "Done" /\ motors[n].cyclic
                                => n \in crossing \cup early
           /\ \A n \in early : motors[n].stop = "Done"
           /\ app.remaining = Cardinality(Expected)
           /\ app.remaining = 0 => app.complete
           /\ app.complete /\ ~app.reset => app.remaining = 0
    /\ ~app.initiated => ~app.complete /\ ~app.reset /\ app.timer = "off"
    /\ app.timer = "drain" => app.complete

\* main of the daemon waits for its call to drive `n`, or nobody runs it.
InCall(n) == thread = "ended" \/ (main.pc = "await" /\ main.node = n)
Launched == {"running", "left", "detached", "ended"}
Serving == {"listen", "check", "accept", "handle", "await"}
Closing == {"shutdown", "ask", "join", "unwatch"}

\* Why no call that enables a drive can overlap the daemon's shutdown: main waits
\* for the one before it asks for the other.
Daemon ==
    tool = "commissiond" =>
        /\ main.pc # "run" /\ ~pending
        /\ main.pc = "start" <=> thread = "none"
        /\ main.pc \in {"start", "ready"} \cup Serving => ~main.failing
        /\ main.pc = "force" => main.failing
        /\ main.pc \in Serving \cup Closing /\ ~main.failing => thread \in Launched
        /\ main.pc = "unwatch" /\ ~main.failing => thread = "ended"
        /\ thread \in {"left", "detached", "ended"} => loop = "stopped"
        /\ asked \/ app.initiated => main.pc \in {"join", "unwatch"}
        /\ \A n \in Nodes : motors[n].call # "none" => InCall(n)
        /\ \A k \in DOMAIN posted : posted[k].op \in Awaited => InCall(posted[k].node)

\* The master takes its signals in the loop, one after the other.
Master ==
    tool = "master" =>
        /\ main.pc \in {"run", "unwatch"} /\ ~main.failing
        /\ posted = <<>> /\ ~asked /\ \A n \in Nodes : motors[n].call = "none"
        /\ thread \in {"running", "left"}
        /\ thread = "left" => loop = "stopped"
        /\ main.pc = "unwatch" => thread = "left"
        /\ app.initiated \/ pending => signals >= 1
        /\ app.initiated /\ pending => signals >= 2

\* What stopped the loop, and how a process ended.
Causes ==
    /\ loop = "stopped" => main.failing \/ signals >= 2 \/ app.complete
    /\ helper = "forces" => signals >= 2
    /\ exit = "success" => main.pc = "unwatch" /\ ~main.failing

IInv == ProcessTypeOK /\ Accounted /\ Daemon /\ Master /\ Causes
-----------------------------------------------------------------------------
USE DEF vars, queue, history, process, all

LEMMA AccountedKept ==
    ASSUME Accounted, UNCHANGED <<motors, app, history>>
    PROVE  Accounted'
BY DEF Accounted, Expected

\* Where the moves of main lead.
LEMMA MainGoes ==
    ASSUME ProcessTypeOK, NEW pc \in MainPC, Goes(pc)
    PROVE  /\ main' \in [pc : MainPC, node : Nodes \cup {None}, failing : BOOLEAN]
           /\ main'.pc = pc /\ main'.node = None /\ main'.failing = main.failing
BY DEF ProcessTypeOK, Goes

LEMMA MainThrows ==
    ASSUME ProcessTypeOK, Throws
    PROVE  /\ main' \in [pc : MainPC, node : Nodes \cup {None}, failing : BOOLEAN]
           /\ main'.pc = "force" /\ main'.node = None /\ main'.failing
BY DEF ProcessTypeOK, Throws, MainPC

LEMMA MainAwaits ==
    ASSUME ProcessTypeOK, NEW n \in Nodes, main' = [main EXCEPT !.pc = "await", !.node = n]
    PROVE  /\ main' \in [pc : MainPC, node : Nodes \cup {None}, failing : BOOLEAN]
           /\ main'.pc = "await" /\ main'.node = n /\ main'.failing = main.failing
BY DEF ProcessTypeOK, MainPC

\* A call at the end of the queue.
LEMMA PostsLemma ==
    ASSUME ProcessTypeOK, NEW n \in Nodes, NEW op \in {"stop", "reset"} \cup Awaited, Posts(op, n)
    PROVE  /\ posted' \in Seq(Call) /\ posted' # <<>>
           /\ DOMAIN posted' = 1 .. Len(posted) + 1
           /\ \A k \in DOMAIN posted : k \in DOMAIN posted' /\ posted'[k] = posted[k]
           /\ \A k \in DOMAIN posted' :
                 \/ k \in DOMAIN posted
                 \/ posted'[k].op = op /\ posted'[k].node = n
<1> DEFINE c == [op |-> op, node |-> n]
<1>1. c \in Call /\ posted \in Seq(Call)
  BY DEF Call, Awaited, ProcessTypeOK
<1>2. posted' = Append(posted, c)
  BY DEF Posts
<1>3. c.op = op /\ c.node = n
  OBVIOUS
<1> HIDE DEF c
<1>4. QED
  BY <1>1, <1>2, <1>3
-----------------------------------------------------------------------------
(* The steps of the daemon's main thread. *)

LEMMA MainType ==
    ASSUME ProcessTypeOK, MainStep \/ BrokenPromise
    PROVE  ProcessTypeOK'
<1>1. CASE StartBus
  BY <1>1, MainGoes DEF ProcessTypeOK, TypeOK, StartBus, MainOnly, MainPC, ThreadPC
<1>2. CASE BusStarted
  BY <1>2, MainGoes, MainThrows DEF ProcessTypeOK, TypeOK, BusStarted, MainOnly, MainPC
<1>3. CASE Listen
  BY <1>3, MainGoes, MainThrows DEF ProcessTypeOK, TypeOK, Listen, MainOnly, MainPC
<1>4. CASE CheckStop
  BY <1>4, MainGoes DEF ProcessTypeOK, TypeOK, CheckStop, MainOnly, MainPC, ThreadPC
<1>5. CASE PollAccept
  BY <1>5, MainGoes DEF ProcessTypeOK, TypeOK, PollAccept, MainOnly, MainPC, ThreadPC
<1>6. CASE Handle
  <2>1. UNCHANGED <<vars, tool, signals, pending, helper, thread, asked, history, exit>>
    BY <1>6 DEF Handle
  <2>2. posted' \in Seq(Call)
    <3>1. CASE UNCHANGED posted
      BY <3>1 DEF ProcessTypeOK
    <3>2. ASSUME NEW n \in Nodes, NEW op \in {"stop", "reset"} \cup Awaited, Posts(op, n)
          PROVE  posted' \in Seq(Call)
      BY <3>2, PostsLemma
    <3>3. QED
      BY <1>6, <3>1, <3>2 DEF Handle
  <2>3. main' \in [pc : MainPC, node : Nodes \cup {None}, failing : BOOLEAN]
    BY <1>6, MainGoes, MainAwaits DEF Handle, MainPC
  <2>4. QED
    BY <2>1, <2>2, <2>3 DEF ProcessTypeOK, TypeOK
<1>7. CASE Answered
  BY <1>7, MainGoes DEF ProcessTypeOK, TypeOK, Answered, MainOnly, MainPC, ThreadPC
<1>8. CASE BrokenPromise
  BY <1>8, MainGoes DEF ProcessTypeOK, TypeOK, BrokenPromise, MainOnly, MainPC, ThreadPC
<1>9. CASE Recover
  BY <1>9, MainGoes DEF ProcessTypeOK, TypeOK, Recover, MainOnly, MainPC, ThreadPC
<1>10. CASE ShutdownBus
  BY <1>10, MainGoes DEF ProcessTypeOK, TypeOK, ShutdownBus, MainOnly, MainPC, ThreadPC
<1>11. CASE Ask
  BY <1>11, MainGoes DEF ProcessTypeOK, TypeOK, Ask, MainOnly, MainPC, ThreadPC, AppExists
<1>12. CASE Join
  BY <1>12, MainGoes DEF ProcessTypeOK, TypeOK, Join, MainOnly, MainPC, ThreadPC
<1>13. CASE Return
  BY <1>13 DEF ProcessTypeOK, TypeOK, Return, Ends
<1>14. QED
  BY <1>1, <1>2, <1>3, <1>4, <1>5, <1>6, <1>7, <1>8, <1>9, <1>10, <1>11, <1>12, <1>13 DEF MainStep

LEMMA MainDaemon ==
    ASSUME IInv, MainStep \/ BrokenPromise
    PROVE  Daemon'
<1> USE DEF IInv, Daemon, InCall, Launched, Serving, Closing, At
<1>0. SUFFICES ASSUME tool = "commissiond" PROVE Daemon'
  BY DEF MainStep, MainOnly, Ends, StartBus, BusStarted, Listen, CheckStop, PollAccept,
     Handle, Answered, BrokenPromise, Recover, ShutdownBus, Ask, Join, Return
<1>1. CASE StartBus
  BY <1>0, <1>1, MainGoes DEF StartBus, MainOnly, MainPC, AppVisible, AppExists, ProcessTypeOK,
     ThreadPC
<1>2. CASE BusStarted
  <2>1. thread # "failed" => thread \in Launched
    BY <1>0, <1>2 DEF BusStarted, ProcessTypeOK, ThreadPC
  <2>2. CASE Goes("listen") /\ thread # "failed"
    <3>1. main'.pc = "listen" /\ main'.failing = main.failing
      BY <2>2, MainGoes DEF MainPC
    <3>2. QED
      BY <1>0, <1>2, <2>1, <2>2, <3>1 DEF BusStarted, MainOnly
  <2>3. CASE Throws
    BY <1>0, <1>2, <2>3, MainThrows DEF BusStarted, MainOnly
  <2>4. QED
    BY <1>0, <1>2, <2>2, <2>3 DEF BusStarted
<1>3. CASE Listen
  BY <1>0, <1>3, MainGoes, MainThrows DEF Listen, MainOnly, MainPC, ProcessTypeOK, ThreadPC
<1>4. CASE CheckStop
  BY <1>0, <1>4, MainGoes DEF CheckStop, MainOnly, MainPC, AppVisible, AppExists,
     ProcessTypeOK, ThreadPC
<1>5. CASE PollAccept
  BY <1>0, <1>5, MainGoes DEF PollAccept, MainOnly, MainPC, AppVisible, AppExists,
     ProcessTypeOK, ThreadPC
<1>6. CASE Handle
  <2>1. main.pc = "handle" /\ ~main.failing /\ ~asked /\ ~app.initiated
    BY <1>0, <1>6 DEF Handle
  <2>2. \A m \in Nodes : motors[m].call # "none" => thread = "ended"
    BY <1>0, <1>6, <2>1
  <2>3. \A k \in DOMAIN posted : posted[k].op \in Awaited => thread = "ended"
    BY <1>0, <1>6, <2>1
  <2>4. CASE Goes("check") /\ UNCHANGED posted
    BY <1>0, <1>6, <2>4, <2>1, <2>2, <2>3, MainGoes DEF Handle, MainPC
  <2>5. ASSUME NEW n \in Nodes, NEW op \in {"stop", "reset"}, Posts(op, n), Goes("check")
        PROVE  Daemon'
    <3>1. \A k \in DOMAIN posted' : posted'[k].op \in Awaited => thread = "ended"
      BY <2>5, <2>3, PostsLemma DEF Awaited
    <3>2. main'.pc = "check" /\ main'.failing = main.failing
      BY <2>5, MainGoes DEF MainPC
    <3>3. QED
      BY <1>0, <1>6, <2>1, <2>2, <3>1, <3>2 DEF Handle
  <2>6. ASSUME NEW n \in Nodes, NEW op \in Awaited, Posts(op, n),
               main' = [main EXCEPT !.pc = "await", !.node = n]
        PROVE  Daemon'
    <3>1. \A k \in DOMAIN posted' :
             posted'[k].op \in Awaited => thread = "ended" \/ posted'[k].node = n
      BY <2>6, <2>3, PostsLemma
    <3>2. main'.pc = "await" /\ main'.node = n /\ main'.failing = main.failing
      BY <2>6, MainAwaits
    <3>3. QED
      BY <1>0, <1>6, <2>1, <2>2, <3>1, <3>2 DEF Handle
  <2>7. QED
    BY <1>0, <1>6, <2>4, <2>5, <2>6 DEF Handle
<1>7. CASE Answered
  BY <1>0, <1>7, MainGoes DEF Answered, MainOnly, MainPC, AppVisible, AppExists, ProcessTypeOK,
     ThreadPC
<1>8. CASE BrokenPromise
  BY <1>0, <1>8, MainGoes DEF BrokenPromise, MainOnly, MainPC, AppVisible, AppExists,
     ProcessTypeOK, ThreadPC
<1>9. CASE Recover
  <2>1. loop' = "stopped" \/ loop' = loop
    BY <1>0, <1>9 DEF Recover
  <2>2. main'.pc = "shutdown" /\ main'.failing = main.failing
    BY <1>0, <1>9, MainGoes DEF Recover, MainPC
  <2>3. QED
    BY <1>0, <1>9, <2>1, <2>2 DEF Recover
<1>10. CASE ShutdownBus
  BY <1>0, <1>10, MainGoes DEF ShutdownBus, MainOnly, MainPC, AppVisible, AppExists,
     ProcessTypeOK, ThreadPC
<1>11. CASE Ask
  BY <1>0, <1>11, MainGoes DEF Ask, MainOnly, MainPC, AppVisible, AppExists, ProcessTypeOK,
     ThreadPC
<1>12. CASE Join
  BY <1>0, <1>12, MainGoes DEF Join, MainOnly, MainPC, AppVisible, AppExists, ProcessTypeOK,
     ThreadPC
<1>13. CASE Return
  BY <1>0, <1>13 DEF Return, Ends
<1>14. QED
  BY <1>1, <1>2, <1>3, <1>4, <1>5, <1>6, <1>7, <1>8, <1>9, <1>10, <1>11, <1>12, <1>13 DEF MainStep

LEMMA MainRest ==
    ASSUME IInv, MainStep \/ BrokenPromise
    PROVE  Accounted' /\ Master' /\ Causes'
<1> USE DEF IInv, Master, Causes, At
<1>0. SUFFICES Master' /\ Causes'
  BY AccountedKept DEF MainStep, MainOnly, Ends, StartBus, BusStarted, Listen, CheckStop,
     PollAccept,
     Handle, Answered, BrokenPromise, Recover, ShutdownBus, Ask, Join, Return
<1>1. CASE StartBus
  BY <1>0, <1>1, MainGoes DEF StartBus, MainOnly, MainPC, Daemon, ProcessTypeOK, ThreadPC,
     AppVisible, Closing, Serving
<1>2. CASE BusStarted
  BY <1>0, <1>2, MainGoes, MainThrows DEF BusStarted, MainOnly, MainPC
<1>3. CASE Listen
  BY <1>0, <1>3, MainGoes, MainThrows DEF Listen, MainOnly, MainPC
<1>4. CASE CheckStop
  BY <1>0, <1>4, MainGoes DEF CheckStop, MainOnly, MainPC, Daemon, ProcessTypeOK, ThreadPC,
     AppVisible, Closing, Serving
<1>5. CASE PollAccept
  BY <1>0, <1>5, MainGoes DEF PollAccept, MainOnly, MainPC, Daemon, ProcessTypeOK, ThreadPC,
     AppVisible, Closing, Serving
<1>6. CASE Handle
  BY <1>0, <1>6, MainGoes, MainAwaits DEF Handle, MainPC
<1>7. CASE Answered
  BY <1>0, <1>7, MainGoes DEF Answered, MainOnly, MainPC, Daemon, ProcessTypeOK, ThreadPC,
     AppVisible, Closing, Serving
<1>8. CASE BrokenPromise
  BY <1>0, <1>8, MainGoes DEF BrokenPromise, MainOnly, MainPC, Daemon, ProcessTypeOK, ThreadPC,
     AppVisible, Closing, Serving
<1>9. CASE Recover
  BY <1>0, <1>9, MainGoes DEF Recover, MainOnly, MainPC, Daemon, ProcessTypeOK, ThreadPC,
     AppVisible, Closing, Serving
<1>10. CASE ShutdownBus
  BY <1>0, <1>10, MainGoes DEF ShutdownBus, MainOnly, MainPC, Daemon, ProcessTypeOK, ThreadPC,
     AppVisible, Closing, Serving
<1>11. CASE Ask
  BY <1>0, <1>11, MainGoes DEF Ask, MainOnly, MainPC, Daemon, ProcessTypeOK, ThreadPC,
     AppVisible, Closing, Serving
<1>12. CASE Join
  BY <1>0, <1>12, MainGoes DEF Join, MainOnly, MainPC, Daemon, ProcessTypeOK, ThreadPC,
     AppVisible, Closing, Serving
<1>13. CASE Return
  BY <1>0, <1>13 DEF Return, Ends
<1>14. QED
  BY <1>1, <1>2, <1>3, <1>4, <1>5, <1>6, <1>7, <1>8, <1>9, <1>10, <1>11, <1>12, <1>13 DEF MainStep

LEMMA MainInv == ASSUME IInv, MainStep \/ BrokenPromise PROVE IInv'
BY MainType, MainDaemon, MainRest DEF IInv
-----------------------------------------------------------------------------
(* The steps of the other threads, and of whoever sends signals. *)

LEMMA HelperInv == ASSUME IInv, HelperStep PROVE IInv'
<1> USE DEF HelperStep, HelperEnds, ThirdSignal, WatcherForces, WatcherForced, ForcedDelayEnds,
        HelperOnly, Polling, Ends
<1>1. ProcessTypeOK'
  BY DEF IInv, ProcessTypeOK, TypeOK
<1>2. Accounted'
  BY AccountedKept DEF IInv
<1>3. /\ UNCHANGED <<tool, motors, app, posted, asked, main, thread, pending, signals>>
      /\ loop' = loop \/ (loop' = "stopped" /\ helper = "forces")
  OBVIOUS
<1>4. Daemon' /\ Master'
  BY <1>3 DEF IInv, Daemon, Master, InCall
<1>5. Causes'
  BY <1>3 DEF IInv, Causes
<1>6. QED
  BY <1>1, <1>2, <1>4, <1>5 DEF IInv

LEMMA ThreadInv == ASSUME IInv, ThreadStep PROVE IInv'
<1> USE DEF ThreadStep, Construct, ConstructFails, LoopLeft, Detach, Destroy, RunReturns,
        ThreadGoes, At
<1>1. UNCHANGED <<vars, tool, signals, pending, helper, queue, history, exit>>
  OBVIOUS
<1>2. ProcessTypeOK'
  <2>1. main' \in [pc : MainPC, node : Nodes \cup {None}, failing : BOOLEAN]
    BY MainGoes DEF IInv, ProcessTypeOK, MainPC
  <2>2. thread' \in ThreadPC
    BY DEF ThreadPC
  <2>3. QED
    BY <1>1, <2>1, <2>2 DEF IInv, ProcessTypeOK, TypeOK
<1>3. Accounted'
  BY <1>1, AccountedKept DEF IInv
<1>4. CASE RunReturns
  <2>1. tool = "master"
    BY <1>4 DEF IInv, ProcessTypeOK, Daemon
  <2>2. main'.pc = "unwatch" /\ main'.failing = main.failing
    BY <1>4, MainGoes DEF IInv, MainPC
  <2>3. QED
    BY <1>1, <1>2, <1>3, <1>4, <2>1, <2>2 DEF IInv, Daemon, Master, Causes
<1>5. CASE ~RunReturns
  <2>1. UNCHANGED main
    BY <1>5
  <2>2. Daemon'
    BY <1>1, <1>5, <2>1 DEF IInv, Daemon, InCall, Launched
  <2>3. Master' /\ Causes'
    BY <1>1, <1>5, <2>1 DEF IInv, Master, Causes, ProcessTypeOK
  <2>4. QED
    BY <1>2, <1>3, <2>2, <2>3 DEF IInv
<1>6. QED
  BY <1>4, <1>5

LEMMA ArrivingSignalInv == ASSUME IInv, ArrivingSignal PROVE IInv'
<1> USE DEF ArrivingSignal
<1>1. signals \in 0 .. 3 /\ signals < 3 /\ signals' = signals + 1
  BY DEF IInv, ProcessTypeOK
<1>2. ProcessTypeOK'
  BY <1>1 DEF IInv, ProcessTypeOK, TypeOK
<1>3. Accounted'
  BY AccountedKept DEF IInv
<1>4. Daemon'
  BY DEF IInv, Daemon, InCall
<1>5. Master' /\ Causes'
  BY <1>1 DEF IInv, Master, Causes
<1>6. QED
  BY <1>2, <1>3, <1>4, <1>5 DEF IInv
-----------------------------------------------------------------------------
(* The steps of the loop. *)

\* What a step of the loop that begins no shutdown has to show beyond the count.
LEMMA LoopRest ==
    ASSUME IInv, InLoop, UNCHANGED <<pending, asked>>,
           \A n \in Nodes : motors'[n].call # "none" =>
               motors[n].call # "none" \/ (main.pc = "await" /\ main.node = n),
           \A k \in DOMAIN posted' : \E j \in DOMAIN posted : posted'[k] = posted[j],
           posted = <<>> => posted' = <<>>,
           app'.initiated = app.initiated, app.complete => app'.complete,
           loop' = "stopped" => loop = "stopped" \/ app'.complete
    PROVE  Daemon' /\ Master' /\ Causes'
<1> USE DEF InLoop
<1>1. Daemon'
  BY DEF IInv, Daemon, InCall
<1>2. Master'
  BY DEF IInv, Master
<1>3. Causes'
  BY DEF IInv, Causes
<1>4. QED
  BY <1>1, <1>2, <1>3

\* Before the shutdown nothing is counted.
LEMMA NotBegun ==
    ASSUME Accounted, ~app.initiated, UNCHANGED app
    PROVE  Accounted'
BY DEF Accounted

LEMMA RequestType ==
    ASSUME NEW m \in Driver
    PROVE  /\ requestGracefulStop(m) \in Driver
           /\ requestGracefulStop(m).call = m.call /\ requestGracefulStop(m).boots = m.boots
           /\ requestGracefulStop(m).homing = m.homing
           /\ requestGracefulStop(m).cyclic = m.cyclic
           /\ m.stop # "None" => requestGracefulStop(m) = m
           /\ StopsAtOnce(m) => requestGracefulStop(m).stop = "Done"
           /\ m.stop = "None" /\ ~StopsAtOnce(m) => requestGracefulStop(m).stop = "DisableVoltage"
BY DEF requestGracefulStop, StopsAtOnce, Driver

\* A stop request to one drive is never one the application counts: before the
\* shutdown it does not count, and from then on no drive is left to report at once.
LEMMA StopsLemma ==
    ASSUME IInv, NEW n \in Nodes, Stops(n)
    PROVE  /\ UNCHANGED <<app, loop>>
           /\ motors' \in [Nodes -> Driver]
           /\ \A m \in Nodes : motors'[m].call = motors[m].call
           /\ app.initiated => UNCHANGED motors
<1>1. motors \in [Nodes -> Driver] /\ app \in Impl
  BY DEF IInv, ProcessTypeOK, TypeOK
<1>2. motors' = [motors EXCEPT ![n] = requestGracefulStop(motors[n])]
  BY DEF Stops
<1>3. StopsAtOnce(motors[n]) => ~app.initiated
  BY DEF IInv, Accounted, StopsAtOnce
<1>4. app' = app
  BY <1>3 DEF Stops, onMotorStopped
<1>5. loop' = loop
  BY <1>4 DEF Stops, LoopAfter
<1>6. app.initiated => UNCHANGED motors
  BY <1>1, <1>2, RequestType DEF IInv, Accounted
<1>7. QED
  BY <1>1, <1>2, <1>4, <1>5, <1>6, RequestType

LEMMA TailPosted ==
    ASSUME posted \in Seq(Call), posted # <<>>, posted' = Tail(posted)
    PROVE  /\ posted' \in Seq(Call) /\ Head(posted) \in Call /\ Head(posted) = posted[1]
           /\ 1 \in DOMAIN posted
           /\ \A k \in DOMAIN posted' : \E j \in DOMAIN posted : posted'[k] = posted[j]
<1>1. \A k \in DOMAIN posted' : k + 1 \in DOMAIN posted /\ posted'[k] = posted[k + 1]
  OBVIOUS
<1>2. QED
  BY <1>1

\* A driver goes on by itself.
LEMMA TakesLemma ==
    ASSUME motors \in [Nodes -> Driver], NEW n \in Nodes, NEW d \in Driver, Takes(n, d)
    PROVE  /\ motors' \in [Nodes -> Driver] /\ motors'[n] = d
           /\ \A m \in Nodes \ {n} : motors'[m] = motors[m]
           /\ UNCHANGED <<app, loop>>
BY DEF Takes

LEMMA RunCallInv == ASSUME IInv, RunCall PROVE IInv'
<1> DEFINE op == Head(posted).op
           n == Head(posted).node
<1>1. /\ InLoop /\ posted # <<>> /\ posted' = Tail(posted) /\ UNCHANGED <<pending, asked, history>>
      /\ \/ op = "stop" /\ stopNode(n)
         \/ op = "reset" /\ requestFaultReset(n)
         \/ UNCHANGED vars
         \/ op = "enable" /\ enableOperation(n)
         \/ op = "home" /\ requestHoming(n)
  BY DEF RunCall
<1>2. posted \in Seq(Call) /\ motors \in [Nodes -> Driver] /\ app \in Impl
  BY DEF IInv, ProcessTypeOK, TypeOK
<1>3. n \in Nodes /\ op = posted[1].op /\ n = posted[1].node /\ 1 \in DOMAIN posted
  BY <1>1, <1>2, TailPosted DEF Call
<1>4. /\ posted' \in Seq(Call)
      /\ \A k \in DOMAIN posted' : \E j \in DOMAIN posted : posted'[k] = posted[j]
  BY <1>1, <1>2, TailPosted
<1>5. tool = "commissiond"
  BY <1>1 DEF IInv, ProcessTypeOK, Master
<1>6. op \in {"enable", "home"} => main.pc = "await" /\ main.node = n /\ ~app.initiated
  BY <1>1, <1>3, <1>5 DEF IInv, Daemon, InCall, InLoop, Awaited
<1> HIDE DEF op, n
<1>7. /\ motors' \in [Nodes -> Driver] /\ UNCHANGED <<app, loop>>
      /\ app.initiated => UNCHANGED motors
      /\ \A m \in Nodes : motors'[m].call # "none" =>
             motors[m].call # "none" \/ (main.pc = "await" /\ main.node = m)
  <2>1. CASE stopNode(n)
    BY <1>3, <2>1, StopsLemma DEF stopNode
  <2>2. CASE requestFaultReset(n)
    <3> DEFINE d == [motors[n] EXCEPT !.cyclic = TRUE]
    <3>0. motors[n] \in Driver
      BY <1>2, <1>3
    <3>1. d \in Driver /\ d.call = motors[n].call
      BY <3>0 DEF Driver
    <3>2. Takes(n, d)
      BY <1>2, <1>3, <2>2 DEF requestFaultReset, Takes
    <3>3. ~app.initiated
      BY <1>3, <2>2 DEF requestFaultReset, IInv, Accounted
    <3> HIDE DEF d
    <3>4. QED
      BY <1>2, <1>3, <3>1, <3>2, <3>3, TakesLemma
  <2>3. CASE UNCHANGED vars
    BY <1>2, <2>3
  <2>4. CASE op = "enable" /\ enableOperation(n)
    <3> DEFINE d == [motors[n] EXCEPT !.stop = "None", !.call = "enable"]
    <3>0. motors[n] \in Driver
      BY <1>2, <1>3
    <3>1. d \in Driver
      BY <3>0 DEF Driver
    <3>2. Takes(n, d)
      BY <2>4 DEF enableOperation
    <3> HIDE DEF d
    <3>3. QED
      BY <1>2, <1>3, <1>6, <2>4, <3>1, <3>2, TakesLemma
  <2>5. CASE op = "home" /\ requestHoming(n)
    <3> DEFINE d == [motors[n] EXCEPT !.call = "home"]
    <3>0. motors[n] \in Driver
      BY <1>2, <1>3
    <3>1. d \in Driver
      BY <3>0 DEF Driver
    <3>2. Takes(n, d)
      BY <2>5 DEF requestHoming
    <3> HIDE DEF d
    <3>3. QED
      BY <1>2, <1>3, <1>6, <2>5, <3>1, <3>2, TakesLemma
  <2>6. QED
    BY <1>1, <2>1, <2>2, <2>3, <2>4, <2>5
<1>8. ProcessTypeOK'
  BY <1>1, <1>4, <1>7 DEF IInv, ProcessTypeOK, TypeOK, InLoop
<1>9. Accounted'
  BY <1>1, <1>7, AccountedKept, NotBegun DEF IInv
<1>10. Daemon' /\ Master' /\ Causes'
  BY <1>1, <1>4, <1>7, LoopRest
<1>11. QED
  BY <1>8, <1>9, <1>10 DEF IInv

\* A drive that reports is one fewer expected, and the last one finishes.
LEMMA ReportLemma ==
    ASSUME IInv, NEW n \in Nodes, finishGracefulStop(n), UNCHANGED history
    PROVE  /\ motors' \in [Nodes -> Driver] /\ app' \in Impl
           /\ Accounted'
           /\ \A m \in Nodes : motors'[m].call = motors[m].call
           /\ app'.initiated = app.initiated /\ (app.complete => app'.complete)
           /\ loop' = loop \/ (loop' = "stopped" /\ app'.complete)
<1>1. /\ motors \in [Nodes -> Driver] /\ app \in Impl /\ early \subseteq Nodes
      /\ Accounted
  BY DEF IInv, ProcessTypeOK, TypeOK
<1>2. /\ motors[n].stop = "DisableVoltage" /\ motors[n].cyclic
      /\ motors' = [motors EXCEPT ![n].stop = "Done", ![n].cyclic = FALSE]
      /\ app' = onMotorStopped(app, 1) /\ loop' = LoopAfter(app')
  BY DEF finishGracefulStop
<1>3. /\ motors' \in [Nodes -> Driver]
      /\ motors'[n].stop = "Done" /\ ~motors'[n].cyclic
      /\ \A m \in Nodes : motors'[m].call = motors[m].call
      /\ \A m \in Nodes \ {n} : motors'[m] = motors[m]
  BY <1>1, <1>2 DEF Driver
<1>4. loop' = loop \/ (loop' = "stopped" /\ app'.complete)
  BY <1>2 DEF LoopAfter
<1>5. CASE ~app.initiated
  <2>1. app' = app
    BY <1>2, <1>5 DEF onMotorStopped
  <2>2. QED
    BY <1>1, <1>3, <1>4, <1>5, <2>1, NotBegun
<1>6. CASE app.initiated
  <2>1. n \notin early
    BY <1>1, <1>2, <1>6 DEF Accounted
  <2>2. n \in Expected /\ Expected' = Expected \ {n}
    BY <1>2, <1>3, <2>1 DEF Expected
  <2>3. IsFiniteSet(Expected)
    BY <1>1, CanopenApplicationAssumption, FS_Subset DEF Expected
  <2>4. /\ Cardinality(Expected) \in Nat /\ Cardinality(Expected) # 0
        /\ Cardinality(Expected') = Cardinality(Expected) - 1
    BY <2>2, <2>3, FS_RemoveElement, FS_EmptySet, FS_CardinalityType
  <2>5. app.remaining = Cardinality(Expected) /\ Cardinality(Nodes) \in Nat
        /\ app.remaining \in 0 .. Cardinality(Nodes)
    BY <1>1, <1>6, CanopenApplicationAssumption, FS_CardinalityType DEF Accounted, Impl
  <2> DEFINE left == IF app.remaining > 1 THEN app.remaining - 1 ELSE 0
             done == app.complete \/ left = 0
  <2>6. app' = [app EXCEPT !.remaining = left, !.complete = done]
    BY <1>2, <1>6 DEF onMotorStopped
  <2>7. /\ app' \in Impl /\ app'.remaining = app.remaining - 1
        /\ app'.complete <=> app.complete \/ app'.remaining = 0
        /\ app'.initiated = app.initiated /\ app'.reset = app.reset /\ app'.timer = app.timer
    <3>1. left = app.remaining - 1 /\ left \in 0 .. Cardinality(Nodes)
      BY <2>4, <2>5
    <3>2. done \in BOOLEAN /\ (done <=> app.complete \/ left = 0)
      OBVIOUS
    <3> HIDE DEF left, done
    <3>3. QED
      BY <1>1, <2>6, <3>1, <3>2 DEF Impl
  <2>8. Accounted'
    <3>1. \A m \in Nodes :
              /\ motors'[m].call = motors[m].call
              /\ motors'[m].boots = motors[m].boots /\ motors'[m].homing = motors[m].homing
              /\ motors'[m].cyclic => motors[m].cyclic /\ m # n
              /\ m # n => motors'[m].stop = motors[m].stop
              /\ motors'[m].stop = "None" => motors[m].stop = "None"
      BY <1>1, <1>2, <1>3 DEF Driver
    <3>2. /\ app'.remaining = Cardinality(Expected')
          /\ app'.remaining = 0 => app'.complete
          /\ app'.complete /\ ~app'.reset => app'.remaining = 0
      BY <1>1, <1>6, <2>4, <2>5, <2>7 DEF Accounted
    <3>3. \A m \in early' : motors'[m].stop = "Done"
      BY <1>1, <1>6, <2>1, <3>1 DEF Accounted
    <3>4. \A m \in Nodes : motors'[m].boots \/ motors'[m].homing = "restoring"
                            => m \in crossing' \cup early'
      BY <1>1, <1>6, <3>1 DEF Accounted
    <3>5. \A m \in Nodes : motors'[m].stop = "Done" /\ motors'[m].cyclic
                            => m \in crossing' \cup early'
      BY <1>1, <1>6, <3>1 DEF Accounted
    <3>6. \A m \in Nodes : motors'[m].stop # "None" /\ motors'[m].call = "none"
      BY <1>1, <1>6, <3>1 DEF Accounted
    <3>7. app'.initiated /\ (app'.timer = "drain" => app'.complete)
      BY <1>1, <1>6, <2>7 DEF Accounted
    <3>8. QED
      BY <3>2, <3>3, <3>4, <3>5, <3>6, <3>7 DEF Accounted
  <2>9. QED
    BY <1>3, <1>4, <2>7, <2>8
<1>7. QED
  BY <1>5, <1>6

\* What a driver does by itself after the shutdown began leaves the count alone:
\* it has an enabling or a mode write under way, or was stopped before.
LEMMA DriverLemma ==
    ASSUME IInv, NEW n \in Nodes, NEW d \in Driver, Takes(n, d), UNCHANGED history,
           app.initiated => n \in crossing \cup early,
           d.stop = motors[n].stop, d.call \in {motors[n].call, "none"}
    PROVE  /\ motors' \in [Nodes -> Driver] /\ UNCHANGED <<app, loop>> /\ Accounted'
           /\ \A m \in Nodes : motors'[m].call # "none" => motors[m].call # "none"
<1>1. motors \in [Nodes -> Driver] /\ Accounted
  BY DEF IInv, ProcessTypeOK, TypeOK
<1>2. /\ motors' \in [Nodes -> Driver] /\ motors'[n] = d
      /\ \A m \in Nodes \ {n} : motors'[m] = motors[m]
      /\ UNCHANGED <<app, loop>>
  BY <1>1, TakesLemma
<1>3. \A m \in Nodes : motors'[m].stop = motors[m].stop
  BY <1>2
<1>4. Expected' = Expected
  BY <1>3 DEF Expected
<1>5. Accounted'
  <2>1. CASE ~app.initiated
    BY <1>1, <1>2, <2>1, NotBegun
  <2>2. CASE app.initiated
    <3>1. \A m \in Nodes : motors'[m].stop # "None" /\ motors'[m].call = "none"
      BY <1>1, <1>2, <1>3, <2>2 DEF Accounted
    <3>2. \A m \in Nodes : motors'[m].boots \/ motors'[m].homing = "restoring"
                            => m \in crossing' \cup early'
      BY <1>1, <1>2, <1>3, <2>2 DEF Accounted
    <3>3. \A m \in Nodes : motors'[m].stop = "Done" /\ motors'[m].cyclic
                            => m \in crossing' \cup early'
      BY <1>1, <1>2, <1>3, <2>2 DEF Accounted
    <3>4. early' = early /\ \A m \in early : motors'[m].stop = "Done"
      BY <1>1, <1>2, <1>3, <2>2 DEF Accounted, IInv, ProcessTypeOK
    <3>5. QED
      BY <1>1, <1>2, <1>4, <2>2, <3>1, <3>2, <3>3, <3>4 DEF Accounted
  <2>3. QED
    BY <2>1, <2>2
<1>6. QED
  BY <1>2, <1>5

LEMMA DriversRunInv == ASSUME IInv, DriversRun PROVE IInv'
<1>1. /\ InLoop /\ UNCHANGED <<pending, queue, history>>
      /\ motors \in [Nodes -> Driver] /\ app \in Impl /\ Accounted
  BY DEF DriversRun, IInv, ProcessTypeOK, TypeOK
<1>2. PICK n \in Nodes :
          \/ finishGracefulStop(n) \/ BootEnds(n) \/ CallEnds(n)
          \/ advanceHoming(n) \/ ModeRestored(n) \/ stopNode(n)
  BY DEF DriversRun
<1>3. /\ motors' \in [Nodes -> Driver] /\ app' \in Impl /\ Accounted'
      /\ \A m \in Nodes : motors'[m].call # "none" => motors[m].call # "none"
      /\ app'.initiated = app.initiated /\ (app.complete => app'.complete)
      /\ loop' = loop \/ (loop' = "stopped" /\ app'.complete)
  <2>1. CASE finishGracefulStop(n)
    BY <1>1, <2>1, ReportLemma
  <2>2. CASE stopNode(n)
    BY <1>1, <2>2, StopsLemma, AccountedKept, NotBegun DEF stopNode
  <2>3. ASSUME NEW d \in Driver, Takes(n, d), d.stop = motors[n].stop,
               d.call \in {motors[n].call, "none"},
               app.initiated => n \in crossing \cup early
        PROVE  /\ motors' \in [Nodes -> Driver] /\ app' \in Impl /\ Accounted'
               /\ \A m \in Nodes : motors'[m].call # "none" => motors[m].call # "none"
               /\ app'.initiated = app.initiated /\ (app.complete => app'.complete)
               /\ loop' = loop
    BY <1>1, <2>3, DriverLemma
  <2>4. CASE BootEnds(n)
    <3>1. PICK streams \in {motors[n].cyclic, TRUE} :
              Takes(n, [motors[n] EXCEPT !.boots = FALSE, !.cyclic = streams])
      BY <2>4 DEF BootEnds
    <3> DEFINE d == [motors[n] EXCEPT !.boots = FALSE, !.cyclic = streams]
    <3>2. d \in Driver /\ d.stop = motors[n].stop /\ d.call = motors[n].call
      BY <1>1, <3>1 DEF Driver
    <3>3. app.initiated => n \in crossing \cup early
      BY <1>1, <2>4 DEF BootEnds, Accounted
    <3> HIDE DEF d
    <3>4. Takes(n, d)
      BY <3>1 DEF d
    <3>5. QED
      BY <2>3, <3>2, <3>3, <3>4
  <2>5. CASE CallEnds(n)
    <3>1. PICK streams \in {motors[n].cyclic, TRUE}, homing \in {motors[n].homing, "runs"} :
              Takes(n, [motors[n] EXCEPT !.call = "none", !.cyclic = streams,
                                         !.homing = homing])
      BY <2>5 DEF CallEnds
    <3> DEFINE d == [motors[n] EXCEPT !.call = "none", !.cyclic = streams, !.homing = homing]
    <3>2. d \in Driver /\ d.stop = motors[n].stop /\ d.call = "none"
      BY <1>1, <3>1 DEF Driver
    <3>3. ~app.initiated
      BY <1>1, <2>5 DEF CallEnds, Accounted
    <3> HIDE DEF d
    <3>4. Takes(n, d)
      BY <3>1 DEF d
    <3>5. QED
      BY <2>3, <3>2, <3>3, <3>4
  <2>6. ASSUME NEW streams \in BOOLEAN,
               Takes(n, [motors[n] EXCEPT !.homing = "idle", !.cyclic = streams]),
               app.initiated => n \in crossing \cup early
        PROVE  /\ motors' \in [Nodes -> Driver] /\ app' \in Impl /\ Accounted'
               /\ \A m \in Nodes : motors'[m].call # "none" => motors[m].call # "none"
               /\ app'.initiated = app.initiated /\ (app.complete => app'.complete)
               /\ loop' = loop
    <3> DEFINE d == [motors[n] EXCEPT !.homing = "idle", !.cyclic = streams]
    <3>1. d \in Driver /\ d.stop = motors[n].stop /\ d.call = motors[n].call
      BY <1>1, <2>6 DEF Driver
    <3>2. Takes(n, d)
      BY <2>6
    <3> HIDE DEF d
    <3>3. QED
      BY <2>3, <2>6, <3>1, <3>2
  <2>7. CASE advanceHoming(n)
    <3>1. app.initiated => n \in crossing \cup early
      BY <1>1, <2>7 DEF advanceHoming, Accounted, Driver
    <3>2. CASE Takes(n, [motors[n] EXCEPT !.homing = "restoring"])
      <4> DEFINE d == [motors[n] EXCEPT !.homing = "restoring"]
      <4>1. d \in Driver /\ d.stop = motors[n].stop /\ d.call = motors[n].call
        BY <1>1 DEF Driver
      <4>2. Takes(n, d)
        BY <3>2
      <4> HIDE DEF d
      <4>3. QED
        BY <2>3, <3>1, <4>1, <4>2
    <3>3. QED
      BY <2>6, <2>7, <3>1, <3>2 DEF advanceHoming
  <2>8. CASE ModeRestored(n)
    <3>1. app.initiated => n \in crossing \cup early
      BY <1>1, <2>8 DEF ModeRestored, Accounted
    <3>2. QED
      BY <2>6, <2>8, <3>1 DEF ModeRestored
  <2>9. QED
    BY <1>2, <2>1, <2>2, <2>4, <2>5, <2>7, <2>8
<1>4. ProcessTypeOK'
  BY <1>1, <1>3 DEF IInv, ProcessTypeOK, TypeOK, InLoop
<1>5. Daemon' /\ Master' /\ Causes'
  BY <1>1, <1>3, LoopRest
<1>6. QED
  BY <1>3, <1>4, <1>5 DEF IInv

\* A boot that the shutdown meets is one of those that cross it.
LEMMA BootInv == ASSUME IInv, Boot PROVE IInv'
<1>1. /\ InLoop /\ UNCHANGED <<pending, queue, early>>
      /\ motors \in [Nodes -> Driver] /\ app \in Impl /\ Accounted /\ crossing \subseteq Nodes
  BY DEF Boot, IInv, ProcessTypeOK, TypeOK
<1>2. PICK n \in Nodes :
          OnBoot(n) /\ crossing' = IF app.initiated THEN crossing \cup {n} ELSE crossing
  BY DEF Boot
<1> DEFINE d == [motors[n] EXCEPT !.boots = TRUE]
<1>3. d \in Driver /\ d.stop = motors[n].stop /\ d.call = motors[n].call
      /\ d.cyclic = motors[n].cyclic /\ d.homing = motors[n].homing
  BY <1>1 DEF Driver
<1>4. Takes(n, d)
  BY <1>2 DEF OnBoot
<1> HIDE DEF d
<1>5. /\ motors' \in [Nodes -> Driver] /\ motors'[n] = d /\ UNCHANGED <<app, loop>>
      /\ \A m \in Nodes \ {n} : motors'[m] = motors[m]
  BY <1>1, <1>3, <1>4, TakesLemma
<1>6. \A m \in Nodes : /\ motors'[m].stop = motors[m].stop /\ motors'[m].call = motors[m].call
                       /\ motors'[m].cyclic = motors[m].cyclic
                       /\ motors'[m].homing = motors[m].homing
                       /\ motors'[m].boots => motors[m].boots \/ m = n
  BY <1>3, <1>5
<1>7. Expected' = Expected
  BY <1>1, <1>6 DEF Expected
<1>8. Accounted'
  <2>1. CASE ~app.initiated
    BY <1>1, <1>5, <2>1, NotBegun
  <2>2. CASE app.initiated
    <3>1. \A m \in Nodes : motors'[m].stop # "None" /\ motors'[m].call = "none"
      BY <1>1, <1>2, <1>5, <1>6, <2>2 DEF Accounted
    <3>2. \A m \in Nodes : motors'[m].boots \/ motors'[m].homing = "restoring"
                            => m \in crossing' \cup early'
      BY <1>1, <1>2, <1>5, <1>6, <2>2 DEF Accounted
    <3>3. \A m \in Nodes : motors'[m].stop = "Done" /\ motors'[m].cyclic
                            => m \in crossing' \cup early'
      BY <1>1, <1>2, <1>5, <1>6, <2>2 DEF Accounted
    <3>4. early' = early /\ \A m \in early : motors'[m].stop = "Done"
      BY <1>1, <1>2, <1>5, <1>6, <2>2 DEF Accounted, IInv, ProcessTypeOK
    <3>5. QED
      BY <1>1, <1>5, <1>7, <2>2, <3>1, <3>2, <3>3, <3>4 DEF Accounted
  <2>3. QED
    BY <2>1, <2>2
<1>9. ProcessTypeOK'
  BY <1>1, <1>2, <1>5 DEF IInv, ProcessTypeOK, TypeOK, InLoop
<1>10. Daemon' /\ Master' /\ Causes'
  BY <1>1, <1>5, <1>6, LoopRest
<1>11. QED
  BY <1>8, <1>9, <1>10 DEF IInv

LEMMA TimersInv == ASSUME IInv, Timers PROVE IInv'
<1> USE DEF Timers, ShutdownCheck, GraceEnds, Drained
<1>1. /\ InLoop /\ UNCHANGED <<motors, pending, queue, history>>
      /\ app \in Impl /\ Accounted
  BY DEF IInv, ProcessTypeOK, TypeOK
<1>2. /\ app' \in Impl /\ app'.initiated = app.initiated /\ app'.remaining = app.remaining
      /\ app.complete => app'.complete
      /\ app'.complete /\ ~app'.reset => app.complete /\ ~app.reset
      /\ ~app.initiated => UNCHANGED app
      /\ app'.timer = "drain" => app'.complete
      /\ loop' = loop \/ (loop' = "stopped" /\ app'.complete)
  BY <1>1 DEF Impl, Accounted
<1>3. ProcessTypeOK'
  BY <1>1, <1>2 DEF IInv, ProcessTypeOK, TypeOK, InLoop
<1>4. Accounted'
  BY <1>1, <1>2 DEF Accounted, Expected
<1>5. Daemon' /\ Master' /\ Causes'
  BY <1>1, <1>2, LoopRest
<1>6. QED
  BY <1>3, <1>4, <1>5 DEF IInv

\* The shutdown asks every drive.  Those that report at once are off the count,
\* the others are the ones expected.
LEMMA BeginLemma ==
    ASSUME IInv, BeginShutdown, \A n \in Nodes : motors[n].call = "none"
    PROVE  /\ motors' \in [Nodes -> Driver] /\ app' \in Impl
           /\ early' \subseteq Nodes /\ crossing' \subseteq Nodes
           /\ Accounted' /\ app'.initiated
           /\ \A n \in Nodes : motors'[n].call = "none"
           /\ app.complete => app'.complete
           /\ loop' = loop \/ (loop' = "stopped" /\ app'.complete)
<1> DEFINE atOnce == {n \in Nodes : StopsAtOnce(motors[n])}
           all0 == Cardinality(Nodes)
           k == Cardinality(atOnce)
           left == IF all0 > k THEN all0 - k ELSE 0
           done == app.complete \/ left = 0
<1>1. /\ motors \in [Nodes -> Driver] /\ app \in Impl /\ Accounted
      /\ ~app.initiated /\ app.complete = FALSE /\ app.reset = FALSE
      /\ early' = {n \in Nodes : motors[n].stop = "Done"}
      /\ crossing' = {n \in Nodes : motors[n].boots \/ motors[n].homing = "restoring"}
      /\ motors' = [n \in Nodes |-> requestGracefulStop(motors[n])]
      /\ loop' = LoopAfter(app')
  BY DEF IInv, ProcessTypeOK, TypeOK, Impl, Accounted, BeginShutdown, requestShutdown
<1>2. app' = [app EXCEPT !.initiated = TRUE, !.timer = "check",
                         !.remaining = left, !.complete = done]
  BY <1>1 DEF BeginShutdown, requestShutdown, onMotorStopped, Impl
<1>3. /\ motors' \in [Nodes -> Driver]
      /\ \A n \in Nodes : motors'[n].call = "none" /\ motors'[n].stop # "None"
      /\ \A n \in Nodes : /\ motors'[n].cyclic = motors[n].cyclic
                           /\ motors'[n].boots = motors[n].boots
                           /\ motors'[n].homing = motors[n].homing
      /\ \A n \in early' : motors'[n].stop = "Done"
      /\ \A n \in atOnce : motors'[n].stop = "Done"
      /\ \A n \in Nodes : n \notin early' /\ n \notin atOnce => motors'[n].stop = "DisableVoltage"
  BY <1>1, RequestType DEF Driver
<1>4. Expected' = Nodes \ atOnce
  BY <1>1, <1>3 DEF Expected, StopsAtOnce
<1>5. /\ all0 \in Nat /\ k \in Nat /\ k <= all0
      /\ Cardinality(Expected') = all0 - k
  <2>1. IsFiniteSet(Nodes) /\ atOnce \subseteq Nodes /\ Nodes \cap atOnce = atOnce
    BY CanopenApplicationAssumption
  <2>2. IsFiniteSet(atOnce) /\ k <= all0
    BY <2>1, FS_Subset
  <2>3. Cardinality(Nodes \ atOnce) = all0 - Cardinality(Nodes \cap atOnce)
    BY <2>1, FS_Difference
  <2>4. all0 \in Nat /\ k \in Nat
    BY <2>1, <2>2, FS_CardinalityType
  <2>5. QED
    BY <1>4, <2>1, <2>2, <2>3, <2>4
<1>6. left = all0 - k /\ left \in 0 .. Cardinality(Nodes)
  BY <1>5
<1>7. done \in BOOLEAN /\ (done <=> left = 0)
  BY <1>1
<1> HIDE DEF left, done
<1>8. /\ app' \in Impl /\ app'.remaining = Cardinality(Expected') /\ app'.initiated
      /\ app'.complete <=> app'.remaining = 0
      /\ app'.reset = FALSE /\ app'.timer = "check"
  BY <1>1, <1>2, <1>5, <1>6, <1>7 DEF Impl
<1>9. \A n \in Nodes :
          /\ motors'[n].stop = "Done" /\ motors'[n].cyclic => n \in early'
          /\ motors'[n].boots \/ motors'[n].homing = "restoring" => n \in crossing'
  BY <1>1, <1>3 DEF StopsAtOnce
<1>10. Accounted'
  BY <1>3, <1>8, <1>9 DEF Accounted
<1>11. loop' = loop \/ (loop' = "stopped" /\ app'.complete)
  BY <1>1 DEF LoopAfter
<1>12. QED
  BY <1>1, <1>3, <1>8, <1>10, <1>11

LEMMA RunShutdownInv == ASSUME IInv, RunShutdown PROVE IInv'
<1>1. /\ BeginShutdown /\ asked /\ asked' = FALSE /\ UNCHANGED pending
      /\ InLoop /\ UNCHANGED posted
  BY DEF RunShutdown, BeginShutdown
<1>2. /\ tool = "commissiond" /\ main.pc \in {"join", "unwatch"}
      /\ \A n \in Nodes : motors[n].call = "none"
  BY <1>1 DEF IInv, ProcessTypeOK, Master, Daemon, InCall, InLoop
<1>3. ProcessTypeOK'
  BY <1>1, <1>2, BeginLemma DEF IInv, ProcessTypeOK, TypeOK, InLoop
<1>4. Accounted'
  BY <1>1, <1>2, BeginLemma
<1>5. Daemon'
  BY <1>1, <1>2, BeginLemma DEF IInv, Daemon, InLoop, InCall
<1>6. Master' /\ Causes'
  BY <1>1, <1>2, BeginLemma DEF IInv, Master, Causes, InLoop
<1>7. QED
  BY <1>3, <1>4, <1>5, <1>6 DEF IInv

LEMMA FirstSignalInv == ASSUME IInv, FirstSignal PROVE IInv'
<1>1. /\ BeginShutdown /\ pending /\ pending' = FALSE /\ UNCHANGED queue
      /\ InLoop
  BY DEF FirstSignal, BeginShutdown
<1>2. tool = "master" /\ signals >= 1 /\ \A n \in Nodes : motors[n].call = "none"
  BY <1>1 DEF IInv, ProcessTypeOK, Master, Daemon
<1>3. ProcessTypeOK'
  BY <1>1, <1>2, BeginLemma DEF IInv, ProcessTypeOK, TypeOK, InLoop
<1>4. Accounted'
  BY <1>1, <1>2, BeginLemma
<1>5. Daemon' /\ Master' /\ Causes'
  BY <1>1, <1>2, BeginLemma DEF IInv, Daemon, Master, Causes, InLoop
<1>6. QED
  BY <1>3, <1>4, <1>5 DEF IInv

LEMMA SignalAgainInv == ASSUME IInv, SignalAgain PROVE IInv'
<1>1. /\ pending /\ pending' = FALSE /\ InLoop /\ UNCHANGED <<queue, history, motors, app>>
      /\ app.initiated /\ loop' = "stopped"
  BY DEF SignalAgain, SecondSignal
<1>2. tool = "master" /\ signals >= 2
  BY <1>1 DEF IInv, ProcessTypeOK, Master, Daemon
<1>3. ProcessTypeOK'
  BY <1>1 DEF IInv, ProcessTypeOK, TypeOK, InLoop
<1>4. Accounted'
  BY <1>1, AccountedKept DEF IInv
<1>5. Daemon' /\ Master' /\ Causes'
  BY <1>1, <1>2 DEF IInv, Daemon, Master, Causes, InLoop
<1>6. QED
  BY <1>3, <1>4, <1>5 DEF IInv
-----------------------------------------------------------------------------
(* The theorems. *)

LEMMA InitInv == ASSUME ProcessInit PROVE IInv
<1> USE DEF ProcessInit, Init
<1>1. ProcessTypeOK
  <2>1. posted \in Seq(Call)
    OBVIOUS
  <2>2. 0 \in 0 .. Cardinality(Nodes)
    BY CanopenApplicationAssumption, FS_CardinalityType
  <2>3. motors \in [Nodes -> Driver] /\ app \in Impl
    BY <2>2 DEF Driver, Impl
  <2>4. main \in [pc : MainPC, node : Nodes \cup {None}, failing : BOOLEAN]
    <3>1. \A pc \in MainPC : [pc |-> pc, node |-> None, failing |-> FALSE]
                              \in [pc : MainPC, node : Nodes \cup {None}, failing : BOOLEAN]
      OBVIOUS
    <3>2. "start" \in MainPC /\ "run" \in MainPC
      BY DEF MainPC
    <3>3. QED
      BY <3>1, <3>2
  <2>5. /\ helper \in {"polls", "forces", "forced", "ended"} /\ thread \in ThreadPC
        /\ tool \in {"commissiond", "master"}
    BY DEF ThreadPC
  <2>6. pending \in BOOLEAN /\ asked \in BOOLEAN
    BY Zenon
  <2>7. /\ signals \in 0 .. 3
        /\ loop \in {"running", "stopped"} /\ exit \in {"none", "success", "failure", "killed"}
    OBVIOUS
  <2>8. early \in SUBSET Nodes /\ crossing \in SUBSET Nodes
    OBVIOUS
  <2>9. QED
    BY <2>1, <2>3, <2>4, <2>5, <2>6, <2>7, <2>8 DEF ProcessTypeOK, TypeOK
<1>2. Accounted
  BY DEF Accounted
<1>3. Daemon
  BY DEF Daemon, Serving, Closing, Launched, InCall
<1>4. Master /\ Causes
  BY DEF Master, Causes
<1>5. QED
  BY <1>1, <1>2, <1>3, <1>4 DEF IInv

LEMMA NextInv ==
    ASSUME IInv, [ProcessNext]_all
    PROVE  IInv'
<1>1. CASE UNCHANGED all
  <2>1. ProcessTypeOK' /\ Accounted'
    BY <1>1, AccountedKept DEF IInv, ProcessTypeOK, TypeOK
  <2>2. Daemon' /\ Master' /\ Causes'
    BY <1>1 DEF IInv, Daemon, Master, Causes, InCall
  <2>3. QED
    BY <2>1, <2>2 DEF IInv
<1>2. CASE ProcessNext
  BY <1>2, MainInv, HelperInv, ThreadInv, RunCallInv, DriversRunInv, BootInv, RunShutdownInv,
     FirstSignalInv, SignalAgainInv, TimersInv, ArrivingSignalInv DEF ProcessNext
<1>3. QED
  BY <1>1, <1>2

\* The invariant holds in every state of the two programs: from the shutdown on the
\* count is the number of drives still expected, no call that enables a drive is
\* under way, and a drive streams after its stop only if an enabling at its boot or
\* a mode write of its homing crossed the shutdown, or it was stopped before it.
THEOREM ShutdownAccounted == ProcessSpec => []IInv
<1>1. ProcessInit => IInv
  BY InitInv
<1>2. IInv /\ [ProcessNext]_all => IInv'
  BY NextInv
<1>3. QED
  BY <1>1, <1>2, PTL DEF ProcessSpec

\* Every variable keeps its type: the count never leaves 0 .. the number of drives,
\* the queue holds calls only.
THEOREM ProcessTypeCorrect == ProcessSpec => []ProcessTypeOK
<1>1. IInv => ProcessTypeOK
  BY DEF IInv
<1>2. QED
  BY <1>1, ShutdownAccounted, PTL

\* A shutdown that is counted down to its end waited for every drive.
LEMMA QuietStop ==
    ASSUME IInv, app.complete, ~app.reset
    PROVE  \A n \in Nodes : AtRest(n)
<1>1. /\ app.initiated /\ Cardinality(Expected) = 0
      /\ \A n \in Nodes : motors[n].stop # "None"
      /\ \A n \in Nodes : motors[n].stop = "Done" /\ motors[n].cyclic
                           => n \in crossing \cup early
  BY DEF IInv, Accounted
<1>2. Expected = {}
  <2>1. IsFiniteSet(Expected)
    BY CanopenApplicationAssumption, FS_Subset DEF Expected, IInv, ProcessTypeOK
  <2>2. QED
    BY <1>1, <2>1, FS_EmptySet
<1>3. QED
  BY <1>1, <1>2 DEF Expected, IInv, ProcessTypeOK, TypeOK, Driver, AtRest

\* onMotorStopped finishes a shutdown without the reset only when every drive was
\* stopped, and none streams but one whose enabling at boot or mode write of homing
\* crossed the shutdown: the count of callbacks is the drives still expected.
THEOREM QuietExitTheorem == ProcessSpec => []QuietExit
<1>1. IInv => QuietExit
  BY QuietStop DEF QuietExit
<1>2. QED
  BY <1>1, ShutdownAccounted, PTL

\* A process that ends well after at most one signal has stopped every drive, with
\* the same exception, or reset the nodes, in the daemon and in the master.
THEOREM NoDriveLeftRunningTheorem == ProcessSpec => []NoDriveLeftRunning
<1>1. IInv => NoDriveLeftRunning
  <2>1. SUFFICES ASSUME IInv, exit = "success", signals < 2, ~app.reset
                 PROVE  \A n \in Nodes : AtRest(n)
    BY DEF NoDriveLeftRunning
  <2>2. main.pc = "unwatch" /\ ~main.failing /\ signals \in 0 .. 3
    BY <2>1 DEF IInv, Causes, ProcessTypeOK
  <2>3. loop = "stopped"
    BY <2>1, <2>2 DEF IInv, Daemon, Master, ProcessTypeOK
  <2>4. app.complete
    BY <2>1, <2>2, <2>3 DEF IInv, Causes
  <2>5. QED
    BY <2>1, <2>4, QuietStop
<1>2. QED
  BY <1>1, ShutdownAccounted, PTL

\* Of all the steps one resets the nodes.
LEMMA OnlyTheCheckResets ==
    ASSUME IInv, ProcessNext, app'.reset, ~app.reset
    PROVE  ShutdownCheck
<1>1. motors \in [Nodes -> Driver] /\ app \in Impl
  BY DEF IInv, ProcessTypeOK, TypeOK
<1>2. ASSUME NEW a \in Impl, NEW k PROVE onMotorStopped(a, k).reset = a.reset
  BY DEF onMotorStopped, Impl
<1>3. CASE MainStep \/ BrokenPromise
  <2>1. UNCHANGED app
    BY <1>3 DEF MainStep, MainOnly, Ends, StartBus, BusStarted, Listen, CheckStop, PollAccept,
       Handle, Answered, BrokenPromise, Recover, ShutdownBus, Ask, Join, Return
  <2>2. QED
    BY <2>1
<1>4. CASE HelperStep \/ ThreadStep \/ ArrivingSignal
  <2>1. UNCHANGED app
    BY <1>4 DEF HelperStep, HelperEnds, ThirdSignal, WatcherForces, WatcherForced,
       ForcedDelayEnds,
       HelperOnly, Ends, ThreadStep, Construct, ConstructFails, LoopLeft, Detach, Destroy,
       RunReturns, ThreadGoes, ArrivingSignal
  <2>2. QED
    BY <2>1
<1>5. CASE RunCall \/ DriversRun \/ Boot
  <2>1. UNCHANGED app \/ app' = onMotorStopped(app, 1)
    BY <1>5 DEF RunCall, DriversRun, Boot, stopNode, Stops, requestFaultReset, enableOperation,
       requestHoming, finishGracefulStop, BootEnds, CallEnds, advanceHoming, ModeRestored,
       OnBoot, Takes
  <2>2. QED
    BY <1>1, <1>2, <2>1
<1>6. CASE RunShutdown \/ FirstSignal
  <2> DEFINE a == [app EXCEPT !.initiated = TRUE, !.timer = "check",
                              !.remaining = Cardinality(Nodes)]
             k == Cardinality({n \in Nodes : StopsAtOnce(motors[n])})
  <2>1. app' = onMotorStopped(a, k)
    BY <1>6 DEF RunShutdown, FirstSignal, BeginShutdown, requestShutdown
  <2>2. a \in Impl /\ a.reset = app.reset
    <3>1. Cardinality(Nodes) \in 0 .. Cardinality(Nodes)
      BY CanopenApplicationAssumption, FS_CardinalityType
    <3>2. QED
      BY <1>1, <3>1 DEF Impl
  <2> HIDE DEF a, k
  <2>3. QED
    BY <1>2, <2>1, <2>2
<1>7. CASE SignalAgain
  BY <1>7 DEF SignalAgain, SecondSignal
<1>8. CASE Timers
  BY <1>1, <1>8 DEF Timers, GraceEnds, Drained, Impl
<1>9. QED
  BY <1>3, <1>4, <1>5, <1>6, <1>7, <1>8 DEF ProcessNext

\* scheduleShutdownCheck resets the nodes only with a drive still to report, or
\* with one that was stopped before and never reports.
THEOREM ResetJustifiedTheorem == ProcessSpec => ResetJustified
<1>1. IInv /\ [ProcessNext]_all =>
        (app'.reset /\ ~app.reset => early # {} \/ \E n \in Nodes : motors[n].stop # "Done")
  <2>1. SUFFICES ASSUME IInv, ProcessNext, app'.reset, ~app.reset, early = {}
                 PROVE  \E n \in Nodes : motors[n].stop # "Done"
    OBVIOUS
  <2>2. app.initiated /\ ~app.complete
    BY <2>1, OnlyTheCheckResets DEF ShutdownCheck, IInv, Accounted
  <2>3. app.remaining # 0 /\ app.remaining = Cardinality(Expected)
    BY <2>1, <2>2 DEF IInv, Accounted
  <2>4. Expected # {}
    BY <2>3, FS_EmptySet
  <2>5. QED
    BY <2>1, <2>4 DEF Expected
<1>2. QED
  BY <1>1, ShutdownAccounted, PTL DEF ProcessSpec, ResetJustified
==============================================================================
