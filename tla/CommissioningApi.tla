-------------------------- MODULE CommissioningApi --------------------------
(***************************************************************************)
(* stablecops_commissiond's HTTP API: what a request makes the daemon call *)
(* on which drive, and the status it answers with.  Requests are served    *)
(* one at a time; what a call then does is MotorDriver's and Bus's.        *)
(*                                                                         *)
(* A body stands for the JSON object after parsing: `parses' is whether it *)
(* is one, with fields of the types asked for, and `fields' whether those  *)
(* a request cannot do without are there and in range.                     *)
(***************************************************************************)
EXTENDS Integers

CONSTANTS
    Drives, First,  \* drives_: node ids of the daemon's drives, and its begin()
    MaxPositionStep,\* max_position_step_
    Int16Max, Int32Max, Int64Max

\* What the theorems assume of the constants; the constructor refuses an
\* empty drives_.
Widths ==
    /\ Int16Max \in Nat /\ Int32Max \in Nat /\ Int64Max \in Nat
    /\ Int16Max < Int32Max /\ 4 * Int32Max + 4 < Int64Max
    /\ MaxPositionStep \in (-Int32Max - 1) .. Int32Max
    /\ Drives \subseteq 1 .. 127 /\ First \in Drives /\ \A d \in Drives : First <= d

Int16 == (-Int16Max - 1) .. Int16Max
Int32 == (-Int32Max - 1) .. Int32Max
Int64 == (-Int64Max - 1) .. Int64Max

\* A sum of two values of the type, as the machine computes it.
Wrap64(x) ==
    IF x > Int64Max THEN x - 2 * (Int64Max + 1)
    ELSE IF x < -Int64Max - 1 THEN x + 2 * (Int64Max + 1) ELSE x
llabs(x) == IF x < 0 /\ x # -Int64Max - 1 THEN -x ELSE x

Absent == -1
Posts == {"/api/enable", "/api/stop", "/api/quick-stop", "/api/fault-reset",
          "/api/mode", "/api/sdo/read", "/api/sdo/write", "/api/move",
          "/api/home/start"}
NeedFields == {"/api/sdo/read", "/api/sdo/write", "/api/move"}
Gets == {"/", "/api/status", "/api/objects"}
MoveType == {"csp", "pp", "velocity", "torque"}

\* `node' is Absent or a number; a known mode or move type is a name of its
\* own, any other "unknown"; `values' are those of homing's int32 fields.
Request == [
    method : {"GET", "POST", "other"}, path : Posts \cup Gets \cup {"other"},
    parses : BOOLEAN, fields : BOOLEAN, node : Nat \cup {Absent},
    mode : {"known", "unknown", "missing"},
    type : MoveType \cup {"unknown"}, value : Int64, relative : BOOLEAN,
    values : SUBSET Int64, threshold_torque : Int64]

NoCall == [node |-> 0, call |-> "none", argument |-> 0]
Call(node, call, argument) == [node |-> node, call |-> call, argument |-> argument]
Answer(status, call) == [status |-> status, call |-> call]
-----------------------------------------------------------------------------
HasDrive(request) == request.node = Absent \/ request.node \in Drives
targetNode(request) == IF request.node = Absent THEN First ELSE request.node

\* The target of a cyclic position move, and whether it may be commanded: the
\* step from the position last reported is bounded, and the target fits.
Target(request, position) ==
    IF request.relative THEN Wrap64(position + request.value) ELSE request.value
checkPositionStep(position, target) ==
    ~(llabs(Wrap64(target - position)) > MaxPositionStep)

\* Whether the value of the move is accepted, and with which call.
Accepts(request, position) ==
    /\ request.type = "csp" =>
           LET target == Target(request, position)
           IN checkPositionStep(position, target) /\ target \in Int32
    /\ request.type \in {"pp", "velocity"} => request.value \in Int32
    /\ request.type = "torque" => request.value \in Int16

move(request, position) ==
    IF request.type = "unknown" THEN Answer(400, NoCall)
    ELSE IF ~Accepts(request, position) THEN Answer(500, NoCall)
    ELSE Answer(200, Call(targetNode(request), request.type,
             IF request.type = "csp" THEN Target(request, position) ELSE request.value))

\* The fields are checked before the routine is requested; the durations,
\* which are int64, are left to requestHoming.
startHoming(request) ==
    IF request.values \subseteq Int32 /\ request.threshold_torque \in Int16
    THEN Answer(200, Call(targetNode(request), "home", 0)) ELSE Answer(500, NoCall)

mode(request) ==
    IF request.mode = "known"
    THEN Answer(200, Call(targetNode(request), "mode", 0)) ELSE Answer(400, NoCall)

\* The answer if the drive's call returns; if it throws, the status is 500.
Served(request, position) ==
    IF request.method = "GET" /\ request.path \in Gets THEN Answer(200, NoCall)
    ELSE IF request.method # "POST" THEN Answer(404, NoCall)
    ELSE IF ~request.parses THEN Answer(400, NoCall)
    ELSE IF ~HasDrive(request) THEN Answer(500, NoCall)
    ELSE IF request.path \in NeedFields /\ ~request.fields THEN Answer(500, NoCall)
    ELSE IF request.path = "/api/move" THEN move(request, position)
    ELSE IF request.path = "/api/home/start" THEN startHoming(request)
    ELSE IF request.path = "/api/mode" THEN mode(request)
    ELSE IF request.path \in Posts
         THEN Answer(200, Call(targetNode(request), request.path, 0))
    ELSE Answer(404, NoCall)

\* A call that throws leaves its effect on the drive behind a status of 500.
Answers(request, position) ==
    LET answer == Served(request, position)
    IN {answer} \cup (IF answer.call = NoCall THEN {} ELSE {Answer(500, answer.call)})
==============================================================================
