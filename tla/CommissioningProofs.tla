------------------------ MODULE CommissioningProofs ------------------------
(***************************************************************************)
(* What a request can make a drive do, and what a value becomes on its way *)
(* to the drive and back, for every request and every value.               *)
(***************************************************************************)
EXTENDS CommissioningApi, ObjectAccess, TLAPS

\* A bounded step from an int32 position to an int32 target is computed
\* without overflow, so the check is about the true distance.
LEMMA StepIsTrue ==
    ASSUME Widths, NEW position \in Int32, NEW target \in Int32,
           checkPositionStep(position, target)
    PROVE  target - position \in (-MaxPositionStep) .. MaxPositionStep
<1>1. target - position \in (-2 * Int32Max - 1) .. 2 * Int32Max + 1
  BY DEF Widths, Int32
<1>2. Wrap64(target - position) = target - position
  BY <1>1 DEF Widths, Wrap64
<1>3. llabs(target - position)
      = IF target - position < 0 THEN -(target - position) ELSE target - position
  BY <1>1 DEF Widths, llabs
<1>4. ~(llabs(target - position) > MaxPositionStep)
  BY <1>2 DEF checkPositionStep
<1>5. QED
  BY <1>1, <1>3, <1>4 DEF Widths, Int32

\* A request that is not served with 200 by the daemon itself calls nothing,
\* and one that calls a drive calls one of the daemon's.
LEMMA ServedCalls ==
    ASSUME Widths, NEW request \in Request, NEW position \in Int32,
           Served(request, position).call # NoCall
    PROVE  /\ request.method = "POST" /\ HasDrive(request)
           /\ Served(request, position).status = 200
           /\ Served(request, position).call.node = targetNode(request)
BY DEF Served, move, startHoming, mode, Answer, Call

\* Only an accepted move makes a call named for a type of move.
LEMMA MoveIsAccepted ==
    ASSUME NEW request, NEW position,
           Served(request, position).call.call \in MoveType
    PROVE  /\ Accepts(request, position)
           /\ Served(request, position) = Answer(200,
                  Call(targetNode(request), request.type,
                       IF request.type = "csp" THEN Target(request, position)
                       ELSE request.value))
<1>1. CASE Served(request, position) = move(request, position)
  BY <1>1 DEF move, Answer, Call, NoCall, MoveType
<1>2. CASE Served(request, position) # move(request, position)
  <2>1. Served(request, position).call.call \notin MoveType
    BY <1>2 DEF Served, startHoming, mode, Answer, Call, NoCall, Posts, MoveType
  <2>2. QED
    BY <2>1
<1>3. QED
  BY <1>1, <1>2

\* /api/move, csp: whatever int64 the request carries, relative or not, the
\* commanded target is an int32 no further than the bound from the position
\* the check read; the overflows on the way are caught by one check or other.
THEOREM CspStepIsBounded ==
    ASSUME Widths, NEW request \in Request, NEW position \in Int32,
           Served(request, position).call.call = "csp"
    PROVE  LET target == Served(request, position).call.argument
           IN /\ target \in Int32
              /\ target - position \in (-MaxPositionStep) .. MaxPositionStep
<1> DEFINE target == Target(request, position)
<1>1. /\ request.type = "csp" /\ Accepts(request, position)
      /\ Served(request, position).call.argument = target
  BY MoveIsAccepted DEF Answer, Call, MoveType
<1>2. checkPositionStep(position, target) /\ target \in Int32
  BY <1>1 DEF Accepts
<1>3. QED
  BY <1>1, <1>2, StepIsTrue

\* The other moves carry values of the width their object has.
THEOREM MoveValuesFit ==
    ASSUME Widths, NEW request \in Request, NEW position \in Int32
    PROVE  LET call == Served(request, position).call
           IN /\ call.call \in {"pp", "velocity"} => call.argument \in Int32
              /\ call.call = "torque" => call.argument \in Int16
<1> DEFINE call == Served(request, position).call
<1>1. call.call \in MoveType /\ call.call # "csp"
      => /\ Accepts(request, position) /\ request.type = call.call
         /\ call.argument = request.value
  BY MoveIsAccepted DEF Answer, Call
<1>2. QED
  BY <1>1 DEF Accepts, MoveType

\* A drive is called by a POST only, and is one of the daemon's; a request
\* answered with 400 or 404 called none.
THEOREM OnlyConfiguredDrives ==
    ASSUME Widths, NEW request \in Request, NEW position \in Int32,
           NEW answer \in Answers(request, position), answer.call # NoCall
    PROVE  /\ request.method = "POST" /\ answer.call.node \in Drives
           /\ answer.status \in {200, 500}
<1>1. Served(request, position).call # NoCall /\ answer.call = Served(request, position).call
  BY DEF Answers, Served, move, startHoming, mode, Answer
<1>2. answer.status \in {Served(request, position).status, 500}
  BY DEF Answers, Served, move, startHoming, mode, Answer
<1>3. targetNode(request) \in Drives
  BY <1>1, ServedCalls DEF Widths, HasDrive, targetNode
<1>4. QED
  BY <1>1, <1>2, <1>3, ServedCalls
-----------------------------------------------------------------------------
LEMMA Modulo ==
    ASSUME NEW h \in Nat, h > 0, NEW v \in (-h) .. 2 * h - 1
    PROVE  v % (2 * h) = IF v < 0 THEN v + 2 * h ELSE v
<1> DEFINE s == 2 * h
<1>1. s \in Nat /\ s > 0 /\ -s <= v /\ v < s
  OBVIOUS
<1> HIDE DEF s
<1>2. CASE v < 0
  <2>1. v % s = v + s
    BY <1>1, <1>2
  <2>2. QED
    BY <2>1, <1>2 DEF s
<1>3. CASE v >= 0
  <2>1. v % s = v
    BY <1>1, <1>3
  <2>2. QED
    BY <2>1, <1>3 DEF s
<1>4. QED
  BY <1>2, <1>3

LEMMA HalfOfType ==
    ASSUME NEW type \in ObjectDataType
    PROVE  /\ Half(type) \in Nat /\ Half(type) > 0
           /\ Half(Unsigned(type)) = Half(type) /\ Unsigned(type) \notin SignedTypes
BY DEF ObjectDataType, Half, Unsigned, SignedTypes

\* Casting to a type leaves its values alone, and to the unsigned type of the
\* width and back as well: nothing is lost by passing a signed value on so.
LEMMA CastIsFaithful ==
    ASSUME NEW type \in ObjectDataType, NEW v \in Values(type)
    PROVE  /\ Cast(type, v) = v
           /\ Cast(type, Cast(Unsigned(type), v)) = v
<1> DEFINE h == Half(type)
<1>1. /\ h \in Nat /\ h > 0 /\ Span(type) = 2 * h
      /\ Span(Unsigned(type)) = 2 * h /\ Unsigned(type) \notin SignedTypes
  BY HalfOfType DEF Span
<1>2. v \in (-h) .. 2 * h - 1 /\ (type \in SignedTypes => v < h)
      /\ (type \notin SignedTypes => v >= 0)
  BY <1>1 DEF Values
<1> HIDE DEF h
<1> DEFINE u == v % (2 * h)
<1>3. u = IF v < 0 THEN v + 2 * h ELSE v
  BY <1>1, <1>2, Modulo
<1>4. u \in 0 .. 2 * h - 1
  BY <1>1, <1>2, <1>3
<1>5. u % (2 * h) = u
  BY <1>1, <1>4, Modulo
<1>6. Cast(Unsigned(type), v) = u
  BY <1>1 DEF Cast
<1>7. /\ Cast(type, v) = IF type \in SignedTypes /\ u >= h THEN u - 2 * h ELSE u
      /\ Cast(type, u) = IF type \in SignedTypes /\ u >= h THEN u - 2 * h ELSE u
  BY <1>1, <1>5 DEF Cast, h
<1>8. QED
  BY <1>1, <1>2, <1>3, <1>6, <1>7

\* writeObject, commandTorque and the like: a value of a mapped object's type
\* is in the frame as it was asked for, negative ones included.
THEOREM StagedValueArrives ==
    ASSUME NEW type \in ObjectDataType, NEW v \in Values(type)
    PROVE  writeMappedObject(type, writeObject(type, v)) = v
BY CastIsFaithful DEF writeMappedObject, writeObject

\* readObject: a feedback value of the drive is read as the drive sent it.
THEOREM FeedbackReadsBack ==
    ASSUME NEW type \in ObjectDataType, NEW v \in Values(type)
    PROVE  readObject(type, readCached(type, v)) = v
BY CastIsFaithful DEF readObject, readCached
==============================================================================
