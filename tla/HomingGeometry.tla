---------------------------- MODULE HomingGeometry ----------------------------
(***************************************************************************)
(* Where homing takes the axis: the hard stops it finds, the centre it     *)
(* computes from them in 32-bit arithmetic, and the position at which the  *)
(* drive's zero is set.  MotorDriver models the same sequence with its     *)
(* fibers and the powering of the drive, and leaves positions out.         *)
(*                                                                         *)
(* One step is a SYNC: the driver reads the feedback, advances, sends a    *)
(* target velocity, and the axis moves until the next one.  Times are in   *)
(* SYNC cycles.                                                            *)
(***************************************************************************)
EXTENDS Integers

CONSTANTS
    MaxInt,         \* the largest int32
    Configs,        \* the HomingConfigs the application uses
    Tracks,         \* the axis: where its hard stops are
    Starts,         \* where it stands when homing is requested
    Transients      \* the torque of an axis may peak while it stands still

Int32 == -MaxInt - 1 .. MaxInt
Config == [search : Nat, approach : Nat, fast : Nat, final : Nat, slowdown : Int32,
           backoff : Int32, tolerance : Int32, settleTolerance : Int32,
           minTravel : Int32, maxTravel : Int32, offset : Int32, stopped : Int32,
           dwell : Nat, settle : Nat]

ASSUME HomingGeometryAssumption ==
    /\ MaxInt \in Nat \ {0}
    /\ Configs \subseteq Config
    /\ Tracks \subseteq [low : Int32, high : Int32]
    /\ Starts \subseteq Int32
    /\ Transients \in BOOLEAN

VARIABLES
    track, config,
    homing,     \* the members homing_*
    vel,        \* the target velocity in the command image
    axis,       \* the feedback of this SYNC: position, velocity, torque
    zero        \* where the drive took its zero, and the centre then computed (history)

vars == <<track, config, homing, vel, axis, zero>>

Searching == {"SearchNegative", "SearchPositive"}
Motion == Searching \cup {"BackoffNegative", "MoveToCenter", "WaitAtCenter", "ZeroAtCenter"}
HomingPhase == Motion \cup {"Idle", "Failed", "Done", "Storing"}
Homing == [phase : HomingPhase, start : Int, lower : Int, upper : Int, travel : Int,
           backoff : Int, center : Int,
           contact : Nat,           \* 0: none, else 1 + cycles since it began
           settling : Nat,          \* cycles in WaitAtCenter
           deadline : {"armed", "running", "passed"}]  \* homing_deadline_
Abs(x) == IF x < 0 THEN -x ELSE x
\* What an int32 member holds after x was assigned to it.
Wrap(x) == ((x + MaxInt + 1) % (2 * MaxInt + 2)) - (MaxInt + 1)

Fresh == [phase |-> "Idle", start |-> 0, lower |-> 0, upper |-> 0, travel |-> 0,
          backoff |-> 0, center |-> 0, contact |-> 0, settling |-> 0, deadline |-> "armed"]
Init ==
    /\ track \in Tracks
    /\ config \in Configs
    /\ homing = Fresh
    /\ vel = 0
    /\ \E p \in Starts : track.low <= p /\ p <= track.high
                         /\ axis = [pos |-> p, speed |-> 0, loaded |-> FALSE]
    /\ zero = [set |-> FALSE, at |-> 0, center |-> 0]
-----------------------------------------------------------------------------
(* MotorDriver.                                                            *)

\* The configurations requestHoming does not refuse.
Valid(c) ==
    /\ 0 \notin {c.search, c.approach, c.fast, c.final}
    /\ c.stopped >= 0 /\ c.minTravel > 0 /\ c.maxTravel > c.minTravel
    /\ c.backoff > 0 /\ c.slowdown > 0
    /\ c.tolerance > 0 /\ c.settleTolerance >= c.tolerance
    /\ c.dwell > 0

\* It may be requested again after it failed.  An axis that still moves, or
\* leans on a stop, at that moment may be taken for one at its lower stop.
requestHoming ==
    /\ homing.phase \in {"Idle", "Failed"} /\ Valid(config)
    /\ Transients \/ (~axis.loaded /\ axis.speed = 0)
    /\ homing' = [Fresh EXCEPT !.phase = "SearchNegative", !.start = axis.pos]
    /\ vel' = -config.search
    /\ UNCHANGED <<track, config, axis, zero>>

\* Each operator below gives the members after this cycle, and the velocity.
To(h, v) == [homing |-> h, vel |-> v]
Becomes(next) == homing' = next.homing /\ vel' = next.vel
failHoming(h) == To([h EXCEPT !.phase = "Failed", !.contact = 0], 0)

\* Mutant: a loaded axis counts as stopped.
Touches_Moving(f) == f.loaded

\* High torque while the axis is stalled; once seen, only the dwell counts.
Touches(f) == f.loaded /\ Abs(f.speed) <= config.stopped
Contact(h, f) ==
    IF h.contact = 0 THEN IF Touches(f) THEN 1 ELSE 0
    ELSE IF h.contact <= config.dwell THEN h.contact + 1 ELSE h.contact

\* Mutant: the axis is driven on through the dwell.
Seek_Pushing(h, contact, v) == To([h EXCEPT !.contact = contact], v)

\* A search at velocity v; zero is commanded from the contact on.
Seek(h, contact, v) == To([h EXCEPT !.contact = contact], IF contact > 0 THEN 0 ELSE v)

SearchNegative(h, f) ==
    LET contact == Contact(h, f)
    IN  IF contact <= config.dwell THEN Seek(h, contact, -config.search)
        ELSE To([h EXCEPT !.lower = f.pos, !.backoff = Wrap(f.pos + config.backoff),
                          !.contact = 0, !.phase = "BackoffNegative"], config.approach)
BackoffNegative(h, f) ==
    IF f.pos >= h.backoff
    THEN To([h EXCEPT !.contact = 0, !.phase = "SearchPositive"], config.search)
    ELSE To(h, config.approach)

\* Mutant: the ends are added and halved.
Center_OfEnds(lower, upper) == (Wrap(lower + upper) \div 2) + config.offset

Center(lower, upper) == lower + (Wrap(upper - lower) \div 2) + config.offset
travelAccepted(travel) == config.minTravel <= travel /\ travel <= config.maxTravel
SearchPositive(h, f) ==
    LET contact == Contact(h, f)
        center  == Center(h.lower, f.pos)
        measured == [h EXCEPT !.upper = f.pos, !.travel = Wrap(f.pos - h.lower), !.contact = 0]
    IN  IF contact <= config.dwell THEN Seek(h, contact, config.search)
        ELSE IF travelAccepted(measured.travel) /\ center \in Int32
        THEN To([measured EXCEPT !.center = center, !.deadline = "armed", !.phase = "MoveToCenter"], 0)
        ELSE failHoming(measured)

MoveToCenter(h, f) ==
    LET delta == h.center - f.pos
        speed == IF Abs(delta) > config.slowdown THEN config.fast ELSE config.final
    IN  IF Abs(delta) <= config.tolerance
        THEN To([h EXCEPT !.settling = 0, !.phase = "WaitAtCenter"], 0)
        ELSE To(h, IF delta > 0 THEN speed ELSE -speed)

\* Whether this cycle completes the settling time, and the wait it is part of.
Settled(h) == h.settling + 1 >= config.settle
Waited(h, phase) ==
    [h EXCEPT !.settling = IF @ < config.settle THEN @ + 1 ELSE @, !.phase = phase]

\* Mutants: the axis is not looked at again; a return re-arms the deadline.
WaitAtCenter_Blind(h, f) ==
    To(Waited(h, IF Settled(h) THEN "ZeroAtCenter" ELSE h.phase), 0)
WaitAtCenter_Rearms(h, f) ==
    LET away == Abs(h.center - f.pos) > config.settleTolerance
    IN  To([Waited(h, IF away THEN "MoveToCenter"
                      ELSE IF Settled(h) THEN "ZeroAtCenter" ELSE h.phase)
            EXCEPT !.deadline = IF away THEN "armed" ELSE @], 0)

WaitAtCenter(h, f) ==
    To(Waited(h, IF Abs(h.center - f.pos) > config.settleTolerance THEN "MoveToCenter"
                 ELSE IF Settled(h) THEN "ZeroAtCenter" ELSE h.phase), 0)

\* The zero goes to the drive, and the position is not looked at again.
ZeroAtCenter(h, f) == To([h EXCEPT !.phase = "Storing"], 0)

Exceeded(h, f) == h.phase \in Searching /\ Abs(f.pos - h.start) > config.maxTravel
\* What the drive reports may end the homing too: a fault, its state, its mode.
advanceHoming(h, f) ==
    \/ h.phase \in {"Storing", "Failed"} /\ Becomes(To(h, 0))
    \/ h.phase \in Motion /\ Becomes(failHoming(h))
    \/ /\ h.deadline # "passed" /\ ~Exceeded(h, f)
       /\ \/ h.phase = "SearchNegative" /\ Becomes(SearchNegative(h, f))
          \/ h.phase = "BackoffNegative" /\ Becomes(BackoffNegative(h, f))
          \/ h.phase = "SearchPositive" /\ Becomes(SearchPositive(h, f))
          \/ h.phase = "MoveToCenter" /\ Becomes(MoveToCenter(h, f))
          \/ h.phase = "WaitAtCenter" /\ Becomes(WaitAtCenter(h, f))
          \/ h.phase = "ZeroAtCenter" /\ Becomes(ZeroAtCenter(h, f))
-----------------------------------------------------------------------------
(* The axis between two SYNCs.                                             *)

\* It reaches the commanded velocity at once or in steps, and it stands
\* after two cycles of a zero command.
Speeds(f, v) ==
    IF v # 0 THEN {s \in Int32 : (f.speed <= s /\ s <= v) \/ (v <= s /\ s <= f.speed)}
    ELSE {0} \cup {s \in {-1, 1} : s * f.speed > 1}
Stop(p) == IF p < track.low THEN track.low ELSE IF p > track.high THEN track.high ELSE p
\* At a stop against which it drives its torque rises, sooner or later; torque
\* may also peak while it moves.
AxisMoves(f, v) ==
    \E s \in Speeds(f, v), loaded \in BOOLEAN :
        LET p == Stop(f.pos + s)
        IN  /\ loaded => Transients \/ p # f.pos + s \/ Abs(s) > config.stopped
            /\ axis' = [pos |-> p, speed |-> p - f.pos, loaded |-> loaded]

\* A deadline that was armed a cycle ago can have passed at any later one.
Ticked(h) == [h EXCEPT !.deadline = IF @ = "armed" THEN "running" ELSE @]
OnSync ==
    /\ homing.phase \notin {"Idle", "Done"}
    /\ advanceHoming(Ticked(homing), axis)
    /\ AxisMoves(axis, vel')
    /\ UNCHANGED <<track, config, zero>>

\* The SDO exchange with which the drive takes its position as zero, and
\* stores it; it may fail before or after it took effect.
Taken == [set |-> TRUE, at |-> axis.pos, center |-> homing.center]
ZeroSet ==
    /\ homing.phase = "Storing"
    /\ \/ homing' = [homing EXCEPT !.phase = "Done"] /\ zero' = Taken
       \/ \E z \in {zero, Taken} :
              homing' = [homing EXCEPT !.phase = "Failed"] /\ zero' = z
    /\ UNCHANGED <<track, config, vel, axis>>

DeadlinePasses ==
    /\ homing.phase \in Motion /\ homing.deadline = "running"
    /\ homing' = [homing EXCEPT !.deadline = "passed"]
    /\ UNCHANGED <<track, config, vel, axis, zero>>

Next == requestHoming \/ OnSync \/ ZeroSet \/ DeadlinePasses
Spec == Init /\ [][Next]_vars

\* SYNC is produced by the master, the steady clock runs, and an SDO exchange
\* ends, in an answer or a timeout.
FairSpec == Spec /\ WF_vars(OnSync) /\ WF_vars(ZeroSet) /\ WF_vars(DeadlinePasses)
-----------------------------------------------------------------------------
TypeOK ==
    /\ track \in Tracks /\ config \in Configs
    /\ homing \in Homing /\ vel \in Int
    /\ axis \in [pos : Int32, speed : Int, loaded : BOOLEAN]
    /\ zero \in [set : BOOLEAN, at : Int32, center : Int32]

\* The centre the axis is sent to lies midway between the measured ends, by
\* the offset, and the measured travel is their distance: wherever the ends
\* are in the range of int32, and though their difference may not fit.
CentreIsMidway ==
    homing.phase \in {"MoveToCenter", "WaitAtCenter", "ZeroAtCenter", "Storing", "Done"} =>
        /\ homing.travel = homing.upper - homing.lower
        /\ 2 * (homing.center - config.offset) - (homing.lower + homing.upper) \in {-1, 0}
        /\ homing.center \in Int32

\* The ends that were measured are the hard stops of the axis, although its
\* torque may peak while it moves.
EndsAreStops ==
    homing.phase \in {"MoveToCenter", "WaitAtCenter", "ZeroAtCenter", "Storing", "Done"} =>
        homing.lower = track.low /\ homing.upper = track.high

\* The drive takes its zero only where the axis has settled: within the
\* settling tolerance of the centre.
ZeroIsAtCentre ==
    zero.set => Abs(zero.at - zero.center) <= config.settleTolerance

\* An axis that was felt at its stop is not driven on against it.
ReleasesStop ==
    [][OnSync /\ Touches(axis)
       => ~(axis.pos = track.low /\ vel' < 0) /\ ~(axis.pos = track.high /\ vel' > 0)]_vars

\* Homing ends: an axis that neither settles nor stays is given up.
HomingReturns == homing.phase \in Motion ~> homing.phase \in {"Done", "Failed"}
=============================================================================
