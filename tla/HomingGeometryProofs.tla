------------------------ MODULE HomingGeometryProofs ------------------------
(***************************************************************************)
(* Proofs about HomingGeometry, for any tracks, starts, configurations and *)
(* width of int32: it is well typed, the zero is taken where the axis      *)
(* stands, the ends found are its stops, and, within limits that the       *)
(* theorems name, the centre is midway and a stop that is felt is left.    *)
(***************************************************************************)
EXTENDS HomingGeometry, TLAPS

\* The limit on both searches then keeps the two ends within an int32.
Moderate == \A c \in Configs : 2 * c.maxTravel <= MaxInt

Measured == {"MoveToCenter", "WaitAtCenter", "ZeroAtCenter", "Storing", "Done"}

\* The lower end was measured no further from the start than the limit.
LowerIsNear(h) ==
    h.phase \in {"BackoffNegative", "SearchPositive"} =>
        /\ h.lower \in Int32
        /\ -config.maxTravel <= h.lower - h.start
        /\ h.lower - h.start <= config.maxTravel

Midway(h) ==
    h.phase \in Measured =>
        /\ h.center \in Int32
        /\ Moderate => /\ h.travel = h.upper - h.lower
                       /\ 2 * (h.center - config.offset) - (h.lower + h.upper) \in {-1, 0}

Good(h) == h \in Homing /\ h.start \in Int32 /\ LowerIsNear(h) /\ Midway(h)

IInv == TypeOK /\ Good(homing)

LEMMA Configured ==
    ASSUME TypeOK
    PROVE  config \in Config /\ config.maxTravel \in Int /\ MaxInt \in Nat
BY HomingGeometryAssumption DEF TypeOK, Config, Int32

LEMMA WrapIsIdentity == ASSUME NEW x \in Int32 PROVE Wrap(x) = x
<1> DEFINE s == 2 * MaxInt + 2
           y == x + MaxInt + 1
<1>1. s \in Nat /\ y \in Int /\ 0 <= y /\ y < s
  BY HomingGeometryAssumption DEF Int32
<1> HIDE DEF s, y
<1>2. y % s = y
  BY <1>1
<1>3. QED
  BY <1>2, HomingGeometryAssumption DEF Wrap, Int32, s, y

LEMMA HalfIsWithinOne ==
    ASSUME NEW d \in Int
    PROVE  d \div 2 \in Int /\ 2 * (d \div 2) - d \in {-1, 0}
OBVIOUS

LEMMA WrapIsInt == ASSUME NEW x \in Int PROVE Wrap(x) \in Int
BY HomingGeometryAssumption DEF Wrap
-----------------------------------------------------------------------------
(* One lemma per phase: what the members become is good again.             *)

LEMMA FailGood ==
    ASSUME TypeOK, NEW h, Good(h)
    PROVE  Good(failHoming(h).homing) /\ failHoming(h).vel \in Int
<1> DEFINE g == [h EXCEPT !.phase = "Failed", !.contact = 0]
<1>1. g \in Homing /\ g.phase = "Failed" /\ g.start = h.start
  BY DEF Good, Homing, HomingPhase
<1>2. Good(g)
  BY <1>1 DEF Good, LowerIsNear, Midway, Measured
<1>3. failHoming(h).homing = g /\ failHoming(h).vel = 0
  BY DEF failHoming, To
<1>4. QED
  BY <1>2, <1>3

\* Members that keep the ends and the centre stay good, if the phase is the
\* same or needs nothing new of them.
LEMMA KeptGood ==
    ASSUME NEW h, Good(h), NEW g \in Homing,
           g.start = h.start, g.lower = h.lower, g.upper = h.upper,
           g.travel = h.travel, g.center = h.center,
           \/ g.phase = h.phase
           \/ h.phase = "BackoffNegative" /\ g.phase = "SearchPositive"
           \/ h.phase \in Measured /\ g.phase \in Measured
           \/ g.phase \notin Measured \cup {"BackoffNegative", "SearchPositive"}
    PROVE  Good(g)
BY DEF Good, LowerIsNear, Midway, Measured

LEMMA ContactIsNat ==
    ASSUME TypeOK, NEW h \in Homing, NEW f
    PROVE  Contact(h, f) \in Nat
BY DEF Contact, Homing, TypeOK

LEMMA SeekGood ==
    ASSUME TypeOK, NEW h, Good(h), NEW contact \in Nat, NEW v \in Int
    PROVE  Good(Seek(h, contact, v).homing) /\ Seek(h, contact, v).vel \in Int
<1> DEFINE g == [h EXCEPT !.contact = contact]
<1>1. /\ g \in Homing /\ g.phase = h.phase /\ g.start = h.start /\ g.lower = h.lower
      /\ g.upper = h.upper /\ g.travel = h.travel /\ g.center = h.center
  BY DEF Good, Homing
<1>2. Good(g)
  BY <1>1, KeptGood
<1>3. Seek(h, contact, v).homing = g /\ Seek(h, contact, v).vel \in {0, v}
  BY DEF Seek, To
<1>4. QED
  BY <1>2, <1>3

LEMMA SearchNegativeGood ==
    ASSUME TypeOK, NEW h, Good(h), NEW f, f.pos \in Int32,
           h.phase = "SearchNegative", ~Exceeded(h, f)
    PROVE  Good(SearchNegative(h, f).homing) /\ SearchNegative(h, f).vel \in Int
<1> DEFINE contact == Contact(h, f)
           g == [h EXCEPT !.lower = f.pos, !.backoff = Wrap(f.pos + config.backoff),
                          !.contact = 0, !.phase = "BackoffNegative"]
<1>1. h \in Homing /\ h.start \in Int32 /\ contact \in Nat /\ config \in Config
  BY ContactIsNat, Configured DEF Good
<1>2. CASE contact <= config.dwell
  <2>1. SearchNegative(h, f) = Seek(h, contact, -config.search)
    BY <1>2 DEF SearchNegative
  <2>2. -config.search \in Int
    BY <1>1 DEF Config
  <2>3. QED
    BY <1>1, <2>1, <2>2, SeekGood
<1>3. CASE ~(contact <= config.dwell)
  <2>1. SearchNegative(h, f).homing = g /\ SearchNegative(h, f).vel = config.approach
    BY <1>3 DEF SearchNegative, To
  <2>2. Wrap(f.pos + config.backoff) \in Int /\ f.pos \in Int /\ MaxInt \in Nat
    BY <1>1, WrapIsInt, HomingGeometryAssumption DEF Config, Int32
  <2>3. /\ g \in Homing /\ g.phase = "BackoffNegative"
        /\ g.start = h.start /\ g.lower = f.pos
    BY <1>1, <2>2 DEF Homing, HomingPhase, Motion, Searching
  <2>4. /\ -config.maxTravel <= f.pos - h.start
        /\ f.pos - h.start <= config.maxTravel
    BY <1>1, <2>2, Configured DEF Exceeded, Abs, Searching, Int32
  <2>5. Good(g)
    BY <1>1, <2>3, <2>4 DEF Good, LowerIsNear, Midway, Measured
  <2>6. QED
    BY <1>1, <2>1, <2>5 DEF Config
<1>4. QED
  BY <1>2, <1>3

LEMMA BackoffNegativeGood ==
    ASSUME TypeOK, NEW h, Good(h), NEW f, h.phase = "BackoffNegative"
    PROVE  Good(BackoffNegative(h, f).homing) /\ BackoffNegative(h, f).vel \in Int
<1> DEFINE g == [h EXCEPT !.contact = 0, !.phase = "SearchPositive"]
<1>1. config.search \in Int /\ config.approach \in Int
  BY Configured DEF Config
<1>2. /\ g \in Homing /\ g.phase = "SearchPositive" /\ g.start = h.start
      /\ g.lower = h.lower /\ g.upper = h.upper /\ g.travel = h.travel
      /\ g.center = h.center
  BY DEF Good, Homing, HomingPhase, Motion, Searching
<1>3. Good(g)
  BY <1>2, KeptGood
<1>4. QED
  BY <1>1, <1>3 DEF BackoffNegative, To

\* The heart of it: if their distance fits, the centre of two ends is midway.
LEMMA CentreOfEnds ==
    ASSUME TypeOK, NEW lower \in Int32, NEW upper \in Int32, upper - lower \in Int32
    PROVE  /\ Wrap(upper - lower) = upper - lower
           /\ Center(lower, upper) \in Int
           /\ 2 * (Center(lower, upper) - config.offset) - (lower + upper) \in {-1, 0}
<1> DEFINE d == upper - lower
           half == d \div 2
<1>1. lower \in Int /\ upper \in Int /\ d \in Int /\ config.offset \in Int
  BY Configured DEF Int32, Config
<1>2. Wrap(d) = d
  BY WrapIsIdentity
<1>3. /\ half \in Int /\ 2 * half - d \in {-1, 0} /\ d = upper - lower
      /\ Center(lower, upper) = lower + half + config.offset
  BY <1>1, <1>2, HalfIsWithinOne DEF Center
<1> HIDE DEF half, d
<1>4. /\ Center(lower, upper) \in Int
      /\ 2 * (Center(lower, upper) - config.offset) - (lower + upper) = 2 * half - d
  BY <1>1, <1>3
<1>5. QED
  BY <1>2, <1>3, <1>4 DEF d

\* Within the limit of both searches it fits.
LEMMA EndsAreNear ==
    ASSUME TypeOK, Moderate, NEW h, Good(h), NEW f, f.pos \in Int32,
           h.phase = "SearchPositive", ~Exceeded(h, f)
    PROVE  h.lower \in Int32 /\ f.pos - h.lower \in Int32
<1>1. /\ h.lower \in Int32 /\ h.lower \in Int /\ f.pos \in Int /\ h.start \in Int
      /\ config.maxTravel \in Int /\ MaxInt \in Nat /\ 2 * config.maxTravel <= MaxInt
  BY Configured DEF Good, LowerIsNear, Int32, Config, Moderate, TypeOK
<1>2. /\ -config.maxTravel <= h.lower - h.start /\ h.lower - h.start <= config.maxTravel
  BY DEF Good, LowerIsNear
<1>3. /\ -config.maxTravel <= f.pos - h.start /\ f.pos - h.start <= config.maxTravel
  BY <1>1 DEF Exceeded, Abs, Searching
<1>4. QED
  BY <1>1, <1>2, <1>3 DEF Int32

LEMMA CentreIsInt ==
    ASSUME TypeOK, NEW lower \in Int, NEW upper \in Int32
    PROVE  Center(lower, upper) \in Int /\ Wrap(upper - lower) \in Int /\ upper \in Int
<1>1. upper \in Int /\ upper - lower \in Int /\ config.offset \in Int
  BY Configured DEF Int32, Config
<1> DEFINE w == Wrap(upper - lower)
<1>2. w \in Int
  BY <1>1, WrapIsInt
<1> HIDE DEF w
<1>3. w \div 2 \in Int
  BY <1>2, HalfIsWithinOne
<1>4. Center(lower, upper) = lower + (w \div 2) + config.offset
  BY DEF Center, w
<1>5. QED
  BY <1>1, <1>2, <1>3, <1>4 DEF w

LEMMA SearchPositiveGood ==
    ASSUME TypeOK, NEW h, Good(h), NEW f, f.pos \in Int32,
           h.phase = "SearchPositive", ~Exceeded(h, f)
    PROVE  Good(SearchPositive(h, f).homing) /\ SearchPositive(h, f).vel \in Int
<1> DEFINE contact == Contact(h, f)
           center == Center(h.lower, f.pos)
           m == [h EXCEPT !.upper = f.pos, !.travel = Wrap(f.pos - h.lower), !.contact = 0]
           g == [m EXCEPT !.center = center, !.deadline = "armed", !.phase = "MoveToCenter"]
<1>1. h \in Homing /\ h.start \in Int32 /\ contact \in Nat /\ config \in Config
  BY ContactIsNat, Configured DEF Good
<1>2. /\ center \in Int /\ f.pos \in Int /\ Wrap(f.pos - h.lower) \in Int
      /\ Moderate => /\ Wrap(f.pos - h.lower) = f.pos - h.lower
                     /\ 2 * (center - config.offset) - (h.lower + f.pos) \in {-1, 0}
  BY <1>1, EndsAreNear, CentreOfEnds, CentreIsInt DEF Homing
<1>3. /\ m \in Homing /\ m.phase = h.phase /\ m.start = h.start /\ m.lower = h.lower
      /\ m.upper = f.pos /\ m.travel = Wrap(f.pos - h.lower)
  BY <1>1, <1>2 DEF Homing
<1>4. Good(m)
  BY <1>1, <1>3 DEF Good, LowerIsNear, Midway, Measured
<1>5. CASE contact <= config.dwell
  <2>1. SearchPositive(h, f) = Seek(h, contact, config.search)
    BY <1>5 DEF SearchPositive
  <2>2. config.search \in Int
    BY <1>1 DEF Config
  <2>3. QED
    BY <1>1, <2>1, <2>2, SeekGood
<1>6. CASE ~(contact <= config.dwell) /\ travelAccepted(m.travel) /\ center \in Int32
  <2>1. SearchPositive(h, f).homing = g /\ SearchPositive(h, f).vel = 0
    BY <1>6 DEF SearchPositive, To
  <2>2. /\ g \in Homing /\ g.phase = "MoveToCenter" /\ g.start = h.start
        /\ g.lower = h.lower /\ g.upper = f.pos /\ g.center = center
        /\ g.travel = Wrap(f.pos - h.lower)
    BY <1>2, <1>3 DEF Homing, HomingPhase, Motion
  <2>3. Good(g)
    BY <1>1, <1>2, <1>6, <2>2 DEF Good, LowerIsNear, Midway
  <2>4. QED
    BY <2>1, <2>3
<1>7. CASE ~(contact <= config.dwell) /\ ~(travelAccepted(m.travel) /\ center \in Int32)
  <2>1. SearchPositive(h, f) = failHoming(m)
    BY <1>7 DEF SearchPositive
  <2>2. QED
    BY <1>4, <2>1, FailGood
<1>8. QED
  BY <1>5, <1>6, <1>7

LEMMA CenterPhasesGood ==
    ASSUME TypeOK, NEW h, Good(h), NEW f,
           NEW next \in {MoveToCenter(h, f), WaitAtCenter(h, f), ZeroAtCenter(h, f)},
           \/ h.phase = "MoveToCenter" /\ next = MoveToCenter(h, f)
           \/ h.phase = "WaitAtCenter" /\ next = WaitAtCenter(h, f)
           \/ h.phase = "ZeroAtCenter" /\ next = ZeroAtCenter(h, f)
    PROVE  Good(next.homing) /\ next.vel \in Int
<1>1. config.fast \in Int /\ config.final \in Int /\ h \in Homing /\ config.settle \in Nat
  BY Configured DEF Config, Good
<1>2. CASE h.phase = "MoveToCenter" /\ next = MoveToCenter(h, f)
  <2> DEFINE g == [h EXCEPT !.settling = 0, !.phase = "WaitAtCenter"]
  <2>1. /\ g \in Homing /\ g.phase \in Measured /\ g.start = h.start
        /\ g.lower = h.lower /\ g.upper = h.upper /\ g.travel = h.travel
        /\ g.center = h.center
    BY <1>1 DEF Homing, HomingPhase, Motion, Measured
  <2>2. h.phase \in Measured
    BY <1>2 DEF Measured
  <2>3. Good(g)
    BY <2>1, <2>2, KeptGood
  <2>4. next.homing \in {g, h} /\ next.vel \in Int
    BY <1>1, <1>2 DEF MoveToCenter, To
  <2>5. QED
    BY <2>3, <2>4
<1>3. CASE h.phase = "WaitAtCenter" /\ next = WaitAtCenter(h, f)
  <2>1. PICK phase \in {"MoveToCenter", "ZeroAtCenter", "WaitAtCenter"} :
            next = To(Waited(h, phase), 0)
    BY <1>3 DEF WaitAtCenter
  <2> DEFINE settling == IF h.settling < config.settle THEN h.settling + 1 ELSE h.settling
             g == [h EXCEPT !.settling = settling, !.phase = phase]
  <2>2. settling \in Nat /\ phase \in HomingPhase /\ phase \in Measured
    BY <1>1, <2>1 DEF Homing, HomingPhase, Motion, Measured
  <2>3. /\ g \in Homing /\ g.phase = phase /\ g.start = h.start
        /\ g.lower = h.lower /\ g.upper = h.upper /\ g.travel = h.travel
        /\ g.center = h.center
    BY <1>1, <2>2 DEF Homing
  <2>4. h.phase \in Measured
    BY <1>3 DEF Measured
  <2>5. Good(g)
    BY <2>2, <2>3, <2>4, KeptGood
  <2>6. next.homing = g /\ next.vel = 0
    BY <2>1 DEF Waited, To
  <2>7. QED
    BY <2>5, <2>6
<1>4. CASE h.phase = "ZeroAtCenter" /\ next = ZeroAtCenter(h, f)
  <2> DEFINE g == [h EXCEPT !.phase = "Storing"]
  <2>1. /\ g \in Homing /\ g.phase \in Measured /\ g.start = h.start
        /\ g.lower = h.lower /\ g.upper = h.upper /\ g.travel = h.travel
        /\ g.center = h.center
    BY <1>1 DEF Homing, HomingPhase, Measured
  <2>2. h.phase \in Measured
    BY <1>4 DEF Measured
  <2>3. Good(g)
    BY <2>1, <2>2, KeptGood
  <2>4. next.homing = g /\ next.vel = 0
    BY <1>4 DEF ZeroAtCenter, To
  <2>5. QED
    BY <2>3, <2>4
<1>5. QED
  BY <1>2, <1>3, <1>4
-----------------------------------------------------------------------------
(* The steps.                                                              *)

\* The axis stays between its stops, which are int32 positions.
LEMMA AxisTyped ==
    ASSUME TypeOK, NEW v, AxisMoves(axis, v)
    PROVE  axis' \in [pos : Int32, speed : Int, loaded : BOOLEAN]
<1>1. PICK s \in Speeds(axis, v), loaded \in BOOLEAN :
          axis' = [pos |-> Stop(axis.pos + s), speed |-> Stop(axis.pos + s) - axis.pos,
                   loaded |-> loaded]
  BY DEF AxisMoves
<1>2. track.low \in Int32 /\ track.high \in Int32 /\ axis.pos \in Int32 /\ MaxInt \in Nat
  BY HomingGeometryAssumption DEF TypeOK
<1>3. s \in Int
  BY <1>2 DEF Speeds, Int32
<1>4. Stop(axis.pos + s) \in Int32
  BY <1>2, <1>3 DEF Stop, Int32
<1>5. Stop(axis.pos + s) - axis.pos \in Int
  BY <1>2, <1>4 DEF Int32
<1>6. QED
  BY <1>1, <1>4, <1>5

LEMMA TickedGood ==
    ASSUME Good(homing)
    PROVE  Good(Ticked(homing)) /\ Ticked(homing).phase = homing.phase
<1> DEFINE d == IF homing.deadline = "armed" THEN "running" ELSE homing.deadline
           g == [homing EXCEPT !.deadline = d]
<1>1. d \in {"armed", "running", "passed"}
  BY DEF Good, Homing
<1>2. /\ g \in Homing /\ g.phase = homing.phase /\ g.start = homing.start
      /\ g.lower = homing.lower /\ g.upper = homing.upper /\ g.travel = homing.travel
      /\ g.center = homing.center
  BY <1>1 DEF Good, Homing
<1>3. Good(g)
  BY <1>2, KeptGood
<1>4. Ticked(homing) = g
  BY DEF Ticked
<1>5. QED
  BY <1>2, <1>3, <1>4

LEMMA AdvanceGood ==
    ASSUME TypeOK, NEW h, Good(h), advanceHoming(h, axis)
    PROVE  Good(homing') /\ vel' \in Int
<1>1. axis.pos \in Int32
  BY DEF TypeOK
<1>2. CASE Becomes(To(h, 0))
  BY <1>2 DEF Becomes, To
<1>3. CASE Becomes(failHoming(h))
  BY <1>3, FailGood DEF Becomes
<1>4. CASE ~Exceeded(h, axis) /\ h.phase = "SearchNegative"
           /\ Becomes(SearchNegative(h, axis))
  BY <1>1, <1>4, SearchNegativeGood DEF Becomes
<1>5. CASE h.phase = "BackoffNegative" /\ Becomes(BackoffNegative(h, axis))
  BY <1>5, BackoffNegativeGood DEF Becomes
<1>6. CASE ~Exceeded(h, axis) /\ h.phase = "SearchPositive"
           /\ Becomes(SearchPositive(h, axis))
  BY <1>1, <1>6, SearchPositiveGood DEF Becomes
<1>7. CASE \/ h.phase = "MoveToCenter" /\ Becomes(MoveToCenter(h, axis))
           \/ h.phase = "WaitAtCenter" /\ Becomes(WaitAtCenter(h, axis))
           \/ h.phase = "ZeroAtCenter" /\ Becomes(ZeroAtCenter(h, axis))
  BY <1>7, CenterPhasesGood DEF Becomes
<1>8. QED
  BY <1>2, <1>3, <1>4, <1>5, <1>6, <1>7 DEF advanceHoming

\* What is good of the configuration of this step is good of the next.
LEMMA GoodNext ==
    ASSUME config' = config, Good(homing')
    PROVE  Good(homing)'
BY DEF Good, LowerIsNear, Midway

LEMMA RequestGood == ASSUME IInv, requestHoming PROVE IInv'
<1> DEFINE g == [Fresh EXCEPT !.phase = "SearchNegative", !.start = axis.pos]
<1>1. axis.pos \in Int32 /\ axis.pos \in Int /\ config \in Config
  BY Configured, HomingGeometryAssumption DEF IInv, TypeOK, Int32
<1>2. Fresh \in Homing
  BY DEF Fresh, Homing, HomingPhase
<1>3. g \in Homing /\ g.phase = "SearchNegative" /\ g.start = axis.pos
  BY <1>1, <1>2 DEF Homing, HomingPhase, Motion, Searching
<1>4. homing' = g /\ vel' = -config.search
  BY DEF requestHoming
<1>5. Good(g)
  BY <1>1, <1>3 DEF Good, LowerIsNear, Midway, Measured
<1>6. Good(homing)'
  BY <1>4, <1>5, GoodNext DEF requestHoming
<1>7. vel' \in Int
  BY <1>1, <1>4 DEF Config
<1>8. TypeOK'
  BY <1>3, <1>4, <1>7 DEF IInv, TypeOK, requestHoming
<1>9. QED
  BY <1>6, <1>8 DEF IInv

LEMMA SyncGood == ASSUME IInv, OnSync PROVE IInv'
<1>1. TypeOK /\ Good(Ticked(homing)) /\ advanceHoming(Ticked(homing), axis)
  BY TickedGood DEF IInv, OnSync
<1>2. Good(homing') /\ vel' \in Int
  BY <1>1, AdvanceGood
<1>3. Good(homing)'
  BY <1>2, GoodNext DEF OnSync
<1>4. axis' \in [pos : Int32, speed : Int, loaded : BOOLEAN]
  BY <1>1, AxisTyped DEF OnSync
<1>5. homing' \in Homing
  BY <1>2 DEF Good
<1>6. TypeOK'
  BY <1>1, <1>2, <1>4, <1>5 DEF TypeOK, OnSync
<1>7. QED
  BY <1>3, <1>6 DEF IInv

LEMMA ZeroSetGood == ASSUME IInv, ZeroSet PROVE IInv'
<1>1. homing.phase \in Measured /\ Good(homing) /\ axis.pos \in Int32
  BY DEF IInv, ZeroSet, Measured, TypeOK
<1>2. Taken \in [set : BOOLEAN, at : Int32, center : Int32]
  BY <1>1 DEF Taken, Good, Midway
<1>3. PICK phase \in {"Done", "Failed"} : homing' = [homing EXCEPT !.phase = phase]
  BY DEF ZeroSet
<1>4. /\ homing' \in Homing /\ homing'.phase = phase /\ homing'.start = homing.start
      /\ homing'.lower = homing.lower /\ homing'.upper = homing.upper
      /\ homing'.travel = homing.travel /\ homing'.center = homing.center
  BY <1>1, <1>3 DEF Good, Homing, HomingPhase
<1>5. phase \in Measured \/ phase \notin Measured \cup {"BackoffNegative", "SearchPositive"}
  BY DEF Measured
<1>6. Good(homing')
  BY <1>1, <1>4, <1>5, KeptGood
<1>7. zero' \in {zero, Taken}
  BY DEF ZeroSet
<1>8. TypeOK'
  BY <1>2, <1>4, <1>7 DEF IInv, TypeOK, ZeroSet
<1>9. QED
  BY <1>6, <1>8, GoodNext DEF IInv, ZeroSet

LEMMA DeadlineGood == ASSUME IInv, DeadlinePasses PROVE IInv'
<1>1. /\ homing' \in Homing /\ homing'.phase = homing.phase /\ homing'.start = homing.start
      /\ homing'.lower = homing.lower /\ homing'.upper = homing.upper
      /\ homing'.travel = homing.travel /\ homing'.center = homing.center
  BY DEF IInv, Good, Homing, DeadlinePasses
<1>2. Good(homing')
  BY <1>1, KeptGood DEF IInv
<1>3. TypeOK'
  BY <1>1 DEF IInv, TypeOK, DeadlinePasses
<1>4. QED
  BY <1>2, <1>3, GoodNext DEF IInv, DeadlinePasses

LEMMA InitGood == ASSUME Init PROVE IInv
<1>1. Fresh \in Homing /\ 0 \in Int32 /\ MaxInt \in Nat
  BY HomingGeometryAssumption DEF Fresh, Homing, HomingPhase, Int32
<1>2. PICK p \in Starts : axis = [pos |-> p, speed |-> 0, loaded |-> FALSE]
  BY DEF Init
<1>3. axis \in [pos : Int32, speed : Int, loaded : BOOLEAN]
  BY <1>2, HomingGeometryAssumption
<1>4. zero \in [set : BOOLEAN, at : Int32, center : Int32]
  BY <1>1 DEF Init
<1>5. TypeOK
  BY <1>1, <1>3, <1>4 DEF Init, TypeOK
<1>6. Good(homing)
  BY <1>1 DEF Init, Fresh, Good, LowerIsNear, Midway, Measured
<1>7. QED
  BY <1>5, <1>6 DEF IInv

LEMMA NextGood == ASSUME IInv, [Next]_vars PROVE IInv'
<1>1. CASE requestHoming
  BY <1>1, RequestGood
<1>2. CASE OnSync
  BY <1>2, SyncGood
<1>3. CASE ZeroSet
  BY <1>3, ZeroSetGood
<1>4. CASE DeadlinePasses
  BY <1>4, DeadlineGood
<1>5. CASE UNCHANGED vars
  BY <1>5 DEF vars, IInv, TypeOK, Good, LowerIsNear, Midway
<1>6. QED
  BY <1>1, <1>2, <1>3, <1>4, <1>5 DEF Next

\* The members of a homing, its velocity and the axis keep their types: the
\* centre the axis is sent to and the zero it takes are int32 positions.
THEOREM HomingTypeCorrect == Spec => []TypeOK
<1>1. Init => IInv
  BY InitGood
<1>2. IInv /\ [Next]_vars => IInv'
  BY NextGood
<1>3. IInv => TypeOK
  BY DEF IInv
<1>4. QED
  BY <1>1, <1>2, <1>3, PTL DEF Spec

\* For every width of the integers, axis, start and homing configuration whose
\* travel is at most half the range: the centre computed from the two ends lies
\* midway between them (MotorDriver::advanceHoming, SearchPositive).
THEOREM CentreAlwaysMidway == ASSUME Moderate PROVE Spec => []CentreIsMidway
<1>1. Init => IInv
  BY InitGood
<1>2. IInv /\ [Next]_vars => IInv'
  BY NextGood
<1>3. IInv => CentreIsMidway
  BY DEF IInv, Good, Midway, Measured, CentreIsMidway
<1>4. QED
  BY <1>1, <1>2, <1>3, PTL DEF Spec
-----------------------------------------------------------------------------
(* Where the axis is.                                                      *)

InTrack == track.low <= axis.pos /\ axis.pos <= track.high

\* The zero is set without another look at the position: two cycles of a zero
\* command have brought the axis to rest before.
Resting(h) ==
    /\ h.phase = "WaitAtCenter" => axis.speed \in {-1, 0, 1}
    /\ h.phase \in {"ZeroAtCenter", "Storing"} =>
           axis.speed = 0 /\ Abs(h.center - axis.pos) <= config.settleTolerance
AtRest == IInv /\ InTrack /\ Resting(homing) /\ ZeroIsAtCentre

LEMMA TrackTyped ==
    ASSUME TypeOK
    PROVE  /\ track.low \in Int /\ track.high \in Int /\ axis.pos \in Int /\ axis.speed \in Int
           /\ config.stopped \in Int /\ config.backoff \in Int /\ config.offset \in Int
           /\ config.search \in Nat /\ config.approach \in Nat /\ MaxInt \in Nat
           /\ config.fast \in Nat /\ config.final \in Nat /\ config.settleTolerance \in Int
           /\ config.tolerance \in Int /\ config.minTravel \in Int
BY Configured, HomingGeometryAssumption DEF TypeOK, Int32, Config

\* A step of s from a place on a segment, cut off at its ends.
LEMMA Clamped ==
    ASSUME NEW at \in Int, NEW low \in Int, NEW high \in Int, low <= at, at <= high,
           NEW s \in Int,
           NEW p, p = IF at + s < low THEN low ELSE IF at + s > high THEN high ELSE at + s
    PROVE  /\ p \in Int /\ low <= p /\ p <= high
           /\ s <= 0 => s <= p - at /\ p - at <= 0
           /\ s >= 0 => 0 <= p - at /\ p - at <= s
           /\ p # at + s => (s < 0 /\ p = low) \/ (s > 0 /\ p = high)
<1>1. CASE at + s < low
  BY <1>1
<1>2. CASE low <= at + s /\ at + s > high
  BY <1>2
<1>3. CASE low <= at + s /\ at + s <= high
  BY <1>3
<1>4. QED
  BY <1>1, <1>2, <1>3

\* One move of the axis: it goes the way of its speed, and is stopped by the
\* stop of that side alone, at which its torque may then rise.
LEMMA Moved ==
    ASSUME TypeOK, InTrack, NEW v \in Int, AxisMoves(axis, v)
    PROVE  \E s \in Speeds(axis, v) :
               /\ s \in Int /\ track.low <= axis'.pos /\ axis'.pos <= track.high
               /\ axis'.pos = axis.pos + axis'.speed /\ axis'.speed \in Int
               /\ s <= 0 => s <= axis'.speed /\ axis'.speed <= 0
               /\ s >= 0 => 0 <= axis'.speed /\ axis'.speed <= s
               /\ ~Transients /\ axis'.loaded /\ Abs(axis'.speed) <= config.stopped =>
                      (s < 0 /\ axis'.pos = track.low) \/ (s > 0 /\ axis'.pos = track.high)
<1>1. PICK s \in Speeds(axis, v), loaded \in BOOLEAN :
          /\ loaded => Transients \/ Stop(axis.pos + s) # axis.pos + s
                       \/ Abs(s) > config.stopped
          /\ axis' = [pos |-> Stop(axis.pos + s), speed |-> Stop(axis.pos + s) - axis.pos,
                      loaded |-> loaded]
  BY DEF AxisMoves
<1>2. s \in Int
  BY TrackTyped DEF Speeds, Int32
<1> DEFINE p == Stop(axis.pos + s)
<1>3. /\ p \in Int /\ track.low <= p /\ p <= track.high
      /\ s <= 0 => s <= p - axis.pos /\ p - axis.pos <= 0
      /\ s >= 0 => 0 <= p - axis.pos /\ p - axis.pos <= s
      /\ p # axis.pos + s => (s < 0 /\ p = track.low) \/ (s > 0 /\ p = track.high)
  <2> DEFINE at == axis.pos
             low == track.low
             high == track.high
  <2>1. p = IF at + s < low THEN low ELSE IF at + s > high THEN high ELSE at + s
    BY DEF Stop
  <2>2. at \in Int /\ low \in Int /\ high \in Int /\ low <= at /\ at <= high
    BY TrackTyped DEF InTrack
  <2> HIDE DEF p, at, low, high
  <2>3. /\ p \in Int /\ low <= p /\ p <= high
        /\ s <= 0 => s <= p - at /\ p - at <= 0
        /\ s >= 0 => 0 <= p - at /\ p - at <= s
        /\ p # at + s => (s < 0 /\ p = low) \/ (s > 0 /\ p = high)
    BY <1>2, <2>1, <2>2, Clamped
  <2>4. QED
    BY <2>3 DEF at, low, high
<1>4. axis'.pos = p /\ axis'.speed = p - axis.pos /\ axis'.loaded = loaded
  BY <1>1
<1> HIDE DEF p
<1>5. p = axis.pos + s => p - axis.pos = s
  BY <1>2, TrackTyped
<1>6. ~Transients /\ axis'.loaded /\ Abs(axis'.speed) <= config.stopped => p # axis.pos + s
  <2> SUFFICES ASSUME ~Transients, loaded, Abs(p - axis.pos) <= config.stopped,
                      p = axis.pos + s
               PROVE  FALSE
    BY <1>4
  <2>1. Abs(s) > config.stopped /\ Abs(s) <= config.stopped
    BY <1>1, <1>5 DEF p
  <2>2. Abs(s) \in Int
    BY <1>2 DEF Abs
  <2>3. QED
    BY <2>1, <2>2, TrackTyped
<1>7. axis.pos + (p - axis.pos) = p /\ p - axis.pos \in Int
  BY <1>3, TrackTyped
<1>8. QED
  BY <1>2, <1>3, <1>4, <1>6, <1>7

\* A zero command: the axis slows to at most 1, and in the next cycle stands.
LEMMA Slows ==
    ASSUME TypeOK, InTrack, AxisMoves(axis, 0)
    PROVE  /\ axis'.speed \in {-1, 0, 1}
           /\ axis.speed \in {-1, 0, 1} => axis'.speed = 0 /\ axis'.pos = axis.pos
<1>1. PICK s \in Speeds(axis, 0) :
          /\ s \in Int /\ axis'.pos = axis.pos + axis'.speed /\ axis'.speed \in Int
          /\ s <= 0 => s <= axis'.speed /\ axis'.speed <= 0
          /\ s >= 0 => 0 <= axis'.speed /\ axis'.speed <= s
  BY Moved
<1>2. s \in {-1, 0, 1} /\ (axis.speed \in {-1, 0, 1} => s = 0)
  BY TrackTyped DEF Speeds
<1>3. QED
  BY <1>1, <1>2, TrackTyped

\* The members after a cycle of OnSync, and the velocity that goes with them.
LEMMA SyncIsAdvance ==
    ASSUME IInv, OnSync
    PROVE  /\ TypeOK /\ Good(Ticked(homing)) /\ Ticked(homing).phase = homing.phase
           /\ Ticked(homing).center = homing.center /\ Ticked(homing).lower = homing.lower
           /\ Ticked(homing).upper = homing.upper /\ Ticked(homing).contact = homing.contact
           /\ Ticked(homing).backoff = homing.backoff
           /\ Ticked(homing).travel = homing.travel
           /\ advanceHoming(Ticked(homing), axis) /\ vel' \in Int
           /\ AxisMoves(axis, vel') /\ UNCHANGED <<track, config, zero>>
<1>1. /\ TypeOK /\ Good(Ticked(homing)) /\ Ticked(homing).phase = homing.phase
      /\ advanceHoming(Ticked(homing), axis)
  BY TickedGood DEF IInv, OnSync
<1>2. vel' \in Int
  BY <1>1, AdvanceGood
<1>3. /\ Ticked(homing).center = homing.center /\ Ticked(homing).lower = homing.lower
      /\ Ticked(homing).upper = homing.upper /\ Ticked(homing).contact = homing.contact
      /\ Ticked(homing).backoff = homing.backoff /\ Ticked(homing).travel = homing.travel
  BY DEF Ticked, IInv, Good, Homing
<1>4. QED
  BY <1>1, <1>2, <1>3 DEF OnSync

\* Where a cycle leads that ends at the centre, or stays there.
LEMMA CentreCycles ==
    ASSUME TypeOK, NEW h, Good(h), advanceHoming(h, axis)
    PROVE  /\ homing'.phase \in {"WaitAtCenter", "ZeroAtCenter", "Storing"} =>
                  vel' = 0 /\ homing'.center = h.center
           /\ homing'.phase = "WaitAtCenter" =>
                  h.phase \in {"MoveToCenter", "WaitAtCenter"}
           /\ homing'.phase = "ZeroAtCenter" =>
                  /\ h.phase = "WaitAtCenter"
                  /\ Abs(h.center - axis.pos) <= config.settleTolerance
           /\ homing'.phase = "Storing" => h.phase \in {"ZeroAtCenter", "Storing"}
<1>0. h \in Homing
  BY DEF Good
<1>1. CASE h.phase \in {"Storing", "Failed"} /\ Becomes(To(h, 0))
  BY <1>1 DEF Becomes, To
<1>2. CASE Becomes(failHoming(h))
  <2>1. failHoming(h).homing.phase = "Failed"
    BY <1>0 DEF failHoming, To, Homing
  <2>2. QED
    BY <1>2, <2>1 DEF Becomes
<1>3. CASE h.phase = "SearchNegative" /\ Becomes(SearchNegative(h, axis))
  <2>1. SearchNegative(h, axis).homing.phase \in {"SearchNegative", "BackoffNegative"}
    BY <1>0, <1>3 DEF SearchNegative, Seek, To, Homing
  <2>2. QED
    BY <1>3, <2>1 DEF Becomes
<1>4. CASE h.phase = "BackoffNegative" /\ Becomes(BackoffNegative(h, axis))
  <2>1. BackoffNegative(h, axis).homing.phase \in {"SearchPositive", "BackoffNegative"}
    BY <1>0, <1>4 DEF BackoffNegative, To, Homing
  <2>2. QED
    BY <1>4, <2>1 DEF Becomes
<1>5. CASE h.phase = "SearchPositive" /\ Becomes(SearchPositive(h, axis))
  <2>1. SearchPositive(h, axis).homing.phase \in {"SearchPositive", "MoveToCenter", "Failed"}
    BY <1>0, <1>5 DEF SearchPositive, Seek, failHoming, To, Homing
  <2>2. QED
    BY <1>5, <2>1 DEF Becomes
<1>6. CASE h.phase = "MoveToCenter" /\ Becomes(MoveToCenter(h, axis))
  <2>1. \/ homing' = h
        \/ homing' = [h EXCEPT !.settling = 0, !.phase = "WaitAtCenter"] /\ vel' = 0
    BY <1>6 DEF Becomes, MoveToCenter, To
  <2>2. QED
    BY <1>0, <1>6, <2>1 DEF Homing
<1>7. CASE h.phase = "WaitAtCenter" /\ Becomes(WaitAtCenter(h, axis))
  <2>1. PICK phase \in {"MoveToCenter", "ZeroAtCenter", "WaitAtCenter"} :
            /\ WaitAtCenter(h, axis) = To(Waited(h, phase), 0)
            /\ phase = "ZeroAtCenter" => ~(Abs(h.center - axis.pos) > config.settleTolerance)
    BY <1>7 DEF WaitAtCenter
  <2>2. homing' = Waited(h, phase) /\ vel' = 0
    BY <1>7, <2>1 DEF Becomes, To
  <2>3. homing'.phase = phase /\ homing'.center = h.center
    BY <1>0, <2>2 DEF Waited, Homing
  <2>4. Abs(h.center - axis.pos) \in Int
    BY <1>0, TrackTyped DEF Abs, Homing
  <2>5. QED
    BY <1>7, <2>1, <2>2, <2>3, <2>4, TrackTyped
<1>8. CASE h.phase = "ZeroAtCenter" /\ Becomes(ZeroAtCenter(h, axis))
  <2>1. homing' = [h EXCEPT !.phase = "Storing"] /\ vel' = 0
    BY <1>8 DEF Becomes, ZeroAtCenter, To
  <2>2. QED
    BY <1>0, <1>8, <2>1 DEF Homing
<1>9. QED
  BY <1>1, <1>2, <1>3, <1>4, <1>5, <1>6, <1>7, <1>8 DEF advanceHoming

LEMMA SyncRests == ASSUME AtRest, OnSync PROVE AtRest'
<1> DEFINE h == Ticked(homing)
<1>1. /\ IInv /\ InTrack /\ TypeOK /\ Good(h) /\ h.phase = homing.phase
      /\ h.center = homing.center /\ advanceHoming(h, axis) /\ vel' \in Int
      /\ AxisMoves(axis, vel') /\ UNCHANGED <<track, config, zero>>
  BY SyncIsAdvance DEF AtRest
<1> HIDE DEF h
<1>2. /\ homing'.phase \in {"WaitAtCenter", "ZeroAtCenter", "Storing"} =>
             vel' = 0 /\ homing'.center = homing.center
      /\ homing'.phase = "WaitAtCenter" => homing.phase \in {"MoveToCenter", "WaitAtCenter"}
      /\ homing'.phase = "ZeroAtCenter" =>
             /\ homing.phase = "WaitAtCenter"
             /\ Abs(homing.center - axis.pos) <= config.settleTolerance
      /\ homing'.phase = "Storing" => homing.phase \in {"ZeroAtCenter", "Storing"}
  BY <1>1, CentreCycles
<1>3. InTrack'
  BY <1>1, Moved DEF InTrack
<1>4. vel' = 0 => /\ axis'.speed \in {-1, 0, 1}
                  /\ axis.speed \in {-1, 0, 1} => axis'.speed = 0 /\ axis'.pos = axis.pos
  BY <1>1, Slows
<1>5. Resting(homing)'
  BY <1>1, <1>2, <1>4 DEF AtRest, Resting
<1>6. ZeroIsAtCentre'
  BY <1>1 DEF AtRest, ZeroIsAtCentre
<1>7. QED
  BY <1>1, <1>3, <1>5, <1>6, SyncGood DEF AtRest

LEMMA NextRests == ASSUME AtRest, [Next]_vars PROVE AtRest'
<1>1. IInv /\ IInv'
  BY NextGood DEF AtRest
<1>2. CASE requestHoming
  <2>1. homing'.phase = "SearchNegative" /\ UNCHANGED <<track, config, axis, zero>>
    BY <1>2 DEF requestHoming, Fresh
  <2>2. QED
    BY <1>1, <2>1 DEF AtRest, InTrack, Resting, ZeroIsAtCentre
<1>3. CASE OnSync
  BY <1>3, SyncRests
<1>4. CASE ZeroSet
  <2>1. /\ homing'.phase \in {"Done", "Failed"} /\ zero' \in {zero, Taken}
        /\ UNCHANGED <<track, config, axis>> /\ homing.phase = "Storing"
    BY <1>1, <1>4 DEF ZeroSet, IInv, TypeOK, Homing
  <2>2. Abs(Taken.at - Taken.center) <= config.settleTolerance
    <3>1. /\ Abs(homing.center - axis.pos) <= config.settleTolerance
          /\ homing.center \in Int /\ axis.pos \in Int
      BY <1>1, <2>1, TrackTyped DEF AtRest, Resting, IInv, Good, Homing
    <3>2. Abs(homing.center - axis.pos) = Abs(axis.pos - homing.center)
      BY <3>1 DEF Abs
    <3>3. QED
      BY <3>1, <3>2 DEF Taken
  <2>3. ZeroIsAtCentre'
    BY <2>1, <2>2 DEF AtRest, ZeroIsAtCentre
  <2>4. QED
    BY <1>1, <2>1, <2>3 DEF AtRest, InTrack, Resting
<1>5. CASE DeadlinePasses
  <2>1. /\ homing'.phase = homing.phase /\ homing'.center = homing.center
        /\ UNCHANGED <<track, config, axis, zero>>
    BY <1>1, <1>5 DEF DeadlinePasses, IInv, TypeOK, Homing
  <2>2. QED
    BY <1>1, <2>1 DEF AtRest, InTrack, Resting, ZeroIsAtCentre
<1>6. CASE UNCHANGED vars
  BY <1>1, <1>6 DEF vars, AtRest, InTrack, Resting, ZeroIsAtCentre
<1>7. QED
  BY <1>2, <1>3, <1>4, <1>5, <1>6 DEF Next

LEMMA InitRests == ASSUME Init PROVE AtRest
<1>1. IInv
  BY InitGood
<1>2. InTrack
  <2>1. PICK p \in Starts : /\ track.low <= p /\ p <= track.high
                            /\ axis = [pos |-> p, speed |-> 0, loaded |-> FALSE]
    BY DEF Init
  <2>2. QED
    BY <2>1 DEF InTrack
<1>3. homing.phase = "Idle" /\ ~zero.set
  BY DEF Init, Fresh
<1>4. QED
  BY <1>1, <1>2, <1>3 DEF AtRest, Resting, ZeroIsAtCentre

\* For every axis, configuration and torque: the drive takes its zero where the
\* axis was last seen within its settling tolerance, because it stands by then.
\* The position is read two cycles and an SDO exchange before the zero is set.
THEOREM ZeroAlwaysAtCentre == Spec => []ZeroIsAtCentre
<1>1. Init => AtRest
  BY InitRests
<1>2. AtRest /\ [Next]_vars => AtRest'
  BY NextRests
<1>3. AtRest => ZeroIsAtCentre
  BY DEF AtRest
<1>4. QED
  BY <1>1, <1>2, <1>3, PTL DEF Spec
-----------------------------------------------------------------------------
(* What it has felt, if its torque never peaks while it stands still.      *)

LowStop == axis.pos = track.low /\ axis.speed <= 0
HighStop == axis.pos = track.high /\ axis.speed >= 0

\* A search that felt something is at a stop: the first one at the lower, since
\* it moves down all the time; the second one possibly at the lower as well,
\* and the travel is then refused.
Felt(h) ==
    /\ h.phase # "Idle" => Valid(config)
    /\ Touches(axis) => LowStop \/ HighStop
    /\ h.phase = "SearchNegative" =>
           axis.speed <= 0 /\ (h.contact > 0 \/ Touches(axis) => axis.pos = track.low)
    /\ h.phase = "SearchPositive" /\ h.contact > 0 => LowStop \/ HighStop
    /\ h.phase \in {"BackoffNegative", "SearchPositive"} \cup Measured => h.lower = track.low
    /\ h.phase \in Measured =>
           /\ h.upper = track.high /\ h.travel = track.high - track.low
           /\ 2 * (h.center - config.offset) - (track.low + track.high) \in {-1, 0}

AtStops == AtRest /\ Felt(homing)

\* Where a cycle leads that searches for the ends, or has found them.
LEMMA SearchCycles ==
    ASSUME TypeOK, NEW h, Good(h), advanceHoming(h, axis)
    PROVE  /\ homing'.phase = "SearchNegative" =>
                  /\ h.phase = "SearchNegative" /\ homing'.contact = Contact(h, axis)
                  /\ vel' = IF homing'.contact > 0 THEN 0 ELSE -config.search
           /\ homing'.phase = "BackoffNegative" =>
                  /\ vel' = config.approach
                  /\ \/ /\ h.phase = "SearchNegative" /\ ~(Contact(h, axis) <= config.dwell)
                        /\ homing'.lower = axis.pos
                        /\ homing'.backoff = Wrap(axis.pos + config.backoff)
                     \/ /\ h.phase = "BackoffNegative" /\ ~(axis.pos >= h.backoff)
                        /\ homing'.lower = h.lower /\ homing'.backoff = h.backoff
           /\ homing'.phase = "SearchPositive" =>
                  /\ homing'.lower = h.lower
                  /\ \/ /\ h.phase = "BackoffNegative" /\ homing'.contact = 0
                        /\ vel' = config.search
                     \/ /\ h.phase = "SearchPositive" /\ homing'.contact = Contact(h, axis)
                        /\ vel' = IF homing'.contact > 0 THEN 0 ELSE config.search
           /\ homing'.phase \in Measured =>
                  /\ homing'.lower = h.lower
                  /\ \/ /\ h.phase = "SearchPositive" /\ ~(Contact(h, axis) <= config.dwell)
                        /\ homing'.upper = axis.pos
                        /\ homing'.travel = Wrap(axis.pos - h.lower)
                        /\ travelAccepted(homing'.travel) /\ vel' = 0
                        /\ homing'.center = Center(h.lower, axis.pos)
                     \/ /\ h.phase \in Measured /\ homing'.upper = h.upper
                        /\ homing'.travel = h.travel /\ homing'.center = h.center
           /\ homing'.phase \notin Searching \cup {"BackoffNegative"} /\ vel' # 0 =>
                  h.phase = "MoveToCenter" /\ Becomes(MoveToCenter(h, axis))
<1>0. h \in Homing
  BY DEF Good
<1>1. CASE h.phase \in {"Storing", "Failed"} /\ Becomes(To(h, 0))
  BY <1>1 DEF Becomes, To, Measured
<1>2. CASE Becomes(failHoming(h))
  <2>1. failHoming(h).homing.phase = "Failed" /\ failHoming(h).vel = 0
    BY <1>0 DEF failHoming, To, Homing
  <2>2. QED
    BY <1>2, <2>1 DEF Becomes, Measured
<1>3. CASE h.phase = "SearchNegative" /\ Becomes(SearchNegative(h, axis))
  <2> DEFINE contact == Contact(h, axis)
             g == [h EXCEPT !.lower = axis.pos, !.backoff = Wrap(axis.pos + config.backoff),
                            !.contact = 0, !.phase = "BackoffNegative"]
             k == [h EXCEPT !.contact = contact]
  <2>1. /\ g.phase = "BackoffNegative" /\ g.lower = axis.pos
        /\ g.backoff = Wrap(axis.pos + config.backoff)
        /\ k.phase = "SearchNegative" /\ k.contact = contact
    BY <1>0, <1>3 DEF Homing
  <2>2. \/ ~(contact <= config.dwell) /\ homing' = g /\ vel' = config.approach
        \/ homing' = k /\ vel' = IF contact > 0 THEN 0 ELSE -config.search
    BY <1>3 DEF Becomes, SearchNegative, Seek, To
  <2> HIDE DEF g, k
  <2>3. QED
    BY <1>3, <2>1, <2>2 DEF Measured, Searching
<1>4. CASE h.phase = "BackoffNegative" /\ Becomes(BackoffNegative(h, axis))
  <2> DEFINE g == [h EXCEPT !.contact = 0, !.phase = "SearchPositive"]
  <2>1. g.phase = "SearchPositive" /\ g.contact = 0 /\ g.lower = h.lower
    BY <1>0 DEF Homing
  <2>2. \/ homing' = g /\ vel' = config.search
        \/ ~(axis.pos >= h.backoff) /\ homing' = h /\ vel' = config.approach
    BY <1>4 DEF Becomes, BackoffNegative, To
  <2> HIDE DEF g
  <2>3. QED
    BY <1>4, <2>1, <2>2 DEF Measured, Searching
<1>5. CASE h.phase = "SearchPositive" /\ Becomes(SearchPositive(h, axis))
  <2> DEFINE contact == Contact(h, axis)
             center == Center(h.lower, axis.pos)
             k == [h EXCEPT !.contact = contact]
             m == [h EXCEPT !.upper = axis.pos, !.travel = Wrap(axis.pos - h.lower),
                            !.contact = 0]
             g == [m EXCEPT !.center = center, !.deadline = "armed", !.phase = "MoveToCenter"]
  <2>1. /\ k.phase = "SearchPositive" /\ k.contact = contact /\ k.lower = h.lower
        /\ m.travel = Wrap(axis.pos - h.lower)
        /\ g.phase = "MoveToCenter" /\ g.lower = h.lower /\ g.upper = axis.pos
        /\ g.travel = m.travel /\ g.center = center
        /\ [m EXCEPT !.phase = "Failed", !.contact = 0].phase = "Failed"
    BY <1>0, <1>5 DEF Homing
  <2>2. \/ homing' = k /\ vel' = IF contact > 0 THEN 0 ELSE config.search
        \/ /\ ~(contact <= config.dwell) /\ travelAccepted(m.travel)
           /\ homing' = g /\ vel' = 0
        \/ homing' = [m EXCEPT !.phase = "Failed", !.contact = 0] /\ vel' = 0
    BY <1>5 DEF Becomes, SearchPositive, Seek, failHoming, To
  <2> HIDE DEF g, k, m
  <2>3. QED
    BY <1>5, <2>1, <2>2 DEF Measured, Searching
<1>6. CASE h.phase = "MoveToCenter" /\ Becomes(MoveToCenter(h, axis))
  <2> DEFINE g == [h EXCEPT !.settling = 0, !.phase = "WaitAtCenter"]
  <2>1. /\ g.phase = "WaitAtCenter" /\ g.lower = h.lower /\ g.upper = h.upper
        /\ g.travel = h.travel /\ g.center = h.center
    BY <1>0 DEF Homing
  <2>2. homing' \in {h, g}
    BY <1>6 DEF Becomes, MoveToCenter, To
  <2> HIDE DEF g
  <2>3. QED
    BY <1>6, <2>1, <2>2 DEF Measured
<1>7. CASE h.phase = "WaitAtCenter" /\ Becomes(WaitAtCenter(h, axis))
  <2>1. PICK phase \in {"MoveToCenter", "ZeroAtCenter", "WaitAtCenter"} :
            WaitAtCenter(h, axis) = To(Waited(h, phase), 0)
    BY <1>7 DEF WaitAtCenter
  <2>2. homing' = Waited(h, phase) /\ vel' = 0
    BY <1>7, <2>1 DEF Becomes, To
  <2>3. /\ homing'.phase = phase /\ homing'.center = h.center /\ homing'.lower = h.lower
        /\ homing'.upper = h.upper /\ homing'.travel = h.travel
    BY <1>0, <2>2 DEF Waited, Homing
  <2>4. QED
    BY <1>7, <2>2, <2>3 DEF Measured
<1>8. CASE h.phase = "ZeroAtCenter" /\ Becomes(ZeroAtCenter(h, axis))
  <2> DEFINE g == [h EXCEPT !.phase = "Storing"]
  <2>1. /\ g.phase = "Storing" /\ g.lower = h.lower /\ g.upper = h.upper
        /\ g.travel = h.travel /\ g.center = h.center
    BY <1>0 DEF Homing
  <2>2. homing' = g /\ vel' = 0
    BY <1>8 DEF Becomes, ZeroAtCenter, To
  <2> HIDE DEF g
  <2>3. QED
    BY <1>8, <2>1, <2>2 DEF Measured
<1>9. QED
  BY <1>1, <1>2, <1>3, <1>4, <1>5, <1>6, <1>7, <1>8 DEF advanceHoming

\* Driven on in the direction it moves in, or braked, it goes no other way, and
\* leans only on the stop that lies there.
LEMMA Pressed ==
    ASSUME TypeOK, InTrack, NEW v \in Int, AxisMoves(axis, v), UNCHANGED <<track, config>>
    PROVE  /\ axis.speed <= 0 /\ v <= 0 => axis'.speed <= 0 /\ axis'.pos <= axis.pos
           /\ LowStop /\ v <= 0 => LowStop'
           /\ HighStop /\ v >= 0 => HighStop'
           /\ ~Transients /\ Touches(axis)' =>
                  /\ LowStop' \/ HighStop'
                  /\ axis.speed <= 0 /\ v <= 0 => LowStop'
<1>1. PICK s \in Speeds(axis, v) :
          /\ s \in Int /\ track.low <= axis'.pos /\ axis'.pos <= track.high
          /\ axis'.pos = axis.pos + axis'.speed /\ axis'.speed \in Int
          /\ s <= 0 => s <= axis'.speed /\ axis'.speed <= 0
          /\ s >= 0 => 0 <= axis'.speed /\ axis'.speed <= s
          /\ ~Transients /\ axis'.loaded /\ Abs(axis'.speed) <= config.stopped =>
                 (s < 0 /\ axis'.pos = track.low) \/ (s > 0 /\ axis'.pos = track.high)
  BY Moved
<1>2. /\ axis.speed <= 0 /\ v <= 0 => s <= 0
      /\ axis.speed >= 0 /\ v >= 0 => s >= 0
  BY <1>1, TrackTyped DEF Speeds, Int32
<1>3. /\ track' = track
      /\ Touches(axis)' => axis'.loaded /\ Abs(axis'.speed) <= config.stopped
  BY DEF Touches, Abs
<1>4. /\ axis.speed <= 0 /\ v <= 0 => axis'.speed <= 0 /\ axis'.pos <= axis.pos
      /\ axis.speed >= 0 /\ v >= 0 => axis'.speed >= 0 /\ axis'.pos >= axis.pos
  BY <1>1, <1>2, TrackTyped
<1>5. /\ LowStop /\ v <= 0 => LowStop'
      /\ HighStop /\ v >= 0 => HighStop'
  BY <1>1, <1>3, <1>4, TrackTyped DEF LowStop, HighStop
<1>6. ASSUME ~Transients, Touches(axis)'
      PROVE  /\ LowStop' \/ HighStop'
             /\ axis.speed <= 0 /\ v <= 0 => LowStop'
  BY <1>1, <1>2, <1>3, <1>6 DEF LowStop, HighStop
<1>7. QED
  BY <1>4, <1>5, <1>6

\* What int32 makes of a distance that does not fit is negative.
LEMMA WrapOfTooFar ==
    ASSUME NEW d \in Int, MaxInt < d, d <= 2 * MaxInt + 1
    PROVE  Wrap(d) < 0
<1> DEFINE s == 2 * MaxInt + 2
           y == d + MaxInt + 1
<1>1. MaxInt \in Nat /\ s \in Nat /\ y \in Int /\ s <= y /\ y < 2 * s
  BY HomingGeometryAssumption
<1>2. Wrap(d) = (y % s) - (MaxInt + 1)
  BY DEF Wrap
<1>3. y = d + MaxInt + 1 /\ s = 2 * MaxInt + 2
  OBVIOUS
<1> HIDE DEF s, y
<1>4. y % s = y - s
  BY <1>1
<1>5. QED
  BY <1>1, <1>2, <1>3, <1>4

\* A travel that is accepted is the distance of the stops, which then fits.
LEMMA TravelFits ==
    ASSUME TypeOK, InTrack, Valid(config), travelAccepted(Wrap(track.high - track.low))
    PROVE  /\ track.low \in Int32 /\ track.high \in Int32
           /\ track.high - track.low \in Int32
<1>1. track.low \in Int32 /\ track.high \in Int32 /\ MaxInt \in Nat
  BY HomingGeometryAssumption DEF TypeOK
<1> DEFINE d == track.high - track.low
<1>2. d \in Int /\ 0 <= d /\ d <= 2 * MaxInt + 1
  BY <1>1, TrackTyped DEF InTrack, Int32
<1>3. Wrap(d) \in Int /\ Wrap(d) > 0
  <2>1. Wrap(d) \in Int
    BY <1>2, WrapIsInt
  <2>2. config.minTravel > 0 /\ config.minTravel <= Wrap(d) /\ config.minTravel \in Int
    BY TrackTyped DEF Valid, travelAccepted
  <2>3. QED
    BY <2>1, <2>2
<1> HIDE DEF d
<1>4. d <= MaxInt
  BY <1>1, <1>2, <1>3, WrapOfTooFar
<1>5. d \in Int32
  BY <1>1, <1>2, <1>4 DEF Int32
<1>6. QED
  BY <1>1, <1>5 DEF d

LEMMA ContactMeans ==
    ASSUME TypeOK, NEW h \in Homing
    PROVE  /\ Contact(h, axis) \in Nat
           /\ Contact(h, axis) > 0 <=> h.contact > 0 \/ Touches(axis)
           /\ ~(Contact(h, axis) <= config.dwell) => Contact(h, axis) > 0
<1>1. h.contact \in Nat /\ config.dwell \in Nat
  BY Configured DEF Homing, Config
<1>2. QED
  BY <1>1 DEF Contact

LEMMA SyncFelt ==
    ASSUME ~Transients, AtStops, OnSync
    PROVE  Felt(homing)'
<1> DEFINE h == Ticked(homing)
<1>1. /\ TypeOK /\ InTrack /\ Good(h) /\ h.phase = homing.phase /\ h.center = homing.center
      /\ h.lower = homing.lower /\ h.upper = homing.upper /\ h.contact = homing.contact
      /\ h.travel = homing.travel
      /\ advanceHoming(h, axis) /\ vel' \in Int /\ AxisMoves(axis, vel')
      /\ UNCHANGED <<track, config>> /\ h \in Homing /\ homing.phase # "Idle"
  BY SyncIsAdvance DEF AtStops, AtRest, Good, OnSync
<1>2. Valid(config) /\ Valid(config)'
  BY <1>1 DEF AtStops, Felt, Valid
<1> HIDE DEF h
<1>3. Felt(h)
  BY <1>1 DEF AtStops, Felt
<1>4. Touches(axis)' => LowStop' \/ HighStop'
  BY <1>1, Pressed
<1>5. ASSUME homing'.phase = "SearchNegative"
      PROVE  axis'.speed <= 0 /\ (homing'.contact > 0 \/ Touches(axis)' => LowStop')
  <2>1. /\ h.phase = "SearchNegative" /\ homing'.contact = Contact(h, axis)
        /\ vel' = IF homing'.contact > 0 THEN 0 ELSE -config.search
    BY <1>1, <1>5, SearchCycles
  <2>2. vel' <= 0 /\ axis.speed <= 0
    BY <1>1, <1>3, <2>1, TrackTyped DEF Felt
  <2>3. homing'.contact > 0 => LowStop
    BY <1>1, <1>3, <2>1, <2>2, ContactMeans DEF Felt, LowStop
  <2>4. QED
    BY <1>1, <2>2, <2>3, Pressed DEF LowStop
<1>6. ASSUME homing'.phase = "SearchPositive", homing'.contact > 0
      PROVE  LowStop' \/ HighStop'
  <2>1. /\ h.phase = "SearchPositive" /\ homing'.contact = Contact(h, axis)
        /\ vel' = 0
    BY <1>1, <1>6, SearchCycles
  <2>2. LowStop \/ HighStop
    BY <1>1, <1>3, <1>6, <2>1, ContactMeans DEF Felt
  <2>3. QED
    BY <1>1, <2>1, <2>2, Pressed
<1>7. ASSUME homing'.phase \in {"BackoffNegative", "SearchPositive"} \cup Measured
      PROVE  homing'.lower = track.low
  <2>1. CASE homing'.phase = "BackoffNegative" /\ h.phase = "SearchNegative"
    <3>1. homing'.lower = axis.pos /\ ~(Contact(h, axis) <= config.dwell)
      BY <1>1, <2>1, SearchCycles
    <3>2. QED
      BY <1>1, <1>3, <2>1, <3>1, ContactMeans DEF Felt
  <2>2. CASE ~(homing'.phase = "BackoffNegative" /\ h.phase = "SearchNegative")
    <3>1. /\ homing'.lower = h.lower
          /\ h.phase \in {"BackoffNegative", "SearchPositive"} \cup Measured
      BY <1>1, <1>7, <2>2, SearchCycles
    <3>2. QED
      BY <1>3, <3>1 DEF Felt
  <2>3. QED
    BY <2>1, <2>2
<1>8. ASSUME homing'.phase \in Measured
      PROVE  /\ homing'.upper = track.high /\ homing'.travel = track.high - track.low
             /\ 2 * (homing'.center - config.offset) - (track.low + track.high) \in {-1, 0}
  <2>1. CASE h.phase \in Measured
    <3>1. /\ homing'.upper = h.upper /\ homing'.travel = h.travel
          /\ homing'.center = h.center
      BY <1>1, <1>8, <2>1, SearchCycles DEF Measured
    <3>2. QED
      BY <1>3, <2>1, <3>1 DEF Felt
  <2>2. CASE h.phase \notin Measured
    <3>1. /\ h.phase = "SearchPositive" /\ ~(Contact(h, axis) <= config.dwell)
          /\ homing'.upper = axis.pos /\ homing'.travel = Wrap(axis.pos - h.lower)
          /\ travelAccepted(homing'.travel) /\ homing'.center = Center(h.lower, axis.pos)
      BY <1>1, <1>8, <2>2, SearchCycles
    <3>2. h.lower = track.low /\ (LowStop \/ HighStop)
      BY <1>1, <1>3, <3>1, ContactMeans DEF Felt
    <3>3. axis.pos # track.low
      <4> SUFFICES ASSUME axis.pos = track.low PROVE FALSE
        OBVIOUS
      <4>1. axis.pos - h.lower = 0
        BY <3>2, TrackTyped, <1>1
      <4>2. 0 \in Int32
        BY <1>1, TrackTyped DEF Int32
      <4>3. homing'.travel = 0
        BY <3>1, <4>1, <4>2, WrapIsIdentity
      <4>4. QED
        BY <1>1, <1>2, <3>1, <4>3, TrackTyped DEF travelAccepted, Valid
    <3>4. axis.pos = track.high
      BY <3>2, <3>3 DEF LowStop, HighStop
    <3>5. /\ track.low \in Int32 /\ track.high \in Int32
          /\ track.high - track.low \in Int32
      BY <1>1, <1>2, <3>1, <3>2, <3>4, TravelFits
    <3>6. QED
      BY <1>1, <3>1, <3>2, <3>4, <3>5, CentreOfEnds
  <2>3. QED
    BY <2>1, <2>2
<1>9. QED
  BY <1>1, <1>2, <1>4, <1>5, <1>6, <1>7, <1>8 DEF Felt, LowStop

LEMMA NextFelt == ASSUME ~Transients, AtStops, [Next]_vars PROVE AtStops'
<1>1. AtRest' /\ IInv /\ InTrack
  BY NextRests DEF AtStops, AtRest
<1>2. CASE requestHoming
  <2>1. /\ homing'.phase = "SearchNegative" /\ homing'.contact = 0 /\ Valid(config)
        /\ ~axis.loaded /\ axis.speed = 0 /\ UNCHANGED <<track, config, axis>>
    BY <1>2 DEF requestHoming, Fresh
  <2>2. Felt(homing)'
    BY <2>1 DEF Felt, Valid, Touches, Measured
  <2>3. QED
    BY <1>1, <2>2 DEF AtStops
<1>3. CASE OnSync
  BY <1>1, <1>3, SyncFelt DEF AtStops
<1>4. ASSUME UNCHANGED <<track, config, axis>>, homing'.phase # "Idle" => homing.phase # "Idle",
             \/ UNCHANGED homing
             \/ /\ homing'.phase = homing.phase \/ homing'.phase \in {"Done", "Failed"}
                /\ homing'.phase = "Done" => homing.phase = "Storing"
                /\ homing'.contact = homing.contact /\ homing'.lower = homing.lower
                /\ homing'.upper = homing.upper /\ homing'.travel = homing.travel
                /\ homing'.center = homing.center
      PROVE  AtStops'
  <2>1. Felt(homing)'
    BY <1>4 DEF AtStops, Felt, Valid, Touches, Abs, LowStop, HighStop, Measured
  <2>2. QED
    BY <1>1, <2>1 DEF AtStops
<1>5. CASE ZeroSet
  <2>1. PICK phase \in {"Done", "Failed"} : homing' = [homing EXCEPT !.phase = phase]
    BY <1>5 DEF ZeroSet
  <2>2. /\ homing'.phase = phase /\ homing'.contact = homing.contact
        /\ homing'.lower = homing.lower /\ homing'.upper = homing.upper
        /\ homing'.travel = homing.travel /\ homing'.center = homing.center
        /\ homing.phase = "Storing" /\ UNCHANGED <<track, config, axis>>
    BY <1>1, <1>5, <2>1 DEF ZeroSet, IInv, TypeOK, Homing
  <2>3. QED
    BY <1>4, <2>2
<1>6. CASE DeadlinePasses
  <2>1. /\ homing'.phase = homing.phase /\ homing'.contact = homing.contact
        /\ homing'.lower = homing.lower /\ homing'.upper = homing.upper
        /\ homing'.travel = homing.travel /\ homing'.center = homing.center
        /\ homing.phase # "Done" /\ UNCHANGED <<track, config, axis>>
    BY <1>1, <1>6 DEF DeadlinePasses, IInv, TypeOK, Homing, Motion, Searching
  <2>2. QED
    BY <1>4, <2>1
<1>7. CASE UNCHANGED vars
  BY <1>4, <1>7 DEF vars
<1>8. QED
  BY <1>2, <1>3, <1>5, <1>6, <1>7 DEF Next

LEMMA InitFelt == ASSUME Init PROVE AtStops
<1>1. homing.phase = "Idle" /\ homing.contact = 0 /\ ~axis.loaded
  BY DEF Init, Fresh
<1>2. QED
  BY <1>1, InitRests DEF AtStops, Felt, Touches, Measured

\* For every track, start and configuration, within or beyond the width of an
\* int32: the ends that were measured are the hard stops, if no torque peaks
\* while the axis stands still.  A peak that lasts through the dwell would be
\* taken for a stop.
THEOREM EndsAlwaysStops == ASSUME ~Transients PROVE Spec => []EndsAreStops
<1>1. Init => AtStops
  BY InitFelt
<1>2. AtStops /\ [Next]_vars => AtStops'
  BY NextFelt
<1>3. AtStops => EndsAreStops
  BY DEF AtStops, Felt, EndsAreStops, Measured
<1>4. QED
  BY <1>1, <1>2, <1>3, PTL DEF Spec

\* The same axis needs no limit on the travel for its centre to be midway: a
\* distance that does not fit is not accepted as a travel.
THEOREM CentreOfStopsMidway == ASSUME ~Transients PROVE Spec => []CentreIsMidway
<1>1. Init => AtStops
  BY InitFelt
<1>2. AtStops /\ [Next]_vars => AtStops'
  BY NextFelt
<1>3. AtStops => CentreIsMidway
  BY DEF AtStops, AtRest, IInv, Good, Midway, Felt, CentreIsMidway, Measured
<1>4. QED
  BY <1>1, <1>2, <1>3, PTL DEF Spec
-----------------------------------------------------------------------------
(* That it leaves the stop it has felt.                                    *)

\* Room on the axis for the way back from the lower stop, with the step it may
\* overshoot by, and for the centre with its offset.
Roomy ==
    \A t \in Tracks, c \in Configs :
        Valid(c) => /\ t.low + c.backoff + c.approach <= t.high
                    /\ 2 * Abs(c.offset) < t.high - t.low

\* On that way the axis does not come to the upper stop.
Leaving(h) ==
    h.phase = "BackoffNegative" =>
        /\ h.backoff = track.low + config.backoff
        /\ axis.speed <= config.approach
        /\ Touches(axis) => axis.pos = track.low
Releasing == AtStops /\ Leaving(homing)

LEMMA Room ==
    ASSUME Roomy, TypeOK, Valid(config)
    PROVE  /\ track.low + config.backoff + config.approach <= track.high
           /\ 2 * config.offset < track.high - track.low
           /\ -(2 * config.offset) < track.high - track.low
           /\ config.backoff > 0 /\ config.approach > 0 /\ config.search > 0
           /\ Wrap(track.low + config.backoff) = track.low + config.backoff
<1>1. /\ track.low + config.backoff + config.approach <= track.high
      /\ 2 * Abs(config.offset) < track.high - track.low
  BY DEF Roomy, TypeOK
<1>2. config.backoff > 0 /\ config.approach # 0 /\ config.search # 0
  BY DEF Valid
<1>3. track.low \in Int32 /\ track.high \in Int32 /\ config.backoff \in Int /\ MaxInt \in Nat
  BY TrackTyped, HomingGeometryAssumption DEF TypeOK
<1>4. /\ 2 * config.offset < track.high - track.low
      /\ -(2 * config.offset) < track.high - track.low
  BY <1>1, TrackTyped DEF Abs
<1>5. track.low + config.backoff \in Int32
  BY <1>1, <1>2, <1>3, TrackTyped DEF Int32
<1>6. QED
  BY <1>1, <1>2, <1>4, <1>5, TrackTyped, WrapIsIdentity

\* Driven up, it moves by no more than the velocity it is driven at.
LEMMA Driven ==
    ASSUME TypeOK, InTrack, NEW v \in Int, v > 0, axis.speed <= v, AxisMoves(axis, v)
    PROVE  axis'.speed <= v /\ axis'.pos <= axis.pos + v
<1>1. PICK s \in Speeds(axis, v) :
          /\ s \in Int /\ axis'.pos = axis.pos + axis'.speed /\ axis'.speed \in Int
          /\ s <= 0 => axis'.speed <= 0
          /\ s >= 0 => axis'.speed <= s
  BY Moved
<1>2. s <= v
  BY <1>1, TrackTyped DEF Speeds, Int32
<1>3. QED
  BY <1>1, <1>2, TrackTyped

LEMMA SyncLeaves ==
    ASSUME ~Transients, Roomy, Releasing, OnSync
    PROVE  Leaving(homing)'
<1> DEFINE h == Ticked(homing)
<1>1. /\ TypeOK /\ InTrack /\ Good(h) /\ h.phase = homing.phase /\ h.backoff = homing.backoff
      /\ h.contact = homing.contact /\ advanceHoming(h, axis) /\ vel' \in Int
      /\ AxisMoves(axis, vel') /\ UNCHANGED <<track, config>> /\ h \in Homing
      /\ Valid(config)
  BY SyncIsAdvance DEF Releasing, AtStops, AtRest, Good, OnSync, Felt
<1> HIDE DEF h
<1>2. SUFFICES ASSUME homing'.phase = "BackoffNegative"
               PROVE  /\ homing'.backoff = track.low + config.backoff
                      /\ axis'.speed <= config.approach
                      /\ Touches(axis)' => axis'.pos = track.low
  BY <1>1 DEF Leaving
<1>3. /\ vel' = config.approach
      /\ \/ /\ h.phase = "SearchNegative" /\ ~(Contact(h, axis) <= config.dwell)
            /\ homing'.backoff = Wrap(axis.pos + config.backoff)
         \/ /\ h.phase = "BackoffNegative" /\ ~(axis.pos >= h.backoff)
            /\ homing'.backoff = h.backoff
  BY <1>1, <1>2, SearchCycles
<1>4. /\ homing'.backoff = track.low + config.backoff
      /\ axis.speed <= config.approach
      /\ axis.pos < track.low + config.backoff
  <2>1. CASE h.phase = "SearchNegative"
    <3>1. axis.pos = track.low /\ axis.speed <= 0
      BY <1>1, <1>3, <2>1, ContactMeans DEF Releasing, AtStops, Felt
    <3>2. QED
      BY <1>1, <1>3, <2>1, <3>1, Room, TrackTyped
  <2>2. CASE h.phase = "BackoffNegative"
    BY <1>1, <1>3, <2>2, TrackTyped DEF Releasing, Leaving
  <2>3. QED
    BY <1>3, <2>1, <2>2
<1>5. axis'.speed <= config.approach /\ axis'.pos <= axis.pos + config.approach
  BY <1>1, <1>3, <1>4, Room, TrackTyped, Driven
<1>6. axis'.pos \in Int
  BY <1>1, Moved, TrackTyped
<1>7. axis'.pos < track.high
  BY <1>1, <1>4, <1>5, <1>6, Room, TrackTyped
<1>8. Touches(axis)' => axis'.pos = track.low
  <2>1. Touches(axis)' => LowStop' \/ HighStop'
    BY <1>1, Pressed
  <2>2. QED
    BY <1>1, <1>6, <1>7, <2>1, TrackTyped DEF LowStop, HighStop
<1>9. QED
  BY <1>4, <1>5, <1>8

LEMMA SyncReleases ==
    ASSUME ~Transients, Roomy, Releasing, OnSync, Touches(axis)
    PROVE  ~(axis.pos = track.low /\ vel' < 0) /\ ~(axis.pos = track.high /\ vel' > 0)
<1> DEFINE h == Ticked(homing)
<1>1. /\ TypeOK /\ Good(h) /\ h.phase = homing.phase /\ h.center = homing.center
      /\ h.contact = homing.contact /\ advanceHoming(h, axis) /\ vel' \in Int
      /\ h \in Homing /\ h.center \in Int /\ Valid(config)
  BY SyncIsAdvance DEF Releasing, AtStops, AtRest, Good, OnSync, Felt, Homing
<1> HIDE DEF h
<1>2. track.low < track.high /\ config.approach > 0 /\ config.search > 0
  BY <1>1, Room, TrackTyped
<1>3. CASE homing'.phase \in Searching /\ h.phase = homing'.phase
  BY <1>1, <1>3, SearchCycles, ContactMeans DEF Searching
<1>4. CASE h.phase \in {"SearchNegative", "BackoffNegative"}
           /\ homing'.phase \in {"SearchPositive", "BackoffNegative"}
  <2>1. vel' > 0
    BY <1>1, <1>2, <1>4, SearchCycles
  <2>2. axis.pos = track.low
    BY <1>1, <1>4 DEF Releasing, Leaving, AtStops, Felt
  <2>3. QED
    BY <1>1, <1>2, <2>1, <2>2, TrackTyped
<1>5. CASE vel' = 0
  BY <1>5
<1>6. CASE h.phase = "MoveToCenter" /\ Becomes(MoveToCenter(h, axis))
  <2>1. 2 * (h.center - config.offset) - (track.low + track.high) \in {-1, 0}
    BY <1>1, <1>6 DEF Releasing, AtStops, Felt, Measured
  <2>2. track.low <= h.center /\ h.center <= track.high
    BY <1>1, <2>1, Room, TrackTyped
  <2>3. /\ vel' > 0 => h.center - axis.pos > 0
        /\ vel' < 0 => ~(h.center - axis.pos > 0) /\ Abs(h.center - axis.pos) > config.tolerance
    <3> DEFINE delta == h.center - axis.pos
               speed == IF Abs(delta) > config.slowdown THEN config.fast ELSE config.final
    <3>1. vel' = IF Abs(delta) <= config.tolerance THEN 0 ELSE IF delta > 0 THEN speed ELSE -speed
      BY <1>6 DEF Becomes, MoveToCenter, To
    <3>2. /\ delta \in Int /\ Abs(delta) \in Int /\ speed \in Nat
          /\ config.tolerance \in Int
      BY <1>1, TrackTyped DEF Abs
    <3> HIDE DEF delta, speed
    <3>3. /\ vel' > 0 => delta > 0
          /\ vel' < 0 => ~(delta > 0) /\ Abs(delta) > config.tolerance
      BY <3>1, <3>2
    <3>4. QED
      BY <3>3 DEF delta
  <2>4. config.tolerance > 0
    BY <1>1 DEF Valid
  <2>5. QED
    BY <1>1, <2>2, <2>3, <2>4, TrackTyped DEF Abs
<1>7. homing'.phase \in Searching \cup {"BackoffNegative"} =>
          \/ homing'.phase \in Searching /\ h.phase = homing'.phase
          \/ /\ h.phase \in {"SearchNegative", "BackoffNegative"}
             /\ homing'.phase \in {"SearchPositive", "BackoffNegative"}
  BY <1>1, SearchCycles DEF Searching
<1>8. homing'.phase \notin Searching \cup {"BackoffNegative"} /\ vel' # 0 =>
          h.phase = "MoveToCenter" /\ Becomes(MoveToCenter(h, axis))
  BY <1>1, SearchCycles
<1>9. QED
  BY <1>3, <1>4, <1>5, <1>6, <1>7, <1>8

LEMMA NextLeaves ==
    ASSUME ~Transients, Roomy, Releasing, [Next]_vars
    PROVE  Releasing'
<1>1. AtStops' /\ homing \in Homing
  BY NextFelt DEF Releasing, AtStops, AtRest, IInv, Good
<1>2. CASE OnSync
  BY <1>1, <1>2, SyncLeaves DEF Releasing
<1>3. CASE requestHoming \/ ZeroSet
  <2>1. homing'.phase # "BackoffNegative"
    BY <1>1, <1>3 DEF requestHoming, ZeroSet, Fresh, Homing
  <2>2. QED
    BY <1>1, <2>1 DEF Releasing, Leaving
<1>4. CASE DeadlinePasses \/ UNCHANGED vars
  <2>1. /\ homing'.phase = homing.phase /\ homing'.backoff = homing.backoff
        /\ UNCHANGED <<track, config, axis>>
    BY <1>1, <1>4 DEF DeadlinePasses, vars, Homing
  <2>2. QED
    BY <1>1, <2>1 DEF Releasing, Leaving, Touches, Abs
<1>5. QED
  BY <1>2, <1>3, <1>4 DEF Next

\* On an axis with that room, and no torque that peaks while it stands still:
\* in the cycle that finds the axis at a stop, and in every later one, it is not
\* commanded against that stop, in whichever phase of the homing.
THEOREM StopAlwaysReleased == ASSUME ~Transients, Roomy PROVE Spec => ReleasesStop
<1>1. Init => Releasing
  <2>1. Init => homing.phase = "Idle"
    BY DEF Init, Fresh
  <2>2. QED
    BY <2>1, InitFelt DEF Releasing, Leaving
<1>2. Releasing /\ [Next]_vars => Releasing'
  BY NextLeaves
<1>3. Releasing /\ [Next]_vars =>
          [OnSync /\ Touches(axis)
           => ~(axis.pos = track.low /\ vel' < 0) /\ ~(axis.pos = track.high /\ vel' > 0)]_vars
  BY SyncReleases
<1>4. QED
  BY <1>1, <1>2, <1>3, PTL DEF Spec, ReleasesStop
==============================================================================
