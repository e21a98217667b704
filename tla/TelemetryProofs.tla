--------------------------- MODULE TelemetryProofs ---------------------------
(***************************************************************************)
(* Proofs about Telemetry, for any number of readers and emergencies: it   *)
(* is well typed, and a call the loop thread did not write into reads the  *)
(* state of a drive that was heard and is not lost.  The last section is   *)
(* about CyclicStats, whose numbers agree whatever the cadence.            *)
(***************************************************************************)
EXTENDS Telemetry, CyclicStats, TLAPS

\* A live drive was heard by the last SYNC, which decoded what it then saw.
LiveMeansHeard ==
    live => /\ motor.seen /\ ~motor.lost /\ sampled.heard
            /\ motor.feedback.state = sampled.state

\* Between two events of the loop thread the snapshot is up to date.
SnapshotUpToDate == motor.pc = "idle" => snapshot.state = motor.feedback.state

\* A call into which nothing was written still sees what it saw.
CleanCallAgrees ==
    \A r \in Readers :
        caller[r].pc = "snapshot" /\ caller[r].clean
        => caller[r].live = live /\ snapshot.state = motor.feedback.state

\* The type of caller.
Calls == [Readers -> [pc : {"idle", "snapshot"}, live : BOOLEAN,
                      clean : BOOLEAN, sound : BOOLEAN]]

IInv ==
    /\ TypeOK /\ LiveMeansHeard /\ SnapshotUpToDate /\ CleanCallAgrees
    /\ EnabledIsHonest

\* The actions that leave the readers' view and the loop thread alone.
LEMMA DriveAlone ==
    ASSUME IInv, DriveMoves \/ DriveChanges \/ TimesOut
    PROVE  IInv'
<1>1. CASE DriveMoves
  <2>1. PICK s \in Reported : drive' = [drive EXCEPT !.state = s,
            !.emcy = IF "Fault" \in {s, drive.state}
                     THEN Append(@, s = "Fault") ELSE @]
    BY <1>1 DEF DriveMoves
  <2>2. drive.emcy \in Seq(BOOLEAN) /\ (s = "Fault") \in BOOLEAN
    BY DEF IInv, TypeOK
  <2>3. Append(drive.emcy, s = "Fault") \in Seq(BOOLEAN)
    BY <2>2
  <2>4. drive' \in [state : Reported, talks : BOOLEAN, beats : BOOLEAN, emcy : Seq(BOOLEAN)]
    BY <2>1, <2>2, <2>3 DEF IInv, TypeOK
  <2>5. TypeOK'
    BY <1>1, <2>4 DEF IInv, TypeOK, DriveMoves
  <2>6. QED
    BY <1>1, <2>5 DEF IInv, DriveMoves, LiveMeansHeard, SnapshotUpToDate,
       CleanCallAgrees, EnabledIsHonest
<1>2. CASE DriveChanges
  <2>1. TypeOK'
    BY <1>2 DEF IInv, TypeOK, DriveChanges
  <2>2. QED
    BY <1>2, <2>1 DEF IInv, DriveChanges, LiveMeansHeard, SnapshotUpToDate,
       CleanCallAgrees, EnabledIsHonest
<1>3. CASE TimesOut
  BY <1>3 DEF IInv, TypeOK, TimesOut, LiveMeansHeard, SnapshotUpToDate,
     CleanCallAgrees, EnabledIsHonest
<1>4. QED
  BY <1>1, <1>2, <1>3

LEMMA InitInv == ASSUME Init PROVE IInv
<1>1. <<>> \in Seq(BOOLEAN)
  OBVIOUS
<1>2. drive \in [state : Reported, talks : BOOLEAN, beats : BOOLEAN, emcy : Seq(BOOLEAN)]
  BY <1>1 DEF Init, Reported
<1>3. motor \in Motor /\ snapshot \in Feedback
  BY DEF Init, Motor, Feedback, NoFeedback, State
<1>4. caller = [r \in Readers |-> Resting(TRUE)]
  BY DEF Init
<1>5. caller \in Calls /\ EnabledIsHonest
  BY <1>4 DEF Resting, Calls, EnabledIsHonest
<1>6. TypeOK
  BY <1>2, <1>3, <1>5 DEF Init, TypeOK, State, Calls
<1>7. LiveMeansHeard /\ SnapshotUpToDate
  BY DEF Init, LiveMeansHeard, SnapshotUpToDate
<1>8. CleanCallAgrees
  BY <1>4 DEF Resting, CleanCallAgrees
<1>9. QED
  BY <1>5, <1>6, <1>7, <1>8 DEF IInv

\* Where a step marks the calls, none is clean.
LEMMA Disturbed ==
    ASSUME TypeOK, Disturb, EnabledIsHonest
    PROVE  caller' \in Calls /\ CleanCallAgrees' /\ EnabledIsHonest'
<1>1. caller \in Calls
  BY DEF TypeOK, Calls
<1>2. /\ caller' \in Calls
      /\ \A r \in Readers : ~caller'[r].clean /\ caller'[r].sound = caller[r].sound
  BY <1>1 DEF Disturb, Calls
<1>3. QED
  BY <1>2 DEF CleanCallAgrees, EnabledIsHonest

LEMMA SyncInv == ASSUME IInv, OnSync PROVE IInv'
<1>1. motor' \in Motor
  BY DEF IInv, TypeOK, OnSync, Motor, Feedback, Decoded, InFault
<1>2. motor'.pc = "publish" /\ motor'.seen = motor.seen /\ motor'.lost = motor.lost
  BY DEF IInv, TypeOK, OnSync, Motor
<1>3. motor.seen => motor'.feedback.state = image
  BY DEF IInv, TypeOK, OnSync, Motor, Feedback, Decoded
<1>4. live' = (motor.seen /\ heard /\ ~motor.lost)
  BY DEF OnSync, LiveNow, feedbackStale
<1>5. sampled' = [state |-> image, heard |-> heard]
  BY DEF OnSync
<1>6. TypeOK'
  BY <1>1, <1>4, <1>5, Disturbed DEF IInv, TypeOK, Calls, OnSync
<1>7. LiveMeansHeard'
  BY <1>2, <1>3, <1>4, <1>5 DEF LiveMeansHeard
<1>8. SnapshotUpToDate'
  BY <1>2 DEF SnapshotUpToDate
<1>9. QED
  BY <1>6, <1>7, <1>8, Disturbed DEF IInv, OnSync

LEMMA PublishInv == ASSUME IInv, publishFeedback PROVE IInv'
<1>1. /\ motor' \in Motor
      /\ motor'.seen = motor.seen /\ motor'.lost = motor.lost
      /\ motor'.feedback = motor.feedback
  BY DEF IInv, TypeOK, publishFeedback, Motor
<1>2. snapshot' = motor.feedback /\ snapshot' \in Feedback
  BY DEF IInv, TypeOK, publishFeedback, Motor
<1>3. TypeOK'
  BY <1>1, <1>2, Disturbed DEF IInv, TypeOK, Calls, publishFeedback
<1>4. LiveMeansHeard' /\ SnapshotUpToDate'
  BY <1>1, <1>2 DEF IInv, publishFeedback, LiveMeansHeard, SnapshotUpToDate
<1>5. QED
  BY <1>3, <1>4, Disturbed DEF IInv, publishFeedback

\* The steps that neither store the flag nor the snapshot, and keep the state.
LEMMA QuietInv ==
    ASSUME IInv, UNCHANGED <<heard, live, snapshot, sampled, caller>>,
           motor.pc = "idle",
           motor' \in Motor, motor.seen => motor'.seen, motor'.lost = motor.lost,
           motor'.feedback.state = motor.feedback.state,
           drive' \in [state : Reported, talks : BOOLEAN, beats : BOOLEAN,
                       emcy : Seq(BOOLEAN)],
           image' \in State
    PROVE  IInv'
BY DEF IInv, TypeOK, LiveMeansHeard, SnapshotUpToDate, CleanCallAgrees, EnabledIsHonest

LEMMA RpdoInv == ASSUME IInv, OnRpdoWrite PROVE IInv'
<1>1. motor' \in Motor /\ motor'.seen /\ motor'.pc = motor.pc
      /\ motor'.lost = motor.lost /\ motor'.feedback = motor.feedback
  BY DEF IInv, TypeOK, OnRpdoWrite, Motor
<1>2. QED
  BY <1>1 DEF IInv, TypeOK, OnRpdoWrite, State, LiveMeansHeard, SnapshotUpToDate,
     CleanCallAgrees, EnabledIsHonest

\* A queue that is not empty has a next element.
LEMMA NextFrame ==
    ASSUME NEW S, NEW q \in Seq(S), q # <<>>
    PROVE  Head(q) \in S /\ Tail(q) \in Seq(S)
OBVIOUS

LEMMA EmcyInv == ASSUME IInv, OnEmcy PROVE IInv'
<1>1. drive.emcy \in Seq(BOOLEAN) /\ drive.emcy # <<>>
  BY DEF IInv, TypeOK, OnEmcy
<1>2. Head(drive.emcy) \in BOOLEAN /\ Tail(drive.emcy) \in Seq(BOOLEAN)
  BY <1>1, NextFrame
<1>3. drive' \in [state : Reported, talks : BOOLEAN, beats : BOOLEAN, emcy : Seq(BOOLEAN)]
  BY <1>2 DEF IInv, TypeOK, OnEmcy
<1>4. /\ motor' \in Motor /\ motor'.seen = motor.seen /\ motor'.lost = motor.lost
      /\ motor'.feedback.state = motor.feedback.state
  BY <1>2 DEF IInv, TypeOK, OnEmcy, Motor, Feedback
<1>5. QED
  BY <1>3, <1>4, QuietInv DEF IInv, TypeOK, OnEmcy

LEMMA ResetInv == ASSUME IInv, requestFaultReset PROVE IInv'
<1>1. /\ motor' \in Motor /\ motor'.seen = motor.seen /\ motor'.lost = motor.lost
      /\ motor'.feedback.state = motor.feedback.state
  BY DEF IInv, TypeOK, requestFaultReset, Motor, Feedback
<1>2. QED
  BY <1>1, QuietInv DEF IInv, TypeOK, requestFaultReset

LEMMA InspectInv == ASSUME IInv, inspectNode PROVE IInv'
<1>1. /\ motor' \in Motor /\ motor'.seen = motor.seen /\ motor'.lost = motor.lost
      /\ motor'.feedback.state = motor.feedback.state
  BY DEF IInv, TypeOK, inspectNode, Motor, Feedback
<1>2. QED
  BY <1>1, QuietInv DEF IInv, TypeOK, inspectNode

LEMMA HeartbeatInv == ASSUME IInv, OnHeartbeat PROVE IInv'
<1>1. /\ motor' \in Motor /\ motor'.pc = "publish" /\ motor'.seen = motor.seen
      /\ motor'.lost = ~motor.lost /\ motor'.feedback = motor.feedback
  BY DEF IInv, TypeOK, OnHeartbeat, handleNodeLoss, Motor
<1>2. ~live'
  BY DEF IInv, LiveMeansHeard, OnHeartbeat, handleNodeLoss
<1>3. TypeOK'
  BY <1>1, <1>2, Disturbed DEF IInv, TypeOK, Calls, OnHeartbeat, handleNodeLoss
<1>4. LiveMeansHeard' /\ SnapshotUpToDate'
  BY <1>1, <1>2 DEF LiveMeansHeard, SnapshotUpToDate
<1>5. QED
  BY <1>3, <1>4, Disturbed DEF IInv, OnHeartbeat

LEMMA CallInv ==
    ASSUME IInv, NEW r \in Readers, feedbackLive(r)
    PROVE  IInv'
<1>1. /\ caller' \in Calls
      /\ caller'[r].live = live /\ caller'[r].sound
      /\ caller'[r].clean => motor.pc = "idle"
  BY DEF IInv, TypeOK, feedbackLive, EnabledIsHonest, Calls
<1>2. \A q \in Readers : q # r => caller'[q] = caller[q]
  BY DEF IInv, TypeOK, feedbackLive, Calls
<1>3. TypeOK'
  BY <1>1 DEF IInv, TypeOK, feedbackLive, Calls
<1>4. LiveMeansHeard' /\ SnapshotUpToDate'
  BY DEF IInv, feedbackLive, LiveMeansHeard, SnapshotUpToDate
<1>5. CleanCallAgrees'
  BY <1>1, <1>2 DEF IInv, feedbackLive, SnapshotUpToDate, CleanCallAgrees
<1>6. EnabledIsHonest'
  BY <1>1, <1>2 DEF IInv, EnabledIsHonest
<1>7. QED
  BY <1>3, <1>4, <1>5, <1>6 DEF IInv

LEMMA AnswerInv ==
    ASSUME IInv, NEW r \in Readers, feedbackSnapshot(r)
    PROVE  IInv'
<1> DEFINE sound ==
        caller[r].clean /\ caller[r].live
        => sampled = [state |-> snapshot.state, heard |-> TRUE] /\ ~motor.lost
<1>1. caller' = [caller EXCEPT ![r] = Resting(sound)]
  BY DEF feedbackSnapshot
<1>2. sound
  BY DEF IInv, TypeOK, feedbackSnapshot, CleanCallAgrees, LiveMeansHeard
<1>3. caller' = [caller EXCEPT ![r] = Resting(TRUE)]
  BY <1>1, <1>2 DEF Resting
<1>4. /\ caller' \in Calls
      /\ caller'[r].pc = "idle" /\ caller'[r].sound
  BY <1>3 DEF IInv, TypeOK, Resting, Calls
<1>5. \A q \in Readers : q # r => caller'[q] = caller[q]
  BY <1>3 DEF IInv, TypeOK, Calls
<1>6. TypeOK'
  BY <1>4 DEF IInv, TypeOK, feedbackSnapshot, Calls
<1>7. LiveMeansHeard' /\ SnapshotUpToDate'
  BY DEF IInv, feedbackSnapshot, LiveMeansHeard, SnapshotUpToDate
<1>8. CleanCallAgrees'
  BY <1>4, <1>5 DEF IInv, feedbackSnapshot, CleanCallAgrees
<1>9. EnabledIsHonest'
  BY <1>4, <1>5 DEF IInv, EnabledIsHonest
<1>10. QED
  BY <1>6, <1>7, <1>8, <1>9 DEF IInv

LEMMA StepInv == IInv /\ [Next]_vars => IInv'
<1> SUFFICES ASSUME IInv, [Next]_vars PROVE IInv'
  OBVIOUS
<1>1. CASE Next
  BY <1>1, DriveAlone, RpdoInv, SyncInv, PublishInv, EmcyInv, HeartbeatInv, ResetInv,
     InspectInv, CallInv, AnswerInv DEF Next
<1>2. CASE UNCHANGED vars
  BY <1>2 DEF vars, IInv, TypeOK, LiveMeansHeard, SnapshotUpToDate, CleanCallAgrees,
     EnabledIsHonest
<1>3. QED
  BY <1>1, <1>2

\* Every reachable state is well typed, whatever the readers do.
THEOREM TelemetryTypeCorrect == Spec => []TypeOK
<1>1. IInv => TypeOK
  BY DEF IInv
<1>2. QED
  BY InitInv, StepInv, <1>1, PTL DEF Spec

\* MotorDrive::enabled() and waitUntilLive(): a call into which the loop
\* thread does not write answers for a drive heard by the last SYNC.
THEOREM EnabledHonest == Spec => []EnabledIsHonest
<1>1. IInv => EnabledIsHonest
  BY DEF IInv
<1>2. QED
  BY InitInv, StepInv, <1>1, PTL DEF Spec
-----------------------------------------------------------------------------
(* The cadence statistics, kept apart from the rest of the telemetry.      *)
Stats == [cycles : Nat, last : Nat, min : Nat, max : Nat, sum : Nat, jitter : Nat]
StatsIInv ==
    /\ nominal \in Nat
    /\ stats \in Stats
    /\ stats.cycles = 0 => stats.sum = 0 /\ stats.jitter = 0
    /\ StatsAgree

\* One more summand no smaller than the bound keeps the mean above it.
LEMMA MeanStaysAbove ==
    ASSUME NEW n \in Nat, NEW b \in Nat, NEW c \in Nat, NEW s \in Nat, NEW i \in Nat,
           c <= b, c <= i, b * n <= s
    PROVE  c * (n + 1) <= s + i
<1>1. c * n <= b * n
  OBVIOUS
<1>2. c * (n + 1) = c * n + c
  OBVIOUS
<1>3. c * n \in Nat /\ b * n \in Nat
  OBVIOUS
<1>4. QED
  BY <1>1, <1>2, <1>3
LEMMA MeanStaysBelow ==
    ASSUME NEW n \in Nat, NEW b \in Nat, NEW c \in Nat, NEW s \in Nat, NEW i \in Nat,
           b <= c, i <= c, s <= b * n
    PROVE  s + i <= c * (n + 1)
<1>1. b * n <= c * n
  OBVIOUS
<1>2. c * (n + 1) = c * n + c
  OBVIOUS
<1>3. c * n \in Nat /\ b * n \in Nat
  OBVIOUS
<1>4. QED
  BY <1>1, <1>2, <1>3

\* The interval that is furthest from the period is an extreme.
LEMMA JitterIsOfExtreme ==
    ASSUME NEW lo \in Nat, NEW hi \in Nat, NEW i \in Nat, nominal \in Nat, lo <= hi
    PROVE  Larger(Larger(Distance(lo, nominal), Distance(hi, nominal)),
                  Distance(i, nominal))
           = Larger(Distance(Smaller(lo, i), nominal), Distance(Larger(hi, i), nominal))
BY DEF Smaller, Larger, Distance

LEMMA StatsStep ==
    ASSUME StatsIInv, NEW interval \in Nat, updateCyclicStats(interval), seeded
    PROVE  StatsIInv'
<1> DEFINE n == stats.cycles
           lo == stats'.min
           hi == stats'.max
<1>1. /\ stats \in Stats /\ nominal \in Nat /\ StatsAgree
      /\ n = 0 => stats.sum = 0 /\ stats.jitter = 0
  BY DEF StatsIInv
<1>2. /\ n \in Nat /\ stats'.cycles = n + 1 /\ stats'.last = interval
      /\ stats'.sum = stats.sum + interval
      /\ lo = IF n = 0 THEN interval ELSE Smaller(stats.min, interval)
      /\ hi = IF n = 0 THEN interval ELSE Larger(stats.max, interval)
      /\ stats'.jitter = IF nominal > 0
                         THEN Larger(stats.jitter, Distance(interval, nominal))
                         ELSE stats.jitter
  BY <1>1 DEF updateCyclicStats, Stats
<1>3. stats' \in Stats
  BY <1>1 DEF updateCyclicStats, Stats, Smaller, Larger, Distance
<1>4. lo <= interval /\ interval <= hi
  BY <1>1, <1>2 DEF Stats, Smaller, Larger
<1>5. lo * (n + 1) <= stats.sum + interval /\ stats.sum + interval <= hi * (n + 1)
  <2>1. CASE n = 0
    BY <1>1, <1>2, <2>1 DEF Stats
  <2>2. CASE n > 0
    <3>1. /\ lo \in Nat /\ hi \in Nat /\ lo <= stats.min /\ stats.max <= hi
          /\ stats.min * n <= stats.sum /\ stats.sum <= stats.max * n
      BY <1>1, <1>2, <2>2 DEF Stats, StatsAgree, Smaller, Larger
    <3>2. stats.min \in Nat /\ stats.max \in Nat /\ stats.sum \in Nat
      BY <1>1 DEF Stats
    <3>3. QED
      BY <1>2, <1>4, <3>1, <3>2, MeanStaysAbove, MeanStaysBelow
  <2>3. QED
    BY <1>2, <2>1, <2>2
<1>6. nominal > 0 =>
          stats'.jitter = Larger(Distance(lo, nominal), Distance(hi, nominal))
  <2>1. CASE n = 0
    BY <1>1, <1>2, <2>1 DEF Stats, Larger, Distance
  <2>2. CASE n > 0 /\ nominal > 0
    <3>1. /\ stats.min \in Nat /\ stats.max \in Nat /\ stats.min <= stats.max
          /\ lo = Smaller(stats.min, interval) /\ hi = Larger(stats.max, interval)
          /\ stats.jitter = Larger(Distance(stats.min, nominal),
                                   Distance(stats.max, nominal))
          /\ stats'.jitter = Larger(stats.jitter, Distance(interval, nominal))
      BY <1>1, <1>2, <2>2 DEF Stats, StatsAgree
    <3>2. QED
      BY <1>1, <3>1, JitterIsOfExtreme
  <2>3. QED
    BY <1>2, <2>1, <2>2
<1>7. StatsAgree'
  BY <1>2, <1>4, <1>5, <1>6 DEF StatsAgree
<1>8. QED
  BY <1>1, <1>2, <1>3, <1>7 DEF StatsIInv

\* Whatever the cadence, the numbers agree with each other: the code keeps a
\* running sum, extremes and jitter separately, each with a first case of its
\* own, and never the intervals.
THEOREM StatsAlwaysAgree == ASSUME nominal \in Nat PROVE StatsSpec => []StatsAgree
<1>1. StatsInit => StatsIInv
  BY DEF StatsInit, StatsIInv, Stats, StatsAgree
<1>2. StatsIInv /\ [StatsNext]_statsVars => StatsIInv'
  <2> SUFFICES ASSUME StatsIInv, [StatsNext]_statsVars PROVE StatsIInv'
    OBVIOUS
  <2>1. CASE UNCHANGED statsVars
    BY <2>1 DEF statsVars, StatsIInv, StatsAgree
  <2>2. ASSUME NEW interval \in Nat, updateCyclicStats(interval) PROVE StatsIInv'
    <3>1. CASE seeded
      BY <2>2, <3>1, StatsStep
    <3>2. CASE ~seeded
      BY <2>2, <3>2 DEF updateCyclicStats, StatsIInv, StatsAgree
    <3>3. QED
      BY <3>1, <3>2
  <2>3. QED
    BY <2>1, <2>2 DEF StatsNext
<1>3. StatsIInv => StatsAgree
  BY DEF StatsIInv
<1>4. QED
  BY <1>1, <1>2, <1>3, PTL DEF StatsSpec
==============================================================================
