------------------------ MODULE ProfileSetpointProofs ------------------------
(***************************************************************************)
(* The handshake of moveToPosition, for any number of moves and of         *)
(* interruptions, and however frames are lost and acknowledges late: a     *)
(* move that nothing disturbs is taken, and none is taken twice unless its *)
(* own handshake was cut.                                                  *)
(***************************************************************************)
EXTENDS ProfileSetpoint, TLAPS

\* The last target the drive took, and whether it took one.
LastTaken(m) == drive.taken # <<>> /\ drive.taken[Len(drive.taken)] = m
Took(m) == \E i \in DOMAIN drive.taken : drive.taken[i] = m

Silent == ~wire.edge /\ ~drive.edge /\ ~drive.ack /\ ~reported

\* The move staged is neither one that overtook nor one that was cut.
Undisturbed == staged \notin overtaken \cup cut

\* Bit 4 travels from the wire through the drive back into the TPDO, rising
\* while the handshake waits, and falling while it clears.
Travels ==
    /\ phase \in {"Idle", "Assert"} => Silent
    /\ phase = "Idle" /\ staged # 0 => LastTaken(staged)
    /\ phase = "WaitAck" =>
           /\ wire = [edge |-> TRUE, move |-> staged]
           /\ reported => drive.ack
           /\ drive.ack => drive.edge
           /\ drive.edge => LastTaken(staged)
    /\ phase = "Clear" =>
           /\ LastTaken(staged)
           /\ wire.edge => drive.edge
           /\ drive.edge => drive.ack
           /\ drive.ack => reported

\* What no move was requested for was not disturbed, sent or taken.
Bounded ==
    /\ \A m \in overtaken \cup cut : 0 < m /\ m <= staged
    /\ phase # "Idle" => staged > 0
    /\ wire.move <= staged /\ (wire.edge => wire.move > 0)
    /\ \A i \in DOMAIN drive.taken : drive.taken[i] <= wire.move

\* A handshake that another sequence holds up in its middle was cut.
Held == phase \in {"WaitAck", "Clear"} /\ owner = "other" => staged \in cut

\* A move that is on the wire and was taken is seen by the drive as long as its
\* bit is up, and the bit does not rise for it again.
Spent ==
    /\ wire.edge /\ wire.move = staged => phase # "Assert"
    /\ Took(wire.move) /\ wire.move \notin cut =>
           /\ wire.edge => drive.edge
           /\ wire.move = staged =>
                  phase # "Assert" /\ (~wire.edge => phase \in {"Clear", "Idle"})

IInv == TypeOK /\ Bounded /\ Held /\ (Undisturbed => Travels) /\ Spent /\ TakenOnce

LEMMA Typed ==
    ASSUME TypeOK
    PROVE  /\ staged \in Nat /\ wire.move \in Nat /\ drive.taken \in Seq(Moves)
           /\ wire.edge \in BOOLEAN /\ drive.edge \in BOOLEAN /\ drive.ack \in BOOLEAN
           /\ reported \in BOOLEAN /\ Len(drive.taken) \in Nat
           /\ \A i \in DOMAIN drive.taken : drive.taken[i] \in Nat
           /\ MaxMoves \in Nat /\ MaxInterruptions \in Nat
<1>1. MaxMoves \in Nat /\ MaxInterruptions \in Nat
  BY ProfileSetpointAssumption
<1>2. staged \in Nat /\ wire.move \in Nat
  BY <1>1 DEF TypeOK
<1>3. drive.taken \in Seq(Moves)
  BY DEF TypeOK
<1>4. Len(drive.taken) \in Nat /\ \A i \in DOMAIN drive.taken : drive.taken[i] \in Moves
  BY <1>3
<1>5. QED
  BY <1>1, <1>2, <1>3, <1>4 DEF TypeOK, Moves

LEMMA InitHolds == ASSUME Init PROVE IInv
<1>1. TypeOK
  <2>1. <<>> \in Seq(Moves)
    OBVIOUS
  <2>2. drive \in [edge : BOOLEAN, ack : BOOLEAN, taken : Seq(Moves)]
    BY <2>1 DEF Init
  <2>3. 0 \in 0 .. MaxMoves /\ 0 \in 0 .. MaxInterruptions
    BY ProfileSetpointAssumption
  <2>4. QED
    BY <2>2, <2>3 DEF Init, TypeOK, SetpointPhase
<1>2. Bounded /\ Held /\ Travels /\ Spent /\ TakenOnce
  BY DEF Init, Bounded, Held, Travels, Silent, Spent, Took, TakenOnce
<1>3. QED
  BY <1>1, <1>2 DEF IInv

LEMMA RequestHolds == ASSUME IInv, requestProfileMove PROVE IInv'
<1>1. /\ staged' = staged + 1 /\ staged < MaxMoves /\ phase' = "Assert"
      /\ overtaken' = (IF Overtakes THEN overtaken \cup {staged + 1} ELSE overtaken)
      /\ UNCHANGED <<owner, wire, drive, reported, cut, interruptions>>
  BY DEF requestProfileMove
<1>2. /\ staged \in Nat /\ wire.move \in Nat /\ MaxMoves \in Nat
      /\ \A m \in overtaken \cup cut : m \in Nat
  BY Typed DEF IInv, TypeOK, Moves
<1>3. TypeOK'
  BY <1>1, <1>2 DEF IInv, TypeOK, SetpointPhase, Moves
<1>4. Bounded'
  BY <1>1, <1>2, Typed DEF IInv, Bounded
<1>5. Held'
  BY <1>1 DEF Held
<1>6. (Undisturbed => Travels)'
  <2> SUFFICES ASSUME Undisturbed' PROVE Travels'
    OBVIOUS
  <2>1. ~Overtakes
    BY <1>1 DEF Undisturbed
  <2>2. Silent
    BY <2>1 DEF Overtakes, quiet, IInv, Undisturbed, Travels, TypeOK, SetpointPhase, Silent
  <2>3. QED
    BY <1>1, <2>2 DEF Travels, Silent
<1>7. Spent'
  <2>1. wire.move # staged'
    BY <1>1, <1>2 DEF IInv, Bounded
  <2>2. QED
    BY <1>1, <2>1 DEF IInv, Spent, Took
<1>8. TakenOnce'
  BY <1>1 DEF IInv, TakenOnce
<1>9. QED
  BY <1>3, <1>4, <1>5, <1>6, <1>7, <1>8 DEF IInv

LEMMA SyncHolds == ASSUME IInv, OnSync PROVE IInv'
<1>1. /\ wire' = [edge |-> owner = "setpoint" /\ edge, move |-> staged]
      /\ UNCHANGED <<staged, owner, drive, reported, overtaken, cut, interruptions>>
      /\ phase' = IF owner = "setpoint" THEN SetpointNext(reported)[phase] ELSE phase
  BY DEF OnSync
<1>2. /\ wire'.move = staged
      /\ wire'.edge <=> owner = "setpoint" /\ phase \in {"Assert", "WaitAck"}
      /\ wire'.edge \in BOOLEAN
  BY <1>1 DEF edge
<1>3. /\ owner = "setpoint" /\ phase = "Assert" => phase' = "WaitAck"
      /\ owner = "setpoint" /\ phase = "WaitAck" =>
             phase' = IF reported THEN "Clear" ELSE "WaitAck"
      /\ owner = "setpoint" /\ phase = "Clear" =>
             phase' = IF reported THEN "Clear" ELSE "Idle"
      /\ owner = "setpoint" /\ phase = "Idle" => phase' = "Idle"
      /\ owner # "setpoint" => phase' = phase
      /\ phase \in SetpointPhase /\ owner \in {"setpoint", "other"}
  BY <1>1 DEF SetpointNext, IInv, TypeOK, SetpointPhase
<1>4. TypeOK'
  BY <1>1, <1>2, <1>3 DEF IInv, TypeOK, SetpointPhase
<1>5. Bounded'
  BY <1>1, <1>2, <1>3, Typed DEF IInv, Bounded, SetpointPhase
<1>6. Held'
  BY <1>1, <1>3 DEF IInv, Held, SetpointPhase
<1>7. (Undisturbed => Travels)'
  <2> SUFFICES ASSUME Undisturbed PROVE Travels'
    BY <1>1 DEF Undisturbed
  <2>1. Travels /\ (phase \in {"WaitAck", "Clear"} => owner = "setpoint")
    BY <1>3 DEF IInv, Held, Undisturbed
  <2>2. CASE phase = "Assert" /\ owner = "setpoint"
    BY <1>1, <1>3, <2>1, <2>2 DEF Travels, Silent, edge
  <2>3. CASE phase = "WaitAck"
    BY <1>1, <1>2, <1>3, <2>1, <2>3 DEF Travels, LastTaken, edge
  <2>4. CASE phase = "Clear"
    BY <1>1, <1>2, <1>3, <2>1, <2>4 DEF Travels, LastTaken, Silent
  <2>5. CASE phase = "Idle" \/ (phase = "Assert" /\ owner # "setpoint")
    BY <1>1, <1>2, <1>3, <2>1, <2>5 DEF Travels, LastTaken, Silent
  <2>6. QED
    BY <1>3, <2>2, <2>3, <2>4, <2>5 DEF SetpointPhase
<1>8. Spent'
  <2>1. wire'.edge => phase' # "Assert"
    BY <1>2, <1>3
  <2>2. ASSUME Took(staged), staged \notin cut
        PROVE  /\ wire'.edge => drive.edge
               /\ phase' # "Assert" /\ (~wire'.edge => phase' \in {"Clear", "Idle"})
    <3>1. wire.move = staged
      BY <2>2, Typed DEF IInv, Bounded, Took
    <3>2. /\ wire.edge => drive.edge
          /\ phase # "Assert" /\ (~wire.edge => phase \in {"Clear", "Idle"})
      BY <2>2, <3>1 DEF IInv, Spent
    <3>3. phase = "WaitAck" => owner = "setpoint"
      BY <1>3, <2>2 DEF IInv, Held
    <3>4. QED
      BY <1>2, <1>3, <3>2, <3>3 DEF SetpointPhase
  <2>3. QED
    BY <1>1, <1>2, <2>1, <2>2 DEF Spent, Took
<1>9. TakenOnce'
  BY <1>1 DEF IInv, TakenOnce
<1>10. QED
  BY <1>4, <1>5, <1>6, <1>7, <1>8, <1>9 DEF IInv

LEMMA InterruptHolds ==
    ASSUME IInv, requestGracefulStop \/ requestQuickStop
    PROVE  IInv'
<1>1. /\ owner' = "other" /\ interruptions' = interruptions + 1
      /\ interruptions < MaxInterruptions
      /\ UNCHANGED <<staged, wire, drive, reported, overtaken>>
      /\ phase' \in {phase, "Idle"} /\ cut' \in {cut, cut \cup {staged}}
      /\ phase \in {"WaitAck", "Clear"} \/ (phase = "Assert" /\ phase' = "Idle") =>
             cut' = cut \cup {staged}
      /\ cut' # cut => phase # "Idle"
  BY DEF requestGracefulStop, requestQuickStop, Interrupts, IInv, TypeOK, SetpointPhase
<1>2. TypeOK'
  <2>1. interruptions + 1 \in 0 .. MaxInterruptions
    BY <1>1, Typed DEF IInv, TypeOK
  <2>2. cut' # cut => staged \in Moves
    BY <1>1, Typed DEF IInv, Bounded, TypeOK, Moves
  <2>3. QED
    BY <1>1, <2>1, <2>2 DEF IInv, TypeOK, SetpointPhase
<1>3. Bounded'
  BY <1>1, Typed DEF IInv, Bounded
<1>4. Held'
  BY <1>1 DEF IInv, Held
<1>5. (Undisturbed => Travels)'
  <2> SUFFICES ASSUME Undisturbed' PROVE Travels'
    OBVIOUS
  <2>1. Undisturbed /\ UNCHANGED phase /\ phase \in {"Idle", "Assert"}
    BY <1>1 DEF Undisturbed, IInv, TypeOK, SetpointPhase
  <2>2. QED
    BY <1>1, <2>1 DEF IInv, Travels, Silent, LastTaken
<1>6. Spent'
  BY <1>1 DEF IInv, Spent, Took
<1>7. TakenOnce'
  BY <1>1 DEF IInv, TakenOnce
<1>8. QED
  BY <1>2, <1>3, <1>4, <1>5, <1>6, <1>7 DEF IInv

LEMMA ResumeHolds == ASSUME IInv, Resume PROVE IInv'
<1>1. owner' = "setpoint"
      /\ UNCHANGED <<phase, staged, wire, drive, reported, overtaken, cut, interruptions>>
  BY DEF Resume
<1>2. QED
  BY <1>1 DEF IInv, TypeOK, Bounded, Held, Undisturbed, Travels, Silent, LastTaken, Spent,
              Took, TakenOnce

LEMMA ExecuteHolds == ASSUME IInv, DriveExecutes PROVE IInv'
<1> DEFINE taken == drive.taken
           n == Len(taken)
<1>1. /\ UNCHANGED <<phase, staged, owner, wire, reported, overtaken, cut, interruptions>>
      /\ drive'.edge = wire.edge /\ drive'.ack = drive.ack
      /\ \/ drive'.taken = taken /\ (wire.edge /\ ~drive.edge => drive.ack)
         \/ wire.edge /\ ~drive.edge /\ drive'.taken = Append(taken, wire.move)
      /\ drive' \in [edge : BOOLEAN, ack : BOOLEAN, taken : {taken, Append(taken, wire.move)}]
  <2>1. PICK missed \in {FALSE, drive.ack} :
            drive' = [drive EXCEPT
                !.edge = wire.edge,
                !.taken = IF wire.edge /\ ~drive.edge /\ ~missed
                          THEN Append(@, wire.move) ELSE @]
    BY DEF DriveExecutes
  <2> DEFINE next == IF wire.edge /\ ~drive.edge /\ ~missed
                     THEN Append(taken, wire.move) ELSE taken
  <2>2. drive' = [drive EXCEPT !.edge = wire.edge, !.taken = next]
    BY <2>1
  <2>3. /\ next \in {taken, Append(taken, wire.move)}
        /\ \/ next = taken /\ (wire.edge /\ ~drive.edge => drive.ack)
           \/ wire.edge /\ ~drive.edge /\ next = Append(taken, wire.move)
    OBVIOUS
  <2> HIDE DEF next, taken
  <2>4. /\ drive'.edge = wire.edge /\ drive'.ack = drive.ack /\ drive'.taken = next
        /\ wire.edge \in BOOLEAN /\ drive.ack \in BOOLEAN
        /\ drive' = [edge |-> wire.edge, ack |-> drive.ack, taken |-> next]
    BY <2>2, Typed DEF IInv, TypeOK
  <2>5. QED
    BY <2>3, <2>4 DEF DriveExecutes
<1>2. CASE drive'.taken = taken /\ (wire.edge /\ ~drive.edge => drive.ack)
  <2>1. TypeOK'
    BY <1>1, <1>2, Typed DEF IInv, TypeOK
  <2>2. Bounded' /\ Held' /\ TakenOnce'
    BY <1>1, <1>2 DEF IInv, Bounded, Held, TakenOnce
  <2>3. (Undisturbed => Travels)'
    BY <1>1, <1>2 DEF IInv, Undisturbed, Travels, Silent, LastTaken
  <2>4. Spent'
    BY <1>1, <1>2 DEF IInv, Spent, Took
  <2>5. QED
    BY <2>1, <2>2, <2>3, <2>4 DEF IInv
<1>3. CASE wire.edge /\ ~drive.edge /\ drive'.taken = Append(taken, wire.move)
  <2>1. /\ n \in Nat /\ Len(drive'.taken) = n + 1 /\ drive'.taken \in Seq(Moves)
        /\ drive'.taken[n + 1] = wire.move /\ DOMAIN drive'.taken = 1 .. n + 1
        /\ DOMAIN taken = 1 .. n
        /\ \A i \in 1 .. n : drive'.taken[i] = taken[i]
    <3>1. wire.move \in Moves /\ taken \in Seq(Moves)
      BY <1>3, Typed DEF IInv, Bounded, TypeOK, Moves
    <3> HIDE DEF taken
    <3>2. QED
      BY <1>3, <3>1
  <2> HIDE DEF taken, n
  <2>2. drive'.taken # <<>>
    BY <2>1
  <2>3. TypeOK'
    BY <1>1, <2>1 DEF IInv, TypeOK
  <2>4. Bounded' /\ Held'
    BY <1>1, <2>1, Typed DEF IInv, Bounded, Held, taken
  <2>5. (Undisturbed => Travels)'
    <3>1. LastTaken(wire.move)'
      BY <1>1, <2>1, <2>2 DEF LastTaken
    <3>2. QED
      BY <1>1, <1>3, <3>1 DEF IInv, Undisturbed, Travels, Silent, LastTaken
  <2>6. Spent'
    BY <1>1, <1>3 DEF IInv, Spent
  <2>7. Took(wire.move) => wire.move \in cut
    BY <1>3 DEF IInv, Spent
  <2>8. TakenOnce'
    <3> SUFFICES ASSUME NEW i \in 1 .. n + 1, NEW j \in 1 .. n + 1, i # j,
                        drive'.taken[i] = drive'.taken[j]
                 PROVE  drive'.taken[i] \in cut
      BY <1>1, <2>1 DEF TakenOnce
    <3>1. CASE i \in 1 .. n /\ j \in 1 .. n
      BY <2>1, <3>1 DEF IInv, TakenOnce, taken
    <3>2. CASE i = n + 1 \/ j = n + 1
      <4>1. PICK k \in 1 .. n : drive'.taken[k] = wire.move /\ drive'.taken[i] = wire.move
        BY <2>1, <3>2
      <4>2. Took(wire.move)
        BY <2>1, <4>1 DEF Took, taken
      <4>3. QED
        BY <2>7, <4>1, <4>2
    <3>3. QED
      BY <2>1, <3>1, <3>2
  <2>9. QED
    BY <2>3, <2>4, <2>5, <2>6, <2>8 DEF IInv
<1>4. QED
  BY <1>1, <1>2, <1>3

LEMMA AcknowledgeHolds == ASSUME IInv, DriveAcknowledges PROVE IInv'
<1>1. /\ drive'.ack = drive.edge /\ drive'.edge = drive.edge /\ drive'.taken = drive.taken
      /\ drive' \in [edge : BOOLEAN, ack : BOOLEAN, taken : Seq(Moves)]
      /\ UNCHANGED <<phase, staged, owner, wire, reported, overtaken, cut, interruptions>>
  BY DEF DriveAcknowledges, IInv, TypeOK
<1>2. TypeOK' /\ Bounded' /\ Held' /\ TakenOnce' /\ Spent'
  BY <1>1 DEF IInv, TypeOK, Bounded, Held, TakenOnce, Spent, Took
<1>3. (Undisturbed => Travels)'
  BY <1>1 DEF IInv, Undisturbed, Travels, Silent, LastTaken
<1>4. QED
  BY <1>2, <1>3 DEF IInv

LEMMA ReportHolds == ASSUME IInv, OnRpdoWrite PROVE IInv'
<1>1. reported' = drive.ack /\ drive.ack \in BOOLEAN
      /\ UNCHANGED <<phase, staged, owner, wire, drive, overtaken, cut, interruptions>>
  BY DEF OnRpdoWrite, IInv, TypeOK
<1>2. TypeOK' /\ Bounded' /\ Held' /\ TakenOnce' /\ Spent'
  BY <1>1 DEF IInv, TypeOK, Bounded, Held, TakenOnce, Spent, Took
<1>3. (Undisturbed => Travels)'
  BY <1>1 DEF IInv, Undisturbed, Travels, Silent, LastTaken
<1>4. QED
  BY <1>2, <1>3 DEF IInv

LEMMA NextHolds == ASSUME IInv, [Next]_vars PROVE IInv'
<1>1. CASE UNCHANGED vars
  BY <1>1 DEF vars, IInv, TypeOK, Bounded, Held, Undisturbed, Travels, Silent, LastTaken,
              Spent, Took, TakenOnce
<1>2. QED
  BY <1>1, RequestHolds, SyncHolds, InterruptHolds, ResumeHolds, ExecuteHolds,
     AcknowledgeHolds, ReportHolds DEF Next

\* The phases, the frame, the targets taken and the histories keep their types.
THEOREM SetpointTypeCorrect == Spec => []TypeOK
<1>1. IInv => TypeOK
  BY DEF IInv
<1>2. QED
  BY <1>1, InitHolds, NextHolds, PTL DEF Spec

\* For any number of moves and interruptions: a handshake that ended was that of
\* the move the drive took last, unless it was armed in the middle of another
\* one's or was cut (MotorDriver::advanceProfileSetpoint).
THEOREM NoMoveEverLost == Spec => []NoMoveLost
<1>1. IInv => NoMoveLost
  BY DEF IInv, Undisturbed, Travels, LastTaken, NoMoveLost
<1>2. QED
  BY <1>1, InitHolds, NextHolds, PTL DEF Spec

\* No move is taken twice, overtaken or not, but those whose own handshake
\* another sequence cut.
THEOREM MovesTakenOnce == Spec => []TakenOnce
<1>1. IInv => TakenOnce
  BY DEF IInv
<1>2. QED
  BY <1>1, InitHolds, NextHolds, PTL DEF Spec
==============================================================================
