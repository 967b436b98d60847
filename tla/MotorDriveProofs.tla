-------------------------- MODULE MotorDriveProofs --------------------------
(***************************************************************************)
(* Proofs about moveMotor for all values of the constants that satisfy the *)
(* assumptions of MotorDrive.  Every invariant is proved on top of the     *)
(* ones before it: types, then the direction of the drive, then the three  *)
(* timing facts, then the contract.                                        *)
(***************************************************************************)
EXTENDS MotorDrive, TLAPS

(* What capped ages are good for: they stay ages, they grow by at most the  *)
(* time that passed, and below the cap they are exact.                      *)
LEMMA LaterFacts ==
  \A a \in Ages, d \in 0..IterTicks :
    /\ Later(a, d) \in Ages
    /\ Later(a, d) <= a + d
    /\ Later(a, d) >= a
    /\ a + d <= AgeCap => Later(a, d) = a + d
  BY TimesAssumption, AgeCapAssumption DEF Ages, Later

(* Two ages that grow together keep their order. *)
LEMMA LaterMonotone ==
  \A a, b \in Ages, d \in 0..IterTicks : a <= b => Later(a, d) <= Later(b, d)
  BY TimesAssumption, AgeCapAssumption DEF Ages, Later

(* Zero is an age, and a pass of the loop lasts a legal time. *)
LEMMA PassFacts ==
  /\ 0 \in Ages
  /\ \A d \in 1..IterTicks : d \in 0..IterTicks
  BY TimesAssumption, AgeCapAssumption DEF Ages, LongestRun
-----------------------------------------------------------------------------
(* The state of moveMotor stays within its types. *)
LEMMA TypeStep == TypeOK /\ [Next]_vars => TypeOK'
<1> SUFFICES ASSUME TypeOK, [Next]_vars PROVE TypeOK'
  OBVIOUS
<1> USE DEF TypeOK
<1>1. ASSUME NEW pos \in Goals, NEW e \in CallErrors, NEW r \in Readings,
             NEW d \in 0..IterTicks, NEW level \in {LOW, HIGH},
             Call(pos, e, r, d, level)
      PROVE  TypeOK'
  <2>1. EntryPosition(r) \in KLAPPENPOSITION
    BY DEF EntryPosition, KLAPPENPOSITION
  <2> QED
    BY <1>1, <2>1, LaterFacts, PassFacts, CallErrorsAssumption
    DEF Call, KLAPPENRICHTUNG
<1>2. ASSUME LoopDone PROVE TypeOK'
  BY <1>2 DEF LoopDone, timers, history
<1>3. ASSUME NEW d \in 1..IterTicks, NEW r \in Readings, Sense(r, d)
      PROVE  /\ pc' \in {"idle", "head", "timers", "stop"}
             /\ goal' \in Goals
             /\ errorFlag' \in ERROR_CODE /\ errorAtCall' \in ERROR_CODE
             /\ reading' \in Readings
             /\ why' \in {"none", "reached", "button", "timeout"}
             /\ runAge' \in Ages /\ bottomAge' \in Ages /\ stuckAge' \in Ages
  BY <1>3, LaterFacts, PassFacts DEF Sense
<1>4. AtBottom \in Readings /\ Stuck \in Readings /\ AtTop \in Readings /\ Between \in Readings
  BY DEF AtBottom, Stuck, AtTop, Between, Readings
<1>5. \A dir : Outputs(dir) \in [Pins -> {LOW, HIGH}]
  BY DEF Outputs, Pins, LOW, HIGH
<1>6. ASSUME NEW d \in 1..IterTicks, BottomTouched(d) PROVE TypeOK'
  BY <1>3, <1>4, <1>6, LaterFacts, PassFacts DEF BottomTouched, KLAPPENRICHTUNG
<1>7. ASSUME NEW d \in 1..IterTicks, BottomFinishing(d) PROVE TypeOK'
  BY <1>3, <1>4, <1>7, LaterFacts, PassFacts DEF BottomFinishing, KLAPPENPOSITION
<1>8. ASSUME NEW d \in 1..IterTicks, BottomLeaving(d) PROVE TypeOK'
  BY <1>3, <1>4, <1>5, <1>8, LaterFacts, PassFacts
  DEF BottomLeaving, KLAPPENPOSITION, KLAPPENRICHTUNG, Since
<1>9. DirectionOffBottom \in KLAPPENRICHTUNG
  BY DEF DirectionOffBottom, TowardGoal, KLAPPENRICHTUNG
<1>10. ASSUME NEW d \in 1..IterTicks, StartIfStanding(d)
       PROVE  sinceMoveZero' \in Ages /\ pin' \in [Pins -> {LOW, HIGH}]
  BY <1>5, <1>10, LaterFacts, PassFacts DEF StartIfStanding, Since
<1>11. ASSUME NEW d \in 1..IterTicks, SenseBlocked(d) PROVE TypeOK'
  BY <1>3, <1>4, <1>9, <1>10, <1>11, LaterFacts, PassFacts
  DEF SenseBlocked, Since, KLAPPENPOSITION
<1>12. ASSUME NEW d \in 1..IterTicks, SenseUp(d) PROVE TypeOK'
  BY <1>3, <1>4, <1>5, <1>12, LaterFacts, PassFacts
  DEF SenseUp, Since, KLAPPENPOSITION, KLAPPENRICHTUNG
<1>13. ASSUME NEW d \in 1..IterTicks, SenseDriving(d) PROVE TypeOK'
  BY <1>3, <1>4, <1>9, <1>10, <1>13, LaterFacts, PassFacts
  DEF SenseDriving, KLAPPENPOSITION
<1>14. ASSUME NEW e \in TimerErrors, TimeOut(e) PROVE TypeOK'
  BY <1>14 DEF TimeOut, TimerErrors, ERROR_CODE, KLAPPENPOSITION, timers, history,
     Pins, LOW, HIGH
<1>15. ASSUME NEW pressed \in BOOLEAN, ButtonCheck(pressed) PROVE TypeOK'
  BY <1>15 DEF ButtonCheck, timers, history
<1>16. ASSUME Stop PROVE TypeOK'
  BY <1>16 DEF Stop, Cleared, ERROR_CODE, KLAPPENRICHTUNG, timers, history,
     Pins, LOW, HIGH
<1>17. ASSUME UNCHANGED vars PROVE TypeOK'
  BY <1>17 DEF vars, timers, history
<1>18. QED
  BY <1>1, <1>2, <1>6, <1>7, <1>8, <1>11, <1>12, <1>13, <1>14, <1>15, <1>16, <1>17
  DEF Next, Program, Pass, BlockedElapsed, CloseElapsed, OpenElapsed, TimerErrors

(* moveMotor's variables have their types in every behaviour. *)
THEOREM TypeCorrect == Spec => []TypeOK
<1>1. Init => TypeOK
  BY PassFacts DEF Init, TypeOK, KLAPPENPOSITION, KLAPPENRICHTUNG, ERROR_CODE,
     Pins, LOW, HIGH, AtBottom, Readings
<1>2. QED
  BY <1>1, TypeStep, PTL DEF Spec
-----------------------------------------------------------------------------
(* The direction away from the lower end, case by case. *)
LEMMA OffBottomCases ==
  DirectionOffBottom =
    IF doorDirection = "STANDING" THEN TowardGoal
    ELSE IF doorDirection = "FINISHING_DOWN" THEN "MOVING_DOWN"
    ELSE doorDirection
  BY DEF DirectionOffBottom

(* The loop has passes to make. *)
Looping == pc \in {"head", "timers"} /\ doorPosition # goal

(* DrivesTowardGoal, strengthened: it already holds at the end of a pass.  *)
Steered ==
  Looping => IF goal = POS_DOWN
             THEN doorDirection \in {"STANDING", "MOVING_DOWN", "FINISHING_DOWN"}
             ELSE doorDirection \in {"STANDING", "MOVING_UP"}

(* No step of moveMotor makes the motor run away from the goal. *)
LEMMA SteeredStep == TypeOK /\ Steered /\ [Next]_vars => Steered'
<1> SUFFICES ASSUME TypeOK, Steered, [Next]_vars PROVE Steered'
  OBVIOUS
<1> USE DEF TypeOK, Steered, Looping, Goals, POS_UP, POS_DOWN, POS_DRIVING, POS_BLOCKED
<1>1. ASSUME NEW pos \in Goals, NEW e \in CallErrors, NEW r \in Readings,
             NEW d \in 0..IterTicks, NEW level \in {LOW, HIGH},
             Call(pos, e, r, d, level)
      PROVE  Steered'
  BY <1>1 DEF Call
<1>2. ASSUME LoopDone PROVE Steered'
  BY <1>2 DEF LoopDone
<1>4. ASSUME NEW d \in 1..IterTicks, BottomTouched(d) PROVE Steered'
  BY <1>4 DEF BottomTouched, Sense
<1>5. ASSUME NEW d \in 1..IterTicks, BottomFinishing(d) PROVE Steered'
  BY <1>5 DEF BottomFinishing, Sense
<1>6. ASSUME NEW d \in 1..IterTicks, BottomLeaving(d) PROVE Steered'
  BY <1>6 DEF BottomLeaving, Sense
<1>7. ASSUME NEW d \in 1..IterTicks, SenseBlocked(d) PROVE Steered'
  BY <1>7, OffBottomCases DEF SenseBlocked, Sense, TowardGoal
<1>8. ASSUME NEW d \in 1..IterTicks, SenseUp(d) PROVE Steered'
  BY <1>8 DEF SenseUp, Sense
<1>9. ASSUME NEW d \in 1..IterTicks, SenseDriving(d) PROVE Steered'
  BY <1>9, OffBottomCases DEF SenseDriving, Sense, TowardGoal
<1>10. ASSUME NEW e \in TimerErrors, TimeOut(e) PROVE Steered'
  BY <1>10 DEF TimeOut
<1>11. ASSUME NEW pressed \in BOOLEAN, ButtonCheck(pressed) PROVE Steered'
  BY <1>11 DEF ButtonCheck
<1>12. ASSUME Stop PROVE Steered'
  BY <1>12 DEF Stop
<1>13. ASSUME UNCHANGED vars PROVE Steered'
  BY <1>13 DEF vars
<1>14. QED
  BY <1>1, <1>2, <1>4, <1>5, <1>6, <1>7, <1>8, <1>9, <1>10, <1>11, <1>12, <1>13
  DEF Next, Program, Pass, BlockedElapsed, CloseElapsed, OpenElapsed, TimerErrors

(* The strengthened invariant holds in every behaviour of moveMotor. *)
THEOREM AlwaysSteered == Spec => []Steered
<1>1. Init => Steered
  BY DEF Init, Steered, Looping
<1>2. QED
  BY <1>1, SteeredStep, TypeCorrect, PTL DEF Spec

(* Whenever moveMotor's loop goes on, a running motor runs toward the goal. *)
THEOREM DriveIsSteered == Spec => []DrivesTowardGoal
<1>1. TypeOK /\ Steered => DrivesTowardGoal
  <2> SUFFICES ASSUME TypeOK, Steered, pc = "head", doorPosition # goal
               PROVE  DrivesTowardGoal
    BY DEF DrivesTowardGoal
  <2>1. POS_UP # POS_DOWN
    BY DEF POS_UP, POS_DOWN
  <2>2. CASE goal = POS_DOWN
    BY <2>1, <2>2, Zenon DEF DrivesTowardGoal, Steered, Looping
  <2>3. CASE goal = POS_UP
    BY <2>1, <2>3, Zenon DEF DrivesTowardGoal, Steered, Looping
  <2>4. QED
    BY <2>2, <2>3 DEF TypeOK, Goals
<1>2. QED
  BY <1>1, TypeCorrect, AlwaysSteered, PTL
-----------------------------------------------------------------------------
(* No step of moveMotor lets the outputs and doorDirection disagree,        *)
(* whichever pins the outputs and the LED have.                             *)
LEMMA OutputsStep ==
  TypeOK /\ OutputsMatchDirection /\ [Next]_vars => OutputsMatchDirection'
<1> SUFFICES ASSUME TypeOK, OutputsMatchDirection, [Next]_vars
             PROVE  OutputsMatchDirection'
  OBVIOUS
<1> USE DEF OutputsMatchDirection, TypeOK, KLAPPENRICHTUNG,
            Pins, LOW, HIGH
<1>1. ASSUME NEW pos \in Goals, NEW e \in CallErrors, NEW r \in Readings,
             NEW d \in 0..IterTicks, NEW level \in {LOW, HIGH},
             Call(pos, e, r, d, level)
      PROVE  OutputsMatchDirection'
  BY <1>1 DEF Call
<1>2. ASSUME LoopDone PROVE OutputsMatchDirection'
  BY <1>2 DEF LoopDone
<1>4. ASSUME NEW d \in 1..IterTicks, BottomTouched(d) PROVE OutputsMatchDirection'
  BY <1>4 DEF BottomTouched, Sense
<1>5. ASSUME NEW d \in 1..IterTicks, BottomFinishing(d) PROVE OutputsMatchDirection'
  BY <1>5 DEF BottomFinishing, Sense
<1>6. ASSUME NEW d \in 1..IterTicks, BottomLeaving(d) PROVE OutputsMatchDirection'
  BY <1>6 DEF BottomLeaving, Sense, Outputs
<1>7. ASSUME NEW d \in 1..IterTicks, SenseBlocked(d) PROVE OutputsMatchDirection'
  BY <1>7, OffBottomCases DEF SenseBlocked, Sense, StartIfStanding, Outputs, TowardGoal
<1>8. ASSUME NEW d \in 1..IterTicks, SenseUp(d) PROVE OutputsMatchDirection'
  BY <1>8 DEF SenseUp, Sense, Outputs
<1>9. ASSUME NEW d \in 1..IterTicks, SenseDriving(d) PROVE OutputsMatchDirection'
  BY <1>9, OffBottomCases DEF SenseDriving, Sense, StartIfStanding, Outputs, TowardGoal
<1>10. ASSUME NEW e \in TimerErrors, TimeOut(e) PROVE OutputsMatchDirection'
  BY <1>10 DEF TimeOut
<1>11. ASSUME NEW pressed \in BOOLEAN, ButtonCheck(pressed) PROVE OutputsMatchDirection'
  BY <1>11 DEF ButtonCheck
<1>12. ASSUME Stop PROVE OutputsMatchDirection'
  BY <1>12 DEF Stop
<1>13. ASSUME UNCHANGED vars PROVE OutputsMatchDirection'
  BY <1>13 DEF vars
<1>14. QED
  BY <1>1, <1>2, <1>4, <1>5, <1>6, <1>7, <1>8, <1>9, <1>10, <1>11, <1>12, <1>13
  DEF Next, Program, Pass, BlockedElapsed, CloseElapsed, OpenElapsed, TimerErrors

(* While moveMotor drives, its outputs say what doorDirection says, and     *)
(* they are low once it has returned, for every assignment of the pins.     *)
THEOREM OutputsAgree == Spec => []OutputsMatchDirection
<1>1. Init => OutputsMatchDirection
  BY DEF Init, OutputsMatchDirection, Pins, LOW, HIGH
<1>2. TypeOK /\ OutputsMatchDirection /\ [Next]_vars => OutputsMatchDirection'
  BY OutputsStep
<1>3. QED
  BY <1>1, <1>2, TypeCorrect, PTL DEF Spec
-----------------------------------------------------------------------------
(* The timing of a drive.  Before the run-on the motor has run no longer   *)
(* than moveZero is old, and the loop goes on only while that is within    *)
(* t_err_close; the run-on starts within one pass of that and is bounded   *)
(* by its own timer.                                                       *)
RunInv ==
  /\ MotorRunBounded
  /\ Looping /\ doorDirection # "STANDING" => runAge <= sinceMoveZero
  /\ Looping /\ pc = "head" /\ doorDirection \in {"MOVING_UP", "MOVING_DOWN"} =>
       sinceMoveZero <= t_err_close
  /\ Looping /\ doorDirection = "FINISHING_DOWN" =>
       /\ runAge <= t_err_close + IterTicks + sinceDownwardsTimer
       /\ sinceDownwardsTimer <= t_down_finish

(* No step of moveMotor lets a drive outlast its timers. *)
LEMMA RunStep == TypeOK /\ Steered /\ RunInv /\ [Next]_vars => RunInv'
<1> SUFFICES ASSUME TypeOK, Steered, RunInv, [Next]_vars PROVE RunInv'
  OBVIOUS
<1> USE TimesAssumption, AgeCapAssumption
<1> USE DEF TypeOK, Steered, RunInv, MotorRunBounded, Looping, LongestRun, Goals,
            POS_UP, POS_DOWN, POS_DRIVING, POS_BLOCKED, KLAPPENRICHTUNG, Ages
<1>1. ASSUME NEW pos \in Goals, NEW e \in CallErrors, NEW r \in Readings,
             NEW d \in 0..IterTicks, NEW level \in {LOW, HIGH},
             Call(pos, e, r, d, level)
      PROVE  RunInv'
  BY <1>1 DEF Call
<1>2. ASSUME LoopDone PROVE RunInv'
  BY <1>2 DEF LoopDone, timers, history
<1>3. ASSUME NEW r, NEW d \in 1..IterTicks, Sense(r, d)
      PROVE  /\ runAge' <= LongestRun
             /\ runAge' \in Ages
             /\ doorDirection = "STANDING" => runAge' = 0
             /\ doorDirection # "STANDING" => runAge' <= Later(sinceMoveZero, d)
             /\ doorDirection \in {"MOVING_UP", "MOVING_DOWN"} =>
                  runAge' <= t_err_close + IterTicks
  <2>1. CASE doorDirection = "STANDING"
    BY <1>3, <2>1 DEF Sense
  <2>2. CASE doorDirection \in {"MOVING_UP", "MOVING_DOWN"}
    BY <1>3, <2>2 DEF Sense, Later
  <2>3. CASE doorDirection = "FINISHING_DOWN"
    BY <1>3, <2>3 DEF Sense, Later
  <2>4. QED
    BY <2>1, <2>2, <2>3
<1>4. ASSUME NEW d \in 1..IterTicks, BottomTouched(d) PROVE RunInv'
  <2>1. Sense(AtBottom, d)
    BY <1>4 DEF BottomTouched
  <2>2. QED
    BY <1>3, <1>4, <2>1 DEF BottomTouched
<1>5. ASSUME NEW d \in 1..IterTicks, BottomFinishing(d) PROVE RunInv'
  <2>1. Sense(AtBottom, d)
    BY <1>5 DEF BottomFinishing
  <2>2. goal = POS_DOWN /\ goal' = goal
    BY <1>5, <2>1 DEF BottomFinishing, Sense
  <2>3. /\ runAge' <= runAge + d
        /\ sinceDownwardsTimer' = sinceDownwardsTimer + d
    BY <1>5, <2>1 DEF BottomFinishing, Sense, Later
  <2>4. QED
    BY <1>3, <1>5, <2>1, <2>2, <2>3 DEF BottomFinishing, Sense
<1>6. ASSUME NEW d \in 1..IterTicks, BottomLeaving(d) PROVE RunInv'
  <2>1. Sense(AtBottom, d)
    BY <1>6 DEF BottomLeaving
  <2>2. QED
    BY <1>3, <1>6, <2>1 DEF BottomLeaving, Sense, Since
<1>7. ASSUME NEW d \in 1..IterTicks, StartIfStanding(d),
             doorDirection' = DirectionOffBottom, pc' = "timers",
             \E r : Sense(r, d)
      PROVE  RunInv'
  <2>1. doorDirection' \in {"MOVING_UP", "MOVING_DOWN"}
    BY <1>7, OffBottomCases DEF TowardGoal
  <2>2. QED
    BY <1>3, <1>7, <2>1 DEF StartIfStanding, Since
<1>8. ASSUME NEW d \in 1..IterTicks, SenseBlocked(d) PROVE RunInv'
  BY <1>7, <1>8 DEF SenseBlocked, Sense
<1>9. ASSUME NEW d \in 1..IterTicks, SenseDriving(d) PROVE RunInv'
  BY <1>7, <1>9 DEF SenseDriving, Sense
<1>10. ASSUME NEW d \in 1..IterTicks, SenseUp(d) PROVE RunInv'
  <2>1. Sense(AtTop, d)
    BY <1>10 DEF SenseUp
  <2>2. QED
    BY <1>3, <1>10, <2>1 DEF SenseUp, Sense, Since, StartsDown
<1>11. ASSUME NEW e \in TimerErrors, TimeOut(e) PROVE RunInv'
  BY <1>11 DEF TimeOut, timers, history
<1>12. ASSUME NEW pressed \in BOOLEAN, ButtonCheck(pressed) PROVE RunInv'
  BY <1>12 DEF ButtonCheck, CloseTimeOver, OpenTimeOver, timers, history
<1>13. ASSUME Stop PROVE RunInv'
  BY <1>13 DEF Stop
<1>14. ASSUME UNCHANGED vars PROVE RunInv'
  BY <1>14 DEF vars, timers, history
<1>15. QED
  BY <1>1, <1>2, <1>4, <1>5, <1>6, <1>8, <1>9, <1>10, <1>11, <1>12, <1>13, <1>14
  DEF Next, Program, Pass, BlockedElapsed, CloseElapsed, OpenElapsed, TimerErrors

(* However the switches chatter, the motor runs no longer than its          *)
(* time-out, the run-on and two passes.                                     *)
THEOREM RunIsBounded == Spec => []MotorRunBounded
<1>1. Init => RunInv
  BY DEF Init, RunInv, MotorRunBounded, Looping
<1>2. RunInv => MotorRunBounded
  BY DEF RunInv
<1>3. QED
  BY <1>1, <1>2, RunStep, TypeCorrect, AlwaysSteered, PTL DEF Spec
-----------------------------------------------------------------------------
(* The blocked timer.  While the switches report a stuck door and the      *)
(* motor runs, doorPosition stays POS_BLOCKED, so that blockZero is not    *)
(* set again and is at least as old as the push.                           *)
BlockInv ==
  /\ pc \in {"head", "timers"} =>
       IF doorDirection # "STANDING" /\ reading = Stuck
       THEN doorPosition = POS_BLOCKED /\ stuckAge <= sinceBlockZero
       ELSE stuckAge = 0
  /\ BlockedPushBounded

(* No step of moveMotor lets a stuck door be pushed past its timer. *)
LEMMA BlockStep == TypeOK /\ BlockInv /\ [Next]_vars => BlockInv'
<1> SUFFICES ASSUME TypeOK, BlockInv, [Next]_vars PROVE BlockInv'
  OBVIOUS
<1> USE TimesAssumption
<1> USE DEF TypeOK, BlockInv, BlockedPushBounded
<1>1. ASSUME NEW pos \in Goals, NEW e \in CallErrors, NEW r \in Readings,
             NEW d \in 0..IterTicks, NEW level \in {LOW, HIGH},
             Call(pos, e, r, d, level)
      PROVE  BlockInv'
  BY <1>1 DEF Call
<1>2. ASSUME LoopDone PROVE BlockInv'
  BY <1>2 DEF LoopDone
<1>3. AtBottom # Stuck /\ AtTop # Stuck /\ Between # Stuck
  BY DEF AtBottom, AtTop, Between, Stuck
<1>4. ASSUME NEW d \in 1..IterTicks, NEW r, r # Stuck, Sense(r, d) PROVE BlockInv'
  BY <1>4 DEF Sense
<1>5. ASSUME NEW d \in 1..IterTicks, SenseBlocked(d) PROVE BlockInv'
  <2>1. CASE reading = Stuck /\ doorDirection # "STANDING"
    <3>1. /\ stuckAge' = Later(stuckAge, d)
          /\ sinceBlockZero' = Later(sinceBlockZero, d)
      BY <1>5, <2>1 DEF SenseBlocked, Sense, Since, NewlyBlocked
    <3>2. Later(stuckAge, d) <= Later(sinceBlockZero, d)
      BY <1>5, <2>1, LaterMonotone, PassFacts DEF SenseBlocked, Sense
    <3>3. QED
      BY <1>5, <2>1, <3>1, <3>2, OffBottomCases DEF SenseBlocked, Sense, TowardGoal
  <2>2. CASE ~(reading = Stuck /\ doorDirection # "STANDING")
    <3>1. stuckAge' = 0
      BY <1>5, <2>2 DEF SenseBlocked, Sense
    <3>2. 0 <= sinceBlockZero'
      BY <1>5, LaterFacts, PassFacts DEF SenseBlocked, Since, Ages
    <3>3. QED
      BY <1>5, <3>1, <3>2 DEF SenseBlocked, Sense
  <2>3. QED
    BY <2>1, <2>2
<1>6. ASSUME NEW e \in TimerErrors, TimeOut(e) PROVE BlockInv'
  BY <1>6 DEF TimeOut
<1>7. ASSUME NEW pressed \in BOOLEAN, ButtonCheck(pressed) PROVE BlockInv'
  BY <1>7 DEF ButtonCheck, BlockTimeOver, timers, history, Ages
<1>8. ASSUME Stop PROVE BlockInv'
  BY <1>8 DEF Stop
<1>9. ASSUME UNCHANGED vars PROVE BlockInv'
  BY <1>9 DEF vars, timers, history
<1>10. ASSUME NEW d \in 1..IterTicks, Pass(d) PROVE BlockInv'
  BY <1>3, <1>4, <1>5, <1>10
  DEF Pass, BottomTouched, BottomFinishing, BottomLeaving, SenseUp, SenseDriving
<1>11. QED
  BY <1>1, <1>2, <1>6, <1>7, <1>8, <1>9, <1>10
  DEF Next, Program, BlockedElapsed, CloseElapsed, OpenElapsed, TimerErrors

(* A door reported stuck without interruption is pulled at for no longer    *)
(* than t_err_block before the loop ends.                                   *)
THEOREM PushIsBounded == Spec => []BlockedPushBounded
<1>1. Init => BlockInv
  BY DEF Init, BlockInv, BlockedPushBounded
<1>2. BlockInv => BlockedPushBounded
  BY DEF BlockInv
<1>3. QED
  BY <1>1, <1>2, BlockStep, TypeCorrect, PTL DEF Spec
-----------------------------------------------------------------------------
(* The run-on at the bottom.  While it lasts, the lower end has been        *)
(* sensed for as long as downwardsTimer is old; and a closing drive that    *)
(* counts as finished after the motor ran has sensed it for the whole time. *)
BottomInv ==
  /\ Looping /\ doorDirection = "FINISHING_DOWN" =>
       reading = AtBottom /\ sinceDownwardsTimer <= bottomAge
  /\ \/ pc \in {"head", "timers"}
     \/ pc = "stop" /\ why = "reached"
     => (goal = POS_DOWN /\ doorPosition = POS_DOWN /\ runAge > 0 =>
           bottomAge > t_down_finish)
  /\ pc = "stop" /\ why = "reached" => doorPosition = goal

(* No step of moveMotor lets a drive end at the bottom unconfirmed. *)
LEMMA BottomStep == TypeOK /\ Steered /\ BottomInv /\ [Next]_vars => BottomInv'
<1> SUFFICES ASSUME TypeOK, Steered, BottomInv, [Next]_vars PROVE BottomInv'
  OBVIOUS
<1> USE TimesAssumption
<1> USE DEF TypeOK, Steered, BottomInv, Looping, Goals,
            POS_UP, POS_DOWN, POS_DRIVING, POS_BLOCKED, KLAPPENRICHTUNG
<1>1. ASSUME NEW pos \in Goals, NEW e \in CallErrors, NEW r \in Readings,
             NEW d \in 0..IterTicks, NEW level \in {LOW, HIGH},
             Call(pos, e, r, d, level)
      PROVE  BottomInv'
  BY <1>1 DEF Call
<1>2. ASSUME LoopDone PROVE BottomInv'
  BY <1>2 DEF LoopDone, timers, history
<1>3. ASSUME NEW d \in 1..IterTicks, BottomTouched(d) PROVE BottomInv'
  <2>1. bottomAge' \in Ages
    BY <1>3, LaterFacts, PassFacts DEF BottomTouched, Sense
  <2>2. 0 <= bottomAge'
    BY <2>1 DEF Ages
  <2>3. QED
    BY <1>3, <2>2 DEF BottomTouched, Sense
<1>4. ASSUME NEW d \in 1..IterTicks, BottomFinishing(d) PROVE BottomInv'
  <2>1. goal = POS_DOWN /\ reading = AtBottom /\ sinceDownwardsTimer <= bottomAge
    BY <1>4 DEF BottomFinishing, Sense
  <2>2. bottomAge' = Later(bottomAge, d)
    BY <1>4, <2>1 DEF BottomFinishing, Sense
  <2>3. /\ sinceDownwardsTimer' <= bottomAge'
        /\ sinceDownwardsTimer' \in Ages /\ bottomAge' \in Ages
    BY <1>4, <2>1, <2>2, LaterMonotone, LaterFacts, PassFacts DEF BottomFinishing
  <2>4. QED
    BY <1>4, <2>1, <2>3 DEF BottomFinishing, Sense, Ages
<1>5. ASSUME NEW d \in 1..IterTicks, BottomLeaving(d) PROVE BottomInv'
  BY <1>5 DEF BottomLeaving, Sense
<1>6. DirectionOffBottom # "FINISHING_DOWN"
  BY OffBottomCases DEF TowardGoal
<1>7. ASSUME NEW d \in 1..IterTicks, SenseBlocked(d) PROVE BottomInv'
  BY <1>6, <1>7 DEF SenseBlocked, Sense
<1>8. ASSUME NEW d \in 1..IterTicks, SenseUp(d) PROVE BottomInv'
  BY <1>8 DEF SenseUp, Sense
<1>9. ASSUME NEW d \in 1..IterTicks, SenseDriving(d) PROVE BottomInv'
  BY <1>6, <1>9 DEF SenseDriving, Sense
<1>10. ASSUME NEW e \in TimerErrors, TimeOut(e) PROVE BottomInv'
  BY <1>10 DEF TimeOut
<1>11. ASSUME NEW pressed \in BOOLEAN, ButtonCheck(pressed) PROVE BottomInv'
  BY <1>11 DEF ButtonCheck, timers, history
<1>12. ASSUME Stop PROVE BottomInv'
  BY <1>12 DEF Stop
<1>13. ASSUME UNCHANGED vars PROVE BottomInv'
  BY <1>13 DEF vars, timers, history
<1>14. QED
  BY <1>1, <1>2, <1>3, <1>4, <1>5, <1>7, <1>8, <1>9, <1>10, <1>11, <1>12, <1>13
  DEF Next, Program, Pass, BlockedElapsed, CloseElapsed, OpenElapsed, TimerErrors

(* A closing drive ends with the door down only after the lower end has     *)
(* been sensed without a gap for t_down_finish.                             *)
THEOREM BottomIsConfirmed == Spec => []BottomConfirmed
<1>1. Init => BottomInv
  BY DEF Init, BottomInv, Looping
<1>2. BottomInv => BottomConfirmed
  BY DEF BottomInv, BottomConfirmed
<1>3. QED
  BY <1>1, <1>2, BottomStep, TypeCorrect, AlwaysSteered, PTL DEF Spec
-----------------------------------------------------------------------------
(* What moveMotor knows about its outcome: errorFlag is the caller's until  *)
(* a timer elapses, and each way out of the loop fixes position and error.  *)
OutcomeInv ==
  /\ pc \in {"head", "timers"} => errorFlag = errorAtCall /\ why = "none"
  /\ pc = "stop" => why # "none"
  /\ pc = "stop" /\ why = "reached" =>
       doorPosition = goal /\ errorFlag = errorAtCall
  /\ pc = "stop" /\ why = "button" => errorFlag = errorAtCall
  /\ pc = "stop" /\ why = "timeout" =>
       doorPosition = POS_BLOCKED /\ errorFlag \in TimerErrors

(* Every step of moveMotor keeps that knowledge. *)
LEMMA OutcomeStep == TypeOK /\ OutcomeInv /\ [Next]_vars => OutcomeInv'
<1> SUFFICES ASSUME TypeOK, OutcomeInv, [Next]_vars PROVE OutcomeInv'
  OBVIOUS
<1> USE DEF TypeOK, OutcomeInv
<1>1. ASSUME NEW pos \in Goals, NEW e \in CallErrors, NEW r \in Readings,
             NEW d \in 0..IterTicks, NEW level \in {LOW, HIGH},
             Call(pos, e, r, d, level)
      PROVE  OutcomeInv'
  BY <1>1 DEF Call
<1>2. ASSUME LoopDone PROVE OutcomeInv'
  BY <1>2 DEF LoopDone
<1>3. ASSUME NEW d \in 1..IterTicks, Pass(d) PROVE OutcomeInv'
  BY <1>3 DEF Pass, BottomTouched, BottomFinishing, BottomLeaving, SenseBlocked,
     SenseUp, SenseDriving, Sense
<1>4. ASSUME NEW e \in TimerErrors, TimeOut(e) PROVE OutcomeInv'
  BY <1>4 DEF TimeOut
<1>5. ASSUME NEW pressed \in BOOLEAN, ButtonCheck(pressed) PROVE OutcomeInv'
  BY <1>5 DEF ButtonCheck
<1>6. ASSUME Stop PROVE OutcomeInv'
  BY <1>6 DEF Stop
<1>7. ASSUME UNCHANGED vars PROVE OutcomeInv'
  BY <1>7 DEF vars
<1>8. QED
  BY <1>1, <1>2, <1>3, <1>4, <1>5, <1>6, <1>7
  DEF Next, Program, BlockedElapsed, CloseElapsed, OpenElapsed, TimerErrors

(* The contract speaks of the same goals, errors and outcomes. *)
LEMMA SameVocabulary ==
  /\ Contract!POS_UP = POS_UP
  /\ Contract!Goals = Goals
  /\ Contract!ERROR_CODE = ERROR_CODE
  /\ \A g, e : Contract!Outcomes(g, e) = Outcomes(g, e)
<1>1. /\ Contract!POS_UP = POS_UP /\ Contract!POS_DOWN = POS_DOWN
      /\ Contract!POS_DRIVING = POS_DRIVING /\ Contract!POS_BLOCKED = POS_BLOCKED
  BY DEF Contract!POS_UP, POS_UP, Contract!POS_DOWN, POS_DOWN,
     Contract!POS_DRIVING, POS_DRIVING, Contract!POS_BLOCKED, POS_BLOCKED
<1>2. Contract!Goals = Goals /\ Contract!KLAPPENPOSITION = KLAPPENPOSITION
  BY <1>1 DEF Contract!Goals, Goals, Contract!KLAPPENPOSITION, KLAPPENPOSITION
<1>3. Contract!ERROR_CODE = ERROR_CODE /\ Contract!TimerErrors = TimerErrors
  BY DEF Contract!ERROR_CODE, ERROR_CODE, Contract!TimerErrors, TimerErrors
<1>4. \A p, e : Contract!Cleared(p, e) = Cleared(p, e)
  BY <1>1, <1>3 DEF Contract!Cleared, Cleared
<1>5. \A g, e : /\ Contract!Reached(g, e) = Reached(g, e)
                /\ Contract!Interrupted(e) = Interrupted(e)
  BY <1>2, <1>4 DEF Contract!Reached, Reached, Contract!Interrupted, Interrupted
<1>6. Contract!TimedOut = TimedOut
  BY <1>1, <1>3 DEF Contract!TimedOut, TimedOut
<1>7. QED
  BY <1>1, <1>2, <1>3, <1>5, <1>6 DEF Contract!Outcomes, Outcomes

(* Every step of moveMotor is a step of its contract or none: a call        *)
(* begins it, switching the motor off ends it with an allowed outcome, and  *)
(* the passes of the loop are invisible.                                    *)
LEMMA ContractStep ==
  TypeOK /\ OutcomeInv /\ [Next]_vars => [Contract!Next]_(Contract!vars)
<1> SUFFICES ASSUME TypeOK, OutcomeInv, [Next]_vars
             PROVE  [Contract!Next]_(Contract!vars)
  OBVIOUS
<1>1. ASSUME NEW pos \in Goals, NEW e \in CallErrors, NEW r \in Readings,
             NEW d \in 0..IterTicks, NEW level \in {LOW, HIGH},
             Call(pos, e, r, d, level)
      PROVE  Contract!Next
  <2>1. e \in ERROR_CODE
    BY CallErrorsAssumption
  <2>2. Contract!Begin(pos, e)
    BY <1>1, SameVocabulary DEF Call, Contract!Begin, Contract!NoResult
  <2>3. QED
    BY <2>1, <2>2, SameVocabulary DEF Contract!Next
<1>2. ASSUME Stop PROVE Contract!Next
  <2> DEFINE e == errorAtCall
             o == [why |-> why, position |-> doorPosition,
                   error |-> Cleared(doorPosition, errorFlag)]
  <2>1. o \in Outcomes(goal, e)
    <3>1. CASE why = "reached"
      BY <1>2, <3>1 DEF Stop, OutcomeInv, Outcomes, Reached
    <3>2. CASE why = "button"
      BY <1>2, <3>2 DEF Stop, OutcomeInv, Outcomes, Interrupted, TypeOK
    <3>3. CASE why = "timeout"
      BY <1>2, <3>3 DEF Stop, OutcomeInv, Outcomes, TimedOut, Cleared
    <3>4. QED
      BY <1>2, <3>1, <3>2, <3>3 DEF Stop, OutcomeInv, TypeOK
  <2>2. Contract!End(o)
    BY <1>2 DEF Stop, Contract!End, OutcomeInv
  <2>3. QED
    BY <1>2, <2>1, <2>2, SameVocabulary DEF Contract!Next, Stop
<1>3. ASSUME pc # "idle", pc' # "idle", UNCHANGED <<goal, errorAtCall>>
      PROVE  UNCHANGED Contract!vars
  BY <1>3 DEF Contract!vars
<1>4. ASSUME LoopDone PROVE UNCHANGED Contract!vars
  BY <1>3, <1>4 DEF LoopDone
<1>5. ASSUME NEW d \in 1..IterTicks, Pass(d) PROVE UNCHANGED Contract!vars
  BY <1>3, <1>5 DEF Pass, BottomTouched, BottomFinishing, BottomLeaving,
     SenseBlocked, SenseUp, SenseDriving, Sense
<1>6. ASSUME NEW e \in TimerErrors, TimeOut(e) PROVE UNCHANGED Contract!vars
  BY <1>3, <1>6 DEF TimeOut
<1>7. ASSUME NEW pressed \in BOOLEAN, ButtonCheck(pressed)
      PROVE  UNCHANGED Contract!vars
  BY <1>3, <1>7 DEF ButtonCheck
<1>8. ASSUME UNCHANGED vars PROVE UNCHANGED Contract!vars
  BY <1>8 DEF vars, Contract!vars
<1>9. QED
  BY <1>1, <1>2, <1>4, <1>5, <1>6, <1>7, <1>8
  DEF Next, Program, BlockedElapsed, CloseElapsed, OpenElapsed, TimerErrors

(* moveMotor implements the safety part of its contract: every call returns *)
(* only an allowed outcome, judged by the errorFlag it was called with.     *)
THEOREM ImplementsContract ==
  Spec => Contract!Init /\ [][Contract!Next]_(Contract!vars)
<1>1. Init => OutcomeInv
  BY DEF Init, OutcomeInv
<1>2. Init => Contract!Init
  BY SameVocabulary DEF Init, Contract!Init, Contract!NoResult
<1>3. QED
  BY <1>1, <1>2, OutcomeStep, ContractStep, TypeCorrect, PTL DEF Spec
=============================================================================
