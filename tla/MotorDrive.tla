----------------------------- MODULE MotorDrive -----------------------------
(***************************************************************************)
(* moveMotor of main.cpp: the loop that drives the door with two motor     *)
(* outputs, two end switches, three timers and the buttons, up to the      *)
(* point where the motor is stopped.  What moveMotor does afterwards       *)
(* (remembering the move, statusabfrage) belongs to module Controller.     *)
(*                                                                         *)
(* One pass of the while loop is a Sense step (delay, read the switches,   *)
(* steer) followed by one timer or button check.  The switches may give    *)
(* any reading on any pass: nothing is assumed about the door's mechanics. *)
(*                                                                         *)
(* A variable that holds an old value of millis() is represented by its    *)
(* age, millis() minus that value, because the code only ever uses the     *)
(* difference.  Ages stop growing at AgeCap, above everything they are     *)
(* compared with; no other bound is needed, calls may follow without end.  *)
(***************************************************************************)
EXTENDS MoveOutcomes

CONSTANTS
  t_err_open, t_err_close, t_err_block, t_down_finish,  (* in clock ticks *)
  IterTicks,         (* the longest pass of the loop, in ticks            *)
  AgeCap,            (* where ages stop growing                           *)
  CallErrors,        (* the errors a caller may leave in errorFlag        *)
  M_FWD, M_BACK, LED (* the output pins, all 2 in global.h                *)

ASSUME TimesAssumption ==
  /\ t_err_open \in Nat /\ t_err_close \in Nat
  /\ t_err_block \in Nat /\ t_down_finish \in Nat
  /\ IterTicks \in Nat \ {0}
ASSUME PinsAssumption == M_FWD \in Nat /\ M_BACK \in Nat /\ LED \in Nat

ASSUME CallErrorsAssumption == CallErrors \subseteq ERROR_CODE

(* What a run of the motor may last. *)
LongestRun == t_err_close + t_down_finish + 2 * IterTicks

(* The cap lies above everything an age is compared with. *)
ASSUME AgeCapAssumption ==
  /\ AgeCap \in Nat
  /\ AgeCap > LongestRun /\ AgeCap > t_err_open /\ AgeCap > t_err_block

LOW  == 0
HIGH == 1

VARIABLES
  pc,             (* "idle", "head" (loop condition), "timers", "stop"    *)
  goal,           (* the argument pos                                     *)
  doorPosition, doorDirection, errorFlag,
  pin,            (* the levels written with digitalWrite                 *)
  sinceMoveZero, sinceBlockZero, sinceDownwardsTimer,
  reading,        (* the locals up and low                                *)
  (* History, read by no action of the code: *)
  why,            (* how the last drive ended                             *)
  errorAtCall,    (* errorFlag when moveMotor was called                  *)
  runAge,         (* time since the motor was switched on                 *)
  bottomAge,      (* time both switches have read AtBottom without a gap  *)
  stuckAge        (* time the motor ran while the switches read Stuck     *)

timers  == <<sinceMoveZero, sinceBlockZero, sinceDownwardsTimer>>
history == <<runAge, bottomAge, stuckAge>>
vars == <<pc, goal, doorPosition, doorDirection, errorFlag, pin, timers,
          reading, why, errorAtCall, history>>

Pins == {M_FWD, M_BACK, LED}
Ages == 0..AgeCap

(* One type invariant for the state of moveMotor. *)
TypeOK ==
  /\ pc \in {"idle", "head", "timers", "stop"}
  /\ goal \in Goals
  /\ doorPosition \in KLAPPENPOSITION
  /\ doorDirection \in KLAPPENRICHTUNG
  /\ errorFlag \in ERROR_CODE /\ errorAtCall \in ERROR_CODE
  /\ pin \in [Pins -> {LOW, HIGH}]
  /\ sinceMoveZero \in Ages /\ sinceBlockZero \in Ages
  /\ sinceDownwardsTimer \in Ages
  /\ reading \in Readings
  /\ why \in {"none", "reached", "button", "timeout"}
  /\ runAge \in Ages /\ bottomAge \in Ages /\ stuckAge \in Ages

Later(age, d) == IF age + d > AgeCap THEN AgeCap ELSE age + d

Init ==
  /\ pc = "idle" /\ goal \in Goals
  /\ doorPosition = POS_UP /\ doorDirection = "STANDING"
  /\ errorFlag = "NO_ERROR" /\ errorAtCall = "NO_ERROR"
  /\ pin = [p \in Pins |-> LOW]
  /\ sinceMoveZero = 0 /\ sinceBlockZero = 0 /\ sinceDownwardsTimer = 0
  /\ reading = AtBottom
  /\ why = "none"
  /\ runAge = 0 /\ bottomAge = 0 /\ stuckAge = 0
-----------------------------------------------------------------------------
(* Mutant: the outputs of the two directions are swapped. *)
OutputsSwapped(dir) ==
  [pin EXCEPT ![M_FWD] = IF dir = "MOVING_UP" THEN LOW ELSE HIGH,
              ![M_BACK] = IF dir = "MOVING_UP" THEN HIGH ELSE LOW]

(* The motor outputs for a direction, in the order the code writes them:    *)
(* on a shared pin the level of M_BACK remains.                             *)
Outputs(dir) ==
  [pin EXCEPT ![M_FWD] = IF dir = "MOVING_UP" THEN HIGH ELSE LOW,
              ![M_BACK] = IF dir = "MOVING_UP" THEN LOW ELSE HIGH]

(* Mutant: the two branches on pos are swapped. *)
AwayFromGoal == IF goal = POS_DOWN THEN "MOVING_UP" ELSE "MOVING_DOWN"

TowardGoal == IF goal = POS_DOWN THEN "MOVING_DOWN" ELSE "MOVING_UP"

(* Mutant: a stuck door is entered as an enumerator that does not exist. *)
EntryPositionOutOfRange(r) ==
  CASE r = AtBottom -> POS_DOWN
    [] r = AtTop    -> POS_UP
    [] r = Stuck    -> POS_BLOCKED + 1
    [] OTHER        -> POS_DRIVING

(* A door that is stuck at the call counts as driving, so that the loop    *)
(* starts the timer of the blocked state.                                  *)
EntryPosition(r) ==
  CASE r = AtBottom -> POS_DOWN
    [] r = AtTop    -> POS_UP
    [] OTHER        -> POS_DRIVING

(* moveMotor(pos) is called by code that may have set errorFlag and lit or  *)
(* darkened the LED; time d has passed since the last return.               *)
Call(pos, e, r, d, level) ==
  /\ pc = "idle"
  /\ pc' = "head"
  /\ goal' = pos
  /\ errorFlag' = e /\ errorAtCall' = e
  /\ reading' = r
  /\ doorPosition' = EntryPosition(r)
  /\ doorDirection' = "STANDING"
  /\ sinceMoveZero' = Later(sinceMoveZero, d)
  /\ sinceBlockZero' = Later(sinceBlockZero, d)
  /\ sinceDownwardsTimer' = Later(sinceDownwardsTimer, d)
  /\ why' = "none"
  /\ runAge' = 0 /\ bottomAge' = 0 /\ stuckAge' = 0
  /\ pin' = [pin EXCEPT ![LED] = level]

(* while (doorPosition != pos) ends. *)
LoopDone ==
  /\ pc = "head" /\ doorPosition = goal
  /\ pc' = "stop" /\ why' = "reached"
  /\ UNCHANGED <<goal, doorPosition, doorDirection, errorFlag, pin, timers,
                 reading, errorAtCall, history>>
-----------------------------------------------------------------------------
(* The part common to the branches on the end switches: a pass that took d *)
(* ticks reads r.                                                          *)
Sense(r, d) ==
  /\ pc = "head" /\ doorPosition # goal
  /\ pc' = "timers"
  /\ reading' = r
  /\ runAge' = IF doorDirection = "STANDING" THEN 0 ELSE Later(runAge, d)
  /\ bottomAge' = IF r = AtBottom /\ reading = AtBottom
                  THEN Later(bottomAge, d) ELSE 0
  /\ stuckAge' = IF r = Stuck /\ reading = Stuck /\ doorDirection # "STANDING"
                 THEN Later(stuckAge, d) ELSE 0
  /\ UNCHANGED <<goal, errorFlag, why, errorAtCall>>

(* A timer that the branch restarts or leaves running. *)
Since(restart, age, d) == IF restart THEN 0 ELSE Later(age, d)

(* The lower end is reached going down: drive on for t_down_finish. *)
BottomTouched(d) ==
  /\ Sense(AtBottom, d)
  /\ doorDirection = "MOVING_DOWN"
  /\ doorDirection' = "FINISHING_DOWN"
  /\ sinceDownwardsTimer' = 0
  /\ sinceMoveZero' = Later(sinceMoveZero, d)
  /\ sinceBlockZero' = Later(sinceBlockZero, d)
  /\ UNCHANGED <<doorPosition, pin>>

(* Still at the lower end: the door is down once the run-on time is over. *)
BottomFinishing(d) ==
  /\ Sense(AtBottom, d)
  /\ doorDirection = "FINISHING_DOWN"
  /\ sinceDownwardsTimer' = Later(sinceDownwardsTimer, d)
  /\ doorPosition' = IF sinceDownwardsTimer' > t_down_finish
                     THEN POS_DOWN ELSE doorPosition
  /\ sinceMoveZero' = Later(sinceMoveZero, d)
  /\ sinceBlockZero' = Later(sinceBlockZero, d)
  /\ UNCHANGED <<doorDirection, pin>>

(* At the lower end without having moved down: drive up. *)
BottomLeaving(d) ==
  /\ Sense(AtBottom, d)
  /\ doorDirection \in {"MOVING_UP", "STANDING"}
  /\ doorPosition' = POS_DOWN
  /\ doorDirection' = "MOVING_UP"
  /\ pin' = Outputs("MOVING_UP")
  /\ sinceMoveZero' = Since(doorDirection # "MOVING_UP", sinceMoveZero, d)
  /\ sinceBlockZero' = Later(sinceBlockZero, d)
  /\ sinceDownwardsTimer' = Later(sinceDownwardsTimer, d)

(* Mutant: leaving the lower end again does not restart the run-on. *)
DirectionKept ==
  IF doorDirection = "STANDING" THEN TowardGoal ELSE doorDirection

(* Off the lower end, a standing motor starts toward the goal and a run-on *)
(* goes back to moving down.                                               *)
DirectionOffBottom ==
  CASE doorDirection = "STANDING"       -> TowardGoal
    [] doorDirection = "FINISHING_DOWN" -> "MOVING_DOWN"
    [] OTHER                            -> doorDirection

(* Only a standing motor is switched on, and only then moveZero is set. *)
StartIfStanding(d) ==
  /\ sinceMoveZero' = Since(doorDirection = "STANDING", sinceMoveZero, d)
  /\ pin' = IF doorDirection = "STANDING" THEN Outputs(TowardGoal) ELSE pin

(* Mutant: every pass in the blocked state restarts its timer. *)
BlockedOnEveryPass == TRUE

NewlyBlocked == doorPosition # POS_BLOCKED

(* Cord slack away from the lower end: the door hangs, the motor goes on. *)
SenseBlocked(d) ==
  /\ Sense(Stuck, d)
  /\ doorPosition' = POS_BLOCKED
  /\ doorDirection' = DirectionOffBottom
  /\ StartIfStanding(d)
  /\ sinceBlockZero' = Since(NewlyBlocked, sinceBlockZero, d)
  /\ sinceDownwardsTimer' = Later(sinceDownwardsTimer, d)

(* Mutant: a run-on that ends at the top counts as a new drive. *)
StartsDownAfterRunOn == doorDirection # "MOVING_DOWN"

StartsDown == doorDirection \notin {"MOVING_DOWN", "FINISHING_DOWN"}

(* At the upper end: drive down, whatever the goal is. *)
SenseUp(d) ==
  /\ Sense(AtTop, d)
  /\ doorPosition' = POS_UP
  /\ doorDirection' = "MOVING_DOWN"
  /\ pin' = Outputs("MOVING_DOWN")
  /\ sinceMoveZero' = Since(StartsDown, sinceMoveZero, d)
  /\ sinceBlockZero' = Later(sinceBlockZero, d)
  /\ sinceDownwardsTimer' = Later(sinceDownwardsTimer, d)

(* Mutant: between the ends a standing motor is not started. *)
SenseDrivingIdle(d) ==
  /\ Sense(Between, d)
  /\ doorPosition' = POS_DRIVING
  /\ doorDirection' = IF doorDirection = "FINISHING_DOWN" THEN "MOVING_DOWN"
                                                        ELSE doorDirection
  /\ UNCHANGED pin
  /\ sinceMoveZero' = Later(sinceMoveZero, d)
  /\ sinceBlockZero' = Later(sinceBlockZero, d)
  /\ sinceDownwardsTimer' = Later(sinceDownwardsTimer, d)

(* Between the ends. *)
SenseDriving(d) ==
  /\ Sense(Between, d)
  /\ doorPosition' = POS_DRIVING
  /\ doorDirection' = DirectionOffBottom
  /\ StartIfStanding(d)
  /\ sinceBlockZero' = Later(sinceBlockZero, d)
  /\ sinceDownwardsTimer' = Later(sinceDownwardsTimer, d)
-----------------------------------------------------------------------------
(* The checks at the end of a pass, in the order of the code. *)
BlockTimeOver == doorPosition = POS_BLOCKED /\ sinceBlockZero > t_err_block
CloseTimeOver == doorDirection = "MOVING_DOWN" /\ sinceMoveZero > t_err_close
(* The code compares with t_err_close here too. *)
OpenTimeOver  == doorDirection = "MOVING_UP" /\ sinceMoveZero > t_err_close

(* One of the timers has elapsed: error e, LED on, leave the loop. *)
TimeOut(e) ==
  /\ pc = "timers"
  /\ pc' = "stop" /\ why' = "timeout"
  /\ errorFlag' = e
  /\ doorPosition' = POS_BLOCKED
  /\ pin' = [pin EXCEPT ![LED] = HIGH]
  /\ UNCHANGED <<goal, doorDirection, timers, reading, errorAtCall, history>>

BlockedElapsed == BlockTimeOver /\ TimeOut("TIMER_BLOCKED_ELAPSED")
CloseElapsed == ~BlockTimeOver /\ CloseTimeOver /\ TimeOut("TIMER_CLOSE_ELAPSED")
OpenElapsed == ~BlockTimeOver /\ OpenTimeOver /\ TimeOut("TIMER_OPEN_ELAPSED")

(* No timer has elapsed: a pressed button leaves the loop, none repeats it. *)
ButtonCheck(pressed) ==
  /\ pc = "timers"
  /\ ~BlockTimeOver /\ ~CloseTimeOver /\ ~OpenTimeOver
  /\ pc' = IF pressed THEN "stop" ELSE "head"
  /\ why' = IF pressed THEN "button" ELSE why
  /\ UNCHANGED <<goal, doorPosition, doorDirection, errorFlag, pin, timers,
                 reading, errorAtCall, history>>

(* Mutant: the error of an earlier move survives a successful one. *)
StopKeepingError ==
  /\ pc = "stop"
  /\ pc' = "idle"
  /\ pin' = [pin EXCEPT ![M_FWD] = LOW, ![M_BACK] = LOW]
  /\ doorDirection' = "STANDING"
  /\ UNCHANGED <<goal, doorPosition, errorFlag, timers, reading, why,
                 errorAtCall, history>>

(* After the loop: take back a timer error, switch the motor off. *)
Stop ==
  /\ pc = "stop"
  /\ pc' = "idle"
  /\ errorFlag' = Cleared(doorPosition, errorFlag)
  /\ pin' = [pin EXCEPT ![M_FWD] = LOW, ![M_BACK] = LOW]
  /\ doorDirection' = "STANDING"
  /\ UNCHANGED <<goal, doorPosition, timers, reading, why, errorAtCall, history>>
-----------------------------------------------------------------------------
Pass(d) ==
  \/ BottomTouched(d) \/ BottomFinishing(d) \/ BottomLeaving(d)
  \/ SenseBlocked(d) \/ SenseUp(d) \/ SenseDriving(d)

Program ==
  \/ LoopDone
  \/ \E d \in 1..IterTicks : Pass(d)
  \/ BlockedElapsed \/ CloseElapsed \/ OpenElapsed
  \/ \E pressed \in BOOLEAN : ButtonCheck(pressed)
  \/ Stop

Next ==
  \/ \E pos \in Goals, e \in CallErrors, r \in Readings, d \in 0..IterTicks,
        level \in {LOW, HIGH} : Call(pos, e, r, d, level)
  \/ Program

(* The processor keeps executing a called function. *)
Spec == Init /\ [][Next]_vars /\ WF_vars(Program)
-----------------------------------------------------------------------------
(* On every path through the loop the levels written to the motor outputs   *)
(* say what doorDirection says, and both are low when moveMotor returns,    *)
(* after a time-out that has lit the LED too.  It is meant for any pins,    *)
(* shared ones as compiled included: M_BACK is written last, so it decides  *)
(* a shared pin.  The LED may have such a pin only while the motor has not  *)
(* been started yet, and between a time-out and the stop.                   *)
OutputsMatchDirection ==
  /\ pc = "idle" => doorDirection = "STANDING"
  /\ \A p \in {M_FWD, M_BACK} :
       pc = "idle" \/ (pc # "stop" /\ (p = LED => doorDirection # "STANDING")) =>
         (pin[p] = HIGH <=>
            doorDirection \in IF p = M_BACK THEN {"MOVING_DOWN", "FINISHING_DOWN"}
                                           ELSE {"MOVING_UP"})

(* Whenever the loop is going to make another pass, a running motor runs    *)
(* toward the goal.  The branches for the ends steer without looking at the *)
(* goal (the top always steers down), so this rests on the loop ending      *)
(* before the next pass.                                                    *)
DrivesTowardGoal ==
  pc = "head" /\ doorPosition # goal =>
    doorDirection \in CASE goal = POS_UP   -> {"STANDING", "MOVING_UP"}
                        [] goal = POS_DOWN -> {"STANDING", "MOVING_DOWN",
                                               "FINISHING_DOWN"}

(* The motor runs no longer than the time-out, the run-on at the bottom and *)
(* the two passes that notice them: however the switches chatter, no branch *)
(* extends a drive by restarting its timer.                                 *)
MotorRunBounded == doorDirection # "STANDING" => runAge <= LongestRun

(* The motor does not go on pulling at a door that has been reported stuck  *)
(* without interruption for longer than t_err_block.                        *)
BlockedPushBounded == pc = "head" => stuckAge <= t_err_block

(* A closing drive reports "down" only after the lower end has been sensed  *)
(* without a gap for the whole run-on time; only a door found at the bottom *)
(* before the motor ran is believed at once.                                *)
BottomConfirmed ==
  pc = "stop" /\ why = "reached" /\ goal = POS_DOWN /\ runAge > 0 =>
    bottomAge > t_down_finish

(* A call of moveMotor returns, whatever the switches and buttons do. *)
MoveReturns == pc # "idle" ~> pc = "idle"

(* moveMotor implements its contract: each call ends with exactly one of    *)
(* the outcomes of MoveOutcomes, judged by the errorFlag it was called with. *)
Contract ==
  INSTANCE MoveContract WITH
    active <- pc # "idle",
    error  <- IF pc = "idle" THEN errorFlag ELSE errorAtCall,
    result <- IF pc = "idle" /\ why # "none"
              THEN [why |-> why, position |-> doorPosition, error |-> errorFlag]
              ELSE [why |-> "none", position |-> POS_UP, error |-> "NO_ERROR"]
ContractSpec == Contract!Spec
=============================================================================
