---------------------------- MODULE MoveOutcomes ----------------------------
(***************************************************************************)
(* What moveMotor can hand back to its caller: where the door is believed  *)
(* to be, the error code, and why the drive ended.  MotorDrive is shown to *)
(* produce nothing else (MoveContract), and Controller relies on it.       *)
(***************************************************************************)
EXTENDS Global

(* The three errors moveMotor itself raises and may take back. *)
TimerErrors == {"TIMER_BLOCKED_ELAPSED", "TIMER_OPEN_ELAPSED",
                "TIMER_CLOSE_ELAPSED"}

(* A timer error is taken back unless the door ends up blocked. *)
Cleared(p, e) ==
  IF p # POS_BLOCKED /\ e \in TimerErrors THEN "NO_ERROR" ELSE e

(* The outcomes of moveMotor(g) called with errorFlag = e: the goal was     *)
(* reached, a button interrupted the drive somewhere, or a timer elapsed.   *)
Reached(g, e) == {[why |-> "reached", position |-> g, error |-> Cleared(g, e)]}
Interrupted(e) ==
  {[why |-> "button", position |-> p, error |-> Cleared(p, e)] : p \in KLAPPENPOSITION}
TimedOut ==
  {[why |-> "timeout", position |-> POS_BLOCKED, error |-> x] : x \in TimerErrors}

Outcomes(g, e) == Reached(g, e) \cup Interrupted(e) \cup TimedOut
=============================================================================
