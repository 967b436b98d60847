---------------------------- MODULE MoveContract ----------------------------
(***************************************************************************)
(* The abstract specification of moveMotor: a call is active for a while   *)
(* and then returns one of the Outcomes.  Nothing is said about how the    *)
(* motor is driven in between; module MotorDrive implements this.          *)
(***************************************************************************)
EXTENDS MoveOutcomes

VARIABLES
  active,   (* a call of moveMotor has not returned yet            *)
  goal,     (* its argument                                        *)
  error,    (* errorFlag: at the call while active, then returned  *)
  result    (* the outcome of the last call                        *)

vars == <<active, goal, error, result>>

NoResult == [why |-> "none", position |-> POS_UP, error |-> "NO_ERROR"]

Init ==
  /\ active = FALSE
  /\ goal \in Goals
  /\ error = "NO_ERROR"
  /\ result = NoResult

(* The caller's code may have changed errorFlag since the last return. *)
Begin(g, e) ==
  /\ ~active
  /\ active' = TRUE
  /\ goal' = g
  /\ error' = e
  /\ result' = NoResult

End(o) ==
  /\ active
  /\ active' = FALSE
  /\ error' = o.error
  /\ result' = o
  /\ UNCHANGED goal

Next ==
  \/ \E g \in Goals, e \in ERROR_CODE : Begin(g, e)
  \/ \E o \in Outcomes(goal, error) : End(o)

(* A call returns: the caller can count on getting the processor back. *)
Spec == Init /\ [][Next]_vars /\ WF_vars(\E o \in Outcomes(goal, error) : End(o))
=============================================================================
