------------------------------- MODULE Global -------------------------------
(***************************************************************************)
(* The enumerations of include/global.h that the other modules share.      *)
(* Enumerators that the code packs into bits or computes with keep their   *)
(* numbers; the others are strings of the same name.                       *)
(***************************************************************************)
EXTENDS Integers

(* enum KLAPPENPOSITION: where the door is, or where it shall go. *)
POS_UP      == 0
POS_DOWN    == 1
POS_DRIVING == 2
POS_BLOCKED == 3
KLAPPENPOSITION == {POS_UP, POS_DOWN, POS_DRIVING, POS_BLOCKED}

(* The positions moveMotor can be asked for. *)
Goals == {POS_UP, POS_DOWN}

(* enum KLAPPENRICHTUNG: what moveMotor is doing with the motor. *)
KLAPPENRICHTUNG == {"MOVING_DOWN", "FINISHING_DOWN", "MOVING_UP", "STANDING"}

(* enum ERROR_CODE. *)
ERROR_CODE == {"NO_ERROR", "TIMER_BLOCKED_ELAPSED", "TIMER_OPEN_ELAPSED",
               "TIMER_CLOSE_ELAPSED", "WRONG_LDR_FLAG", "WRONG_ALARM_FLAG",
               "POS_BLOCKED_CANNOT_BE_SET", "WRONG_ALARM_MODE", "UNDEFINED"}

(* enum openingMode: what opens or closes the door on a day. *)
LICHT      == 0
ZEIT       == 1
LICHT_ZEIT == 2
NICHT      == 3
openingMode == {LICHT, ZEIT, LICHT_ZEIT, NICHT}

(***************************************************************************)
(* The two end switches, read as the pair <<up, low>>.  moveMotor and      *)
(* statusabfrage decode the same four readings.                            *)
(***************************************************************************)
Readings    == {0, 1} \X {0, 1}
AtBottom    == <<0, 0>>
Stuck       == <<0, 1>>
AtTop       == <<1, 1>>
Between     == <<1, 0>>
=============================================================================
