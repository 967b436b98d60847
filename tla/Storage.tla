------------------------------ MODULE Storage -------------------------------
(***************************************************************************)
(* The flash store (Preferences "storage") one store at a time: main.cpp   *)
(* writes a setting as several putBytes and putInt calls, and the supply   *)
(* may fail between any two of them.  Controller takes these groups as     *)
(* single steps; this module says what a restart finds if they are not.    *)
(*                                                                         *)
(* pc names the store that comes next, "running" is any code that stores   *)
(* nothing.  The RAM variables carry the names of the globals; "off" is    *)
(* deep sleep as well as no supply, in both the globals are lost.          *)
(***************************************************************************)
EXTENDS MoveOutcomes

CONSTANTS
  WeekDays, Entries, buf_o, buf_c,
  DayMasks,   (* bound: the sets of weekdays a user picks                   *)
  Times       (* bound: the values of t_now, with which moves are dated     *)

ASSUME StorageAssumption ==
  /\ buf_o \in Entries /\ buf_c \in Entries
  /\ DayMasks \subseteq SUBSET WeekDays
  /\ 0 \in Times

VARIABLES
  pc,
  memory,         (* the keys of the store                                  *)
  alarms,         (* openingAlarms and closingAlarms                        *)
  lastMove, errorFlag,
  F_init_NOX, F_init_last_move, F_init_flag

ram == <<alarms, lastMove, errorFlag, F_init_NOX, F_init_last_move, F_init_flag>>
vars == <<pc, memory, ram>>

Table == INSTANCE AlarmTable WITH table <- alarms
Directions == Table!Directions
Tables == [Directions -> [WeekDays -> Entries]]
Defaults == Table!Defaults

Memory ==
  [alarms : Tables, init_alarm : BOOLEAN, lastMove : Times,
   init_last_move : BOOLEAN, error : ERROR_CODE, init_NOX : BOOLEAN,
   init_flag : BOOLEAN]

(* The stores inside a function; the names follow the keys. *)
Storing == {"default open", "default close", "save open", "save close",
            "save init", "last move", "init_last_move", "error", "init_flag",
            "NOX error"}

(* One type invariant. *)
TypeOK ==
  /\ pc \in {"off", "running"} \cup Storing
  /\ memory \in Memory
  /\ alarms \in Tables /\ lastMove \in Times /\ errorFlag \in ERROR_CODE
  /\ F_init_NOX \in BOOLEAN /\ F_init_last_move \in BOOLEAN /\ F_init_flag \in BOOLEAN

(* The globals before readValuesFromFlash. *)
RamLost ==
  /\ alarms' = Defaults /\ lastMove' = 0 /\ errorFlag' = "NO_ERROR"
  /\ F_init_NOX' = FALSE /\ F_init_last_move' = FALSE /\ F_init_flag' = FALSE

(* A new device: the keys are absent, which the getters answer with 0 and   *)
(* the fields below with what the globals are initialised to.               *)
Init ==
  /\ pc = "off"
  /\ memory = [alarms |-> Defaults, init_alarm |-> FALSE, lastMove |-> 0,
               init_last_move |-> FALSE, error |-> "NO_ERROR",
               init_NOX |-> FALSE, init_flag |-> FALSE]
  /\ alarms = Defaults /\ lastMove = 0 /\ errorFlag = "NO_ERROR"
  /\ F_init_NOX = FALSE /\ F_init_last_move = FALSE /\ F_init_flag = FALSE
-----------------------------------------------------------------------------
(* readValuesFromFlash: what a restart makes of a store m. *)
readAlarms(m) == IF m.init_alarm THEN m.alarms ELSE Defaults
(* Mutant: without a stored move there is no default. *)
readLastMoveUnset(m) == IF m.init_last_move THEN m.lastMove ELSE -1

readLastMove(m) == IF m.init_last_move THEN m.lastMove ELSE 0
readError(m) == IF m.init_NOX THEN m.error ELSE "NO_ERROR"

readValuesFromFlash ==
  /\ pc = "off"
  /\ alarms' = readAlarms(memory)
  /\ lastMove' = readLastMove(memory)
  /\ errorFlag' = readError(memory)
  /\ F_init_NOX' = memory.init_NOX
  /\ F_init_last_move' = memory.init_last_move
  /\ F_init_flag' = memory.init_flag
  /\ pc' = IF memory.init_alarm THEN "running" ELSE "default open"
  /\ UNCHANGED memory

(* One store: nothing else changes, and the supply may fail before and after. *)
put(here, m, there) ==
  /\ pc = here /\ pc' = there
  /\ memory' = m
  /\ UNCHANGED ram

putTable(d) == [memory EXCEPT !.alarms[d] = alarms[d]]

(* As long as no alarm was ever saved the defaults are stored at each start. *)
storeDefaults ==
  \/ put("default open", putTable("MODESET_OPENING"), "default close")
  \/ put("default close", putTable("MODESET_CLOSING"), "running")
-----------------------------------------------------------------------------
(* Mutant: both tables get the edited entry. *)
EditedBoth(d, days, e) ==
  [x \in Directions |-> [w \in WeekDays |-> IF w \in days THEN e ELSE alarms[x][w]]]

(* The loop of saveAlarmValues: only the direction of modeset is edited. *)
Edited(d, days, e) ==
  [alarms EXCEPT ![d] = [w \in WeekDays |-> IF w \in days THEN e ELSE @[w]]]

(* Mutant: init_alarm is not stored. *)
storeAlarmsNoInit ==
  \/ put("save open", putTable("MODESET_OPENING"), "save close")
  \/ put("save close", putTable("MODESET_CLOSING"), "error")

(* Page 900 calls saveAlarmValues, which stores both tables and the flag    *)
(* that there are tables, and then statusabfrage.                           *)
saveAlarmValues(d, days, e) ==
  /\ pc = "running" /\ F_init_NOX /\ errorFlag = "NO_ERROR"
  /\ alarms' = Edited(d, days, e)
  /\ pc' = "save open"
  /\ UNCHANGED <<memory, lastMove, errorFlag, F_init_NOX, F_init_last_move,
                 F_init_flag>>
storeAlarms ==
  \/ put("save open", putTable("MODESET_OPENING"), "save close")
  \/ put("save close", putTable("MODESET_CLOSING"), "save init")
  \/ put("save init", [memory EXCEPT !.init_alarm = TRUE], "error")

(* Page 900 at the end of the wizard: init_NOX, then NO_ERROR. *)
finishWizard ==
  /\ pc = "running" /\ ~F_init_NOX /\ errorFlag = "NO_ERROR"
  /\ F_init_NOX' = TRUE
  /\ memory' = [memory EXCEPT !.init_NOX = TRUE]
  /\ pc' = "NOX error"
  /\ UNCHANGED <<alarms, lastMove, errorFlag, F_init_last_move, F_init_flag>>
storeNoError == put("NOX error", [memory EXCEPT !.error = "NO_ERROR"], "error")
-----------------------------------------------------------------------------
(* Mutant: the flag that there is a last move is not stored. *)
storeMoveNoInit ==
  \/ put("last move", [memory EXCEPT !.lastMove = lastMove], "init_last_move")
  \/ put("init_last_move", memory, "error")

(* The end of moveMotor: the date of the move, its position (whose key is   *)
(* too long, so that nothing is stored), and on the first move a flag.  The *)
(* global copy of that flag is not set.                                     *)
moveMotor(o, t_now) ==
  /\ pc = "running"
  /\ lastMove' = t_now /\ errorFlag' = o.error
  /\ pc' = "last move"
  /\ UNCHANGED <<memory, alarms, F_init_NOX, F_init_last_move, F_init_flag>>
storeMove ==
  \/ put("last move", [memory EXCEPT !.lastMove = lastMove], "init_last_move")
  \/ put("init_last_move",
         IF F_init_last_move THEN memory ELSE [memory EXCEPT !.init_last_move = TRUE],
         "error")

(* activateLDR and alarmWakeupHandling on a flag that cannot be. *)
wrongFlag(e) ==
  /\ pc = "running" /\ e \in {"WRONG_LDR_FLAG", "WRONG_ALARM_FLAG"}
  /\ errorFlag' = e /\ pc' = "error"
  /\ UNCHANGED <<memory, alarms, lastMove, F_init_NOX, F_init_last_move,
                 F_init_flag>>

(* Mutant: only errors are stored, not that there is none. *)
statusabfrageErrorsOnly(stuck) ==
  /\ pc \in {"error", "running"}
  /\ errorFlag' = IF stuck THEN "TIMER_BLOCKED_ELAPSED" ELSE errorFlag
  /\ memory' = IF errorFlag' = "NO_ERROR" THEN memory
               ELSE [memory EXCEPT !.error = errorFlag']
  /\ pc' = IF errorFlag' = "NO_ERROR" THEN "init_flag" ELSE "running"
  /\ UNCHANGED <<alarms, lastMove, F_init_NOX, F_init_last_move, F_init_flag>>

(* statusabfrage, called from anywhere: the error code is stored whether    *)
(* there is one or not; without one a setNext...Alarm follows.              *)
statusabfrage(stuck) ==
  /\ pc \in {"error", "running"}
  /\ errorFlag' = IF stuck THEN "TIMER_BLOCKED_ELAPSED" ELSE errorFlag
  /\ memory' = [memory EXCEPT !.error = errorFlag']
  /\ pc' = IF errorFlag' = "NO_ERROR" THEN "init_flag" ELSE "running"
  /\ UNCHANGED <<alarms, lastMove, F_init_NOX, F_init_last_move, F_init_flag>>

setNextAlarm ==
  /\ pc = "init_flag" /\ pc' = "running"
  /\ F_init_flag' = TRUE
  /\ memory' = IF F_init_flag THEN memory ELSE [memory EXCEPT !.init_flag = TRUE]
  /\ UNCHANGED <<alarms, lastMove, errorFlag, F_init_NOX, F_init_last_move>>

(* A key on page 002. *)
errorKey ==
  /\ pc = "running" /\ errorFlag # "NO_ERROR"
  /\ errorFlag' = "NO_ERROR"
  /\ memory' = [memory EXCEPT !.error = "NO_ERROR"]
  /\ UNCHANGED <<pc, alarms, lastMove, F_init_NOX, F_init_last_move, F_init_flag>>
-----------------------------------------------------------------------------
(* Deep sleep from code that stores nothing, or a failure of the supply at  *)
(* any moment.                                                              *)
Off ==
  /\ pc # "off" /\ pc' = "off"
  /\ RamLost
  /\ UNCHANGED memory

Settings ==
  \/ \E d \in Directions, days \in DayMasks, e \in Entries : saveAlarmValues(d, days, e)
  \/ storeAlarms
  \/ finishWizard \/ storeNoError

Errors ==
  \/ \E e \in ERROR_CODE : wrongFlag(e)
  \/ \E stuck \in BOOLEAN : statusabfrage(stuck)
  \/ errorKey

Next ==
  \/ readValuesFromFlash \/ storeDefaults
  \/ Settings
  \/ \E pos \in Goals, t \in Times :
       \E o \in Outcomes(pos, errorFlag) : moveMotor(o, t)
  \/ storeMove
  \/ Errors \/ setNextAlarm
  \/ Off

Spec == Init /\ [][Next]_vars
-----------------------------------------------------------------------------
(* The alarms that a restart would find change in one step per save, in the *)
(* direction that was edited, and in no other way, although a save is three *)
(* stores: the first save becomes visible with init_alarm, a later one with *)
(* the one table in which it differs from the store.                        *)
Durable == INSTANCE AlarmTable WITH table <- readAlarms(memory)
AlarmsAreAtomic == Durable!Spec

(* While no store is under way the device plans with the alarms it would    *)
(* find after a restart: what page 900 reports as saved is not lost.        *)
AlarmsAgree == pc = "running" => readAlarms(memory) = alarms

(* The pause t_delta_min is counted from the same move with and without a   *)
(* restart: a power failure cannot shorten or lengthen it once the move is  *)
(* over.                                                                    *)
LastMoveAgrees == pc = "running" => readLastMove(memory) = lastMove

(* Once the wizard is done, a restart shows the error that is shown now and *)
(* brings back none that was taken away, whichever of the five places that  *)
(* change errorFlag did so last.                                            *)
ErrorAgrees == pc = "running" /\ F_init_NOX => readError(memory) = errorFlag
=============================================================================
