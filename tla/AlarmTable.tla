----------------------------- MODULE AlarmTable -----------------------------
(***************************************************************************)
(* The abstract specification of the stored alarms: one table for opening  *)
(* and one for closing, which a save changes in one step, in one direction, *)
(* for the chosen weekdays, and which nothing else changes: no power        *)
(* failure, no restart and no other use of the flash store.  Module Storage *)
(* implements it with three separate stores per save.                       *)
(***************************************************************************)
CONSTANTS
  WeekDays,      (* the indices of openingAlarms and closingAlarms          *)
  Entries,       (* doorDayAlarm_t                                          *)
  buf_o, buf_c   (* the entries of setAlarmsDefault                         *)

Directions == {"MODESET_OPENING", "MODESET_CLOSING"}

Defaults ==
  [d \in Directions |->
     [w \in WeekDays |-> IF d = "MODESET_OPENING" THEN buf_o ELSE buf_c]]

VARIABLE table

Init == table = Defaults

(* table with entry e for the given days in direction d. *)
Changed(t, d, days, e) ==
  [t EXCEPT ![d] = [w \in WeekDays |-> IF w \in days THEN e ELSE @[w]]]

Save(d, days, e) == table' = Changed(table, d, days, e)

Next == \E d \in Directions, days \in SUBSET WeekDays, e \in Entries : Save(d, days, e)

Spec == Init /\ [][Next]_table
=============================================================================
