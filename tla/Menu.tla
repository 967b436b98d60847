-------------------------------- MODULE Menu --------------------------------
(***************************************************************************)
(* menuFunctions as the user sees it: the pages (module Pages), the values *)
(* edited on pages 110, 800, 810 and 820, the save of page 900 and the     *)
(* wizard of the first start, interrupted by errors and by sleep.  What a  *)
(* save stores is Storage's and Controller's; the values of pages 300 and  *)
(* 400 are SetClock's.                                                     *)
(*                                                                         *)
(* Between two keys the page is drawn at least once: menuUpdate blocks the *)
(* buttons for a while after each key (module Buttons).                    *)
(***************************************************************************)
EXTENDS Pages

CONSTANTS
  Days,         (* bound: the weekdays on page 110, 7 in the code          *)
  MaxEdits      (* bound: changes of a value between two restarts          *)

ASSUME MenuAssumption == Days \in Nat /\ MaxEdits \in Nat

MINLUX == 0
MAXLUX == 9

VARIABLES
  s,                (* the navigation state, see Pages                     *)
  values,           (* mode_o, lux_o, hour_o, minute_o and mode_c, ...     *)
  day_bitmask,      (* the weekdays chosen, a set                          *)
  menuRefreshFlag,
  error,            (* errorFlag # NO_ERROR                                *)
  saved,            (* the arguments of a saveAlarmValues in this step     *)
  (* History, read by no action of the code: *)
  edits,
  seen,             (* the editing pages drawn since the main menu         *)
  clock,            (* pages 300 and 400, if saved in this wizard          *)
  broken            (* an error has interrupted the wizard                 *)

vars == <<s, values, day_bitmask, menuRefreshFlag, error, saved, edits, seen,
          clock, broken>>

Directions == {"MODESET_OPENING", "MODESET_CLOSING"}
Values == [mode : openingMode, lux : 0..255, hour : 0..23, minute : 0..59]
Nothing == [d |-> "none"]
EditPages == {110, 800, 810, 820}

(* One type invariant. *)
TypeOK ==
  /\ s \in States(Days)
  /\ values \in [Directions -> Values]
  /\ day_bitmask \subseteq 0..(Days - 1)
  /\ menuRefreshFlag \in BOOLEAN /\ error \in BOOLEAN /\ broken \in BOOLEAN
  /\ saved = Nothing \/ saved \in [d : Directions, days : SUBSET (0..(Days - 1)),
                                   entry : Values]
  /\ edits \in 0..MaxEdits /\ seen \subseteq EditPages /\ clock \subseteq {300, 400}

StartValues ==
  [d \in Directions |-> [mode |-> LICHT_ZEIT, lux |-> 0, hour |-> 0, minute |-> 0]]

Init ==
  /\ \E init \in BOOLEAN : s = StartState(init)
  /\ values = StartValues /\ day_bitmask = {}
  /\ menuRefreshFlag = TRUE /\ error = FALSE /\ saved = Nothing
  /\ edits = 0 /\ seen = {} /\ clock = {} /\ broken = FALSE

(* Deep sleep and the next start, which may end in an error: a long press   *)
(* moves the door, statusabfrage looks at the switches.                     *)
Restart ==
  /\ s' = StartState(s.F_init_NOX)
  /\ values' = StartValues /\ day_bitmask' = {}
  /\ menuRefreshFlag' = TRUE
  /\ error' \in BOOLEAN /\ saved' = Nothing
  /\ edits' = 0 /\ seen' = {} /\ clock' = {} /\ broken' = (error' /\ ~s.F_init_NOX)
-----------------------------------------------------------------------------
(* loop() goes to page 002 in every pass that finds an error. *)
Current == IF error THEN To(s, 2) ELSE s

(* Mutant: the largest value is compared one too late. *)
UpTooFar(v, max) == IF v > max THEN 0 ELSE v + 1

Up(v, max) == IF v + 1 > max THEN 0 ELSE v + 1
Down(v, max) == IF v = 0 THEN max ELSE v - 1
Turn(v, max, key) ==
  CASE key = "LEFT" -> Down(v, max) [] key = "RIGHT" -> Up(v, max) [] OTHER -> v

(* A threshold is a byte: below 0 comes 255, which is not below MINLUX. *)
LuxDown(v) == (v - 1) % 256
LuxUp(v) == LET b == (v + 1) % 256 IN IF b > MAXLUX THEN MINLUX ELSE b
TurnLux(v, key) ==
  CASE key = "LEFT" -> LuxDown(v) [] key = "RIGHT" -> LuxUp(v) [] OTHER -> v

(* LEFT and RIGHT on a page with a value of the chosen direction. *)
Turned(v, c, key) ==
  CASE c.menu_id = 800 -> [v EXCEPT !.mode = Turn(@, 3, key)]
    [] c.menu_id = 810 -> [v EXCEPT !.lux = TurnLux(@, key)]
    [] c.menu_id = 820 /\ c.timeSetMode = "SETHOUR" ->
         [v EXCEPT !.hour = Turn(@, 23, key)]
    [] c.menu_id = 820 /\ c.timeSetMode = "SETMINUTE" ->
         [v EXCEPT !.minute = Turn(@, 59, key)]
    [] OTHER -> v

(* SELECT on a weekday of page 110. *)
Toggled(days, c, key) ==
  IF c.menu_id = 110 /\ key = "SELECT" /\ c.cursor_tag < Days
  THEN (days \cup {c.cursor_tag}) \ (days \cap {c.cursor_tag})
  ELSE days

(* menuFunctions with a key.  On page 002 it takes the error back; page 0's *)
(* EXIT in manual mode also calls statusabfrage, whose error is Error.      *)
Key(key) ==
  LET c == Current
      d == c.modeset
      v == Turned(values[d], c, key)
      days == Toggled(day_bitmask, c, key)
      next == Pressed(c, key, values[d].mode, Days)
      edit == IF v # values[d] \/ days # day_bitmask THEN 1 ELSE 0
  IN /\ ~menuRefreshFlag /\ ~(c.menu_id = 700 /\ key = "SELECT")
     /\ edits + edit <= MaxEdits
     /\ s' = next /\ values' = [values EXCEPT ![d] = v] /\ day_bitmask' = days
     /\ menuRefreshFlag' = TRUE /\ error' = FALSE /\ saved' = Nothing
     /\ edits' = edits + edit
     /\ seen' = IF next.menu_id \in EditPages \cup {900} THEN seen ELSE {}
     /\ clock' = IF SavesClock(c, key) /\ ~s.F_init_NOX THEN clock \cup {c.menu_id}
                                                       ELSE clock
     /\ UNCHANGED broken

(* Page 700's "reset" is a deep sleep. *)
ResetKey == ~menuRefreshFlag /\ Current.menu_id = 700 /\ Restart

(* Drawing a page that does nothing but show.  The error page leaves for    *)
(* page 0 by itself, and loop() comes back to it.                           *)
Draw ==
  /\ menuRefreshFlag /\ Current.menu_id \notin ActingPages
  /\ menuRefreshFlag' = FALSE /\ saved' = Nothing
  /\ s' = IF Current.menu_id = 2 THEN To(s, 0) ELSE s
  /\ seen' = IF s.menu_id \in EditPages THEN seen \cup {s.menu_id} ELSE seen
  /\ UNCHANGED <<values, day_bitmask, error, edits, clock, broken>>

(* Pages 003 and 004 move the door, which may end in an error. *)
DrawMove(e) ==
  /\ menuRefreshFlag /\ Current.menu_id \in {3, 4}
  /\ menuRefreshFlag' = FALSE /\ saved' = Nothing
  /\ s' = To(s, 0) /\ error' = e
  /\ broken' = (broken \/ (e /\ ~s.F_init_NOX))
  /\ UNCHANGED <<values, day_bitmask, edits, seen, clock>>

(* Page 900: the first time it ends the wizard, later it saves the alarms;  *)
(* statusabfrage then may find the door stuck.                              *)
DrawSave(e) ==
  /\ menuRefreshFlag /\ Current.menu_id = 900
  /\ menuRefreshFlag' = FALSE
  /\ s' = IF e THEN To([s EXCEPT !.F_init_NOX = TRUE], 2)
               ELSE To([s EXCEPT !.F_init_NOX = TRUE], 0)
  /\ error' = e
  /\ saved' = IF s.F_init_NOX
              THEN [d |-> s.modeset, days |-> day_bitmask, entry |-> values[s.modeset]]
              ELSE Nothing
  /\ seen' = {} /\ clock' = {} /\ broken' = FALSE
  /\ UNCHANGED <<values, day_bitmask, edits>>

(* loop() outside menuUpdate: an alarm or the inactivity check ends in an   *)
(* error, on any page.                                                      *)
Error ==
  /\ ~error /\ error' = TRUE
  /\ s' = To(s, 2) /\ saved' = Nothing /\ seen' = {}
  /\ broken' = (broken \/ ~s.F_init_NOX)
  /\ UNCHANGED <<values, day_bitmask, menuRefreshFlag, edits, clock>>

(* Inactivity without an error. *)
Sleep == ~menuRefreshFlag /\ ~error /\ Restart

Next ==
  \/ \E key \in BTNAction : Key(key)
  \/ ResetKey \/ Draw
  \/ \E e \in BOOLEAN : DrawMove(e) \/ DrawSave(e)
  \/ Error \/ Sleep

Spec == Init /\ [][Next]_vars
-----------------------------------------------------------------------------
(* From every page but the two without code, EXIT alone leads back to the   *)
(* start screen, with at most seven presses, whatever timeSetMode an        *)
(* earlier page has left behind.                                            *)
Exits[n \in 0..7] ==
  IF n = 0 THEN Current
  ELSE Pressed(Exits[n - 1], "EXIT", values[s.modeset].mode, Days)
HomeByExit ==
  s.F_init_NOX /\ Current.menu_id \notin DeadPages \cup ActingPages =>
    \E n \in 0..7 : Exits[n].menu_id = 0

(* The pages with an hour and a minute are only entered with a timeSetMode  *)
(* that they know, although all pages share the variable and an error may   *)
(* leave it at any value: SELECT always does something there.               *)
TimePagesFit ==
  Current.menu_id \in {300, 820} =>
    s.timeSetMode \in {"SETNOTHING", "SETHOUR", "SETMINUTE"}

(* An alarm is saved only after the pages of all values that its mode uses  *)
(* were shown, in the same visit of the menu: no mode is combined with a    *)
(* threshold or a time that was edited for another one and then forgotten.  *)
Needed(mode) ==
  {110, 800} \cup (IF mode \in {LICHT, LICHT_ZEIT} THEN {810} ELSE {})
             \cup (IF mode \in {ZEIT, LICHT_ZEIT} THEN {820} ELSE {})
ShownBeforeSaved ==
  Current.menu_id = 900 /\ s.F_init_NOX => Needed(values[s.modeset].mode) \subseteq seen

(* The wizard ends, and marks the device as initialised, only after time    *)
(* and date were both saved, and it swallows no alarm: at the first start   *)
(* page 900 stores none.  Only an error that breaks the wizard off opens    *)
(* the alarm pages before its end.                                          *)
WizardSetsClock ==
  Current.menu_id = 900 /\ ~s.F_init_NOX /\ ~broken =>
    clock = {300, 400} /\ seen = {}
=============================================================================
