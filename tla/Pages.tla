------------------------------- MODULE Pages --------------------------------
(***************************************************************************)
(* The pages of menuFunctions as a transition table: where a key leads and *)
(* what it does to timeSetMode, modeset and the cursor of page 110.  The   *)
(* values that are edited on the way belong to Menu (alarms) and SetClock  *)
(* (time and date), which share this table.                                *)
(***************************************************************************)
EXTENDS Global

(* enum BTNAction without NOTHING. *)
BTNAction == {"LEFT", "RIGHT", "SELECT", "EXIT"}

(* enum Setmode, the values in use. *)
Setmode == {"SETMINUTE", "SETHOUR", "SETNOTHING", "SETDAY", "SETMONTH", "SETYEAR"}

(* The pages that act when they are first drawn, without a key. *)
ActingPages == {3, 4, 900}
DeadPages == {510, 610}
PageIds == {0, 1, 2, 100, 110, 200, 300, 400, 500, 600, 700, 710, 800, 810, 820}
           \cup ActingPages \cup DeadPages

(* What a key press depends on and changes.  cursor_tag is 0..Days, the     *)
(* last position is the arrow that confirms.                                *)
States(Days) ==
  [menu_id : PageIds, timeSetMode : Setmode,
   modeset : {"MODESET_OPENING", "MODESET_CLOSING"},
   cursor_tag : 0..Days, F_init_NOX : BOOLEAN]

(* The globals after a restart; setup() chooses the page. *)
StartState(init) ==
  [menu_id |-> IF init THEN 0 ELSE 1, timeSetMode |-> "SETNOTHING",
   modeset |-> "MODESET_OPENING", cursor_tag |-> 0, F_init_NOX |-> init]

To(s, p) == [s EXCEPT !.menu_id = p]
Mode(s, m) == [s EXCEPT !.timeSetMode = m]
-----------------------------------------------------------------------------
(* Pages whose keys lead to fixed pages: start screen, wizard, error page   *)
(* and the main menu. *)
Arrow(p) ==
  CASE p = 0   -> [LEFT |-> 3,   RIGHT |-> 4,   SELECT |-> 100, EXIT |-> 0]
    [] p = 1   -> [LEFT |-> 300, RIGHT |-> 300, SELECT |-> 300, EXIT |-> 300]
    [] p = 2   -> [LEFT |-> 0,   RIGHT |-> 0,   SELECT |-> 0,   EXIT |-> 0]
    [] p = 100 -> [LEFT |-> 700, RIGHT |-> 200, SELECT |-> 110, EXIT |-> 0]
    [] p = 200 -> [LEFT |-> 100, RIGHT |-> 300, SELECT |-> 110, EXIT |-> 0]
    [] p = 500 -> [LEFT |-> 400, RIGHT |-> 600, SELECT |-> 510, EXIT |-> 0]
    [] p = 600 -> [LEFT |-> 500, RIGHT |-> 700, SELECT |-> 610, EXIT |-> 0]
    [] p = 700 -> [LEFT |-> 600, RIGHT |-> 100, SELECT |-> 710, EXIT |-> 0]
    [] OTHER   -> [LEFT |-> p,   RIGHT |-> p,   SELECT |-> p,   EXIT |-> p]

(* Mutant: page 200 enters page 300 with whatever timeSetMode is. *)
ListedPageKeepsMode(s, key) ==
  [To(s, Arrow(s.menu_id)[key]) EXCEPT
     !.modeset = CASE s.menu_id = 100 /\ key = "SELECT" -> "MODESET_OPENING"
                   [] s.menu_id = 200 /\ key = "SELECT" -> "MODESET_CLOSING"
                   [] OTHER -> @]

(* Pages 100 and 200 also choose what is edited, and 200 resets the editing *)
(* of the clock.                                                            *)
ListedPage(s, key) ==
  [To(s, Arrow(s.menu_id)[key]) EXCEPT
     !.modeset = CASE s.menu_id = 100 /\ key = "SELECT" -> "MODESET_OPENING"
                   [] s.menu_id = 200 /\ key = "SELECT" -> "MODESET_CLOSING"
                   [] OTHER -> @,
     !.timeSetMode = IF s.menu_id = 200 /\ key = "RIGHT" THEN "SETNOTHING" ELSE @]

(* Page 110: the cursor runs over the days and the arrow; only the arrow    *)
(* leads on.                                                                *)
DaysPage(s, key, Days) ==
  CASE key = "LEFT"  -> [s EXCEPT !.cursor_tag = IF @ = 0 THEN Days ELSE @ - 1]
    [] key = "RIGHT" -> [s EXCEPT !.cursor_tag = IF @ + 1 > Days THEN 0 ELSE @ + 1]
    [] key = "EXIT"  -> To(s, IF s.modeset = "MODESET_CLOSING" THEN 200 ELSE 100)
    [] OTHER -> IF s.cursor_tag < Days THEN s ELSE To(s, 800)

(* Mutant: the time page is skipped after the threshold. *)
AfterSkippingTime(s, page, mode) == To(s, 900)

(* SELECT on pages 800 and 810: the next page that the mode needs. *)
After(s, page, mode) ==
  CASE page = 800 /\ mode \in {LICHT, LICHT_ZEIT} -> To(s, 810)
    [] page = 800 /\ mode = ZEIT -> To(Mode(s, "SETHOUR"), 820)
    [] page = 810 /\ mode \in {LICHT_ZEIT, ZEIT} -> To(Mode(s, "SETHOUR"), 820)
    [] OTHER -> To(s, 900)

ModePage(s, key, mode) ==
  CASE key = "SELECT" -> After(s, 800, mode)
    [] key = "EXIT" -> To(s, 100)
    [] OTHER -> s

(* Mutant: EXIT on the threshold page goes on to the time page. *)
LuxPageExitsToTime(s, key, mode) ==
  CASE key = "SELECT" -> After(s, 810, mode)
    [] key = "EXIT" -> To(Mode(s, "SETHOUR"), 820)
    [] OTHER -> s

LuxPage(s, key, mode) ==
  CASE key = "SELECT" -> After(s, 810, mode)
    [] key = "EXIT" -> To(s, 800)
    [] OTHER -> s

(* Page 820: hour, minute, confirm; EXIT goes the same way back. *)
AlarmTimePage(s, key, mode) ==
  LET m == s.timeSetMode
  IN CASE key = "LEFT" ->
            IF m \in {"SETMINUTE", "SETHOUR"} THEN s ELSE Mode(s, "SETMINUTE")
       [] key = "RIGHT" -> IF m = "SETNOTHING" THEN Mode(s, "SETHOUR") ELSE s
       [] key = "SELECT" ->
            CASE m = "SETMINUTE"  -> Mode(s, "SETNOTHING")
              [] m = "SETNOTHING" -> To(s, 900)
              [] m = "SETHOUR"    -> Mode(s, "SETMINUTE")
              [] OTHER -> s
       [] OTHER ->
            CASE m = "SETNOTHING" -> Mode(s, "SETMINUTE")
              [] m = "SETMINUTE"  -> Mode(s, "SETHOUR")
              [] OTHER -> To(s, IF mode \in {LICHT_ZEIT, LICHT} THEN 810 ELSE 800)
-----------------------------------------------------------------------------
(* Pages 300 and 400 in one form: SELECT walks through the fields, saving   *)
(* after the last one; EXIT saves what has been edited so far.  In the      *)
(* wizard (F_init_NOX = 0) only a save leads on.                            *)
Editing(s) ==
  IF s.menu_id = 300 THEN s.timeSetMode \in {"SETHOUR", "SETMINUTE"}
                     ELSE s.timeSetMode \in {"SETDAY", "SETMONTH", "SETYEAR"}

NextField(s) ==
  LET m == s.timeSetMode
  IN IF s.menu_id = 300
     THEN CASE m = "SETNOTHING" -> "SETHOUR" [] m = "SETHOUR" -> "SETMINUTE" [] OTHER -> m
     ELSE CASE m = "SETNOTHING" -> "SETDAY" [] m = "SETDAY" -> "SETMONTH"
            [] m = "SETMONTH" -> "SETYEAR" [] OTHER -> m

LastField(p) == IF p = 300 THEN "SETMINUTE" ELSE "SETYEAR"

(* saveTimeSetting is called. *)
SavesClock(s, key) ==
  /\ s.menu_id \in {300, 400}
  /\ \/ key = "SELECT" /\ s.timeSetMode = LastField(s.menu_id)
     \/ key = "EXIT" /\ s.timeSetMode # "SETNOTHING"

(* Mutant: RIGHT leaves the page in the wizard as well. *)
ClockPageNoWizard(s, key) ==
  LET p == s.menu_id
      done == Mode(s, "SETNOTHING")
      onward == IF p = 300 THEN 400 ELSE 900
      exit == IF p = 300 THEN 1 ELSE 300
  IN CASE key \in {"LEFT", "RIGHT"} /\ Editing(s) -> s
       [] key = "LEFT" /\ ~Editing(s) -> To(done, IF s.F_init_NOX THEN p - 100 ELSE p)
       [] key = "RIGHT" /\ ~Editing(s) -> To(done, p + 100)
       [] SavesClock(s, key) ->
            To(done, IF key = "SELECT" /\ ~s.F_init_NOX THEN onward ELSE p)
       [] key = "SELECT" /\ ~SavesClock(s, key) -> Mode(s, NextField(s))
       [] OTHER -> To(s, IF s.F_init_NOX THEN 0 ELSE exit)

ClockPage(s, key) ==
  LET p == s.menu_id
      done == Mode(s, "SETNOTHING")
      onward == IF p = 300 THEN 400 ELSE 900
      exit == IF p = 300 THEN 1 ELSE 300
  IN CASE key \in {"LEFT", "RIGHT"} /\ Editing(s) -> s
       [] key = "LEFT" /\ ~Editing(s) -> To(done, IF s.F_init_NOX THEN p - 100 ELSE p)
       [] key = "RIGHT" /\ ~Editing(s) -> To(done, IF s.F_init_NOX THEN p + 100 ELSE p)
       [] SavesClock(s, key) ->
            To(done, IF key = "SELECT" /\ ~s.F_init_NOX THEN onward ELSE p)
       [] key = "SELECT" /\ ~SavesClock(s, key) -> Mode(s, NextField(s))
       [] OTHER -> To(s, IF s.F_init_NOX THEN 0 ELSE exit)
-----------------------------------------------------------------------------
(* A key on any page; mode is the mode that is being edited. *)
Pressed(s, key, mode, Days) ==
  CASE s.menu_id = 110 -> DaysPage(s, key, Days)
    [] s.menu_id = 800 -> ModePage(s, key, mode)
    [] s.menu_id = 810 -> LuxPage(s, key, mode)
    [] s.menu_id = 820 -> AlarmTimePage(s, key, mode)
    [] s.menu_id \in {300, 400} -> ClockPage(s, key)
    [] OTHER -> ListedPage(s, key)
=============================================================================
