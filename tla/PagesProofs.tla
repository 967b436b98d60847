----------------------------- MODULE PagesProofs ----------------------------
(***************************************************************************)
(* What a key does to the navigation state, for any number of weekdays:    *)
(* the lemmas about Pressed that the proofs of Menu and of SetClock share, *)
(* and the way home.                                                       *)
(***************************************************************************)
EXTENDS Pages, TLAPS

(* A key leads from a navigation state to a navigation state. *)
LEMMA PressedTyped ==
  ASSUME NEW N \in Nat, NEW c \in States(N), NEW key \in BTNAction, NEW mode \in openingMode
  PROVE  Pressed(c, key, mode, N) \in States(N)
<1>1. /\ \A p \in PageIds : To(c, p) \in States(N)
      /\ \A m \in Setmode : Mode(c, m) \in States(N)
      /\ \A m \in Setmode, p \in PageIds : To(Mode(c, m), p) \in States(N)
  BY DEF To, Mode, States
<1>2. /\ {0, 1, 2, 3, 4, 100, 110, 200, 300, 400, 500, 510, 600, 610, 700, 710,
          800, 810, 820, 900} \subseteq PageIds
      /\ {"SETMINUTE", "SETHOUR", "SETNOTHING", "SETDAY", "SETMONTH", "SETYEAR"} \subseteq Setmode
  BY DEF PageIds, ActingPages, DeadPages, Setmode
<1>3. CASE c.menu_id = 110
  BY <1>1, <1>2, <1>3 DEF Pressed, DaysPage, States
<1>4. CASE c.menu_id = 800
  BY <1>1, <1>2, <1>4 DEF Pressed, ModePage, After
<1>5. CASE c.menu_id = 810
  BY <1>1, <1>2, <1>5 DEF Pressed, LuxPage, After
<1>6. CASE c.menu_id = 820
  BY <1>1, <1>2, <1>6 DEF Pressed, AlarmTimePage
<1>7. CASE c.menu_id \in {300, 400}
  <2>1. Mode(c, NextField(c)) \in States(N)
    BY <1>1, <1>2 DEF NextField, States
  <2>2. /\ To(c, IF c.F_init_NOX THEN 0 ELSE IF c.menu_id = 300 THEN 1 ELSE 300) \in States(N)
    BY <1>1, <1>2
  <2>3. c.menu_id - 100 \in PageIds /\ c.menu_id + 100 \in PageIds
    BY <1>7, <1>2
  <2> QED
    BY <1>1, <1>2, <1>7, <2>1, <2>2, <2>3 DEF Pressed, ClockPage
<1>8. CASE c.menu_id \notin {110, 800, 810, 820, 300, 400}
  <2>1. Arrow(c.menu_id)[key] \in PageIds
    BY <1>2 DEF Arrow, BTNAction, States
  <2>2. ListedPage(c, key) \in States(N)
    <3> DEFINE t == To(c, Arrow(c.menu_id)[key])
               ms == CASE c.menu_id = 100 /\ key = "SELECT" -> "MODESET_OPENING"
                       [] c.menu_id = 200 /\ key = "SELECT" -> "MODESET_CLOSING"
                       [] OTHER -> t.modeset
               tm == IF c.menu_id = 200 /\ key = "RIGHT" THEN "SETNOTHING" ELSE t.timeSetMode
    <3>1. t \in States(N)
      BY <1>1, <2>1
    <3>2. ms \in {"MODESET_OPENING", "MODESET_CLOSING"} /\ tm \in Setmode
      BY <1>2, <3>1 DEF States
    <3>3. ListedPage(c, key) = [t EXCEPT !.modeset = ms, !.timeSetMode = tm]
      BY DEF ListedPage
    <3> HIDE DEF t, ms, tm
    <3> QED
      BY <3>1, <3>2, <3>3 DEF States
  <2> QED
    BY <1>8, <2>2 DEF Pressed
<1> QED
  BY <1>3, <1>4, <1>5, <1>6, <1>7, <1>8

(* So does a start. *)
LEMMA StartStateTyped ==
  ASSUME NEW N \in Nat, NEW init \in BOOLEAN
  PROVE  StartState(init) \in States(N)
  BY DEF StartState, States, PageIds, Setmode

(* What To and Mode do to the fields that the invariants speak of. *)
LEMMA StateFields ==
  ASSUME NEW N, NEW c \in States(N), NEW p, NEW m
  PROVE  /\ To(c, p).menu_id = p /\ To(c, p).timeSetMode = c.timeSetMode
         /\ To(c, p).F_init_NOX = c.F_init_NOX /\ To(c, p).modeset = c.modeset
         /\ Mode(c, m).menu_id = c.menu_id /\ Mode(c, m).timeSetMode = m
         /\ Mode(c, m).F_init_NOX = c.F_init_NOX /\ Mode(c, m).modeset = c.modeset
         /\ To(Mode(c, m), p).menu_id = p /\ To(Mode(c, m), p).timeSetMode = m
         /\ To(Mode(c, m), p).F_init_NOX = c.F_init_NOX
         /\ To(Mode(c, m), p).modeset = c.modeset
  BY DEF To, Mode, States
-----------------------------------------------------------------------------
(* How many presses of EXIT it takes at most to page 0, once the device is  *)
(* initialised, on the pages that have code for EXIT.                       *)
ExitPages == {0, 1, 2, 100, 110, 200, 300, 400, 500, 600, 700, 800, 810, 820}
Distance(c) ==
  CASE c.menu_id = 0 -> 0
    [] c.menu_id \in {300, 400} -> IF c.timeSetMode = "SETNOTHING" THEN 1 ELSE 2
    [] c.menu_id \in {110, 800} -> 2
    [] c.menu_id \in {1, 810} -> 3
    [] c.menu_id = 820 ->
         CASE c.timeSetMode = "SETNOTHING" -> 6 [] c.timeSetMode = "SETMINUTE" -> 5
           [] OTHER -> 4
    [] OTHER -> 1

Nearer(n, c) ==
  /\ n.F_init_NOX /\ n.menu_id \in ExitPages /\ Distance(n) \in Nat
  /\ Distance(n) = 0 \/ Distance(n) < Distance(c)

(* EXIT goes to a page with such code again, and gets nearer. *)
LEMMA ExitIsNearer ==
  ASSUME NEW N \in Nat, NEW c \in States(N), NEW mode \in openingMode,
         c.F_init_NOX, c.menu_id \in ExitPages
  PROVE  /\ Pressed(c, "EXIT", mode, N) \in States(N)
         /\ Nearer(Pressed(c, "EXIT", mode, N), c)
<1> DEFINE n == Pressed(c, "EXIT", mode, N)
<1>1. n \in States(N)
  BY PressedTyped DEF BTNAction
<1>2. ASSUME c.menu_id = 110 PROVE Nearer(n, c)
  <2>1. n = To(c, IF c.modeset = "MODESET_CLOSING" THEN 200 ELSE 100)
    BY <1>2 DEF Pressed, DaysPage
  <2>2. n.menu_id \in {100, 200} /\ n.F_init_NOX
    BY <2>1, StateFields
  <2> HIDE DEF n
  <2> QED
    BY <1>2, <2>2 DEF Nearer, Distance, ExitPages
<1>3. ASSUME c.menu_id \in {800, 810} PROVE Nearer(n, c)
  <2>1. n = To(c, IF c.menu_id = 800 THEN 100 ELSE 800)
    BY <1>3 DEF Pressed, ModePage, LuxPage
  <2>2. n.menu_id = (IF c.menu_id = 800 THEN 100 ELSE 800) /\ n.F_init_NOX
    BY <2>1, StateFields
  <2> HIDE DEF n
  <2> QED
    BY <1>3, <2>2 DEF Nearer, Distance, ExitPages
<1>4. ASSUME c.menu_id = 820 PROVE Nearer(n, c)
  <2>1. n = CASE c.timeSetMode = "SETNOTHING" -> Mode(c, "SETMINUTE")
              [] c.timeSetMode = "SETMINUTE" -> Mode(c, "SETHOUR")
              [] OTHER -> To(c, IF mode \in {LICHT_ZEIT, LICHT} THEN 810 ELSE 800)
    BY <1>4 DEF Pressed, AlarmTimePage
  <2>2. /\ n.F_init_NOX
        /\ CASE c.timeSetMode = "SETNOTHING" -> n.menu_id = 820 /\ n.timeSetMode = "SETMINUTE"
             [] c.timeSetMode = "SETMINUTE" -> n.menu_id = 820 /\ n.timeSetMode = "SETHOUR"
             [] OTHER -> n.menu_id \in {800, 810}
    BY <1>4, <2>1, StateFields
  <2> HIDE DEF n
  <2> QED
    BY <1>4, <2>2 DEF Nearer, Distance, ExitPages
<1>5. ASSUME c.menu_id \in {300, 400} PROVE Nearer(n, c)
  <2>1. n = IF c.timeSetMode # "SETNOTHING"
            THEN To(Mode(c, "SETNOTHING"), c.menu_id) ELSE To(c, 0)
    BY <1>5 DEF Pressed, ClockPage, SavesClock
  <2>2. /\ n.F_init_NOX
        /\ IF c.timeSetMode # "SETNOTHING"
           THEN n.menu_id = c.menu_id /\ n.timeSetMode = "SETNOTHING" ELSE n.menu_id = 0
    BY <2>1, StateFields
  <2> HIDE DEF n
  <2> QED
    BY <1>5, <2>2 DEF Nearer, Distance, ExitPages
<1>6. ASSUME c.menu_id \in {0, 1, 2, 100, 200, 500, 600, 700} PROVE Nearer(n, c)
  <2>1. n = ListedPage(c, "EXIT")
    BY <1>6 DEF Pressed
  <2>2. n.menu_id = Arrow(c.menu_id)["EXIT"] /\ n.F_init_NOX /\ n.timeSetMode = c.timeSetMode
    BY <2>1 DEF ListedPage, To, States
  <2>3. Arrow(c.menu_id)["EXIT"] = IF c.menu_id = 1 THEN 300 ELSE 0
    BY <1>6 DEF Arrow
  <2> HIDE DEF n
  <2> QED
    BY <1>6, <2>2, <2>3 DEF Nearer, Distance, ExitPages
<1> QED
  BY <1>1, <1>2, <1>3, <1>4, <1>5, <1>6 DEF ExitPages
=============================================================================
