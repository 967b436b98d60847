----------------------------- MODULE MenuProofs -----------------------------
(***************************************************************************)
(* Proofs about Menu, for any number of weekdays and of edits: the types,  *)
(* and the three invariants about what may follow what in the menu.  Each  *)
(* rests on a lemma about Pressed, the transition table of Pages.          *)
(***************************************************************************)
EXTENDS Menu, PagesProofs

(* What LEFT and RIGHT make of the values are values again: the bounds of   *)
(* Turn, and the byte of a threshold.                                       *)
LEMMA TurnTyped ==
  ASSUME NEW max \in Nat, NEW v \in 0..max, NEW key
  PROVE  Turn(v, max, key) \in 0..max
  BY DEF Turn, Up, Down

LEMMA LuxTyped ==
  ASSUME NEW v \in 0..255, NEW key
  PROVE  TurnLux(v, key) \in 0..255
<1>1. (v - 1) % 256 \in 0..255 /\ (v + 1) % 256 \in 0..255
  OBVIOUS
<1> QED
  BY <1>1 DEF TurnLux, LuxDown, LuxUp, MINLUX, MAXLUX

LEMMA TurnedTyped ==
  ASSUME NEW v \in Values, NEW c, NEW key
  PROVE  Turned(v, c, key) \in Values
<1>1. /\ v.mode \in openingMode /\ v.lux \in 0..255
      /\ v.hour \in 0..23 /\ v.minute \in 0..59
  BY DEF Values
<1>2. openingMode = 0..3
  BY DEF openingMode, LICHT, ZEIT, LICHT_ZEIT, NICHT
<1>3. /\ Turn(v.mode, 3, key) \in openingMode /\ TurnLux(v.lux, key) \in 0..255
      /\ Turn(v.hour, 23, key) \in 0..23 /\ Turn(v.minute, 59, key) \in 0..59
  BY <1>1, <1>2, TurnTyped, LuxTyped
<1> QED
  BY <1>3 DEF Turned, Values

LEMMA StartTyped ==
  /\ \A init \in BOOLEAN : StartState(init) \in States(Days)
  /\ StartValues \in [Directions -> Values]
<1>1. \A init \in BOOLEAN : StartState(init) \in States(Days)
  BY MenuAssumption, StartStateTyped
<1>2. StartValues \in [Directions -> Values]
  BY DEF StartValues, Values, openingMode, LICHT_ZEIT
<1> QED
  BY <1>1, <1>2

(* The page that menuFunctions sees. *)
LEMMA CurrentTyped == TypeOK => Current \in States(Days)
  BY DEF TypeOK, Current, To, States, PageIds

(* A key keeps the types. *)
LEMMA KeyTyped ==
  ASSUME TypeOK, NEW key \in BTNAction, Key(key)
  PROVE  TypeOK'
<1> DEFINE c == Current
           d == c.modeset
           v == Turned(values[d], c, key)
           days == Toggled(day_bitmask, c, key)
           next == Pressed(c, key, values[d].mode, Days)
           edit == IF v # values[d] \/ days # day_bitmask THEN 1 ELSE 0
<1>1. c \in States(Days) /\ d \in Directions
  BY CurrentTyped DEF States, Directions
<1>2. values[d] \in Values /\ values[d].mode \in openingMode
  BY <1>1 DEF TypeOK, Values
<1>3. next \in States(Days) /\ v \in Values
  BY <1>1, <1>2, MenuAssumption, PressedTyped, TurnedTyped
<1>4. days \subseteq 0..(Days - 1)
  <2>1. c.cursor_tag \in 0..Days /\ day_bitmask \subseteq 0..(Days - 1)
    BY <1>1 DEF TypeOK, States
  <2> HIDE DEF c
  <2>2. c.cursor_tag < Days => c.cursor_tag \in 0..(Days - 1)
    BY <2>1, MenuAssumption
  <2> QED
    <3>1. CASE c.cursor_tag < Days
      <4>1. (day_bitmask \cup {c.cursor_tag}) \ (day_bitmask \cap {c.cursor_tag})
              \subseteq 0..(Days - 1)
        BY <2>1, <2>2, <3>1
      <4> QED
        BY <2>1, <4>1 DEF Toggled
    <3>2. CASE ~(c.cursor_tag < Days)
      BY <2>1, <3>2 DEF Toggled
    <3> QED
      BY <3>1, <3>2
<1>5. edit \in {0, 1}
  OBVIOUS
<1>6. /\ s' = next /\ values' = [values EXCEPT ![d] = v] /\ day_bitmask' = days
      /\ menuRefreshFlag' = TRUE /\ error' = FALSE /\ saved' = Nothing
      /\ edits + edit <= MaxEdits /\ edits' = edits + edit
      /\ seen' = IF next.menu_id \in EditPages \cup {900} THEN seen ELSE {}
      /\ clock' = IF SavesClock(c, key) /\ ~s.F_init_NOX THEN clock \cup {c.menu_id} ELSE clock
      /\ broken' = broken
  BY DEF Key
<1> HIDE DEF c, d, v, days, next, edit
<1>7. clock' \subseteq {300, 400}
  <2>1. clock \subseteq {300, 400}
    BY DEF TypeOK
  <2>2. CASE SavesClock(c, key) /\ ~s.F_init_NOX
    <3>1. clock' = clock \cup {c.menu_id}
      BY <1>6, <2>2
    <3>2. PICK p \in {300, 400} : c.menu_id = p
      BY <2>2 DEF SavesClock
    <3>3. clock' = clock \cup {p}
      BY <3>1, <3>2
    <3> QED
      BY <2>1, <3>3
  <2>3. CASE ~(SavesClock(c, key) /\ ~s.F_init_NOX)
    <3>1. clock' = clock
      BY <1>6, <2>3
    <3> QED
      BY <2>1, <3>1
  <2> QED
    BY <2>2, <2>3
<1>8. edits' \in 0..MaxEdits
  BY <1>5, <1>6, MenuAssumption DEF TypeOK
<1>9. values' \in [Directions -> Values]
  BY <1>1, <1>3, <1>6 DEF TypeOK
<1>10. seen' \subseteq EditPages
  BY <1>6 DEF TypeOK
<1>11. /\ menuRefreshFlag' \in BOOLEAN /\ error' \in BOOLEAN /\ broken' \in BOOLEAN
       /\ saved' = Nothing
  BY <1>6 DEF TypeOK
<1> QED
  BY <1>3, <1>4, <1>6, <1>7, <1>8, <1>9, <1>10, <1>11 DEF TypeOK

LEMMA RestartTyped == TypeOK /\ Restart => TypeOK'
  BY StartTyped, MenuAssumption DEF TypeOK, Restart, States, Directions

(* Every step keeps the types. *)
LEMMA TypeStep == TypeOK /\ [Next]_vars => TypeOK'
<1> SUFFICES ASSUME TypeOK, [Next]_vars PROVE TypeOK'
  OBVIOUS
<1>p. {0, 2} \subseteq PageIds
  BY DEF PageIds
<1>t. /\ \A p \in PageIds : To(s, p) \in States(Days)
      /\ \A p \in PageIds : To([s EXCEPT !.F_init_NOX = TRUE], p) \in States(Days)
  <2>1. s \in States(Days)
    BY DEF TypeOK
  <2>3. [s EXCEPT !.F_init_NOX = TRUE] \in States(Days)
    BY <2>1 DEF States
  <2>2. \A c \in States(Days), p \in PageIds : To(c, p) \in States(Days)
    BY DEF To, States
  <2> QED
    BY <2>1, <2>2, <2>3
<1>1. ASSUME NEW key \in BTNAction, Key(key) PROVE TypeOK'
  BY <1>1, KeyTyped
<1>2. CASE ResetKey \/ Sleep
  BY <1>2, RestartTyped DEF ResetKey, Sleep
<1>3. CASE Draw
  <2>1. s' \in States(Days)
    BY <1>3, <1>p, <1>t DEF TypeOK, Draw
  <2>2. seen' \subseteq EditPages
    BY <1>3 DEF TypeOK, Draw
  <2>3. menuRefreshFlag' \in BOOLEAN /\ saved' = Nothing
    BY <1>3 DEF Draw
  <2>4. UNCHANGED <<values, day_bitmask, error, edits, clock, broken>>
    BY <1>3 DEF Draw
  <2> QED
    BY <2>1, <2>2, <2>3, <2>4 DEF TypeOK
<1>4. ASSUME NEW e \in BOOLEAN, DrawMove(e) PROVE TypeOK'
  <2>1. s' \in States(Days)
    BY <1>4, <1>p, <1>t DEF DrawMove
  <2>2. /\ menuRefreshFlag' = FALSE /\ saved' = Nothing /\ error' = e
        /\ broken' = (broken \/ (e /\ ~s.F_init_NOX))
        /\ UNCHANGED <<values, day_bitmask, edits, seen, clock>>
    BY <1>4 DEF DrawMove
  <2> QED
    BY <2>1, <2>2 DEF TypeOK
<1>5. ASSUME NEW e \in BOOLEAN, DrawSave(e) PROVE TypeOK'
  <2>1. s.modeset \in Directions
    BY DEF TypeOK, States, Directions
  <2>2. saved' = Nothing \/ saved' \in [d : Directions, days : SUBSET (0..(Days - 1)),
                                        entry : Values]
    BY <1>5, <2>1 DEF DrawSave, TypeOK
  <2> QED
    <3>1. s' \in States(Days)
      <4>1. /\ To([s EXCEPT !.F_init_NOX = TRUE], 2) \in States(Days)
            /\ To([s EXCEPT !.F_init_NOX = TRUE], 0) \in States(Days)
        BY <1>p, <1>t
      <4>2. s' = IF e THEN To([s EXCEPT !.F_init_NOX = TRUE], 2)
                      ELSE To([s EXCEPT !.F_init_NOX = TRUE], 0)
        BY <1>5 DEF DrawSave
      <4>3. CASE e
        BY <4>1, <4>2, <4>3
      <4>4. CASE ~e
        BY <4>1, <4>2, <4>4
      <4> QED
        BY <4>3, <4>4
    <3>2. /\ menuRefreshFlag' = FALSE /\ error' = e /\ seen' = {} /\ clock' = {}
          /\ broken' = FALSE /\ UNCHANGED <<values, day_bitmask, edits>>
      BY <1>5 DEF DrawSave
    <3> QED
      BY <2>2, <3>1, <3>2 DEF TypeOK
<1>6. CASE Error
  BY <1>6, <1>p, <1>t DEF TypeOK, Error
<1>7. CASE UNCHANGED vars
  BY <1>7 DEF TypeOK, vars
<1> QED
  BY <1>1, <1>2, <1>3, <1>4, <1>5, <1>6, <1>7 DEF Next

LEMMA TypeInit == Init => TypeOK
<1> SUFFICES ASSUME Init PROVE TypeOK
  OBVIOUS
<1>1. s \in States(Days) /\ values \in [Directions -> Values]
  BY StartTyped DEF Init
<1>2. edits \in 0..MaxEdits
  BY MenuAssumption DEF Init
<1> QED
  BY <1>1, <1>2 DEF Init, TypeOK

(* The menu keeps its types, for any number of weekdays and edits: no       *)
(* sequence of keys takes an hour, a minute, a mode, a threshold byte, the  *)
(* cursor or the page out of its range.                                     *)
THEOREM MenuTypes == Spec => []TypeOK
  BY TypeInit, TypeStep, PTL DEF Spec
-----------------------------------------------------------------------------
(* What To and Mode do to the fields that the invariants speak of. *)
LEMMA Fields ==
  ASSUME NEW c \in States(Days), NEW p, NEW m
  PROVE  /\ To(c, p).menu_id = p /\ To(c, p).timeSetMode = c.timeSetMode
         /\ To(c, p).F_init_NOX = c.F_init_NOX /\ To(c, p).modeset = c.modeset
         /\ Mode(c, m).menu_id = c.menu_id /\ Mode(c, m).timeSetMode = m
         /\ Mode(c, m).F_init_NOX = c.F_init_NOX /\ Mode(c, m).modeset = c.modeset
         /\ To(Mode(c, m), p).menu_id = p /\ To(Mode(c, m), p).timeSetMode = m
         /\ To(Mode(c, m), p).F_init_NOX = c.F_init_NOX
         /\ To(Mode(c, m), p).modeset = c.modeset
  BY StateFields

(* TimePagesFit is not inductive: page 300 is entered from page 001, whose  *)
(* keys leave timeSetMode alone.                                            *)
Fit(c) ==
  /\ c.menu_id = 1 => c.timeSetMode = "SETNOTHING"
  /\ c.menu_id \in {300, 820} => c.timeSetMode \in {"SETNOTHING", "SETHOUR", "SETMINUTE"}

(* A key leads to a fitting state from a fitting one. *)
LEMMA PressedFit ==
  ASSUME NEW c \in States(Days), NEW key \in BTNAction, NEW mode \in openingMode, Fit(c)
  PROVE  Fit(Pressed(c, key, mode, Days))
<1>1. CASE c.menu_id = 110
  <2>1. DaysPage(c, key, Days).menu_id \in {100, 110, 200, 800}
    BY <1>1, Fields DEF DaysPage, States
  <2> QED
    BY <1>1, <2>1 DEF Pressed, Fit
<1>2. CASE c.menu_id \in {800, 810}
  <2>1. \A p : Fit(After(c, p, mode))
    BY Fields DEF After, Fit
  <2>2. Fit(To(c, 100)) /\ Fit(To(c, 800))
    BY Fields DEF Fit
  <2> QED
    BY <1>2, <2>1, <2>2 DEF Pressed, ModePage, LuxPage
<1>3. CASE c.menu_id = 820
  <2>1. /\ Fit(Mode(c, "SETNOTHING")) /\ Fit(Mode(c, "SETHOUR")) /\ Fit(Mode(c, "SETMINUTE"))
        /\ Fit(To(c, 900)) /\ Fit(To(c, 800)) /\ Fit(To(c, 810))
    BY <1>3, Fields DEF Fit
  <2> QED
    BY <1>3, <2>1 DEF Pressed, AlarmTimePage
<1>4. CASE c.menu_id \in {300, 400}
  <2>1. \A p : Fit(To(Mode(c, "SETNOTHING"), p))
    BY Fields DEF Fit
  <2>2. Fit(Mode(c, NextField(c)))
    BY <1>4, Fields DEF Fit, NextField
  <2>3. ~SavesClock(c, "EXIT") => Fit(To(c, 1)) /\ Fit(To(c, 300)) /\ Fit(To(c, 0))
    BY <1>4, Fields DEF Fit, SavesClock
  <2>4. Pressed(c, key, mode, Days) = ClockPage(c, key)
    BY <1>4 DEF Pressed
  <2>5. CASE key \in {"LEFT", "RIGHT"}
    BY <2>1, <2>4, <2>5 DEF ClockPage
  <2>6. CASE key = "SELECT"
    BY <2>1, <2>2, <2>4, <2>6 DEF ClockPage
  <2>7. CASE key = "EXIT"
    BY <1>4, <2>1, <2>3, <2>4, <2>7 DEF ClockPage
  <2> QED
    BY <2>5, <2>6, <2>7 DEF BTNAction
<1>5. CASE c.menu_id \notin {110, 800, 810, 820, 300, 400}
  <2> DEFINE p == Arrow(c.menu_id)[key]
             n == ListedPage(c, key)
  <2>1. /\ n.menu_id = p
        /\ n.timeSetMode = IF c.menu_id = 200 /\ key = "RIGHT" THEN "SETNOTHING"
                                                             ELSE c.timeSetMode
    BY DEF ListedPage, To, States
  <2>2. p \in {300, 820, 1} => c.menu_id = 1 \/ (c.menu_id = 200 /\ key = "RIGHT")
    BY <1>5 DEF Arrow, BTNAction
  <2>3. Fit(n)
    <3> HIDE DEF p, n
    <3> QED
      BY <2>1, <2>2 DEF Fit
  <2> QED
    BY <1>5, <2>3 DEF Pressed
<1> QED
  BY <1>1, <1>2, <1>3, <1>4, <1>5

(* Every step keeps the fitting state. *)
LEMMA FitStep == TypeOK /\ Fit(s) /\ [Next]_vars => Fit(s)'
<1> SUFFICES ASSUME TypeOK, Fit(s), [Next]_vars PROVE Fit(s')
  BY DEF Fit
<1>s. s \in States(Days)
  BY DEF TypeOK
<1>z. Fit(To(s, 0)) /\ Fit(To(s, 2))
  BY <1>s, Fields DEF Fit
<1>1. ASSUME NEW key \in BTNAction, Key(key) PROVE Fit(s')
  <2>1. Current \in States(Days) /\ Fit(Current)
    BY <1>z, CurrentTyped DEF Current
  <2>2. values[Current.modeset].mode \in openingMode
    BY <2>1 DEF TypeOK, States, Directions, Values
  <2> QED
    BY <1>1, <2>1, <2>2, PressedFit DEF Key
<1>2. CASE ResetKey \/ Sleep
  BY <1>2 DEF ResetKey, Sleep, Restart, StartState, Fit
<1>3. CASE Draw \/ Error
  BY <1>3, <1>z DEF Draw, Error
<1>4. ASSUME NEW e \in BOOLEAN, DrawMove(e) PROVE Fit(s')
  BY <1>4, <1>z DEF DrawMove
<1>5. ASSUME NEW e \in BOOLEAN, DrawSave(e) PROVE Fit(s')
  <2>1. [s EXCEPT !.F_init_NOX = TRUE] \in States(Days)
    BY <1>s DEF States
  <2>2. s'.menu_id \in {0, 2}
    BY <1>5, <2>1, Fields DEF DrawSave
  <2> QED
    BY <2>2 DEF Fit
<1>6. CASE UNCHANGED vars
  BY <1>6 DEF vars
<1> QED
  BY <1>1, <1>2, <1>3, <1>4, <1>5, <1>6 DEF Next

(* The pages with an hour and a minute are only entered with a timeSetMode  *)
(* they know, after any sequence of keys, errors and restarts.              *)
THEOREM TimePagesKeepFit == Spec => []TimePagesFit
<1>1. Init => Fit(s)
  BY DEF Init, StartState, Fit
<1>2. TypeOK /\ Fit(s) => TimePagesFit
  <2> SUFFICES ASSUME TypeOK, Fit(s) PROVE TimePagesFit
    OBVIOUS
  <2>1. error => Current.menu_id = 2
    BY Fields DEF TypeOK, Current
  <2>2. ~error => Current = s
    BY DEF Current
  <2> QED
    BY <2>1, <2>2 DEF TimePagesFit, Fit
<1> QED
  BY <1>1, <1>2, FitStep, MenuTypes, PTL DEF Spec
-----------------------------------------------------------------------------
(* No key ends the wizard: only page 900 does. *)
LEMMA PressedInit ==
  ASSUME NEW c \in States(Days), NEW key \in BTNAction, NEW mode \in openingMode
  PROVE  Pressed(c, key, mode, Days).F_init_NOX = c.F_init_NOX
<1>1. DaysPage(c, key, Days).F_init_NOX = c.F_init_NOX
  BY Fields DEF DaysPage, States
<1>2. \A p : After(c, p, mode).F_init_NOX = c.F_init_NOX
  BY Fields DEF After
<1>3. /\ ModePage(c, key, mode).F_init_NOX = c.F_init_NOX
      /\ LuxPage(c, key, mode).F_init_NOX = c.F_init_NOX
  BY <1>2, Fields DEF ModePage, LuxPage
<1>4. AlarmTimePage(c, key, mode).F_init_NOX = c.F_init_NOX
  BY Fields DEF AlarmTimePage
<1>5. ClockPage(c, key).F_init_NOX = c.F_init_NOX
  BY Fields DEF ClockPage
<1>6. ListedPage(c, key).F_init_NOX = c.F_init_NOX
  BY DEF ListedPage, To, States
<1> QED
  BY <1>1, <1>3, <1>4, <1>5, <1>6 DEF Pressed

(* In the wizard the keys stay on its pages, and only a save leads on. *)
LEMMA PressedWizard ==
  ASSUME NEW c \in States(Days), NEW key \in BTNAction, NEW mode \in openingMode,
         ~c.F_init_NOX, c.menu_id \in {1, 300, 400, 900}
  PROVE  LET n == Pressed(c, key, mode, Days)
         IN  /\ n.menu_id \in {1, 300, 400, 900}
             /\ n.menu_id = 400 => c.menu_id = 400 \/ (c.menu_id = 300 /\ SavesClock(c, key))
             /\ n.menu_id = 900 => c.menu_id = 900 \/ (c.menu_id = 400 /\ SavesClock(c, key))
<1>1. CASE c.menu_id \in {1, 900}
  <2>1. Arrow(c.menu_id)[key] = IF c.menu_id = 1 THEN 300 ELSE 900
    BY <1>1 DEF Arrow, BTNAction
  <2>2. ListedPage(c, key).menu_id = Arrow(c.menu_id)[key]
    BY DEF ListedPage, To, States
  <2> QED
    BY <1>1, <2>1, <2>2 DEF Pressed
<1>2. CASE c.menu_id \in {300, 400}
  BY <1>2, Fields DEF Pressed, ClockPage, BTNAction
<1> QED
  BY <1>1, <1>2

(* The inductive form of WizardSetsClock: where an undisturbed wizard is,   *)
(* and which saves lie behind it.                                           *)
WizardInv ==
  ~s.F_init_NOX /\ ~broken =>
    /\ ~error /\ seen = {} /\ s.menu_id \in {1, 300, 400, 900}
    /\ s.menu_id \in {400, 900} => 300 \in clock
    /\ s.menu_id = 900 => clock = {300, 400}

(* Every step keeps it. *)
LEMMA WizardStep == TypeOK /\ WizardInv /\ [Next]_vars => WizardInv'
<1> SUFFICES ASSUME TypeOK, WizardInv, [Next]_vars PROVE WizardInv'
  OBVIOUS
<1>s. s \in States(Days) /\ s.F_init_NOX \in BOOLEAN
  BY DEF TypeOK, States
<1>1. ASSUME NEW key \in BTNAction, Key(key) PROVE WizardInv'
  <2> DEFINE c == Current
             n == Pressed(c, key, values[c.modeset].mode, Days)
  <2>1. c \in States(Days) /\ c.F_init_NOX = s.F_init_NOX
    BY <1>s, CurrentTyped, Fields DEF Current
  <2>2. values[c.modeset].mode \in openingMode
    BY <2>1 DEF TypeOK, States, Directions, Values
  <2>3. /\ s' = n /\ error' = FALSE /\ broken' = broken
        /\ seen' = IF n.menu_id \in EditPages \cup {900} THEN seen ELSE {}
        /\ clock' = IF SavesClock(c, key) /\ ~s.F_init_NOX THEN clock \cup {c.menu_id}
                                                          ELSE clock
    BY <1>1 DEF Key
  <2>4. n.F_init_NOX = s.F_init_NOX
    BY <2>1, <2>2, PressedInit
  <2>5. SUFFICES ASSUME ~s.F_init_NOX, ~broken
                 PROVE  WizardInv'
    BY <2>3, <2>4 DEF WizardInv
  <2>6. /\ c = s /\ seen = {} /\ s.menu_id \in {1, 300, 400, 900}
        /\ s.menu_id \in {400, 900} => 300 \in clock
        /\ s.menu_id = 900 => clock = {300, 400}
    BY <2>5 DEF WizardInv, Current
  <2>7. /\ n.menu_id \in {1, 300, 400, 900}
        /\ n.menu_id = 400 => s.menu_id = 400 \/ (s.menu_id = 300 /\ SavesClock(s, key))
        /\ n.menu_id = 900 => s.menu_id = 900 \/ (s.menu_id = 400 /\ SavesClock(s, key))
    BY <2>1, <2>2, <2>5, <2>6, PressedWizard
  <2>h. SavesClock(c, key) => c.menu_id \in {300, 400}
    BY DEF SavesClock
  <2> HIDE DEF c, n
  <2>8. clock' \subseteq {300, 400} /\ clock \subseteq clock'
    <3>1. clock \subseteq {300, 400}
      BY DEF TypeOK
    <3>2. CASE SavesClock(c, key) /\ ~s.F_init_NOX
      <4>1. clock' = clock \cup {c.menu_id}
        BY <2>3, <3>2
      <4>2. PICK p \in {300, 400} : c.menu_id = p
        BY <2>h, <3>2
      <4>3. clock' = clock \cup {p}
        BY <4>1, <4>2
      <4> QED
        BY <3>1, <4>3
    <3>3. CASE ~(SavesClock(c, key) /\ ~s.F_init_NOX)
      <4>1. clock' = clock
        BY <2>3, <3>3
      <4> QED
        BY <3>1, <4>1
    <3> QED
      BY <3>2, <3>3
  <2>9. SavesClock(s, key) => s.menu_id \in clock'
    BY <2>3, <2>5, <2>6
  <2>10. s'.menu_id \in {400, 900} => 300 \in clock'
    BY <2>3, <2>6, <2>7, <2>8, <2>9
  <2>11. s'.menu_id = 900 => 400 \in clock'
    BY <2>3, <2>6, <2>7, <2>8, <2>9
  <2> QED
    BY <2>3, <2>6, <2>7, <2>8, <2>10, <2>11 DEF WizardInv
<1>2. CASE ResetKey \/ Sleep
  BY <1>2, <1>s DEF ResetKey, Sleep, Restart, StartState, WizardInv
<1>3. CASE Draw
  <2>1. s'.F_init_NOX = s.F_init_NOX
    BY <1>3, <1>s, Fields DEF Draw
  <2>2. ~s.F_init_NOX /\ ~broken => s' = s /\ seen' = seen
    BY <1>3 DEF Draw, WizardInv, Current, EditPages
  <2> QED
    BY <1>3, <2>1, <2>2 DEF Draw, WizardInv
<1>4. ASSUME NEW e \in BOOLEAN, DrawMove(e) PROVE WizardInv'
  <2>1. s'.F_init_NOX = s.F_init_NOX
    BY <1>4, <1>s, Fields DEF DrawMove
  <2>2. ~(~s.F_init_NOX /\ ~broken)
    BY <1>4 DEF DrawMove, WizardInv, Current
  <2>3. broken => broken'
    BY <1>4 DEF DrawMove
  <2> QED
    BY <2>1, <2>2, <2>3 DEF WizardInv
<1>5. ASSUME NEW e \in BOOLEAN, DrawSave(e) PROVE WizardInv'
  <2> DEFINE done == [s EXCEPT !.F_init_NOX = TRUE]
  <2>1. done \in States(Days) /\ done.F_init_NOX = TRUE
    BY <1>s DEF States
  <2>2. s' = IF e THEN To(done, 2) ELSE To(done, 0)
    BY <1>5 DEF DrawSave
  <2> HIDE DEF done
  <2>3. To(done, 2).F_init_NOX = TRUE /\ To(done, 0).F_init_NOX = TRUE
    BY <2>1, Fields
  <2>4. s'.F_init_NOX = TRUE
    BY <2>2, <2>3
  <2> QED
    BY <2>4 DEF WizardInv
<1>6. CASE Error
  <2>1. s'.F_init_NOX = s.F_init_NOX
    BY <1>6, <1>s, Fields DEF Error
  <2>2. broken' \/ s.F_init_NOX
    BY <1>6 DEF Error
  <2> QED
    BY <2>1, <2>2 DEF WizardInv
<1>7. CASE UNCHANGED vars
  BY <1>7 DEF vars, WizardInv
<1> QED
  BY <1>1, <1>2, <1>3, <1>4, <1>5, <1>6, <1>7 DEF Next

(* The wizard ends only after time and date were both saved, and swallows   *)
(* no alarm, unless an error has broken it off.                             *)
THEOREM WizardEndsSet == Spec => []WizardSetsClock
<1>1. Init => WizardInv
  BY DEF Init, StartState, WizardInv
<1>2. TypeOK /\ WizardInv => WizardSetsClock
  BY DEF WizardInv, WizardSetsClock, Current
<1> QED
  BY <1>1, <1>2, WizardStep, MenuTypes, PTL DEF Spec
-----------------------------------------------------------------------------
(* The pages behind page p in a visit of the menu: what must have been      *)
(* shown when page p is entered with this mode.                             *)
Way(c, mode, sn) ==
  /\ c.menu_id = 800 => 110 \in sn
  /\ c.menu_id = 810 => {110, 800} \subseteq sn
  /\ c.menu_id = 820 => /\ {110, 800} \subseteq sn
                        /\ mode \in {LICHT, LICHT_ZEIT} => 810 \in sn
  /\ c.menu_id = 900 /\ c.F_init_NOX => Needed(mode) \subseteq sn

(* A key leads from a page that has been shown to a page whose way is       *)
(* complete; on the way from the mode to the save neither the mode nor the  *)
(* direction changes.                                                       *)
LEMMA PressedWay ==
  ASSUME NEW c \in States(Days), NEW key \in BTNAction, NEW mode \in openingMode,
         NEW sn, Way(c, mode, sn), c.menu_id \in EditPages => c.menu_id \in sn
  PROVE  LET n == Pressed(c, key, mode, Days)
         IN  /\ Way(n, mode, sn)
             /\ n.menu_id \in {810, 820, 900} =>
                  n.modeset = c.modeset /\ (c.menu_id = 800 => key = "SELECT")
<1>m. mode \in {LICHT, ZEIT, LICHT_ZEIT, NICHT}
      /\ LICHT = 0 /\ ZEIT = 1 /\ LICHT_ZEIT = 2 /\ NICHT = 3
  BY DEF openingMode, LICHT, ZEIT, LICHT_ZEIT, NICHT
<1>1. CASE c.menu_id = 110
  <2>1. DaysPage(c, key, Days).menu_id \in {100, 110, 200, 800}
    BY <1>1, Fields DEF DaysPage, States
  <2> QED
    BY <1>1, <2>1 DEF Pressed, Way, EditPages
<1>2. CASE c.menu_id = 800
  <2>1. {110, 800} \subseteq sn
    BY <1>2 DEF Way, EditPages
  <2>2. Way(After(c, 800, mode), mode, sn) /\ After(c, 800, mode).modeset = c.modeset
    BY <1>m, <2>1, Fields DEF After, Way, Needed
  <2>3. Way(To(c, 100), mode, sn) /\ To(c, 100).menu_id = 100
    BY Fields DEF Way
  <2>4. Pressed(c, key, mode, Days) = ModePage(c, key, mode)
    BY <1>2 DEF Pressed
  <2>5. ModePage(c, key, mode) = CASE key = "SELECT" -> After(c, 800, mode)
                                   [] key = "EXIT" -> To(c, 100)
                                   [] OTHER -> c
    BY DEF ModePage
  <2> QED
    BY <1>2, <2>2, <2>3, <2>4, <2>5
<1>3. CASE c.menu_id = 810
  <2>1. {110, 800, 810} \subseteq sn
    BY <1>3 DEF Way, EditPages
  <2>2. Way(After(c, 810, mode), mode, sn) /\ After(c, 810, mode).modeset = c.modeset
    BY <1>m, <2>1, Fields DEF After, Way, Needed
  <2>3. Way(To(c, 800), mode, sn)
    BY <2>1, Fields DEF Way
  <2> QED
    BY <1>3, <2>2, <2>3, Fields DEF Pressed, LuxPage
<1>4. CASE c.menu_id = 820
  <2>1. {110, 800, 820} \subseteq sn /\ (mode \in {LICHT, LICHT_ZEIT} => 810 \in sn)
    BY <1>4 DEF Way, EditPages
  <2>2. \A m : Way(Mode(c, m), mode, sn) /\ Mode(c, m).modeset = c.modeset
    BY <1>4, <2>1, Fields DEF Way
  <2>3. \A p \in {800, 810, 900} : Way(To(c, p), mode, sn) /\ To(c, p).modeset = c.modeset
    BY <1>m, <2>1, Fields DEF Way, Needed
  <2> QED
    BY <1>4, <2>2, <2>3 DEF Pressed, AlarmTimePage
<1>5. CASE c.menu_id \in {300, 400}
  <2> DEFINE n == ClockPage(c, key)
  <2>1. /\ n.menu_id \in {0, 1, 200, 300, 400, 500, 900}
        /\ n.menu_id = 900 => ~c.F_init_NOX
        /\ n.F_init_NOX = c.F_init_NOX /\ n.modeset = c.modeset
    BY <1>5, Fields DEF ClockPage, BTNAction
  <2>2. Way(n, mode, sn)
    BY <2>1 DEF Way
  <2> QED
    BY <1>5, <2>1, <2>2 DEF Pressed
<1>6. CASE c.menu_id \notin {110, 800, 810, 820, 300, 400}
  <2> DEFINE n == ListedPage(c, key)
  <2>1. n.menu_id = Arrow(c.menu_id)[key] /\ n.F_init_NOX = c.F_init_NOX
    BY DEF ListedPage, To, States
  <2>2. Arrow(c.menu_id)[key] \notin {800, 810, 820}
        /\ (Arrow(c.menu_id)[key] = 900 => c.menu_id = 900)
    BY <1>6 DEF Arrow, BTNAction
  <2>3. c.menu_id = 900 => n.modeset = c.modeset
    BY DEF ListedPage, To, States
  <2> HIDE DEF n
  <2>4. Way(n, mode, sn)
    BY <2>1, <2>2 DEF Way
  <2>5. Pressed(c, key, mode, Days) = n
    BY <1>6 DEF Pressed, n
  <2> QED
    BY <1>6, <2>1, <2>2, <2>3, <2>4, <2>5
<1> QED
  BY <1>1, <1>2, <1>3, <1>4, <1>5, <1>6

(* The inductive form of ShownBeforeSaved. *)
ShownInv ==
  /\ error => s.menu_id \in {0, 1, 2}
  /\ ~error => Way(s, values[s.modeset].mode, seen)
  /\ ~error /\ ~menuRefreshFlag /\ s.menu_id \in EditPages => s.menu_id \in seen

(* A key keeps it. *)
LEMMA ShownKey ==
  ASSUME TypeOK, ShownInv, NEW key \in BTNAction, Key(key)
  PROVE  ShownInv'
<1> DEFINE c == Current
           d == c.modeset
           v == Turned(values[d], c, key)
           n == Pressed(c, key, values[d].mode, Days)
<1>1. c \in States(Days) /\ d \in Directions /\ values[d] \in Values
  BY CurrentTyped DEF States, Directions, TypeOK
<1>2. values[d].mode \in openingMode
  BY <1>1 DEF Values
<1>3. /\ s' = n /\ values' = [values EXCEPT ![d] = v] /\ menuRefreshFlag' = TRUE
      /\ error' = FALSE /\ ~menuRefreshFlag
      /\ seen' = IF n.menu_id \in EditPages \cup {900} THEN seen ELSE {}
  BY DEF Key
<1>4. Way(c, values[d].mode, seen) /\ (c.menu_id \in EditPages => c.menu_id \in seen)
  <2>1. CASE error
    <3>1. c.menu_id = 2
      BY <2>1, Fields DEF Current, TypeOK
    <3> QED
      BY <3>1 DEF Way, EditPages
  <2>2. CASE ~error
    BY <1>3, <2>2 DEF ShownInv, Current
  <2> QED
    BY <2>1, <2>2
<1>5. /\ Way(n, values[d].mode, seen)
      /\ n.menu_id \in {810, 820, 900} =>
           n.modeset = d /\ (c.menu_id = 800 => key = "SELECT")
  BY <1>1, <1>2, <1>4, PressedWay
<1>6. (c.menu_id = 800 => key = "SELECT") => v.mode = values[d].mode
  BY <1>1 DEF Turned, Values, Turn
<1>7. values'[d] = v
  BY <1>1, <1>3 DEF TypeOK
<1> HIDE DEF c, d, v, n
<1>8. Way(n, values'[n.modeset].mode, seen')
  <2>1. CASE n.menu_id \in {810, 820, 900}
    <3>1. seen' = seen
      BY <1>3, <2>1 DEF EditPages
    <3>2. n.modeset = d /\ v.mode = values[d].mode
      BY <1>5, <1>6, <2>1
    <3>3. values'[n.modeset].mode = values[d].mode
      BY <1>7, <3>2
    <3>4. Way(n, values[d].mode, seen)
      BY <1>5
    <3> HIDE DEF Way
    <3> QED
      BY <3>1, <3>3, <3>4, Zenon
  <2>2. CASE n.menu_id \notin {810, 820, 900}
    BY <1>3, <1>5, <2>2 DEF Way, EditPages
  <2> QED
    BY <2>1, <2>2
<1> QED
  BY <1>3, <1>8 DEF ShownInv, Way, Needed

(* Every step keeps it. *)
LEMMA ShownStep == TypeOK /\ ShownInv /\ [Next]_vars => ShownInv'
<1> SUFFICES ASSUME TypeOK, ShownInv, [Next]_vars PROVE ShownInv'
  OBVIOUS
<1>s. s \in States(Days)
  BY DEF TypeOK
<1>z. ASSUME s'.menu_id \in {0, 1, 2} PROVE ShownInv'
  BY <1>z DEF ShownInv, Way, EditPages
<1>t. To(s, 0).menu_id = 0 /\ To(s, 2).menu_id = 2
  BY <1>s, Fields
<1>1. ASSUME NEW key \in BTNAction, Key(key) PROVE ShownInv'
  BY <1>1, ShownKey
<1>2. CASE ResetKey \/ Sleep
  BY <1>2, <1>z DEF ResetKey, Sleep, Restart, StartState
<1>3. CASE Draw
  <2>1. CASE error
    BY <1>3, <1>t, <1>z, <2>1, <1>s, Fields DEF Draw, Current
  <2>2. CASE ~error /\ s.menu_id = 2
    BY <1>3, <1>t, <1>z, <2>2 DEF Draw, Current
  <2>3. CASE ~error /\ s.menu_id # 2
    <3>1. /\ s' = s /\ values' = values /\ error' = FALSE
          /\ seen' = IF s.menu_id \in EditPages THEN seen \cup {s.menu_id} ELSE seen
      BY <1>3, <2>3 DEF Draw, Current, TypeOK
    <3>2. Way(s, values[s.modeset].mode, seen')
      BY <2>3, <3>1 DEF ShownInv, Way, EditPages
    <3> QED
      BY <3>1, <3>2 DEF ShownInv, Way, Needed
  <2> QED
    BY <2>1, <2>2, <2>3
<1>4. ASSUME NEW e \in BOOLEAN, DrawMove(e) PROVE ShownInv'
  BY <1>4, <1>t, <1>z DEF DrawMove
<1>5. ASSUME NEW e \in BOOLEAN, DrawSave(e) PROVE ShownInv'
  <2>1. [s EXCEPT !.F_init_NOX = TRUE] \in States(Days)
    BY <1>s DEF States
  <2>2. s'.menu_id \in {0, 2}
    BY <1>5, <2>1, Fields DEF DrawSave
  <2> QED
    BY <1>z, <2>2
<1>6. CASE Error
  BY <1>6, <1>t, <1>z DEF Error
<1>7. CASE UNCHANGED vars
  BY <1>7 DEF vars, ShownInv, Way, Needed
<1> QED
  BY <1>1, <1>2, <1>3, <1>4, <1>5, <1>6, <1>7 DEF Next

(* Page 900 saves an alarm only after the page of every value that its mode *)
(* uses was shown in the same visit of the menu.                            *)
THEOREM SavesWhatWasShown == Spec => []ShownBeforeSaved
<1>1. Init => ShownInv
  BY DEF Init, StartState, ShownInv, Way, EditPages
<1>2. TypeOK /\ ShownInv => ShownBeforeSaved
  <2> SUFFICES ASSUME TypeOK, ShownInv PROVE ShownBeforeSaved
    OBVIOUS
  <2>1. error => Current.menu_id = 2
    BY Fields DEF TypeOK, Current
  <2>2. ~error => Current = s
    BY DEF Current
  <2> QED
    BY <2>1, <2>2 DEF ShownBeforeSaved, ShownInv, Way
<1> QED
  BY <1>1, <1>2, ShownStep, MenuTypes, PTL DEF Spec
-----------------------------------------------------------------------------
(* The recursive definition of Exits has a solution: eight states, each but *)
(* the first reached from the one before by EXIT.                           *)
ExitFrom(c) == Pressed(c, "EXIT", values[s.modeset].mode, Days)
ExitLoop(f) == f = [n \in 0..7 |-> IF n = 0 THEN Current ELSE ExitFrom(f[n - 1])]

LEMMA ExitLoopExists == \E f : ExitLoop(f)
<1> DEFINE e0 == Current
           e1 == ExitFrom(e0)
           e2 == ExitFrom(e1)
           e3 == ExitFrom(e2)
           e4 == ExitFrom(e3)
           e5 == ExitFrom(e4)
           e6 == ExitFrom(e5)
           e7 == ExitFrom(e6)
           f == [n \in 0..7 |->
                  CASE n = 0 -> e0 [] n = 1 -> e1 [] n = 2 -> e2 [] n = 3 -> e3
                    [] n = 4 -> e4 [] n = 5 -> e5 [] n = 6 -> e6 [] OTHER -> e7]
<1>1. /\ f[0] = e0 /\ f[1] = e1 /\ f[2] = e2 /\ f[3] = e3 /\ f[4] = e4
      /\ f[5] = e5 /\ f[6] = e6 /\ f[7] = e7
  <2> HIDE DEF e0, e1, e2, e3, e4, e5, e6, e7
  <2> QED
    OBVIOUS
<1>2. f = [n \in 0..7 |-> f[n]]
  <2> HIDE DEF e0, e1, e2, e3, e4, e5, e6, e7
  <2> QED
    OBVIOUS
<1>3. /\ f[0] = Current /\ f[1] = ExitFrom(f[0]) /\ f[2] = ExitFrom(f[1])
      /\ f[3] = ExitFrom(f[2]) /\ f[4] = ExitFrom(f[3]) /\ f[5] = ExitFrom(f[4])
      /\ f[6] = ExitFrom(f[5]) /\ f[7] = ExitFrom(f[6])
  <2> HIDE DEF f
  <2> QED
    BY <1>1, Zenon
<1> HIDE DEF f
<1>4. \A n \in 0..7 : n \in {0, 1, 2, 3, 4, 5, 6, 7}
  OBVIOUS
<1>5. \A n \in 0..7 : f[n] = IF n = 0 THEN Current ELSE ExitFrom(f[n - 1])
  BY <1>3, <1>4
<1>6. f = [n \in 0..7 |-> IF n = 0 THEN Current ELSE ExitFrom(f[n - 1])]
  BY <1>2, <1>5
<1> QED
  BY <1>6 DEF ExitLoop

LEMMA ExitsUnrolled ==
  /\ Exits[0] = Current /\ Exits[1] = ExitFrom(Exits[0]) /\ Exits[2] = ExitFrom(Exits[1])
  /\ Exits[3] = ExitFrom(Exits[2]) /\ Exits[4] = ExitFrom(Exits[3])
  /\ Exits[5] = ExitFrom(Exits[4]) /\ Exits[6] = ExitFrom(Exits[5])
  /\ Exits[7] = ExitFrom(Exits[6])
<1> DEFINE f == CHOOSE l : ExitLoop(l)
<1>1. ExitLoop(f)
  BY ExitLoopExists
<1>2. Exits = f
  BY DEF Exits, ExitLoop, ExitFrom
<1> HIDE DEF f
<1>3. f = [n \in 0..7 |-> IF n = 0 THEN Current ELSE ExitFrom(f[n - 1])]
  BY <1>1 DEF ExitLoop
<1> QED
  BY <1>2, <1>3

(* On an initialised device the seventh EXIT at the latest is home. *)
LEMMA SevenExits ==
  ASSUME TypeOK, s.F_init_NOX, Current.menu_id \in ExitPages
  PROVE  Exits[7].menu_id = 0
<1> DEFINE Ok(e, d) ==
      /\ e \in States(Days) /\ e.F_init_NOX /\ e.menu_id \in ExitPages
      /\ Distance(e) \in Nat /\ Distance(e) <= d
<1>1. values[s.modeset].mode \in openingMode
  BY DEF TypeOK, States, Directions, Values
<1>2. ASSUME NEW e, NEW d \in Nat, Ok(e, d + 1)
      PROVE  Ok(ExitFrom(e), d)
  BY <1>1, <1>2, MenuAssumption, ExitIsNearer DEF ExitFrom, Nearer
<1>3. Ok(Current, 6)
  <2>1. Current \in States(Days) /\ Current.F_init_NOX
    BY CurrentTyped, Fields DEF Current, TypeOK
  <2>2. Distance(Current) \in 0..6
    BY DEF Distance
  <2> QED
    BY <2>1, <2>2
<1> HIDE DEF Ok
<1>4. Ok(Exits[0], 5 + 1)
  BY <1>3, ExitsUnrolled
<1>5. Ok(Exits[1], 4 + 1)
  BY <1>2, <1>4, ExitsUnrolled
<1>6. Ok(Exits[2], 3 + 1)
  BY <1>2, <1>5, ExitsUnrolled
<1>7. Ok(Exits[3], 2 + 1)
  BY <1>2, <1>6, ExitsUnrolled
<1>8. Ok(Exits[4], 1 + 1)
  BY <1>2, <1>7, ExitsUnrolled
<1>9. Ok(Exits[5], 0 + 1)
  BY <1>2, <1>8, ExitsUnrolled
<1>10. Ok(Exits[6], 0)
  BY <1>2, <1>9, ExitsUnrolled
<1>11. Ok(Exits[6], 0 + 1)
  BY <1>10 DEF Ok
<1>12. Ok(Exits[7], 0)
  BY <1>2, <1>11, ExitsUnrolled
<1> QED
  BY <1>12 DEF Ok, Distance, ExitPages

(* HomeByExit is not inductive: page 710 has no way out.  Page 700 names it *)
(* as its next page, but has gone to sleep before.                          *)
NotReset(c) == c.menu_id # 710

LEMMA PressedNotReset ==
  ASSUME NEW c \in States(Days), NEW key \in BTNAction, NEW mode, NotReset(c),
         ~(c.menu_id = 700 /\ key = "SELECT")
  PROVE  NotReset(Pressed(c, key, mode, Days))
<1>1. CASE c.menu_id = 110
  BY <1>1, Fields DEF Pressed, DaysPage, States, NotReset
<1>2. CASE c.menu_id \in {800, 810, 820}
  BY <1>2, Fields DEF Pressed, ModePage, LuxPage, AlarmTimePage, After, NotReset
<1>3. CASE c.menu_id \in {300, 400}
  BY <1>3, Fields DEF Pressed, ClockPage, NotReset
<1>4. CASE c.menu_id \notin {110, 800, 810, 820, 300, 400}
  <2>1. Pressed(c, key, mode, Days).menu_id = Arrow(c.menu_id)[key]
    BY <1>4 DEF Pressed, ListedPage, To, States
  <2>2. Arrow(c.menu_id)[key] # 710
    BY DEF Arrow, BTNAction, NotReset
  <2> QED
    BY <2>1, <2>2 DEF NotReset
<1> QED
  BY <1>1, <1>2, <1>3, <1>4

LEMMA NotResetStep == TypeOK /\ NotReset(s) /\ [Next]_vars => NotReset(s)'
<1> SUFFICES ASSUME TypeOK, NotReset(s), [Next]_vars PROVE NotReset(s)'
  OBVIOUS
<1>s. s \in States(Days) /\ Current \in States(Days) /\ NotReset(Current)
  BY CurrentTyped, Fields DEF TypeOK, Current, NotReset
<1>1. ASSUME NEW key \in BTNAction, Key(key) PROVE NotReset(s)'
  <2>1. ~(Current.menu_id = 700 /\ key = "SELECT")
    BY <1>1 DEF Key
  <2>2. PICK mode : s' = Pressed(Current, key, mode, Days)
    BY <1>1 DEF Key
  <2>3. NotReset(s')
    BY <1>s, <2>1, <2>2, PressedNotReset
  <2> QED
    BY <2>3 DEF NotReset
<1>2. CASE ResetKey \/ Sleep
  <2>1. s' = StartState(s.F_init_NOX)
    BY <1>2 DEF ResetKey, Sleep, Restart
  <2> QED
    BY <2>1 DEF StartState, NotReset
<1>3. CASE Draw \/ Error
  BY <1>3, <1>s, Fields DEF Draw, Error, NotReset
<1>4. ASSUME NEW e \in BOOLEAN, DrawMove(e) \/ DrawSave(e) PROVE NotReset(s)'
  <2>1. s' = To(s, 0) \/ \E p \in {0, 2} : s' = To([s EXCEPT !.F_init_NOX = TRUE], p)
    BY <1>4 DEF DrawMove, DrawSave
  <2>2. [s EXCEPT !.F_init_NOX = TRUE] \in States(Days)
    BY <1>s DEF States
  <2> QED
    BY <1>s, <2>1, <2>2, Fields DEF NotReset
<1>5. CASE UNCHANGED vars
  BY <1>5 DEF vars, NotReset
<1> QED
  BY <1>1, <1>2, <1>3, <1>4, <1>5 DEF Next

(* From every page that can be reached, but the two without code, EXIT      *)
(* alone leads home with at most seven presses.                             *)
THEOREM ExitLeadsHome == Spec => []HomeByExit
<1>1. Init => NotReset(s)
  BY DEF Init, StartState, NotReset
<1>2. TypeOK /\ NotReset(s) => HomeByExit
  <2> SUFFICES ASSUME TypeOK, NotReset(s), s.F_init_NOX,
                      Current.menu_id \notin DeadPages \cup ActingPages
               PROVE  \E n \in 0..7 : Exits[n].menu_id = 0
    BY DEF HomeByExit
  <2>1. Current.menu_id \in PageIds /\ Current.menu_id # 710
    <3>1. Current \in States(Days) /\ s \in States(Days)
      BY CurrentTyped DEF TypeOK
    <3>2. Current.menu_id # 710
      BY <3>1, Fields DEF Current, NotReset
    <3> QED
      BY <3>1, <3>2 DEF States
  <2>2. Current.menu_id \in ExitPages
    BY <2>1 DEF PageIds, ExitPages, ActingPages, DeadPages
  <2>3. Exits[7].menu_id = 0
    BY <2>2, SevenExits
  <2> QED
    BY <2>3
<1> QED
  BY <1>1, <1>2, TypeInit, TypeStep, NotResetStep, PTL DEF Spec
=============================================================================
