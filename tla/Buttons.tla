------------------------------ MODULE Buttons -------------------------------
(***************************************************************************)
(* menuUpdate: debouncing, repetition of a held key, the dark display; and *)
(* checkLongPressStartup; composed with the one thing that also looks at   *)
(* the buttons, the loop of moveMotor.  Everything moves in small ticks:   *)
(* a pass of loop(), of checkLongPressStartup and of moveMotor takes 1 to  *)
(* PassTicks.  A millis() value is represented by its age.                 *)
(*                                                                         *)
(* Of the menu only the way to the manual moves is kept: page 0, its pages *)
(* 3 and 4, and 100 for all others.  Errors and the clock's alarm are      *)
(* Controller's.                                                           *)
(***************************************************************************)
EXTENDS Pages

CONSTANTS
  Switches,      (* the buttons in use, a subset of {SW_EXIT, ..., SW_FWD}  *)
  BUTTON_DEBOUNCE_TIME_NORMAL, BUTTON_DEBOUNCE_TIME_FAST,
  BUTTON_LONG_PRESS_TIME, LONG_PRESS_STARTUP_DURATION,
  LCD_OFF_TIME, NOX_SLEEP_TIME,
  PassTicks,     (* bound: the longest pass                                 *)
  AgeCap         (* bound: ages stop here                                   *)

(* Pin numbers: GPIO_wake_up_reason reports the highest. *)
SW_EXIT == 32
SW_SELECT == 33
SW_BACK == 34
SW_FWD == 35

Ages == 0..AgeCap

ASSUME ButtonsAssumption ==
  /\ Switches \subseteq {SW_EXIT, SW_SELECT, SW_BACK, SW_FWD}
  /\ PassTicks \in Nat \ {0} /\ AgeCap \in Nat
  /\ \A t \in {BUTTON_DEBOUNCE_TIME_NORMAL, BUTTON_DEBOUNCE_TIME_FAST,
               BUTTON_LONG_PRESS_TIME, LONG_PRESS_STARTUP_DURATION,
               LCD_OFF_TIME, NOX_SLEEP_TIME} : t \in 1..(AgeCap - 1)
  /\ BUTTON_DEBOUNCE_TIME_FAST <= BUTTON_DEBOUNCE_TIME_NORMAL
  /\ LCD_OFF_TIME < NOX_SLEEP_TIME
  /\ BUTTON_DEBOUNCE_TIME_NORMAL + 2 * PassTicks <= NOX_SLEEP_TIME

VARIABLES
  pc,               (* "loop" and "repeat" are the halves of menuUpdate     *)
  held,             (* the buttons that read HIGH                           *)
  button_flag, longPressFlag, menuRefreshFlag,
  sincePrevious, sincePress, sinceLong,  (* previousMillis, lastPress, longPressStart *)
  lit,              (* the display is lit                                   *)
  menu_id,
  sw,               (* the argument of checkLongPressStartup                *)
  inMenu,           (* menuActive: moveMotor returns to menuUpdate          *)
  (* History, read by no action: *)
  sinceAct,         (* since a key was last passed to menuFunctions         *)
  sinceUp,          (* since menuUpdate last saw no button                  *)
  freedLong,        (* keys were last unblocked with a button seen in every *)
                    (* pass for longer than BUTTON_LONG_PRESS_TIME          *)
  gap, keyLong,     (* sinceAct and freedLong when a key was last passed    *)
  fresh,            (* a button was pressed after the move began            *)
  stopped           (* why the last move ended                              *)

timers == <<sincePrevious, sincePress, sinceLong>>
history == <<sinceAct, sinceUp, freedLong, gap, keyLong, fresh, stopped>>
vars == <<pc, held, button_flag, longPressFlag, menuRefreshFlag, timers, lit,
          menu_id, sw, inMenu, history>>

(* One type invariant.  Of the buttons, only SW_BACK and SW_FWD can be the  *)
(* one whose long press starts a move.                                      *)
TypeOK ==
  /\ pc \in {"asleep", "startup", "loop", "repeat", "move"}
  /\ held \subseteq Switches
  /\ button_flag \in BOOLEAN /\ longPressFlag \in BOOLEAN /\ menuRefreshFlag \in BOOLEAN
  /\ sincePrevious \in Ages /\ sincePress \in Ages /\ sinceLong \in Ages
  /\ lit \in BOOLEAN /\ inMenu \in BOOLEAN
  /\ menu_id \in {0, 3, 4, 100} /\ sw \in {SW_BACK, SW_FWD}
  /\ sinceAct \in Ages /\ sinceUp \in Ages /\ gap \in Ages
  /\ freedLong \in BOOLEAN /\ keyLong \in BOOLEAN
  /\ fresh \in BOOLEAN /\ stopped \in {"none", "reached", "button"}

Later(age, d) == IF age + d > AgeCap THEN AgeCap ELSE age + d

(* d ticks pass for the timers not assigned by the step. *)
LongAges(d) == sinceLong' = Later(sinceLong, d) /\ sinceUp' = Later(sinceUp, d)
Pass(d) ==
  /\ sincePrevious' = Later(sincePrevious, d) /\ sincePress' = Later(sincePress, d)
  /\ LongAges(d) /\ sinceAct' = Later(sinceAct, d)

Init ==
  /\ pc = "asleep" /\ held = {}
  /\ button_flag = FALSE /\ longPressFlag = FALSE /\ menuRefreshFlag = TRUE
  /\ sincePrevious = 0 /\ sincePress = 0 /\ sinceLong = 0
  /\ lit = FALSE /\ menu_id = 0 /\ sw = SW_BACK /\ inMenu = FALSE
  /\ sinceAct = AgeCap /\ sinceUp = 0 /\ gap = AgeCap
  /\ freedLong = FALSE /\ keyLong = FALSE
  /\ fresh = FALSE /\ stopped = "none"
-----------------------------------------------------------------------------
(* The fingers. *)
Press(b) ==
  /\ b \notin held
  /\ held' = held \cup {b}
  /\ fresh' = (fresh \/ pc = "move")
  /\ UNCHANGED <<pc, button_flag, longPressFlag, menuRefreshFlag, timers, lit,
                 menu_id, sw, inMenu, sinceAct, sinceUp, freedLong, gap, keyLong, stopped>>

Release(b) ==
  /\ b \in held
  /\ held' = held \ {b}
  /\ UNCHANGED <<pc, button_flag, longPressFlag, menuRefreshFlag, timers, lit,
                 menu_id, sw, inMenu, history>>
-----------------------------------------------------------------------------
(* Mutant: every button that wakes the device is checked for a long press,  *)
(* which then moves the door.                                               *)
WakeAnyLongPress(b) ==
  /\ pc = "asleep" /\ b \in held /\ \A x \in held : x <= b
  /\ pc' = "startup" /\ inMenu' = FALSE /\ sw' = b
  /\ button_flag' = FALSE /\ longPressFlag' = FALSE /\ menuRefreshFlag' = TRUE
  /\ sincePrevious' = 0 /\ sincePress' = 0 /\ sinceLong' = 0
  /\ lit' = TRUE /\ menu_id' = 0
  /\ sinceUp' = 0 /\ sinceAct' = AgeCap /\ freedLong' = FALSE
  /\ UNCHANGED <<held, gap, keyLong, fresh, stopped>>

(* Waking up.  A button ends deep sleep, also one that is still held; the   *)
(* one with the highest pin decides.  All globals start afresh.             *)
Wake(b) ==
  /\ pc = "asleep" /\ b \in held /\ \A x \in held : x <= b
  /\ pc' = IF b \in {SW_BACK, SW_FWD} THEN "startup" ELSE "loop"
  /\ inMenu' = (b \notin {SW_BACK, SW_FWD})
  /\ sw' = IF b \in {SW_BACK, SW_FWD} THEN b ELSE sw
  /\ button_flag' = FALSE /\ longPressFlag' = FALSE /\ menuRefreshFlag' = TRUE
  /\ sincePrevious' = 0 /\ sincePress' = 0 /\ sinceLong' = 0
  /\ lit' = TRUE /\ menu_id' = 0
  /\ sinceUp' = 0 /\ sinceAct' = AgeCap /\ freedLong' = FALSE
  /\ UNCHANGED <<held, gap, keyLong, fresh, stopped>>

BeginMove(menu) ==
  /\ pc' = "move" /\ inMenu' = menu
  /\ fresh' = FALSE /\ stopped' = "none"

(* checkLongPressStartup, one turn of its loop: the button must be high at  *)
(* each look until the time is over.                                        *)
StartupHeld(d) ==
  /\ pc = "startup" /\ Later(sincePrevious, d) <= LONG_PRESS_STARTUP_DURATION
  /\ Pass(d)
  /\ IF sw \in held THEN UNCHANGED <<pc, inMenu>>
                    ELSE pc' = "loop" /\ inMenu' = TRUE
  /\ UNCHANGED <<held, button_flag, longPressFlag, menuRefreshFlag, lit, menu_id,
                 sw, freedLong, gap, keyLong, fresh, stopped>>

StartupMove(d) ==
  /\ pc = "startup" /\ Later(sincePrevious, d) > LONG_PRESS_STARTUP_DURATION
  /\ Pass(d)
  /\ BeginMove(FALSE)
  /\ UNCHANGED <<held, button_flag, longPressFlag, menuRefreshFlag, lit, menu_id,
                 sw, freedLong, gap, keyLong>>
-----------------------------------------------------------------------------
(* loop(), up to and including the first half of menuUpdate. *)
Dark(d) == Later(sincePress, d) >= LCD_OFF_TIME
Idle(d) == Later(sincePress, d) >= NOX_SLEEP_TIME

(* statusabfrage puts the device to sleep. *)
LoopSleep(d) ==
  /\ pc = "loop" /\ Idle(d)
  /\ pc' = "asleep" /\ lit' = FALSE
  /\ Pass(d)
  /\ UNCHANGED <<held, button_flag, longPressFlag, menuRefreshFlag, menu_id, sw,
                 inMenu, freedLong, gap, keyLong, fresh, stopped>>

(* SELECT before EXIT before SW_BACK before SW_FWD. *)
Key ==
  IF SW_SELECT \in held THEN "SELECT"
  ELSE IF SW_EXIT \in held THEN "EXIT"
  ELSE IF SW_BACK \in held THEN "LEFT" ELSE "RIGHT"

(* menuFunctions with a key: from page 0 to 3, 4 or 100, and home with EXIT. *)
KeyPage(k) ==
  CASE menu_id = 0 -> Arrow(0)[k] [] k = "EXIT" -> 0 [] OTHER -> menu_id

(* Mutant: with a dark display the press is not remembered. *)
KeySeenIfLit(d) ==
  /\ pc = "loop" /\ ~Idle(d) /\ held # {} /\ ~button_flag
  /\ pc' = "repeat" /\ lit' = ~Dark(d)
  /\ sincePress' = 0
  /\ IF Dark(d)
     THEN /\ sincePrevious' = Later(sincePrevious, d)
          /\ UNCHANGED <<button_flag, menu_id, menuRefreshFlag, gap, keyLong>>
          /\ sinceAct' = Later(sinceAct, d)
     ELSE /\ menu_id' = KeyPage(Key) /\ menuRefreshFlag' = TRUE
          /\ button_flag' = TRUE /\ sincePrevious' = 0
          /\ gap' = Later(sinceAct, d) /\ keyLong' = freedLong /\ sinceAct' = 0
  /\ LongAges(d)
  /\ UNCHANGED <<held, longPressFlag, sw, inMenu, freedLong, fresh, stopped>>

(* A button is high and not blocked: it is passed on if the display was lit, *)
(* else it only lights it.                                                  *)
KeySeen(d) ==
  /\ pc = "loop" /\ ~Idle(d) /\ held # {} /\ ~button_flag
  /\ pc' = "repeat" /\ lit' = ~Dark(d)
  /\ button_flag' = TRUE /\ sincePrevious' = 0 /\ sincePress' = 0
  /\ IF Dark(d)
     THEN /\ UNCHANGED <<menu_id, menuRefreshFlag, gap, keyLong>>
          /\ sinceAct' = Later(sinceAct, d)
     ELSE /\ menu_id' = KeyPage(Key) /\ menuRefreshFlag' = TRUE
          /\ gap' = Later(sinceAct, d) /\ keyLong' = freedLong /\ sinceAct' = 0
  /\ LongAges(d)
  /\ UNCHANGED <<held, longPressFlag, sw, inMenu, freedLong, fresh, stopped>>

(* No key: the page is drawn again after a key, which on pages 3 and 4 is   *)
(* the manual move.  (Page 0 is also drawn twice a second, to no effect      *)
(* here.)                                                                   *)
NoKey(d) ==
  /\ pc = "loop" /\ ~Idle(d) /\ (held = {} \/ button_flag)
  /\ lit' = ~Dark(d) /\ menuRefreshFlag' = FALSE
  /\ Pass(d)
  /\ IF menuRefreshFlag /\ menu_id \in {3, 4}
     THEN BeginMove(TRUE)
     ELSE pc' = "repeat" /\ UNCHANGED <<inMenu, fresh, stopped>>
  /\ UNCHANGED <<held, button_flag, longPressFlag, menu_id, sw, freedLong, gap, keyLong>>

(* One pass of moveMotor: the door arrives, or else a button that is high   *)
(* ends the move, or it goes on.  Afterwards menuUpdate continues, or       *)
(* statusabfrage puts a device to sleep that was woken for the move.        *)
MovePass(d, arrives) ==
  /\ pc = "move"
  /\ Pass(d)
  /\ IF arrives \/ held # {}
     THEN /\ stopped' = IF arrives THEN "reached" ELSE "button"
          /\ pc' = IF inMenu THEN "repeat" ELSE "asleep"
          /\ menu_id' = 0
     ELSE UNCHANGED <<pc, menu_id, stopped>>
  /\ UNCHANGED <<held, button_flag, longPressFlag, menuRefreshFlag, lit, sw,
                 inMenu, freedLong, gap, keyLong, fresh>>
-----------------------------------------------------------------------------
(* The second half of menuUpdate. *)
LongHeld(flag, age) == flag /\ age > BUTTON_LONG_PRESS_TIME

(* Mutant: the fast time counts from the start, not after a long press. *)
WaitAlwaysFast(flag, age) == BUTTON_DEBOUNCE_TIME_FAST
(* Mutant: a key that is held is never unblocked. *)
WaitUntilReleased(flag, age) ==
  IF flag THEN AgeCap + 1 ELSE BUTTON_DEBOUNCE_TIME_NORMAL

Wait(flag, age) ==
  IF LongHeld(flag, age) THEN BUTTON_DEBOUNCE_TIME_FAST
                         ELSE BUTTON_DEBOUNCE_TIME_NORMAL

Repeat ==
  /\ pc = "repeat" /\ pc' = "loop"
  /\ longPressFlag' = (held # {})
  /\ sinceLong' = IF held # {} /\ ~longPressFlag THEN 0 ELSE sinceLong
  /\ sinceUp' = IF held = {} THEN 0 ELSE sinceUp
  /\ IF sincePrevious >= Wait(longPressFlag', sinceLong')
     THEN /\ sincePrevious' = 0 /\ button_flag' = FALSE
          /\ freedLong' = (sinceUp' > BUTTON_LONG_PRESS_TIME)
     ELSE UNCHANGED <<sincePrevious, button_flag, freedLong>>
  /\ UNCHANGED <<held, menuRefreshFlag, sincePress, lit, menu_id, sw, inMenu,
                 sinceAct, gap, keyLong, fresh, stopped>>

Program ==
  \/ \E d \in 1..PassTicks :
       \/ StartupHeld(d) \/ StartupMove(d)
       \/ LoopSleep(d) \/ KeySeen(d) \/ NoKey(d)
       \/ \E arrives \in BOOLEAN : MovePass(d, arrives)
  \/ Repeat

Next ==
  \/ \E b \in Switches : Press(b) \/ Release(b) \/ Wake(b)
  \/ Program

(* The processor goes on; nothing is assumed about fingers. *)
Spec == Init /\ [][Next]_vars /\ WF_vars(Program)
-----------------------------------------------------------------------------
(* However the contacts bounce, two keys reach the menu with at least the   *)
(* fast debounce time between them, and with less than the normal one only  *)
(* if the second was let through because menuUpdate had seen some button in *)
(* every pass for longer than the long-press time.  (Released and pressed   *)
(* again it is still let through: the block was already lifted.)            *)
KeysDebounced ==
  /\ gap >= BUTTON_DEBOUNCE_TIME_FAST
  /\ gap < BUTTON_DEBOUNCE_TIME_NORMAL => keyLong

(* A key reaches the menu only if the display was already lit in the pass   *)
(* before: the press that lights a dark display changes nothing that the    *)
(* user has not seen.                                                       *)
KeysActOnLitDisplay == [][(sinceAct' = 0 /\ pc = "loop") => lit]_vars

(* A button that is down while keys are blocked is passed on in the end or  *)
(* comes up: debouncing, repetition and the manual moves that it starts     *)
(* never block it for good, nor does the device fall asleep under it.       *)
HeldKeyRepeats ==
  (pc = "loop" /\ button_flag /\ held # {}) ~> (sinceAct = 0 \/ held = {})
-----------------------------------------------------------------------------
(* main.cpp:3097 and 2855: a long press moves the door, and a button        *)
(* interrupts the move.  The press that started a move is not taken for one *)
(* that shall stop it.                                                      *)
OwnPressKeepsMove == stopped = "button" => fresh
=============================================================================
