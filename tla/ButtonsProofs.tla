---------------------------- MODULE ButtonsProofs ---------------------------
(***************************************************************************)
(* Proofs about Buttons, for all debounce times, pass lengths and buttons: *)
(* the types, the distance of the keys that reach the menu, and that no    *)
(* key acts on a dark display.                                             *)
(***************************************************************************)
EXTENDS Buttons, TLAPS

(* The times, as the proofs use them. *)
LEMMA TimesTyped ==
  /\ AgeCap \in Nat /\ AgeCap >= 2
  /\ BUTTON_DEBOUNCE_TIME_NORMAL \in 1..(AgeCap - 1)
  /\ BUTTON_DEBOUNCE_TIME_FAST \in 1..BUTTON_DEBOUNCE_TIME_NORMAL
  /\ BUTTON_LONG_PRESS_TIME \in 1..(AgeCap - 1)
  /\ LCD_OFF_TIME \in 1..(AgeCap - 1)
  BY ButtonsAssumption

(* Ages grow, keep their order, and pass every time on their way. *)
LEMMA LaterFacts ==
  ASSUME NEW a \in Ages, NEW b \in Ages, NEW d \in 1..PassTicks
  PROVE  /\ Later(a, d) \in Ages /\ Later(a, d) >= 1 /\ a <= Later(a, d)
         /\ a <= b => Later(a, d) <= Later(b, d)
  BY ButtonsAssumption, TimesTyped DEF Later, Ages

LEMMA KeyPageTyped ==
  ASSUME menu_id \in {0, 3, 4, 100}
  PROVE  KeyPage(Key) \in {0, 3, 4, 100}
<1>1. Key \in {"SELECT", "EXIT", "LEFT", "RIGHT"}
  BY DEF Key
<1>2. Arrow(0) = [LEFT |-> 3, RIGHT |-> 4, SELECT |-> 100, EXIT |-> 0]
  BY DEF Arrow
<1>3. Arrow(0)[Key] \in {0, 3, 4, 100}
  BY <1>1, <1>2
<1> QED
  BY <1>3 DEF KeyPage
-----------------------------------------------------------------------------
LEMMA TypeInit == Init => TypeOK
<1>1. 0 \in Ages /\ AgeCap \in Ages
  BY TimesTyped DEF Ages
<1>2. Init => /\ button_flag \in BOOLEAN /\ longPressFlag \in BOOLEAN
              /\ menuRefreshFlag \in BOOLEAN /\ lit \in BOOLEAN /\ inMenu \in BOOLEAN
              /\ freedLong \in BOOLEAN /\ keyLong \in BOOLEAN /\ fresh \in BOOLEAN
  BY Zenon DEF Init
<1> QED
  BY <1>1, <1>2 DEF Init, TypeOK

(* d ticks that pass leave the timers typed. *)
LEMMA PassTyped ==
  ASSUME TypeOK, NEW d \in 1..PassTicks, Pass(d)
  PROVE  /\ sincePrevious' \in Ages /\ sincePress' \in Ages /\ sinceLong' \in Ages
         /\ sinceAct' \in Ages /\ sinceUp' \in Ages
<1>1. /\ sincePrevious \in Ages /\ sincePress \in Ages /\ sinceLong \in Ages
      /\ sinceAct \in Ages /\ sinceUp \in Ages
  BY DEF TypeOK
<1> QED
  BY <1>1, LaterFacts DEF Pass, LongAges

LEMMA TypeStep == TypeOK /\ [Next]_vars => TypeOK'
<1> SUFFICES ASSUME TypeOK, [Next]_vars PROVE TypeOK'
  OBVIOUS
<1>0. 0 \in Ages /\ AgeCap \in Ages
  BY TimesTyped DEF Ages
<1>1. ASSUME NEW b \in Switches, Press(b) \/ Release(b) PROVE TypeOK'
  <2>1. held' \subseteq Switches
    BY <1>1 DEF Press, Release, TypeOK
  <2>2. fresh' \in BOOLEAN
    BY <1>1 DEF Press, Release, history, TypeOK
  <2>3. UNCHANGED <<pc, button_flag, longPressFlag, menuRefreshFlag, sincePrevious,
                    sincePress, sinceLong, lit, menu_id, sw, inMenu, sinceAct, sinceUp,
                    freedLong, gap, keyLong, stopped>>
    BY <1>1 DEF Press, Release, timers, history
  <2> QED
    BY <2>1, <2>2, <2>3 DEF TypeOK
<1>2. ASSUME NEW b \in Switches, Wake(b) PROVE TypeOK'
  BY <1>0, <1>2 DEF Wake, TypeOK
<1>3. ASSUME NEW d \in 1..PassTicks, StartupHeld(d) \/ StartupMove(d) \/ LoopSleep(d) \/ NoKey(d)
      PROVE  TypeOK'
  <2>1. Pass(d)
    BY <1>3 DEF StartupHeld, StartupMove, LoopSleep, NoKey
  <2>2. /\ sincePrevious' \in Ages /\ sincePress' \in Ages /\ sinceLong' \in Ages
        /\ sinceAct' \in Ages /\ sinceUp' \in Ages
    BY <2>1, PassTyped
  <2>3. CASE StartupHeld(d)
    <3>1. pc' \in {"startup", "loop"} /\ inMenu' \in BOOLEAN
      BY <2>3 DEF StartupHeld, TypeOK
    <3>2. UNCHANGED <<held, button_flag, longPressFlag, menuRefreshFlag, lit, menu_id,
                      sw, freedLong, gap, keyLong, fresh, stopped>>
      BY <2>3 DEF StartupHeld
    <3> QED
      BY <2>2, <3>1, <3>2 DEF TypeOK
  <2>4. CASE StartupMove(d)
    <3>1. pc' = "move" /\ inMenu' = FALSE /\ fresh' = FALSE /\ stopped' = "none"
      BY <2>4 DEF StartupMove, BeginMove
    <3>2. UNCHANGED <<held, button_flag, longPressFlag, menuRefreshFlag, lit, menu_id,
                      sw, freedLong, gap, keyLong>>
      BY <2>4 DEF StartupMove
    <3> QED
      BY <2>2, <3>1, <3>2 DEF TypeOK
  <2>5. CASE LoopSleep(d)
    <3>1. /\ pc' = "asleep" /\ lit' = FALSE
          /\ UNCHANGED <<held, button_flag, longPressFlag, menuRefreshFlag, menu_id, sw,
                         inMenu, freedLong, gap, keyLong, fresh, stopped>>
      BY <2>5 DEF LoopSleep
    <3>2. lit' \in BOOLEAN
      BY <3>1
    <3> QED
      BY <2>2, <3>1, <3>2 DEF TypeOK
  <2>6. CASE NoKey(d)
    <3>1. lit' \in BOOLEAN /\ menuRefreshFlag' = FALSE
      BY <2>6 DEF NoKey
    <3>2. /\ pc' \in {"move", "repeat"} /\ inMenu' \in BOOLEAN /\ fresh' \in BOOLEAN
          /\ stopped' \in {"none", "reached", "button"}
      BY <2>6 DEF NoKey, BeginMove, TypeOK
    <3>3. UNCHANGED <<held, button_flag, longPressFlag, menu_id, sw, freedLong, gap, keyLong>>
      BY <2>6 DEF NoKey
    <3> QED
      BY <2>2, <3>1, <3>2, <3>3 DEF TypeOK
  <2> QED
    BY <1>3, <2>3, <2>4, <2>5, <2>6
<1>4. ASSUME NEW d \in 1..PassTicks, KeySeen(d) PROVE TypeOK'
  <2>1. /\ Later(sinceAct, d) \in Ages /\ Later(sinceLong, d) \in Ages
        /\ Later(sinceUp, d) \in Ages
    BY LaterFacts DEF TypeOK
  <2>2. menu_id' \in {0, 3, 4, 100}
    BY <1>4, KeyPageTyped DEF KeySeen, TypeOK
  <2>3. /\ sinceLong' \in Ages /\ sinceUp' \in Ages /\ sincePress' \in Ages
        /\ sincePrevious' \in Ages /\ sinceAct' \in Ages /\ gap' \in Ages
    BY <1>0, <1>4, <2>1 DEF KeySeen, LongAges, TypeOK
  <2>4. lit' \in BOOLEAN /\ keyLong' \in BOOLEAN /\ menuRefreshFlag' \in BOOLEAN
    BY <1>4 DEF KeySeen, TypeOK
  <2> QED
    BY <1>4, <2>2, <2>3, <2>4 DEF KeySeen, TypeOK
<1>5. ASSUME NEW d \in 1..PassTicks, NEW arrives \in BOOLEAN, MovePass(d, arrives)
      PROVE  TypeOK'
  <2>1. /\ sincePrevious' \in Ages /\ sincePress' \in Ages /\ sinceLong' \in Ages
        /\ sinceAct' \in Ages /\ sinceUp' \in Ages
    BY <1>5, PassTyped DEF MovePass
  <2> QED
    BY <1>5, <2>1 DEF MovePass, TypeOK
<1>6. CASE Repeat
  <2>1. sinceLong' \in Ages /\ sinceUp' \in Ages /\ sincePrevious' \in Ages
    BY <1>0, <1>6 DEF Repeat, TypeOK
  <2>2. longPressFlag' \in BOOLEAN
    BY <1>6 DEF Repeat
  <2>3. button_flag' \in BOOLEAN /\ freedLong' \in BOOLEAN
    <3>1. \/ button_flag' = FALSE /\ freedLong' = (sinceUp' > BUTTON_LONG_PRESS_TIME)
          \/ button_flag' = button_flag /\ freedLong' = freedLong
      BY <1>6, Zenon DEF Repeat
    <3>2. (sinceUp' > BUTTON_LONG_PRESS_TIME) \in BOOLEAN
      OBVIOUS
    <3> QED
      BY <3>1, <3>2, Zenon DEF TypeOK
  <2> QED
    BY <1>6, <2>1, <2>2, <2>3 DEF Repeat, TypeOK
<1>7. CASE UNCHANGED vars
  BY <1>7 DEF vars, timers, history, TypeOK
<1> QED
  BY <1>1, <1>2, <1>3, <1>4, <1>5, <1>6, <1>7 DEF Next, Program

(* Every reachable state is typed: no age leaves its range. *)
THEOREM ButtonsTypes == Spec => []TypeOK
  BY TypeInit, TypeStep, PTL DEF Spec
-----------------------------------------------------------------------------
(* KeysDebounced looks back at the last two keys.  What makes it true is    *)
(* that previousMillis is never older than the last key, longPressStart     *)
(* never older than the last pass without a button, and that keys are let   *)
(* through only after one of the two waits.                                 *)
Spaced(age, long) ==
  /\ age >= BUTTON_DEBOUNCE_TIME_FAST
  /\ age < BUTTON_DEBOUNCE_TIME_NORMAL => long
DebounceInv ==
  /\ sincePrevious <= sinceAct
  /\ longPressFlag => sinceLong <= sinceUp
  /\ ~button_flag => Spaced(sinceAct, freedLong)
  /\ KeysDebounced

(* Time passes, and the block stays as it is. *)
LEMMA DebouncePass ==
  ASSUME TypeOK, DebounceInv, NEW d \in 1..PassTicks, Pass(d),
         UNCHANGED <<button_flag, longPressFlag, freedLong, gap, keyLong>>
  PROVE  DebounceInv'
<1>1. /\ sincePrevious \in Ages /\ sinceAct \in Ages /\ sinceLong \in Ages /\ sinceUp \in Ages
  BY DEF TypeOK
<1>2. sincePrevious' <= sinceAct'
  BY <1>1, LaterFacts DEF DebounceInv, Pass
<1>3. sinceLong <= sinceUp => sinceLong' <= sinceUp'
  BY <1>1, LaterFacts DEF Pass, LongAges
<1>4. sinceAct <= sinceAct' /\ sinceAct' \in Ages
  BY <1>1, LaterFacts DEF Pass
<1>5. Spaced(sinceAct, freedLong) => Spaced(sinceAct', freedLong)
  BY <1>1, <1>4, TimesTyped DEF Spaced, Ages
<1> QED
  BY <1>2, <1>3, <1>5 DEF DebounceInv, KeysDebounced

LEMMA DebounceStep == TypeOK /\ DebounceInv /\ [Next]_vars => DebounceInv'
<1> SUFFICES ASSUME TypeOK, DebounceInv, [Next]_vars PROVE DebounceInv'
  OBVIOUS
<1>0. /\ sincePrevious \in Ages /\ sinceAct \in Ages /\ sinceLong \in Ages /\ sinceUp \in Ages
      /\ longPressFlag \in BOOLEAN
  BY DEF TypeOK
<1>1. ASSUME NEW b \in Switches, Press(b) \/ Release(b) PROVE DebounceInv'
  BY <1>1 DEF Press, Release, timers, history, DebounceInv, KeysDebounced
<1>2. ASSUME NEW b \in Switches, Wake(b) PROVE DebounceInv'
  <2>1. Spaced(AgeCap, FALSE)
    BY TimesTyped DEF Spaced
  <2>2. /\ button_flag' = FALSE /\ longPressFlag' = FALSE /\ sincePrevious' = 0
        /\ sinceAct' = AgeCap /\ freedLong' = FALSE /\ UNCHANGED <<gap, keyLong>>
    BY <1>2 DEF Wake
  <2>3. sincePrevious' <= sinceAct'
    BY <2>2, TimesTyped
  <2> QED
    BY <2>1, <2>2, <2>3 DEF DebounceInv, KeysDebounced
<1>3. ASSUME NEW d \in 1..PassTicks,
             \/ StartupHeld(d) \/ StartupMove(d) \/ LoopSleep(d) \/ NoKey(d)
             \/ \E arrives \in BOOLEAN : MovePass(d, arrives)
      PROVE  DebounceInv'
  <2>1. Pass(d) /\ UNCHANGED <<button_flag, longPressFlag, freedLong, gap, keyLong>>
    BY <1>3 DEF StartupHeld, StartupMove, LoopSleep, NoKey, MovePass
  <2> QED
    BY <2>1, DebouncePass
<1>4. ASSUME NEW d \in 1..PassTicks, KeySeen(d) PROVE DebounceInv'
  <2>1. /\ ~button_flag /\ button_flag' = TRUE /\ sincePrevious' = 0
        /\ LongAges(d) /\ longPressFlag' = longPressFlag
        /\ \/ UNCHANGED <<gap, keyLong>> /\ sinceAct' = Later(sinceAct, d)
           \/ gap' = Later(sinceAct, d) /\ keyLong' = freedLong /\ sinceAct' = 0
    BY <1>4 DEF KeySeen
  <2>2. Later(sinceAct, d) \in Ages /\ sinceAct <= Later(sinceAct, d)
    BY <1>0, LaterFacts
  <2>3. Spaced(Later(sinceAct, d), freedLong)
    BY <1>0, <2>1, <2>2, TimesTyped DEF DebounceInv, Spaced, Ages
  <2>4. KeysDebounced'
    BY <2>1, <2>3 DEF DebounceInv, KeysDebounced, Spaced
  <2>5. sincePrevious' <= sinceAct'
    BY <2>1, <2>2 DEF Ages
  <2>6. sinceLong <= sinceUp => sinceLong' <= sinceUp'
    BY <1>0, <2>1, LaterFacts DEF LongAges
  <2> QED
    BY <2>1, <2>4, <2>5, <2>6 DEF DebounceInv
<1>5. CASE Repeat
  <2>1. /\ longPressFlag' = (held # {})
        /\ sinceLong' = (IF held # {} /\ ~longPressFlag THEN 0 ELSE sinceLong)
        /\ sinceUp' = (IF held = {} THEN 0 ELSE sinceUp)
        /\ UNCHANGED <<sinceAct, gap, keyLong>>
    BY <1>5 DEF Repeat
  <2>2. longPressFlag' => sinceLong' <= sinceUp'
    <3>1. CASE held = {}
      BY <2>1, <3>1
    <3>2. CASE held # {} /\ ~longPressFlag
      <4>1. sinceLong' = 0 /\ sinceUp' = sinceUp
        BY <2>1, <3>2
      <4> QED
        BY <1>0, <4>1 DEF Ages
    <3>3. CASE held # {} /\ longPressFlag
      <4>1. sinceLong' = sinceLong /\ sinceUp' = sinceUp /\ sinceLong <= sinceUp
        BY <2>1, <3>3 DEF DebounceInv
      <4> QED
        BY <4>1
    <3> QED
      BY <3>1, <3>2, <3>3
  <2>3. KeysDebounced'
    BY <2>1 DEF DebounceInv, KeysDebounced
  <2>4. CASE sincePrevious >= Wait(longPressFlag', sinceLong')
    <3>1. /\ sincePrevious' = 0 /\ button_flag' = FALSE
          /\ freedLong' = (sinceUp' > BUTTON_LONG_PRESS_TIME)
      BY <1>5, <2>4 DEF Repeat
    <3>2. sinceAct >= Wait(longPressFlag', sinceLong')
      BY <1>0, <2>4, TimesTyped DEF DebounceInv, Ages, Wait
    <3>3. LongHeld(longPressFlag', sinceLong') => sinceUp' > BUTTON_LONG_PRESS_TIME
      BY <1>0, <2>1, <2>2, TimesTyped DEF LongHeld, Ages
    <3>4. Spaced(sinceAct, sinceUp' > BUTTON_LONG_PRESS_TIME)
      BY <1>0, <3>2, <3>3, TimesTyped DEF Spaced, Wait, Ages
    <3>5. sincePrevious' <= sinceAct'
      BY <1>0, <2>1, <3>1 DEF Ages
    <3>6. Spaced(sinceAct, freedLong)'
      BY <2>1, <3>1, <3>4, Zenon DEF Spaced
    <3> QED
      BY <2>2, <2>3, <3>5, <3>6 DEF DebounceInv
  <2>5. CASE ~(sincePrevious >= Wait(longPressFlag', sinceLong'))
    <3>1. UNCHANGED <<sincePrevious, button_flag, freedLong>>
      BY <1>5, <2>5 DEF Repeat
    <3> QED
      BY <2>1, <2>2, <2>3, <3>1 DEF DebounceInv, Spaced
  <2> QED
    BY <2>4, <2>5
<1>6. CASE UNCHANGED vars
  BY <1>6 DEF vars, timers, history, DebounceInv, KeysDebounced, Spaced
<1> QED
  BY <1>1, <1>2, <1>3, <1>4, <1>5, <1>6 DEF Next, Program

(* Two keys reach the menu with at least the fast debounce time between     *)
(* them, and with less than the normal one only after a long press.         *)
THEOREM KeysAreDebounced == Spec => []KeysDebounced
<1>1. Init => DebounceInv
  BY TimesTyped DEF Init, DebounceInv, Spaced, KeysDebounced
<1>2. DebounceInv => KeysDebounced
  BY DEF DebounceInv
<1> QED
  BY <1>1, <1>2, TypeInit, TypeStep, DebounceStep, PTL DEF Spec
-----------------------------------------------------------------------------
(* KeysActOnLitDisplay is about the step that passes a key on.  While the   *)
(* user's last press is younger than LCD_OFF_TIME the display is lit, but   *)
(* for the pass that follows the press which lights it: that press also     *)
(* blocks the keys, and no wait is over at once.                            *)
LitInv ==
  /\ sinceAct = 0 => lit
  /\ pc = "startup" => lit
  /\ pc = "move" /\ sincePress < LCD_OFF_TIME => lit
  /\ pc \in {"loop", "repeat"} /\ sincePress < LCD_OFF_TIME =>
       lit \/ (button_flag /\ sincePrevious = 0)

LEMMA LitStep == TypeOK /\ LitInv /\ [Next]_vars => LitInv'
<1> SUFFICES ASSUME TypeOK, LitInv, [Next]_vars PROVE LitInv'
  OBVIOUS
<1>0. sincePrevious \in Ages /\ sinceAct \in Ages /\ sincePress \in Ages
  BY DEF TypeOK
<1>1. ASSUME NEW b \in Switches, Press(b) \/ Release(b) PROVE LitInv'
  BY <1>1 DEF Press, Release, timers, history, LitInv
<1>2. ASSUME NEW b \in Switches, Wake(b) PROVE LitInv'
  BY <1>2 DEF Wake, LitInv
<1>3. ASSUME NEW d \in 1..PassTicks, Pass(d)
      PROVE  /\ sinceAct' # 0 /\ sincePress' = Later(sincePress, d)
             /\ sincePress' < LCD_OFF_TIME => sincePress < LCD_OFF_TIME
  <2>1. sinceAct' >= 1 /\ sinceAct' \in Ages
    BY <1>0, <1>3, LaterFacts DEF Pass
  <2>2. sincePress' = Later(sincePress, d) /\ sincePress <= sincePress' /\ sincePress' \in Ages
    BY <1>0, <1>3, LaterFacts DEF Pass
  <2> QED
    BY <1>0, <2>1, <2>2, TimesTyped DEF Ages
<1>4. ASSUME NEW d \in 1..PassTicks, StartupHeld(d) \/ StartupMove(d) \/ LoopSleep(d)
      PROVE  LitInv'
  BY <1>3, <1>4 DEF StartupHeld, StartupMove, LoopSleep, BeginMove, LitInv
<1>5. ASSUME NEW d \in 1..PassTicks, NoKey(d) PROVE LitInv'
  <2>1. Pass(d) /\ lit' = ~(Later(sincePress, d) >= LCD_OFF_TIME) /\ pc' \in {"move", "repeat"}
    BY <1>5 DEF NoKey, Dark, BeginMove
  <2>2. sinceAct' # 0 /\ sincePress' = Later(sincePress, d)
    BY <1>3, <2>1
  <2>3. sincePress' \in Ages
    BY <1>0, <2>2, LaterFacts
  <2>4. sincePress' < LCD_OFF_TIME => lit'
    <3>1. sincePress' < LCD_OFF_TIME => ~(sincePress' >= LCD_OFF_TIME)
      BY <2>3, TimesTyped DEF Ages
    <3> QED
      BY <2>1, <2>2, <3>1, Zenon
  <2> QED
    BY <2>1, <2>2, <2>4 DEF LitInv
<1>6. ASSUME NEW d \in 1..PassTicks, NEW arrives \in BOOLEAN, MovePass(d, arrives)
      PROVE  LitInv'
  <2>1. pc = "move" /\ Pass(d) /\ lit' = lit /\ pc' \in {"move", "repeat", "asleep"}
    BY <1>6 DEF MovePass
  <2> QED
    BY <1>3, <2>1 DEF LitInv
<1>7. ASSUME NEW d \in 1..PassTicks, KeySeen(d) PROVE LitInv'
  <2>1. /\ pc' = "repeat" /\ button_flag' = TRUE /\ sincePrevious' = 0 /\ lit' = ~Dark(d)
        /\ Dark(d) => sinceAct' = Later(sinceAct, d)
    BY <1>7 DEF KeySeen
  <2>2. Dark(d) => sinceAct' # 0
    BY <1>0, <2>1, LaterFacts DEF Ages
  <2> QED
    BY <2>1, <2>2 DEF LitInv
<1>8. CASE Repeat
  <2>1. pc = "repeat" /\ pc' = "loop" /\ UNCHANGED <<sincePress, lit, sinceAct>>
    BY <1>8 DEF Repeat
  <2>2. CASE sincePrevious = 0
    <3>1. ~(sincePrevious >= Wait(longPressFlag', sinceLong'))
      BY <2>2, TimesTyped DEF Wait
    <3>2. UNCHANGED <<sincePrevious, button_flag>>
      BY <1>8, <3>1 DEF Repeat
    <3> QED
      BY <2>1, <3>2 DEF LitInv
  <2>3. CASE sincePrevious # 0
    BY <2>1, <2>3 DEF LitInv
  <2> QED
    BY <2>2, <2>3
<1>9. CASE UNCHANGED vars
  BY <1>9 DEF vars, timers, history, LitInv
<1> QED
  BY <1>1, <1>2, <1>4, <1>5, <1>6, <1>7, <1>8, <1>9 DEF Next, Program

(* A step of loop() after which a key has just been passed on. *)
LEMMA LitKey ==
  ASSUME TypeOK, LitInv, [Next]_vars, sinceAct' = 0, pc = "loop"
  PROVE  lit
<1>0. sinceAct \in Ages /\ sincePress \in Ages
  BY DEF TypeOK
<1>1. CASE sinceAct' = sinceAct
  BY <1>1 DEF LitInv
<1>2. ASSUME NEW b \in Switches, Press(b) \/ Release(b) \/ Wake(b) PROVE lit
  BY <1>1, <1>2 DEF Press, Release, Wake, history
<1>3. ASSUME NEW d \in 1..PassTicks, Pass(d) PROVE FALSE
  <2>1. sinceAct' >= 1 /\ sinceAct' \in Ages
    BY <1>0, <1>3, LaterFacts DEF Pass
  <2> QED
    BY <2>1
<1>4. ASSUME NEW d \in 1..PassTicks,
             \/ StartupHeld(d) \/ StartupMove(d) \/ LoopSleep(d) \/ NoKey(d)
             \/ \E arrives \in BOOLEAN : MovePass(d, arrives)
      PROVE  lit
  BY <1>3, <1>4 DEF StartupHeld, StartupMove, LoopSleep, NoKey, MovePass
<1>5. ASSUME NEW d \in 1..PassTicks, KeySeen(d) PROVE lit
  <2>1. ~button_flag /\ (Dark(d) => sinceAct' = Later(sinceAct, d))
    BY <1>5 DEF KeySeen
  <2>2. ~Dark(d)
    BY <1>0, <2>1, LaterFacts DEF Ages
  <2>3. sincePress < LCD_OFF_TIME
    <3>1. Later(sincePress, d) \in Ages /\ sincePress <= Later(sincePress, d)
      BY <1>0, LaterFacts
    <3> QED
      BY <1>0, <2>2, <3>1, TimesTyped DEF Dark, Ages
  <2> QED
    BY <2>1, <2>3 DEF LitInv
<1>6. CASE Repeat \/ UNCHANGED vars
  BY <1>1, <1>6 DEF Repeat, vars, history
<1> QED
  BY <1>2, <1>4, <1>5, <1>6 DEF Next, Program

(* A key reaches the menu only if the display was already lit. *)
THEOREM KeysNeedLitDisplay == Spec => KeysActOnLitDisplay
<1>1. Init => LitInv
  BY TimesTyped DEF Init, LitInv
<1>2. TypeOK /\ LitInv /\ [Next]_vars => [(sinceAct' = 0 /\ pc = "loop") => lit]_vars
  BY LitKey
<1> QED
  BY <1>1, <1>2, TypeInit, TypeStep, LitStep, PTL DEF Spec, KeysActOnLitDisplay
=============================================================================
