-------------------------- MODULE ControllerProofs --------------------------
(***************************************************************************)
(* Proofs about Controller, for every length of minute and day, every      *)
(* schedule, every debounce number and every set of sensor voltages.       *)
(***************************************************************************)
EXTENDS Controller, TLAPS

(* What the flash store, the clock and the history hold, as in TypeOK. *)
Stores ==
  [init_flag : BOOLEAN, init_last_move : BOOLEAN, init_NOX : BOOLEAN,
   lastMove : Nat, error : ERROR_CODE, lastPosition : KLAPPENPOSITION,
   opening : [WeekDays -> Entries], closing : [WeekDays -> Entries]]
Clocks ==
  [now : 0..Horizon, int : BOOLEAN, ram : 0..255,
   alarm : [wd : 0..7, minute : 0..(MinutesPerDay - 1)]]
Histories ==
  [cause : {"none", "light", "alarm", "manual"}, positives : Nat,
   lastLight : Int, mV : Int, manual : {"no", "yes"},
   unplanned : BOOLEAN, reset : BOOLEAN]

(* The three parts of the RAM byte. *)
RamCounter == rtc.ram % 16
RamLDR == (rtc.ram \div 16) % 4
RamAlarm == (rtc.ram \div 64) % 4

Awake == pc \notin {"off", "asleep"}
-----------------------------------------------------------------------------
(* Weekdays and minutes of the day stay in their ranges. *)
LEMMA TimeTyped ==
  ASSUME NEW t \in Nat
  PROVE  /\ Weekday(t) \in WeekDays /\ NextWeekday(t) \in WeekDays
         /\ MinuteOfDay(t) \in 0..(MinutesPerDay - 1)
<1>1. MinuteLen * MinutesPerDay \in Nat \ {0}
  BY ClockAssumption, SMT
<1>2. t \div (MinuteLen * MinutesPerDay) \in Nat /\ t \div MinuteLen \in Nat
  BY <1>1, ClockAssumption, SMT
<1>3. \A n \in Nat : (n % 7) + 1 \in 1..7
  OBVIOUS
<1>4. Weekday(t) \in 1..7
  BY <1>2, <1>3 DEF Weekday
<1>5. NextWeekday(t) \in 1..7
  BY <1>3, <1>4 DEF NextWeekday
<1>6. MinuteOfDay(t) \in 0..(MinutesPerDay - 1)
  BY <1>2, ClockAssumption DEF MinuteOfDay
<1> QED
  BY <1>4, <1>5, <1>6 DEF WeekDays

(* The byte that writeValuesToFlash stores gives back both flags, and a     *)
(* counter that is not larger.                                              *)
LEMMA PackFacts ==
  ASSUME NEW x \in Globals
  PROVE  LET b == Pack(Saturated(x))
         IN /\ b \in 0..255 /\ b % 16 <= x.ramCounter
            /\ (b \div 16) % 4 = x.LDRFlag /\ (b \div 64) % 4 = x.alarmFlag
<1> DEFINE k == IF x.ramCounter > 15 THEN 15 ELSE x.ramCounter
           l == x.LDRFlag
           a == x.alarmFlag
           b == Pack(Saturated(x))
<1>1. l \in 0..3 /\ a \in 0..3 /\ x.ramCounter \in Nat
  BY DebounceAssumption DEF Globals, KLAPPENPOSITION, POS_UP, POS_DOWN, POS_DRIVING, POS_BLOCKED
<1>2. k \in 0..15 /\ k <= x.ramCounter
  BY <1>1
<1>3. b = k + 16 * l + 64 * a
  BY DEF Pack, Saturated, Globals
<1> HIDE DEF k, l, a, b
<1>4. b \in 0..255 /\ b % 16 = k /\ (b \div 16) % 4 = l /\ (b \div 64) % 4 = a
  BY <1>1, <1>2, <1>3
<1> QED
  BY <1>2, <1>4 DEF b, l, a
-----------------------------------------------------------------------------
(* Updates of the globals and of the clock keep their types. *)
LEMMA ManualTyped ==
  ASSUME NEW x \in Globals, NEW m \in BOOLEAN, NEW l \in {"low", "high", "any"}, NEW t \in Nat
  PROVE  [x EXCEPT !.manualFlag = m, !.led = l, !.t_now = t] \in Globals
  BY DEF Globals

LEMMA ErrorTyped ==
  ASSUME NEW x \in Globals, NEW e \in ERROR_CODE, NEW l \in {"low", "high", "any"}
  PROVE  [x EXCEPT !.errorFlag = e, !.led = l] \in Globals
  BY DEF Globals

LEMMA MenuTyped ==
  ASSUME NEW x \in Globals, NEW b \in BOOLEAN, NEW l \in {"low", "high", "any"}
  PROVE  /\ [x EXCEPT !.menuActive = b, !.led = l] \in Globals
         /\ [x EXCEPT !.led = l] \in Globals
<1>1. [x EXCEPT !.menuActive = b, !.led = l] \in Globals
  BY DEF Globals
<1>2. [x EXCEPT !.led = l] \in Globals
  BY DEF Globals
<1> QED
  BY <1>1, <1>2

LEMMA ArmedTyped ==
  ASSUME NEW c \in Clocks, NEW w \in 0..7, NEW m \in 0..(MinutesPerDay - 1)
  PROVE  [c EXCEPT !.int = FALSE, !.alarm = [wd |-> w, minute |-> m]] \in Clocks
<1> DEFINE A == [wd : 0..7, minute : 0..(MinutesPerDay - 1)]
           N == 0..Horizon
           a == [wd |-> w, minute |-> m]
<1>1. a \in A
  OBVIOUS
<1>2. Clocks = [now : N, int : BOOLEAN, ram : 0..255, alarm : A]
  BY DEF Clocks
<1> SUFFICES [c EXCEPT !.int = FALSE, !.alarm = a] \in Clocks
  OBVIOUS
<1> HIDE DEF A, N, a
<1> QED
  BY <1>1, <1>2

LEMMA InitTyped ==
  ASSUME NEW x \in Globals
  PROVE  [x EXCEPT !.F_init_NOX = TRUE] \in Globals
  BY DEF Globals

(* Before page 700 sleeps the pass has set the LED, and nothing else. *)
LEMMA LoopLedFacts ==
  ASSUME g \in Globals
  PROVE  LET x == [g EXCEPT !.led = LoopLed]
         IN /\ x \in Globals
            /\ x.LDRFlag = g.LDRFlag /\ x.alarmFlag = g.alarmFlag
            /\ x.ramCounter = g.ramCounter /\ x.led = LoopLed
<1>1. LoopLed \in {"low", "high", "any"}
  BY DEF LoopLed
<1>2. \A l \in {"low", "high", "any"} :
        LET x == [g EXCEPT !.led = l]
        IN /\ x \in Globals /\ x.LDRFlag = g.LDRFlag /\ x.alarmFlag = g.alarmFlag
           /\ x.ramCounter = g.ramCounter /\ x.led = l
  BY DEF Globals
<1> QED
  BY <1>1, <1>2

LEMMA StatusTyped ==
  ASSUME NEW x \in Globals, NEW e \in ERROR_CODE, NEW b \in BOOLEAN, NEW m \in BOOLEAN
  PROVE  [x EXCEPT !.errorFlag = e, !.menuActive = b, !.manualFlag = m] \in Globals
  BY DEF Globals

LEMMA LedTyped ==
  ASSUME NEW x \in Globals, NEW m \in BOOLEAN, NEW l \in {"low", "high", "any"}
  PROVE  [x EXCEPT !.manualFlag = m, !.led = l] \in Globals
  BY DEF Globals

LEMMA FlagsTyped ==
  ASSUME NEW x \in Globals, NEW l \in KLAPPENPOSITION, NEW a \in KLAPPENPOSITION,
         NEW k \in 0..lux_debounce_number
  PROVE  [x EXCEPT !.LDRFlag = l, !.alarmFlag = a, !.ramCounter = k] \in Globals
  BY DEF Globals

LEMMA MovedTyped ==
  ASSUME NEW x \in Globals, NEW n \in Nat, NEW p \in KLAPPENPOSITION
  PROVE  [x EXCEPT !.lastMove = n, !.lastDoorPosition = p] \in Globals
  BY DEF Globals

LEMMA RecordUpdate ==
  ASSUME NEW N, NEW R, NEW A, NEW c \in [now : N, int : BOOLEAN, ram : R, alarm : A],
         NEW n \in N, NEW i \in BOOLEAN
  PROVE  LET x == [c EXCEPT !.now = n, !.int = i]
         IN /\ x \in [now : N, int : BOOLEAN, ram : R, alarm : A]
            /\ x.now = n /\ x.ram = c.ram /\ x.alarm = c.alarm
<1> DEFINE x == [c EXCEPT !.now = n, !.int = i]
<1>1. x \in [now : N, int : BOOLEAN, ram : R, alarm : A]
  OBVIOUS
<1>2. x.now = n /\ x.ram = c.ram /\ x.alarm = c.alarm
  OBVIOUS
<1> QED
  BY <1>1, <1>2

LEMMA ClockTyped ==
  ASSUME NEW c \in Clocks, NEW n \in 0..Horizon, NEW i \in BOOLEAN
  PROVE  LET x == [c EXCEPT !.now = n, !.int = i]
         IN x \in Clocks /\ x.now = n /\ x.ram = c.ram /\ x.alarm = c.alarm
<1> DEFINE N == 0..Horizon
           R == 0..255
           A == [wd : 0..7, minute : 0..(MinutesPerDay - 1)]
<1>1. Clocks = [now : N, int : BOOLEAN, ram : R, alarm : A] /\ n \in N
  BY DEF Clocks
<1> HIDE DEF N, R, A
<1> QED
  BY <1>1, RecordUpdate, Zenon

LEMMA ReadTyped ==
  ASSUME TypeOK, RamCounter <= lux_debounce_number
  PROVE  /\ readValuesFromFlash \in Globals /\ Booted \in Globals
         /\ Bss \in Globals
<1>1. rtc.ram \in Nat /\ rtc.now \in Nat
  BY ClockAssumption DEF TypeOK
<1>2. RamLDR \in KLAPPENPOSITION /\ RamAlarm \in KLAPPENPOSITION
  BY <1>1 DEF RamLDR, RamAlarm, KLAPPENPOSITION, POS_UP, POS_DOWN, POS_DRIVING, POS_BLOCKED
<1>3. RamCounter \in 0..lux_debounce_number
  BY <1>1, DebounceAssumption DEF RamCounter
<1>4. Bss \in Globals
  BY DebounceAssumption DEF Bss, Globals, KLAPPENPOSITION, POS_UP, POS_DOWN, ERROR_CODE
<1>5. readValuesFromFlash \in Globals
  <2> DEFINE l == IF nvs.init_flag THEN RamLDR ELSE POS_BLOCKED
             a == IF nvs.init_flag THEN RamAlarm ELSE POS_BLOCKED
             k == IF nvs.init_flag THEN RamCounter ELSE 0
             p == IF nvs.init_last_move THEN nvs.lastPosition ELSE POS_BLOCKED
             e == IF nvs.init_NOX THEN nvs.error ELSE "NO_ERROR"
  <2>1. /\ l \in KLAPPENPOSITION /\ a \in KLAPPENPOSITION /\ p \in KLAPPENPOSITION
        /\ k \in 0..lux_debounce_number /\ e \in ERROR_CODE
        /\ nvs.lastMove \in Nat /\ nvs.init_NOX \in BOOLEAN
    BY <1>2, <1>3, DebounceAssumption DEF TypeOK, KLAPPENPOSITION, ERROR_CODE
  <2>2. readValuesFromFlash =
          [Bss EXCEPT !.LDRFlag = l, !.alarmFlag = a, !.ramCounter = k,
                      !.lastMove = nvs.lastMove, !.lastDoorPosition = p,
                      !.errorFlag = e, !.F_init_NOX = nvs.init_NOX, !.t_now = rtc.now]
    BY DEF readValuesFromFlash, RamLDR, RamAlarm, RamCounter
  <2> DEFINE x == [Bss EXCEPT !.LDRFlag = l, !.alarmFlag = a, !.ramCounter = k]
             y == [x EXCEPT !.lastMove = nvs.lastMove, !.lastDoorPosition = p]
             z == [y EXCEPT !.errorFlag = e, !.F_init_NOX = nvs.init_NOX, !.t_now = rtc.now]
  <2> HIDE DEF l, a, k, p, e
  <2>3. readValuesFromFlash = z
    BY <2>2 DEF Bss
  <2>4. x \in Globals
    BY <1>4, <2>1, FlagsTyped
  <2> HIDE DEF x
  <2>5. y \in Globals
    BY <2>1, <2>4, MovedTyped
  <2> HIDE DEF y
  <2>6. z \in Globals
    BY <1>1, <2>1, <2>5 DEF Globals
  <2> HIDE DEF z
  <2> QED
    BY <2>3, <2>6
<1>6. Booted \in Globals
  <2> DEFINE x == readValuesFromFlash
             led == IF hold THEN "high" ELSE "low"
  <2>1. Booted = [x EXCEPT !.manualFlag = hold, !.led = led]
    BY DEF Booted
  <2>2. hold \in BOOLEAN /\ led \in {"low", "high", "any"}
    BY DEF TypeOK
  <2> HIDE DEF x, led
  <2>3. x \in Globals
    BY <1>5 DEF x
  <2> QED
    BY <2>1, <2>2, <2>3, LedTyped
<1> QED
  BY <1>4, <1>5, <1>6

(* The types, with the counter of the RAM byte within its limit. *)
TypeInv == TypeOK /\ RamCounter <= lux_debounce_number

LEMMA TypeParts ==
  /\ TypeOK => g \in Globals /\ nvs \in Stores /\ rtc \in Clocks /\ h \in Histories
  /\ TypeOK => rtc.now \in Nat
  BY ClockAssumption DEF TypeOK, Stores, Clocks, Histories

(* PREP_FOR_DEEP_SLEEP: what it leaves. *)
LEMMA SleepFacts ==
  ASSUME NEW x \in Globals, NEW c \in Clocks, NEW d \in Nat, hold \in BOOLEAN,
         DeepSleep(x, c, d)
  PROVE  /\ pc' = "asleep" /\ ret' = "setup" /\ g' = Bss /\ espTimer' = 0
         /\ goal' = POS_UP /\ menu' = "home"
         /\ rtc' \in Clocks /\ rtc'.now = c.now /\ rtc'.alarm = c.alarm
         /\ RamLDR' = x.LDRFlag /\ RamAlarm' = x.alarmFlag
         /\ RamCounter' <= x.ramCounter
         /\ wakeAt' = (IF d = 0 THEN 0 ELSE c.now + d) /\ wakeAt' \in Nat
         /\ hold' \in BOOLEAN /\ (hold \/ x.led = "high" => hold')
<1>1. /\ pc' = "asleep" /\ ret' = "setup" /\ g' = Bss /\ espTimer' = 0
      /\ goal' = POS_UP /\ menu' = "home"
      /\ wakeAt' = (IF d = 0 THEN 0 ELSE c.now + d)
  BY DEF DeepSleep, RamLost
<1>2. wakeAt' \in Nat
  BY <1>1, ClockAssumption DEF Clocks
<1>3. hold' \in BOOLEAN /\ (hold \/ x.led = "high" => hold')
  BY DEF DeepSleep, Lit
<1> DEFINE b == Pack(Saturated(x))
<1>4. /\ b \in 0..255 /\ b % 16 <= x.ramCounter
      /\ (b \div 16) % 4 = x.LDRFlag /\ (b \div 64) % 4 = x.alarmFlag
  BY PackFacts
<1>5. rtc' = [c EXCEPT !.ram = b]
  BY DEF DeepSleep, writeValuesToFlash
<1> HIDE DEF b
<1>6. rtc' \in Clocks /\ rtc'.now = c.now /\ rtc'.alarm = c.alarm /\ rtc'.ram = b
  BY <1>4, <1>5 DEF Clocks
<1> QED
  BY <1>1, <1>2, <1>3, <1>4, <1>6 DEF RamLDR, RamAlarm, RamCounter

(* Time passes for the clock. *)
LEMMA AdvanceFacts ==
  ASSUME NEW c \in Clocks, NEW k \in Nat, c.now + k <= Horizon
  PROVE  /\ Advance(c, k) \in Clocks /\ Advance(c, k).now = c.now + k
         /\ Advance(c, k).ram = c.ram /\ Advance(c, k).alarm = c.alarm
<1> DEFINE i == c.int \/ \E j \in 1..k : Matches(c.alarm, c.now + j)
<1>1. i \in BOOLEAN
  OBVIOUS
<1>2. Advance(c, k) = [c EXCEPT !.now = c.now + k, !.int = i]
  BY DEF Advance, Clocks
<1>3. c.now + k \in 0..Horizon
  BY ClockAssumption DEF Clocks
<1> DEFINE n == c.now + k
           x == [c EXCEPT !.now = n, !.int = i]
<1>4. n \in 0..Horizon
  BY <1>3
<1> HIDE DEF i, n
<1>5. x \in Clocks /\ x.now = n /\ x.ram = c.ram /\ x.alarm = c.alarm
  BY <1>1, <1>4, ClockTyped, ZenonT(30)
<1> HIDE DEF x
<1> QED
  BY <1>2, <1>5 DEF x, n

(* alarmWakeupHandling moves the door or goes on to statusabfrage. *)
LEMMA AlarmFacts ==
  ASSUME NEW x \in Globals, NEW k, alarmWakeupHandling(x, k)
  PROVE  \/ /\ pc' = "move" /\ goal' = x.alarmFlag /\ x.alarmFlag \in Goals
            /\ g' = x /\ h' = [k EXCEPT !.cause = "alarm"]
         \/ /\ pc' = "status" /\ goal' = goal /\ h' = k
            /\ g' = x \/ g' = [x EXCEPT !.errorFlag = "WRONG_ALARM_FLAG"]
<1>1. CASE x.alarmFlag \in Goals
  BY <1>1 DEF alarmWakeupHandling
<1>2. CASE x.alarmFlag = POS_BLOCKED
  BY <1>2 DEF alarmWakeupHandling, Goals, POS_BLOCKED, POS_UP, POS_DOWN
<1>3. CASE x.alarmFlag \notin Goals /\ x.alarmFlag # POS_BLOCKED
  BY <1>3 DEF alarmWakeupHandling
<1> QED
  BY <1>1, <1>2, <1>3

(* What a move hands back. *)
LEMMA OutcomeFacts ==
  ASSUME NEW p \in Goals, NEW e \in ERROR_CODE, NEW o \in Outcomes(p, e)
  PROVE  /\ o.position \in KLAPPENPOSITION /\ o.error \in ERROR_CODE
         /\ o.why = "timeout" => o.error # "NO_ERROR"
  BY DEF Outcomes, Reached, Interrupted, TimedOut, Cleared, TimerErrors, Goals,
         KLAPPENPOSITION, ERROR_CODE

(* What a boot finds. *)
LEMMA BootFacts ==
  ASSUME TypeInv
  PROVE  /\ Booted \in Globals
         /\ Booted.LDRFlag = IF nvs.init_flag THEN RamLDR ELSE POS_BLOCKED
         /\ Booted.alarmFlag = IF nvs.init_flag THEN RamAlarm ELSE POS_BLOCKED
         /\ Booted.ramCounter = IF nvs.init_flag THEN RamCounter ELSE 0
         /\ Booted.errorFlag = IF nvs.init_NOX THEN nvs.error ELSE "NO_ERROR"
         /\ Booted.lastMove = nvs.lastMove /\ Booted.t_now = rtc.now
         /\ Booted.manualFlag = hold /\ (hold => Booted.led = "high")
<1>1. Booted \in Globals /\ readValuesFromFlash \in Globals
  BY ReadTyped DEF TypeInv
<1>2. /\ readValuesFromFlash.LDRFlag = IF nvs.init_flag THEN RamLDR ELSE POS_BLOCKED
      /\ readValuesFromFlash.alarmFlag = IF nvs.init_flag THEN RamAlarm ELSE POS_BLOCKED
      /\ readValuesFromFlash.ramCounter = IF nvs.init_flag THEN RamCounter ELSE 0
      /\ readValuesFromFlash.errorFlag = IF nvs.init_NOX THEN nvs.error ELSE "NO_ERROR"
      /\ readValuesFromFlash.lastMove = nvs.lastMove
      /\ readValuesFromFlash.t_now = rtc.now
  BY DEF readValuesFromFlash, Bss, RamLDR, RamAlarm, RamCounter
<1>3. Booted = [readValuesFromFlash EXCEPT !.manualFlag = hold,
                                           !.led = IF hold THEN "high" ELSE "low"]
  BY DEF Booted
<1> QED
  BY <1>1, <1>2, <1>3 DEF Globals
-----------------------------------------------------------------------------
(* setNextOpeningAlarm and setNextClosingAlarm by what they do: plan move p *)
(* with globals y, clock c and sleep timer d.                               *)
Scheduled(p, a, opening, closing) ==
  LET e == IF p = POS_DOWN THEN closing[a.wd] ELSE opening[a.wd]
  IN /\ e.minute = a.minute
     /\ e.mode \in IF p = POS_DOWN THEN {ZEIT, LICHT_ZEIT} ELSE {ZEIT}

Plans(p, moves, light, y, c, d) ==
  /\ p \in Goals /\ moves \in BOOLEAN /\ light \in BOOLEAN
  /\ y \in Globals /\ c \in Clocks /\ d \in Nat
  /\ pc \in {"opening", "closing"}
  /\ light => ~g.manualFlag
  /\ moves => Scheduled(p, c.alarm, nvs.opening, nvs.closing)
  /\ c.now = rtc.now /\ c.ram = rtc.ram /\ c.alarm.wd \in WeekDays
  /\ y.alarmFlag = IF moves THEN p ELSE POS_BLOCKED
  /\ y.LDRFlag = IF light THEN p ELSE POS_BLOCKED
  /\ y.errorFlag = g.errorFlag /\ y.manualFlag = g.manualFlag
  /\ y.lastMove = g.lastMove /\ y.t_now = g.t_now
  /\ g.manualFlag => y.led = "high"
  /\ light => y.ramCounter <= h'.positives
  /\ light => d # 0 /\ g.lastMove + t_delta_min <= g.t_now + d
  /\ ~light => d = espTimer
  /\ nvs' = [nvs EXCEPT !.init_flag = TRUE]
  /\ h'.positives \in Nat /\ h' = [h EXCEPT !.positives = h'.positives, !.unplanned = FALSE]
  /\ IF g.menuActive
     THEN /\ pc' = ret /\ g' = y /\ rtc' = c /\ espTimer' = d
          /\ UNCHANGED <<ret, wakeAt, hold, goal, menu>>
     ELSE DeepSleep(y, c, d)

(* The globals that planning writes, before the light check. *)
PlanUpdated(p, e, moves, light, z) ==
  [z EXCEPT !.nextLux = e.lux,
            !.alarmFlag = IF moves THEN p ELSE POS_BLOCKED,
            !.LDRFlag = IF light THEN p ELSE POS_BLOCKED,
            !.ramCounter = IF light THEN 0 ELSE @,
            !.led = IF z.manualFlag THEN "high" ELSE @]
LEMMA PlanUpdate ==
  ASSUME NEW z \in Globals, NEW e \in Entries, NEW p \in Goals,
         NEW moves \in BOOLEAN, NEW light \in BOOLEAN
  PROVE  LET x == PlanUpdated(p, e, moves, light, z)
         IN /\ x \in Globals
            /\ x.alarmFlag = (IF moves THEN p ELSE POS_BLOCKED)
            /\ x.LDRFlag = (IF light THEN p ELSE POS_BLOCKED)
            /\ x.ramCounter = (IF light THEN 0 ELSE z.ramCounter)
            /\ x.led = (IF z.manualFlag THEN "high" ELSE z.led)
            /\ x.errorFlag = z.errorFlag /\ x.manualFlag = z.manualFlag
            /\ x.lastMove = z.lastMove /\ x.t_now = z.t_now
<1> DEFINE lu == e.lux
           al == IF moves THEN p ELSE POS_BLOCKED
           ld == IF light THEN p ELSE POS_BLOCKED
           k == IF light THEN 0 ELSE z.ramCounter
           le == IF z.manualFlag THEN "high" ELSE z.led
           x == [z EXCEPT !.nextLux = lu, !.alarmFlag = al, !.LDRFlag = ld,
                          !.ramCounter = k, !.led = le]
<1>1. /\ al \in KLAPPENPOSITION /\ ld \in KLAPPENPOSITION /\ lu \in 0..255
      /\ k \in 0..lux_debounce_number /\ le \in {"low", "high", "any"}
  BY DebounceAssumption DEF Globals, Goals, KLAPPENPOSITION, Entries
<1>2. PlanUpdated(p, e, moves, light, z) = x
  BY DEF PlanUpdated, Globals
<1> HIDE DEF lu, al, ld, k, le
<1>3. /\ x \in Globals /\ x.alarmFlag = al /\ x.LDRFlag = ld /\ x.ramCounter = k
      /\ x.led = le /\ x.errorFlag = z.errorFlag /\ x.manualFlag = z.manualFlag
      /\ x.lastMove = z.lastMove /\ x.t_now = z.t_now
  BY <1>1 DEF Globals
<1> HIDE DEF x
<1> QED
  BY <1>2, <1>3 DEF al, ld, k, le

LEMMA PlanFacts ==
  ASSUME TypeInv, NEW p \in Goals, NEW e \in Entries,
         NEW today \in BOOLEAN, NEW moves \in BOOLEAN, NEW light \in BOOLEAN, NEW lux,
         pc \in {"opening", "closing"}, light => ~g.manualFlag, moves => today,
         p = POS_DOWN => e = nvs.closing[Weekday(g.t_now)],
         p # POS_DOWN => e = nvs.opening[Weekday(g.t_now)],
         moves => e.mode \in IF p = POS_DOWN THEN {ZEIT, LICHT_ZEIT} ELSE {ZEIT},
         setNextAlarm(p, e, today, moves, light, lux)
  PROVE  \E y, c, d : Plans(p, moves, light, y, c, d)
<1> DEFINE c == IF today THEN setAlarm(rtc, Weekday(g.t_now), e.minute)
                         ELSE setAlarmTomorrow0(rtc)
           x == PlanUpdated(p, e, moves, light, g)
           checked == light /\ ~TooSoon
           y == IF checked THEN [x EXCEPT !.ramCounter = Counted(x, lux)] ELSE x
           d == CASE ~light  -> espTimer
                  [] checked -> NextCheck(y.ramCounter)
                  [] OTHER   -> g.lastMove + t_delta_min - g.t_now
<1>1. /\ nvs' = [nvs EXCEPT !.init_flag = TRUE]
      /\ h' = [h EXCEPT !.positives = IF checked THEN Series(lux, x, 0) ELSE 0,
                        !.unplanned = FALSE]
      /\ IF g.menuActive
         THEN /\ pc' = ret /\ g' = y /\ rtc' = c /\ espTimer' = d
              /\ UNCHANGED <<ret, wakeAt, hold, goal, menu>>
         ELSE DeepSleep(y, c, d)
  BY DEF setNextAlarm, PlanUpdated
<1>2. g \in Globals /\ rtc \in Clocks /\ h \in Histories /\ espTimer \in Nat
  BY TypeParts DEF TypeInv, TypeOK
<1>3. /\ Weekday(g.t_now) \in WeekDays /\ e.minute \in 0..(MinutesPerDay - 1)
      /\ e.lux \in 0..255
  BY <1>2, TimeTyped DEF Globals, Entries
<1>4. /\ c \in Clocks /\ c.now = rtc.now /\ c.ram = rtc.ram
      /\ c.alarm.wd = Weekday(g.t_now) /\ (today => c.alarm.minute = e.minute)
  <2> DEFINE w == Weekday(g.t_now)
             m == IF today THEN e.minute ELSE 0
  <2>1. c = [rtc EXCEPT !.int = FALSE, !.alarm = [wd |-> w, minute |-> m]]
    BY DEF setAlarm, setAlarmTomorrow0
  <2>2. w \in 0..7 /\ m \in 0..(MinutesPerDay - 1) /\ (today => m = e.minute)
    BY <1>3, ClockAssumption DEF WeekDays
  <2> HIDE DEF w, m, c
  <2>3. c.now = rtc.now /\ c.ram = rtc.ram /\ c.alarm = [wd |-> w, minute |-> m]
    BY <1>2, <2>1 DEF Clocks
  <2>4. c \in Clocks
    BY <1>2, <2>1, <2>2, ArmedTyped
  <2> QED
    BY <2>2, <2>3, <2>4 DEF w
<1>5. moves => Scheduled(p, c.alarm, nvs.opening, nvs.closing)
  BY <1>4 DEF Scheduled
<1>7. /\ x \in Globals
      /\ x.alarmFlag = (IF moves THEN p ELSE POS_BLOCKED)
      /\ x.LDRFlag = (IF light THEN p ELSE POS_BLOCKED)
      /\ x.ramCounter = (IF light THEN 0 ELSE g.ramCounter)
      /\ x.led = (IF g.manualFlag THEN "high" ELSE g.led)
      /\ x.errorFlag = g.errorFlag /\ x.manualFlag = g.manualFlag
      /\ x.lastMove = g.lastMove /\ x.t_now = g.t_now
  BY <1>2, PlanUpdate
<1> HIDE DEF c, x
<1>8. checked => Counted(x, lux) \in 0..1 /\ Counted(x, lux) <= Series(lux, x, 0)
  BY <1>7 DEF Counted, Series
<1>9. Series(lux, x, 0) \in Nat
  BY DEF Series
<1>10. /\ h'.positives \in Nat
       /\ h' = [h EXCEPT !.positives = h'.positives, !.unplanned = FALSE]
       /\ h'.positives = IF checked THEN Series(lux, x, 0) ELSE 0
  BY <1>1, <1>2, <1>9 DEF Histories
<1> HIDE DEF checked
<1>11. /\ y \in Globals /\ y.alarmFlag = x.alarmFlag /\ y.LDRFlag = x.LDRFlag
       /\ y.led = x.led /\ y.errorFlag = x.errorFlag /\ y.manualFlag = x.manualFlag
       /\ y.lastMove = x.lastMove /\ y.t_now = x.t_now
       /\ y.ramCounter = IF checked THEN Counted(x, lux) ELSE x.ramCounter
  BY <1>7, <1>8, DebounceAssumption DEF Globals
<1> HIDE DEF y
<1>12. light => y.ramCounter <= h'.positives
  BY <1>7, <1>8, <1>10, <1>11
<1>13. /\ d \in Nat /\ (~light => d = espTimer)
       /\ light => d # 0 /\ g.lastMove + t_delta_min <= g.t_now + d
  <2>1. g.lastMove \in Nat /\ g.t_now \in Nat
    BY <1>2 DEF Globals
  <2>2. NextCheck(y.ramCounter) \in Nat \ {0}
    BY DebounceAssumption DEF NextCheck
  <2>3. CASE ~light
    <3>1. d = espTimer
      BY <2>3 DEF checked
    <3> HIDE DEF d
    <3> QED
      BY <1>2, <2>3, <3>1
  <2>4. CASE light /\ checked
    <3>1. d = NextCheck(y.ramCounter)
      BY <2>4
    <3>2. g.lastMove + t_delta_min <= g.t_now + 1
      BY <2>1, <2>4, DebounceAssumption DEF TooSoon, checked
    <3> HIDE DEF d
    <3> QED
      BY <2>1, <2>2, <2>4, <3>1, <3>2, DebounceAssumption
  <2>5. CASE light /\ ~checked
    <3>1. d = g.lastMove + t_delta_min - g.t_now
      BY <2>5
    <3>2. g.lastMove + t_delta_min > g.t_now + 1
      BY <2>1, <2>5, DebounceAssumption DEF TooSoon, checked
    <3> HIDE DEF d
    <3> QED
      BY <2>1, <2>5, <3>1, <3>2, DebounceAssumption
  <2> QED
    BY <2>3, <2>4, <2>5
<1> HIDE DEF d
<1>14. Plans(p, moves, light, y, c, d)
  BY <1>1, <1>3, <1>4, <1>5, <1>7, <1>10, <1>11, <1>12, <1>13 DEF Plans
<1> QED
  BY <1>14

(* Both plan a move for which light and time are allowed. *)
LEMMA NextPlan ==
  ASSUME TypeInv, NEW mV, setNextOpeningAlarm(mV) \/ setNextClosingAlarm(mV)
  PROVE  \E p, moves, light, y, c, d :
            Plans(p, moves, light, y, c, d)
<1>1. Weekday(g.t_now) \in WeekDays
  BY TimeTyped DEF TypeInv, TypeOK, Globals
<1>2. CASE setNextOpeningAlarm(mV)
  <2> DEFINE e == nvs.opening[Weekday(g.t_now)]
             today == Timed(e) /\ NotYet(e) /\ ~g.manualFlag
             moves == OpensByTime(e)
             light == OpensByLight(e)
  <2>1. e \in Entries
    BY <1>1 DEF TypeInv, TypeOK
  <2>2. /\ today \in BOOLEAN /\ moves \in BOOLEAN /\ light \in BOOLEAN
        /\ light => ~g.manualFlag
        /\ moves => today /\ e.mode \in {ZEIT}
    BY DEF OpensByTime, OpensByLight, Timed
  <2>3. pc = "opening" /\ setNextAlarm(POS_UP, e, today, moves, light, VoltToLux(mV))
    BY <1>2 DEF setNextOpeningAlarm
  <2>4. POS_UP \in Goals /\ POS_UP # POS_DOWN
    BY DEF Goals, POS_UP, POS_DOWN
  <2>5. \E y, c, d : Plans(POS_UP, moves, light, y, c, d)
    <3> HIDE DEF today, moves, light
    <3> QED BY <2>1, <2>2, <2>3, <2>4, PlanFacts
  <2> HIDE DEF moves, light
  <2> QED
    BY <2>2, <2>4, <2>5
<1>3. CASE setNextClosingAlarm(mV)
  <2> DEFINE e == nvs.closing[Weekday(g.t_now)]
             moves == ClosesByTime(e)
             light == ClosesByLight(e)
  <2>1. e \in Entries
    BY <1>1 DEF TypeInv, TypeOK
  <2>2. /\ moves \in BOOLEAN /\ light \in BOOLEAN
        /\ light => ~g.manualFlag
        /\ moves => e.mode \in {ZEIT, LICHT_ZEIT}
    BY DEF ClosesByTime, ClosesByLight, Timed
  <2>3. pc = "closing" /\ setNextAlarm(POS_DOWN, e, moves, moves, light, VoltToLux(mV))
    BY <1>3 DEF setNextClosingAlarm
  <2>4. POS_DOWN \in Goals
    BY DEF Goals, POS_UP, POS_DOWN
  <2>5. \E y, c, d : Plans(POS_DOWN, moves, light, y, c, d)
    <3> HIDE DEF moves, light
    <3> QED BY <2>1, <2>2, <2>3, <2>4, PlanFacts
  <2> HIDE DEF moves, light
  <2> QED
    BY <2>2, <2>4, <2>5
<1> QED
  BY <1>2, <1>3
-----------------------------------------------------------------------------
(* TypeInv with the records by name. *)
Kinds ==
  /\ pc \in {"off", "asleep", "ldr", "move", "status", "opening", "closing",
             "setup", "loop"}
  /\ ret \in {"setup", "loop"}
  /\ g \in Globals /\ nvs \in Stores /\ rtc \in Clocks /\ h \in Histories
  /\ espTimer \in Nat /\ wakeAt \in Nat /\ hold \in BOOLEAN
  /\ goal \in Goals /\ menu \in {"home", "wizard"}
  /\ RamCounter <= lux_debounce_number
LEMMA KindsAreTypes == (TypeInv <=> Kinds) /\ (TypeInv' <=> Kinds')
  BY DEF TypeInv, TypeOK, Kinds, Stores, Clocks, Histories

LEMMA TypeInit == Init => TypeInv
<1> SUFFICES ASSUME Init PROVE Kinds
  BY KindsAreTypes
<1>1. g \in Globals
  BY DebounceAssumption DEF Init, Bss, Globals, KLAPPENPOSITION, ERROR_CODE
<1>2. DefaultOpening \in Entries /\ DefaultClosing \in Entries
  BY ClockAssumption DEF DefaultOpening, DefaultClosing, Entries, openingMode
<1>3. nvs \in Stores
  BY <1>2 DEF Init, Stores, KLAPPENPOSITION, ERROR_CODE
<1>4. rtc \in Clocks /\ RamCounter <= lux_debounce_number
  BY ClockAssumption, DebounceAssumption DEF Init, Clocks, NoAlarm, RamCounter
<1>5. h \in Histories
  BY DEF Init, Histories, NoVoltage
<1> QED
  BY <1>1, <1>3, <1>4, <1>5 DEF Init, Kinds, Goals

(* Waking up keeps the types. *)
LEMMA WakeTyped == TypeInv /\ Wake => TypeInv'
<1> SUFFICES ASSUME Kinds, Wake PROVE Kinds'
  BY KindsAreTypes
<1>1. Booted \in Globals
  BY BootFacts, KindsAreTypes
<1>2. /\ [Booted EXCEPT !.manualFlag = FALSE, !.menuActive = FALSE] \in Globals
      /\ [Booted EXCEPT !.manualFlag = TRUE, !.menuActive = FALSE] \in Globals
      /\ [Booted EXCEPT !.menuActive = TRUE] \in Globals
  <2>1. ASSUME NEW x \in Globals, NEW a \in BOOLEAN, NEW b \in BOOLEAN
        PROVE  /\ [x EXCEPT !.manualFlag = a, !.menuActive = b] \in Globals
               /\ [x EXCEPT !.menuActive = b] \in Globals
    <3>1. [x EXCEPT !.menuActive = b] \in Globals
      BY DEF Globals
    <3>2. [x EXCEPT !.manualFlag = a, !.menuActive = b] \in Globals
      BY DEF Globals
    <3> QED
      BY <3>1, <3>2
  <2> QED
    BY <1>1, <2>1
<1>3. /\ [h EXCEPT !.reset = FALSE] \in Histories
      /\ ManualOver(h) \in Histories
      /\ [ManualOver(h) EXCEPT !.cause = "alarm"] \in Histories
      /\ [h EXCEPT !.cause = "manual", !.manual = "yes", !.reset = FALSE] \in Histories
  BY DEF Kinds, Histories, ManualOver
<1>4. CASE WakeAlarm
  <2> DEFINE x == [Booted EXCEPT !.manualFlag = FALSE, !.menuActive = FALSE]
             k == ManualOver(h)
  <2>1. x \in Globals /\ k \in Histories /\ [k EXCEPT !.cause = "alarm"] \in Histories
    BY <1>2, <1>3
  <2>2. alarmWakeupHandling(x, k)
    BY <1>4 DEF WakeAlarm
  <2>3. ret' = "setup" /\ wakeAt' = 0 /\ UNCHANGED <<nvs, rtc, espTimer, hold, menu>>
    BY <1>4 DEF WakeAlarm
  <2> HIDE DEF x, k
  <2>4. [x EXCEPT !.errorFlag = "WRONG_ALARM_FLAG"] \in Globals
    BY <2>1 DEF Globals, ERROR_CODE
  <2>5. pc' \in {"move", "status"} /\ g' \in Globals /\ h' \in Histories /\ goal' \in Goals
    BY <2>1, <2>2, <2>4, AlarmFacts DEF Kinds
  <2> QED
    BY <2>3, <2>5 DEF Kinds, RamCounter
<1>5. CASE WakeTimer
  BY <1>2, <1>3, <1>5 DEF WakeTimer, Kinds, RamCounter
<1>6. CASE WakeButton
  BY <1>2, <1>3, <1>6 DEF WakeButton, Kinds, RamCounter
<1>7. CASE PowerOn
  BY <1>2, <1>7 DEF PowerOn, Kinds, RamCounter
<1>8. ASSUME NEW p \in Goals, WakeLongPress(p) PROVE Kinds'
  BY <1>2, <1>3, <1>8 DEF WakeLongPress, Kinds, RamCounter
<1> QED
  BY <1>4, <1>5, <1>6, <1>7, <1>8 DEF Wake

(* So do setup(), the light check, the move, statusabfrage and planning. *)
LEMMA RunTyped == TypeInv /\ Run => TypeInv'
<1> SUFFICES ASSUME Kinds, Run PROVE Kinds'
  BY KindsAreTypes
<1>1. CASE SetupRest
  <2>1. g \in Globals /\ g' = [g EXCEPT !.led = "low"]
    BY <1>1 DEF SetupRest, Kinds
  <2>2. g' \in Globals
    BY <2>1, MenuTyped
  <2> QED
    BY <1>1, <2>2 DEF SetupRest, Kinds, RamCounter
<1>2. ASSUME NEW mV \in Voltages, activateLDR(mV) PROVE Kinds'
  <2> DEFINE lux == VoltToLux(mV)
             n == Counted(g, lux)
             k == Series(lux, g, h.positives)
  <2>1. /\ g.LDRFlag \in Goals
        /\ \/ /\ DebounceDone(n)
              /\ pc' = "move" /\ goal' = g.LDRFlag
              /\ g' = [g EXCEPT !.ramCounter = 0]
              /\ h' = [h EXCEPT !.cause = "light", !.positives = k, !.mV = mV]
              /\ UNCHANGED <<ret, rtc, espTimer, wakeAt, hold, menu>>
           \/ /\ ~DebounceDone(n)
              /\ DeepSleep([g EXCEPT !.ramCounter = n], rtc, NextCheck(n))
              /\ h' = [h EXCEPT !.positives = k]
        /\ UNCHANGED nvs
    BY <1>2 DEF activateLDR
  <2>2. n \in Nat /\ k \in Nat /\ NextCheck(n) \in Nat
    BY DebounceAssumption DEF Kinds, Globals, Histories, Counted, Series, NextCheck
  <2> HIDE DEF n, k
  <2>3. CASE DebounceDone(n)
    <3>1. mV \in Int
      BY EntriesAssumption
    <3>2. g' \in Globals
      BY <2>1, <2>3, DebounceAssumption DEF Kinds, Globals
    <3>3. h' \in Histories
      BY <2>1, <2>2, <2>3, <3>1 DEF Kinds, Histories
    <3> QED
      BY <2>1, <2>3, <3>2, <3>3 DEF Kinds, RamCounter
  <2>4. CASE ~DebounceDone(n)
    <3> DEFINE x == [g EXCEPT !.ramCounter = n]
    <3>1. n \in 0..lux_debounce_number
      BY <2>2, <2>4, DebounceAssumption DEF DebounceDone
    <3>2. x \in Globals /\ x.ramCounter = n
      BY <3>1 DEF Kinds, Globals
    <3>3. DeepSleep(x, rtc, NextCheck(n)) /\ h' = [h EXCEPT !.positives = k]
      BY <2>1, <2>4
    <3>4. h' \in Histories
      BY <2>2, <3>3 DEF Kinds, Histories
    <3>5. Bss \in Globals
      BY ReadTyped, KindsAreTypes DEF TypeInv
    <3> HIDE DEF x
    <3>6. /\ pc' = "asleep" /\ ret' = "setup" /\ g' = Bss /\ espTimer' = 0
          /\ goal' = POS_UP /\ menu' = "home" /\ rtc' \in Clocks
          /\ RamCounter' <= x.ramCounter /\ wakeAt' \in Nat /\ hold' \in BOOLEAN
      BY <2>2, <3>2, <3>3, SleepFacts DEF Kinds
    <3>7. RamCounter' <= lux_debounce_number
      BY <3>1, <3>2, <3>6, DebounceAssumption DEF Clocks, RamCounter
    <3> QED
      BY <2>1, <3>4, <3>5, <3>6, <3>7 DEF Kinds, Goals
  <2> QED
    BY <2>3, <2>4
<1>3. CASE activateLDRWrongFlag
  <2>1. g' \in Globals
    BY <1>3 DEF activateLDRWrongFlag, Kinds, Globals, ERROR_CODE
  <2> QED
    BY <1>3, <2>1 DEF activateLDRWrongFlag, Kinds, RamCounter
<1>4. ASSUME NEW o \in Outcomes(goal, g.errorFlag), NEW took \in 0..MoveTicks,
             moveMotor(o, took)
      PROVE  Kinds'
  <2>1. goal \in Goals /\ g.errorFlag \in ERROR_CODE /\ g.t_now \in Nat /\ took \in Nat
    BY ClockAssumption DEF Kinds, Globals
  <2>2. o.position \in KLAPPENPOSITION /\ o.error \in ERROR_CODE
    BY <2>1, OutcomeFacts
  <2>3. rtc' \in Clocks /\ rtc'.ram = rtc.ram
    BY <1>4, <2>1, AdvanceFacts DEF moveMotor, Kinds
  <2>4. g' \in Globals
    <3>1. g' = [g EXCEPT !.lastDoorPosition = o.position, !.errorFlag = o.error,
                         !.lastMove = g.t_now, !.led = "low"]
      BY <1>4 DEF moveMotor, Kinds, Globals
    <3>2. g \in Globals /\ g.t_now \in Nat
      BY DEF Kinds, Globals
    <3>3. ASSUME NEW x \in Globals, NEW p \in KLAPPENPOSITION, NEW e \in ERROR_CODE,
                 NEW t \in Nat
          PROVE  [x EXCEPT !.lastDoorPosition = p, !.errorFlag = e,
                           !.lastMove = t, !.led = "low"] \in Globals
      BY DEF Globals
    <3> QED
      BY <2>2, <3>1, <3>2, <3>3
  <2>5. nvs' \in Stores
    BY <1>4, <2>1, <2>2 DEF moveMotor, putPosition, Kinds, Stores
  <2>6. h' \in Histories
    <3> DEFINE n == IF h.cause = "light" THEN 0 ELSE h.positives
               l == IF h.cause = "light" THEN rtc.now ELSE h.lastLight
    <3>1. h' = [h EXCEPT !.cause = "none", !.mV = NoVoltage, !.positives = n, !.lastLight = l]
      BY <1>4 DEF moveMotor, Kinds, Histories
    <3>2. n \in Nat /\ l \in Int /\ NoVoltage \in Int
      BY DEF Kinds, Histories, Clocks, NoVoltage
    <3> HIDE DEF n, l
    <3>3. h \in Histories
      BY DEF Kinds
    <3> QED
      BY <3>1, <3>2, <3>3 DEF Histories
  <2> QED
    BY <1>4, <2>3, <2>4, <2>5, <2>6 DEF moveMotor, Kinds, RamCounter, Goals
<1>5. ASSUME NEW r \in Readings, statusabfrageError(r) PROVE Kinds'
  <2>1. SensedError(r) \in ERROR_CODE
    BY DEF SensedError, Kinds, Globals, ERROR_CODE
  <2>2. g' \in Globals
    <3>1. g' = [g EXCEPT !.errorFlag = SensedError(r), !.menuActive = TRUE, !.manualFlag = FALSE]
      BY <1>5 DEF statusabfrageError
    <3>2. g \in Globals
      BY DEF Kinds
    <3> QED
      BY <2>1, <3>1, <3>2, StatusTyped
  <2>3. nvs' \in Stores
    BY <1>5, <2>1 DEF statusabfrageError, Kinds, Stores
  <2>4. h' \in Histories
    BY <1>5 DEF statusabfrageError, ManualOver, Kinds, Histories
  <2> QED
    BY <1>5, <2>2, <2>3, <2>4 DEF statusabfrageError, Kinds, RamCounter
<1>6. ASSUME NEW r \in Readings, statusabfrage(r) PROVE Kinds'
  <2>1. nvs' \in Stores
    BY <1>6 DEF statusabfrage, Kinds, Stores, ERROR_CODE
  <2> QED
    BY <1>6, <2>1 DEF statusabfrage, Kinds, RamCounter
<1>7. ASSUME NEW mV \in Voltages, setNextOpeningAlarm(mV) \/ setNextClosingAlarm(mV)
      PROVE  Kinds'
  <2>1. PICK p, moves, light, y, c, d :
           Plans(p, moves, light, y, c, d)
    BY <1>7, NextPlan, KindsAreTypes
  <2>2. y \in Globals /\ c \in Clocks /\ d \in Nat /\ c.ram = rtc.ram
    BY <2>1 DEF Plans
  <2>3. nvs' \in Stores
    BY <2>1 DEF Plans, Kinds, Stores
  <2>4. h' \in Histories
    <3>1. /\ h'.positives \in Nat
          /\ h' = [h EXCEPT !.positives = h'.positives, !.unplanned = FALSE]
      BY <2>1 DEF Plans
    <3> DEFINE n == h'.positives
    <3>2. n \in Nat /\ h' = [h EXCEPT !.positives = n, !.unplanned = FALSE]
      BY <3>1
    <3> HIDE DEF n
    <3> QED
      BY <3>2 DEF Kinds, Histories
  <2>5. CASE g.menuActive
    BY <2>1, <2>2, <2>3, <2>4, <2>5 DEF Plans, Kinds, RamCounter
  <2>6. CASE ~g.menuActive
    <3>1. DeepSleep(y, c, d)
      BY <2>1, <2>6 DEF Plans
    <3>2. Bss \in Globals
      BY ReadTyped, KindsAreTypes DEF TypeInv
    <3>3. /\ pc' = "asleep" /\ ret' = "setup" /\ g' = Bss /\ espTimer' = 0
          /\ goal' = POS_UP /\ menu' = "home" /\ rtc' \in Clocks
          /\ RamCounter' <= y.ramCounter /\ wakeAt' \in Nat /\ hold' \in BOOLEAN
      BY <2>2, <3>1, SleepFacts DEF Kinds
    <3>4. RamCounter' <= lux_debounce_number
      BY <2>2, <3>3, DebounceAssumption DEF Clocks, RamCounter, Globals
    <3> QED
      BY <2>3, <2>4, <3>2, <3>3, <3>4 DEF Kinds, Goals
  <2> QED
    BY <2>5, <2>6
<1> QED
  BY <1>1, <1>2, <1>3, <1>4, <1>5, <1>6, <1>7 DEF Run

(* loop() and the menu. *)
LEMMA LoopTyped == TypeInv /\ Loop => TypeInv'
<1> SUFFICES ASSUME Kinds, Loop PROVE Kinds'
  BY KindsAreTypes
<1>1. CASE LoopAlarm
  <2>1. alarmWakeupHandling(g, h) /\ g \in Globals /\ h \in Histories
    BY <1>1 DEF LoopAlarm, Kinds
  <2>2. ret' = "loop" /\ UNCHANGED <<nvs, rtc, espTimer, wakeAt, hold, menu>>
    BY <1>1 DEF LoopAlarm
  <2>3. /\ [g EXCEPT !.errorFlag = "WRONG_ALARM_FLAG"] \in Globals
        /\ [h EXCEPT !.cause = "alarm"] \in Histories
    BY <2>1 DEF Globals, ERROR_CODE, Histories
  <2>4. pc' \in {"move", "status"} /\ g' \in Globals /\ h' \in Histories /\ goal' \in Goals
    BY <2>1, <2>3, AlarmFacts DEF Kinds
  <2> QED
    BY <2>2, <2>4 DEF Kinds, RamCounter
<1>2. CASE LoopIdle
  <2>1. g' \in Globals
    <3>1. g \in Globals /\ g' = [g EXCEPT !.menuActive = FALSE, !.led = "any"]
      BY <1>2 DEF LoopIdle, Kinds
    <3> QED
      BY <3>1, MenuTyped
  <2> QED
    BY <1>2, <2>1 DEF LoopIdle, InMenu, Kinds, RamCounter
<1>3. CASE ErrorKey
  <2>1. g' \in Globals
    <3>1. g \in Globals /\ g' = [g EXCEPT !.errorFlag = "NO_ERROR", !.led = "any"]
      BY <1>3 DEF ErrorKey, Kinds
    <3>2. "NO_ERROR" \in ERROR_CODE
      BY DEF ERROR_CODE
    <3> QED
      BY <3>1, <3>2, ErrorTyped
  <2>2. nvs' \in Stores
    BY <1>3 DEF ErrorKey, Kinds, Stores, ERROR_CODE
  <2> QED
    BY <1>3, <2>1, <2>2 DEF ErrorKey, Kinds, RamCounter
<1>4. CASE RefreshTime
  <2>1. g' \in Globals
    BY <1>4, ClockAssumption DEF RefreshTime, Kinds, Globals, Clocks
  <2> QED
    BY <1>4, <2>1 DEF RefreshTime, Kinds, RamCounter
<1>5. ASSUME NEW p \in Goals, ManualMove(p) PROVE Kinds'
  <2>0. g \in Globals /\ rtc.now \in Nat
    BY ClockAssumption DEF Kinds, Clocks
  <2>1. g' \in Globals
    <3>1. g' = [g EXCEPT !.manualFlag = TRUE, !.led = "high", !.t_now = rtc.now]
      BY <1>5 DEF ManualMove
    <3> QED
      BY <2>0, <3>1, ManualTyped
  <2>2. h' \in Histories
    BY <1>5 DEF ManualMove, Kinds, Histories
  <2> QED
    BY <1>5, <2>1, <2>2 DEF ManualMove, Kinds, RamCounter
<1>6. CASE ManualExit
  <2>0. g \in Globals /\ rtc.now \in Nat
    BY ClockAssumption DEF Kinds, Clocks
  <2>1. g' \in Globals
    <3>1. g' = [g EXCEPT !.manualFlag = FALSE, !.led = "low", !.t_now = rtc.now]
      BY <1>6 DEF ManualExit
    <3> QED
      BY <2>0, <3>1, ManualTyped
  <2>2. h' \in Histories
    BY <1>6 DEF ManualExit, Kinds, Histories
  <2> QED
    BY <1>6, <2>1, <2>2 DEF ManualExit, Kinds, RamCounter
<1>7. CASE SaveInit
  <2>1. g' \in Globals
    <3>1. g \in Globals /\ g' = [g EXCEPT !.F_init_NOX = TRUE]
      BY <1>7 DEF SaveInit, Kinds
    <3> QED
      BY <3>1, InitTyped
  <2>2. nvs' \in Stores
    BY <1>7 DEF SaveInit, Kinds, Stores, ERROR_CODE
  <2> QED
    BY <1>7, <2>1, <2>2 DEF SaveInit, Kinds, RamCounter
<1>8. ASSUME NEW o \in [WeekDays -> Entries], NEW c \in [WeekDays -> Entries],
             SaveAlarms(o, c)
      PROVE  Kinds'
  <2>1. nvs' \in Stores
    BY <1>8 DEF SaveAlarms, Kinds, Stores
  <2>2. h' \in Histories
    BY <1>8 DEF SaveAlarms, Kinds, Histories
  <2> QED
    BY <1>8, <2>1, <2>2 DEF SaveAlarms, Kinds, RamCounter
<1>9. /\ nvs.opening \in [WeekDays -> Entries] /\ nvs.closing \in [WeekDays -> Entries]
      /\ \A days \in DayMasks, e \in Entries, s \in [WeekDays -> Entries] :
           Entered(s, days, e) \in [WeekDays -> Entries]
  BY DEF Kinds, Stores, Entered
<1>10. ASSUME NEW days \in DayMasks, NEW e \in OpeningEntries, SaveOpening(days, e)
       PROVE  Kinds'
  BY <1>8, <1>9, <1>10, EntriesAssumption DEF SaveOpening
<1>11. ASSUME NEW days \in DayMasks, NEW e \in ClosingEntries, SaveClosing(days, e)
       PROVE  Kinds'
  BY <1>8, <1>9, <1>11, EntriesAssumption DEF SaveClosing
<1>12. CASE ResetSleep
  <2> DEFINE x == [g EXCEPT !.led = LoopLed]
  <2>0. x \in Globals /\ x.ramCounter = g.ramCounter
    BY LoopLedFacts DEF Kinds
  <2>1. DeepSleep(x, rtc, espTimer) /\ nvs' = nvs /\ h' = [h EXCEPT !.reset = TRUE]
    BY <1>12 DEF ResetSleep
  <2> HIDE DEF x
  <2>2. h' \in Histories
    BY <2>1 DEF Kinds, Histories
  <2>3. Bss \in Globals
    BY ReadTyped, KindsAreTypes DEF TypeInv
  <2>4. /\ pc' = "asleep" /\ ret' = "setup" /\ g' = Bss /\ espTimer' = 0
        /\ goal' = POS_UP /\ menu' = "home" /\ rtc' \in Clocks
        /\ RamCounter' <= g.ramCounter /\ wakeAt' \in Nat /\ hold' \in BOOLEAN
    BY <2>0, <2>1, SleepFacts DEF Kinds
  <2>5. RamCounter' <= lux_debounce_number
    BY <2>4, DebounceAssumption DEF Kinds, Clocks, RamCounter, Globals
  <2> QED
    BY <2>1, <2>2, <2>3, <2>4, <2>5 DEF Kinds, Goals
<1> QED
  BY <1>1, <1>2, <1>3, <1>4, <1>5, <1>6, <1>7, <1>10, <1>11, <1>12 DEF Loop

LEMMA TypeStep == TypeInv /\ [Next]_vars => TypeInv'
<1> SUFFICES ASSUME Kinds, [Next]_vars PROVE Kinds'
  BY KindsAreTypes
<1>1. CASE Wake \/ Run \/ Loop
  BY <1>1, WakeTyped, RunTyped, LoopTyped, KindsAreTypes
<1>2. CASE Tick
  <2>1. rtc' \in Clocks /\ rtc'.ram = rtc.ram
    BY <1>2, AdvanceFacts, ClockAssumption DEF Tick, Kinds, Clocks
  <2> QED
    BY <1>2, <2>1 DEF Tick, Kinds, RamCounter
<1>3. CASE PowerLoss
  <2>0. h \in Histories /\ NoVoltage \in Int
    BY DEF Kinds, NoVoltage
  <2>1. h' \in Histories
    BY <1>3, <2>0 DEF PowerLoss, Histories
  <2>2. Bss \in Globals
    BY ReadTyped, KindsAreTypes DEF TypeInv
  <2> QED
    BY <1>3, <2>1, <2>2 DEF PowerLoss, RamLost, Kinds, RamCounter, Goals
<1>4. CASE UNCHANGED vars
  BY <1>4 DEF vars, Kinds, RamCounter
<1> QED
  BY <1>1, <1>2, <1>3, <1>4 DEF Next

LEMMA AlwaysTyped == Spec => []TypeInv
  BY TypeInit, TypeStep, PTL DEF Spec

(* Every variable of the controller keeps its type: the debounce counter    *)
(* that a boot reads out of the RAM byte is within its limit, the sleep     *)
(* timer is never negative, and the alarm registers hold a minute of a day. *)
THEOREM ControllerTypes == Spec => []TypeOK
  BY AlwaysTyped, PTL DEF TypeInv
-----------------------------------------------------------------------------
(* NoErrorAsleep is not inductive: the stored error has to be traced through *)
(* the steps that lead to sleep.  ErrorInv says where it is known to be      *)
(* NO_ERROR.                                                                *)
ErrorInv ==
  /\ pc \in {"asleep", "ldr", "opening", "closing"} => nvs.error = "NO_ERROR"
  /\ pc = "loop" /\ menu = "home" /\ g.errorFlag = "NO_ERROR" => nvs.error = "NO_ERROR"

LEMMA ErrorStep == TypeInv /\ ErrorInv /\ [Next]_vars => ErrorInv'
<1> SUFFICES ASSUME Kinds, ErrorInv, [Next]_vars PROVE ErrorInv'
  BY KindsAreTypes
<1>0. g \in Globals /\ nvs \in Stores /\ rtc \in Clocks /\ h \in Histories
  BY DEF Kinds
<1>1. CASE WakeAlarm \/ LoopAlarm
  <2>1. pc' \in {"move", "status"}
    BY <1>1 DEF WakeAlarm, LoopAlarm, alarmWakeupHandling
  <2> QED
    BY <2>1 DEF ErrorInv
<1>2. CASE WakeTimer
  BY <1>2 DEF WakeTimer, ErrorInv
<1>3. CASE WakeButton \/ PowerOn
  BY <1>3 DEF WakeButton, PowerOn, ErrorInv
<1>4. ASSUME NEW p \in Goals, WakeLongPress(p) \/ ManualMove(p) PROVE ErrorInv'
  BY <1>4 DEF WakeLongPress, ManualMove, ErrorInv
<1>5. CASE SetupRest
  BY <1>5 DEF SetupRest, ErrorInv
<1>6. ASSUME NEW mV \in Voltages, activateLDR(mV) PROVE ErrorInv'
  <2>1. pc = "ldr" /\ pc' \in {"move", "asleep"} /\ nvs' = nvs
    BY <1>6 DEF activateLDR, DeepSleep
  <2> QED
    BY <2>1 DEF ErrorInv
<1>7. CASE activateLDRWrongFlag
  BY <1>7 DEF activateLDRWrongFlag, ErrorInv
<1>8. ASSUME NEW o, NEW took, moveMotor(o, took) PROVE ErrorInv'
  BY <1>8 DEF moveMotor, ErrorInv
<1>9. ASSUME NEW r \in Readings, statusabfrageError(r) PROVE ErrorInv'
  <2>1. SensedError(r) # "NO_ERROR" /\ g'.errorFlag = SensedError(r)
    BY <1>0, <1>9 DEF statusabfrageError, Globals
  <2>2. pc' \in {"setup", "loop"}
    BY <1>9 DEF statusabfrageError, Kinds
  <2> QED
    BY <2>1, <2>2 DEF ErrorInv
<1>10. ASSUME NEW r \in Readings, statusabfrage(r) PROVE ErrorInv'
  BY <1>0, <1>10 DEF statusabfrage, ErrorInv, Stores
<1>11. ASSUME NEW mV \in Voltages, setNextOpeningAlarm(mV) \/ setNextClosingAlarm(mV)
       PROVE  ErrorInv'
  <2>1. pc \in {"opening", "closing"} /\ nvs' = [nvs EXCEPT !.init_flag = TRUE]
    BY <1>11 DEF setNextOpeningAlarm, setNextClosingAlarm, setNextAlarm
  <2> QED
    BY <1>0, <2>1 DEF ErrorInv, Stores
<1>12. CASE LoopIdle \/ SaveInit
  BY <1>12 DEF LoopIdle, SaveInit, ErrorInv
<1>13. CASE ErrorKey
  BY <1>0, <1>13 DEF ErrorKey, InMenu, ErrorInv, Stores
<1>14. CASE RefreshTime
  BY <1>0, <1>14 DEF RefreshTime, AtHome, InMenu, ErrorInv, Globals
<1>15. CASE ManualExit
  BY <1>15 DEF ManualExit, ErrorInv
<1>16. ASSUME NEW o, NEW c, SaveAlarms(o, c) PROVE ErrorInv'
  BY <1>16 DEF SaveAlarms, ErrorInv
<1>17. CASE ResetSleep
  BY <1>17 DEF ResetSleep, AtHome, InMenu, DeepSleep, ErrorInv
<1>18. CASE Tick
  BY <1>18 DEF Tick, ErrorInv
<1>19. CASE PowerLoss
  BY <1>19 DEF PowerLoss, ErrorInv
<1>20. CASE UNCHANGED vars
  BY <1>20 DEF vars, ErrorInv
<1> QED
  BY <1>1, <1>2, <1>3, <1>4, <1>5, <1>6, <1>7, <1>8, <1>9, <1>10, <1>11, <1>12,
     <1>13, <1>14, <1>15, <1>16, <1>17, <1>18, <1>19, <1>20
     DEF Next, Wake, Run, Loop, SaveOpening, SaveClosing

(* The device never sleeps on a stored error, whichever way it went to      *)
(* sleep: by a light check, by planning or from the menu's reset page.      *)
THEOREM SleepsWithoutError == Spec => []NoErrorAsleep
<1>1. Init => ErrorInv
  BY DEF Init, ErrorInv
<1>2. ErrorInv => NoErrorAsleep
  BY DEF ErrorInv, NoErrorAsleep
<1> QED
  BY <1>1, <1>2, AlwaysTyped, ErrorStep, PTL DEF Spec
-----------------------------------------------------------------------------
(* AlarmMovesOnSchedule follows from what alarmFlag means while it travels  *)
(* from planning through the RAM byte and deep sleep to the next boot: it   *)
(* fits the alarm registers and the stored schedule.                        *)
Planned(p) == Scheduled(p, rtc.alarm, nvs.opening, nvs.closing)
PlanInv ==
  ~h.unplanned =>
    /\ Awake /\ g.alarmFlag \in Goals => Planned(g.alarmFlag)
    /\ pc = "asleep" /\ nvs.init_flag /\ RamAlarm \in Goals => Planned(RamAlarm)
    /\ pc = "off" => ~nvs.init_flag
    /\ pc = "move" /\ h.cause = "alarm" => Planned(goal)

(* A step of an awake device that leaves the plan alone. *)
LEMMA PlanQuiet ==
  ASSUME PlanInv, Awake, Awake',
         UNCHANGED <<rtc.alarm, nvs.opening, nvs.closing>>,
         g'.alarmFlag = g.alarmFlag, h'.unplanned = h.unplanned,
         ~(pc' = "move" /\ h'.cause = "alarm")
  PROVE  PlanInv'
  BY DEF PlanInv, Awake, Planned

(* Deep sleep with the flags of an awake device. *)
LEMMA PlanSleep ==
  ASSUME Kinds, NEW x \in Globals, NEW c \in Clocks, NEW d \in Nat, DeepSleep(x, c, d),
         nvs'.opening = nvs.opening, nvs'.closing = nvs.closing,
         ~h'.unplanned /\ x.alarmFlag \in Goals =>
            Scheduled(x.alarmFlag, c.alarm, nvs.opening, nvs.closing)
  PROVE  PlanInv'
<1>1. pc' = "asleep" /\ rtc'.alarm = c.alarm /\ RamAlarm' = x.alarmFlag
  BY SleepFacts DEF Kinds
<1> QED
  BY <1>1 DEF PlanInv, Awake, Planned

LEMMA PlanStep == TypeInv /\ PlanInv /\ [Next]_vars => PlanInv'
<1> SUFFICES ASSUME Kinds, PlanInv, [Next]_vars PROVE PlanInv'
  BY KindsAreTypes
<1>0. g \in Globals /\ nvs \in Stores /\ rtc \in Clocks /\ h \in Histories
  BY DEF Kinds
<1>b. /\ Booted \in Globals
      /\ Booted.alarmFlag = IF nvs.init_flag THEN RamAlarm ELSE POS_BLOCKED
  BY BootFacts, KindsAreTypes
<1>p. POS_BLOCKED \notin Goals
  BY DEF Goals, POS_UP, POS_DOWN, POS_BLOCKED
<1>1. CASE WakeAlarm
  <2> DEFINE x == [Booted EXCEPT !.manualFlag = FALSE, !.menuActive = FALSE]
             k == ManualOver(h)
  <2>1. x \in Globals /\ x.alarmFlag = Booted.alarmFlag
    BY <1>b DEF Globals
  <2>2. pc = "asleep" /\ alarmWakeupHandling(x, k) /\ UNCHANGED <<nvs, rtc>>
    BY <1>1 DEF WakeAlarm
  <2>3. /\ k.unplanned = h.unplanned
        /\ [k EXCEPT !.cause = "alarm"].unplanned = h.unplanned
    BY <1>0 DEF ManualOver, Histories
  <2> HIDE DEF x, k
  <2>4. [x EXCEPT !.errorFlag = "WRONG_ALARM_FLAG"].alarmFlag = x.alarmFlag
    BY <2>1 DEF Globals
  <2>5. h'.unplanned = h.unplanned /\ g'.alarmFlag = x.alarmFlag /\ pc' \in {"move", "status"}
    BY <2>1, <2>2, <2>3, <2>4, AlarmFacts
  <2>6. pc' = "move" => goal' = x.alarmFlag /\ x.alarmFlag \in Goals
    BY <2>1, <2>2, AlarmFacts
  <2>7. ~h.unplanned /\ x.alarmFlag \in Goals => Planned(x.alarmFlag)
    BY <1>b, <1>p, <2>1, <2>2 DEF PlanInv
  <2> QED
    BY <2>2, <2>5, <2>6, <2>7 DEF PlanInv, Planned, Awake
<1>2. CASE WakeTimer \/ WakeButton
  <2>1. /\ pc = "asleep" /\ pc' \in {"ldr", "setup"} /\ UNCHANGED <<nvs, rtc>>
        /\ g'.alarmFlag = Booted.alarmFlag /\ h'.unplanned = h.unplanned
    BY <1>0, <1>2, <1>b DEF WakeTimer, WakeButton, Globals, Histories
  <2> QED
    BY <1>b, <1>p, <2>1 DEF PlanInv, Planned, Awake
<1>3. CASE PowerOn
  <2>1. /\ pc = "off" /\ pc' = "setup" /\ UNCHANGED <<nvs, rtc, h>>
        /\ g'.alarmFlag = Booted.alarmFlag
    BY <1>3, <1>b DEF PowerOn, Globals
  <2> QED
    BY <1>b, <1>p, <2>1 DEF PlanInv, Planned, Awake
<1>4. ASSUME NEW p \in Goals, WakeLongPress(p) PROVE PlanInv'
  <2>1. /\ pc = "asleep" /\ pc' = "move" /\ UNCHANGED <<nvs, rtc>>
        /\ g'.alarmFlag = Booted.alarmFlag
        /\ h'.unplanned = h.unplanned /\ h'.cause = "manual"
    BY <1>0, <1>4, <1>b DEF WakeLongPress, Globals, Histories
  <2> QED
    BY <1>b, <1>p, <2>1 DEF PlanInv, Planned, Awake
<1>5. ASSUME NEW p \in Goals, ManualMove(p) PROVE PlanInv'
  <2>1. /\ pc = "loop" /\ pc' = "move" /\ UNCHANGED <<nvs, rtc>>
        /\ g'.alarmFlag = g.alarmFlag
        /\ h'.unplanned = h.unplanned /\ h'.cause = "manual"
    BY <1>0, <1>5 DEF ManualMove, AtHome, InMenu, Globals, Histories
  <2> QED
    BY <2>1, PlanQuiet DEF Awake
<1>6. ASSUME NEW mV \in Voltages, activateLDR(mV) PROVE PlanInv'
  <2> DEFINE n == Counted(g, VoltToLux(mV))
  <2>1. n \in Nat /\ NextCheck(n) \in Nat
    BY <1>0, DebounceAssumption DEF Globals, Counted, NextCheck
  <2> HIDE DEF n
  <2>2. pc = "ldr" /\ nvs' = nvs /\ h'.unplanned = h.unplanned
    BY <1>0, <1>6 DEF activateLDR, Histories
  <2>3. CASE DebounceDone(n)
    <3>1. /\ pc' = "move" /\ rtc' = rtc /\ g'.alarmFlag = g.alarmFlag /\ h'.cause = "light"
      BY <1>0, <1>6, <2>3 DEF activateLDR, n, Globals, Histories
    <3> QED
      BY <2>2, <3>1, PlanQuiet DEF Awake
  <2>4. CASE ~DebounceDone(n)
    <3> DEFINE x == [g EXCEPT !.ramCounter = n]
    <3>1. n \in 0..lux_debounce_number
      BY <2>1, <2>4, DebounceAssumption DEF DebounceDone
    <3>2. x \in Globals /\ x.alarmFlag = g.alarmFlag
      BY <1>0, <3>1 DEF Globals
    <3>3. DeepSleep(x, rtc, NextCheck(n))
      BY <1>6, <2>4 DEF activateLDR, n
    <3>4. ~h.unplanned /\ g.alarmFlag \in Goals => Planned(g.alarmFlag)
      BY <2>2 DEF PlanInv, Awake
    <3> HIDE DEF x
    <3> QED
      BY <1>0, <2>1, <2>2, <3>2, <3>3, <3>4, PlanSleep DEF Planned
  <2> QED
    BY <2>3, <2>4
<1>7. CASE activateLDRWrongFlag
  <2>1. /\ pc = "ldr" /\ pc' = "status" /\ UNCHANGED <<nvs, rtc, h>>
        /\ g'.alarmFlag = g.alarmFlag
    BY <1>0, <1>7 DEF activateLDRWrongFlag, Globals
  <2> QED
    BY <2>1, PlanQuiet DEF Awake
<1>8. ASSUME NEW o, NEW took \in 0..MoveTicks, moveMotor(o, took) PROVE PlanInv'
  <2>1. /\ pc = "move" /\ pc' = "status" /\ g'.alarmFlag = g.alarmFlag
        /\ h'.unplanned = h.unplanned
    BY <1>0, <1>8 DEF moveMotor, Globals, Histories
  <2>2. nvs'.opening = nvs.opening /\ nvs'.closing = nvs.closing
    BY <1>0, <1>8 DEF moveMotor, putPosition, Stores
  <2>3. rtc'.alarm = rtc.alarm
    BY <1>0, <1>8, AdvanceFacts, ClockAssumption DEF moveMotor
  <2> QED
    BY <2>1, <2>2, <2>3, PlanQuiet DEF Awake
<1>9. ASSUME NEW r \in Readings, statusabfrageError(r) \/ statusabfrage(r) PROVE PlanInv'
  <2>1. /\ pc = "status" /\ pc' \in {"setup", "loop", "opening", "closing"}
        /\ rtc' = rtc /\ g'.alarmFlag = g.alarmFlag
    BY <1>0, <1>9 DEF statusabfrageError, statusabfrage, Kinds, Globals
  <2>2. h'.unplanned = h.unplanned
    BY <1>0, <1>9 DEF statusabfrageError, statusabfrage, ManualOver, Histories
  <2>3. nvs'.opening = nvs.opening /\ nvs'.closing = nvs.closing
    BY <1>0, <1>9 DEF statusabfrageError, statusabfrage, Stores
  <2> QED
    BY <2>1, <2>2, <2>3, PlanQuiet DEF Awake
<1>10. ASSUME NEW mV \in Voltages, setNextOpeningAlarm(mV) \/ setNextClosingAlarm(mV)
       PROVE  PlanInv'
  <2>1. PICK p, moves, light, y, c, d :
           Plans(p, moves, light, y, c, d)
    BY <1>10, NextPlan, KindsAreTypes
  <2>2. y \in Globals /\ c \in Clocks /\ d \in Nat
    BY <2>1 DEF Plans
  <2>3. nvs'.opening = nvs.opening /\ nvs'.closing = nvs.closing
    BY <1>0, <2>1 DEF Plans, Stores
  <2>4. y.alarmFlag \in Goals => Scheduled(y.alarmFlag, c.alarm, nvs.opening, nvs.closing)
    BY <1>p, <2>1 DEF Plans
  <2>5. CASE g.menuActive
    <3>1. pc' \in {"setup", "loop"} /\ g' = y /\ rtc' = c
      BY <2>1, <2>5 DEF Plans, Kinds
    <3> QED
      BY <2>3, <2>4, <3>1 DEF PlanInv, Planned, Awake
  <2>6. CASE ~g.menuActive
    <3>1. DeepSleep(y, c, d)
      BY <2>1, <2>6 DEF Plans
    <3> QED
      BY <2>2, <2>3, <2>4, <3>1, PlanSleep
  <2> QED
    BY <2>5, <2>6
<1>11. CASE LoopAlarm
  <2>1. /\ pc = "loop" /\ alarmWakeupHandling(g, h) /\ UNCHANGED <<nvs, rtc>>
    BY <1>11 DEF LoopAlarm
  <2>2. [g EXCEPT !.errorFlag = "WRONG_ALARM_FLAG"].alarmFlag = g.alarmFlag
    BY <1>0 DEF Globals
  <2>3. [h EXCEPT !.cause = "alarm"].unplanned = h.unplanned
    BY <1>0 DEF Histories
  <2>4. h'.unplanned = h.unplanned /\ g'.alarmFlag = g.alarmFlag /\ pc' \in {"move", "status"}
    BY <1>0, <2>1, <2>2, <2>3, AlarmFacts
  <2>5. pc' = "move" => goal' = g.alarmFlag /\ g.alarmFlag \in Goals
    BY <1>0, <2>1, AlarmFacts
  <2> QED
    BY <2>1, <2>4, <2>5 DEF PlanInv, Planned, Awake
<1>12. CASE SetupRest \/ LoopIdle \/ ErrorKey \/ RefreshTime \/ ManualExit \/ SaveInit
  <2>1. /\ pc \in {"setup", "loop"} /\ pc' \in {"setup", "loop", "status"}
        /\ rtc' = rtc /\ g'.alarmFlag = g.alarmFlag /\ h'.unplanned = h.unplanned
    BY <1>0, <1>12 DEF SetupRest, LoopIdle, ErrorKey, RefreshTime, ManualExit, SaveInit,
       AtHome, InMenu, Globals, Histories
  <2>2. nvs'.opening = nvs.opening /\ nvs'.closing = nvs.closing
    BY <1>0, <1>12 DEF SetupRest, LoopIdle, ErrorKey, RefreshTime, ManualExit, SaveInit, Stores
  <2> QED
    BY <2>1, <2>2, PlanQuiet DEF Awake
<1>13. ASSUME NEW o, NEW c, SaveAlarms(o, c) PROVE PlanInv'
  BY <1>0, <1>13 DEF SaveAlarms, PlanInv, Histories
<1>14. CASE ResetSleep
  <2> DEFINE x == [g EXCEPT !.led = LoopLed]
  <2>0. x \in Globals /\ x.alarmFlag = g.alarmFlag
    BY <1>0, LoopLedFacts
  <2>1. /\ pc = "loop" /\ DeepSleep(x, rtc, espTimer) /\ nvs' = nvs /\ espTimer \in Nat
        /\ h'.unplanned = h.unplanned
    BY <1>0, <1>14 DEF ResetSleep, AtHome, InMenu, Histories, Kinds
  <2> HIDE DEF x
  <2>2. ~h.unplanned /\ g.alarmFlag \in Goals => Planned(g.alarmFlag)
    BY <2>1 DEF PlanInv, Awake
  <2> QED
    BY <1>0, <2>0, <2>1, <2>2, PlanSleep DEF Planned
<1>15. CASE Tick
  <2>1. rtc'.alarm = rtc.alarm /\ rtc'.ram = rtc.ram
    BY <1>0, <1>15, AdvanceFacts, ClockAssumption DEF Tick, Clocks
  <2>2. UNCHANGED <<pc, g, nvs, h, goal>>
    BY <1>15 DEF Tick
  <2> QED
    BY <2>1, <2>2 DEF PlanInv, Planned, Awake, RamAlarm
<1>16. CASE PowerLoss
  BY <1>0, <1>16 DEF PowerLoss, PlanInv, Histories
<1>17. CASE UNCHANGED vars
  BY <1>17 DEF vars, PlanInv, Planned, Awake, RamAlarm
<1> QED
  BY <1>1, <1>2, <1>3, <1>4, <1>5, <1>6, <1>7, <1>8, <1>9, <1>10, <1>11, <1>12,
     <1>13, <1>14, <1>15, <1>16, <1>17
     DEF Next, Wake, Run, Loop, SaveOpening, SaveClosing

(* An alarm moves the door only in the way and at the minute that the       *)
(* stored schedule of the alarm's weekday says.                             *)
THEOREM AlarmsFollowSchedule == Spec => []AlarmMovesOnSchedule
<1>1. Init => PlanInv
  BY DEF Init, PlanInv, Awake
<1>2. PlanInv => AlarmMovesOnSchedule
  BY DEF PlanInv, AlarmMovesOnSchedule, Planned, Scheduled
<1> QED
  BY <1>1, <1>2, AlwaysTyped, PlanStep, PTL DEF Spec
=============================================================================
