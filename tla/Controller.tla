----------------------------- MODULE Controller -----------------------------
(***************************************************************************)
(* The door controller of main.cpp from wake-up to deep sleep: setup and   *)
(* loop, wakeupHandling, activateLDR, moveMotor (by its contract, module   *)
(* MoveOutcomes), statusabfrage, setNextOpeningAlarm, setNextClosingAlarm  *)
(* and PREP_FOR_DEEP_SLEEP, over the three memories of the device: the     *)
(* globals (lost in deep sleep), the flash store nvs (never lost) and the  *)
(* real-time clock with its alarm and its RAM byte (battery-backed).       *)
(*                                                                         *)
(* pc names the C function that runs next.  All calls between these        *)
(* functions are tail calls, so a return address is only needed for "where *)
(* does control go if nobody puts the device to sleep": ret.               *)
(*                                                                         *)
(* A tick of the clock plays the role of a second, with MinuteLen ticks to *)
(* the minute and MinutesPerDay minutes to the day.  Functions that take   *)
(* milliseconds take no tick; a move takes up to MoveTicks, and any number *)
(* of ticks may pass in loop(), asleep and without power.                  *)
(***************************************************************************)
EXTENDS MoveOutcomes, Lux

CONSTANTS
  MinuteLen, MinutesPerDay,
  lux_debounce_number, lux_debounce_time, t_delta_min, t_sens,
  MoveTicks,        (* bound: the longest move                             *)
  MoveErrors,       (* bound: the time-outs that moves may report          *)
  Horizon,          (* bound: the clock stops here                         *)
  Voltages,         (* what the light sensor may measure                   *)
  OpeningEntries, ClosingEntries,  (* the alarms that the user may enter   *)
  DayMasks,         (* the sets of weekdays they are entered for           *)
  FirstStart        (* TRUE: a new device; FALSE: the wizard is done       *)

WeekDays == 1..7

ASSUME ClockAssumption ==
  /\ MinuteLen \in Nat \ {0} /\ MinutesPerDay \in Nat \ {0}
  /\ MoveTicks \in Nat /\ Horizon \in Nat /\ MoveErrors \subseteq TimerErrors

(* The debounce counter has four bits in the clock's RAM, and a light check *)
(* that is not the last of its series must not move the door.               *)
ASSUME DebounceAssumption ==
  /\ lux_debounce_number \in 2..16
  /\ lux_debounce_time \in Nat \ {0} /\ t_sens \in Nat \ {0}
  /\ t_delta_min \in Nat

(* doorDayAlarm_t: hour and minute as one minute of the day. *)
Entries == [mode : openingMode, minute : 0..(MinutesPerDay - 1), lux : 0..255]
ASSUME EntriesAssumption ==
  /\ Voltages \subseteq Nat
  /\ OpeningEntries \subseteq Entries /\ ClosingEntries \subseteq Entries
  /\ DayMasks \subseteq SUBSET WeekDays

VARIABLES
  pc, ret,
  g,         (* the globals: lost in deep sleep and without power          *)
  nvs,       (* Preferences "storage"                                      *)
  rtc,       (* RV8803: time, alarm registers, interrupt line, RAM byte    *)
  espTimer,  (* the sleep timer enabled in this boot, 0 for none           *)
  wakeAt,    (* when it will end a deep sleep, 0 for never                 *)
  hold,      (* gpio_hold_en(LED) has frozen the LED pad                   *)
  goal,      (* the argument of moveMotor, POS_UP when there is none       *)
  menu,      (* "wizard": pages 001, 300, 400 at first start; else "home"  *)
  (* History, read by no action of the code: *)
  h

vars == <<pc, ret, g, nvs, rtc, espTimer, wakeAt, hold, goal, menu, h>>

(* What the globals are before readValuesFromFlash: zero or initialised. *)
Bss == [lastDoorPosition |-> POS_UP, lastMove |-> 0, errorFlag |-> "NO_ERROR",
        menuActive |-> FALSE, manualFlag |-> FALSE, LDRFlag |-> POS_DOWN,
        alarmFlag |-> POS_DOWN, ramCounter |-> 0, nextLux |-> 0, t_now |-> 0,
        F_init_NOX |-> FALSE, led |-> "low"]

NoAlarm == [wd |-> 0, minute |-> 0]
NoVoltage == -1

Globals ==
  [lastDoorPosition : KLAPPENPOSITION,
   lastMove : Nat, errorFlag : ERROR_CODE, menuActive : BOOLEAN,
   manualFlag : BOOLEAN, LDRFlag : KLAPPENPOSITION,
   alarmFlag : KLAPPENPOSITION, ramCounter : 0..lux_debounce_number,
   nextLux : 0..255, t_now : Nat,
   F_init_NOX : BOOLEAN, led : {"low", "high", "any"}]

(* One type invariant for the device. *)
TypeOK ==
  /\ pc \in {"off", "asleep", "ldr", "move", "status", "opening", "closing",
             "setup", "loop"}
  /\ ret \in {"setup", "loop"}
  /\ g \in Globals
  /\ nvs \in [init_flag : BOOLEAN, init_last_move : BOOLEAN,
              init_NOX : BOOLEAN, lastMove : Nat, error : ERROR_CODE,
              lastPosition : KLAPPENPOSITION,
              opening : [WeekDays -> Entries], closing : [WeekDays -> Entries]]
  /\ rtc \in [now : 0..Horizon, int : BOOLEAN, ram : 0..255,
              alarm : [wd : 0..7, minute : 0..(MinutesPerDay - 1)]]
  /\ espTimer \in Nat /\ wakeAt \in Nat /\ hold \in BOOLEAN
  /\ goal \in Goals /\ menu \in {"home", "wizard"}
  /\ h \in [cause : {"none", "light", "alarm", "manual"}, positives : Nat,
            lastLight : Int, mV : Int, manual : {"no", "yes"},
            unplanned : BOOLEAN, reset : BOOLEAN]
-----------------------------------------------------------------------------
(* Time.  makeLocalTime derives the weekday from the date, Sunday = 1. *)
Weekday(t) == ((t \div (MinuteLen * MinutesPerDay)) % 7) + 1
NextWeekday(t) == (Weekday(t) % 7) + 1
MinuteOfDay(t) == (t \div MinuteLen) % MinutesPerDay

(* The clock raises its interrupt when a minute begins that the alarm       *)
(* registers (weekday, hour, minute) match.                                 *)
Matches(a, t) ==
  t % MinuteLen = 0 /\ a.wd = Weekday(t) /\ a.minute = MinuteOfDay(t)
Advance(c, k) ==
  [c EXCEPT !.now = @ + k,
            !.int = @ \/ \E i \in 1..k : Matches(c.alarm, c.now + i)]

(* setAlarm clears a pending interrupt.  It matches the weekday DoW of the  *)
(* last time update, not its argument mDoW.                                 *)
setAlarm(c, mDoW, minute) ==
  [c EXCEPT !.int = FALSE,
            !.alarm = [wd |-> Weekday(g.t_now), minute |-> minute]]
setAlarmTomorrow0(c) == setAlarm(c, NextWeekday(g.t_now), 0)
-----------------------------------------------------------------------------
(* Mutant: the alarm flag is shifted one bit too far. *)
PackShifted(x) == x.ramCounter + 16 * x.LDRFlag + 128 * x.alarmFlag

(* The RAM byte: four bits of counter, two bits for each flag. *)
Pack(x) == x.ramCounter + 16 * x.LDRFlag + 64 * x.alarmFlag
Saturated(x) == IF x.ramCounter > 15 THEN [x EXCEPT !.ramCounter = 15] ELSE x

(* writeValuesToFlash *)
writeValuesToFlash(c, x) == [c EXCEPT !.ram = Pack(Saturated(x))]

(* readValuesFromFlash and the time update of setup().  Where nothing is    *)
(* stored, getBytes leaves the global at its initial value.                 *)
readValuesFromFlash ==
  [Bss EXCEPT
    !.LDRFlag = IF nvs.init_flag THEN (rtc.ram \div 16) % 4 ELSE POS_BLOCKED,
    !.alarmFlag = IF nvs.init_flag THEN (rtc.ram \div 64) % 4 ELSE POS_BLOCKED,
    !.ramCounter = IF nvs.init_flag THEN rtc.ram % 16 ELSE 0,
    !.lastMove = nvs.lastMove,
    !.lastDoorPosition = IF nvs.init_last_move THEN nvs.lastPosition ELSE POS_BLOCKED,
    !.errorFlag = IF nvs.init_NOX THEN nvs.error ELSE "NO_ERROR",
    !.F_init_NOX = nvs.init_NOX,
    !.t_now = rtc.now]

(* What deep sleep and a power failure leave of the processor's memory. *)
RamLost ==
  /\ g' = Bss /\ espTimer' = 0
  /\ ret' = "setup" /\ goal' = POS_UP /\ menu' = "home"

(* PREP_FOR_DEEP_SLEEP with globals x, clock c and sleep timer d.  The LED  *)
(* pad is frozen if it reads high; blinked by the error page, or floating   *)
(* because the dark display has made the shared pin an input, it may.       *)
Lit(x) == CASE x.led = "low" -> {FALSE} [] x.led = "high" -> {TRUE}
            [] OTHER -> BOOLEAN
DeepSleep(x, c, d) ==
  /\ pc' = "asleep"
  /\ rtc' = writeValuesToFlash(c, x)
  /\ wakeAt' = IF d = 0 THEN 0 ELSE c.now + d
  /\ \E lit \in Lit(x) : hold' = (hold \/ lit)
  /\ RamLost

(* setAlarmsDefault *)
DefaultOpening == [mode |-> NICHT, minute |-> MinutesPerDay - 1, lux |-> 0]
DefaultClosing == DefaultOpening

Init ==
  /\ pc = "off" /\ ret = "setup"
  /\ g = Bss
  /\ nvs = [init_flag |-> FALSE, init_last_move |-> FALSE,
            init_NOX |-> ~FirstStart,
            lastMove |-> 0, error |-> "NO_ERROR", lastPosition |-> POS_UP,
            opening |-> [w \in WeekDays |-> DefaultOpening],
            closing |-> [w \in WeekDays |-> DefaultClosing]]
  /\ rtc = [now |-> 0, int |-> FALSE, ram |-> 0, alarm |-> NoAlarm]
  /\ espTimer = 0 /\ wakeAt = 0 /\ hold = FALSE
  /\ goal = POS_UP /\ menu = "home"
  /\ h = [cause |-> "none", positives |-> 0, lastLight |-> -1, mV |-> NoVoltage,
          manual |-> "no", unplanned |-> FALSE, reset |-> FALSE]
-----------------------------------------------------------------------------
(* Waking up.  setup() runs readValuesFromFlash and then wakeupHandling,    *)
(* which reads manualFlag off the LED pad and branches on the wake-up cause. *)

Booted == [readValuesFromFlash EXCEPT !.manualFlag = hold,
                                      !.led = IF hold THEN "high" ELSE "low"]

(* alarmWakeupHandling with globals x and history k. *)
alarmWakeupHandling(x, k) ==
  CASE x.alarmFlag \in Goals ->
         /\ pc' = "move" /\ goal' = x.alarmFlag /\ g' = x
         /\ h' = [k EXCEPT !.cause = "alarm"]
    [] x.alarmFlag = POS_BLOCKED ->
         /\ pc' = "status" /\ g' = x
         /\ h' = k /\ UNCHANGED goal
    [] OTHER ->
         /\ pc' = "status" /\ g' = [x EXCEPT !.errorFlag = "WRONG_ALARM_FLAG"]
         /\ h' = k /\ UNCHANGED goal

(* The manual mode is over for a reason other than the EXIT key. *)
ManualOver(k) == [k EXCEPT !.manual = "no", !.reset = FALSE]

(* ESP_SLEEP_WAKEUP_EXT1 with CLK_INT. *)
WakeAlarm ==
  /\ pc = "asleep" /\ rtc.int
  /\ ret' = "setup" /\ wakeAt' = 0
  /\ alarmWakeupHandling([Booted EXCEPT !.manualFlag = FALSE,
                                        !.menuActive = FALSE],
                         ManualOver(h))
  /\ UNCHANGED <<nvs, rtc, espTimer, hold, menu>>

TimerDue == wakeAt # 0 /\ rtc.now >= wakeAt

(* ESP_SLEEP_WAKEUP_TIMER: timerWakeupHandling calls activateLDR. *)
WakeTimer ==
  /\ pc = "asleep" /\ TimerDue
  /\ pc' = "ldr" /\ ret' = "setup" /\ wakeAt' = 0
  /\ g' = [Booted EXCEPT !.manualFlag = FALSE, !.menuActive = FALSE]
  /\ h' = [h EXCEPT !.reset = FALSE]
  /\ UNCHANGED <<nvs, rtc, espTimer, hold, goal, menu>>

(* ESP_SLEEP_WAKEUP_EXT1 with a button: only a long press of SW_BACK or     *)
(* SW_FWD (checkLongPressStartup) moves the door.  If the alarm fired too,  *)
(* the button's higher pin number hides it until loop() looks.              *)
WakeLongPress(p) ==
  /\ pc = "asleep"
  /\ pc' = "move" /\ goal' = p /\ ret' = "setup" /\ wakeAt' = 0
  /\ g' = [Booted EXCEPT !.manualFlag = TRUE, !.menuActive = FALSE]
  /\ h' = [h EXCEPT !.cause = "manual", !.manual = "yes", !.reset = FALSE]
  /\ UNCHANGED <<nvs, rtc, espTimer, hold, menu>>

WakeButton ==
  /\ pc = "asleep"
  /\ pc' = "setup" /\ wakeAt' = 0
  /\ g' = [Booted EXCEPT !.menuActive = TRUE]
  /\ h' = [h EXCEPT !.reset = FALSE]
  /\ UNCHANGED <<ret, nvs, rtc, espTimer, hold, goal, menu>>

(* Any other cause, power-on in particular. *)
PowerOn ==
  /\ pc = "off"
  /\ pc' = "setup"
  /\ g' = [Booted EXCEPT !.menuActive = TRUE]
  /\ UNCHANGED <<ret, nvs, rtc, espTimer, wakeAt, hold, goal, menu, h>>

(* The rest of setup(): LCD_ON pulls the shared pin low; first start goes   *)
(* to the wizard, else statusabfrage.                                       *)
SetupRest ==
  /\ pc = "setup"
  /\ ret' = "loop"
  /\ IF g.F_init_NOX THEN pc' = "status" /\ menu' = "home"
                     ELSE pc' = "loop" /\ menu' = "wizard"
  /\ g' = [g EXCEPT !.led = "low"]
  /\ UNCHANGED <<nvs, rtc, espTimer, wakeAt, hold, goal, h>>
-----------------------------------------------------------------------------
(* The light sensor. *)
Positive(x, lux) ==
  IF x.LDRFlag = POS_DOWN THEN lux <= x.nextLux ELSE lux >= x.nextLux

(* Mutant: a negative check does not reset the counter. *)
CountedAll(x, lux) == IF Positive(x, lux) THEN x.ramCounter + 1 ELSE x.ramCounter

Counted(x, lux) == IF Positive(x, lux) THEN x.ramCounter + 1 ELSE 0

(* Mutant: the timer is forgotten after a negative check. *)
NextCheckIfPositive(n) == IF n > 0 THEN lux_debounce_time ELSE 0

NextCheck(n) == IF n > 0 THEN lux_debounce_time ELSE t_sens
Series(lux, x, k) == IF Positive(x, lux) THEN k + 1 ELSE 0

DebounceDone(n) == n >= lux_debounce_number

(* activateLDR on a timer wake-up, and timerWakeupHandling's sleep. *)
activateLDR(mV) ==
  /\ pc = "ldr" /\ g.LDRFlag \in Goals
  /\ LET lux == VoltToLux(mV)
         n == Counted(g, lux)
         k == Series(lux, g, h.positives)
     IN \/ /\ DebounceDone(n)
           /\ pc' = "move" /\ goal' = g.LDRFlag
           /\ g' = [g EXCEPT !.ramCounter = 0]
           /\ h' = [h EXCEPT !.cause = "light", !.positives = k, !.mV = mV]
           /\ UNCHANGED <<ret, rtc, espTimer, wakeAt, hold, menu>>
        \/ /\ ~DebounceDone(n)
           /\ DeepSleep([g EXCEPT !.ramCounter = n], rtc, NextCheck(n))
           /\ h' = [h EXCEPT !.positives = k]
  /\ UNCHANGED nvs

activateLDRWrongFlag ==
  /\ pc = "ldr" /\ g.LDRFlag \notin Goals
  /\ pc' = "status"
  /\ g' = [g EXCEPT !.errorFlag = "WRONG_LDR_FLAG"]
  /\ UNCHANGED <<ret, nvs, rtc, espTimer, wakeAt, hold, goal, menu, h>>
-----------------------------------------------------------------------------
(* memory.putBytes(keyLastMovePosition, ...): a key of more than 15         *)
(* characters is refused, and nobody looks at the result.                   *)
KeyFits(length) == length <= 15
putPosition(store, p) ==
  IF KeyFits(18) THEN [store EXCEPT !.lastPosition = p] ELSE store

(* moveMotor, by its contract: outcome o after took ticks.  The move is     *)
(* dated with t_now, which nobody has updated since the wake-up or the last *)
(* page that shows the time.  The stop pulls the pin that the motor shares  *)
(* with the LED low.                                                        *)
moveMotor(o, took) ==
  /\ pc = "move" /\ rtc.now + took <= Horizon
  /\ o.why = "timeout" => o.error \in MoveErrors
  /\ pc' = "status" /\ goal' = POS_UP
  /\ rtc' = Advance(rtc, took)
  /\ g' = [g EXCEPT !.lastDoorPosition = o.position,
                    !.errorFlag = o.error, !.lastMove = g.t_now,
                    !.led = "low"]
  /\ nvs' = [putPosition(nvs, o.position) EXCEPT !.lastMove = g.t_now,
                                                 !.init_last_move = TRUE]
  /\ h' = [h EXCEPT !.cause = "none", !.mV = NoVoltage,
                    !.positives = IF h.cause = "light" THEN 0 ELSE @,
                    !.lastLight = IF h.cause = "light" THEN rtc.now ELSE @]
  /\ UNCHANGED <<ret, espTimer, wakeAt, hold, menu>>
-----------------------------------------------------------------------------
(* statusabfrage: where is the door, and what comes next? *)
SensedPosition(r) ==
  CASE r = AtBottom -> POS_DOWN [] r = Stuck -> POS_BLOCKED
    [] r = AtTop -> POS_UP [] OTHER -> POS_DRIVING
SensedError(r) == IF r = Stuck THEN "TIMER_BLOCKED_ELAPSED" ELSE g.errorFlag

(* Any error: keep the menu up, stop waiting for anything. *)
statusabfrageError(r) ==
  /\ pc = "status" /\ SensedError(r) # "NO_ERROR"
  /\ pc' = ret /\ menu' = "home"
  /\ g' = [g EXCEPT !.errorFlag = SensedError(r),
                    !.menuActive = TRUE, !.manualFlag = FALSE]
  /\ nvs' = [nvs EXCEPT !.error = SensedError(r)]
  /\ h' = ManualOver(h)
  /\ UNCHANGED <<ret, rtc, espTimer, wakeAt, hold, goal>>

OpensNext(p) ==
  p = POS_DOWN \/ (p = POS_DRIVING /\ g.lastDoorPosition = POS_DOWN)

(* Mutant: the error code is stored only when there is an error. *)
statusabfrageNotStored(r) ==
  /\ pc = "status" /\ SensedError(r) = "NO_ERROR"
  /\ pc' = IF OpensNext(SensedPosition(r)) THEN "opening" ELSE "closing"
  /\ UNCHANGED <<ret, g, nvs, rtc, espTimer, wakeAt, hold, goal, menu, h>>

(* No error, so the door is not stuck: an open door closes next, a closed   *)
(* one opens, and one in between does the opposite of the last move.        *)
statusabfrage(r) ==
  /\ pc = "status" /\ SensedError(r) = "NO_ERROR"
  /\ pc' = IF OpensNext(SensedPosition(r)) THEN "opening" ELSE "closing"
  /\ nvs' = [nvs EXCEPT !.error = "NO_ERROR"]
  /\ UNCHANGED <<ret, g, rtc, espTimer, wakeAt, hold, goal, menu, h>>
-----------------------------------------------------------------------------
(* setNextOpeningAlarm and setNextClosingAlarm differ in four decisions     *)
(* about the entry e of t_now's weekday; the rest is common.                *)

(* Alarm noch nicht vergangen *)
NotYet(e) == e.minute > MinuteOfDay(g.t_now)
Timed(e) == e.mode \in {ZEIT, LICHT_ZEIT}

(* Mutant: the pause between moves is forgotten. *)
NeverTooSoon == FALSE

(* Letzte Bewegung noch nicht lange genug her *)
TooSoon == g.lastMove + t_delta_min > g.t_now + 1

(* Wait for move p by entry e: today says that the clock's alarm is set to  *)
(* the entry's time, moves that this alarm moves the door, light that the   *)
(* sensor is watched, with one check now unless the last move is too recent. *)
setNextAlarm(p, e, today, moves, light, lux) ==
  LET c == IF today THEN setAlarm(rtc, Weekday(g.t_now), e.minute)
                    ELSE setAlarmTomorrow0(rtc)
      x == [g EXCEPT !.nextLux = e.lux,
                     !.alarmFlag = IF moves THEN p ELSE POS_BLOCKED,
                     !.LDRFlag = IF light THEN p ELSE POS_BLOCKED,
                     !.ramCounter = IF light THEN 0 ELSE @,
                     !.led = IF g.manualFlag THEN "high" ELSE @]
      checked == light /\ ~TooSoon
      y == IF checked THEN [x EXCEPT !.ramCounter = Counted(x, lux)] ELSE x
      d == CASE ~light  -> espTimer
             [] checked -> NextCheck(y.ramCounter)
             [] OTHER   -> g.lastMove + t_delta_min - g.t_now
  IN /\ nvs' = [nvs EXCEPT !.init_flag = TRUE]
     /\ h' = [h EXCEPT !.positives = IF checked THEN Series(lux, x, 0) ELSE 0,
                       !.unplanned = FALSE]
     /\ IF g.menuActive
        THEN /\ pc' = ret /\ g' = y /\ rtc' = c /\ espTimer' = d
             /\ UNCHANGED <<ret, wakeAt, hold, goal, menu>>
        ELSE DeepSleep(y, c, d)

(* Mutant: the earliest time of LICHT_ZEIT opens the door by itself. *)
OpensByTimeOrBoth(e) == Timed(e) /\ NotYet(e) /\ ~g.manualFlag
(* Mutant: the sensor is watched in manual mode as well. *)
OpensByLightAlways(e) == e.mode = LICHT \/ (e.mode = LICHT_ZEIT /\ ~NotYet(e))

(* Opening by time is put off in manual mode, and LICHT_ZEIT looks at the   *)
(* light only after its time, which is an alarm that does not move.         *)
OpensByTime(e) == e.mode = ZEIT /\ NotYet(e) /\ ~g.manualFlag
OpensByLight(e) ==
  ~g.manualFlag /\ (e.mode = LICHT \/ (e.mode = LICHT_ZEIT /\ ~NotYet(e)))

setNextOpeningAlarm(mV) ==
  /\ pc = "opening"
  /\ LET e == nvs.opening[Weekday(g.t_now)]
     IN setNextAlarm(POS_UP, e, Timed(e) /\ NotYet(e) /\ ~g.manualFlag,
                     OpensByTime(e), OpensByLight(e), VoltToLux(mV))

(* Closing by time happens in manual mode too; LICHT_ZEIT watches the light *)
(* before its time, the latest closing.                                     *)
ClosesByTime(e) == Timed(e) /\ NotYet(e)
ClosesByLight(e) ==
  ~g.manualFlag /\ (e.mode = LICHT \/ (e.mode = LICHT_ZEIT /\ NotYet(e)))

setNextClosingAlarm(mV) ==
  /\ pc = "closing"
  /\ LET e == nvs.closing[Weekday(g.t_now)]
     IN setNextAlarm(POS_DOWN, e, ClosesByTime(e), ClosesByTime(e),
                     ClosesByLight(e), VoltToLux(mV))
-----------------------------------------------------------------------------
(* loop().  Its first branch: the clock's interrupt line is high. *)
LoopAlarm ==
  /\ pc = "loop" /\ rtc.int
  /\ alarmWakeupHandling(g, h)
  /\ ret' = "loop"
  /\ UNCHANGED <<nvs, rtc, espTimer, wakeAt, hold, menu>>

(* Its second branch, with the error page when there is an error. *)
InMenu == pc = "loop" /\ ~rtc.int
AtHome == InMenu /\ g.errorFlag = "NO_ERROR" /\ menu = "home"

(* Nobody has pressed a key for NOX_SLEEP_TIME, so the display is dark. *)
LoopIdle ==
  /\ InMenu /\ g.errorFlag = "NO_ERROR"
  /\ pc' = "status" /\ ret' = "loop"
  /\ g' = [g EXCEPT !.menuActive = FALSE, !.led = "any"]
  /\ UNCHANGED <<nvs, rtc, espTimer, wakeAt, hold, goal, menu, h>>

(* Page 002: any key takes the error back.  The page blinks the LED. *)
ErrorKey ==
  /\ InMenu /\ g.errorFlag # "NO_ERROR"
  /\ g' = [g EXCEPT !.errorFlag = "NO_ERROR", !.led = "any"]
  /\ nvs' = [nvs EXCEPT !.error = "NO_ERROR"]
  /\ menu' = "home"
  /\ UNCHANGED <<pc, ret, rtc, espTimer, wakeAt, hold, goal, h>>

(* Page 000 shows the time: timeUpdate and dateUpdate. *)
RefreshTime ==
  /\ AtHome /\ g.t_now # rtc.now
  /\ g' = [g EXCEPT !.t_now = rtc.now]
  /\ UNCHANGED <<pc, ret, nvs, rtc, espTimer, wakeAt, hold, goal, menu, h>>

(* Pages 003 and 004, entered from page 000 with LEFT and RIGHT. *)
ManualMove(p) ==
  /\ AtHome
  /\ pc' = "move" /\ ret' = "loop" /\ goal' = p
  /\ g' = [g EXCEPT !.manualFlag = TRUE, !.led = "high", !.t_now = rtc.now]
  /\ h' = [h EXCEPT !.cause = "manual", !.manual = "yes"]
  /\ UNCHANGED <<nvs, rtc, espTimer, wakeAt, hold, menu>>

(* EXIT on page 000 ends the manual mode. *)
ManualExit ==
  /\ AtHome /\ g.manualFlag
  /\ pc' = "status" /\ ret' = "loop"
  /\ g' = [g EXCEPT !.manualFlag = FALSE, !.led = "low", !.t_now = rtc.now]
  /\ h' = [h EXCEPT !.manual = "no"]
  /\ UNCHANGED <<nvs, rtc, espTimer, wakeAt, hold, goal, menu>>

(* Page 900 at the end of the wizard: only init_NOX is stored. *)
SaveInit ==
  /\ InMenu /\ g.errorFlag = "NO_ERROR" /\ ~g.F_init_NOX
  /\ g' = [g EXCEPT !.F_init_NOX = TRUE]
  /\ nvs' = [nvs EXCEPT !.init_NOX = TRUE, !.error = "NO_ERROR"]
  /\ pc' = "status" /\ ret' = "loop" /\ menu' = "home"
  /\ UNCHANGED <<rtc, espTimer, wakeAt, hold, goal, h>>

(* Page 900 after the alarm pages: saveAlarmValues for the chosen days. *)
Entered(schedule, days, e) ==
  [w \in WeekDays |-> IF w \in days THEN e ELSE schedule[w]]
SaveAlarms(opening, closing) ==
  /\ AtHome /\ g.F_init_NOX
  /\ nvs' = [nvs EXCEPT !.opening = opening, !.closing = closing]
  /\ pc' = "status" /\ ret' = "loop"
  /\ h' = [h EXCEPT !.unplanned = TRUE]
  /\ UNCHANGED <<g, rtc, espTimer, wakeAt, hold, goal, menu>>
SaveOpening(days, e) == SaveAlarms(Entered(nvs.opening, days, e), nvs.closing)
SaveClosing(days, e) == SaveAlarms(nvs.opening, Entered(nvs.closing, days, e))

(* A pass of loop() with a lit display: LCD_ON pulls the shared pin low,    *)
(* manual mode lights the LED again before menuUpdate takes a key.          *)
LoopLed == IF g.manualFlag THEN "high" ELSE "low"

(* Page 700: "reset" goes to sleep at once, without statusabfrage. *)
ResetSleep ==
  /\ AtHome
  /\ DeepSleep([g EXCEPT !.led = LoopLed], rtc, espTimer)
  /\ h' = [h EXCEPT !.reset = TRUE]
  /\ UNCHANGED nvs
-----------------------------------------------------------------------------
(* The environment: time passes, unless the device is about to react to the *)
(* clock or to the sleep timer; the supply fails at any moment.             *)
Tick ==
  /\ rtc.now < Horizon
  /\ \/ pc = "off"
     \/ pc = "loop" /\ ~rtc.int
     \/ pc = "asleep" /\ ~rtc.int /\ ~TimerDue
  /\ rtc' = Advance(rtc, 1)
  /\ UNCHANGED <<pc, ret, g, nvs, espTimer, wakeAt, hold, goal, menu, h>>

PowerLoss ==
  /\ pc # "off"
  /\ pc' = "off"
  /\ RamLost /\ wakeAt' = 0 /\ hold' = FALSE
  /\ h' = [h EXCEPT !.manual = "no", !.cause = "none", !.mV = NoVoltage, !.reset = FALSE,
                    !.unplanned = TRUE]
  /\ UNCHANGED <<nvs, rtc>>

Wake ==
  \/ WakeAlarm \/ WakeTimer \/ WakeButton \/ PowerOn
  \/ \E p \in Goals : WakeLongPress(p)

Run ==
  \/ SetupRest
  \/ \E mV \in Voltages : activateLDR(mV)
  \/ activateLDRWrongFlag
  \/ \E o \in Outcomes(goal, g.errorFlag), took \in 0..MoveTicks : moveMotor(o, took)
  \/ \E r \in Readings : statusabfrageError(r) \/ statusabfrage(r)
  \/ \E mV \in Voltages : setNextOpeningAlarm(mV) \/ setNextClosingAlarm(mV)

Loop ==
  \/ LoopAlarm \/ LoopIdle \/ ErrorKey \/ RefreshTime
  \/ \E p \in Goals : ManualMove(p)
  \/ ManualExit \/ SaveInit
  \/ \E days \in DayMasks :
       \/ \E e \in OpeningEntries : SaveOpening(days, e)
       \/ \E e \in ClosingEntries : SaveClosing(days, e)
  \/ ResetSleep

Next == Wake \/ Run \/ Loop \/ Tick \/ PowerLoss

Spec == Init /\ [][Next]_vars
-----------------------------------------------------------------------------
(* The door moves by light only after lux_debounce_number light checks in a *)
(* row were positive, although the count travels through the clock's RAM    *)
(* byte and deep sleep, and buttons, alarms, saved settings and power       *)
(* failures may come between two checks.                                    *)
LightMoveDebounced ==
  pc = "move" /\ h.cause = "light" => h.positives >= lux_debounce_number

(* Two moves by light are at least t_delta_min apart, whatever other moves  *)
(* and restarts lie between them, and although the planning code accepts    *)
(* one second less: the debounce series makes up for it.                    *)
LightMovesSpaced ==
  pc = "move" /\ h.cause = "light" /\ h.lastLight >= 0 =>
    rtc.now - h.lastLight >= t_delta_min

(* Light closes the door only if the voltage of the check that completes    *)
(* the series lies in or below the band of the level it is compared with,   *)
(* for every voltage, those that VoltToLux has no band for included.        *)
ClosesOnlyInTheDark ==
  pc = "move" /\ h.cause = "light" /\ goal = POS_DOWN =>
    Exceeded(h.mV) - 1 <= g.nextLux

(* While the manual mode that the user chose is in force, light does not    *)
(* move the door.                                                           *)
ManualHoldsLight == pc = "move" /\ h.cause = "light" => h.manual = "no"

(* A device that sleeps while its flags say that it watches the light has a *)
(* timer that will wake it for the next check, and the clock's alarm is     *)
(* set; the sleep of page 700 is excepted, it skips statusabfrage.          *)
LightWatchArmed ==
  pc = "asleep" /\ ~h.reset =>
    /\ rtc.alarm # NoAlarm
    /\ (rtc.ram \div 16) % 4 \in Goals => wakeAt # 0

(* The device never goes to sleep on an error, and the stored error code is *)
(* the current one: whoever wakes it finds no error from the past.          *)
NoErrorAsleep == pc = "asleep" => nvs.error = "NO_ERROR"

(* An alarm moves the door only as today's schedule says: down at the time  *)
(* of a ZEIT or LICHT_ZEIT entry, up at the time of a ZEIT entry.  Alarm,   *)
(* alarmFlag and schedule are brought together by setNext...Alarm; between  *)
(* saving new settings or a power failure and the next call of it, which an *)
(* error can put off, they may disagree (h.unplanned).                      *)
AlarmMovesOnSchedule ==
  pc = "move" /\ h.cause = "alarm" /\ ~h.unplanned =>
    LET w == rtc.alarm.wd
        e == IF goal = POS_DOWN THEN nvs.closing[w] ELSE nvs.opening[w]
    IN /\ e.minute = rtc.alarm.minute
       /\ e.mode \in IF goal = POS_DOWN THEN {ZEIT, LICHT_ZEIT} ELSE {ZEIT}
-----------------------------------------------------------------------------
(* What comments of the source say and the code does not do. *)

(* main.cpp:2327: an alarm whose time is over is set to tomorrow, 00:01,    *)
(* minute 0 of the model's day: whoever arms that minute arms tomorrow's.   *)
TomorrowMeansTomorrow ==
  [][(rtc'.alarm # rtc.alarm /\ rtc'.alarm.minute = 0) =>
       (rtc'.alarm.wd = NextWeekday(g.t_now))]_vars

(* main.cpp:53: the light threshold has to be reached that often.  A check  *)
(* compares with the threshold that is set for the day.                     *)
ThresholdSurvivesSleep ==
  pc = "ldr" /\ g.LDRFlag \in Goals =>
    \E w \in WeekDays :
      g.nextLux = (IF g.LDRFlag = POS_UP THEN nvs.opening ELSE nvs.closing)[w].lux

(* main.cpp:2594: nothing is done while there is an error. *)
NothingMovesOnError == pc = "move" => g.errorFlag = "NO_ERROR"

(* README.md:4 promises "a nighttime-detection depending on the            *)
(* light-level of the environment": the level at which light opens the door *)
(* is not above the number of thresholds that its voltage exceeds, so night *)
(* is not taken for day.                                                    *)
NightIsNotDay ==
  pc = "move" /\ h.cause = "light" /\ goal = POS_UP =>
    VoltToLux(h.mV) <= Exceeded(h.mV)
=============================================================================
