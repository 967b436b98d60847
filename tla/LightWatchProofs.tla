-------------------------- MODULE LightWatchProofs --------------------------
(***************************************************************************)
(* The light watch of Controller: what the device remembers of it over     *)
(* deep sleep, and the theorems about moves by light.  The first part says *)
(* what each step does to the watch: LDRFlag, ramCounter and the time of   *)
(* the last move, in the globals, in the RAM byte and in flash.  The       *)
(* second part proves the invariants from these facts alone.               *)
(***************************************************************************)
EXTENDS ControllerProofs, FiniteSetTheorems

(* v lies strictly between voltMap[i] and voltMap[i + 1]. *)
InBand(v, i) == v > voltMap[i] /\ v < voltMap[i + 1]

(* The recursive definition of the loop has the solution that it suggests:  *)
(* the first band from i on, 9 if there is none.                            *)
BandLoop(v, f) == f = [i \in 0..9 |-> IF i = 9 \/ InBand(v, i) THEN i ELSE f[i + 1]]

LEMMA BandLoopExists ==
  ASSUME NEW v
  PROVE  \E f : BandLoop(v, f)
<1> DEFINE B(i) == InBand(v, i)
           c8 == IF B(8) THEN 8 ELSE 9
           c7 == IF B(7) THEN 7 ELSE c8
           c6 == IF B(6) THEN 6 ELSE c7
           c5 == IF B(5) THEN 5 ELSE c6
           c4 == IF B(4) THEN 4 ELSE c5
           c3 == IF B(3) THEN 3 ELSE c4
           c2 == IF B(2) THEN 2 ELSE c3
           c1 == IF B(1) THEN 1 ELSE c2
           c0 == IF B(0) THEN 0 ELSE c1
           f == [i \in 0..9 |->
                  CASE i = 0 -> c0 [] i = 1 -> c1 [] i = 2 -> c2 [] i = 3 -> c3
                    [] i = 4 -> c4 [] i = 5 -> c5 [] i = 6 -> c6 [] i = 7 -> c7
                    [] i = 8 -> c8 [] OTHER -> 9]
<1> HIDE DEF B
<1>1. \A i \in 0..9 : f[i] = IF i = 9 \/ B(i) THEN i ELSE f[i + 1]
  <2>1. /\ f[0] = c0 /\ f[1] = c1 /\ f[2] = c2 /\ f[3] = c3 /\ f[4] = c4
        /\ f[5] = c5 /\ f[6] = c6 /\ f[7] = c7 /\ f[8] = c8 /\ f[9] = 9
    <3> HIDE DEF c0, c1, c2, c3, c4, c5, c6, c7, c8
    <3> QED
      OBVIOUS
  <2>2. \A i \in 0..9 : i \in {0, 1, 2, 3, 4, 5, 6, 7, 8, 9}
    OBVIOUS
  <2> HIDE DEF f
  <2> QED
    BY <2>1, <2>2
<1>2. f = [i \in 0..9 |-> f[i]]
  OBVIOUS
<1> HIDE DEF f
<1>3. f = [i \in 0..9 |-> IF i = 9 \/ B(i) THEN i ELSE f[i + 1]]
  BY <1>1, <1>2
<1> QED
  BY <1>3 DEF BandLoop, B

LEMMA VoltToLuxLoops ==
  ASSUME NEW v
  PROVE  \E f : BandLoop(v, f) /\ VoltToLux(v) = f[0]
<1> DEFINE f == CHOOSE l : BandLoop(v, l)
<1>1. BandLoop(v, f)
  BY BandLoopExists
<1>2. VoltToLux(v) = f[0]
  BY DEF VoltToLux, BandLoop, InBand
<1> QED
  BY <1>1, <1>2

(* The level is that of the band the voltage lies in, or else the loop's    *)
(* final value.                                                             *)
LEMMA VoltToLuxValue ==
  ASSUME NEW v
  PROVE  VoltToLux(v) = 9 \/ \E i \in 0..8 : VoltToLux(v) = i /\ InBand(v, i)
<1>1. PICK f : BandLoop(v, f) /\ VoltToLux(v) = f[0]
  BY VoltToLuxLoops
<1>2. \A i \in 0..9 : f[i] = IF i = 9 \/ InBand(v, i) THEN i ELSE f[i + 1]
  BY <1>1 DEF BandLoop
<1>3. f[9] = 9 /\ \A i \in 0..8 : f[i] = IF InBand(v, i) THEN i ELSE f[i + 1]
  BY <1>2
<1>4. /\ f[0] = IF InBand(v, 0) THEN 0 ELSE f[1]
      /\ f[1] = IF InBand(v, 1) THEN 1 ELSE f[2]
      /\ f[2] = IF InBand(v, 2) THEN 2 ELSE f[3]
      /\ f[3] = IF InBand(v, 3) THEN 3 ELSE f[4]
      /\ f[4] = IF InBand(v, 4) THEN 4 ELSE f[5]
      /\ f[5] = IF InBand(v, 5) THEN 5 ELSE f[6]
      /\ f[6] = IF InBand(v, 6) THEN 6 ELSE f[7]
      /\ f[7] = IF InBand(v, 7) THEN 7 ELSE f[8]
      /\ f[8] = IF InBand(v, 8) THEN 8 ELSE f[9]
  BY <1>3
<1> QED
  BY <1>1, <1>3, <1>4

(* The thresholds rise. *)
LEMMA VoltMapRises ==
  /\ \A i \in 0..9 : voltMap[i] \in Nat
  /\ \A i, j \in 0..9 : i <= j => voltMap[i] <= voltMap[j]
<1>1. /\ voltMap[0] = Step /\ voltMap[1] = 2 * Step /\ voltMap[2] = 3 * Step
      /\ voltMap[3] = 4 * Step /\ voltMap[4] = 5 * Step /\ voltMap[5] = 6 * Step
      /\ voltMap[6] = 7 * Step /\ voltMap[7] = 8 * Step /\ voltMap[8] = 9 * Step
      /\ voltMap[9] = 10 * Step
  BY VoltageAssumption DEF voltMap
<1>2. Step \in Nat
  BY VoltageAssumption
<1>3. \A i \in 0..9 : i \in {0, 1, 2, 3, 4, 5, 6, 7, 8, 9}
  OBVIOUS
<1>4. \A i \in 0..9 : voltMap[i] \in Nat
  BY <1>1, <1>2, <1>3
<1>5. \A i, j \in 0..9 : i <= j => voltMap[i] <= voltMap[j]
  BY <1>1, <1>2, <1>3
<1> QED
  BY <1>4, <1>5

(* VoltToLux never reports less light than there is: a voltage that exceeds *)
(* n thresholds has the level n - 1, or 9 where the loop finds no band.     *)
THEOREM LuxNotBelowBand ==
  ASSUME NEW v \in Nat
  PROVE  /\ VoltToLux(v) \in 0..9 /\ Exceeded(v) \in Nat
         /\ Exceeded(v) - 1 <= VoltToLux(v)
<1> DEFINE S == {j \in 0..9 : v > voltMap[j]}
<1>1. ASSUME NEW i \in 0..9, \A j \in S : j <= i
      PROVE  Exceeded(v) \in Nat /\ Exceeded(v) <= i + 1
  <2>1. S \in SUBSET (0..i)
    BY <1>1
  <2>2. IsFiniteSet(0..i) /\ Cardinality(0..i) = i + 1
    BY FS_Interval
  <2>3. IsFiniteSet(S) /\ Cardinality(S) <= i + 1
    BY <2>1, <2>2, FS_Subset
  <2> QED
    BY <2>3, FS_CardinalityType DEF Exceeded
<1>2. CASE VoltToLux(v) = 9
  <2>1. Exceeded(v) \in Nat /\ Exceeded(v) <= 9 + 1
    BY <1>1
  <2> QED
    BY <1>2, <2>1
<1>3. ASSUME NEW i \in 0..8, VoltToLux(v) = i, InBand(v, i)
      PROVE  /\ VoltToLux(v) \in 0..9 /\ Exceeded(v) \in Nat
         /\ Exceeded(v) - 1 <= VoltToLux(v)
  <2>1. v < voltMap[i + 1] /\ i \in 0..9 /\ i + 1 \in 0..9
    BY <1>3 DEF InBand
  <2>2. ASSUME NEW j \in 0..9, v > voltMap[j] PROVE j <= i
    <3>1. i + 1 <= j => voltMap[i + 1] <= voltMap[j]
      BY <2>1, VoltMapRises
    <3>2. voltMap[i + 1] \in Nat /\ voltMap[j] \in Nat
      BY <2>1, VoltMapRises
    <3> QED
      BY <2>1, <2>2, <3>1, <3>2
  <2>3. Exceeded(v) \in Nat /\ Exceeded(v) <= i + 1
    BY <1>1, <2>1, <2>2
  <2> QED
    BY <1>3, <2>1, <2>3
<1> QED
  BY <1>2, <1>3, VoltToLuxValue
-----------------------------------------------------------------------------
(* What a boot copies into the globals. *)
BootCopies ==
  /\ g'.LDRFlag = (IF nvs.init_flag THEN RamLDR ELSE POS_BLOCKED)
  /\ g'.ramCounter = (IF nvs.init_flag THEN RamCounter ELSE 0)
  /\ g'.lastMove = nvs.lastMove /\ g'.t_now = rtc.now
  /\ h'.positives = h.positives /\ h'.lastLight = h.lastLight
  /\ UNCHANGED <<nvs, rtc, espTimer, hold>>

(* The watch of an awake device is left alone. *)
WatchKept ==
  /\ g'.LDRFlag = g.LDRFlag /\ g'.ramCounter = g.ramCounter
  /\ UNCHANGED <<espTimer, wakeAt, hold>>
  /\ rtc'.alarm = rtc.alarm /\ rtc'.ram = rtc.ram

LEMMA BootEffect ==
  ASSUME Kinds, NEW x \in Globals,
         x.LDRFlag = Booted.LDRFlag, x.ramCounter = Booted.ramCounter,
         x.lastMove = Booted.lastMove, x.t_now = Booted.t_now,
         g'.LDRFlag = x.LDRFlag, g'.ramCounter = x.ramCounter,
         g'.lastMove = x.lastMove, g'.t_now = x.t_now,
         h'.positives = h.positives, h'.lastLight = h.lastLight,
         UNCHANGED <<nvs, rtc, espTimer, hold>>
  PROVE  BootCopies
  BY BootFacts, KindsAreTypes DEF BootCopies

LEMMA WakeAlarmEffect ==
  ASSUME Kinds, WakeAlarm
  PROVE  /\ BootCopies /\ pc = "asleep" /\ wakeAt' = 0
         /\ pc' \in {"move", "status"} /\ (pc' = "move" => h'.cause = "alarm")
         /\ h'.manual = "no"
<1> DEFINE x == [Booted EXCEPT !.manualFlag = FALSE, !.menuActive = FALSE]
           k == ManualOver(h)
<1>1. Booted \in Globals
  BY BootFacts, KindsAreTypes
<1>2. /\ x \in Globals /\ x.LDRFlag = Booted.LDRFlag /\ x.ramCounter = Booted.ramCounter
      /\ x.lastMove = Booted.lastMove /\ x.t_now = Booted.t_now
  BY <1>1 DEF Globals
<1>3. /\ k \in Histories /\ k.manual = "no" /\ k.positives = h.positives
      /\ k.lastLight = h.lastLight
  BY DEF ManualOver, Kinds, Histories
<1>4. /\ pc = "asleep" /\ wakeAt' = 0 /\ alarmWakeupHandling(x, k)
      /\ UNCHANGED <<nvs, rtc, espTimer, hold>>
  BY DEF WakeAlarm
<1> HIDE DEF x, k
<1>5. LET y == [x EXCEPT !.errorFlag = "WRONG_ALARM_FLAG"]
      IN /\ y.LDRFlag = x.LDRFlag /\ y.ramCounter = x.ramCounter
         /\ y.lastMove = x.lastMove /\ y.t_now = x.t_now
  BY <1>2 DEF Globals
<1>6. LET l == [k EXCEPT !.cause = "alarm"]
      IN /\ l.cause = "alarm" /\ l.manual = k.manual /\ l.positives = k.positives
         /\ l.lastLight = k.lastLight
  BY <1>3 DEF Histories
<1>7. /\ g'.LDRFlag = x.LDRFlag /\ g'.ramCounter = x.ramCounter
      /\ g'.lastMove = x.lastMove /\ g'.t_now = x.t_now
      /\ h'.manual = k.manual /\ h'.positives = k.positives /\ h'.lastLight = k.lastLight
      /\ pc' \in {"move", "status"} /\ (pc' = "move" => h'.cause = "alarm")
  BY <1>2, <1>4, <1>5, <1>6, AlarmFacts
<1>8. BootCopies
  BY <1>2, <1>3, <1>4, <1>7, BootEffect
<1> QED
  BY <1>3, <1>4, <1>7, <1>8

LEMMA WakeTimerEffect ==
  ASSUME Kinds, WakeTimer
  PROVE  /\ BootCopies /\ pc = "asleep" /\ wakeAt' = 0 /\ pc' = "ldr"
         /\ TimerDue /\ h'.manual = h.manual
<1> DEFINE x == [Booted EXCEPT !.manualFlag = FALSE, !.menuActive = FALSE]
<1>1. Booted \in Globals
  BY BootFacts, KindsAreTypes
<1>2. /\ x \in Globals /\ x.LDRFlag = Booted.LDRFlag /\ x.ramCounter = Booted.ramCounter
      /\ x.lastMove = Booted.lastMove /\ x.t_now = Booted.t_now
  BY <1>1 DEF Globals
<1>3. /\ pc = "asleep" /\ wakeAt' = 0 /\ pc' = "ldr" /\ TimerDue /\ g' = x
      /\ h' = [h EXCEPT !.reset = FALSE] /\ UNCHANGED <<nvs, rtc, espTimer, hold>>
  BY DEF WakeTimer
<1>4. h'.manual = h.manual /\ h'.positives = h.positives /\ h'.lastLight = h.lastLight
  BY <1>3 DEF Kinds, Histories
<1> HIDE DEF x
<1>5. BootCopies
  BY <1>2, <1>3, <1>4, BootEffect
<1> QED
  BY <1>3, <1>4, <1>5

LEMMA WakeLongPressEffect ==
  ASSUME Kinds, NEW p \in Goals, WakeLongPress(p)
  PROVE  /\ BootCopies /\ pc = "asleep" /\ wakeAt' = 0 /\ pc' = "move"
         /\ h'.cause = "manual" /\ g'.manualFlag
<1> DEFINE x == [Booted EXCEPT !.manualFlag = TRUE, !.menuActive = FALSE]
<1>1. Booted \in Globals
  BY BootFacts, KindsAreTypes
<1>2. /\ x \in Globals /\ x.LDRFlag = Booted.LDRFlag /\ x.ramCounter = Booted.ramCounter
      /\ x.lastMove = Booted.lastMove /\ x.t_now = Booted.t_now /\ x.manualFlag = TRUE
  BY <1>1 DEF Globals
<1>3. /\ pc = "asleep" /\ wakeAt' = 0 /\ pc' = "move" /\ g' = x
      /\ h' = [h EXCEPT !.cause = "manual", !.manual = "yes", !.reset = FALSE]
      /\ UNCHANGED <<nvs, rtc, espTimer, hold>>
  BY DEF WakeLongPress
<1>4. /\ h'.cause = "manual" /\ h'.positives = h.positives /\ h'.lastLight = h.lastLight
  BY <1>3 DEF Kinds, Histories
<1> HIDE DEF x
<1>5. BootCopies
  BY <1>2, <1>3, <1>4, BootEffect
<1> QED
  BY <1>2, <1>3, <1>4, <1>5

LEMMA WakeMenuEffect ==
  ASSUME Kinds, WakeButton \/ PowerOn
  PROVE  /\ BootCopies /\ pc' = "setup" /\ h'.manual = h.manual
         /\ (pc = "asleep" /\ wakeAt' = 0) \/ (pc = "off" /\ wakeAt' = wakeAt)
         /\ g'.manualFlag = hold /\ (hold => g'.led = "high")
         /\ g'.errorFlag = IF nvs.init_NOX THEN nvs.error ELSE "NO_ERROR"
<1> DEFINE x == [Booted EXCEPT !.menuActive = TRUE]
<1>1. /\ Booted \in Globals
      /\ Booted.manualFlag = hold /\ (hold => Booted.led = "high")
      /\ Booted.errorFlag = IF nvs.init_NOX THEN nvs.error ELSE "NO_ERROR"
  BY BootFacts, KindsAreTypes
<1>2. /\ x \in Globals /\ x.LDRFlag = Booted.LDRFlag /\ x.ramCounter = Booted.ramCounter
      /\ x.lastMove = Booted.lastMove /\ x.t_now = Booted.t_now
      /\ x.manualFlag = Booted.manualFlag /\ x.led = Booted.led
      /\ x.errorFlag = Booted.errorFlag
  BY <1>1 DEF Globals
<1>3. /\ pc' = "setup" /\ g' = x /\ UNCHANGED <<nvs, rtc, espTimer, hold>>
      /\ (pc = "asleep" /\ wakeAt' = 0) \/ (pc = "off" /\ wakeAt' = wakeAt)
      /\ h' = [h EXCEPT !.reset = FALSE] \/ h' = h
  BY DEF WakeButton, PowerOn
<1>4. h'.manual = h.manual /\ h'.positives = h.positives /\ h'.lastLight = h.lastLight
  BY <1>3 DEF Kinds, Histories
<1> HIDE DEF x
<1>5. BootCopies
  BY <1>2, <1>3, <1>4, BootEffect
<1> QED
  BY <1>1, <1>2, <1>3, <1>4, <1>5

(* A light check starts the move or goes back to sleep. *)
LEMMA CheckEffect ==
  ASSUME Kinds, NEW mV \in Voltages, activateLDR(mV)
  PROVE  /\ pc = "ldr" /\ g.LDRFlag \in Goals /\ nvs' = nvs
         /\ h'.lastLight = h.lastLight /\ h'.manual = h.manual
         /\ \/ /\ pc' = "move" /\ h'.cause = "light"
               /\ UNCHANGED <<rtc, espTimer, wakeAt, hold>>
               /\ g'.LDRFlag = g.LDRFlag /\ g'.ramCounter = 0
               /\ g'.lastMove = g.lastMove /\ g'.t_now = g.t_now
               /\ lux_debounce_number <= g.ramCounter + 1
               /\ h'.positives = h.positives + 1
            \/ /\ pc' = "asleep" /\ espTimer' = 0
               /\ RamLDR' = g.LDRFlag
               /\ g.ramCounter <= h.positives => RamCounter' <= h'.positives
               /\ rtc'.now = rtc.now /\ rtc'.alarm = rtc.alarm
               /\ wakeAt' \in Nat /\ rtc.now < wakeAt'
<1> DEFINE lux == VoltToLux(mV)
           n == Counted(g, lux)
           k == Series(lux, g, h.positives)
<1>0. g \in Globals /\ rtc \in Clocks /\ h \in Histories /\ rtc.now \in Nat
  BY ClockAssumption DEF Kinds, Clocks
<1>1. /\ pc = "ldr" /\ g.LDRFlag \in Goals /\ nvs' = nvs
      /\ \/ /\ DebounceDone(n)
            /\ pc' = "move" /\ goal' = g.LDRFlag
            /\ g' = [g EXCEPT !.ramCounter = 0]
            /\ h' = [h EXCEPT !.cause = "light", !.positives = k, !.mV = mV]
            /\ UNCHANGED <<ret, rtc, espTimer, wakeAt, hold, menu>>
         \/ /\ ~DebounceDone(n)
            /\ DeepSleep([g EXCEPT !.ramCounter = n], rtc, NextCheck(n))
            /\ h' = [h EXCEPT !.positives = k]
  BY DEF activateLDR
<1>2. /\ n \in Nat /\ k \in Nat /\ NextCheck(n) \in Nat /\ NextCheck(n) > 0
      /\ g.ramCounter \in Nat /\ h.positives \in Nat
      /\ (n = 0 /\ k = 0) \/ (n = g.ramCounter + 1 /\ k = h.positives + 1)
  BY <1>0, DebounceAssumption DEF Globals, Histories, Counted, Series, NextCheck
<1> HIDE DEF n, k
<1>3. CASE DebounceDone(n)
  <2>1. /\ pc' = "move" /\ g' = [g EXCEPT !.ramCounter = 0]
        /\ h' = [h EXCEPT !.cause = "light", !.positives = k, !.mV = mV]
        /\ UNCHANGED <<rtc, espTimer, wakeAt, hold>>
    BY <1>1, <1>3
  <2>2. n >= lux_debounce_number /\ n # 0
    BY <1>2, <1>3, DebounceAssumption DEF DebounceDone
  <2>3. /\ g'.LDRFlag = g.LDRFlag /\ g'.ramCounter = 0
        /\ g'.lastMove = g.lastMove /\ g'.t_now = g.t_now
    BY <1>0, <2>1 DEF Globals
  <2>4. /\ h'.lastLight = h.lastLight /\ h'.manual = h.manual /\ h'.cause = "light"
        /\ h'.positives = k
    BY <1>0, <2>1 DEF Histories
  <2>5. k = h.positives + 1 /\ lux_debounce_number <= g.ramCounter + 1
    BY <1>2, <2>2
  <2> QED
    BY <1>1, <2>1, <2>3, <2>4, <2>5
<1>4. CASE ~DebounceDone(n)
  <2> DEFINE x == [g EXCEPT !.ramCounter = n]
             d == NextCheck(n)
  <2>1. DeepSleep(x, rtc, d) /\ h' = [h EXCEPT !.positives = k]
    BY <1>1, <1>4
  <2>2. n \in 0..lux_debounce_number
    BY <1>2, <1>4, DebounceAssumption DEF DebounceDone
  <2>3. x \in Globals /\ x.LDRFlag = g.LDRFlag /\ x.ramCounter = n
    BY <1>0, <2>2 DEF Globals
  <2>4. h'.lastLight = h.lastLight /\ h'.manual = h.manual /\ h'.positives = k
    BY <1>0, <2>1 DEF Histories
  <2>5. hold \in BOOLEAN /\ d \in Nat /\ d > 0
    BY <1>2 DEF Kinds
  <2> HIDE DEF x, d
  <2>6. /\ pc' = "asleep" /\ espTimer' = 0 /\ RamLDR' = x.LDRFlag
        /\ RamCounter' <= x.ramCounter /\ rtc'.now = rtc.now /\ rtc'.alarm = rtc.alarm
        /\ wakeAt' = (IF d = 0 THEN 0 ELSE rtc.now + d) /\ wakeAt' \in Nat
        /\ rtc' \in Clocks
    BY <1>0, <2>1, <2>3, <2>5, SleepFacts
  <2>7. rtc.now < wakeAt'
    BY <1>0, <2>5, <2>6
  <2>8. RamCounter' \in Int
    BY <2>6 DEF RamCounter, Clocks
  <2>9. g.ramCounter <= h.positives => RamCounter' <= h'.positives
    BY <1>2, <2>3, <2>4, <2>6, <2>8
  <2> QED
    BY <1>1, <2>3, <2>4, <2>6, <2>7, <2>9
<1> QED
  BY <1>3, <1>4

(* A move dates itself with t_now. *)
LEMMA MoveEffect ==
  ASSUME Kinds, NEW o, NEW took \in 0..MoveTicks, moveMotor(o, took)
  PROVE  /\ pc = "move" /\ pc' = "status" /\ WatchKept
         /\ g'.lastMove = g.t_now /\ nvs'.lastMove = g.t_now /\ g'.t_now = g.t_now
         /\ g'.manualFlag = g.manualFlag
         /\ rtc'.now \in Nat /\ rtc.now <= rtc'.now
         /\ h'.cause = "none" /\ h'.manual = h.manual
         /\ h'.positives = (IF h.cause = "light" THEN 0 ELSE h.positives)
         /\ h'.lastLight = (IF h.cause = "light" THEN rtc.now ELSE h.lastLight)
<1>0. g \in Globals /\ rtc \in Clocks /\ h \in Histories /\ nvs \in Stores
  BY DEF Kinds
<1>1. pc = "move" /\ pc' = "status" /\ UNCHANGED <<espTimer, wakeAt, hold>>
  BY DEF moveMotor
<1>2. /\ g'.LDRFlag = g.LDRFlag /\ g'.ramCounter = g.ramCounter
      /\ g'.lastMove = g.t_now /\ g'.t_now = g.t_now /\ g'.manualFlag = g.manualFlag
  BY <1>0 DEF moveMotor, Globals
<1>3. nvs'.lastMove = g.t_now
  BY <1>0 DEF moveMotor, putPosition, Stores
<1>4. /\ took \in Nat /\ rtc' = Advance(rtc, took) /\ rtc.now + took <= Horizon
      /\ rtc.now \in Nat
  BY <1>0, ClockAssumption DEF moveMotor, Clocks
<1>5. /\ rtc'.now = rtc.now + took /\ rtc'.alarm = rtc.alarm /\ rtc'.ram = rtc.ram
  BY <1>0, <1>4, AdvanceFacts
<1>6. /\ h'.cause = "none" /\ h'.manual = h.manual
      /\ h'.positives = (IF h.cause = "light" THEN 0 ELSE h.positives)
      /\ h'.lastLight = (IF h.cause = "light" THEN rtc.now ELSE h.lastLight)
  BY <1>0 DEF moveMotor, Histories
<1> QED
  BY <1>1, <1>2, <1>3, <1>4, <1>5, <1>6 DEF WatchKept

(* statusabfrage, with and without an error, and the wrong flag. *)
LEMMA StatusEffect ==
  ASSUME Kinds, NEW r \in Readings, statusabfrageError(r) \/ statusabfrage(r)
  PROVE  /\ pc = "status" /\ WatchKept /\ rtc' = rtc
         /\ g'.lastMove = g.lastMove /\ nvs'.lastMove = nvs.lastMove /\ g'.t_now = g.t_now
         /\ h'.positives = h.positives /\ h'.lastLight = h.lastLight
         /\ \/ pc' \in {"setup", "loop"} /\ h'.manual = "no"
            \/ /\ pc' \in {"opening", "closing"} /\ g.errorFlag = "NO_ERROR" /\ g' = g
               /\ h' = h
<1>0. g \in Globals /\ h \in Histories /\ nvs \in Stores
  BY DEF Kinds
<1>1. CASE statusabfrageError(r)
  <2>1. /\ pc = "status" /\ pc' \in {"setup", "loop"}
        /\ UNCHANGED <<rtc, espTimer, wakeAt, hold>>
    BY <1>1 DEF statusabfrageError, Kinds
  <2>2. /\ g'.LDRFlag = g.LDRFlag /\ g'.ramCounter = g.ramCounter
        /\ g'.lastMove = g.lastMove /\ g'.t_now = g.t_now
    BY <1>0, <1>1 DEF statusabfrageError, Globals
  <2>3. nvs'.lastMove = nvs.lastMove
    BY <1>0, <1>1 DEF statusabfrageError, Stores
  <2>4. h'.positives = h.positives /\ h'.lastLight = h.lastLight /\ h'.manual = "no"
    BY <1>0, <1>1 DEF statusabfrageError, ManualOver, Histories
  <2> QED
    BY <2>1, <2>2, <2>3, <2>4 DEF WatchKept
<1>2. CASE statusabfrage(r)
  <2>1. /\ pc = "status" /\ pc' \in {"opening", "closing"} /\ SensedError(r) = "NO_ERROR"
        /\ nvs' = [nvs EXCEPT !.error = "NO_ERROR"]
        /\ UNCHANGED <<g, h, rtc, espTimer, wakeAt, hold>>
    BY <1>2 DEF statusabfrage
  <2>2. g.errorFlag = "NO_ERROR"
    BY <2>1 DEF SensedError
  <2>3. nvs'.lastMove = nvs.lastMove
    BY <1>0, <2>1 DEF Stores
  <2> QED
    BY <2>1, <2>2, <2>3 DEF WatchKept
<1> QED
  BY <1>1, <1>2

LEMMA WrongFlagEffect ==
  ASSUME Kinds, activateLDRWrongFlag
  PROVE  /\ pc = "ldr" /\ pc' = "status" /\ WatchKept /\ UNCHANGED <<nvs, rtc, h>>
         /\ g'.lastMove = g.lastMove /\ g'.t_now = g.t_now
         /\ g'.errorFlag # "NO_ERROR"
<1>0. g \in Globals
  BY DEF Kinds
<1> QED
  BY <1>0 DEF activateLDRWrongFlag, WatchKept, Globals

(* Planning: the new LDRFlag f and sleep timer d, in the menu or into sleep. *)
PlanOutcome(f, d) ==
  /\ pc \in {"opening", "closing"} /\ d \in Nat
  /\ f \in Goals => /\ ~g.manualFlag /\ d # 0
                    /\ g.lastMove + t_delta_min <= g.t_now + d
  /\ h'.positives \in Nat /\ h'.lastLight = h.lastLight
  /\ h'.manual = h.manual /\ h'.cause = h.cause
  /\ nvs'.lastMove = nvs.lastMove
  /\ rtc'.now = rtc.now /\ rtc'.alarm # NoAlarm
  /\ \/ /\ pc' \in {"setup", "loop"} /\ g'.LDRFlag = f /\ espTimer' = d
        /\ f \in Goals => g'.ramCounter <= h'.positives
        /\ g'.lastMove = g.lastMove /\ g'.t_now = g.t_now
        /\ g'.manualFlag = g.manualFlag /\ (g.manualFlag => g'.led = "high")
        /\ g'.errorFlag = g.errorFlag
        /\ UNCHANGED <<wakeAt, hold>>
     \/ /\ pc' = "asleep" /\ RamLDR' = f /\ espTimer' = 0
        /\ f \in Goals => RamCounter' <= h'.positives
        /\ wakeAt' = (IF d = 0 THEN 0 ELSE rtc.now + d)
        /\ g.manualFlag => hold'

LEMMA PlanEffect ==
  ASSUME Kinds, NEW mV \in Voltages, setNextOpeningAlarm(mV) \/ setNextClosingAlarm(mV)
  PROVE  \E f, d : PlanOutcome(f, d)
<1>0. h \in Histories /\ nvs \in Stores /\ g \in Globals /\ hold \in BOOLEAN
  BY DEF Kinds
<1>1. PICK p, moves, light, y, c, d :
        Plans(p, moves, light, y, c, d)
  BY NextPlan, KindsAreTypes
<1> DEFINE f == y.LDRFlag
<1>2. /\ y \in Globals /\ c \in Clocks /\ d \in Nat /\ pc \in {"opening", "closing"}
      /\ c.now = rtc.now /\ c.alarm.wd \in WeekDays
      /\ y.errorFlag = g.errorFlag /\ y.manualFlag = g.manualFlag
      /\ y.lastMove = g.lastMove /\ y.t_now = g.t_now
      /\ g.manualFlag => y.led = "high"
  BY <1>1 DEF Plans
<1>3. f \in Goals => light
  BY <1>1 DEF Plans, Goals, POS_UP, POS_DOWN, POS_BLOCKED
<1>4. f \in Goals => /\ ~g.manualFlag /\ d # 0 /\ g.lastMove + t_delta_min <= g.t_now + d
                    /\ y.ramCounter <= h'.positives
  BY <1>1, <1>3 DEF Plans
<1>5. nvs'.lastMove = nvs.lastMove
  BY <1>0, <1>1 DEF Plans, Stores
<1>6. /\ h'.positives \in Nat
      /\ h'.lastLight = h.lastLight /\ h'.manual = h.manual /\ h'.cause = h.cause
  <2> DEFINE n == h'.positives
  <2>1. n \in Nat /\ h' = [h EXCEPT !.positives = n, !.unplanned = FALSE]
    BY <1>1 DEF Plans
  <2> HIDE DEF n
  <2>2. h'.lastLight = h.lastLight /\ h'.manual = h.manual /\ h'.cause = h.cause
    BY <1>0, <2>1 DEF Histories
  <2> QED
    BY <2>1, <2>2 DEF n
<1>7. c.alarm # NoAlarm
  BY <1>2 DEF NoAlarm, WeekDays
<1>8. CASE g.menuActive
  <2>1. pc' \in {"setup", "loop"} /\ g' = y /\ rtc' = c /\ espTimer' = d /\ UNCHANGED <<wakeAt, hold>>
    BY <1>1, <1>8 DEF Plans, Kinds
  <2> HIDE DEF f
  <2>2. PlanOutcome(f, d)
    BY <1>2, <1>4, <1>5, <1>6, <1>7, <2>1 DEF PlanOutcome, f
  <2> QED
    BY <2>2
<1>9. CASE ~g.menuActive
  <2>1. DeepSleep(y, c, d)
    BY <1>1, <1>9 DEF Plans
  <2>2. /\ pc' = "asleep" /\ espTimer' = 0 /\ rtc'.now = c.now /\ rtc'.alarm = c.alarm
        /\ RamLDR' = f /\ RamCounter' <= y.ramCounter /\ rtc' \in Clocks
        /\ wakeAt' = (IF d = 0 THEN 0 ELSE c.now + d)
        /\ (hold \/ y.led = "high" => hold')
    BY <1>0, <1>2, <2>1, SleepFacts
  <2>3. RamCounter' \in Int /\ y.ramCounter \in Int
    <3>1. rtc'.ram \in 0..255
      BY <2>2 DEF Clocks
    <3>2. RamCounter' \in Int
      BY <3>1 DEF RamCounter
    <3>3. y.ramCounter \in Int
      BY <1>2, DebounceAssumption DEF Globals
    <3> QED
      BY <3>2, <3>3
  <2>4. f \in Goals => RamCounter' <= h'.positives
    BY <1>4, <1>6, <2>2, <2>3
  <2> HIDE DEF f
  <2>5. PlanOutcome(f, d)
    BY <1>2, <1>4, <1>5, <1>6, <1>7, <2>2, <2>4 DEF PlanOutcome
  <2> QED
    BY <2>5
<1> QED
  BY <1>8, <1>9

(* The rest of setup(). *)
LEMMA SetupEffect ==
  ASSUME Kinds, SetupRest
  PROVE  /\ pc = "setup" /\ pc' \in {"status", "loop"}
         /\ UNCHANGED <<nvs, rtc, espTimer, wakeAt, hold, h>>
         /\ g'.LDRFlag = g.LDRFlag /\ g'.ramCounter = g.ramCounter
         /\ g'.lastMove = g.lastMove /\ g'.t_now = g.t_now
         /\ g'.manualFlag = g.manualFlag /\ g'.errorFlag = g.errorFlag
<1>1. g \in Globals
  BY DEF Kinds
<1> QED
  BY <1>1 DEF SetupRest, Globals

(* The menu, but for the reset page: moves by alarm or by hand, the end of  *)
(* the manual mode, the error page.                                         *)
MenuStep ==
  \/ LoopAlarm \/ LoopIdle \/ ErrorKey \/ RefreshTime \/ ManualExit \/ SaveInit
  \/ \E p \in Goals : ManualMove(p)
  \/ \E o, c : SaveAlarms(o, c)
LEMMA MenuEffect ==
  ASSUME Kinds, MenuStep
  PROVE  /\ pc = "loop" /\ WatchKept /\ rtc' = rtc
         /\ g'.lastMove = g.lastMove /\ nvs'.lastMove = nvs.lastMove
         /\ g'.t_now \in {g.t_now, rtc.now}
         /\ h'.positives = h.positives /\ h'.lastLight = h.lastLight
         /\ pc' \in {"loop", "status", "move"}
         /\ pc' = "move" => h'.cause \in {"alarm", "manual"}
         /\ \/ h'.manual = "no"
            \/ pc' \in {"status", "move"} /\ g'.manualFlag = g.manualFlag /\ h'.manual = h.manual
            \/ pc' = "move" /\ g'.manualFlag
            \/ pc' = "loop" /\ g.errorFlag # "NO_ERROR" /\ h' = h
            \/ /\ pc' = "loop" /\ h' = h
               /\ g'.errorFlag = g.errorFlag /\ g'.manualFlag = g.manualFlag
<1>0. g \in Globals /\ h \in Histories /\ nvs \in Stores
  BY DEF Kinds
<1>1. CASE LoopAlarm
  <2>1. /\ pc = "loop" /\ alarmWakeupHandling(g, h)
        /\ UNCHANGED <<nvs, rtc, espTimer, wakeAt, hold>>
    BY <1>1 DEF LoopAlarm
  <2>2. LET y == [g EXCEPT !.errorFlag = "WRONG_ALARM_FLAG"]
        IN /\ y.LDRFlag = g.LDRFlag /\ y.ramCounter = g.ramCounter
           /\ y.lastMove = g.lastMove /\ y.t_now = g.t_now /\ y.manualFlag = g.manualFlag
    BY <1>0 DEF Globals
  <2>3. LET l == [h EXCEPT !.cause = "alarm"]
        IN /\ l.cause = "alarm" /\ l.manual = h.manual /\ l.positives = h.positives
           /\ l.lastLight = h.lastLight
    BY <1>0 DEF Histories
  <2>4. /\ g'.LDRFlag = g.LDRFlag /\ g'.ramCounter = g.ramCounter
        /\ g'.lastMove = g.lastMove /\ g'.t_now = g.t_now /\ g'.manualFlag = g.manualFlag
        /\ h'.manual = h.manual /\ h'.positives = h.positives /\ h'.lastLight = h.lastLight
        /\ pc' \in {"move", "status"} /\ (pc' = "move" => h'.cause = "alarm")
    BY <1>0, <2>1, <2>2, <2>3, AlarmFacts
  <2> QED
    BY <2>1, <2>4 DEF WatchKept
<1>2. CASE LoopIdle \/ SaveInit
  <2>1. /\ pc = "loop" /\ pc' = "status" /\ UNCHANGED <<rtc, espTimer, wakeAt, hold, h>>
    BY <1>2 DEF LoopIdle, SaveInit, InMenu
  <2>2. /\ g'.LDRFlag = g.LDRFlag /\ g'.ramCounter = g.ramCounter
        /\ g'.lastMove = g.lastMove /\ g'.t_now = g.t_now /\ g'.manualFlag = g.manualFlag
    BY <1>0, <1>2 DEF LoopIdle, SaveInit, Globals
  <2>3. nvs'.lastMove = nvs.lastMove
    BY <1>0, <1>2 DEF LoopIdle, SaveInit, Stores
  <2> QED
    BY <2>1, <2>2, <2>3 DEF WatchKept
<1>3. CASE ErrorKey
  <2>1. /\ pc = "loop" /\ pc' = "loop" /\ g.errorFlag # "NO_ERROR"
        /\ UNCHANGED <<rtc, espTimer, wakeAt, hold, h>>
    BY <1>3 DEF ErrorKey, InMenu
  <2>2. /\ g'.LDRFlag = g.LDRFlag /\ g'.ramCounter = g.ramCounter
        /\ g'.lastMove = g.lastMove /\ g'.t_now = g.t_now
    BY <1>0, <1>3 DEF ErrorKey, Globals
  <2>3. nvs'.lastMove = nvs.lastMove
    BY <1>0, <1>3 DEF ErrorKey, Stores
  <2> QED
    BY <2>1, <2>2, <2>3 DEF WatchKept
<1>4. CASE RefreshTime
  <2>1. /\ pc = "loop" /\ pc' = "loop" /\ UNCHANGED <<nvs, rtc, espTimer, wakeAt, hold, h>>
    BY <1>4 DEF RefreshTime, AtHome, InMenu
  <2>2. /\ g'.LDRFlag = g.LDRFlag /\ g'.ramCounter = g.ramCounter
        /\ g'.lastMove = g.lastMove /\ g'.t_now = rtc.now /\ g'.manualFlag = g.manualFlag
        /\ g'.errorFlag = g.errorFlag
    BY <1>0, <1>4 DEF RefreshTime, Globals
  <2> QED
    BY <2>1, <2>2 DEF WatchKept
<1>5. ASSUME NEW p \in Goals, ManualMove(p)
      PROVE  /\ pc = "loop" /\ pc' = "move" /\ UNCHANGED <<nvs, rtc, espTimer, wakeAt, hold>>
             /\ g'.LDRFlag = g.LDRFlag /\ g'.ramCounter = g.ramCounter
             /\ g'.lastMove = g.lastMove /\ g'.t_now = rtc.now /\ g'.manualFlag
             /\ h'.positives = h.positives /\ h'.lastLight = h.lastLight
             /\ h'.cause = "manual"
  BY <1>0, <1>5 DEF ManualMove, AtHome, InMenu, Globals, Histories
<1>6. CASE ManualExit
  <2>1. /\ pc = "loop" /\ pc' = "status" /\ UNCHANGED <<nvs, rtc, espTimer, wakeAt, hold>>
    BY <1>6 DEF ManualExit, AtHome, InMenu
  <2>2. /\ g'.LDRFlag = g.LDRFlag /\ g'.ramCounter = g.ramCounter
        /\ g'.lastMove = g.lastMove /\ g'.t_now = rtc.now
    BY <1>0, <1>6 DEF ManualExit, Globals
  <2>3. h'.positives = h.positives /\ h'.lastLight = h.lastLight /\ h'.manual = "no"
    BY <1>0, <1>6 DEF ManualExit, Histories
  <2> QED
    BY <2>1, <2>2, <2>3 DEF WatchKept
<1>7. ASSUME NEW o, NEW c, SaveAlarms(o, c)
      PROVE  /\ pc = "loop" /\ pc' = "status" /\ UNCHANGED <<g, rtc, espTimer, wakeAt, hold>>
             /\ h'.positives = h.positives /\ h'.lastLight = h.lastLight
             /\ h'.manual = h.manual /\ nvs'.lastMove = nvs.lastMove
  BY <1>0, <1>7 DEF SaveAlarms, AtHome, InMenu, Histories, Stores
<1>8. CASE \E p \in Goals : ManualMove(p)
  BY <1>5, <1>8 DEF WatchKept
<1>9. CASE \E o, c : SaveAlarms(o, c)
  BY <1>7, <1>9 DEF WatchKept
<1> QED
  BY <1>1, <1>2, <1>3, <1>4, <1>6, <1>8, <1>9 DEF MenuStep

(* Page 700 sleeps with the flags and the timer as they are. *)
LEMMA ResetEffect ==
  ASSUME Kinds, ResetSleep
  PROVE  /\ pc = "loop" /\ g.errorFlag = "NO_ERROR" /\ nvs' = nvs
         /\ pc' = "asleep" /\ espTimer' = 0
         /\ RamLDR' = g.LDRFlag /\ RamCounter' \in Nat /\ RamCounter' <= g.ramCounter
         /\ rtc'.now = rtc.now /\ rtc'.alarm = rtc.alarm
         /\ wakeAt' = (IF espTimer = 0 THEN 0 ELSE rtc.now + espTimer)
         /\ (hold \/ g.manualFlag => hold')
         /\ h'.positives = h.positives /\ h'.lastLight = h.lastLight
         /\ h'.manual = h.manual /\ h'.reset = TRUE
<1>0. /\ g \in Globals /\ h \in Histories /\ rtc \in Clocks /\ espTimer \in Nat
      /\ hold \in BOOLEAN
  BY DEF Kinds
<1> DEFINE x == [g EXCEPT !.led = LoopLed]
<1>1. /\ pc = "loop" /\ g.errorFlag = "NO_ERROR" /\ nvs' = nvs
      /\ DeepSleep(x, rtc, espTimer) /\ h' = [h EXCEPT !.reset = TRUE]
  BY DEF ResetSleep, AtHome, InMenu
<1>2. /\ x \in Globals /\ x.LDRFlag = g.LDRFlag /\ x.ramCounter = g.ramCounter
      /\ g.manualFlag => x.led = "high"
  BY <1>0, LoopLedFacts DEF LoopLed
<1> HIDE DEF x
<1>3. /\ pc' = "asleep" /\ espTimer' = 0 /\ rtc' \in Clocks
      /\ RamLDR' = g.LDRFlag /\ RamCounter' <= g.ramCounter
      /\ rtc'.now = rtc.now /\ rtc'.alarm = rtc.alarm
      /\ wakeAt' = (IF espTimer = 0 THEN 0 ELSE rtc.now + espTimer)
      /\ (hold \/ g.manualFlag => hold')
  BY <1>0, <1>1, <1>2, SleepFacts
<1>4. /\ h'.positives = h.positives /\ h'.lastLight = h.lastLight
      /\ h'.manual = h.manual /\ h'.reset = TRUE
  BY <1>0, <1>1 DEF Histories
<1>5. RamCounter' \in Nat
  BY <1>3 DEF RamCounter, Clocks
<1> QED
  BY <1>1, <1>3, <1>4, <1>5

LEMMA TickEffect ==
  ASSUME Kinds, Tick
  PROVE  /\ pc \in {"off", "loop", "asleep"} /\ UNCHANGED <<pc, g, nvs, h>> /\ WatchKept
         /\ rtc.now \in Nat /\ rtc'.now = rtc.now + 1
<1>1. rtc \in Clocks /\ rtc.now \in Nat /\ rtc.now + 1 <= Horizon
  BY ClockAssumption DEF Tick, Kinds, Clocks
<1>2. rtc'.now = rtc.now + 1 /\ rtc'.alarm = rtc.alarm /\ rtc'.ram = rtc.ram
  BY <1>1, AdvanceFacts DEF Tick
<1> QED
  BY <1>1, <1>2 DEF Tick, WatchKept

LEMMA LossEffect ==
  ASSUME Kinds, PowerLoss
  PROVE  /\ pc' = "off" /\ espTimer' = 0 /\ wakeAt' = 0 /\ UNCHANGED <<nvs, rtc>>
         /\ h'.positives = h.positives /\ h'.lastLight = h.lastLight
         /\ h'.manual = "no"
<1>1. h \in Histories
  BY DEF Kinds
<1> QED
  BY <1>1 DEF PowerLoss, RamLost, Histories

(* The steps by the lemmas above. *)
LEMMA LoopKinds == Loop => MenuStep \/ ResetSleep
<1>1. ASSUME NEW days, NEW e, SaveOpening(days, e) PROVE MenuStep
  BY <1>1 DEF SaveOpening, MenuStep
<1>2. ASSUME NEW days, NEW e, SaveClosing(days, e) PROVE MenuStep
  BY <1>2 DEF SaveClosing, MenuStep
<1> QED
  BY <1>1, <1>2 DEF Loop, MenuStep
-----------------------------------------------------------------------------
(* The numbers of the watch. *)
Numbers ==
  /\ g.ramCounter \in Nat /\ RamCounter \in Nat /\ h.positives \in Nat
  /\ h.lastLight \in Int /\ g.lastMove \in Nat /\ nvs.lastMove \in Nat
  /\ g.t_now \in Nat /\ rtc.now \in Nat /\ espTimer \in Nat /\ wakeAt \in Nat
LEMMA NumbersAreTypes == (Kinds => Numbers) /\ (Kinds' => Numbers')
<1>1. Kinds => Numbers
  BY DebounceAssumption, ClockAssumption
     DEF Kinds, Numbers, Globals, Histories, Stores, Clocks, RamCounter
<1>2. Kinds' => Numbers'
  BY DebounceAssumption, ClockAssumption
     DEF Kinds, Numbers, Globals, Histories, Stores, Clocks, RamCounter
<1> QED
  BY <1>1, <1>2

(* The sleep timer.  It runs only in the menu, a deep sleep only with a     *)
(* clock alarm, and no timer is pending when light moves the door.          *)
TimerInv ==
  /\ pc \in {"off", "asleep", "ldr"} => espTimer = 0
  /\ wakeAt # 0 \/ espTimer # 0 \/ pc = "ldr" => rtc.alarm # NoAlarm
  /\ pc = "move" /\ h.cause = "light" => espTimer = 0
  /\ pc # "asleep" => wakeAt = 0

LEMMA TimerStep == TypeInv /\ TimerInv /\ [Next]_vars => TimerInv'
<1> SUFFICES ASSUME Kinds, TimerInv, [Next]_vars PROVE TimerInv'
  BY KindsAreTypes
<1>1. CASE WakeAlarm
  BY <1>1, WakeAlarmEffect DEF TimerInv, BootCopies
<1>2. CASE WakeTimer
  BY <1>2, WakeTimerEffect DEF TimerInv, BootCopies, TimerDue
<1>3. CASE WakeButton \/ PowerOn
  BY <1>3, WakeMenuEffect DEF TimerInv, BootCopies
<1>4. ASSUME NEW p \in Goals, WakeLongPress(p) PROVE TimerInv'
  BY <1>4, WakeLongPressEffect DEF TimerInv, BootCopies
<1>5. CASE SetupRest
  BY <1>5, SetupEffect DEF TimerInv
<1>6. ASSUME NEW mV \in Voltages, activateLDR(mV) PROVE TimerInv'
  BY <1>6, CheckEffect DEF TimerInv
<1>7. CASE activateLDRWrongFlag
  BY <1>7, WrongFlagEffect DEF TimerInv, WatchKept
<1>8. ASSUME NEW o, NEW took \in 0..MoveTicks, moveMotor(o, took) PROVE TimerInv'
  BY <1>8, MoveEffect DEF TimerInv, WatchKept
<1>9. ASSUME NEW r \in Readings, statusabfrageError(r) \/ statusabfrage(r) PROVE TimerInv'
  BY <1>9, StatusEffect DEF TimerInv, WatchKept
<1>10. ASSUME NEW mV \in Voltages, setNextOpeningAlarm(mV) \/ setNextClosingAlarm(mV)
       PROVE  TimerInv'
  BY <1>10, PlanEffect DEF TimerInv, PlanOutcome
<1>11. CASE MenuStep
  BY <1>11, MenuEffect DEF TimerInv, WatchKept
<1>12. CASE ResetSleep
  BY <1>12, ResetEffect DEF TimerInv
<1>13. CASE Tick
  BY <1>13, TickEffect DEF TimerInv, WatchKept
<1>14. CASE PowerLoss
  BY <1>14, LossEffect DEF TimerInv
<1>15. CASE UNCHANGED vars
  BY <1>15 DEF vars, TimerInv
<1> QED
  BY <1>1, <1>2, <1>3, <1>4, <1>5, <1>6, <1>7, <1>8, <1>9, <1>10, <1>11, <1>12,
     <1>13, <1>14, <1>15, LoopKinds DEF Next, Wake, Run

LEMMA AlwaysTimed == Spec => []TimerInv
<1>1. Init => TimerInv
  BY DEF Init, TimerInv
<1> QED
  BY <1>1, AlwaysTyped, TimerStep, PTL DEF Spec

(* A device that sleeps while it watches the light has the timer and the    *)
(* clock's alarm that end the sleep, unless page 700 sent it to sleep.      *)
LEMMA WatchStep ==
  TypeInv /\ TypeInv' /\ TimerInv /\ LightWatchArmed /\ [Next]_vars => LightWatchArmed'
<1> SUFFICES ASSUME Kinds, Kinds', TimerInv, LightWatchArmed, [Next]_vars
             PROVE  LightWatchArmed'
  BY KindsAreTypes
<1>0. Numbers
  BY NumbersAreTypes
<1>a. pc' # "asleep" => LightWatchArmed'
  BY DEF LightWatchArmed
<1>1. CASE Wake
  BY <1>1, <1>a, WakeAlarmEffect, WakeTimerEffect, WakeMenuEffect, WakeLongPressEffect DEF Wake
<1>2. CASE SetupRest \/ activateLDRWrongFlag \/ MenuStep
  BY <1>2, <1>a, SetupEffect, WrongFlagEffect, MenuEffect
<1>3. ASSUME NEW o, NEW took \in 0..MoveTicks, moveMotor(o, took) PROVE LightWatchArmed'
  BY <1>3, <1>a, MoveEffect
<1>4. ASSUME NEW r \in Readings, statusabfrageError(r) \/ statusabfrage(r)
      PROVE  LightWatchArmed'
  BY <1>4, <1>a, StatusEffect
<1>5. ASSUME NEW mV \in Voltages, activateLDR(mV) PROVE LightWatchArmed'
  BY <1>0, <1>5, <1>a, CheckEffect DEF LightWatchArmed, TimerInv, Numbers
<1>6. ASSUME NEW mV \in Voltages, setNextOpeningAlarm(mV) \/ setNextClosingAlarm(mV)
      PROVE  LightWatchArmed'
  <2>1. PICK f, d : PlanOutcome(f, d)
    BY <1>6, PlanEffect
  <2> QED
    BY <1>0, <1>a, <2>1 DEF PlanOutcome, LightWatchArmed, Numbers, RamLDR
<1>7. CASE ResetSleep
  BY <1>7, ResetEffect DEF LightWatchArmed
<1>8. CASE Tick
  BY <1>8, TickEffect DEF WatchKept, LightWatchArmed
<1>9. CASE PowerLoss
  BY <1>9, <1>a, LossEffect
<1>10. CASE UNCHANGED vars
  BY <1>10 DEF vars, LightWatchArmed
<1> QED
  BY <1>1, <1>2, <1>3, <1>4, <1>5, <1>6, <1>7, <1>8, <1>9, <1>10, LoopKinds DEF Next, Run

(* Whatever wakes the device and whatever the user saves, it never sleeps   *)
(* through a light that its flags say it waits for.                         *)
THEOREM LightWatchIsArmed == Spec => []LightWatchArmed
<1>1. Init => LightWatchArmed
  BY DEF Init, LightWatchArmed
<1> QED
  BY <1>1, AlwaysTyped, AlwaysTimed, WatchStep, PTL DEF Spec
-----------------------------------------------------------------------------
(* The debounce counter, wherever it is kept, never exceeds the number of   *)
(* positive checks in a row: in the RAM byte of a device that sleeps until  *)
(* its next check, and in the globals while a check runs or its timer does. *)
DebounceInv ==
  /\ pc = "asleep" /\ wakeAt # 0 /\ RamLDR \in Goals => RamCounter <= h.positives
  /\ (pc = "ldr" \/ espTimer # 0) /\ g.LDRFlag \in Goals => g.ramCounter <= h.positives
  /\ LightMoveDebounced
LEMMA DebounceStep ==
  TypeInv /\ TypeInv' /\ TimerInv /\ DebounceInv /\ [Next]_vars
    => DebounceInv'
<1> SUFFICES ASSUME Kinds, Kinds', TimerInv, DebounceInv, [Next]_vars
             PROVE  DebounceInv'
  BY KindsAreTypes
<1>0. Numbers /\ Numbers'
  BY NumbersAreTypes
<1>b. POS_BLOCKED \notin Goals
  BY DEF Goals, POS_UP, POS_DOWN, POS_BLOCKED
<1>1. CASE WakeAlarm
  BY <1>0, <1>1, <1>b, WakeAlarmEffect DEF DebounceInv, LightMoveDebounced, TimerInv, Numbers, BootCopies
<1>2. CASE WakeTimer
  BY <1>0, <1>2, <1>b, WakeTimerEffect DEF DebounceInv, LightMoveDebounced, TimerInv, Numbers, BootCopies, TimerDue
<1>3. CASE WakeButton \/ PowerOn
  BY <1>0, <1>3, <1>b, WakeMenuEffect DEF DebounceInv, LightMoveDebounced, TimerInv, Numbers, BootCopies
<1>4. ASSUME NEW p \in Goals, WakeLongPress(p) PROVE DebounceInv'
  BY <1>0, <1>4, <1>b, WakeLongPressEffect DEF DebounceInv, LightMoveDebounced, TimerInv, Numbers, BootCopies
<1>5. CASE SetupRest
  BY <1>0, <1>5, <1>b, SetupEffect DEF DebounceInv, LightMoveDebounced, TimerInv, Numbers
<1>6. ASSUME NEW mV \in Voltages, activateLDR(mV) PROVE DebounceInv'
  BY <1>0, <1>6, CheckEffect, DebounceAssumption
     DEF DebounceInv, LightMoveDebounced, TimerInv, Numbers
<1>7. CASE activateLDRWrongFlag
  BY <1>0, <1>7, <1>b, WrongFlagEffect DEF DebounceInv, LightMoveDebounced, TimerInv, Numbers, WatchKept
<1>8. ASSUME NEW o, NEW took \in 0..MoveTicks, moveMotor(o, took) PROVE DebounceInv'
  BY <1>0, <1>8, <1>b, MoveEffect DEF DebounceInv, LightMoveDebounced, TimerInv, Numbers, WatchKept
<1>9. ASSUME NEW r \in Readings, statusabfrageError(r) \/ statusabfrage(r)
      PROVE  DebounceInv'
  BY <1>0, <1>9, <1>b, StatusEffect DEF DebounceInv, LightMoveDebounced, TimerInv, Numbers, WatchKept
<1>10. ASSUME NEW mV \in Voltages, setNextOpeningAlarm(mV) \/ setNextClosingAlarm(mV)
       PROVE  DebounceInv'
  <2>1. PICK f, d : PlanOutcome(f, d)
    BY <1>10, PlanEffect
  <2> QED
    BY <1>0, <2>1, <1>b DEF DebounceInv, LightMoveDebounced, TimerInv, Numbers, PlanOutcome
<1>11. CASE MenuStep
  BY <1>0, <1>11, <1>b, MenuEffect DEF DebounceInv, LightMoveDebounced, TimerInv, Numbers, WatchKept
<1>12. CASE ResetSleep
  BY <1>0, <1>12, <1>b, ResetEffect DEF DebounceInv, LightMoveDebounced, TimerInv, Numbers
<1>13. CASE Tick
  BY <1>13, TickEffect DEF DebounceInv, LightMoveDebounced, WatchKept, RamLDR, RamCounter
<1>14. CASE PowerLoss
  BY <1>0, <1>14, <1>b, LossEffect DEF DebounceInv, LightMoveDebounced, TimerInv, Numbers
<1>15. CASE UNCHANGED vars
  BY <1>15 DEF vars, DebounceInv, LightMoveDebounced, RamLDR, RamCounter
<1> QED
  BY <1>1, <1>2, <1>3, <1>4, <1>5, <1>6, <1>7, <1>8, <1>9, <1>10, <1>11, <1>12,
     <1>13, <1>14, <1>15, LoopKinds DEF Next, Wake, Run

(* Light moves the door only after lux_debounce_number positive checks in a *)
(* row, whatever happens between them.                                      *)
THEOREM LightMovesAreDebounced == Spec => []LightMoveDebounced
<1>1. Init => DebounceInv
  BY DEF Init, DebounceInv, LightMoveDebounced
<1>2. DebounceInv => LightMoveDebounced
  BY DEF DebounceInv
<1> QED
  BY <1>1, <1>2, AlwaysTyped, AlwaysTimed, DebounceStep, PTL DEF Spec
-----------------------------------------------------------------------------
(* The manual mode that the user chose is remembered by manualFlag while    *)
(* the device is awake and by the held LED pad while it sleeps; as long as  *)
(* it is in force no pending timer goes with an LDRFlag that could move the *)
(* door.  On the way from an error to the error page manualFlag may be      *)
(* gone: the error is what keeps the door still then.                       *)
ManualInv ==
  h.manual = "yes" =>
    /\ pc # "off"
    /\ pc = "asleep" => hold /\ (wakeAt # 0 => RamLDR \notin Goals)
    /\ pc \in {"setup", "loop", "opening", "closing", "move"} => g.manualFlag
    /\ pc = "status" => g.manualFlag \/ g.errorFlag # "NO_ERROR"
    /\ pc = "ldr" => g.LDRFlag \notin Goals
    /\ pc \in {"setup", "loop", "opening", "closing"} => g.errorFlag = "NO_ERROR"
    /\ pc \in {"setup", "loop"} => g.LDRFlag \notin Goals \/ espTimer = 0
    /\ pc = "move" => h.cause # "light"
LEMMA ManualStep ==
  TypeInv /\ TypeInv' /\ TimerInv /\ ErrorInv /\ ManualInv /\ [Next]_vars
    => ManualInv'
<1> SUFFICES ASSUME Kinds, Kinds', TimerInv, ErrorInv, ManualInv, [Next]_vars
             PROVE  ManualInv'
  BY KindsAreTypes
<1>0. Numbers /\ Numbers'
  BY NumbersAreTypes
<1>b. POS_BLOCKED \notin Goals
  BY DEF Goals, POS_UP, POS_DOWN, POS_BLOCKED
<1>1. CASE WakeAlarm
  BY <1>0, <1>1, <1>b, WakeAlarmEffect DEF ManualInv, TimerInv, BootCopies
<1>2. CASE WakeTimer
  BY <1>0, <1>2, <1>b, WakeTimerEffect DEF ManualInv, TimerInv, BootCopies, TimerDue
<1>3. CASE WakeButton \/ PowerOn
  BY <1>3, <1>b, WakeMenuEffect DEF ManualInv, BootCopies, TimerInv, ErrorInv
<1>4. ASSUME NEW p \in Goals, WakeLongPress(p) PROVE ManualInv'
  BY <1>0, <1>4, <1>b, WakeLongPressEffect DEF ManualInv, TimerInv, BootCopies
<1>5. CASE SetupRest
  BY <1>0, <1>5, <1>b, SetupEffect DEF ManualInv, TimerInv
<1>6. ASSUME NEW mV \in Voltages, activateLDR(mV) PROVE ManualInv'
  BY <1>0, <1>6, <1>b, CheckEffect DEF ManualInv, TimerInv
<1>7. CASE activateLDRWrongFlag
  BY <1>0, <1>7, <1>b, WrongFlagEffect DEF ManualInv, TimerInv, WatchKept
<1>8. ASSUME NEW o, NEW took \in 0..MoveTicks, moveMotor(o, took) PROVE ManualInv'
  BY <1>0, <1>8, <1>b, MoveEffect DEF ManualInv, TimerInv, WatchKept
<1>9. ASSUME NEW r \in Readings, statusabfrageError(r) \/ statusabfrage(r)
      PROVE  ManualInv'
  BY <1>0, <1>9, <1>b, StatusEffect DEF ManualInv, TimerInv, WatchKept
<1>10. ASSUME NEW mV \in Voltages, setNextOpeningAlarm(mV) \/ setNextClosingAlarm(mV)
       PROVE  ManualInv'
  <2>1. PICK f, d : PlanOutcome(f, d)
    BY <1>10, PlanEffect
  <2> QED
    BY <1>0, <2>1, <1>b DEF ManualInv, TimerInv, PlanOutcome
<1>11. CASE MenuStep
  BY <1>0, <1>11, <1>b, MenuEffect DEF ManualInv, TimerInv, WatchKept
<1>12. CASE ResetSleep
  BY <1>0, <1>12, <1>b, ResetEffect DEF ManualInv, TimerInv
<1>13. CASE Tick
  BY <1>13, TickEffect DEF ManualInv, WatchKept, RamLDR
<1>14. CASE PowerLoss
  BY <1>0, <1>14, <1>b, LossEffect DEF ManualInv, TimerInv
<1>15. CASE UNCHANGED vars
  BY <1>15 DEF vars, ManualInv, RamLDR
<1> QED
  BY <1>1, <1>2, <1>3, <1>4, <1>5, <1>6, <1>7, <1>8, <1>9, <1>10, <1>11, <1>12,
     <1>13, <1>14, <1>15, LoopKinds DEF Next, Wake, Run

(* While the manual mode is in force light does not move the door.          *)
THEOREM ManualModeHoldsLight == Spec => []ManualHoldsLight
<1>1. Init => ManualInv /\ ErrorInv
  BY DEF Init, ManualInv, ErrorInv
<1>2. TypeInv /\ ManualInv => ManualHoldsLight
  BY KindsAreTypes DEF ManualInv, ManualHoldsLight, Kinds, Histories
<1> QED
  BY <1>1, <1>2, AlwaysTyped, AlwaysTimed, ErrorStep, ManualStep, PTL DEF Spec
-----------------------------------------------------------------------------
(* The pause between two moves by light.  The last one is not younger than  *)
(* the stored time of the last move, by which the next is planned; timers   *)
(* that may lead to a move by light end t_delta_min after it.               *)
SpacedInv ==
  /\ h.lastLight <= rtc.now /\ h.lastLight <= nvs.lastMove
  /\ Awake => /\ h.lastLight <= g.lastMove
              /\ h.lastLight <= g.t_now /\ g.t_now <= rtc.now
  /\ pc = "asleep" /\ wakeAt # 0 /\ RamLDR \in Goals =>
       h.lastLight + t_delta_min <= wakeAt
  /\ espTimer # 0 /\ g.LDRFlag \in Goals =>
       h.lastLight + t_delta_min <= rtc.now + espTimer
  /\ pc = "ldr" /\ g.LDRFlag \in Goals => h.lastLight + t_delta_min <= rtc.now
  /\ pc = "move" /\ h.cause = "light" => h.lastLight + t_delta_min <= rtc.now
  /\ pc = "ldr" \/ (pc = "move" /\ h.cause = "light") => g.t_now = rtc.now
LEMMA SpacedStep ==
  TypeInv /\ TypeInv' /\ TimerInv /\ SpacedInv /\ [Next]_vars
    => SpacedInv'
<1> SUFFICES ASSUME Kinds, Kinds', TimerInv, SpacedInv, [Next]_vars
             PROVE  SpacedInv'
  BY KindsAreTypes
<1>0. Numbers /\ Numbers'
  BY NumbersAreTypes
<1>b. POS_BLOCKED \notin Goals
  BY DEF Goals, POS_UP, POS_DOWN, POS_BLOCKED
<1>d. t_delta_min \in Nat
  BY DebounceAssumption
<1>1. CASE WakeAlarm
  BY <1>0, <1>1, <1>b, <1>d, WakeAlarmEffect DEF SpacedInv, TimerInv, Numbers, Awake, BootCopies
<1>2. CASE WakeTimer
  BY <1>0, <1>2, <1>b, <1>d, WakeTimerEffect DEF SpacedInv, TimerInv, Numbers, Awake, BootCopies, TimerDue
<1>3. CASE WakeButton \/ PowerOn
  BY <1>0, <1>3, <1>b, <1>d, WakeMenuEffect DEF SpacedInv, TimerInv, Numbers, Awake, BootCopies
<1>4. ASSUME NEW p \in Goals, WakeLongPress(p) PROVE SpacedInv'
  BY <1>0, <1>4, <1>b, <1>d, WakeLongPressEffect DEF SpacedInv, TimerInv, Numbers, Awake, BootCopies
<1>5. CASE SetupRest
  BY <1>0, <1>5, <1>b, <1>d, SetupEffect DEF SpacedInv, TimerInv, Numbers, Awake
<1>6. ASSUME NEW mV \in Voltages, activateLDR(mV) PROVE SpacedInv'
  BY <1>0, <1>6, <1>b, <1>d, CheckEffect DEF SpacedInv, TimerInv, Numbers, Awake
<1>7. CASE activateLDRWrongFlag
  BY <1>0, <1>7, <1>b, <1>d, WrongFlagEffect DEF SpacedInv, TimerInv, Numbers, Awake, WatchKept
<1>8. ASSUME NEW o, NEW took \in 0..MoveTicks, moveMotor(o, took) PROVE SpacedInv'
  BY <1>0, <1>8, <1>b, <1>d, MoveEffect DEF SpacedInv, TimerInv, Numbers, Awake, WatchKept
<1>9. ASSUME NEW r \in Readings, statusabfrageError(r) \/ statusabfrage(r)
      PROVE  SpacedInv'
  BY <1>0, <1>9, <1>b, <1>d, StatusEffect DEF SpacedInv, TimerInv, Numbers, Awake, WatchKept
<1>10. ASSUME NEW mV \in Voltages, setNextOpeningAlarm(mV) \/ setNextClosingAlarm(mV)
       PROVE  SpacedInv'
  <2>1. PICK f, d : PlanOutcome(f, d)
    BY <1>10, PlanEffect
  <2> QED
    BY <1>0, <2>1, <1>b, <1>d DEF SpacedInv, TimerInv, Numbers, Awake, PlanOutcome
<1>11. CASE MenuStep
  BY <1>0, <1>11, <1>b, <1>d, MenuEffect DEF SpacedInv, TimerInv, Numbers, Awake, WatchKept
<1>12. CASE ResetSleep
  BY <1>0, <1>12, <1>b, <1>d, ResetEffect DEF SpacedInv, TimerInv, Numbers, Awake
<1>13. CASE Tick
  BY <1>0, <1>d, <1>13, TickEffect DEF SpacedInv, Awake, Numbers, WatchKept, RamLDR
<1>14. CASE PowerLoss
  BY <1>0, <1>14, <1>b, <1>d, LossEffect DEF SpacedInv, TimerInv, Numbers, Awake
<1>15. CASE UNCHANGED vars
  BY <1>15 DEF vars, SpacedInv, Awake, RamLDR
<1> QED
  BY <1>1, <1>2, <1>3, <1>4, <1>5, <1>6, <1>7, <1>8, <1>9, <1>10, <1>11, <1>12,
     <1>13, <1>14, <1>15, LoopKinds DEF Next, Wake, Run

(* Two moves by light are at least t_delta_min apart.                       *)
THEOREM LightMovesAreSpaced == Spec => []LightMovesSpaced
<1>1. Init => SpacedInv
  BY DEF Init, SpacedInv, Awake
<1>2. TypeInv /\ SpacedInv => LightMovesSpaced
  <2> SUFFICES ASSUME Kinds, SpacedInv PROVE LightMovesSpaced
    BY KindsAreTypes
  <2>1. h.lastLight \in Int /\ rtc.now \in Int /\ t_delta_min \in Int
    BY NumbersAreTypes, DebounceAssumption DEF Numbers
  <2> QED
    BY <2>1 DEF SpacedInv, LightMovesSpaced
<1> QED
  BY <1>1, <1>2, AlwaysTyped, AlwaysTimed, SpacedStep, PTL DEF Spec
-----------------------------------------------------------------------------
(* A check that completes the series was positive itself. *)
LEMMA LastCheckPositive ==
  ASSUME Kinds, NEW mV \in Voltages, activateLDR(mV), pc' = "move"
  PROVE  /\ Positive(g, VoltToLux(mV)) /\ goal' = g.LDRFlag
         /\ g'.nextLux = g.nextLux /\ h'.mV = mV
<1> DEFINE lux == VoltToLux(mV)
           n == Counted(g, lux)
           k == Series(lux, g, h.positives)
<1>0. g \in Globals /\ h \in Histories /\ g.ramCounter \in Nat
  BY NumbersAreTypes DEF Kinds, Numbers
<1>1. /\ DebounceDone(n) /\ goal' = g.LDRFlag
      /\ g' = [g EXCEPT !.ramCounter = 0]
      /\ h' = [h EXCEPT !.cause = "light", !.positives = k, !.mV = mV]
  BY DEF activateLDR, DeepSleep
<1> HIDE DEF lux, k
<1>2. g'.nextLux = g.nextLux /\ h'.mV = mV
  BY <1>0, <1>1 DEF Globals, Histories
<1>3. Positive(g, lux)
  BY <1>0, <1>1, DebounceAssumption DEF DebounceDone, Counted
<1> QED
  BY <1>1, <1>2, <1>3 DEF lux

LEMMA DarkStep == TypeInv /\ ClosesOnlyInTheDark /\ [Next]_vars => ClosesOnlyInTheDark'
<1> SUFFICES ASSUME Kinds, ClosesOnlyInTheDark, [Next]_vars PROVE ClosesOnlyInTheDark'
  BY KindsAreTypes
<1>a. ~(pc' = "move" /\ h'.cause = "light") => ClosesOnlyInTheDark'
  BY DEF ClosesOnlyInTheDark
<1>1. CASE Wake
  BY <1>1, <1>a, WakeAlarmEffect, WakeTimerEffect, WakeMenuEffect, WakeLongPressEffect DEF Wake
<1>2. CASE SetupRest \/ activateLDRWrongFlag \/ MenuStep \/ ResetSleep
  BY <1>2, <1>a, SetupEffect, WrongFlagEffect, MenuEffect, ResetEffect
<1>3. ASSUME NEW o, NEW took \in 0..MoveTicks, moveMotor(o, took) PROVE ClosesOnlyInTheDark'
  BY <1>3, <1>a, MoveEffect
<1>4. ASSUME NEW r \in Readings, statusabfrageError(r) \/ statusabfrage(r)
      PROVE  ClosesOnlyInTheDark'
  BY <1>4, <1>a, StatusEffect
<1>5. ASSUME NEW mV \in Voltages, activateLDR(mV) PROVE ClosesOnlyInTheDark'
  <2> SUFFICES ASSUME pc' = "move", goal' = POS_DOWN
               PROVE  Exceeded(h'.mV) - 1 <= g'.nextLux
    BY DEF ClosesOnlyInTheDark
  <2>1. /\ Positive(g, VoltToLux(mV)) /\ g.LDRFlag = POS_DOWN
        /\ g'.nextLux = g.nextLux /\ h'.mV = mV
    BY <1>5, LastCheckPositive
  <2>2. VoltToLux(mV) <= g.nextLux
    BY <2>1 DEF Positive
  <2>3. mV \in Nat /\ g.nextLux \in Int
    BY EntriesAssumption DEF Kinds, Globals
  <2>4. VoltToLux(mV) \in 0..9 /\ Exceeded(mV) - 1 <= VoltToLux(mV) /\ Exceeded(mV) \in Nat
    BY <2>3, LuxNotBelowBand
  <2> QED
    BY <2>1, <2>2, <2>3, <2>4
<1>6. ASSUME NEW mV \in Voltages, setNextOpeningAlarm(mV) \/ setNextClosingAlarm(mV)
      PROVE  ClosesOnlyInTheDark'
  BY <1>6, <1>a, PlanEffect DEF PlanOutcome
<1>7. CASE Tick
  BY <1>7, <1>a, TickEffect
<1>8. CASE PowerLoss
  BY <1>8, <1>a, LossEffect
<1>9. CASE UNCHANGED vars
  BY <1>9 DEF vars, ClosesOnlyInTheDark
<1> QED
  BY <1>1, <1>2, <1>3, <1>4, <1>5, <1>6, <1>7, <1>8, <1>9, LoopKinds DEF Next, Run

(* Light closes the door only if the voltage of the last check lies in or   *)
(* below the band of the level it is compared with: VoltToLux has no band   *)
(* for some voltages, and reports the brightest level for them.             *)
THEOREM LightClosesInTheDark == Spec => []ClosesOnlyInTheDark
<1>1. Init => ClosesOnlyInTheDark
  BY DEF Init, ClosesOnlyInTheDark
<1> QED
  BY <1>1, AlwaysTyped, DarkStep, PTL DEF Spec
=============================================================================
