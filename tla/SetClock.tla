------------------------------ MODULE SetClock ------------------------------
(***************************************************************************)
(* Setting the clock: timeUpdate, dateUpdate, saveTimeSetting and the      *)
(* values of pages 300 and 400, over the page transitions of Pages, while  *)
(* the clock runs.  The globals Hour, Minute, Date, Month and Year hold    *)
(* the time that is shown and the one that is edited.                      *)
(*                                                                         *)
(* The calendar is scaled: a month is Cut days shorter, a year has its     *)
(* first LastMonth months.  Alarms are not edited; their pages matter for  *)
(* the timeSetMode that they leave behind.                                 *)
(***************************************************************************)
EXTENDS Pages, FiniteSets

CONSTANTS
  Cut, LastMonth,        (* scale: 0 and 12 in the code                    *)
  YEAR_MIN, YEAR_MAX,    (* 2000 and 2099 in the code                      *)
  HOURS, MINUTES,        (* 24 and 60 in the code                          *)
  MaxEdits, MaxTicks     (* bounds: changes of a value, minutes that pass  *)

ASSUME CalendarAssumption ==
  /\ Cut \in 0..27 /\ LastMonth \in 1..12
  /\ YEAR_MIN \in Nat /\ YEAR_MAX \in Nat /\ YEAR_MIN <= YEAR_MAX
  /\ HOURS \in Nat \ {0} /\ MINUTES \in Nat \ {0}
  /\ MaxEdits \in Nat /\ MaxTicks \in Nat

VARIABLES
  s,                 (* the navigation state, see Pages                    *)
  rtc,               (* the clock: date, time, weekday register            *)
  cache,             (* the date in the library's copy of the registers    *)
  shown,             (* Year, Month, Date, Hour, Minute and DoW            *)
  maxDayThisMonth,
  menuRefreshFlag,
  (* History and bounds, read by no action of the code: *)
  midnight,          (* since page 300 last showed the running clock       *)
  edits, ticks

vars == <<s, rtc, cache, shown, maxDayThisMonth, menuRefreshFlag, midnight,
          edits, ticks>>
-----------------------------------------------------------------------------
(* The calendar of page 400, which is also the clock's for 2000 to 2099. *)
MaxDay(month, year) ==
  (CASE month \in {1, 3, 5, 7, 8, 10, 12} -> 31
     [] month = 2 -> IF year % 4 = 0 THEN 29 ELSE 28
     [] OTHER -> 30) - Cut

Years == YEAR_MIN..YEAR_MAX
Months == 1..LastMonth
Dates == [year : Years, month : Months, day : 1..(31 - Cut)]
Valid(d) == d.day <= MaxDay(d.month, d.year)
DateOf(t) == [year |-> t.year, month |-> t.month, day |-> t.day]

(* weekday(makeTime(...)), Sunday = 1, on the scaled calendar. *)
MonthStart ==
  [ym \in Years \X Months |->
     Cardinality({d \in Dates : /\ Valid(d)
                                /\ \/ d.year < ym[1]
                                   \/ d.year = ym[1] /\ d.month < ym[2]})]
weekday(d) == ((MonthStart[<<d.year, d.month>>] + d.day - 1) % 7) + 1

LastDay == [year |-> YEAR_MAX, month |-> LastMonth, day |-> MaxDay(LastMonth, YEAR_MAX)]
Tomorrow(d) ==
  CASE d.day < MaxDay(d.month, d.year) -> [d EXCEPT !.day = @ + 1]
    [] d.day >= MaxDay(d.month, d.year) /\ d.month < LastMonth ->
         [d EXCEPT !.day = 1, !.month = @ + 1]
    [] OTHER -> [year |-> d.year + 1, month |-> 1, day |-> 1]

(* The clock: at midnight the date and the weekday register move on, each   *)
(* for itself.                                                              *)
LastMinute(c) == c.hour = HOURS - 1 /\ c.minute = MINUTES - 1
Advance(c) ==
  IF LastMinute(c)
  THEN [date |-> Tomorrow(c.date), hour |-> 0, minute |-> 0,
        weekday |-> (c.weekday + 1) % 7]
  ELSE [c EXCEPT !.minute = (@ + 1) % MINUTES,
                 !.hour = IF c.minute = MINUTES - 1 THEN @ + 1 ELSE @]

(* One type invariant. *)
TypeOK ==
  /\ s \in States(0)
  /\ rtc \in [date : Dates, hour : 0..(HOURS - 1), minute : 0..(MINUTES - 1),
              weekday : 0..6]
  /\ cache \in Dates
  /\ shown \in [year : Years, month : Months, day : 1..(31 - Cut),
                hour : 0..(HOURS - 1), minute : 0..(MINUTES - 1), DoW : 1..7]
  /\ maxDayThisMonth \in 1..(31 - Cut) /\ menuRefreshFlag \in BOOLEAN
  /\ midnight \in BOOLEAN /\ edits \in 0..MaxEdits /\ ticks \in 0..MaxTicks
-----------------------------------------------------------------------------
(* makeLocalTime, called by both updates: the weekday of the globals' date. *)
makeLocalTime(t) == [t EXCEPT !.DoW = weekday(DateOf(t))]

(* timeUpdate reads the registers; the date goes to the library's copy c,   *)
(* from which dateUpdate takes it.                                          *)
timeUpdate(t) == makeLocalTime([t EXCEPT !.hour = rtc.hour, !.minute = rtc.minute])
dateUpdate(t, c) ==
  makeLocalTime([t EXCEPT !.year = c.year, !.month = c.month, !.day = c.day])

(* Mutant: page 300 does not update the time it shows. *)
ShowsClockAtHome(c) == c.menu_id = 0 \/ (c.menu_id = 400 /\ c.timeSetMode = "SETNOTHING")

(* The pages that update the time each time they are drawn or get a key. *)
ShowsClock(c) ==
  c.menu_id = 0 \/ (c.menu_id \in {300, 400} /\ c.timeSetMode = "SETNOTHING")

(* Mutant: the day is not brought into the month. *)
ClampedNever(t, c) == t

(* Page 400 brings the day into the month that it last computed. *)
Clamped(t, c) ==
  IF c.menu_id = 400 /\ c.timeSetMode # "SETDAY" /\ t.day > maxDayThisMonth
  THEN [t EXCEPT !.day = maxDayThisMonth] ELSE t

(* What menuFunctions does to the globals before it looks at the key. *)
Entered(c) ==
  Clamped(IF ShowsClock(c) THEN dateUpdate(timeUpdate(shown), rtc.date) ELSE shown, c)

(* Mutant: the largest value is passed. *)
StepTooFar(v, lo, hi, key) ==
  CASE key = "LEFT" -> IF v = lo THEN hi ELSE v - 1
    [] key = "RIGHT" -> IF v > hi THEN lo ELSE v + 1
    [] OTHER -> v

(* LEFT and RIGHT on the field that is edited. *)
Step(v, lo, hi, key) ==
  CASE key = "LEFT" -> IF v = lo THEN hi ELSE v - 1
    [] key = "RIGHT" -> IF v >= hi THEN lo ELSE v + 1
    [] OTHER -> v
Turned(t, c, key) ==
  IF ~(c.menu_id \in {300, 400} /\ Editing(c)) THEN t
  ELSE
  CASE c.timeSetMode = "SETHOUR" -> [t EXCEPT !.hour = Step(@, 0, HOURS - 1, key)]
    [] c.timeSetMode = "SETMINUTE" -> [t EXCEPT !.minute = Step(@, 0, MINUTES - 1, key)]
    [] c.timeSetMode = "SETDAY" -> [t EXCEPT !.day = Step(@, 1, maxDayThisMonth, key)]
    [] c.timeSetMode = "SETMONTH" -> [t EXCEPT !.month = Step(@, 1, LastMonth, key)]
    [] OTHER -> [t EXCEPT !.year = Step(@, YEAR_MIN, YEAR_MAX, key)]

(* Mutant: page 400 saves without updating the time. *)
CompletedNoTime(t, c) == IF c.menu_id = 300 THEN dateUpdate(t, cache) ELSE t

(* Before a save page 300 adds the date, page 400 the time of day. *)
Completed(t, c) == IF c.menu_id = 300 THEN dateUpdate(t, cache) ELSE timeUpdate(t)

(* Mutant: the weekday register is left as it is. *)
RegistersOldWeekday(t) ==
  [date |-> DateOf(t), hour |-> t.hour, minute |-> t.minute, weekday |-> rtc.weekday]

(* saveTimeSetting *)
Registers(t) ==
  [date |-> DateOf(t), hour |-> t.hour, minute |-> t.minute, weekday |-> t.DoW - 1]

(* The end of page 400. *)
NextMax(t, c) == IF c.menu_id = 400 THEN MaxDay(t.month, t.year) ELSE maxDayThisMonth
-----------------------------------------------------------------------------
Start(init) ==
  /\ s' = StartState(init)
  /\ shown' = dateUpdate(timeUpdate(shown), rtc.date) /\ cache' = rtc.date
  /\ maxDayThisMonth' = 31 - Cut /\ menuRefreshFlag' = TRUE

Init ==
  \E d \in {x \in Dates : Valid(x)}, init \in BOOLEAN :
    /\ s = StartState(init)
    /\ rtc = [date |-> d, hour |-> HOURS - 1, minute |-> MINUTES - 1,
              weekday |-> weekday(d) - 1]
    /\ cache = d
    /\ shown = [year |-> d.year, month |-> d.month, day |-> d.day,
                hour |-> HOURS - 1, minute |-> MINUTES - 1, DoW |-> weekday(d)]
    /\ maxDayThisMonth = 31 - Cut /\ menuRefreshFlag = TRUE
    /\ midnight = FALSE /\ edits = 0 /\ ticks = 0

ShowsRunningTime == s.menu_id = 300 /\ s.timeSetMode = "SETNOTHING"

(* menuFunctions with a key. *)
Key(key) ==
  LET e == Entered(s)
      t == Turned(e, s, key)
      saves == SavesClock(s, key)
      u == IF saves THEN Completed(t, s) ELSE t
      edit == IF t # e THEN 1 ELSE 0
  IN /\ ~menuRefreshFlag /\ ~(s.menu_id = 700 /\ key = "SELECT")
     /\ edits + edit <= MaxEdits /\ edits' = edits + edit
     /\ s' = Pressed(s, key, LICHT_ZEIT, 0)
     /\ shown' = u
     /\ rtc' = IF saves THEN Registers(u) ELSE rtc
     /\ cache' = CASE saves -> DateOf(u) [] ShowsClock(s) -> rtc.date [] OTHER -> cache
     /\ maxDayThisMonth' = NextMax(u, s)
     /\ menuRefreshFlag' = TRUE
     /\ midnight' = (midnight /\ ~ShowsRunningTime)
     /\ UNCHANGED ticks

(* menuFunctions without one: after each key, and twice a second on the     *)
(* pages that show the running clock.  Pages 003, 004, 900 lead home.       *)
Draw ==
  /\ menuRefreshFlag \/ s.menu_id = 0 \/ ShowsRunningTime
  /\ menuRefreshFlag' = FALSE
  /\ s' = IF s.menu_id \in ActingPages
          THEN To([s EXCEPT !.F_init_NOX = @ \/ s.menu_id = 900], 0) ELSE s
  /\ shown' = Entered(s)
  /\ cache' = IF ShowsClock(s) THEN rtc.date ELSE cache
  /\ maxDayThisMonth' = NextMax(shown', s)
  /\ midnight' = (midnight /\ ~ShowsRunningTime)
  /\ UNCHANGED <<rtc, edits, ticks>>

(* An error, on any page: page 002 until a key is pressed. *)
Error ==
  /\ s.menu_id # 2 /\ s' = To(s, 2)
  /\ UNCHANGED <<rtc, cache, shown, maxDayThisMonth, menuRefreshFlag, midnight,
                 edits, ticks>>

(* Sleep by inactivity or on page 700, and the next start. *)
Sleep ==
  /\ ~menuRefreshFlag /\ s.menu_id # 2
  /\ Start(s.F_init_NOX)
  /\ UNCHANGED <<rtc, midnight, edits, ticks>>

Tick ==
  /\ ticks < MaxTicks /\ ticks' = ticks + 1
  /\ ~(rtc.date = LastDay /\ LastMinute(rtc))
  /\ rtc' = Advance(rtc)
  /\ midnight' = (midnight \/ LastMinute(rtc))
  /\ UNCHANGED <<s, cache, shown, maxDayThisMonth, menuRefreshFlag, edits>>

Next ==
  \/ \E key \in BTNAction : Key(key)
  \/ Draw \/ Error \/ Sleep \/ Tick

Spec == Init /\ [][Next]_vars
-----------------------------------------------------------------------------
(* The clock never gets a date that does not exist, in whichever order day, *)
(* month and year are turned, whichever field EXIT saves from, and whatever *)
(* timeSetMode page 400 is entered with: the days of the month are computed *)
(* one key earlier than they are used.                                      *)
ClockHasADate == Valid(rtc.date)

(* The weekday register, which the alarms are matched with, is the weekday  *)
(* of the date: saveTimeSetting writes a weekday that was computed from the *)
(* edited date, not from the one before.                                    *)
WeekdayFitsDate == rtc.weekday = weekday(rtc.date) - 1

(* Saving the time of day leaves the date alone, unless midnight has passed *)
(* since the page showed the running clock: then the old date comes back.   *)
TimeSaveKeepsDate ==
  [][(s.menu_id = 300 /\ s' # s /\ ~midnight) => rtc'.date = rtc.date]_vars

(* Saving the date leaves the time of day alone, however long the editing   *)
(* has taken.                                                               *)
DateSaveKeepsTime ==
  [][(s.menu_id = 400 /\ s' # s) =>
       rtc'.hour = rtc.hour /\ rtc'.minute = rtc.minute]_vars
=============================================================================
