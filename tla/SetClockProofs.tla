--------------------------- MODULE SetClockProofs ---------------------------
(***************************************************************************)
(* Proofs about SetClock, for every scale of the calendar, 12 full months  *)
(* and a hundred years included: the date and the weekday that the clock   *)
(* is given, and what the two pages leave alone.                           *)
(***************************************************************************)
EXTENDS SetClock, PagesProofs, FiniteSetTheorems, FunctionTheorems

(* The calendar. *)
LEMMA MaxDayRange ==
  ASSUME NEW m, NEW y
  PROVE  MaxDay(m, y) \in 1..(31 - Cut)
<1> DEFINE n == CASE m \in {1, 3, 5, 7, 8, 10, 12} -> 31
                  [] m = 2 -> IF y % 4 = 0 THEN 29 ELSE 28
                  [] OTHER -> 30
<1>1. n \in {28, 29, 30, 31}
  OBVIOUS
<1>2. MaxDay(m, y) = n - Cut
  BY DEF MaxDay
<1> HIDE DEF n
<1> QED
  BY <1>1, <1>2, CalendarAssumption

(* The day after a date that exists is one that exists, and the first of a  *)
(* month after the last of the one before.                                  *)
LEMMA TomorrowFacts ==
  ASSUME NEW d \in Dates, Valid(d), d # LastDay
  PROVE  /\ Tomorrow(d) \in Dates /\ Valid(Tomorrow(d))
         /\ \/ /\ Tomorrow(d).day = d.day + 1
               /\ Tomorrow(d).month = d.month /\ Tomorrow(d).year = d.year
            \/ /\ d.day = MaxDay(d.month, d.year) /\ Tomorrow(d).day = 1
               /\ \/ /\ d.month + 1 \in Months /\ Tomorrow(d).month = d.month + 1
                     /\ Tomorrow(d).year = d.year
                  \/ /\ d.month = LastMonth /\ Tomorrow(d).month = 1
                     /\ d.year + 1 \in Years /\ Tomorrow(d).year = d.year + 1
<1>1. /\ d = [year |-> d.year, month |-> d.month, day |-> d.day]
      /\ d.year \in Years /\ d.month \in Months /\ d.day \in 1..(31 - Cut)
  BY DEF Dates
<1>2. MaxDay(d.month, d.year) \in 1..(31 - Cut) /\ d.day <= MaxDay(d.month, d.year)
  BY MaxDayRange DEF Valid
<1>3. CASE d.day < MaxDay(d.month, d.year)
  <2>1. Tomorrow(d) = [year |-> d.year, month |-> d.month, day |-> d.day + 1]
    <3>1. Tomorrow(d) = [d EXCEPT !.day = d.day + 1]
      BY <1>1, <1>2, <1>3, CalendarAssumption DEF Tomorrow
    <3> QED
      BY <3>1 DEF Dates
  <2>2. d.day + 1 \in 1..(31 - Cut) /\ d.day + 1 <= MaxDay(d.month, d.year)
    BY <1>1, <1>2, <1>3, CalendarAssumption
  <2> QED
    BY <1>1, <2>1, <2>2 DEF Dates, Valid
<1>4. CASE ~(d.day < MaxDay(d.month, d.year)) /\ d.month < LastMonth
  <2>1. Tomorrow(d) = [year |-> d.year, month |-> d.month + 1, day |-> 1]
    <3>1. Tomorrow(d) = [d EXCEPT !.day = 1, !.month = d.month + 1]
      BY <1>1, <1>2, <1>4, CalendarAssumption DEF Tomorrow
    <3> QED
      BY <3>1 DEF Dates
  <2>2. d.day = MaxDay(d.month, d.year) /\ d.month + 1 \in Months /\ 1 \in 1..(31 - Cut)
    BY <1>1, <1>2, <1>4, CalendarAssumption DEF Months
  <2>3. 1 <= MaxDay(d.month + 1, d.year)
    BY MaxDayRange, CalendarAssumption
  <2> QED
    BY <1>1, <2>1, <2>2, <2>3 DEF Dates, Valid
<1>5. CASE ~(d.day < MaxDay(d.month, d.year)) /\ ~(d.month < LastMonth)
  <2>1. Tomorrow(d) = [year |-> d.year + 1, month |-> 1, day |-> 1]
    BY <1>1, <1>2, <1>5, CalendarAssumption DEF Tomorrow
  <2>2. d.day = MaxDay(d.month, d.year) /\ d.month = LastMonth
    BY <1>1, <1>2, <1>5, CalendarAssumption DEF Months
  <2>3. d.year # YEAR_MAX
    BY <1>1, <2>2 DEF LastDay
  <2>4. d.year + 1 \in Years /\ 1 \in Months /\ 1 \in 1..(31 - Cut)
    BY <1>1, <2>3, CalendarAssumption DEF Years, Months
  <2>5. 1 <= MaxDay(1, d.year + 1)
    BY MaxDayRange, CalendarAssumption
  <2> QED
    BY <2>1, <2>2, <2>4, <2>5 DEF Dates, Valid
<1> QED
  BY <1>3, <1>4, <1>5
-----------------------------------------------------------------------------
(* The days before the first of a month, and the days of a month. *)
Before(y, m) ==
  {d \in Dates : Valid(d) /\ (d.year < y \/ (d.year = y /\ d.month < m))}
DaysOf(y, m) == {d \in Dates : Valid(d) /\ d.year = y /\ d.month = m}

LEMMA DatesAreFinite == IsFiniteSet(Dates)
<1> DEFINE D == 1..(31 - Cut)
           P == Years \X (Months \X D)
           f == [p \in P |-> [year |-> p[1], month |-> p[2][1], day |-> p[2][2]]]
<1>1. IsFiniteSet(Years) /\ IsFiniteSet(Months) /\ IsFiniteSet(D)
  BY FS_Interval, CalendarAssumption DEF Years, Months
<1>2. IsFiniteSet(P)
  BY <1>1, FS_Product
<1>3. f \in [P -> Dates]
  BY DEF Dates
<1>4. ASSUME NEW d \in Dates PROVE \E p \in P : f[p] = d
  <2>1. <<d.year, <<d.month, d.day>> >> \in P
    BY DEF Dates
  <2>2. f[<<d.year, <<d.month, d.day>> >>] = d
    BY <2>1 DEF Dates
  <2> QED
    BY <2>1, <2>2
<1>5. f \in Surjection(P, Dates)
  <2> HIDE DEF f, P
  <2> QED
    BY <1>3, <1>4 DEF Surjection
<1> HIDE DEF f, P
<1> QED
  BY <1>2, <1>5, FS_Surjection

LEMMA DaysOfCount ==
  ASSUME NEW y \in Years, NEW m \in Months
  PROVE  IsFiniteSet(DaysOf(y, m)) /\ Cardinality(DaysOf(y, m)) = MaxDay(m, y)
<1> DEFINE n == MaxDay(m, y)
           f == [k \in 1..n |-> [year |-> y, month |-> m, day |-> k]]
<1>1. n \in 1..(31 - Cut) /\ n \in Nat /\ n >= 1 /\ 1..n \subseteq 1..(31 - Cut)
  BY MaxDayRange, CalendarAssumption
<1>2. f \in [1..n -> DaysOf(y, m)]
  <2> SUFFICES ASSUME NEW k \in 1..n
               PROVE  [year |-> y, month |-> m, day |-> k] \in DaysOf(y, m)
    OBVIOUS
  <2>1. [year |-> y, month |-> m, day |-> k] \in Dates
    BY <1>1 DEF Dates
  <2>2. k <= MaxDay(m, y)
    BY <1>1
  <2> QED
    BY <2>1, <2>2 DEF DaysOf, Valid
<1>3. \A a, b \in 1..n : f[a] = f[b] => a = b
  <2> HIDE DEF n
  <2> QED
    OBVIOUS
<1>4. ASSUME NEW d \in DaysOf(y, m) PROVE \E k \in 1..n : f[k] = d
  <2>1. d \in Dates /\ d.day <= n /\ d.year = y /\ d.month = m
    BY DEF DaysOf, Valid
  <2>2. d = [year |-> y, month |-> m, day |-> d.day] /\ d.day \in 1..(31 - Cut)
    BY <2>1 DEF Dates
  <2>3. d.day \in 1..n
    BY <1>1, <2>1, <2>2, CalendarAssumption
  <2>4. f[d.day] = d
    BY <2>2, <2>3
  <2> QED
    BY <2>3, <2>4
<1>5. f \in Bijection(1..n, DaysOf(y, m))
  <2> HIDE DEF f, n
  <2> QED
    BY <1>2, <1>3, <1>4, Fun_IsBij
<1>6. IsFiniteSet(1..n) /\ Cardinality(1..n) = n
  <2> HIDE DEF n
  <2> QED
    BY <1>1, FS_Interval
<1> HIDE DEF f, n
<1>7. ExistsBijection(1..n, DaysOf(y, m))
  BY <1>5 DEF ExistsBijection
<1>8. IsFiniteSet(DaysOf(y, m)) /\ Cardinality(DaysOf(y, m)) = Cardinality(1..n)
  BY <1>6, <1>7, FS_Bijection
<1> QED
  BY <1>6, <1>8 DEF n

LEMMA MonthStartIs ==
  ASSUME NEW y \in Years, NEW m \in Months
  PROVE  /\ MonthStart[<<y, m>>] = Cardinality(Before(y, m))
         /\ IsFiniteSet(Before(y, m)) /\ MonthStart[<<y, m>>] \in Nat
<1>1. MonthStart[<<y, m>>] = Cardinality(Before(y, m))
  BY DEF MonthStart, Before
<1>2. Before(y, m) \in SUBSET Dates
  BY DEF Before
<1>3. IsFiniteSet(Before(y, m))
  BY <1>2, DatesAreFinite, FS_Subset
<1> QED
  BY <1>1, <1>3, FS_CardinalityType

(* The next month starts as many days later as the month has. *)
LEMMA NextMonthStart ==
  ASSUME NEW y \in Years, NEW m \in Months, NEW z \in Years, NEW n \in Months,
         \/ z = y /\ n = m + 1
         \/ z = y + 1 /\ m = LastMonth /\ n = 1
  PROVE  MonthStart[<<z, n>>] = MonthStart[<<y, m>>] + MaxDay(m, y)
<1>1. ASSUME NEW d \in Dates
      PROVE  (d.year < z \/ (d.year = z /\ d.month < n))
             <=> (d.year < y \/ (d.year = y /\ d.month < m) \/ (d.year = y /\ d.month = m))
  <2>1. d.year \in Years /\ d.month \in Months
    BY DEF Dates
  <2> QED
    BY <2>1, CalendarAssumption DEF Years, Months
<1>2. Before(z, n) = Before(y, m) \cup DaysOf(y, m)
  BY <1>1 DEF Before, DaysOf
<1>3. Before(y, m) \cap DaysOf(y, m) = {}
  <2> SUFFICES ASSUME NEW d \in Dates, d.year < y \/ (d.year = y /\ d.month < m),
                      d.year = y, d.month = m
               PROVE  FALSE
    BY DEF Before, DaysOf
  <2> QED
    BY CalendarAssumption DEF Years, Months
<1>4. /\ IsFiniteSet(Before(y, m)) /\ MonthStart[<<y, m>>] = Cardinality(Before(y, m))
      /\ MonthStart[<<y, m>>] \in Nat /\ MonthStart[<<z, n>>] = Cardinality(Before(z, n))
  BY MonthStartIs
<1>5. /\ IsFiniteSet(DaysOf(y, m)) /\ Cardinality(DaysOf(y, m)) = MaxDay(m, y)
      /\ MaxDay(m, y) \in Nat
  BY DaysOfCount, MaxDayRange, CalendarAssumption
<1>6. Cardinality(Before(z, n))
        = Cardinality(Before(y, m)) + Cardinality(DaysOf(y, m))
          - Cardinality(Before(y, m) \cap DaysOf(y, m))
  BY <1>2, <1>4, <1>5, FS_Union
<1>7. Cardinality(Before(y, m) \cap DaysOf(y, m)) = 0
  BY <1>3, FS_EmptySet
<1> QED
  BY <1>4, <1>5, <1>6, <1>7

(* The weekday of tomorrow is the next one: midnight moves date and weekday *)
(* register alike.                                                          *)
LEMMA WeekdayRange ==
  ASSUME NEW d \in Dates
  PROVE  weekday(d) \in 1..7
<1>1. d.year \in Years /\ d.month \in Months /\ d.day \in 1..(31 - Cut)
  BY DEF Dates
<1>2. MonthStart[<<d.year, d.month>>] \in Nat
  BY <1>1, MonthStartIs
<1> QED
  BY <1>1, <1>2, CalendarAssumption DEF weekday

LEMMA WeekdayOfTomorrow ==
  ASSUME NEW d \in Dates, Valid(d), d # LastDay
  PROVE  ((weekday(d) - 1) + 1) % 7 = weekday(Tomorrow(d)) - 1
<1> DEFINE t == Tomorrow(d)
           a == MonthStart[<<d.year, d.month>>]
           b == MonthStart[<<t.year, t.month>>]
<1>1. /\ d.year \in Years /\ d.month \in Months /\ d.day \in 1..(31 - Cut)
      /\ t.year \in Years /\ t.month \in Months /\ t.day \in 1..(31 - Cut)
  BY TomorrowFacts DEF Dates
<1>2. a \in Nat /\ b \in Nat
  BY <1>1, MonthStartIs
<1>3. b + t.day = a + d.day + 1
  <2>1. CASE t.day = d.day + 1 /\ t.month = d.month /\ t.year = d.year
    <3>1. a = b
      BY <2>1, Zenon
    <3> HIDE DEF a, b, t
    <3> QED
      BY <1>1, <1>2, <2>1, <3>1, CalendarAssumption
  <2>2. CASE /\ d.day = MaxDay(d.month, d.year) /\ t.day = 1
             /\ \/ d.month + 1 \in Months /\ t.month = d.month + 1 /\ t.year = d.year
                \/ d.month = LastMonth /\ t.month = 1 /\ d.year + 1 \in Years /\ t.year = d.year + 1
    <3>1. b = a + MaxDay(d.month, d.year)
      <4> HIDE DEF t
      <4> QED
        BY <1>1, <2>2, NextMonthStart
    <3> HIDE DEF a, b, t
    <3> QED
      BY <1>1, <1>2, <2>2, <3>1, CalendarAssumption
  <2> QED
    BY <2>1, <2>2, TomorrowFacts
<1>4. weekday(d) = ((a + d.day - 1) % 7) + 1 /\ weekday(t) = ((b + t.day - 1) % 7) + 1
  BY DEF weekday
<1> HIDE DEF a, b, t
<1>5. ASSUME NEW x \in Nat, weekday(d) = (x % 7) + 1, weekday(t) = ((x + 1) % 7) + 1
      PROVE  ((weekday(d) - 1) + 1) % 7 = weekday(t) - 1
  BY <1>5
<1>6. a + d.day - 1 \in Nat /\ b + t.day - 1 = (a + d.day - 1) + 1
  BY <1>1, <1>2, <1>3, CalendarAssumption
<1>7. ((weekday(d) - 1) + 1) % 7 = weekday(t) - 1
  BY <1>4, <1>5, <1>6
<1> QED
  BY <1>7 DEF t
-----------------------------------------------------------------------------
(* The globals that show and edit the time, and the functions on them. *)
Times == [year : Years, month : Months, day : 1..(31 - Cut),
          hour : 0..(HOURS - 1), minute : 0..(MINUTES - 1), DoW : 1..7]
Clocks == [date : Dates, hour : 0..(HOURS - 1), minute : 0..(MINUTES - 1), weekday : 0..6]

LEMMA DateOfTyped ==
  ASSUME NEW t \in Times
  PROVE  DateOf(t) \in Dates
  BY DEF Times, Dates, DateOf

LEMMA LocalTime ==
  ASSUME NEW t \in Times
  PROVE  LET u == makeLocalTime(t)
         IN /\ u \in Times /\ DateOf(u) = DateOf(t) /\ u.DoW = weekday(DateOf(t))
            /\ u.hour = t.hour /\ u.minute = t.minute
<1>1. weekday(DateOf(t)) \in 1..7
  BY DateOfTyped, WeekdayRange
<1> QED
  BY <1>1 DEF makeLocalTime, Times, DateOf

LEMMA TimeUpdated ==
  ASSUME NEW t \in Times, rtc \in Clocks
  PROVE  LET u == timeUpdate(t)
         IN /\ u \in Times /\ DateOf(u) = DateOf(t) /\ u.DoW = weekday(DateOf(u))
            /\ u.hour = rtc.hour /\ u.minute = rtc.minute
<1> DEFINE v == [t EXCEPT !.hour = rtc.hour, !.minute = rtc.minute]
<1>1. v \in Times /\ DateOf(v) = DateOf(t) /\ v.hour = rtc.hour /\ v.minute = rtc.minute
  BY DEF Times, Clocks, DateOf
<1>2. timeUpdate(t) = makeLocalTime(v)
  BY DEF timeUpdate
<1> HIDE DEF v
<1> QED
  BY <1>1, <1>2, LocalTime

LEMMA DateUpdated ==
  ASSUME NEW t \in Times, NEW c \in Dates
  PROVE  LET u == dateUpdate(t, c)
         IN /\ u \in Times /\ DateOf(u) = c /\ u.DoW = weekday(DateOf(u))
            /\ u.hour = t.hour /\ u.minute = t.minute
<1> DEFINE v == [t EXCEPT !.year = c.year, !.month = c.month, !.day = c.day]
<1>1. v \in Times /\ DateOf(v) = c /\ v.hour = t.hour /\ v.minute = t.minute
  BY DEF Times, Dates, DateOf
<1>2. dateUpdate(t, c) = makeLocalTime(v)
  BY DEF dateUpdate
<1> HIDE DEF v
<1> QED
  BY <1>1, <1>2, LocalTime

(* Clamping leaves a date that exists, and makes one of any other if the    *)
(* length of its month is known.                                            *)
LEMMA ClampedFacts ==
  ASSUME NEW t \in Times, NEW c, maxDayThisMonth \in 1..(31 - Cut)
  PROVE  LET u == Clamped(t, c)
         IN /\ u \in Times /\ u.year = t.year /\ u.month = t.month
            /\ u.hour = t.hour /\ u.minute = t.minute
            /\ ~(c.menu_id = 400 /\ c.timeSetMode # "SETDAY") => u = t
            /\ Valid(DateOf(t)) => Valid(DateOf(u))
            /\ /\ c.menu_id = 400 /\ c.timeSetMode # "SETDAY"
               /\ maxDayThisMonth = MaxDay(t.month, t.year)
               => Valid(DateOf(u))
<1> DEFINE v == [t EXCEPT !.day = maxDayThisMonth]
<1>1. /\ v \in Times /\ v.year = t.year /\ v.month = t.month /\ v.day = maxDayThisMonth
      /\ v.hour = t.hour /\ v.minute = t.minute
  BY DEF Times
<1>2. t.day \in Int /\ maxDayThisMonth \in Int /\ MaxDay(t.month, t.year) \in Int
  BY MaxDayRange, CalendarAssumption DEF Times
<1>3. /\ Valid(DateOf(t)) <=> t.day <= MaxDay(t.month, t.year)
      /\ Valid(DateOf(v)) <=> maxDayThisMonth <= MaxDay(t.month, t.year)
  BY <1>1 DEF Valid, DateOf
<1>4. Clamped(t, c) = IF c.menu_id = 400 /\ c.timeSetMode # "SETDAY" /\ t.day > maxDayThisMonth
                      THEN v ELSE t
  BY DEF Clamped
<1> HIDE DEF v
<1>5. CASE c.menu_id = 400 /\ c.timeSetMode # "SETDAY" /\ t.day > maxDayThisMonth
  <2>1. Clamped(t, c) = v
    BY <1>4, <1>5
  <2>2. Valid(DateOf(t)) => Valid(DateOf(v))
    BY <1>2, <1>3, <1>5
  <2>3. maxDayThisMonth = MaxDay(t.month, t.year) => Valid(DateOf(v))
    BY <1>2, <1>3
  <2> QED
    BY <1>1, <1>5, <2>1, <2>2, <2>3
<1>6. CASE ~(c.menu_id = 400 /\ c.timeSetMode # "SETDAY" /\ t.day > maxDayThisMonth)
  <2>1. Clamped(t, c) = t
    BY <1>4, <1>6
  <2>2. /\ c.menu_id = 400 /\ c.timeSetMode # "SETDAY"
        /\ maxDayThisMonth = MaxDay(t.month, t.year)
        => Valid(DateOf(t))
    BY <1>2, <1>3, <1>6
  <2> QED
    BY <2>1, <2>2
<1> QED
  BY <1>5, <1>6

(* What menuFunctions finds in the globals. *)
LEMMA EnteredFacts ==
  ASSUME shown \in Times, rtc \in Clocks, maxDayThisMonth \in 1..(31 - Cut), NEW c
  PROVE  /\ Entered(c) \in Times
         /\ ShowsClock(c) /\ c.menu_id # 400 => DateOf(Entered(c)) = rtc.date
         /\ ~ShowsClock(c) /\ c.menu_id # 400 => Entered(c) = shown
         /\ ~ShowsClock(c) /\ c.timeSetMode = "SETDAY" => Entered(c) = shown
         /\ ShowsClock(c) /\ Valid(rtc.date) => Valid(DateOf(Entered(c)))
         /\ ~ShowsClock(c) /\ Valid(DateOf(shown)) => Valid(DateOf(Entered(c)))
         /\ /\ ~ShowsClock(c) /\ c.menu_id = 400 /\ c.timeSetMode # "SETDAY"
            /\ maxDayThisMonth = MaxDay(shown.month, shown.year)
            => Valid(DateOf(Entered(c)))
<1> DEFINE b == IF ShowsClock(c) THEN dateUpdate(timeUpdate(shown), rtc.date) ELSE shown
<1>1. rtc.date \in Dates
  BY DEF Clocks
<1>2. /\ dateUpdate(timeUpdate(shown), rtc.date) \in Times
      /\ DateOf(dateUpdate(timeUpdate(shown), rtc.date)) = rtc.date
  BY <1>1, TimeUpdated, DateUpdated
<1>3. /\ b \in Times
      /\ ShowsClock(c) => DateOf(b) = rtc.date
      /\ ~ShowsClock(c) => b = shown
  BY <1>2
<1>4. Entered(c) = Clamped(b, c)
  BY DEF Entered
<1> HIDE DEF b
<1>5. LET u == Clamped(b, c)
      IN /\ u \in Times
         /\ ~(c.menu_id = 400 /\ c.timeSetMode # "SETDAY") => u = b
         /\ Valid(DateOf(b)) => Valid(DateOf(u))
         /\ /\ c.menu_id = 400 /\ c.timeSetMode # "SETDAY"
            /\ maxDayThisMonth = MaxDay(b.month, b.year)
            => Valid(DateOf(u))
  BY <1>3, ClampedFacts
<1> QED
  BY <1>3, <1>4, <1>5

LEMMA StepTyped ==
  ASSUME NEW lo \in Nat, NEW hi \in Nat, lo <= hi, NEW top \in Nat, hi <= top,
         NEW v \in lo..top, NEW key
  PROVE  Step(v, lo, hi, key) \in lo..top
  BY DEF Step

LEMMA StepBelow ==
  ASSUME NEW hi \in Nat, 1 <= hi, NEW v \in 1..hi, NEW key
  PROVE  Step(v, 1, hi, key) <= hi
  BY DEF Step

(* The fields that a key can turn. *)
LEMMA TurnedFacts ==
  ASSUME NEW t \in Times, NEW c, NEW key, maxDayThisMonth \in 1..(31 - Cut)
  PROVE  /\ Turned(t, c, key) \in Times
         /\ key \notin {"LEFT", "RIGHT"} => Turned(t, c, key) = t
         /\ ~(c.menu_id = 400 /\ Editing(c)) => DateOf(Turned(t, c, key)) = DateOf(t)
         /\ /\ c.menu_id = 400 /\ c.timeSetMode = "SETDAY" /\ Valid(DateOf(t))
            /\ maxDayThisMonth = MaxDay(t.month, t.year)
            => Valid(DateOf(Turned(t, c, key)))
<1>0. /\ t.year \in Years /\ t.month \in Months /\ t.day \in 1..(31 - Cut)
      /\ t.hour \in 0..(HOURS - 1) /\ t.minute \in 0..(MINUTES - 1)
  BY DEF Times
<1> DEFINE H == Step(t.hour, 0, HOURS - 1, key)
           M == Step(t.minute, 0, MINUTES - 1, key)
           D == Step(t.day, 1, maxDayThisMonth, key)
           O == Step(t.month, 1, LastMonth, key)
           Y == Step(t.year, YEAR_MIN, YEAR_MAX, key)
<1>1. H \in 0..(HOURS - 1) /\ M \in 0..(MINUTES - 1)
  BY <1>0, StepTyped, CalendarAssumption
<1>2. D \in 1..(31 - Cut)
  BY <1>0, StepTyped, CalendarAssumption
<1>3. O \in Months /\ Y \in Years
  BY <1>0, StepTyped, CalendarAssumption DEF Months, Years
<1>4. key \notin {"LEFT", "RIGHT"} =>
        H = t.hour /\ M = t.minute /\ D = t.day /\ O = t.month /\ Y = t.year
  BY DEF Step
<1>5. /\ t.day <= maxDayThisMonth /\ maxDayThisMonth = MaxDay(t.month, t.year)
      => D <= MaxDay(t.month, t.year)
  BY <1>0, StepBelow, CalendarAssumption
<1>6. Turned(t, c, key) =
        IF ~(c.menu_id \in {300, 400} /\ Editing(c)) THEN t
        ELSE CASE c.timeSetMode = "SETHOUR" -> [t EXCEPT !.hour = H]
               [] c.timeSetMode = "SETMINUTE" -> [t EXCEPT !.minute = M]
               [] c.timeSetMode = "SETDAY" -> [t EXCEPT !.day = D]
               [] c.timeSetMode = "SETMONTH" -> [t EXCEPT !.month = O]
               [] OTHER -> [t EXCEPT !.year = Y]
  BY DEF Turned
<1> HIDE DEF H, M, D, O, Y
<1>7. /\ [t EXCEPT !.hour = H] \in Times /\ [t EXCEPT !.minute = M] \in Times
      /\ [t EXCEPT !.day = D] \in Times /\ [t EXCEPT !.month = O] \in Times
      /\ [t EXCEPT !.year = Y] \in Times
  BY <1>1, <1>2, <1>3 DEF Times
<1>8. Turned(t, c, key) \in Times
  BY <1>6, <1>7
<1>9. key \notin {"LEFT", "RIGHT"} => Turned(t, c, key) = t
  <2> SUFFICES ASSUME key \notin {"LEFT", "RIGHT"} PROVE Turned(t, c, key) = t
    OBVIOUS
  <2>1. /\ [t EXCEPT !.hour = H] = t /\ [t EXCEPT !.minute = M] = t
        /\ [t EXCEPT !.day = D] = t /\ [t EXCEPT !.month = O] = t
        /\ [t EXCEPT !.year = Y] = t
    BY <1>4 DEF Times
  <2> QED
    BY <1>6, <2>1
<1>10. ~(c.menu_id = 400 /\ Editing(c)) => DateOf(Turned(t, c, key)) = DateOf(t)
  <2>1. /\ DateOf([t EXCEPT !.hour = H]) = DateOf(t)
        /\ DateOf([t EXCEPT !.minute = M]) = DateOf(t)
    BY DEF DateOf, Times
  <2>2. ~(c.menu_id = 400 /\ Editing(c)) =>
          \/ Turned(t, c, key) = t
          \/ Turned(t, c, key) = [t EXCEPT !.hour = H]
          \/ Turned(t, c, key) = [t EXCEPT !.minute = M]
    BY <1>6 DEF Editing
  <2> QED
    BY <2>1, <2>2
<1>11. /\ c.menu_id = 400 /\ c.timeSetMode = "SETDAY" /\ Valid(DateOf(t))
       /\ maxDayThisMonth = MaxDay(t.month, t.year)
       => Valid(DateOf(Turned(t, c, key)))
  <2> SUFFICES ASSUME c.menu_id = 400, c.timeSetMode = "SETDAY", Valid(DateOf(t)),
                      maxDayThisMonth = MaxDay(t.month, t.year)
               PROVE  Valid(DateOf(Turned(t, c, key)))
    OBVIOUS
  <2>1. Turned(t, c, key) = [t EXCEPT !.day = D]
    BY <1>6 DEF Editing
  <2>2. t.day <= maxDayThisMonth
    BY DEF Valid, DateOf
  <2>3. DateOf([t EXCEPT !.day = D]) = [year |-> t.year, month |-> t.month, day |-> D]
    BY DEF DateOf, Times
  <2> QED
    BY <1>5, <2>1, <2>2, <2>3 DEF Valid
<1> QED
  BY <1>8, <1>9, <1>10, <1>11
-----------------------------------------------------------------------------
(* The types. *)
LEMMA Parts ==
  ASSUME TypeOK
  PROVE  /\ s \in States(0) /\ rtc \in Clocks /\ shown \in Times /\ cache \in Dates
         /\ maxDayThisMonth \in 1..(31 - Cut)
  BY DEF TypeOK, Clocks, Times

LEMMA RegistersTyped ==
  ASSUME NEW t \in Times
  PROVE  /\ Registers(t) \in Clocks /\ Registers(t).date = DateOf(t)
         /\ Registers(t).hour = t.hour /\ Registers(t).minute = t.minute
         /\ Registers(t).weekday = t.DoW - 1
<1>1. t.DoW - 1 \in 0..6 /\ t.hour \in 0..(HOURS - 1) /\ t.minute \in 0..(MINUTES - 1)
  BY DEF Times
<1> QED
  BY <1>1, DateOfTyped DEF Registers, Clocks

LEMMA NextMaxTyped ==
  ASSUME NEW t, NEW c, maxDayThisMonth \in 1..(31 - Cut)
  PROVE  NextMax(t, c) \in 1..(31 - Cut)
  BY MaxDayRange DEF NextMax

(* A key, seen from the globals and the clock. *)
Entering == Entered(s)
LEMMA KeyEffect ==
  ASSUME TypeOK, NEW key \in BTNAction, Key(key)
  PROVE  LET t == Turned(Entering, s, key)
         IN /\ ~menuRefreshFlag /\ menuRefreshFlag' = TRUE /\ ticks' = ticks
            /\ edits' \in 0..MaxEdits
            /\ midnight' = (midnight /\ ~ShowsRunningTime)
            /\ s' = Pressed(s, key, LICHT_ZEIT, 0) /\ s' \in States(0)
            /\ Entering \in Times /\ t \in Times /\ shown' \in Times
            /\ maxDayThisMonth' = NextMax(shown', s)
            /\ IF SavesClock(s, key)
               THEN /\ shown' = Completed(t, s) /\ rtc' = Registers(shown')
                    /\ cache' = DateOf(shown') /\ t = Entering
               ELSE /\ shown' = t /\ rtc' = rtc
                    /\ cache' = IF ShowsClock(s) THEN rtc.date ELSE cache
<1> DEFINE t == Turned(Entering, s, key)
           u == IF SavesClock(s, key) THEN Completed(t, s) ELSE t
           edit == IF t # Entering THEN 1 ELSE 0
<1>1. /\ ~menuRefreshFlag /\ menuRefreshFlag' = TRUE /\ ticks' = ticks
      /\ midnight' = (midnight /\ ~ShowsRunningTime)
      /\ s' = Pressed(s, key, LICHT_ZEIT, 0) /\ shown' = u
      /\ rtc' = (IF SavesClock(s, key) THEN Registers(u) ELSE rtc)
      /\ cache' = (CASE SavesClock(s, key) -> DateOf(u) [] ShowsClock(s) -> rtc.date
                     [] OTHER -> cache)
      /\ maxDayThisMonth' = NextMax(u, s)
      /\ edits + edit <= MaxEdits /\ edits' = edits + edit
  BY Zenon DEF Key, Entering
<1>2. s' \in States(0)
  <2>1. LICHT_ZEIT \in openingMode /\ 0 \in Nat
    BY DEF openingMode
  <2> QED
    BY <1>1, <2>1, Parts, PressedTyped
<1>3. Entering \in Times
  BY Parts, EnteredFacts DEF Entering
<1>4. t \in Times
  BY <1>3, Parts, TurnedFacts
<1>5. Completed(t, s) \in Times
  BY <1>4, Parts, TimeUpdated, DateUpdated DEF Completed
<1>6. edits' \in 0..MaxEdits
  <2>1. edit \in {0, 1} /\ edits \in 0..MaxEdits
    BY DEF TypeOK
  <2> HIDE DEF edit
  <2> QED
    BY <1>1, <2>1, CalendarAssumption
<1>7. SavesClock(s, key) => t = Entering /\ ~ShowsClock(s)
  <2>1. SavesClock(s, key) => key \notin {"LEFT", "RIGHT"} /\ ~ShowsClock(s)
    BY DEF SavesClock, ShowsClock, LastField
  <2> QED
    BY <1>3, <2>1, Parts, TurnedFacts
<1>8. shown' \in Times
  BY <1>1, <1>4, <1>5
<1> HIDE DEF t, edit
<1>9. IF SavesClock(s, key)
      THEN shown' = Completed(t, s) /\ rtc' = Registers(shown') /\ cache' = DateOf(shown')
      ELSE shown' = t /\ rtc' = rtc /\ cache' = IF ShowsClock(s) THEN rtc.date ELSE cache
  BY <1>1, <1>7
<1> QED
  BY <1>1, <1>2, <1>3, <1>4, <1>6, <1>7, <1>8, <1>9 DEF t

(* Drawing a page. *)
LEMMA DrawEffect ==
  ASSUME TypeOK, Draw
  PROVE  /\ menuRefreshFlag' = FALSE /\ UNCHANGED <<rtc, edits, ticks>>
         /\ midnight' = (midnight /\ ~ShowsRunningTime)
         /\ shown' = Entered(s) /\ shown' \in Times
         /\ cache' = (IF ShowsClock(s) THEN rtc.date ELSE cache)
         /\ maxDayThisMonth' = NextMax(shown', s)
         /\ s' \in States(0) /\ (s' = s \/ s'.menu_id = 0)
         /\ s.menu_id \notin ActingPages => s' = s
<1>1. /\ menuRefreshFlag' = FALSE /\ UNCHANGED <<rtc, edits, ticks>>
      /\ midnight' = (midnight /\ ~ShowsRunningTime)
      /\ shown' = Entered(s) /\ maxDayThisMonth' = NextMax(shown', s)
      /\ cache' = (IF ShowsClock(s) THEN rtc.date ELSE cache)
      /\ s' = IF s.menu_id \in ActingPages
              THEN To([s EXCEPT !.F_init_NOX = @ \/ s.menu_id = 900], 0) ELSE s
  BY DEF Draw
<1>2. Entered(s) \in Times
  BY Parts, EnteredFacts
<1>3. To([s EXCEPT !.F_init_NOX = @ \/ s.menu_id = 900], 0) \in States(0)
  <2>1. ASSUME NEW b \in BOOLEAN, NEW c \in States(0)
        PROVE  To([c EXCEPT !.F_init_NOX = b], 0) \in States(0)
    <3>1. [c EXCEPT !.F_init_NOX = b] \in States(0)
      BY DEF States
    <3>2. \A x \in States(0) : To(x, 0) \in States(0)
      BY DEF States, To, PageIds
    <3> QED
      BY <3>1, <3>2
  <2> DEFINE f == s.F_init_NOX \/ s.menu_id = 900
  <2>2. f \in BOOLEAN /\ s \in States(0)
    BY Parts
  <2>3. To([s EXCEPT !.F_init_NOX = @ \/ s.menu_id = 900], 0)
          = To([s EXCEPT !.F_init_NOX = f], 0)
    OBVIOUS
  <2> HIDE DEF f
  <2>4. To([s EXCEPT !.F_init_NOX = f], 0) \in States(0)
    BY <2>1, <2>2
  <2> QED
    BY <2>3, <2>4
<1>4. To([s EXCEPT !.F_init_NOX = @ \/ s.menu_id = 900], 0).menu_id = 0
  BY Parts DEF To, States
<1> QED
  BY <1>1, <1>2, <1>3, <1>4, Parts

(* The sleep and the start after it. *)
LEMMA SleepEffect ==
  ASSUME TypeOK, Sleep
  PROVE  /\ s' \in States(0) /\ s'.menu_id \in {0, 1} /\ shown' \in Times
         /\ DateOf(shown') = rtc.date /\ cache' = rtc.date
         /\ maxDayThisMonth' = 31 - Cut /\ menuRefreshFlag' = TRUE
         /\ UNCHANGED <<rtc, midnight, edits, ticks>>
<1>1. /\ s' = StartState(s.F_init_NOX) /\ cache' = rtc.date
      /\ shown' = dateUpdate(timeUpdate(shown), rtc.date)
      /\ maxDayThisMonth' = 31 - Cut /\ menuRefreshFlag' = TRUE
      /\ UNCHANGED <<rtc, midnight, edits, ticks>>
  BY DEF Sleep, Start
<1>2. s.F_init_NOX \in BOOLEAN /\ rtc.date \in Dates
  BY Parts DEF States, Clocks
<1>3. s' \in States(0) /\ s'.menu_id \in {0, 1}
  BY <1>1, <1>2, StartStateTyped DEF StartState
<1>4. shown' \in Times /\ DateOf(shown') = rtc.date
  BY <1>1, <1>2, Parts, TimeUpdated, DateUpdated
<1> QED
  BY <1>1, <1>3, <1>4

(* A minute. *)
LEMMA TickEffect ==
  ASSUME TypeOK, Tick, Valid(rtc.date)
  PROVE  /\ rtc' \in Clocks /\ ticks' \in 0..MaxTicks
         /\ IF LastMinute(rtc)
            THEN /\ rtc.date # LastDay /\ rtc'.date = Tomorrow(rtc.date)
                 /\ rtc'.weekday = (rtc.weekday + 1) % 7
            ELSE rtc'.date = rtc.date /\ rtc'.weekday = rtc.weekday
         /\ midnight' = (midnight \/ LastMinute(rtc))
         /\ UNCHANGED <<s, cache, shown, maxDayThisMonth, menuRefreshFlag, edits>>
<1>1. /\ ticks < MaxTicks /\ ticks' = ticks + 1 /\ rtc' = Advance(rtc)
      /\ ~(rtc.date = LastDay /\ LastMinute(rtc))
      /\ midnight' = (midnight \/ LastMinute(rtc))
      /\ UNCHANGED <<s, cache, shown, maxDayThisMonth, menuRefreshFlag, edits>>
  BY DEF Tick
<1>2. ticks' \in 0..MaxTicks
  <2>1. ticks \in 0..MaxTicks
    BY DEF TypeOK
  <2> QED
    BY <1>1, <2>1, CalendarAssumption
<1>3. /\ rtc.date \in Dates /\ rtc.hour \in 0..(HOURS - 1) /\ rtc.minute \in 0..(MINUTES - 1)
      /\ rtc.weekday \in 0..6
  BY Parts DEF Clocks
<1>4. CASE LastMinute(rtc)
  <2>1. rtc' = [date |-> Tomorrow(rtc.date), hour |-> 0, minute |-> 0,
                weekday |-> (rtc.weekday + 1) % 7]
    BY <1>1, <1>4 DEF Advance
  <2>2. rtc.date # LastDay /\ Tomorrow(rtc.date) \in Dates
    BY <1>1, <1>3, <1>4, TomorrowFacts
  <2>3. (rtc.weekday + 1) % 7 \in 0..6 /\ 0 \in 0..(HOURS - 1) /\ 0 \in 0..(MINUTES - 1)
    BY <1>3, CalendarAssumption
  <2> QED
    BY <1>1, <1>2, <1>4, <2>1, <2>2, <2>3 DEF Clocks
<1>5. CASE ~LastMinute(rtc)
  <2> DEFINE m == (rtc.minute + 1) % MINUTES
             o == IF rtc.minute = MINUTES - 1 THEN rtc.hour + 1 ELSE rtc.hour
  <2>1. rtc' = [rtc EXCEPT !.minute = m, !.hour = o]
    BY <1>1, <1>5 DEF Advance
  <2>2. m \in 0..(MINUTES - 1)
    BY <1>3, CalendarAssumption
  <2>3. o \in 0..(HOURS - 1)
    BY <1>3, <1>5, CalendarAssumption DEF LastMinute
  <2> HIDE DEF m, o
  <2>4. rtc' \in Clocks /\ rtc'.date = rtc.date /\ rtc'.weekday = rtc.weekday
    BY <2>1, <2>2, <2>3, Parts DEF Clocks
  <2> QED
    BY <1>1, <1>2, <1>5, <2>4
<1> QED
  BY <1>4, <1>5
-----------------------------------------------------------------------------
(* ClockHasADate is not inductive.  Between the key that turns month or     *)
(* year and the next drawing the globals may hold a date that does not      *)
(* exist: then the length of its month has just been computed, and drawing  *)
(* page 400 brings the day into it.  Only an error can come in between, and *)
(* its page leads to page 0, which shows the clock.                         *)
ShownValid == Valid(DateOf(shown))
MaxKnown == maxDayThisMonth = MaxDay(shown.month, shown.year)
Unclamped ==
  /\ menuRefreshFlag /\ MaxKnown
  /\ s.menu_id = 400 /\ s.timeSetMode \in {"SETMONTH", "SETYEAR"}
DateInv ==
  /\ Valid(rtc.date) /\ Valid(cache)
  /\ ShownValid \/ s.menu_id = 2 \/ (menuRefreshFlag /\ s.menu_id = 0) \/ Unclamped
  /\ s.menu_id = 400 /\ ~menuRefreshFlag => MaxKnown

(* The end of page 400 computes the length of the month it leaves. *)
LEMMA MaxIsKnown ==
  ASSUME s.menu_id = 400, maxDayThisMonth' = NextMax(shown', s)
  PROVE  MaxKnown'
  BY DEF MaxKnown, NextMax

LEMMA TypedAndDated ==
  TypeOK /\ DateInv /\ [Next]_vars => TypeOK' /\ DateInv'
<1> SUFFICES ASSUME TypeOK, DateInv, [Next]_vars PROVE TypeOK' /\ DateInv'
  OBVIOUS
<1>0. /\ edits \in 0..MaxEdits /\ ticks \in 0..MaxTicks /\ midnight \in BOOLEAN
      /\ menuRefreshFlag \in BOOLEAN /\ rtc.date \in Dates
  BY Parts DEF TypeOK, Clocks
<1>t. ASSUME s' \in States(0), rtc' \in Clocks, cache' \in Dates, shown' \in Times,
             maxDayThisMonth' \in 1..(31 - Cut), menuRefreshFlag' \in BOOLEAN,
             midnight' \in BOOLEAN, edits' \in 0..MaxEdits, ticks' \in 0..MaxTicks
      PROVE  TypeOK'
  BY <1>t DEF TypeOK, Clocks, Times
<1>1. ASSUME NEW key \in BTNAction, Key(key) PROVE TypeOK' /\ DateInv'
  <2> DEFINE t == Turned(Entering, s, key)
  <2>1. /\ ~menuRefreshFlag /\ menuRefreshFlag' = TRUE /\ ticks' = ticks
        /\ edits' \in 0..MaxEdits /\ midnight' = (midnight /\ ~ShowsRunningTime)
        /\ s' = Pressed(s, key, LICHT_ZEIT, 0) /\ s' \in States(0)
        /\ Entering \in Times /\ t \in Times /\ shown' \in Times
        /\ maxDayThisMonth' = NextMax(shown', s)
        /\ SavesClock(s, key) =>
             /\ shown' = Completed(t, s) /\ rtc' = Registers(shown')
             /\ cache' = DateOf(shown') /\ t = Entering
        /\ ~SavesClock(s, key) =>
             /\ shown' = t /\ rtc' = rtc
             /\ cache' = IF ShowsClock(s) THEN rtc.date ELSE cache
    BY <1>1, KeyEffect
  <2> HIDE DEF t
  <2>2. midnight' \in BOOLEAN /\ menuRefreshFlag' \in BOOLEAN /\ ticks' \in 0..MaxTicks
    BY <1>0, <2>1
  <2>3. maxDayThisMonth' \in 1..(31 - Cut)
    BY <2>1, Parts, NextMaxTyped
  <2>4. CASE SavesClock(s, key)
    <3>1. rtc' \in Clocks /\ cache' \in Dates /\ rtc'.date = DateOf(shown')
      BY <2>1, <2>4, RegistersTyped, DateOfTyped
    <3>2. s.menu_id \in {300, 400} /\ ~ShowsClock(s)
      BY <2>4 DEF SavesClock, ShowsClock, LastField
    <3>3. ShownValid
      BY <2>1, <3>2 DEF DateInv, Unclamped
    <3>4. Valid(DateOf(Entering))
      BY <3>2, <3>3, Parts, EnteredFacts DEF ShownValid, Entering
    <3>5. Valid(DateOf(shown'))
      <4>1. CASE s.menu_id = 300
        <5>1. shown' = dateUpdate(t, cache)
          BY <2>1, <2>4, <4>1 DEF Completed
        <5>2. DateOf(shown') = cache
          BY <2>1, <5>1, Parts, DateUpdated
        <5> QED
          BY <5>2 DEF DateInv
      <4>2. CASE s.menu_id = 400
        <5>1. shown' = timeUpdate(t)
          BY <2>1, <2>4, <4>2 DEF Completed
        <5>2. DateOf(shown') = DateOf(Entering)
          BY <2>1, <2>4, <5>1, Parts, TimeUpdated
        <5> QED
          BY <3>4, <5>2
      <4> QED
        BY <3>2, <4>1, <4>2
    <3>6. ShownValid' /\ Valid(rtc'.date) /\ Valid(cache')
      BY <2>1, <2>4, <3>1, <3>5 DEF ShownValid
    <3> QED
      BY <1>t, <2>1, <2>2, <2>3, <3>1, <3>6 DEF DateInv
  <2>5. CASE ~SavesClock(s, key)
    <3>1. rtc' = rtc /\ rtc' \in Clocks /\ cache' \in Dates /\ Valid(rtc'.date) /\ Valid(cache')
      BY <1>0, <2>1, <2>5, Parts DEF DateInv
    <3>2. CASE s.menu_id = 2
      <4>1. s' = ListedPage(s, key)
        BY <2>1, <3>2 DEF Pressed
      <4>2. ListedPage(s, key).menu_id = Arrow(s.menu_id)[key]
        BY Parts DEF ListedPage, To, States
      <4>3. s'.menu_id = 0
        BY <3>2, <4>1, <4>2 DEF Arrow, BTNAction
      <4> QED
        BY <1>t, <2>1, <2>2, <2>3, <3>1, <4>3 DEF DateInv
    <3>3. CASE s.menu_id # 2
      <4>1. ShownValid
        BY <2>1, <3>3 DEF DateInv, Unclamped
      <4>2. Valid(DateOf(Entering))
        BY <4>1, Parts, EnteredFacts DEF ShownValid, Entering, DateInv
      <4>3. CASE ~(s.menu_id = 400 /\ Editing(s))
        <5>1. DateOf(shown') = DateOf(Entering)
          BY <2>1, <2>5, <4>3, Parts, TurnedFacts DEF t
        <5>2. ShownValid'
          BY <4>2, <5>1 DEF ShownValid
        <5> QED
          BY <1>t, <2>1, <2>2, <2>3, <3>1, <5>2 DEF DateInv
      <4>4. CASE s.menu_id = 400 /\ s.timeSetMode = "SETDAY"
        <5>1. Entering = shown
          BY <4>4, Parts, EnteredFacts DEF Entering, ShowsClock
        <5>2. maxDayThisMonth = MaxDay(shown.month, shown.year)
          BY <2>1, <4>4 DEF DateInv, MaxKnown
        <5>3. Valid(DateOf(t))
          BY <4>1, <4>4, <5>1, <5>2, Parts, TurnedFacts DEF t, ShownValid
        <5>4. ShownValid'
          BY <2>1, <2>5, <5>3 DEF ShownValid
        <5> QED
          BY <1>t, <2>1, <2>2, <2>3, <3>1, <5>4 DEF DateInv
      <4>5. CASE s.menu_id = 400 /\ s.timeSetMode \in {"SETMONTH", "SETYEAR"}
        <5>1. CASE key \in {"LEFT", "RIGHT"}
          <6>1. s' = s
            <7>1. Pressed(s, key, LICHT_ZEIT, 0) = ClockPage(s, key)
              BY <4>5 DEF Pressed
            <7>2. Editing(s) /\ ~SavesClock(s, key)
              BY <2>5, <4>5 DEF Editing
            <7>3. ClockPage(s, key) = s
              BY <5>1, <7>2 DEF ClockPage
            <7> QED
              BY <2>1, <7>1, <7>3
          <6>2. Unclamped'
            BY <2>1, <4>5, <6>1, MaxIsKnown DEF Unclamped
          <6> QED
            BY <1>t, <2>1, <2>2, <2>3, <3>1, <6>2 DEF DateInv
        <5>2. CASE key \notin {"LEFT", "RIGHT"}
          <6>1. DateOf(shown') = DateOf(Entering)
            BY <2>1, <2>5, <5>2, Parts, TurnedFacts DEF t
          <6>2. ShownValid'
            BY <4>2, <6>1 DEF ShownValid
          <6> QED
            BY <1>t, <2>1, <2>2, <2>3, <3>1, <6>2 DEF DateInv
        <5> QED
          BY <5>1, <5>2
      <4> QED
        BY <4>3, <4>4, <4>5 DEF Editing
    <3> QED
      BY <3>2, <3>3
  <2> QED
    BY <2>4, <2>5
<1>2. CASE Draw
  <2>1. /\ menuRefreshFlag' = FALSE /\ UNCHANGED <<rtc, edits, ticks>>
        /\ midnight' = (midnight /\ ~ShowsRunningTime)
        /\ shown' = Entered(s) /\ shown' \in Times
        /\ cache' = (IF ShowsClock(s) THEN rtc.date ELSE cache)
        /\ maxDayThisMonth' = NextMax(shown', s)
        /\ s' \in States(0) /\ (s' = s \/ s'.menu_id = 0)
        /\ s.menu_id \notin ActingPages => s' = s
    BY <1>2, DrawEffect
  <2>2. rtc' \in Clocks /\ cache' \in Dates /\ Valid(rtc'.date) /\ Valid(cache')
    BY <1>0, <2>1, Parts DEF DateInv
  <2>3. TypeOK'
    <3>1. midnight' \in BOOLEAN /\ menuRefreshFlag' \in BOOLEAN
      BY <1>0, <2>1
    <3>2. maxDayThisMonth' \in 1..(31 - Cut)
      BY <2>1, Parts, NextMaxTyped
    <3>3. edits' \in 0..MaxEdits /\ ticks' \in 0..MaxTicks
      BY <1>0, <2>1
    <3> QED
      BY <1>t, <2>1, <2>2, <3>1, <3>2, <3>3
  <2>4. s.menu_id # 2 => ShownValid'
    <3>1. CASE ShowsClock(s)
      BY <2>1, <3>1, Parts, EnteredFacts DEF ShownValid, DateInv
    <3>2. CASE ~ShowsClock(s) /\ ShownValid
      BY <2>1, <3>2, Parts, EnteredFacts DEF ShownValid
    <3>3. CASE ~ShowsClock(s) /\ s.menu_id # 2 /\ ~ShownValid
      <4>1. Unclamped
        BY <3>3 DEF DateInv, ShowsClock
      <4>2. /\ s.menu_id = 400 /\ s.timeSetMode # "SETDAY"
            /\ maxDayThisMonth = MaxDay(shown.month, shown.year)
        BY <4>1 DEF Unclamped, MaxKnown
      <4> QED
        BY <2>1, <3>3, <4>2, Parts, EnteredFacts DEF ShownValid
    <3> QED
      BY <3>1, <3>2, <3>3
  <2>5. s.menu_id = 2 => s'.menu_id = 2
    BY <2>1 DEF ActingPages
  <2>6. s'.menu_id = 400 => MaxKnown'
    BY <2>1, MaxIsKnown
  <2> QED
    BY <2>2, <2>3, <2>4, <2>5, <2>6 DEF DateInv
<1>3. CASE Error
  <2>1. /\ s' = To(s, 2)
        /\ UNCHANGED <<rtc, cache, shown, maxDayThisMonth, menuRefreshFlag, midnight,
                       edits, ticks>>
    BY <1>3 DEF Error
  <2>2. s'.menu_id = 2 /\ s' \in States(0)
    BY <2>1, Parts DEF To, States, PageIds
  <2> QED
    BY <2>1, <2>2 DEF TypeOK, DateInv
<1>4. CASE Sleep
  <2>1. /\ s' \in States(0) /\ s'.menu_id \in {0, 1} /\ shown' \in Times
        /\ DateOf(shown') = rtc.date /\ cache' = rtc.date
        /\ maxDayThisMonth' = 31 - Cut /\ menuRefreshFlag' = TRUE
        /\ UNCHANGED <<rtc, midnight, edits, ticks>>
    BY <1>4, SleepEffect
  <2>2. maxDayThisMonth' \in 1..(31 - Cut)
    BY <2>1, CalendarAssumption
  <2>3. TypeOK'
    BY <1>0, <2>1, <2>2 DEF TypeOK, Times
  <2>4. ShownValid' /\ Valid(rtc'.date) /\ Valid(cache') /\ s'.menu_id # 400
    BY <2>1 DEF ShownValid, DateInv
  <2> QED
    BY <2>3, <2>4 DEF DateInv
<1>5. CASE Tick
  <2>1. /\ rtc' \in Clocks /\ ticks' \in 0..MaxTicks
        /\ \/ rtc.date # LastDay /\ rtc'.date = Tomorrow(rtc.date)
           \/ rtc'.date = rtc.date
        /\ midnight' \in BOOLEAN
        /\ UNCHANGED <<s, cache, shown, maxDayThisMonth, menuRefreshFlag, edits>>
    BY <1>5, TickEffect DEF DateInv
  <2>2. Valid(rtc'.date)
    BY <1>0, <2>1, TomorrowFacts DEF DateInv
  <2>3. TypeOK'
    BY <2>1 DEF TypeOK, Clocks
  <2>4. (ShownValid' <=> ShownValid) /\ (MaxKnown' <=> MaxKnown) /\ (Unclamped' <=> Unclamped)
    BY <2>1 DEF ShownValid, MaxKnown, Unclamped
  <2> QED
    BY <2>1, <2>2, <2>3, <2>4 DEF DateInv
<1>6. CASE UNCHANGED vars
  <2>1. /\ (ShownValid' <=> ShownValid) /\ (MaxKnown' <=> MaxKnown)
        /\ (Unclamped' <=> Unclamped)
    BY <1>6 DEF vars, ShownValid, MaxKnown, Unclamped
  <2> QED
    BY <1>6, <2>1 DEF vars, TypeOK, DateInv
<1> QED
  BY <1>1, <1>2, <1>3, <1>4, <1>5, <1>6 DEF Next

LEMMA ClockInit == Init => TypeOK /\ DateInv /\ WeekdayFitsDate /\ cache = rtc.date
<1> SUFFICES ASSUME Init PROVE TypeOK /\ DateInv /\ WeekdayFitsDate /\ cache = rtc.date
  OBVIOUS
<1>1. PICK d \in {x \in Dates : Valid(x)}, init \in BOOLEAN :
        /\ s = StartState(init)
        /\ rtc = [date |-> d, hour |-> HOURS - 1, minute |-> MINUTES - 1,
                  weekday |-> weekday(d) - 1]
        /\ cache = d
        /\ shown = [year |-> d.year, month |-> d.month, day |-> d.day,
                    hour |-> HOURS - 1, minute |-> MINUTES - 1, DoW |-> weekday(d)]
        /\ maxDayThisMonth = 31 - Cut /\ menuRefreshFlag = TRUE
        /\ midnight = FALSE /\ edits = 0 /\ ticks = 0
  BY DEF Init
<1>2. d \in Dates /\ Valid(d) /\ weekday(d) \in 1..7
  BY WeekdayRange
<1>3. /\ HOURS - 1 \in 0..(HOURS - 1) /\ MINUTES - 1 \in 0..(MINUTES - 1)
      /\ 31 - Cut \in 1..(31 - Cut) /\ 0 \in 0..MaxEdits /\ 0 \in 0..MaxTicks
      /\ weekday(d) - 1 \in 0..6
  BY <1>2, CalendarAssumption
<1>4. s \in States(0)
  BY <1>1, StartStateTyped
<1>5. rtc \in Clocks /\ shown \in Times /\ cache \in Dates
  BY <1>1, <1>2, <1>3 DEF Clocks, Times, Dates
<1>6. TypeOK
  BY <1>1, <1>3, <1>4, <1>5 DEF TypeOK, Clocks, Times
<1>7. DateOf(shown) = d /\ s.menu_id # 400 /\ rtc.date = d
  BY <1>1, <1>2 DEF DateOf, Dates, StartState
<1>8. DateInv
  BY <1>1, <1>2, <1>7 DEF DateInv, ShownValid
<1>9. WeekdayFitsDate
  BY <1>1 DEF WeekdayFitsDate
<1> QED
  BY <1>1, <1>6, <1>7, <1>8, <1>9

(* Every reachable state is typed: no key turns a field out of its range,   *)
(* and the clock never runs past its last day.                              *)
THEOREM ClockTypes == Spec => []TypeOK
  BY ClockInit, TypedAndDated, PTL DEF Spec

(* The clock is never given a date that does not exist, on the whole        *)
(* calendar: 30 February cannot be put together from fields that are each   *)
(* legal.                                                                   *)
THEOREM DatesExist == Spec => []ClockHasADate
<1>1. DateInv => ClockHasADate
  BY DEF DateInv, ClockHasADate
<1> QED
  BY <1>1, ClockInit, TypedAndDated, PTL DEF Spec
-----------------------------------------------------------------------------
(* The weekday register. *)
LEMMA CompletedFits ==
  ASSUME NEW t \in Times, NEW c, rtc \in Clocks, cache \in Dates
  PROVE  Completed(t, c) \in Times /\ Completed(t, c).DoW = weekday(DateOf(Completed(t, c)))
  BY TimeUpdated, DateUpdated DEF Completed

LEMMA WeekdayStep ==
  TypeOK /\ DateInv /\ WeekdayFitsDate /\ [Next]_vars => WeekdayFitsDate'
<1> SUFFICES ASSUME TypeOK, DateInv, WeekdayFitsDate, [Next]_vars
             PROVE  rtc'.weekday = weekday(rtc'.date) - 1
  BY DEF WeekdayFitsDate
<1>0. rtc.weekday = weekday(rtc.date) - 1 /\ rtc.date \in Dates /\ Valid(rtc.date)
  BY Parts DEF WeekdayFitsDate, Clocks, DateInv
<1>1. ASSUME NEW key \in BTNAction, Key(key) PROVE rtc'.weekday = weekday(rtc'.date) - 1
  <2>1. CASE SavesClock(s, key)
    <3>1. PICK t \in Times : shown' = Completed(t, s) /\ rtc' = Registers(shown')
      BY <1>1, <2>1, KeyEffect
    <3>2. shown' \in Times /\ shown'.DoW = weekday(DateOf(shown'))
      BY <3>1, Parts, CompletedFits
    <3> QED
      BY <3>1, <3>2, RegistersTyped
  <2>2. CASE ~SavesClock(s, key)
    <3>1. rtc' = rtc
      BY <1>1, <2>2, KeyEffect
    <3> QED
      BY <1>0, <3>1
  <2> QED
    BY <2>1, <2>2
<1>2. CASE Draw \/ Error \/ Sleep \/ UNCHANGED vars
  <2>1. rtc' = rtc
    BY <1>2 DEF Draw, Error, Sleep, vars
  <2> QED
    BY <1>0, <2>1
<1>3. CASE Tick
  <2>1. \/ /\ rtc.date # LastDay /\ rtc'.date = Tomorrow(rtc.date)
           /\ rtc'.weekday = (rtc.weekday + 1) % 7
        \/ rtc'.date = rtc.date /\ rtc'.weekday = rtc.weekday
    BY <1>0, <1>3, TickEffect
  <2>2. rtc.date # LastDay =>
          ((weekday(rtc.date) - 1) + 1) % 7 = weekday(Tomorrow(rtc.date)) - 1
    BY <1>0, WeekdayOfTomorrow
  <2> QED
    BY <1>0, <2>1, <2>2
<1> QED
  BY <1>1, <1>2, <1>3 DEF Next

(* The weekday register always is the weekday of the date: over every       *)
(* midnight, end of month and end of year, and after every save.            *)
THEOREM WeekdaysFit == Spec => []WeekdayFitsDate
  BY ClockInit, TypedAndDated, WeekdayStep, PTL DEF Spec
-----------------------------------------------------------------------------
(* What page 300 saves is the library's copy of the date.  It is the date   *)
(* unless a midnight has passed since it was read.                          *)
CopyInv == midnight \/ cache = rtc.date

LEMMA CopyStep == TypeOK /\ DateInv /\ CopyInv /\ [Next]_vars => CopyInv'
<1> SUFFICES ASSUME TypeOK, DateInv, CopyInv, [Next]_vars PROVE CopyInv'
  OBVIOUS
<1>0. ASSUME midnight' = (midnight /\ ~ShowsRunningTime), rtc' = rtc,
             cache' = (IF ShowsClock(s) THEN rtc.date ELSE cache)
      PROVE  CopyInv'
  <2>1. ShowsRunningTime => ShowsClock(s)
    BY DEF ShowsRunningTime, ShowsClock
  <2>2. CASE ShowsClock(s)
    BY <1>0, <2>2 DEF CopyInv
  <2>3. CASE ~ShowsClock(s)
    <3>1. midnight' = midnight /\ cache' = cache
      BY <1>0, <2>1, <2>3 DEF TypeOK
    <3> QED
      BY <1>0, <3>1 DEF CopyInv
  <2> QED
    BY <2>2, <2>3
<1>1. ASSUME NEW key \in BTNAction, Key(key) PROVE CopyInv'
  <2>1. CASE SavesClock(s, key)
    <3>1. rtc' = Registers(shown') /\ cache' = DateOf(shown') /\ shown' \in Times
      BY <1>1, <2>1, KeyEffect
    <3>2. rtc'.date = DateOf(shown')
      BY <3>1, RegistersTyped
    <3> QED
      BY <3>1, <3>2 DEF CopyInv
  <2>2. CASE ~SavesClock(s, key)
    BY <1>0, <1>1, <2>2, KeyEffect
  <2> QED
    BY <2>1, <2>2
<1>2. CASE Draw
  BY <1>0, <1>2, DrawEffect
<1>3. CASE Error \/ UNCHANGED vars
  BY <1>3 DEF Error, vars, CopyInv
<1>4. CASE Sleep
  BY <1>4, SleepEffect DEF CopyInv
<1>5. CASE Tick
  <2>1. cache' = cache /\ (midnight' \/ (rtc'.date = rtc.date /\ midnight' = midnight))
    <3>1. Valid(rtc.date) /\ midnight \in BOOLEAN
      BY DEF DateInv, TypeOK
    <3>2. /\ cache' = cache /\ midnight' = (midnight \/ LastMinute(rtc))
          /\ ~LastMinute(rtc) => rtc'.date = rtc.date
      BY <1>5, <3>1, TickEffect
    <3> QED
      BY <3>1, <3>2
  <2> QED
    BY <2>1 DEF CopyInv
<1> QED
  BY <1>1, <1>2, <1>3, <1>4, <1>5 DEF Next

(* What a step on page 300 that moves on does to the clock's date. *)
LEMMA TimeSaveStep ==
  ASSUME TypeOK, CopyInv, Next, s.menu_id = 300, s' # s, ~midnight
  PROVE  rtc'.date = rtc.date
<1>1. ASSUME NEW key \in BTNAction, Key(key) PROVE rtc'.date = rtc.date
  <2>1. CASE SavesClock(s, key)
    <3>1. PICK t \in Times : shown' = Completed(t, s) /\ rtc' = Registers(shown')
      BY <1>1, <2>1, KeyEffect
    <3>2. shown' = dateUpdate(t, cache) /\ shown' \in Times /\ DateOf(shown') = cache
      BY <3>1, Parts, DateUpdated DEF Completed
    <3>3. rtc'.date = cache
      BY <3>1, <3>2, RegistersTyped
    <3> QED
      BY <3>3 DEF CopyInv
  <2>2. CASE ~SavesClock(s, key)
    BY <1>1, <2>2, KeyEffect
  <2> QED
    BY <2>1, <2>2
<1>2. CASE Draw \/ Error \/ Sleep
  BY <1>2 DEF Draw, Error, Sleep
<1>3. CASE Tick
  BY <1>3 DEF Tick
<1> QED
  BY <1>1, <1>2, <1>3 DEF Next

(* Saving the time of day leaves the date alone, however the clock runs,    *)
(* unless midnight has passed since page 300 showed it.                     *)
THEOREM TimeSavesKeepDate == Spec => TimeSaveKeepsDate
<1>1. Init => CopyInv
  BY ClockInit DEF CopyInv
<1>2. TypeOK /\ CopyInv /\ [Next]_vars =>
        [(s.menu_id = 300 /\ s' # s /\ ~midnight) => rtc'.date = rtc.date]_vars
  BY TimeSaveStep
<1> QED
  BY <1>1, <1>2, ClockInit, TypedAndDated, CopyStep, PTL DEF Spec, TimeSaveKeepsDate

LEMMA DateSaveStep ==
  ASSUME TypeOK, Next, s.menu_id = 400, s' # s
  PROVE  rtc'.hour = rtc.hour /\ rtc'.minute = rtc.minute
<1>1. ASSUME NEW key \in BTNAction, Key(key)
      PROVE  rtc'.hour = rtc.hour /\ rtc'.minute = rtc.minute
  <2>1. CASE SavesClock(s, key)
    <3>1. PICK t \in Times : shown' = Completed(t, s) /\ rtc' = Registers(shown')
      BY <1>1, <2>1, KeyEffect
    <3>2. /\ shown' = timeUpdate(t) /\ shown' \in Times
          /\ shown'.hour = rtc.hour /\ shown'.minute = rtc.minute
      BY <3>1, Parts, TimeUpdated DEF Completed
    <3> QED
      BY <3>1, <3>2, RegistersTyped
  <2>2. CASE ~SavesClock(s, key)
    BY <1>1, <2>2, KeyEffect
  <2> QED
    BY <2>1, <2>2
<1>2. CASE Draw \/ Error \/ Sleep
  BY <1>2 DEF Draw, Error, Sleep
<1>3. CASE Tick
  BY <1>3 DEF Tick
<1> QED
  BY <1>1, <1>2, <1>3 DEF Next

(* Saving the date leaves the time of day alone, however long the editing   *)
(* has taken.                                                               *)
THEOREM DateSavesKeepTime == Spec => DateSaveKeepsTime
<1>1. TypeOK /\ [Next]_vars =>
        [(s.menu_id = 400 /\ s' # s) =>
           rtc'.hour = rtc.hour /\ rtc'.minute = rtc.minute]_vars
  BY DateSaveStep
<1> QED
  BY <1>1, ClockInit, TypedAndDated, PTL DEF Spec, DateSaveKeepsTime
=============================================================================
