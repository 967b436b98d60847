# Eggvault: a verification project for the chicken-door controller

The program is `src/arduino-esp32/arduino-esp32-master/main.cpp` (about 3400 lines) with
`include/global.h`; everything else in the repository is third-party code, hardware tests or a
second copy of the same file. It runs on an ESP32 that spends nearly all its time in deep sleep
and wakes up to open or close the door of a hen-house by time, by light or by hand.

Line numbers below refer to `main.cpp` unless another file is named.

## Inventory

| Component | State it keeps | Operations | What is hard |
|---|---|---|---|
| Motor drive, `moveMotor` | `doorPosition`, `doorDirection`, `errorFlag`, outputs, `moveZero`, `blockZero`, `downwardsTimer` | one loop: read the end switches, steer, three time-outs, buttons | chattering switches, timers that restart, errors left by earlier calls |
| Light sensor, `getLux`, `VoltToLux` | none | voltage to level 0..9 | boundaries of the search loop |
| Light checks, `activateLDR`, `timerWakeupHandling` | `ramCounter`, `LDRFlag`, `nextLux`, sleep timer | compare, count, move or sleep again | the count crosses deep sleep; anything may happen between two checks |
| Planning, `statusabfrage`, `setNextOpeningAlarm`, `setNextClosingAlarm`, `setAlarm` | `alarmFlag`, `LDRFlag`, the clock's alarm registers | choose the next move from position, schedule, time, manual mode | stale `t_now`, flags and alarm that must agree |
| Wake-up and sleep, `setup`, `wakeupHandling`, `PREP_FOR_DEEP_SLEEP` | wake-up cause, LED pad hold, `manualFlag` | alarm, timer, long press, short press, power-on | a state rebuilt from three memories with different life times |
| Storage, `readValuesFromFlash`, `writeValuesToFlash`, `saveAlarmValues` | flash store with the flags `init_NOX`, `init_alarm`, `init_last_move`, `init_flag`; RAM byte of the clock | load, save, pack; a setting is two or three stores | power failures between two stores, stores that fail |
| Menu, `menuFunctions` | `menu_id`, `timeSetMode`, `modeset`, `cursor_tag`, `day_bitmask`, edited values, `F_init_NOX` | 20 pages, four keys, the save of page 900, the wizard of the first start | a mode shared by all pages, an error or sleep in the middle of an edit |
| Setting the clock, pages 300 and 400, `saveTimeSetting` | `Hour`, `Minute`, `Date`, `Month`, `Year`, `DoW`, `maxDayThisMonth` | show the running time, edit a copy, save it | the clock runs on meanwhile; values computed one pass before they are used |
| Buttons, `menuUpdate`, `checkLongPressStartup` | `button_flag`, `longPressFlag`, `previousMillis`, `lastPress`, `longPressStart` | debounce, repeat, light the display, start a move | one flag for four buttons; two functions that read the same held button |
| `loop` | `menuActive`, display light | alarm in the menu, inactivity, error page | an alarm or an error while the user is editing |

The functions call each other as tail calls: a wake-up cause leads to `activateLDR`, `moveMotor`
or `statusabfrage`; `moveMotor` ends in `statusabfrage`; `statusabfrage` ends in one of the
`setNext...Alarm` functions; those put the device to sleep unless the menu is active. State is
shared through globals (lost in deep sleep), the flash store (kept), and the clock (kept by its
own battery). There is one thread. What is concurrent is the world: the clock's alarm, the sleep
timer, buttons, end switches and the power supply act at any moment.

What makes the components correct: the motor always stops, in time, with outputs and believed
position that agree with what it did; the door moves by light only after a debounced, spaced
series of checks and not against the manual mode; it moves by alarm only as the schedule says;
a sleeping device has what it needs to wake up; no restart loses or invents an error, an alarm
or a move; a save stores what the user has seen, in one piece; the clock keeps an existing date and
its weekday; a key is taken once, and from a display the user could read.
`PROJECT.json` lists the hazards with the line where each bites.

## Modules

* `Global`: the enumerations of `global.h` and the four readings of the two end switches.
* `MoveOutcomes`: what `moveMotor` may return (why it ended, position, error), given the goal and
  the error it was called with. Shared by `MoveContract`, `MotorDrive`, `Controller` and `Storage`.
* `MoveContract`: the abstract specification of `moveMotor`: a call is active, then it returns one
  of these outcomes.
* `MotorDrive`: the loop of `moveMotor` up to the stop. A pass is a sensing step (one action per
  branch: `BottomTouched`, `BottomFinishing`, `BottomLeaving`, `SenseBlocked`, `SenseUp`,
  `SenseDriving`), then one of `BlockedElapsed`, `CloseElapsed`, `OpenElapsed`, `ButtonCheck` in the
  code's order of tests. `LoopDone` is the loop condition, `Stop` the code after the loop. A variable
  that holds a `millis()` value is represented by its age. The variables under "History" are read
  by no action.
* `MotorDriveProofs`: the theorems about it.
* `Controller`: from wake-up to deep sleep. `pc` names the function that runs next. `g` holds the
  globals, `nvs` the flash store, `rtc` the clock with alarm, interrupt line and RAM byte, `espTimer`
  and `wakeAt` the sleep timer while awake and asleep, `hold` the frozen LED pad. `moveMotor` is
  used by its outcomes, which is what `ContractSpec` justifies. The two `setNext...Alarm`
  functions share `setNextAlarm` and differ in the decisions `OpensByTime`, `OpensByLight`,
  `ClosesByTime`, `ClosesByLight`. The pages of the menu that act on the device are actions of `Loop`;
  the pages that only navigate and edit are represented by the entries a user may save.
* `ControllerProofs`: the theorems about types, stored errors and alarms. `LightWatchProofs` extends it with
  those about the light watch and `VoltToLux`.
* `MCController`: the schedule entries for the configurations of `Controller`.
* `Lux`: `getLux` and `VoltToLux` as operators, and the number of thresholds a voltage exceeds as the
  reference. `Controller` extends it: a light check sees a voltage, not a level.
* `AlarmTable`: the abstract specification of the stored alarms: a save changes one direction for
  the chosen weekdays in one step, and nothing else changes anything.
* `Storage`: every store of `main.cpp` as a step of its own. `pc` names the store that comes next,
  `"running"` is all code that stores nothing, `"off"` is deep sleep or no supply. `Off` is possible between
  any two stores. `readAlarms`, `readLastMove` and `readError` say what a restart would make of a store.
* `StorageProofs`: the theorems about it.
* `Pages`: the transition table of `menuFunctions`: for each page and key the next page, `timeSetMode`,
  `modeset` and cursor. Pages 300 and 400 have one form (`ClockPage`). It has no variables and is
  shared by `Menu`, `SetClock` and `Buttons`. `PagesProofs`: the lemmas about the table that both `MenuProofs` and
  `SetClockProofs` need.
* `Menu`: the alarm values along these pages, the save, the wizard, errors and restarts. `Key` is
  `menuFunctions` with a key, `Draw`, `DrawMove` and `DrawSave` are `menuFunctions(NOTHING)` on the pages that
  show, move the door and save. `Current` is the page after `loop` has looked at `errorFlag` (3343).
* `MenuProofs`: the theorems about it.
* `SetClock`: `timeUpdate`, `dateUpdate`, `makeLocalTime`, `saveTimeSetting` and the values of pages 300 and
  400. `shown` is the globals, `rtc` the clock, `cache` the register copy in the RV8803 library: `timeUpdate`
  reads the registers, `dateUpdate` only takes the date from the copy.
* `SetClockProofs`: the theorems about it.
* `Buttons`: `menuUpdate` in its two halves (`KeySeen` or `NoKey`, then `Repeat`), `checkLongPressStartup` and
  the button check of `moveMotor`, composed over the same four buttons, which bounce freely.
* `ButtonsProofs`: the theorems about it.

`Controller`, `Storage`, `Menu`, `SetClock` and `Buttons` overlap at their borders and abstract the others
there: `Controller` takes a save, a move and a setting as one step each (what `AlarmsAreAtomic`,
`ContractSpec` and the agreement invariants of `Storage` justify), `Menu` takes a move or a plan as
"may end in an error", `Storage` takes its callers in any order, and `Menu` and `SetClock` rely on
the page being drawn between two keys, which is what `KeysDebounced` gives: no two keys are closer than
the fast debounce time, and a pass in which keys are blocked draws.

### Assumptions about the hardware

* The end switches, the light level and the buttons may give anything at any time.
* A pass of the loop takes at least one and at most `IterTicks` ticks.
* Compiled, `LED`, `M_FWD`, `M_BACK` and `LCD_BL_EN` are one pin, 2 (`global.h:57-63`; the comments there name the pins
  of the board). `MotorDrive` has the pins as constants: its run uses the compiled ones, its theorems hold for every
  assignment. `pin` is the level the program has written last. `Controller` takes the shared pin: the stop of `moveMotor`
  (2866) and a lit display (3269, 3308) pull the LED low, a dark display leaves the pin floating (3304), so that
  it may read either way, and manual mode sets it high in every plan and every pass of `loop` (2413, 3350).
  That a motor started from the menu under a dark display finds its pin switched to input is not modelled.
* The clock raises its interrupt at the start of the minute that the alarm registers match, and
  keeps time, alarm and RAM byte without the main supply. Its interrupt line stays high until
  the flags are cleared, which only `setAlarm` does.
* When the alarm and a button wake the device together, the button wins, because
  `GPIO_wake_up_reason` returns the highest pin; `loop` then sees the interrupt line.
* A new device's clock shows a date that exists, with its weekday (`SetClock`, `Init`): nothing in the program sets the
  weekday before the first save.
* The flash store refuses keys of more than 15 characters (`nvs.h:187`).

## Runs that pass

| Run | Bounds | Shows |
|---|---|---|
| `motor_drive` | times 6, 5, 2, 1, passes of 1 or 2 ticks, three caller errors, pin 2 for all outputs | outputs, steering, the timing bounds; every call returns and implements `MoveContract` with its liveness; about 175 000 states |
| `light` | a day of 4 minutes, clock to tick 4, 5 voltages around the thresholds, entries by light, first start | debounce, spacing, closing only in the dark, manual mode, armed watch |
| `alarm` | a day of 3 minutes, clock to tick 3, 2 voltages, entries by time and by both | error code asleep, alarms against the schedule |
| `storage` | 2 weekdays, 3 entries, 2 dates, one or both days picked | saves in one piece; alarms, last move and error survive a restart at any store; 114 000 states |
| `buttons` | buttons SELECT and BACK, times 5, 2, 6, 2, 8, 9, passes of 1 or 2 ticks | debounce, dark display, no key blocked for good; 880 000 states |
| `menu` | 1 weekday and the arrow, 3 changes of values between two restarts | EXIT leads home, `timeSetMode` fits, nothing is saved unseen, the wizard sets the clock; 3.7 million states |
| `clock` | months of 1 to 4 days, 4 months, a leap year and the next, 2 hours of 2 minutes, 3 changes, 1 minute passes | existing date, right weekday, each page keeps the other's values; 2.8 million states |

Why the bounds are enough. In `motor_drive` the times are distinct, larger than a pass, and the
open time-out is larger than the close time-out as in the code, so every timer can elapse before,
on and after every other. Ages stop at `AgeCap`, which an assumption keeps above all they are
compared with, so that calls may follow each other without end. In `light` the debounce number is
2, the smallest that has a series, and the horizon leaves room for a move by light, the
pause `t_delta_min` and a second complete series; the voltages are one below all thresholds, one in
each of two bands, one on a threshold and one above all. In `alarm` a day has a minute before, at and
after each entry, and the horizon reaches into the next day, so that the weekday changes once.
`FirstStart` chooses between a new device that goes through the wizard and one that has done so.
The runs of `Controller` switch deadlock checking off because the clock stops at `Horizon`.

In `storage` a third entry and a second day let a save differ from the defaults, from the last save and
on one day only. `buttons` has one button that starts moves and one that does not; the dark time lies
between two repetitions and the sleep time, and the sleep time is at least a debounce time and two passes,
as in the code. As in the code, too, a long press lasts longer than the normal debounce time, and that is
longer than the fast one by more than a pass: then a key can follow the last one after the fast time although
its button was released in between, because the long press before it had already lifted the block (2123).
`KeysDebounced` allows this. `menu` needs one weekday to tell the days of page 110 from its arrow; three changes
are enough to change the mode, go on, and change it back. Mode, threshold, hour and minute have
their real ranges, reached by going down from 0. `clock` starts one minute before midnight on every date of two years,
so that the minute that passes is the one that changes the date; three changes turn day, month and year
once each, in any order. Its months are cut by 27 days: they still have three lengths, and February
changes with the year.

No symmetry is used: the values are ordered.

Fairness. `MotorDrive` and `Buttons` assume weak fairness of `Program`: the processor goes on executing
the function it is in. Callers and fingers are not fair. Time advances because each pass takes at
least one tick (`delay(5)` in 2692), which is why the time-outs end the loop of `moveMotor`.
`Controller` has no fairness and only safety properties: whether the device wakes up depends on a clock
that the bound stops. `Storage`, `Menu` and `SetClock` have safety properties only: nothing makes a user go on.

## What the code does not keep

Each of these runs states what a comment, a text or the README says, and TLC finds a behaviour of
the code that does otherwise. Details and quotations are under "findings" in `PROJECT.json`.

| Run | Statement | What happens |
|---|---|---|
| `tomorrow` | a past alarm is set for tomorrow (2327) | `setAlarm` ignores its weekday (2272) |
| `threshold` | the threshold has to be reached (53) | `nextLux` is 0 after deep sleep |
| `error_moves` | nothing is done on an error (2594) | a stuck reading sets an error; the alarm then moves the door while the error page is shown, since `loop` looks at the interrupt first (3292) |
| `dark_opens` | night is detected by light (`README.md:4`) | a voltage up to 300 mV exceeds no threshold and is level 9, by which the door opens |
| `own_press` | a long press moves the door (3097) | the move ends in its first pass while the button is still held (2854) |

More was seen while modelling, is in the models as the code does it, and has no run of its own:

* The blocked time-out (2823) tests `doorPosition == POS_BLOCKED`, which an earlier pass may have set
  and the lower-end branches keep: the blocked error can be raised at a door that is down.
* `t_err_open` (58) is read by nothing: openings are cut off after `t_err_close` (2843).
* A sleep timer enabled by one `setNext...Alarm` stays enabled when a later one in the same boot gives up
  the light watch; the wake-up then ends in `WRONG_LDR_FLAG`, "Kann eigentlich nicht auftreten" (2257).
* The key of the last position has 18 characters (17), so the position is never stored, and after a restart a
  door between its ends is always planned to close (2619).
* `gpio_hold_en` on the LED pad (`global.h:45`) is never undone, so after EXIT (420) the next wake-up
  reads the pad as 1 and is in manual mode again.
* The clock's alarm is armed at once, its direction is written to the clock's RAM only at the next
  deep sleep. After a power failure in between, followed by an error that puts off the next plan,
  an alarm set for closing opens the door. `AlarmMovesOnSchedule` excepts this window.
* A power failure between the two stores of the first move (2872, 2877) loses its date, and with it the pause
  before the next move by light. `LastMoveAgrees` compares a restarted device with its store and does not see this.
* On the compiled pins the LED that a time-out lights (2828) is switched off by the stop (2866).
* A move on an error page can repeat: only `setAlarm` clears the interrupt, and a move that ends in an error does not reach it.
* A threshold below 0 becomes 255 (1770): `*lux` is a byte, so `*lux < MINLUX` is never true.
* Page 300 saves the date that was read when the editing began: if midnight passes, the clock is set back a
  day. `TimeSaveKeepsDate` excepts this.
* EXIT on pages 300 and 400 saves what has been edited so far (1173, 1401).
* If an error leaves page 400 in mode SETMONTH or SETYEAR, the page brings the day into a month computed in
  an earlier visit when it is entered again. The date exists (`ClockHasADate`), but may be another one.
* A selection of weekdays that was given up stays in `day_bitmask` and is offered for the next alarm, of the other
  direction too (839).
* Pages 510 and 610 have no code (1509, 1553): no key leads away. `HomeByExit` excepts them.
* An error during the wizard leads through page 002 to the start screen of a device that is not yet
  initialised. From there the alarm pages can be reached, and page 900, "GESPEICHERT!" (242), then ends the wizard
  instead of saving the alarm (2019). `WizardSetsClock` excepts this.
* SW_BACK means "open" on page 000 (705) and "close" when it wakes the device (3172).

These behaviours also limit what the passing properties can say. `LightMoveDebounced` counts checks
that were positive for the threshold in use, not for the one the user set; `AlarmMovesOnSchedule`
excepts the time between a power failure or a save and the next plan.

## Proofs

`MotorDriveProofs` proves, for all times, pins, caller errors and pass durations that satisfy the
assumptions of `MotorDrive` (times are naturals, a pass takes time, the cap on ages lies above
everything compared with it):

* `TypeCorrect`: `TypeOK`.
* `DriveIsSteered`: `DrivesTowardGoal`. The invariant `Steered` says the same at the end of a pass as
  well; it is inductive because the branches that steer the other way set `doorPosition` to
  the goal, which ends the loop.
* `OutputsAgree`: `OutputsMatchDirection`, for every assignment of the pins. It is inductive as it stands: `M_BACK` is
  written after `M_FWD` and decides a shared pin, and every branch that starts a standing motor writes
  both. Before the start, and between a time-out and the stop, the LED may have a shared pin.
* `RunIsBounded`: `MotorRunBounded`. `RunInv` adds why: before the run-on the run is no older than
  `moveZero`, which the loop keeps within `t_err_close`; the run-on begins within a pass of that, and
  is timed by `downwardsTimer`. Losing the lower end returns to the first regime without
  restarting `moveZero`. It rests on `Steered`.
* `PushIsBounded`: `BlockedPushBounded`. `BlockInv` adds that a running push has `POS_BLOCKED` set, so
  `blockZero` is not set again and is at least as old as the push.
* `BottomIsConfirmed`: `BottomConfirmed`. `BottomInv` adds that during the run-on the lower end has been
  sensed for as long as `downwardsTimer` is old. It rests on `Steered`: without it the door
  could be found "down" by the branch that steers up.
* `ImplementsContract`: the initial states and steps of `MotorDrive` are those of `MoveContract` under the
  mapping `Contract`. `OutcomeInv` records what each way out of the loop knows about position and
  error.

Ages are capped, so the arithmetic rests on three lemmas: capped ages stay ages and are exact below
the cap (`LaterFacts`), and ages that grow together keep their order (`LaterMonotone`).

`StorageProofs` proves, for all sets of weekdays, entries, day masks and dates, of which only the defaults
are assumed to be members:

* `StorageTypes`: `TypeOK`.
* `SavesAreAtomic`: the table `readAlarms(memory)` that a restart would find implements `AlarmTable`. `AlarmInv`
  says, for each place between two stores, what the store holds of the tables in RAM: before the first save nothing is
  visible until `init_alarm`, later the stored tables differ from those in RAM in at most the direction that
  was edited, so that exactly one of the stores is the visible step.
* `SavedAlarmsAreKept`: `AlarmsAgree`, from the same invariant.
* `LastMoveIsKept`: `LastMoveAgrees`. `MoveInv` adds what the two stores of a move leave open in between, and
  that the flag in RAM is set only if the one in the store is.
* `ErrorIsKept`: `ErrorAgrees`. `ErrorInv` adds that the places with an unstored error are the ones that
  lead to `statusabfrage`.

`MenuProofs` proves, for any number of weekdays and edits:

* `MenuTypes`: `TypeOK`, from the closure of `Pressed`, `Turn` and `TurnLux` over the states and values.
* `TimePagesKeepFit`: `TimePagesFit`. `Fit` adds that page 001, whose keys lead to page 300 and leave
  `timeSetMode` alone, has SETNOTHING.
* `WizardEndsSet`: `WizardSetsClock`. `WizardInv` says on which pages an undisturbed wizard can be, and which of the two
  saves lies behind each of them.
* `SavesWhatWasShown`: `ShownBeforeSaved`. `Way` says for every editing page which pages must have been shown
  before it, given the mode; `ShownInv` adds that the page of a key has been drawn, and that an error leaves the editing pages.

* `ExitLeadsHome`: `HomeByExit`. `Distance` bounds the presses of EXIT that are left on every page with code for it, and
  `ExitIsNearer` shows that a press makes it smaller; seven presses are unrolled one by one. Page 710 has no way out, and
  page 700 names it as its next page; `NotReset` adds that it is never reached, because page 700 has gone to sleep before.

`TimePagesKeepFit`, `WizardEndsSet` and `SavesWhatWasShown` each rest on one lemma about a single key (`PressedFit`,
`PressedWizard`, `PressedWay`), by cases over the pages.

`ControllerProofs` proves, for all schedules, voltages, times and horizons under the assumptions of `Controller` (the
debounce number is 2 to 16: below 2 there is no series, above 16 the counter does not fit its four bits):

* `ControllerTypes`: `TypeOK`. `TypeInv` adds that the counter in the RAM byte is within the debounce number; the
  three fields of the byte are unpacked as they were packed (`SleepFacts`).
* `SleepsWithoutError`: `NoErrorAsleep`. `ErrorInv` says at which other places the stored error is known to be `NO_ERROR`: on
  the way to sleep, and in the menu as long as no error is shown.
* `AlarmsFollowSchedule`: `AlarmMovesOnSchedule`. `PlanInv` follows `alarmFlag` on its way from the plan through the RAM byte and
  deep sleep to the next boot and the move: all along it fits the alarm registers and the stored schedule.

`LightWatchProofs` first states what each step does to the variables of the light watch (one lemma per
step, `...Effect`) and then argues from these:

* `LightWatchIsArmed`: `LightWatchArmed`, with `TimerInv`: a timer is pending only with a clock alarm, and none when light moves the door.
* `LightMovesAreDebounced`: `LightMoveDebounced`. `DebounceInv`: the counter, in RAM byte or globals, never exceeds the
  number of positive checks in a row.
* `LightMovesAreSpaced`: `LightMovesSpaced`. `SpacedInv` bounds every timer that can lead to a move by light from below by the time
  of the last one. The plan accepts one second less than `t_delta_min`; the debounce series, of at least two
  checks, makes up for it.
* `ManualModeHoldsLight`: `ManualHoldsLight`. `ManualInv` says where manual mode is remembered: in `manualFlag` while awake, in the
  held pad while asleep; on the way to the error page it is the error that keeps the door still. It rests on `ErrorInv`.
* `LightClosesInTheDark`: `ClosesOnlyInTheDark`, from `LuxNotBelowBand`: for every voltage and every distance of
  the thresholds, `VoltToLux` never reports less light than the number of thresholds exceeded. Its loop of ten steps is unrolled.

`ButtonsProofs` proves, for all times and pass durations under the assumptions of `Buttons`:

* `ButtonsTypes`: `TypeOK`.
* `KeysAreDebounced`: `KeysDebounced`. `DebounceInv` adds that `previousMillis` is never older than the last key and
  `longPressStart` never older than the last pass without a button, and that keys are unblocked only after one of the two waits.
* `KeysNeedLitDisplay`: `KeysActOnLitDisplay`. `LitInv`: a user who pressed within `LCD_OFF_TIME` has a lit display, but
  for the pass after the press that lights it, in which keys are blocked.

`SetClockProofs` proves, for calendars of every scale, the real one (12 months, any range of years) included, and any number of edits
and minutes:

* `ClockTypes`: `TypeOK`, together with `DateInv`: the clock stays on the calendar because its date exists.
* `DatesExist`: `ClockHasADate`. `DateInv`: the globals hold a date that does not exist only between the key that
  turns month or year and the next drawing, and then `maxDayThisMonth` has just been computed; or on the error page and page 0 before
  it reads the clock.
* `WeekdaysFit`: `WeekdayFitsDate`. The weekday of a date is the number of days before it, counted by the cardinality of a
  set; the lemmas `NextMonthStart` and `WeekdayOfTomorrow` carry it over the ends of months and years.
* `TimeSavesKeepDate`, `DateSavesKeepTime`: the two action properties. `CopyInv`: the library's copy of the date is the
  date unless midnight has passed.

Only model-checked: `MoveReturns`, the liveness half of `ContractSpec` and `HeldKeyRepeats`, because fairness is beyond the
prover, and the statements the code does not keep. Every other property of the passing runs is a theorem.

## Not modelled

The battery display (`getVolt`), all texts and custom characters, the blink phase, the libraries, and `test/`.
A single `putBytes` is atomic, as the NVS library promises. The `default` branches for enum values outside
`openingMode` (2401, 2525), the `POS_BLOCKED` case of `statusabfrage` (2611) and the "safety escape"
of `checkLongPressStartup` (3116, 5000 delays of a millisecond in a loop that ends earlier) are
unreachable and left out. What a changed clock does to an armed alarm and to the pause between moves is not
modelled: `SetClock` has no alarms, and the clock of `Controller` only runs forward. The rest of the repository is
the arduino-esp32 core, its SDK headers and libraries: third-party code that this project takes from its use in `main.cpp`.

## Plan

Done: `Global`, `MoveOutcomes`, `MoveContract`, `MotorDrive`, `Controller`, `Lux`, `AlarmTable`, `Storage`, `Pages`, `Menu`,
`SetClock`, `Buttons`; proofs of all their safety and action properties.

Left: `Controller` with a cyclic clock and with the save of `SetClock` (the device wakes up again; the width of
the sleep-timer product; an alarm armed before the clock was set), and its proofs carried over to it.
