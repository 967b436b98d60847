SPECIFICATION Spec
CONSTANTS
  MinuteLen = 1
  MinutesPerDay = 4
  lux_debounce_number = 2
  lux_debounce_time = 1
  t_delta_min = 2
  t_sens = 2
  MoveTicks = 1
  Horizon = 4
  Step = 2
  Voltages = {1, 3, 4, 5, 21}
  OpeningEntries <- LightOnly
  ClosingEntries <- LightOnly
  FirstStart = TRUE
  MoveErrors = {"TIMER_CLOSE_ELAPSED"}
  DayMasks <- EveryDay
INVARIANTS
  LightMoveDebounced
  LightMovesSpaced
  ClosesOnlyInTheDark
  ManualHoldsLight
  LightWatchArmed
CHECK_DEADLOCK FALSE
