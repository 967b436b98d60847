SPECIFICATION Spec
CONSTANTS
  MinuteLen = 1
  MinutesPerDay = 3
  lux_debounce_number = 2
  lux_debounce_time = 1
  t_delta_min = 1
  t_sens = 1
  MoveTicks = 1
  Horizon = 3
  Step = 2
  Voltages = {3, 5}
  OpeningEntries <- TimeOrBoth
  ClosingEntries <- BothOnly
  FirstStart = FALSE
  MoveErrors = {"TIMER_CLOSE_ELAPSED"}
  DayMasks <- EveryDay
INVARIANT NothingMovesOnError
CHECK_DEADLOCK FALSE
