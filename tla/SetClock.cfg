SPECIFICATION Spec
CONSTANTS
  Cut = 27
  LastMonth = 4
  YEAR_MIN = 2000
  YEAR_MAX = 2001
  HOURS = 2
  MINUTES = 2
  MaxEdits = 3
  MaxTicks = 1
INVARIANTS
  TypeOK
  ClockHasADate
  WeekdayFitsDate
PROPERTIES
  TimeSaveKeepsDate
  DateSaveKeepsTime
