SPECIFICATION Spec
CONSTANTS
  WeekDays = {1, 2}
  Entries = {"buf_o", "buf_c", "edited"}
  buf_o = "buf_o"
  buf_c = "buf_c"
  DayMasks = {{1}, {1, 2}}
  Times = {0, 1}
INVARIANTS
  TypeOK
  AlarmsAgree
  LastMoveAgrees
  ErrorAgrees
PROPERTY AlarmsAreAtomic
