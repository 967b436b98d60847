SPECIFICATION Spec
CONSTANTS
  t_err_open = 6
  t_err_close = 5
  t_err_block = 2
  t_down_finish = 1
  IterTicks = 2
  AgeCap = 11
  CallErrors = {"NO_ERROR", "TIMER_BLOCKED_ELAPSED", "WRONG_LDR_FLAG"}
  M_FWD = 2
  M_BACK = 2
  LED = 2
INVARIANTS
  TypeOK
  OutputsMatchDirection
  DrivesTowardGoal
  MotorRunBounded
  BlockedPushBounded
  BottomConfirmed
PROPERTIES
  MoveReturns
  ContractSpec
