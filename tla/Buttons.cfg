SPECIFICATION Spec
CONSTANTS
  Switches = {33, 34}
  BUTTON_DEBOUNCE_TIME_NORMAL = 5
  BUTTON_DEBOUNCE_TIME_FAST = 2
  BUTTON_LONG_PRESS_TIME = 6
  LONG_PRESS_STARTUP_DURATION = 2
  LCD_OFF_TIME = 8
  NOX_SLEEP_TIME = 9
  PassTicks = 2
  AgeCap = 10
INVARIANTS
  TypeOK
  KeysDebounced
PROPERTIES
  KeysActOnLitDisplay
  HeldKeyRepeats
