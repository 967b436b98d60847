SPECIFICATION Spec
CONSTANTS
  Days = 1
  MaxEdits = 3
INVARIANTS
  TypeOK
  HomeByExit
  TimePagesFit
  ShownBeforeSaved
  WizardSetsClock
