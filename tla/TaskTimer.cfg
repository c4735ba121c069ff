SPECIFICATION Spec
CONSTANTS
  Timers = {T1, T2}
  Periods = {0, 2}
  Width = 4
  MaxMessages = 2
  NULL = NULL
INVARIANTS
  TimerInv
  ListIsComplete
PROPERTIES
  OneMessagePerPeriod
  CalledBack
