CONSTANTS
  Timers = {1, 2}
  Pollers = {p1, p2}
  Intervals = {1, 2}
  MaxTime = 2
  MaxSkip = 2
SPECIFICATION Spec
INVARIANTS TypeOK SetMatchesCallbacks TickleNotLost
PROPERTIES HandedOutProperly
CHECK_DEADLOCK FALSE
