CONSTANTS
  Timers = {1, 2}
  Pollers = {p1}
  Intervals = {1, 2}
  MaxTime = 3
  MaxSkip = 1
SPECIFICATION Spec
PROPERTIES DueTimersCollected
CHECK_DEADLOCK FALSE
