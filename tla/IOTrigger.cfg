CONSTANTS
  Fds = {5}
  Waiters = {a, b}
  NoWaiter = noWaiter
  Pollers = {p1}
  WithHup = TRUE
  CleanClose = TRUE
SPECIFICATION Spec
INVARIANTS TriggerOnlyRegistered
CHECK_DEADLOCK FALSE
