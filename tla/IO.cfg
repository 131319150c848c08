CONSTANTS
  Fds = {5}
  Waiters = {a, b, c}
  NoWaiter = noWaiter
  Pollers = {p1, p2}
  WithHup = TRUE
  CleanClose = TRUE
SPECIFICATION Spec
INVARIANTS TypeOK PendingExact WaitersConserved InterestMatches
PROPERTIES ReadyDelivered
CHECK_DEADLOCK FALSE
