SPECIFICATION Spec
CONSTANTS
  c = c
  Client <- MCClient
  Machine <- CheckerOnly
INVARIANT TimerHasQueue
CHECK_DEADLOCK FALSE
