CONSTANTS
  Pids = {1, 2, 3, 4, 5}
  Script <- MCScript
  MaxDeaths = 2
SPECIFICATION Spec
CHECK_DEADLOCK FALSE
INVARIANTS
  RestartIsClean
  ExecutedAtMostOnce
PROPERTIES
  CommandReturns
