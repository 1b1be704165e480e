CONSTANTS
  Heartbeat = 2
  Poll = 2
  Stale = 5
  Delay = 1
  MaxQueue = 2
  MaxSkip = 1
  MaxTime = 14
  MaxTurns = 4
SPECIFICATION Spec
INVARIANTS SessionSurvives
CHECK_DEADLOCK FALSE
