CONSTANTS
  Heartbeat = 2
  Poll = 2
  Stale = 5
  Delay = 1
  MaxQueue = 3
  MaxSkip = 9
  MaxTime = 20
  MaxTurns = 4
SPECIFICATION Spec
INVARIANTS ShownWasOpen
CHECK_DEADLOCK FALSE
