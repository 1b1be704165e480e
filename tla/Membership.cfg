CONSTANTS
  Engine = {e1, e2}
  Socket = {s1, s2}
  None = None
  SlowSigning = FALSE
  MaxLosses = 1
  MaxTalk = 1
  MaxJoins = 2
SPECIFICATION MSpec
INVARIANTS StillTalks
CHECK_DEADLOCK FALSE
