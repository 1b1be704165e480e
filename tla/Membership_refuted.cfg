CONSTANTS
  Engine = {e1, e2}
  Socket = {s1, s2}
  None = None
  SlowSigning = FALSE
  MaxLosses = 1
  MaxTalk = 1
  MaxJoins = 2
SPECIFICATION MSpec
\* Each of these is refuted: one at a time.
INVARIANT LeftIsClean
\* INVARIANT ReadmittedTalks
\* INVARIANT TalksAcrossEngines
CHECK_DEADLOCK FALSE
