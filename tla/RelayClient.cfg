CONSTANTS
  Engine = {e1, e2}
  Socket = {s1, s2, s3}
  None = None
  SlowSigning = FALSE
  MaxLosses = 2
SPECIFICATION FairSpec
INVARIANTS StopIsFinal MemberStays
PROPERTIES Reconnects RefusalLands
CHECK_DEADLOCK FALSE
