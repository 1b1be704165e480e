CONSTANTS
  Src = src
  Dst = dst
  Carrier = {c1, c2}
  HopLimit = 1
  Run = {1, 2}
  MaxDrops = 1
  MaxCopies = 1
  MaxQueued = 1
  MaxLost = 1
SPECIFICATION FairSpec
INVARIANTS AppliedOnce HeldOrLost FanOutBounded
PROPERTIES Arrives
CHECK_DEADLOCK FALSE
