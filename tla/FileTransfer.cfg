SPECIFICATION FairSpec
CONSTANTS
  N = 2
  Flaky = {1}
  MaxResends = 1
  MaxRetries = 1
  MaxCrashes = 1
INVARIANTS AckedIsHeld DeliveredIsWhole NoStrandedFile ReceivedOnce
PROPERTY GivesUp
CHECK_DEADLOCK FALSE
