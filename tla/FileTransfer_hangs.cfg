SPECIFICATION FairSpec
CONSTANTS
  N = 2
  Flaky = {}
  MaxResends = 1
  MaxRetries = 0
  MaxCrashes = 0
PROPERTY NeverHangs
CHECK_DEADLOCK FALSE
