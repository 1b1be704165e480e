SPECIFICATION Spec
CONSTANTS
  Alice = Alice
  Bob = Bob
  Starters = {Alice}
  MaxSkippedKeys = 8
  MaxSkipPerStep = 8
  MaxMessages = 3
  NoChain = NoChain
  Slots = {1, 2}
  MaxCrashes = 0
INVARIANT KeySingleUse
CHECK_DEADLOCK FALSE
