SPECIFICATION Spec
CONSTANTS
  Alice = Alice
  Bob = Bob
  Starters = {Alice}
  MaxSkippedKeys = 1
  MaxSkipPerStep = 2
  MaxMessages = 5
  NoChain = NoChain
INVARIANTS OnlyCappedAreLost
CHECK_DEADLOCK FALSE
