SPECIFICATION RestartSpec
CONSTANTS
  Alice = Alice
  Bob = Bob
  Starters = {Alice}
  Forgetful = {Alice}
  MaxSkippedKeys = 8
  MaxSkipPerStep = 8
  MaxMessages = 3
  NoChain = NoChain
INVARIANT KeySingleUse
CHECK_DEADLOCK FALSE
