SPECIFICATION RestartSpec
CONSTANTS
  Alice = Alice
  Bob = Bob
  Starters = {Alice}
  Forgetful = {Bob}
  MaxSkippedKeys = 8
  MaxSkipPerStep = 8
  MaxMessages = 3
  NoChain = NoChain
INVARIANT Rebootstraps
CHECK_DEADLOCK FALSE
