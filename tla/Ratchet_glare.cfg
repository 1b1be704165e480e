SPECIFICATION Spec
CONSTANTS
  Alice = Alice
  Bob = Bob
  Starters = {Alice, Bob}
  MaxSkippedKeys = 8
  MaxSkipPerStep = 8
  MaxMessages = 2
  NoChain = NoChain
\* Each of these is refuted: one at a time.
INVARIANT InSync
\* INVARIANT KeySingleUse
CHECK_DEADLOCK FALSE
