SPECIFICATION Spec
CONSTANTS
  Alice = Alice
  Bob = Bob
  Starters = {Alice}
  MaxSkippedKeys = 2
  MaxSkipPerStep = 3
  MaxMessages = 5
  NoChain = NoChain
INVARIANTS InSync KeySingleUse ForwardSecrecy Healed
CHECK_DEADLOCK FALSE
