CONSTANTS
  o1 = o1
  o2 = o2
  Object = {o1, o2}
  Scenario <- MCScenario
  MaxRetries = 1
  MaxCalls = 2
SPECIFICATION Spec
INVARIANTS Agreement BurntAfterReading OpenedWasAccepted
PROPERTIES PromiseKept
CHECK_DEADLOCK FALSE
