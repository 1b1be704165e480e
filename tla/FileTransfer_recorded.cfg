SPECIFICATION Spec
CONSTANTS
  N = 2
  Flaky = {}
  MaxResends = 0
  MaxRetries = 0
  MaxCrashes = 1
\* Each of these is refuted: one at a time.
INVARIANT HeldIsRecorded
\* PROPERTY NeverBackwards
CHECK_DEADLOCK FALSE
