SPECIFICATION Spec
CONSTANTS
  N = 2
  Flaky = {1}
  MaxResends = 1
  MaxRetries = 0
  MaxCrashes = 1
\* Each of these is refuted: one at a time.
INVARIANT AckedIsStored
\* INVARIANT RowsAreDeleted
CHECK_DEADLOCK FALSE
