CONSTANTS
  MaxRequests = 3
  MaxHosts = 1
SPECIFICATION LanFairSpec
INVARIANTS SentWasWritten LiveIsShown
PROPERTIES EveryRequestEnds
CHECK_DEADLOCK FALSE
