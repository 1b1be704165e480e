CONSTANTS
  MaxOffers = 6
  MaxFaults = 2
SPECIFICATION RtcFairSpec
INVARIANTS AnswerFitsOffer
PROPERTIES DirectAtLast
CHECK_DEADLOCK FALSE
