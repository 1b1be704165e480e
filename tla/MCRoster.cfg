CONSTANTS
  Peer = {owner, p, q}
  Owner = owner
  Versatile = {owner}
  MaxChanges = 4
  MaxEnvelopes = 2
SYMMETRY Symmetry
SPECIFICATION Spec
INVARIANTS TableIsRoster RevokedIsForgotten
PROPERTIES UnknownOnlyUnlisted
CHECK_DEADLOCK FALSE
