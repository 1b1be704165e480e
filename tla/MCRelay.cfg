SPECIFICATION Spec
CONSTANTS
  Owner = o
  Device = {o, a}
  Socket = {s1, s2, s3}
  None = None
  MaxQueue = 2
  Expiring = {1}
  MaxEnvelopes = 3
SYMMETRY SocketSymmetry
INVARIANTS QueueBound InOrder RosterIsCurrent
PROPERTY KeepsLiveSocket
CHECK_DEADLOCK FALSE
