SPECIFICATION Spec
CONSTANTS
  Device = {o, a}
  Owner = o
  Socket = {s1, s2, s3}
  None = None
  MaxQueue = 2
  Expiring = {2}
  MaxEnvelopes = 3
INVARIANT MembersOnly
CHECK_DEADLOCK FALSE
