CONSTANTS
  Guest = {g1, g2}
  Agent = {g2}
  Code = {c1, c2, c3}
  First = c1
  NoCode = NoCode
  Ttl = 3
  AuthWindow = 2
  MaxSkew = 1
  Ahead = {0, 1}
  MaxTime = 3
SYMMETRY Symmetry
SPECIFICATION Spec
INVARIANTS SingleUse OnceInWindow ShownIsCurrent
CHECK_DEADLOCK FALSE
