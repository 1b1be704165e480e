CONSTANTS
  a = a
  b = b
  Null = Null
  Device = {a, b}
  Fast = {}
  MaxSaves = 2
  MaxEvents = 1
SPECIFICATION TextSpec
\* Each of these is refuted: one at a time.
PROPERTY EditsMerge
\* PROPERTY HandOffKeepsText
\* INVARIANT TypesAgree
\* INVARIANT ShapeFitsType
\* And this with Fast = {a}.
\* INVARIANT ListsAgree
CHECK_DEADLOCK FALSE
