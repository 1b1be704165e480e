CONSTANTS
  a = a
  b = b
  Null = Null
  Device = {a, b}
  Fast = {}
  MaxSaves = 2
  MaxEvents = 1
SPECIFICATION TextSpec
INVARIANTS NothingForgotten RowShowsDocument Agree
SYMMETRY Symmetry
CHECK_DEADLOCK FALSE
