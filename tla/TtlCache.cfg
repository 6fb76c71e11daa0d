\* Four keys for three places, two values, four instants.
CONSTANTS
  Keys = {a, b, c, d}
  Values = {v, w}
  MaxEntries = 3
  Horizon = 2
SPECIFICATION Spec
SYMMETRY KeySymmetry
PROPERTY ImplementsLru
CHECK_DEADLOCK FALSE
