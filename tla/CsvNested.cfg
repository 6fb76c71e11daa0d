\* One process, two files.
CONSTANTS
  Procs = {cli}
  f1 = f1
  f2 = f2
  x = x
  y = y
  z = z
  Files = {f1, f2}
  Rows = {x, y, z}
  RowsOf <- SharedRow
  Nobody = Nobody
SPECIFICATION Spec
INVARIANT OnlyNestedIsRefused
CHECK_DEADLOCK FALSE
