\* Two processes import the same two files, which share a row.
CONSTANTS
  Procs = {cli, daily}
  f1 = f1
  f2 = f2
  x = x
  y = y
  z = z
  Files = {f1, f2}
  Rows = {x, y, z}
  RowsOf <- SharedRow
  Nobody = Nobody
SPECIFICATION Spec
SYMMETRY ProcSymmetry
INVARIANTS ReportIsTrue LockIsGivenBack
PROPERTY FilesAreAtomic
CHECK_DEADLOCK FALSE
