\* Two operations at a time on four keys for two places; one call may fail.
SPECIFICATION Spec
CONSTANTS
  Keys = {k1, k2, k3, k4}
  Callers = {c1, c2}
  MaxEntries = 2
  Ttl = 1
  Horizon = 1
  MaxFaults = 1
INVARIANTS OvershootIsBounded
PROPERTIES AloneIsAtomic
CHECK_DEADLOCK FALSE
SYMMETRY Symmetry
