\* Two executions under fairness, one file and one ticker each: the second
\* can be granted the lock while the first has outlived its lease.
CONSTANTS
  Runs = {r1, r2}
  NoRun = NoRun
  Ttl = 1
  Horizon = 2
  NFiles = 1
  NTickers = 1
SPECIFICATION FairSpec
INVARIANTS LeaseExclusion ExitReport
PROPERTIES ImplementsLock RunEnds LockIsReclaimable
CHECK_DEADLOCK FALSE
