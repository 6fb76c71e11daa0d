\* Two calls, each in either process and for either range, under fairness.
CONSTANTS
  Callers = {c1, c2}
  Procs = {server, daily}
  Ranges = {m1, m3}
  Nobody = Nobody
  StaleAfter = 2
  DayLen = 2
  Horizon = 4
SPECIFICATION FairSpec
INVARIANTS OneCallPerRange SyncStateIsBacked
PROPERTIES CallsAreThrottled SuccessNeverRegresses EveryCallSettles
CHECK_DEADLOCK FALSE
