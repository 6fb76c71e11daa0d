\* Two calls, each a request of the server or a top-up of the daily job.
CONSTANTS
  Callers = {c1, c2}
  Procs = {server, daily}
  Ranges = {m1, m3}
  Server = server
  Nobody = Nobody
  StaleAfter = 1
  DayLen = 1
  Horizon = 2
  Ttl = 1
SPECIFICATION FairHybridSpec
INVARIANTS NoDataIsTrue ReadsItsSync NeverOlder FreshnessIsTrue
PROPERTY EveryReportEnds
CHECK_DEADLOCK FALSE
