SPECIFICATION Spec
CONSTANTS
  Tickers = {"A", "B"}
  Ranges = {"1m", "3m"}
  DefaultRange = "3m"
  NoTicker = "none"
  MaxCalls = 3
  MaxClicks = 3
INVARIANTS
  OneCallPerKey
  NothingRevived
  PendingIsInFlight
PROPERTIES
  LatestWins
  PendingEnds
  ActiveBecomesValid
CHECK_DEADLOCK FALSE
