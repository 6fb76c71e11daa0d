\* Two requests, with and without a repository, under fairness.
CONSTANTS
  Requests = {r1, r2}
  Ttl = 1
  Horizon = 2
SPECIFICATION FairSpec
INVARIANTS FlightsAreRegistered HitsAreYoung ServedIsSound
PROPERTY EveryRequestEnds
CHECK_DEADLOCK FALSE
