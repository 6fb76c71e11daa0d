\* The server and a tool open a database that lacks up to two migrations; then
\* two connections carry the requests of two clients, limits of one.  Provider
\* and idle connection together are given less time than the shutdown.
SPECIFICATION FairSpec
CONSTANTS
  Processes = {server, tool}
  Main = server
  UsesSqlite = TRUE
  Latest = 2
  Connections = {c1, c2}
  Clients = {ip1, ip2}
  ApiLimit = 1
  StockLimit = 1
  FetchBudget = 1
  KeepAlive = 1
  DrainBudget = 3
INVARIANTS ReadyIsMigrated ForcedExitHasReason WorkIsLimited
PROPERTIES ShutdownEnds FetchesEnd
CHECK_DEADLOCK FALSE
