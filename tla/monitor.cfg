CONSTANTS
  c1 = c1  c2 = c2
  Conns = {c1, c2}
  Rf = 2
  OwnMetrics = 2
  DeltaLimit = 1
  MaxLines = 1
  MaxClock = 2
SPECIFICATION FairSpec
INVARIANTS Conservation SendNotAhead AliveAgrees ReportsInOrder
PROPERTIES MonitorReturns
