CONSTANTS
  a = a  b = b
  Hosts = {a, b}
  HashSize = 5
  Points <- TwoPoints
  Lists <- SomeLists
  Rfs <- SomeRfs
  Default <- Local
SPECIFICATION FairSpec
INVARIANTS RelayAssumptionsHold 
PROPERTIES LookupEnds
CHECK_DEADLOCK FALSE
