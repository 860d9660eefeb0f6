CONSTANTS
  c1 = c1  c2 = c2  s1 = s1  s2 = s2
  h1 = h1  h2 = h2  m1 = m1  m2 = m2
  Conns = {c1, c2}
  Senders = {s1, s2}
  Hosts = {h1, h2}
  HostOf <- PairHostOf
  Metrics = {m1, m2}
  Replicas <- RingReplicas
  ChanLimit = 0
  DeltaLimit = 1
  MaxRetry = 1
  MaxLines = 1
SPECIFICATION FairSpec
VIEW WithoutOutcomes
INVARIANTS FanOut CountersAgree
PROPERTIES ImplementsBatching ParseReturns
