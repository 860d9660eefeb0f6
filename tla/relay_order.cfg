CONSTANTS
  c1 = c1  c2 = c2  s1 = s1  s2 = s2
  h1 = h1  h2 = h2  m1 = m1  m2 = m2
  Conns = {c1}
  Senders = {s1, s2}
  Hosts = {h1}
  HostOf <- TwinHostOf
  Metrics = {m1}
  Replicas <- SingleReplicas
  ChanLimit = 1
  DeltaLimit = 1
  MaxRetry = 3
  MaxLines = 2
SPECIFICATION Spec
INVARIANTS TypeOK PerConnectionOrder OutcomeExplained
PROPERTIES ImplementsDelivery ImplementsBatching
