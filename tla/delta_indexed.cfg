CONSTANTS
  m1 = m1  m2 = m2  m3 = m3  m4 = m4  k1 = k1  k2 = k2  k3 = k3  h1 = h1  h2 = h2
  Metrics = {m1, m2}
  Hashes = {k1, k2, k3}
  Stray = {}
  HashOf <- TwoNames
  Hosts = {h1, h2}
  StorageOf <- OneEach
  DeltaLimit = 1
  QueueLimit = 1
  MaxRetry = 3
SPECIFICATION FairSpec
PROPERTIES EveryMetricIndexed
