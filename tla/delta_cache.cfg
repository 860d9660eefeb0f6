CONSTANTS
  m1 = m1  m2 = m2  m3 = m3  m4 = m4  k1 = k1  k2 = k2  k3 = k3  h1 = h1  h2 = h2
  Metrics = {m1, m2, m3, m4}
  Hashes = {k1, k2, k3}
  Stray = {k3}
  HashOf <- Collide
  Hosts = {h1, h2}
  StorageOf <- TwoHosts
  DeltaLimit = 1
  QueueLimit = 1
  MaxRetry = 2
SPECIFICATION FairSpec
INVARIANTS OfferedOnce CacheExplained
PROPERTIES DeltaDrains
