\* A count beside the list of nodes, in-memory cache.
CONSTANTS
  r1 = r1
  r2 = r2
  v1 = v1
  n1 = n1
  n2 = n2
  n3 = n3
  a1 = a1
  a2 = a2
  Counters = {r1}
  Viewers = {v1}
  Masternodes = {n1, n2, n3}
  Hosts = {a1, a2}
  HostOf <- Shared
  CacheBackends = {"lru"}
SPECIFICATION MCReachFairSpec
PROPERTIES EveryCountIsAnswered
