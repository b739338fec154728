\* All pages in both caches: overlapping requests, revisits, failures.
CONSTANTS
  c1 = c1
  c2 = c2
  b1 = b1
  b2 = b2
  k1 = k1
  k2 = k2
  t1 = t1
  t2 = t2
  t3 = t3
  None = None
  Callers = {c1, c2}
  Blocks = {b1, b2}
  Txs = {k1, k2, t1, t2, t3}
  Tx <- Chain
  Vin <- Spends
  Limit = 2
  Pages <- AllPages
  Backends = {"lru", "redis"}
  Failures = {"clobber"}
  MaxPages = 3
SPECIFICATION FairSpec
\* MaxPages ends every execution.
CHECK_DEADLOCK FALSE
INVARIANTS TypeOK CoinbaseIsFirst PageMissesNothing InputsComplete PageIsExact
PROPERTIES EveryPageIsRendered
