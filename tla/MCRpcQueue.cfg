\* Two slots for three queued calls, and one call outside the queue.
CONSTANTS
  p1 = p1
  p2 = p2
  s1 = s1
  d1 = d1
  Requests <- MixedRequests
  Kind <- MixedKind
  Concurrency = 2
  Retry = 2
SPECIFICATION FairSpec
\* Every call is made at most once, so an execution ends.
CHECK_DEADLOCK FALSE
INVARIANTS TypeOK SlotAccounting HeldOnce NoStall ExecutionBounds RejectedAfterLastTry
PROPERTIES ImplementsService EveryCallSettles
