\* A cached call over a cached call and a call with a condition, two callers,
\* in memory or behind a redis that may fail.
CONSTANTS
  c1 = c1
  c2 = c2
  NoCall = NoCall
  Nothing = Nothing
  Callers = {c1, c2}
  Calls <- MixedCalls
  Inner <- MixedInner
  Age <- MixedAge
  KindsOf <- MixedKinds
  Bound <- MixedBound
  BoundOfAny <- RedisBound
  Conditional <- Conditionals
  MaxFetch = 1
  MaxTransit = 1
  Modes = {"lru", "redis"}
  MaxTime = 7
SYMMETRY AnyCaller
SPECIFICATION MCSpec
INVARIANTS TypeOK NothingRefusedIsReused
PROPERTIES BoundedStaleness RejectedOnlyByFetch ImplementsFreshAnswers
