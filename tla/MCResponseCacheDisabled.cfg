\* BTCEXP_NO_INMEMORY_RPC_CACHE=true.
CONSTANTS
  c1 = c1
  c2 = c2
  NoCall = NoCall
  Nothing = Nothing
  Callers = {c1, c2}
  Calls <- MixedCalls
  Inner <- MixedInner
  Age <- MixedAge
  KindsOf <- MixedKinds
  Bound <- MixedBound
  BoundOfAny <- RedisBound
  Conditional <- Conditionals
  MaxFetch = 1
  MaxTransit = 1
  Modes = {"none"}
  MaxTime = 1
SPECIFICATION Spec
PROPERTIES RejectedOnlyByFetch
