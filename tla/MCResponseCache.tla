--------------------------- MODULE MCResponseCache ---------------------------
\* Instances of ResponseCache for TLC.  The page of an address's deltas is
\* cached over the unpaged ones, under a key that differs in the page alone;
\* a transaction has a condition.
EXTENDS ResponseCache, TLC

CONSTANTS c1, c2

Deltas == [fn |-> "getAddressDeltas", arg |-> "addr", page |-> 0]
Page == [fn |-> "getAddressDeltas", arg |-> "addr", page |-> 1]
Tx == [fn |-> "getRawTransaction", arg |-> "txid", page |-> 0]

MixedCalls == {Deltas, Page, Tx}
MixedInner == (Deltas :> NoCall) @@ (Page :> Deltas) @@ (Tx :> NoCall)
MixedAge == (Deltas :> 0) @@ (Page :> 1) @@ (Tx :> 0)
MixedKinds ==
  (Deltas :> {"plain"}) @@ (Page :> {"plain", "null"}) @@ (Tx :> {"plain", "unconfirmed"})
LocalBound == (Deltas :> 1) @@ (Page :> 2) @@ (Tx :> 1)
RedisBound == (Deltas :> 3) @@ (Page :> 6) @@ (Tx :> 3)
MixedBound == [m \in Modes |-> IF m = "redis" THEN RedisBound ELSE LocalBound]
Conditionals == {Tx}

AnyCaller == Permutations({c1, c2})

MCNext ==
  /\ Next
  /\ mode = "lru" => now' <= 3
  /\ mode = "redis" => \A c \in Callers : path'[c] = <<>> \/ path'[c][1] # Tx
MCSpec == Init /\ [][MCNext]_vars
=============================================================================
