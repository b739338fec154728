--------------------------- MODULE MCReachability ---------------------------
\* Instances of Reachability for TLC: two of the nodes share an address.
EXTENDS Reachability, TLC

CONSTANTS r1, r2, v1, n1, n2, n3, a1, a2

Shared == n1 :> a1 @@ n2 :> a2 @@ n3 :> a2

\* With redis, where every await lets others run, any two requests but not all three.
MCReachNext == ReachNext /\ (cacheBackend = "redis" => \E r \in Requests : pc'[r] = "idle")
MCReachFairSpec == ReachInit /\ [][MCReachNext]_reachVars /\ ReachFairness
=============================================================================
