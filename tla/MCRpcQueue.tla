----------------------------- MODULE MCRpcQueue -----------------------------
\* Instances of RpcQueue for TLC.
EXTENDS RpcQueue, TLC

CONSTANTS p1, p2, s1, d1

\* Two slots' worth of retries, a single call (a batch behaves as one) and a
\* call beside the queue.
MixedRequests == {p1, p2, s1, d1}
MixedKind == (p1 :> "params") @@ (p2 :> "params") @@ (s1 :> "single") @@ (d1 :> "direct")
=============================================================================
