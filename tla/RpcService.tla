----------------------------- MODULE RpcService -----------------------------
(***************************************************************************)
(* What app/api/rpcApi.js promises its callers: requests wait in one line, *)
(* are served in the order they arrived, at most Concurrency of them at a  *)
(* time, and each is answered once.  How a request is sent to the node,    *)
(* and how often, is left to RpcQueue.                                     *)
(***************************************************************************)
EXTENDS Integers, Sequences, FiniteSets

CONSTANTS Requests, Concurrency

VARIABLES line,     \* the requests that wait, oldest first
          serving,  \* the requests that occupy a slot
          answer    \* what each caller has been told

vars == <<line, serving, answer>>

Settled == {"value", "rpcError", "rejected"}

Init ==
  /\ line = <<>>
  /\ serving = {}
  /\ answer = [r \in Requests |-> "none"]

Ask(r) ==
  /\ answer[r] = "none"
  /\ answer' = [answer EXCEPT ![r] = "pending"]
  /\ line' = Append(line, r)
  /\ UNCHANGED serving

\* The first k of the line get a slot, next to the requests of `others`.
Admit(k, others) ==
  /\ serving' = others \cup {line[i] : i \in 1..k}
  /\ line' = SubSeq(line, k + 1, Len(line))
  /\ Cardinality(serving') <= Concurrency

Begin ==
  /\ \E k \in 0..Len(line) : Admit(k, serving)
  /\ UNCHANGED answer

Finish(r) ==
  /\ r \in serving
  /\ \E a \in Settled : answer' = [answer EXCEPT ![r] = a]
  /\ \E k \in 0..Len(line) : Admit(k, serving \ {r})

Next ==
  \/ \E r \in Requests : Ask(r) \/ Finish(r)
  \/ Begin

Spec == Init /\ [][Next]_vars
=============================================================================
