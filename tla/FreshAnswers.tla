---------------------------- MODULE FreshAnswers ----------------------------
(***************************************************************************)
(* What app/cache.js promises the callers of app/api/coreApi.js: a call is *)
(* answered with what the node has said of that very call, at a moment no  *)
(* further back than the Bound of the call; an answer that is handed out   *)
(* again is one that may be; and a call is rejected only when the node was *)
(* asked.  What is kept, under which key, and how calls nest, is left to   *)
(* ResponseCache.                                                          *)
(***************************************************************************)
EXTENDS Integers

CONSTANTS Callers, Calls,
          KindsOf,    \* the kinds of answer the node may give to a call
          Reusable,   \* the kinds of answer to a call that may be handed out again
          Bound,      \* how old an answer to a call may be
          Nobody,     \* no call
          Nothing     \* no answer

VARIABLES now,     \* the clock
          asked,   \* the call each caller has made
          state,   \* where that call is
          answer   \* what the caller has been given

vars == <<now, asked, state, answer>>

Init ==
  /\ now = 0
  /\ asked = [c \in Callers |-> Nobody]
  /\ state = [c \in Callers |-> "idle"]
  /\ answer = [c \in Callers |-> Nothing]

Ask(c) ==
  /\ state[c] \in {"idle", "done", "rejected"}
  /\ state' = [state EXCEPT ![c] = "waiting"]
  /\ answer' = [answer EXCEPT ![c] = Nothing]
  /\ \E call \in Calls : asked' = [asked EXCEPT ![c] = call]
  /\ UNCHANGED now

Goes(c, from, to) ==
  /\ state[c] = from
  /\ state' = [state EXCEPT ![c] = to]
  /\ UNCHANGED <<now, asked, answer>>

AskNode(c) == Goes(c, "waiting", "atNode")
NodeAnswers(c) == Goes(c, "atNode", "waiting")
Reject(c) == Goes(c, "atNode", "rejected")

Timely(call) == {time \in 0..now : now <= time + Bound[call]}

Give(c) ==
  /\ state[c] = "waiting"
  /\ state' = [state EXCEPT ![c] = "done"]
  /\ \E time \in Timely(asked[c]), kind \in KindsOf[asked[c]], again \in BOOLEAN :
       /\ again => kind \in Reusable[asked[c]]
       /\ answer' = [answer EXCEPT ![c] = [call |-> asked[c], kind |-> kind,
                                           readAt |-> time, stored |-> again]]
  /\ UNCHANGED <<now, asked>>

Tick ==
  /\ now' = now + 1
  /\ UNCHANGED <<asked, state, answer>>

Next ==
  \/ Tick
  \/ \E c \in Callers :
       Ask(c) \/ AskNode(c) \/ NodeAnswers(c) \/ Reject(c) \/ Give(c)

Spec == Init /\ [][Next]_vars
=============================================================================
