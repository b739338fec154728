------------------------------ MODULE RpcQueue ------------------------------
(***************************************************************************)
(* app/api/rpcApi.js: every call to the node is a task of one async.queue. *)
(* A task holds its slot until its RPC has been answered, has failed or    *)
(* has timed out; a call made with parameters is sent a second time, from  *)
(* the same slot, when the first send fails.  A few routes call the client *)
(* object directly and never enter the queue.                              *)
(*                                                                         *)
(* JavaScript runs one handler to its end, so each action is one handler:  *)
(* a call of the API, a run of the queue's process(), a callback of the    *)
(* RPC client, the retry timer.  async.queue (version 2.6) and the node    *)
(* are modelled from the way rpcApi.js uses them.                          *)
(***************************************************************************)
EXTENDS Integers, Sequences, FiniteSets

CONSTANTS Requests,     \* the calls of one execution, each made at most once
          Kind,         \* how each call is made
          Concurrency,  \* config.rpcConcurrency
          Retry         \* the default of singeRpcCommand's parameter `retry`

\* "single": getRpcData, "batch": getBatchRpcData, "params":
\* getRpcDataWithParams, "direct": a route that calls global.rpcClient.
Kinds == {"single", "batch", "params", "direct"}

ASSUME KindAssumption == Kind \in [Requests -> Kinds]
ASSUME ConcurrencyAssumption == Concurrency \in Nat \ {0}
ASSUME RetryAssumption == Retry \in Nat \ {0}

VARIABLES tasks,                \* rpcQueue._tasks
          processingScheduled,  \* a setImmediate(process) is pending
          numRunning,           \* slots in use, as async.queue counts them
          worker,               \* what the worker of a call is doing
          retry,                \* sends a call has left
          promise,              \* what the caller sees
          work,                 \* sends the node has not finished with
          executed              \* how often the node has run a call

vars == <<tasks, processingScheduled, numRunning, worker, retry, promise,
          work, executed>>

-----------------------------------------------------------------------------

Queued == {r \in Requests : Kind[r] # "direct"}
Settled == {"value", "rpcError", "rejected"}
Tries(r) == IF Kind[r] = "params" THEN Retry ELSE 1

\* The send the client is waiting for, and the calls that hold a slot.
Current(r) == <<r, retry[r]>>
Holders == {r \in Queued : worker[r] # "none"}

TypeOK ==
  /\ tasks \in Seq(Queued)
  /\ processingScheduled \in BOOLEAN
  /\ numRunning \in Nat
  /\ worker \in [Requests -> {"none", "sent", "backoff"}]
  /\ retry \in [Requests -> 1..Retry]
  /\ promise \in [Requests -> {"none", "pending"} \cup Settled]
  /\ work \subseteq Requests \X (1..Retry)
  /\ executed \in [Requests -> Nat]

Init ==
  /\ tasks = <<>>
  /\ processingScheduled = FALSE
  /\ numRunning = 0
  /\ worker = [r \in Requests |-> "none"]
  /\ retry = [r \in Requests |-> Tries(r)]
  /\ promise = [r \in Requests |-> "none"]
  /\ work = {}
  /\ executed = [r \in Requests |-> 0]

-----------------------------------------------------------------------------
\* async.queue

\* process() starts tasks while a slot is free and a task waits.
StartableOffByOne(waiting, running) ==
  IF running + waiting <= Concurrency + 1 THEN waiting ELSE Concurrency + 1 - running
Startable(waiting, running) ==
  IF running + waiting <= Concurrency THEN waiting ELSE Concurrency - running

\* The worker function sends the RPC of each task it is given.
StartTasksKeepLast(workers, running, load) ==
  LET k == Startable(Len(tasks), running)
      started == {tasks[i] : i \in 1..k}
  IN /\ tasks' = SubSeq(tasks, IF k = 0 THEN 1 ELSE k, Len(tasks))
     /\ numRunning' = running + k
     /\ worker' = [r \in Requests |-> IF r \in started THEN "sent" ELSE workers[r]]
     /\ work' = load \cup {Current(r) : r \in started}
StartTasks(workers, running, load) ==
  LET k == Startable(Len(tasks), running)
      started == {tasks[i] : i \in 1..k}
  IN /\ tasks' = SubSeq(tasks, k + 1, Len(tasks))
     /\ numRunning' = running + k
     /\ worker' = [r \in Requests |-> IF r \in started THEN "sent" ELSE workers[r]]
     /\ work' = load \cup {Current(r) : r \in started}

Process ==
  /\ processingScheduled
  /\ processingScheduled' = FALSE
  /\ StartTasks(worker, numRunning, work)
  /\ UNCHANGED <<retry, promise, executed>>

-----------------------------------------------------------------------------
\* The API

\* getRpcData, getBatchRpcData, getRpcDataWithParams: rpcQueue.push.
PushFront(r) ==
  /\ Kind[r] # "direct"
  /\ promise[r] = "none"
  /\ promise' = [promise EXCEPT ![r] = "pending"]
  /\ tasks' = <<r>> \o tasks
  /\ processingScheduled' = TRUE
  /\ UNCHANGED <<numRunning, worker, retry, work, executed>>
Push(r) ==
  /\ Kind[r] # "direct"
  /\ promise[r] = "none"
  /\ promise' = [promise EXCEPT ![r] = "pending"]
  /\ tasks' = Append(tasks, r)
  /\ processingScheduled' = TRUE
  /\ UNCHANGED <<numRunning, worker, retry, work, executed>>

\* A route that calls global.rpcClient.command itself.
CallDirectly(r) ==
  /\ Kind[r] = "direct"
  /\ promise[r] = "none"
  /\ promise' = [promise EXCEPT ![r] = "pending"]
  /\ worker' = [worker EXCEPT ![r] = "sent"]
  /\ work' = work \cup {Current(r)}
  /\ UNCHANGED <<tasks, processingScheduled, numRunning, retry, executed>>

\* The promise is settled, then callback() gives the slot back and
\* async.queue starts the next tasks before it returns.
SettleNoCallback(r, outcome, load) ==
  /\ promise' = [promise EXCEPT ![r] = outcome]
  /\ worker' = [worker EXCEPT ![r] = "none"]
  /\ work' = load
  /\ UNCHANGED <<tasks, processingScheduled, numRunning, retry>>
SettleNoProcess(r, outcome, load) ==
  /\ promise' = [promise EXCEPT ![r] = outcome]
  /\ worker' = [worker EXCEPT ![r] = "none"]
  /\ work' = load
  /\ numRunning' = IF Kind[r] = "direct" THEN numRunning ELSE numRunning - 1
  /\ UNCHANGED <<tasks, processingScheduled, retry>>
Settle(r, outcome, load) ==
  /\ promise' = [promise EXCEPT ![r] = outcome]
  /\ UNCHANGED <<processingScheduled, retry>>
  /\ LET freed == [worker EXCEPT ![r] = "none"]
     IN \/ /\ Kind[r] # "direct"
           /\ StartTasks(freed, numRunning - 1, load)
        \/ /\ Kind[r] = "direct"
           /\ worker' = freed
           /\ work' = load
           /\ UNCHANGED <<tasks, numRunning>>

\* The node answers in time.  An RPC error is an `err` for the single form,
\* an element that rejects the whole batch for the batch form, and an
\* object the promise is FULFILLED with for the form with parameters.
Answer(r) ==
  /\ worker[r] = "sent"
  /\ Current(r) \in work
  /\ executed' = [executed EXCEPT ![r] = @ + 1]
  /\ \E outcome \in {"value", IF Kind[r] = "params" THEN "rpcError" ELSE "rejected"} :
       Settle(r, outcome, work \ {Current(r)})

\* The connection fails, and the node drops the send, or the client's
\* timeout fires, and the node goes on with it.
LoadsAfterFailure(r) == {work, work \ {Current(r)}}

\* The last send fails: reject, callback().
GiveUpEarly(r) ==
  /\ worker[r] = "sent"
  /\ \E load \in LoadsAfterFailure(r) : Settle(r, "rejected", load)
  /\ UNCHANGED executed
GiveUpNoCallback(r) ==
  /\ worker[r] = "sent"
  /\ Kind[r] # "params" \/ retry[r] <= 1
  /\ \E load \in LoadsAfterFailure(r) : SettleNoCallback(r, "rejected", load)
  /\ UNCHANGED executed
GiveUp(r) ==
  /\ worker[r] = "sent"
  /\ Kind[r] # "params" \/ retry[r] <= 1
  /\ \E load \in LoadsAfterFailure(r) : Settle(r, "rejected", load)
  /\ UNCHANGED executed

\* singeRpcCommand: an earlier send fails, setTimeout(..., 10).
RetryForever(r) ==
  /\ worker[r] = "sent"
  /\ Kind[r] = "params"
  /\ worker' = [worker EXCEPT ![r] = "backoff"]
  /\ work' \in LoadsAfterFailure(r)
  /\ UNCHANGED <<tasks, processingScheduled, numRunning, retry, promise, executed>>
RetryLater(r) ==
  /\ worker[r] = "sent"
  /\ Kind[r] = "params"
  /\ retry[r] > 1
  /\ worker' = [worker EXCEPT ![r] = "backoff"]
  /\ work' \in LoadsAfterFailure(r)
  /\ UNCHANGED <<tasks, processingScheduled, numRunning, retry, promise, executed>>

\* The timer: retry--, send again.
ResendSameRetry(r) ==
  /\ worker[r] = "backoff"
  /\ worker' = [worker EXCEPT ![r] = "sent"]
  /\ work' = work \cup {Current(r)}
  /\ UNCHANGED <<tasks, processingScheduled, numRunning, retry, promise, executed>>
Resend(r) ==
  /\ worker[r] = "backoff"
  /\ worker' = [worker EXCEPT ![r] = "sent"]
  /\ retry' = [retry EXCEPT ![r] = @ - 1]
  /\ work' = work \cup {<<r, retry[r] - 1>>}
  /\ UNCHANGED <<tasks, processingScheduled, numRunning, promise, executed>>

\* The node finishes, or loses, a send nobody waits for any more.
FinishAbandoned(r, n) ==
  /\ <<r, n>> \in work
  /\ worker[r] # "sent" \/ retry[r] # n
  /\ work' = work \ {<<r, n>>}
  /\ \E runs \in {0, 1} : executed' = [executed EXCEPT ![r] = @ + runs]
  /\ UNCHANGED <<tasks, processingScheduled, numRunning, worker, retry, promise>>

-----------------------------------------------------------------------------

Next ==
  \/ Process
  \/ \E r \in Requests :
       \/ Push(r) \/ CallDirectly(r)
       \/ Answer(r) \/ GiveUp(r) \/ RetryLater(r) \/ Resend(r)
       \/ \E n \in 1..Retry : FinishAbandoned(r, n)

Spec == Init /\ [][Next]_vars

\* The event loop runs what is scheduled, timers fire, and every client
\* object has a timeout, so a send is answered or fails.  Nothing obliges
\* the node to finish a send the client has abandoned.
Fairness ==
  /\ WF_vars(Process)
  /\ \A r \in Requests :
       /\ WF_vars(Answer(r) \/ GiveUp(r) \/ RetryLater(r))
       /\ WF_vars(Resend(r))

FairSpec == Spec /\ Fairness

-----------------------------------------------------------------------------
\* Properties

\* async.queue's count of slots is the number of calls that hold one, and
\* it stays within config.rpcConcurrency: no path through the callbacks
\* forgets callback() or calls it twice.
SlotAccounting ==
  /\ numRunning = Cardinality(Holders)
  /\ numRunning <= Concurrency

\* A call is in the queue once, and only while nobody works on it.
QueueCoherent ==
  /\ \A i, j \in 1..Len(tasks) : tasks[i] = tasks[j] => i = j
  /\ \A i \in 1..Len(tasks) : /\ promise[tasks[i]] = "pending"
                              /\ worker[tasks[i]] = "none"

\* No pending caller is forgotten: its call waits in the queue or somebody
\* works on it, and nobody works for a caller that has its answer.
PendingIsHeld ==
  \A r \in Requests :
    promise[r] = "pending" <=> r \in {tasks[i] : i \in 1..Len(tasks)} \/ worker[r] # "none"

\* No pending caller is forgotten, and none is held twice, in the queue or beside it.
HeldOnce == QueueCoherent /\ PendingIsHeld

\* Tasks wait beside a free slot only while a run of process() is due: the
\* queue cannot stall with work in it.
NoStall ==
  tasks # <<>> /\ numRunning < Concurrency => processingScheduled

\* A caller told a value or an RPC error was answered by the node; and the
\* node runs a call at most Tries times, late answers to abandoned sends
\* included.
ExecutionBounds ==
  \A r \in Requests :
    /\ promise[r] \in {"value", "rpcError"} => executed[r] >= 1
    /\ executed[r] <= Tries(r)

\* A call with parameters that the node never ran is rejected only after
\* its last send: one failure of the connection is not the caller's.
RejectedAfterLastTry ==
  \A r \in Requests :
    promise[r] = "rejected" /\ executed[r] = 0 => retry[r] = 1

\* A promise is settled once, and its call leaves the queue first in,
\* first out, with at most Concurrency in service.
Service == INSTANCE RpcService WITH
  Requests <- Queued,
  line <- tasks,
  serving <- Holders,
  answer <- [r \in Queued |-> promise[r]]
ImplementsService == Service!Spec

\* Every caller is answered.
EveryCallSettles ==
  \A r \in Requests : promise[r] = "pending" ~> promise[r] \in Settled
=============================================================================
