--------------------------- MODULE RpcQueueProofs ---------------------------
(***************************************************************************)
(* Theorems about RpcQueue, for every set of calls, every concurrency and  *)
(* every number of tries.                                                  *)
(*                                                                         *)
(* The inductive invariant joins the type invariant, the accounting of     *)
(* slots (with the finiteness Cardinality needs), the coherence of the     *)
(* queue, the callers that wait and the absence of a stall.  The calls a   *)
(* run of process() takes from the queue are counted by a bijection from   *)
(* an interval, which exists because no call is in the queue twice.        *)
(***************************************************************************)
EXTENDS RpcQueue, FiniteSetTheorems, SequenceTheorems, TLAPS

HolderSet(workers) == {r \in Queued : workers[r] # "none"}
Waiting(line) == {line[i] : i \in 1..Len(line)}
NoDuplicates(line) == \A i, j \in 1..Len(line) : line[i] = line[j] => i = j

WorkerStates == {"none", "sent", "backoff"}

SlotInv ==
  /\ IsFiniteSet(Holders)
  /\ SlotAccounting

\* The timer of a retry is set only by a call that has a send left.
BackoffHasTry ==
  \A r \in Requests : worker[r] = "backoff" => Kind[r] = "params" /\ retry[r] > 1

IInv ==
  /\ TypeOK /\ SlotInv /\ QueueCoherent /\ PendingIsHeld /\ NoStall
  /\ BackoffHasTry

-----------------------------------------------------------------------------
\* The number of tasks process() starts fits the queue and the free slots,
\* and either the queue or the slots are exhausted.
LEMMA StartableBounds ==
  ASSUME NEW waiting \in Nat, NEW running \in 0..Concurrency
  PROVE  /\ Startable(waiting, running) \in 0..waiting
         /\ running + Startable(waiting, running) \in 0..Concurrency
         /\ \/ Startable(waiting, running) = waiting
            \/ running + Startable(waiting, running) = Concurrency
BY ConcurrencyAssumption DEF Startable

\* A prefix of a line without duplicates holds as many calls as it is long.
LEMMA PrefixCardinality ==
  ASSUME NEW S, NEW line \in Seq(S), NoDuplicates(line), NEW k \in 0..Len(line)
  PROVE  /\ IsFiniteSet({line[i] : i \in 1..k})
         /\ Cardinality({line[i] : i \in 1..k}) = k
<1> DEFINE T == {line[i] : i \in 1..k}
           f == [i \in 1..k |-> line[i]]
<1>1. k \in Nat /\ 1..k \subseteq 1..Len(line)
  BY LenProperties
<1>2. f \in Bijection(1..k, T)
  BY <1>1 DEF Bijection, Injection, Surjection, IsInjective, NoDuplicates
<1>3. ExistsBijection(1..k, T)
  BY <1>2 DEF ExistsBijection
<1>4. IsFiniteSet(1..k) /\ Cardinality(1..k) = k
  BY <1>1, FS_Interval
<1> QED
  BY <1>3, <1>4, FS_Bijection

\* What is left of a line after its first k calls.
LEMMA RestOfLine ==
  ASSUME NEW S, NEW line \in Seq(S), NoDuplicates(line), NEW k \in 0..Len(line)
  PROVE  LET rest == SubSeq(line, k + 1, Len(line))
         IN  /\ rest \in Seq(S)
             /\ Len(rest) = Len(line) - k
             /\ \A i \in 1..Len(rest) : rest[i] = line[k + i]
             /\ NoDuplicates(rest)
             /\ \A i \in 1..Len(rest) : rest[i] \notin {line[j] : j \in 1..k}
             /\ Waiting(line) = {line[j] : j \in 1..k} \cup Waiting(rest)
<1> DEFINE rest == SubSeq(line, k + 1, Len(line))
<1>1. /\ Len(line) \in Nat
      /\ \A i \in 1..Len(line) : line[i] \in S
  BY LenProperties, ElementOfSeq
<1>2. \A i \in (k + 1)..Len(line) : line[i] \in S
  BY <1>1
<1>3. /\ rest \in Seq(S)
      /\ Len(rest) = IF k + 1 <= Len(line) THEN Len(line) - (k + 1) + 1 ELSE 0
      /\ \A i \in 1..(Len(line) - (k + 1) + 1) : rest[i] = line[(k + 1) + i - 1]
  BY <1>1, <1>2, SubSeqProperties
<1>4. Len(rest) = Len(line) - k
  BY <1>1, <1>3
<1>5. \A i \in 1..Len(rest) : rest[i] = line[k + i] /\ k + i \in 1..Len(line)
  BY <1>1, <1>3, <1>4
<1>6. NoDuplicates(rest)
  BY <1>1, <1>4, <1>5 DEF NoDuplicates
<1>7. \A i \in 1..Len(rest) : rest[i] \notin {line[j] : j \in 1..k}
  BY <1>1, <1>4, <1>5 DEF NoDuplicates
<1>8. Waiting(line) = {line[j] : j \in 1..k} \cup Waiting(rest)
  <2>1. ASSUME NEW i \in 1..Len(line), i > k
        PROVE  line[i] \in Waiting(rest)
    <3>1. i - k \in 1..Len(rest) /\ line[i] = rest[i - k]
      BY <2>1, <1>1, <1>4, <1>5
    <3> QED
      BY <3>1 DEF Waiting
  <2>2. Waiting(rest) \subseteq Waiting(line)
    BY <1>5 DEF Waiting
  <2>3. {line[j] : j \in 1..k} \subseteq Waiting(line)
    BY <1>1 DEF Waiting
  <2>4. ASSUME NEW i \in 1..Len(line)
        PROVE  line[i] \in {line[j] : j \in 1..k} \cup Waiting(rest)
    <3>1. CASE i <= k
      BY <3>1, <1>1
    <3>2. CASE i > k
      BY <3>2, <2>1
    <3> QED
      BY <3>1, <3>2, <1>1
  <2>5. Waiting(line) \subseteq {line[j] : j \in 1..k} \cup Waiting(rest)
    BY <2>4 DEF Waiting
  <2> QED
    BY <2>2, <2>3, <2>5
<1> QED
  BY <1>3, <1>4, <1>5, <1>6, <1>7, <1>8

-----------------------------------------------------------------------------
\* StartTasks, called with `running` slots in use by the calls `workers`
\* names: what every caller of process() relies on.
LEMMA StartTasksKeepsInv ==
  ASSUME TypeOK, NoDuplicates(tasks),
         NEW workers \in [Requests -> WorkerStates],
         NEW running \in 0..Concurrency,
         NEW load \in SUBSET (Requests \X (1..Retry)),
         IsFiniteSet(HolderSet(workers)),
         running = Cardinality(HolderSet(workers)),
         \A i \in 1..Len(tasks) : workers[tasks[i]] = "none",
         StartTasks(workers, running, load)
  PROVE  /\ tasks' \in Seq(Queued)
         /\ numRunning' \in 0..Concurrency
         /\ worker' \in [Requests -> WorkerStates]
         /\ work' \subseteq Requests \X (1..Retry)
         /\ IsFiniteSet(HolderSet(worker'))
         /\ numRunning' = Cardinality(HolderSet(worker'))
         /\ NoDuplicates(tasks')
         /\ Waiting(tasks') \subseteq Waiting(tasks)
         /\ \A i \in 1..Len(tasks') : worker'[tasks'[i]] = "none"
         /\ tasks' # <<>> => numRunning' = Concurrency
         /\ \A r \in Requests : worker'[r] = "backoff" => workers[r] = "backoff"
         /\ \A r \in Requests :
              r \in Waiting(tasks') \/ worker'[r] # "none" <=>
              r \in Waiting(tasks) \/ workers[r] # "none"
<1> DEFINE k == Startable(Len(tasks), running)
           started == {tasks[i] : i \in 1..k}
<1>1. /\ tasks \in Seq(Queued)
      /\ Len(tasks) \in Nat
      /\ \A i \in 1..Len(tasks) : tasks[i] \in Queued
      /\ retry \in [Requests -> 1..Retry]
  BY LenProperties, ElementOfSeq DEF TypeOK
<1>2. /\ k \in 0..Len(tasks)
      /\ running + k \in 0..Concurrency
      /\ k = Len(tasks) \/ running + k = Concurrency
  BY <1>1, StartableBounds
<1>3. /\ tasks' = SubSeq(tasks, k + 1, Len(tasks))
      /\ numRunning' = running + k
      /\ worker' = [r \in Requests |-> IF r \in started THEN "sent" ELSE workers[r]]
      /\ work' = load \cup {Current(r) : r \in started}
  BY DEF StartTasks
<1>4. /\ tasks' \in Seq(Queued)
      /\ Len(tasks') = Len(tasks) - k
      /\ \A i \in 1..Len(tasks') : tasks'[i] = tasks[k + i]
      /\ NoDuplicates(tasks')
      /\ \A i \in 1..Len(tasks') : tasks'[i] \notin started
      /\ Waiting(tasks) = started \cup Waiting(tasks')
  <2> HIDE DEF k
  <2>1. tasks \in Seq(Queued) /\ NoDuplicates(tasks) /\ k \in 0..Len(tasks)
    BY <1>1, <1>2
  <2> QED
    BY <2>1, <1>3, RestOfLine
<1>5. IsFiniteSet(started) /\ Cardinality(started) = k
  BY <1>1, <1>2, PrefixCardinality
<1>6. started \subseteq Queued /\ Queued \subseteq Requests
  BY <1>1, <1>2 DEF Queued
<1>7. /\ worker' \in [Requests -> WorkerStates]
      /\ HolderSet(worker') = HolderSet(workers) \cup started
  BY <1>3, <1>6 DEF HolderSet, WorkerStates
<1>8. HolderSet(workers) \cap started = {}
  BY <1>2, <1>1 DEF HolderSet
<1>9. /\ IsFiniteSet(HolderSet(worker'))
      /\ numRunning' = Cardinality(HolderSet(worker'))
  <2>1. Cardinality(HolderSet(workers) \cap started) = 0
    BY <1>8, FS_EmptySet
  <2>2. /\ IsFiniteSet(HolderSet(workers) \cup started)
        /\ Cardinality(HolderSet(workers) \cup started) =
             Cardinality(HolderSet(workers)) + Cardinality(started)
             - Cardinality(HolderSet(workers) \cap started)
    BY <1>5, FS_Union
  <2>3. Cardinality(HolderSet(workers) \cup started) = running + k
    <3> HIDE DEF k, started
    <3> QED
      BY <2>1, <2>2, <1>5, <1>2
  <2> QED
    BY <2>2, <2>3, <1>3, <1>7
<1>10. work' \subseteq Requests \X (1..Retry)
  BY <1>3, <1>6, <1>1 DEF Current
<1>11. tasks' # <<>> => numRunning' = Concurrency
  <2>1. SUFFICES ASSUME tasks' # <<>> PROVE numRunning' = Concurrency
    OBVIOUS
  <2>2. Len(tasks') # 0
    BY <2>1, <1>4, EmptySeq
  <2> QED
    BY <2>2, <1>1, <1>2, <1>3, <1>4
<1>12. \A i \in 1..Len(tasks') : worker'[tasks'[i]] = "none"
  <2>1. ASSUME NEW i \in 1..Len(tasks') PROVE worker'[tasks'[i]] = "none"
    <3>1. /\ k + i \in 1..Len(tasks)
          /\ tasks'[i] = tasks[k + i]
          /\ tasks'[i] \notin started
      BY <1>1, <1>2, <1>4
    <3> QED
      BY <3>1, <1>1, <1>3, <1>6
  <2> QED
    BY <2>1
<1>13. \A r \in Requests :
         r \in Waiting(tasks') \/ worker'[r] # "none" <=>
         r \in Waiting(tasks) \/ workers[r] # "none"
  BY <1>3, <1>4
<1>14. \A r \in Requests : worker'[r] = "backoff" => workers[r] = "backoff"
  BY <1>3
<1> QED
  BY <1>2, <1>3, <1>4, <1>7, <1>9, <1>10, <1>11, <1>12, <1>13, <1>14

-----------------------------------------------------------------------------
\* Settling a promise gives the slot back and restarts the queue.
LEMMA SettleKeepsInv ==
  ASSUME IInv, NEW r \in Requests, worker[r] = "sent",
         NEW outcome \in Settled,
         NEW load \in SUBSET (Requests \X (1..Retry)),
         Settle(r, outcome, load),
         executed' \in [Requests -> Nat]
  PROVE  IInv'
<1> DEFINE freed == [worker EXCEPT ![r] = "none"]
<1> USE DEF IInv
<1>1. /\ promise' = [promise EXCEPT ![r] = outcome]
      /\ UNCHANGED <<processingScheduled, retry>>
  BY DEF Settle
<1>2. /\ promise' \in [Requests -> {"none", "pending"} \cup Settled]
      /\ promise'[r] # "pending"
      /\ \A s \in Requests \ {r} : promise'[s] = promise[s]
  BY <1>1 DEF TypeOK, Settled
<1>3. /\ tasks \in Seq(Queued)
      /\ \A i \in 1..Len(tasks) : tasks[i] \in Queued /\ tasks[i] \in Requests
      /\ \A i \in 1..Len(tasks) : tasks[i] # r
  <2>1. tasks \in Seq(Queued)
    BY DEF TypeOK
  <2>2. \A i \in 1..Len(tasks) : tasks[i] \in Queued
    BY <2>1, ElementOfSeq
  <2> QED
    BY <2>1, <2>2 DEF QueueCoherent, Queued
<1>4. /\ freed \in [Requests -> WorkerStates]
      /\ freed[r] = "none"
      /\ \A s \in Requests \ {r} : freed[s] = worker[s]
      /\ \A i \in 1..Len(tasks) : freed[tasks[i]] = "none"
  BY <1>3 DEF TypeOK, WorkerStates, QueueCoherent
<1>5. \A s \in Requests :
        promise'[s] = "pending" <=> s \in Waiting(tasks) \/ freed[s] # "none"
  BY <1>2, <1>3, <1>4 DEF PendingIsHeld, Waiting
<1>6. NoDuplicates(tasks)
  BY DEF NoDuplicates, QueueCoherent
<1>7. CASE /\ Kind[r] # "direct"
           /\ StartTasks(freed, numRunning - 1, load)
  <2>1. r \in Holders /\ HolderSet(freed) = Holders \ {r}
    BY <1>4, <1>7 DEF Holders, HolderSet, Queued, TypeOK
  <2>2. IsFiniteSet(HolderSet(freed)) /\ Cardinality(HolderSet(freed)) = numRunning - 1
    BY <2>1, FS_RemoveElement DEF SlotInv, SlotAccounting
  <2>3. numRunning - 1 \in 0..Concurrency
    BY <2>2, FS_CardinalityType, ConcurrencyAssumption
       DEF SlotInv, SlotAccounting, TypeOK
  <2>4. /\ tasks' \in Seq(Queued)
        /\ numRunning' \in 0..Concurrency
        /\ worker' \in [Requests -> WorkerStates]
        /\ work' \subseteq Requests \X (1..Retry)
        /\ IsFiniteSet(HolderSet(worker'))
        /\ numRunning' = Cardinality(HolderSet(worker'))
        /\ NoDuplicates(tasks')
        /\ Waiting(tasks') \subseteq Waiting(tasks)
        /\ \A i \in 1..Len(tasks') : worker'[tasks'[i]] = "none"
        /\ tasks' # <<>> => numRunning' = Concurrency
        /\ \A s \in Requests : worker'[s] = "backoff" => freed[s] = "backoff"
        /\ \A s \in Requests :
             s \in Waiting(tasks') \/ worker'[s] # "none" <=>
             s \in Waiting(tasks) \/ freed[s] # "none"
    <3> HIDE DEF freed
    <3> QED
      BY <1>4, <1>6, <1>7, <2>2, <2>3, StartTasksKeepsInv
  <2>5. TypeOK'
    BY <2>4, <1>1, <1>2 DEF TypeOK, WorkerStates
  <2>6. SlotInv'
    BY <2>4 DEF SlotInv, SlotAccounting, Holders, HolderSet
  <2>7. \A s \in Requests :
          promise'[s] = "pending" <=> s \in Waiting(tasks') \/ worker'[s] # "none"
    BY <1>5, <2>4
  <2>8. PendingIsHeld'
    BY <2>7 DEF PendingIsHeld, Waiting
  <2>9. QueueCoherent'
    <3>1. \A i \in 1..Len(tasks') : tasks'[i] \in Requests /\ tasks'[i] \in Waiting(tasks')
      BY <2>4, ElementOfSeq DEF Waiting, Queued
    <3>2. \A i \in 1..Len(tasks') : promise'[tasks'[i]] = "pending"
      BY <3>1, <2>7
    <3> QED
      BY <3>2, <2>4 DEF QueueCoherent, NoDuplicates
  <2>10. NoStall'
    BY <2>4, ConcurrencyAssumption DEF NoStall
  <2>11. BackoffHasTry'
    BY <2>4, <1>1, <1>4 DEF BackoffHasTry
  <2> QED
    BY <2>5, <2>6, <2>8, <2>9, <2>10, <2>11
<1>8. CASE /\ Kind[r] = "direct"
           /\ worker' = freed
           /\ work' = load
           /\ UNCHANGED <<tasks, numRunning>>
  <2>1. TypeOK'
    BY <1>8, <1>1, <1>2, <1>4 DEF TypeOK, WorkerStates
  <2>2. Holders' = Holders
    BY <1>8, <1>4 DEF Holders, Queued
  <2>3. SlotInv'
    BY <2>2, <1>8 DEF SlotInv, SlotAccounting
  <2>4. PendingIsHeld'
    BY <1>8, <1>5 DEF PendingIsHeld, Waiting
  <2>5. QueueCoherent'
    BY <1>8, <1>2, <1>3, <1>4 DEF QueueCoherent
  <2>6. NoStall'
    BY <1>8, <1>1 DEF NoStall
  <2>7. BackoffHasTry'
    BY <1>8, <1>1, <1>4 DEF BackoffHasTry
  <2> QED
    BY <2>1, <2>3, <2>4, <2>5, <2>6, <2>7
<1> QED
  BY <1>7, <1>8 DEF Settle

-----------------------------------------------------------------------------
LEMMA InitEstablishesInv == Init => IInv
<1> SUFFICES ASSUME Init PROVE IInv
  OBVIOUS
<1> USE DEF Init
<1>1. TypeOK
  <2>1. \A r \in Requests : Tries(r) \in 1..Retry
    BY RetryAssumption DEF Tries
  <2> QED
    BY <2>1, EmptySeq DEF TypeOK
<1>2. Holders = {}
  BY DEF Holders, Queued
<1>3. SlotInv
  BY <1>2, FS_EmptySet, ConcurrencyAssumption DEF SlotInv, SlotAccounting
<1>4. QueueCoherent /\ PendingIsHeld /\ NoStall /\ BackoffHasTry
  BY DEF QueueCoherent, PendingIsHeld, NoStall, BackoffHasTry
<1> QED
  BY <1>1, <1>3, <1>4 DEF IInv

LEMMA ProcessKeepsInv ==
  ASSUME IInv, Process
  PROVE  IInv'
<1> USE DEF IInv
<1>1. /\ StartTasks(worker, numRunning, work)
      /\ processingScheduled' = FALSE
      /\ UNCHANGED <<retry, promise, executed>>
  BY DEF Process
<1>2. /\ NoDuplicates(tasks)
      /\ worker \in [Requests -> WorkerStates]
      /\ work \in SUBSET (Requests \X (1..Retry))
      /\ \A i \in 1..Len(tasks) : worker[tasks[i]] = "none"
  BY DEF TypeOK, WorkerStates, QueueCoherent, NoDuplicates
<1>3. /\ HolderSet(worker) = Holders
      /\ IsFiniteSet(HolderSet(worker))
      /\ numRunning = Cardinality(HolderSet(worker))
      /\ numRunning \in 0..Concurrency
  BY ConcurrencyAssumption DEF HolderSet, Holders, SlotInv, SlotAccounting, TypeOK
<1>4. /\ tasks' \in Seq(Queued)
      /\ numRunning' \in 0..Concurrency
      /\ worker' \in [Requests -> WorkerStates]
      /\ work' \subseteq Requests \X (1..Retry)
      /\ IsFiniteSet(HolderSet(worker'))
      /\ numRunning' = Cardinality(HolderSet(worker'))
      /\ NoDuplicates(tasks')
      /\ Waiting(tasks') \subseteq Waiting(tasks)
      /\ \A i \in 1..Len(tasks') : worker'[tasks'[i]] = "none"
      /\ tasks' # <<>> => numRunning' = Concurrency
      /\ \A s \in Requests : worker'[s] = "backoff" => worker[s] = "backoff"
      /\ \A s \in Requests :
           s \in Waiting(tasks') \/ worker'[s] # "none" <=>
           s \in Waiting(tasks) \/ worker[s] # "none"
  BY <1>1, <1>2, <1>3, StartTasksKeepsInv
<1>5. TypeOK'
  <2>1. numRunning' \in Nat
    BY <1>4, ConcurrencyAssumption
  <2>2. executed' \in [Requests -> Nat] /\ retry' \in [Requests -> 1..Retry]
        /\ promise' \in [Requests -> {"none", "pending"} \cup Settled]
        /\ processingScheduled' \in BOOLEAN
    BY <1>1 DEF TypeOK
  <2> QED
    BY <1>4, <2>1, <2>2 DEF TypeOK, WorkerStates
<1>6. SlotInv'
  BY <1>4 DEF SlotInv, SlotAccounting, Holders, HolderSet
<1>7. \A s \in Requests :
        promise'[s] = "pending" <=> s \in Waiting(tasks') \/ worker'[s] # "none"
  BY <1>1, <1>4 DEF PendingIsHeld, Waiting
<1>8. PendingIsHeld'
  BY <1>7 DEF PendingIsHeld, Waiting
<1>9. QueueCoherent'
  <2>1. \A i \in 1..Len(tasks') : tasks'[i] \in Requests /\ tasks'[i] \in Waiting(tasks')
    BY <1>4, ElementOfSeq DEF Waiting, Queued
  <2>2. \A i \in 1..Len(tasks') : promise'[tasks'[i]] = "pending"
    BY <2>1, <1>7
  <2> QED
    BY <2>2, <1>4 DEF QueueCoherent, NoDuplicates
<1>10. NoStall'
  BY <1>4, ConcurrencyAssumption DEF NoStall
<1>11. BackoffHasTry'
  BY <1>1, <1>4 DEF BackoffHasTry
<1> QED
  BY <1>5, <1>6, <1>8, <1>9, <1>10, <1>11

\* A new call is at the end of the queue and nowhere else.
LEMMA PushKeepsInv ==
  ASSUME IInv, NEW r \in Requests, Push(r)
  PROVE  IInv'
<1> USE DEF IInv
<1>1. /\ Kind[r] # "direct" /\ promise[r] = "none"
      /\ promise' = [promise EXCEPT ![r] = "pending"]
      /\ tasks' = Append(tasks, r)
      /\ processingScheduled' = TRUE
      /\ UNCHANGED <<numRunning, worker, retry, work, executed>>
  BY DEF Push
<1>2. /\ r \in Queued
      /\ tasks \in Seq(Queued)
      /\ Len(tasks) \in Nat
      /\ \A i \in 1..Len(tasks) : tasks[i] \in Queued /\ tasks[i] \in Requests
  BY <1>1, LenProperties, ElementOfSeq DEF TypeOK, Queued
<1>3. /\ tasks' \in Seq(Queued)
      /\ Len(tasks') = Len(tasks) + 1
      /\ \A i \in 1..Len(tasks) : tasks'[i] = tasks[i]
      /\ tasks'[Len(tasks) + 1] = r
  BY <1>1, <1>2, AppendProperties
<1>4. r \notin Waiting(tasks) /\ worker[r] = "none"
  BY <1>1 DEF PendingIsHeld, Waiting
<1>5. Waiting(tasks') = Waiting(tasks) \cup {r}
  <2>1. \A i \in 1..Len(tasks') : tasks'[i] \in Waiting(tasks) \cup {r}
    BY <1>2, <1>3 DEF Waiting
  <2>2. Waiting(tasks) \subseteq Waiting(tasks') /\ r \in Waiting(tasks')
    BY <1>2, <1>3 DEF Waiting
  <2> QED
    BY <2>1, <2>2 DEF Waiting
<1>6. TypeOK'
  BY <1>1, <1>3 DEF TypeOK
<1>7. SlotInv'
  <2>1. Holders' = Holders
    BY <1>1 DEF Holders
  <2> QED
    BY <2>1, <1>1 DEF SlotInv, SlotAccounting
<1>8. PendingIsHeld'
  <2>1. \A s \in Requests :
          promise'[s] = "pending" <=> s \in Waiting(tasks') \/ worker'[s] # "none"
    BY <1>1, <1>4, <1>5 DEF PendingIsHeld, Waiting, TypeOK
  <2> QED
    BY <2>1 DEF PendingIsHeld, Waiting
<1>9. QueueCoherent'
  <2>1. \A i, j \in 1..Len(tasks') : tasks'[i] = tasks'[j] => i = j
    BY <1>2, <1>3, <1>4 DEF QueueCoherent, Waiting
  <2>2. \A i \in 1..Len(tasks') : promise'[tasks'[i]] = "pending" /\ worker'[tasks'[i]] = "none"
    BY <1>1, <1>2, <1>3, <1>4 DEF QueueCoherent, TypeOK
  <2> QED
    BY <2>1, <2>2 DEF QueueCoherent
<1>10. NoStall'
  BY <1>1 DEF NoStall
<1>11. BackoffHasTry'
  BY <1>1 DEF BackoffHasTry
<1> QED
  BY <1>6, <1>7, <1>8, <1>9, <1>10, <1>11

LEMMA CallDirectlyKeepsInv ==
  ASSUME IInv, NEW r \in Requests, CallDirectly(r)
  PROVE  IInv'
<1> USE DEF IInv
<1>1. /\ Kind[r] = "direct" /\ promise[r] = "none"
      /\ promise' = [promise EXCEPT ![r] = "pending"]
      /\ worker' = [worker EXCEPT ![r] = "sent"]
      /\ work' = work \cup {Current(r)}
      /\ UNCHANGED <<tasks, processingScheduled, numRunning, retry, executed>>
  BY DEF CallDirectly
<1>2. \A i \in 1..Len(tasks) : tasks[i] \in Requests /\ tasks[i] # r
  BY <1>1, ElementOfSeq DEF TypeOK, Queued
<1>3. TypeOK'
  BY <1>1 DEF TypeOK, Current
<1>4. Holders' = Holders
  BY <1>1 DEF Holders, Queued, TypeOK
<1>5. SlotInv'
  BY <1>4, <1>1 DEF SlotInv, SlotAccounting
<1>6. PendingIsHeld'
  BY <1>1 DEF PendingIsHeld, TypeOK
<1>7. QueueCoherent'
  BY <1>1, <1>2 DEF QueueCoherent, TypeOK
<1>8. NoStall'
  BY <1>1 DEF NoStall
<1>9. BackoffHasTry'
  BY <1>1 DEF BackoffHasTry, TypeOK
<1> QED
  BY <1>3, <1>5, <1>6, <1>7, <1>8, <1>9

\* The sends of a call leave its slot, its promise and the queue alone.
LEMMA RetryKeepsInv ==
  ASSUME IInv, NEW r \in Requests, RetryLater(r) \/ Resend(r)
  PROVE  IInv'
<1> USE DEF IInv
<1>1. /\ worker[r] # "none"
      /\ worker' \in [Requests -> WorkerStates]
      /\ worker'[r] # "none"
      /\ \A s \in Requests \ {r} : worker'[s] = worker[s]
      /\ UNCHANGED <<tasks, processingScheduled, numRunning, promise, executed>>
  BY DEF RetryLater, Resend, TypeOK, WorkerStates
<1>2. /\ retry' \in [Requests -> 1..Retry] /\ work' \subseteq Requests \X (1..Retry)
      /\ BackoffHasTry'
  <2>1. CASE RetryLater(r)
    <3>1. retry' \in [Requests -> 1..Retry] /\ work' \subseteq Requests \X (1..Retry)
      BY <2>1 DEF RetryLater, LoadsAfterFailure, TypeOK
    <3>2. BackoffHasTry'
      BY <2>1 DEF RetryLater, BackoffHasTry, TypeOK
    <3> QED
      BY <3>1, <3>2
  <2>2. CASE Resend(r)
    <3>1. retry[r] - 1 \in 1..Retry
      BY <2>2, RetryAssumption DEF Resend, BackoffHasTry, TypeOK
    <3>2. retry' \in [Requests -> 1..Retry]
      BY <2>2, <3>1 DEF Resend, TypeOK
    <3>3. work' \subseteq Requests \X (1..Retry)
      BY <2>2, <3>1 DEF Resend, TypeOK
    <3>4. BackoffHasTry'
      BY <2>2 DEF Resend, BackoffHasTry, TypeOK
    <3> QED
      BY <3>2, <3>3, <3>4
  <2> QED
    BY <2>1, <2>2
<1>3. TypeOK'
  BY <1>1, <1>2 DEF TypeOK, WorkerStates
<1>4. Holders' = Holders
  BY <1>1 DEF Holders, Queued
<1>5. SlotInv'
  BY <1>4, <1>1 DEF SlotInv, SlotAccounting
<1>6. PendingIsHeld'
  BY <1>1 DEF PendingIsHeld
<1>7. QueueCoherent'
  <2>1. \A i \in 1..Len(tasks) : tasks[i] \in Requests \ {r}
    BY <1>1, ElementOfSeq DEF TypeOK, Queued, QueueCoherent
  <2> QED
    BY <2>1, <1>1 DEF QueueCoherent
<1>8. NoStall'
  BY <1>1 DEF NoStall
<1> QED
  BY <1>2, <1>3, <1>5, <1>6, <1>7, <1>8

LEMMA FinishAbandonedKeepsInv ==
  ASSUME IInv, NEW r \in Requests, NEW n \in 1..Retry, FinishAbandoned(r, n)
  PROVE  IInv'
<1>1. /\ UNCHANGED <<tasks, processingScheduled, numRunning, worker, retry, promise>>
      /\ work' = work \ {<<r, n>>}
      /\ \E runs \in {0, 1} : executed' = [executed EXCEPT ![r] = @ + runs]
  BY DEF FinishAbandoned
<1>2. TypeOK'
  BY <1>1 DEF IInv, TypeOK
<1>3. Holders' = Holders
  BY <1>1 DEF Holders
<1> QED
  BY <1>1, <1>2, <1>3 DEF IInv, SlotInv, SlotAccounting, QueueCoherent,
                          PendingIsHeld, NoStall, BackoffHasTry

\* The callbacks of the RPC client that settle the promise.
LEMMA CallbackKeepsInv ==
  ASSUME IInv, NEW r \in Requests, Answer(r) \/ GiveUp(r)
  PROVE  IInv'
<1>1. /\ worker[r] = "sent"
      /\ work \in SUBSET (Requests \X (1..Retry))
      /\ executed \in [Requests -> Nat]
  BY DEF Answer, GiveUp, IInv, TypeOK
<1>2. CASE Answer(r)
  <2>1. executed' \in [Requests -> Nat]
    BY <1>1, <1>2 DEF Answer
  <2>2. PICK outcome \in Settled : Settle(r, outcome, work \ {Current(r)})
    BY <1>2 DEF Answer, Settled
  <2> QED
    BY <1>1, <2>1, <2>2, SettleKeepsInv
<1>3. CASE GiveUp(r)
  <2>1. executed' \in [Requests -> Nat]
    BY <1>1, <1>3 DEF GiveUp
  <2>2. PICK load \in LoadsAfterFailure(r) : Settle(r, "rejected", load)
    BY <1>3 DEF GiveUp
  <2>3. "rejected" \in Settled /\ load \in SUBSET (Requests \X (1..Retry))
    BY <1>1 DEF Settled, LoadsAfterFailure
  <2> QED
    BY <1>1, <2>1, <2>2, <2>3, SettleKeepsInv
<1> QED
  BY <1>2, <1>3

LEMMA NextKeepsInv == IInv /\ [Next]_vars => IInv'
<1> SUFFICES ASSUME IInv, [Next]_vars PROVE IInv'
  OBVIOUS
<1>1. CASE Process
  BY <1>1, ProcessKeepsInv
<1>2. ASSUME NEW r \in Requests, Push(r) PROVE IInv'
  BY <1>2, PushKeepsInv
<1>3. ASSUME NEW r \in Requests, CallDirectly(r) PROVE IInv'
  BY <1>3, CallDirectlyKeepsInv
<1>4. ASSUME NEW r \in Requests, Answer(r) \/ GiveUp(r) PROVE IInv'
  BY <1>4, CallbackKeepsInv
<1>5. ASSUME NEW r \in Requests, RetryLater(r) \/ Resend(r) PROVE IInv'
  BY <1>5, RetryKeepsInv
<1>6. ASSUME NEW r \in Requests, NEW n \in 1..Retry, FinishAbandoned(r, n) PROVE IInv'
  BY <1>6, FinishAbandonedKeepsInv
<1>7. CASE UNCHANGED vars
  <2>1. Holders' = Holders
    BY <1>7 DEF vars, Holders
  <2> QED
    BY <2>1, <1>7 DEF vars, IInv, TypeOK, SlotInv, SlotAccounting, QueueCoherent,
                      PendingIsHeld, NoStall, BackoffHasTry
<1> QED
  BY <1>1, <1>2, <1>3, <1>4, <1>5, <1>6, <1>7 DEF Next

-----------------------------------------------------------------------------
\* The inductive invariant holds in every reachable state of the queue.
THEOREM InvariantHolds == Spec => []IInv
BY InitEstablishesInv, NextKeepsInv, PTL DEF Spec

\* The variables keep their types, whatever the node answers and however
\* often the client times out.
THEOREM TypeCorrect == Spec => []TypeOK
BY InvariantHolds, PTL DEF IInv

\* rpcQueue never has more calls in service than config.rpcConcurrency, and
\* its count of them is exact: no callback path leaks or doubles a slot.
THEOREM SlotsAreExact == Spec => []SlotAccounting
BY InvariantHolds, PTL DEF IInv, SlotInv

\* A task waits beside a free slot only while a run of process() is due.
THEOREM QueueNeverStalls == Spec => []NoStall
BY InvariantHolds, PTL DEF IInv

\* A caller is pending exactly while its call is queued or worked on, and the queue holds no call
\* twice and no call somebody works on.
THEOREM NoCallIsForgotten == Spec => []HeldOnce
BY InvariantHolds, PTL DEF IInv, HeldOnce

-----------------------------------------------------------------------------
\* RpcQueue implements RpcService.

answers == [r \in Queued |-> promise[r]]

\* A run of process() admits a prefix of the line.
LEMMA StartTasksAdmits ==
  ASSUME TypeOK, NoDuplicates(tasks),
         NEW workers \in [Requests -> WorkerStates],
         NEW running \in 0..Concurrency,
         NEW load \in SUBSET (Requests \X (1..Retry)),
         IsFiniteSet(HolderSet(workers)),
         running = Cardinality(HolderSet(workers)),
         \A i \in 1..Len(tasks) : workers[tasks[i]] = "none",
         StartTasks(workers, running, load)
  PROVE  \E k \in 0..Len(tasks) : Service!Admit(k, HolderSet(workers))
<1> DEFINE k == Startable(Len(tasks), running)
           started == {tasks[i] : i \in 1..k}
<1>1. /\ Len(tasks) \in Nat
      /\ \A i \in 1..Len(tasks) : tasks[i] \in Queued
  BY LenProperties, ElementOfSeq DEF TypeOK
<1>2. k \in 0..Len(tasks)
  BY <1>1, StartableBounds
<1>3. /\ tasks' = SubSeq(tasks, k + 1, Len(tasks))
      /\ worker' = [r \in Requests |-> IF r \in started THEN "sent" ELSE workers[r]]
  BY DEF StartTasks
<1>4. started \subseteq Queued /\ Queued \subseteq Requests
  BY <1>1, <1>2 DEF Queued
<1>5. HolderSet(worker') = HolderSet(workers) \cup started
  BY <1>3, <1>4 DEF HolderSet, WorkerStates
<1>6. Holders' = HolderSet(worker')
  BY DEF Holders, HolderSet
<1>7. Cardinality(Holders') <= Concurrency
  <2>1. /\ numRunning' \in 0..Concurrency
        /\ numRunning' = Cardinality(HolderSet(worker'))
    BY StartTasksKeepsInv
  <2> QED
    BY <2>1, <1>6, ConcurrencyAssumption
<1> QED
  <2>1. Holders' = HolderSet(workers) \cup started
    BY <1>5, <1>6
  <2>2. Service!Admit(k, HolderSet(workers))
    <3>1. Service!Cardinality(Holders') = Cardinality(Holders')
      BY Zenon DEF Service!Cardinality, Cardinality
    <3> HIDE DEF k
    <3> QED
      BY <2>1, <1>3, <1>7, <3>1 DEF Service!Admit
  <2> QED
    BY <2>2, <1>2

\* A settled call outside the queue is invisible to the service, a settled
\* call of the queue is a Finish.
LEMMA SettleRefines ==
  ASSUME IInv, NEW r \in Requests, worker[r] = "sent",
         NEW outcome \in Settled,
         NEW load \in SUBSET (Requests \X (1..Retry)),
         Settle(r, outcome, load)
  PROVE  [Service!Next]_(Service!vars)
<1> DEFINE freed == [worker EXCEPT ![r] = "none"]
<1>1. promise' = [promise EXCEPT ![r] = outcome] /\ promise \in [Requests -> {"none", "pending"} \cup Settled]
  BY DEF Settle, IInv, TypeOK
<1>2. CASE /\ Kind[r] # "direct"
           /\ StartTasks(freed, numRunning - 1, load)
  <2>1. /\ r \in Holders
        /\ HolderSet(freed) = Holders \ {r}
    BY <1>2 DEF Holders, HolderSet, Queued, IInv, TypeOK
  <2>2. /\ IsFiniteSet(HolderSet(freed))
        /\ Cardinality(HolderSet(freed)) = numRunning - 1
    BY <2>1, FS_RemoveElement DEF IInv, SlotInv, SlotAccounting
  <2>3. numRunning - 1 \in 0..Concurrency
    BY <2>2, FS_CardinalityType, ConcurrencyAssumption
       DEF IInv, SlotInv, SlotAccounting, TypeOK
  <2>4. /\ freed \in [Requests -> WorkerStates]
        /\ NoDuplicates(tasks)
        /\ TypeOK
    BY DEF IInv, TypeOK, WorkerStates, NoDuplicates, QueueCoherent
  <2>5. \A i \in 1..Len(tasks) : freed[tasks[i]] = "none"
    BY ElementOfSeq DEF IInv, TypeOK, QueueCoherent, Queued
  <2>6. \E k \in 0..Len(tasks) : Service!Admit(k, HolderSet(freed))
    <3> HIDE DEF freed
    <3> QED
      BY <1>2, <2>2, <2>3, <2>4, <2>5, StartTasksAdmits
  <2>7. answers' = [answers EXCEPT ![r] = outcome]
    BY <1>1 DEF answers, Queued
  <2>8. Service!Finish(r)
    BY <2>1, <2>6, <2>7 DEF Service!Finish, Service!Settled, Settled, answers
  <2>9. r \in Queued
    BY <2>1 DEF Holders
  <2> QED
    BY <2>8, <2>9 DEF Service!Next
<1>3. CASE /\ Kind[r] = "direct"
           /\ worker' = freed
           /\ UNCHANGED <<tasks, numRunning>>
  <2>1. answers' = answers /\ Holders' = Holders
    BY <1>1, <1>3 DEF answers, Holders, Queued, IInv, TypeOK
  <2> QED
    BY <2>1, <1>3 DEF Service!vars, answers
<1> QED
  BY <1>2, <1>3 DEF Settle

LEMMA StepRefines ==
  IInv /\ [Next]_vars => [Service!Next]_(Service!vars)
<1> SUFFICES ASSUME IInv, [Next]_vars
             PROVE  [Service!Next]_(Service!vars)
  OBVIOUS
<1>1. CASE Process
  <2>1. /\ StartTasks(worker, numRunning, work)
        /\ promise' = promise
    BY <1>1 DEF Process
  <2>2. /\ TypeOK
        /\ NoDuplicates(tasks)
        /\ worker \in [Requests -> WorkerStates]
        /\ work \in SUBSET (Requests \X (1..Retry))
        /\ \A i \in 1..Len(tasks) : worker[tasks[i]] = "none"
    BY DEF IInv, TypeOK, WorkerStates, QueueCoherent, NoDuplicates
  <2>3. /\ HolderSet(worker) = Holders
        /\ IsFiniteSet(HolderSet(worker))
        /\ numRunning = Cardinality(HolderSet(worker))
        /\ numRunning \in 0..Concurrency
    BY ConcurrencyAssumption
       DEF HolderSet, Holders, IInv, SlotInv, SlotAccounting, TypeOK
  <2>4. \E k \in 0..Len(tasks) : Service!Admit(k, HolderSet(worker))
    BY <2>1, <2>2, <2>3, StartTasksAdmits
  <2>5. Service!Begin
    BY <2>1, <2>3, <2>4 DEF Service!Begin
  <2> QED
    BY <2>5 DEF Service!Next
<1>2. ASSUME NEW r \in Requests, Push(r)
      PROVE  [Service!Next]_(Service!vars)
  <2>1. r \in Queued /\ Holders' = Holders
    BY <1>2 DEF Push, Queued, Holders
  <2>2. answers' = [answers EXCEPT ![r] = "pending"] /\ answers[r] = "none"
    BY <1>2, <2>1 DEF Push, answers, Queued, IInv, TypeOK
  <2>3. Service!Ask(r)
    BY <1>2, <2>1, <2>2 DEF Push, Service!Ask, answers
  <2> QED
    BY <2>1, <2>3 DEF Service!Next
<1>3. ASSUME NEW r \in Requests, CallDirectly(r)
      PROVE  [Service!Next]_(Service!vars)
  <2>1. answers' = answers /\ Holders' = Holders /\ tasks' = tasks
    BY <1>3 DEF CallDirectly, answers, Holders, Queued, IInv, TypeOK
  <2> QED
    BY <2>1 DEF Service!vars, answers
<1>4. ASSUME NEW r \in Requests, Answer(r) \/ GiveUp(r)
      PROVE  [Service!Next]_(Service!vars)
  <2>1. worker[r] = "sent" /\ work \in SUBSET (Requests \X (1..Retry))
    BY <1>4 DEF Answer, GiveUp, IInv, TypeOK
  <2>2. CASE Answer(r)
    <3>1. PICK outcome \in Settled : Settle(r, outcome, work \ {Current(r)})
      BY <2>2 DEF Answer, Settled
    <3> QED
      BY <2>1, <3>1, SettleRefines
  <2>3. CASE GiveUp(r)
    <3>1. PICK load \in LoadsAfterFailure(r) : Settle(r, "rejected", load)
      BY <2>3 DEF GiveUp
    <3>2. "rejected" \in Settled /\ load \in SUBSET (Requests \X (1..Retry))
      BY <2>1 DEF Settled, LoadsAfterFailure
    <3> QED
      BY <2>1, <3>1, <3>2, SettleRefines
  <2> QED
    BY <1>4, <2>2, <2>3
<1>5. ASSUME NEW r \in Requests, RetryLater(r) \/ Resend(r)
      PROVE  [Service!Next]_(Service!vars)
  <2>1. answers' = answers /\ Holders' = Holders /\ tasks' = tasks
    BY <1>5 DEF RetryLater, Resend, answers, Holders, Queued, IInv, TypeOK
  <2> QED
    BY <2>1 DEF Service!vars, answers
<1>6. ASSUME NEW r \in Requests, NEW n \in 1..Retry, FinishAbandoned(r, n)
      PROVE  [Service!Next]_(Service!vars)
  <2>1. answers' = answers /\ Holders' = Holders /\ tasks' = tasks
    BY <1>6 DEF FinishAbandoned, answers, Holders
  <2> QED
    BY <2>1 DEF Service!vars, answers
<1>7. CASE UNCHANGED vars
  <2>1. answers' = answers /\ Holders' = Holders /\ tasks' = tasks
    BY <1>7 DEF vars, answers, Holders
  <2> QED
    BY <2>1 DEF Service!vars, answers
<1> QED
  BY <1>1, <1>2, <1>3, <1>4, <1>5, <1>6, <1>7 DEF Next

\* Callers of rpcApi.js see a first-in first-out service with Concurrency
\* servers that answers each call once: retries, timeouts, late answers and
\* the calls that bypass the queue are invisible to them.
THEOREM QueueImplementsService == Spec => ImplementsService
<1>1. Init => Service!Init
  BY DEF Init, Service!Init, Holders, Queued
<1> QED
  BY <1>1, StepRefines, InvariantHolds, PTL DEF Spec, ImplementsService, Service!Spec

-----------------------------------------------------------------------------
(***************************************************************************)
(* How often the node runs a call                                          *)
(*                                                                         *)
(* The bound on executions is not inductive: a send the client gave up may *)
(* still be executed later.  The sum of the executions and of the sends    *)
(* the node still has is: only a retry adds to it, and pays with a try.    *)
(***************************************************************************)

\* The sends of a call that the node has not finished with.
Sends(r) == {n \in 1..Retry : <<r, n>> \in work}

\* Nothing was sent for a call that is not made or waits in the queue.
Unsent(r) == worker[r] = "none" /\ promise[r] \in {"none", "pending"}

ExecOf(r) ==
  /\ retry[r] \in 1..Tries(r)
  /\ Unsent(r) => executed[r] = 0 /\ Sends(r) = {} /\ retry[r] = Tries(r)
  /\ executed[r] + Cardinality(Sends(r)) <= Tries(r) - retry[r] + 1
  /\ promise[r] \in {"value", "rpcError"} => executed[r] >= 1
  /\ promise[r] = "rejected" => executed[r] >= 1 \/ retry[r] = 1

ExecInv == \A r \in Requests : ExecOf(r)

\* The RPCs of some calls have been sent, beside what workers do already.
Started(calls, workers, load) ==
  /\ worker' = [r \in Requests |-> IF r \in calls THEN "sent" ELSE workers[r]]
  /\ work' = load \cup {Current(r) : r \in calls}

-----------------------------------------------------------------------------
LEMMA TriesInRange ==
  ASSUME NEW r \in Requests
  PROVE  /\ Tries(r) \in 1..Retry /\ Tries(r) \in Nat /\ Retry \in Nat
         /\ Kind[r] # "params" => Tries(r) = 1
BY RetryAssumption DEF Tries

\* Sets of sends are finite and their sizes go with them.
LEMMA SendSets ==
  ASSUME NEW S \in SUBSET (1..Retry)
  PROVE  /\ Cardinality(S) \in Nat
         /\ Cardinality({}) = 0
         /\ \A n \in 1..Retry : Cardinality(S \cup {n}) <= Cardinality(S) + 1
         /\ \A n \in S : Cardinality(S \ {n}) = Cardinality(S) - 1
         /\ \A T \in SUBSET S : Cardinality(T) <= Cardinality(S) /\ Cardinality(T) \in Nat
<1>1. IsFiniteSet(1..Retry)
  BY RetryAssumption, FS_Interval
<1>2. IsFiniteSet(S)
  BY <1>1, FS_Subset
<1>3. Cardinality(S) \in Nat
  BY <1>2, FS_CardinalityType
<1>4. Cardinality({}) = 0
  BY FS_EmptySet
<1>5. \A n \in 1..Retry : Cardinality(S \cup {n}) <= Cardinality(S) + 1
  BY <1>2, <1>3, FS_AddElement
<1>6. \A n \in S : Cardinality(S \ {n}) = Cardinality(S) - 1
  BY <1>2, FS_RemoveElement
<1>7. \A T \in SUBSET S : Cardinality(T) <= Cardinality(S) /\ Cardinality(T) \in Nat
  BY <1>2, FS_Subset, FS_CardinalityType
<1> QED
  BY <1>3, <1>4, <1>5, <1>6, <1>7

\* Starting tasks sends one RPC for each of some calls of the queue.
LEMMA StartTasksSends ==
  ASSUME TypeOK,
         NEW workers, NEW running \in 0..Concurrency, NEW load,
         StartTasks(workers, running, load)
  PROVE  \E calls \in SUBSET Waiting(tasks) : Started(calls, workers, load)
<1> DEFINE k == Startable(Len(tasks), running)
           started == {tasks[i] : i \in 1..k}
<1>1. Len(tasks) \in Nat
  BY DEF TypeOK
<1>2. k \in 0..Len(tasks)
  BY <1>1, StartableBounds
<1>3. started \in SUBSET Waiting(tasks)
  BY <1>1, <1>2 DEF Waiting
<1>4. Started(started, workers, load)
  BY DEF StartTasks, Started
<1> QED
  BY <1>3, <1>4

\* A call in the queue has sent nothing.
LEMMA WaitingIsUnsent ==
  ASSUME IInv, NEW s \in Waiting(tasks)
  PROVE  s \in Requests /\ Unsent(s) /\ promise[s] = "pending"
<1>1. tasks \in Seq(Queued)
  BY DEF IInv, TypeOK
<1>2. PICK i \in 1..Len(tasks) : s = tasks[i]
  BY DEF Waiting
<1>3. s \in Queued
  BY <1>1, <1>2, ElementOfSeq
<1>4. promise[s] = "pending" /\ worker[s] = "none"
  BY <1>2 DEF IInv, QueueCoherent
<1> QED
  BY <1>3, <1>4 DEF Queued, Unsent

\* The first send of a call: one send at the node, nothing executed.
LEMMA FirstSend ==
  ASSUME IInv, NEW s \in Requests, ExecOf(s), Unsent(s),
         Sends(s)' = {retry[s]}, worker'[s] = "sent",
         promise'[s] = "pending", retry'[s] = retry[s], executed'[s] = executed[s]
  PROVE  ExecOf(s)'
<1>1. retry[s] \in 1..Retry /\ Tries(s) \in Nat
  BY TriesInRange DEF IInv, TypeOK
<1>2. Cardinality(Sends(s)') = 1
  BY FS_Singleton
<1>3. Tries(s)' = Tries(s)
  BY DEF Tries
<1> QED
  BY <1>1, <1>2, <1>3 DEF ExecOf, Unsent

\* A call whose part of the state stays as it is.
LEMMA SameCall ==
  ASSUME NEW s \in Requests, ExecOf(s), Sends(s)' = Sends(s), worker'[s] = worker[s],
         promise'[s] = promise[s], retry'[s] = retry[s], executed'[s] = executed[s]
  PROVE  ExecOf(s)'
<1>1. Tries(s)' = Tries(s) /\ (Unsent(s)' <=> Unsent(s))
  BY DEF Tries, Unsent
<1> QED
  BY <1>1 DEF ExecOf

LEMMA InitEstablishesExec == Init => ExecInv
<1> SUFFICES ASSUME Init, NEW r \in Requests PROVE ExecOf(r)
  BY DEF ExecInv
<1>1. Sends(r) = {}
  BY DEF Sends, Init
<1>2. Cardinality({}) = 0
  BY FS_EmptySet
<1> QED
  BY <1>1, <1>2, TriesInRange DEF Init, ExecOf

LEMMA ProcessKeepsExec ==
  ASSUME IInv, ExecInv, Process
  PROVE  ExecInv'
<1> SUFFICES ASSUME NEW s \in Requests PROVE ExecOf(s)'
  BY DEF ExecInv
<1>1. TypeOK /\ numRunning \in 0..Concurrency /\ work \subseteq Requests \X (1..Retry)
  BY ConcurrencyAssumption DEF IInv, TypeOK, SlotInv, SlotAccounting
<1>2. PICK started \in SUBSET Waiting(tasks) : Started(started, worker, work)
  BY <1>1, StartTasksSends DEF Process
<1>3. ExecOf(s) /\ retry[s] \in 1..Retry
  BY <1>1 DEF ExecInv, TypeOK
<1>4. UNCHANGED <<retry, promise, executed>>
  BY DEF Process
<1>5. CASE s \in started
  <2>1. Unsent(s) /\ promise[s] = "pending"
    BY <1>5, WaitingIsUnsent
  <2>2. Sends(s)' = {retry[s]}
    BY <1>2, <1>3, <1>5, <2>1 DEF Started, Sends, Current, ExecOf
  <2> QED
    BY <1>2, <1>3, <1>4, <1>5, <2>1, <2>2, FirstSend DEF Started
<1>6. CASE s \notin started
  <2>1. Sends(s)' = Sends(s)
    BY <1>2, <1>6 DEF Started, Sends, Current
  <2> QED
    BY <1>2, <1>3, <1>4, <1>6, <2>1, SameCall DEF Started
<1> QED
  BY <1>5, <1>6

\* Calls are made: in the queue nothing is sent, beside it one RPC is.
LEMMA PushKeepsExec ==
  ASSUME IInv, ExecInv, NEW r \in Requests, Push(r)
  PROVE  ExecInv'
<1> SUFFICES ASSUME NEW s \in Requests PROVE ExecOf(s)'
  BY DEF ExecInv
<1>1. ExecOf(s) /\ Sends(s)' = Sends(s) /\ UNCHANGED <<worker, retry, executed>>
  BY DEF ExecInv, Push, Sends
<1>2. CASE s = r
  <2>1. promise[s] = "none" /\ promise'[s] = "pending"
    BY <1>2 DEF Push, IInv, TypeOK
  <2>2. Tries(s)' = Tries(s) /\ (Unsent(s)' <=> Unsent(s))
    BY <1>1, <2>1 DEF Tries, Unsent
  <2> QED
    BY <1>1, <2>1, <2>2 DEF ExecOf
<1>3. CASE s # r
  <2>1. promise'[s] = promise[s]
    BY <1>3 DEF Push, IInv, TypeOK
  <2> QED
    BY <1>1, <2>1, SameCall
<1> QED
  BY <1>2, <1>3

LEMMA CallDirectlyKeepsExec ==
  ASSUME IInv, ExecInv, NEW r \in Requests, CallDirectly(r)
  PROVE  ExecInv'
<1> SUFFICES ASSUME NEW s \in Requests PROVE ExecOf(s)'
  BY DEF ExecInv
<1>1. /\ ExecOf(s) /\ UNCHANGED <<retry, executed>>
      /\ retry[s] \in 1..Retry
      /\ promise'[s] = IF s = r THEN "pending" ELSE promise[s]
      /\ worker'[s] = IF s = r THEN "sent" ELSE worker[s]
  BY DEF ExecInv, CallDirectly, IInv, TypeOK
<1>2. CASE s = r
  <2>1. worker[r] = "none"
    BY DEF CallDirectly, IInv, TypeOK, PendingIsHeld
  <2>2. Unsent(s)
    BY <1>2, <2>1 DEF CallDirectly, Unsent
  <2>3. Sends(s)' = {retry[s]}
    BY <1>1, <1>2, <2>2 DEF CallDirectly, Sends, Current, ExecOf
  <2> QED
    BY <1>1, <1>2, <2>2, <2>3, FirstSend
<1>3. CASE s # r
  <2>1. Sends(s)' = Sends(s)
    BY <1>3 DEF CallDirectly, Sends, Current
  <2> QED
    BY <1>1, <1>3, <2>1, SameCall
<1> QED
  BY <1>2, <1>3

\* A callback settles one call and may start others.
LEMMA SettleSends ==
  ASSUME IInv, ExecInv, NEW r \in Requests, worker[r] = "sent",
         NEW outcome \in Settled, NEW load \in {work, work \ {Current(r)}},
         Settle(r, outcome, load),
         \A s \in Requests \ {r} : executed'[s] = executed[s]
  PROVE  /\ \A s \in Requests \ {r} : ExecOf(s)'
         /\ Sends(r)' = {n \in 1..Retry : <<r, n>> \in load}
         /\ worker'[r] = "none" /\ promise'[r] = outcome /\ retry'[r] = retry[r]
<1>0. UNCHANGED retry /\ promise' = [promise EXCEPT ![r] = outcome]
  BY DEF Settle
<1> DEFINE freed == [worker EXCEPT ![r] = "none"]
<1>1. PICK started \in SUBSET Waiting(tasks) : Started(started, freed, load)
  <2>1. CASE Kind[r] # "direct"
    <3>1. r \in Holders /\ IsFiniteSet(Holders) /\ numRunning = Cardinality(Holders)
          /\ numRunning <= Concurrency /\ numRunning \in Nat
      BY <2>1 DEF Holders, Queued, IInv, SlotInv, SlotAccounting, TypeOK
    <3>2. numRunning # 0
      BY <3>1, FS_EmptySet
    <3>3. numRunning - 1 \in 0..Concurrency
      BY <3>1, <3>2, ConcurrencyAssumption
    <3>4. TypeOK /\ StartTasks(freed, numRunning - 1, load)
      BY <2>1 DEF Settle, IInv
    <3> HIDE DEF freed
    <3> QED
      BY <3>3, <3>4, StartTasksSends
  <2>2. CASE Kind[r] = "direct"
    <3>1. worker' = freed /\ work' = load /\ worker \in [Requests -> WorkerStates]
      BY <2>2 DEF Settle, IInv, TypeOK, WorkerStates
    <3>2. freed = [s \in Requests |-> IF s \in {} THEN "sent" ELSE freed[s]]
      BY <3>1
    <3>3. load = load \cup {Current(s) : s \in {}}
      OBVIOUS
    <3>4. Started({}, freed, load)
      BY <3>1, <3>2, <3>3 DEF Started
    <3> HIDE DEF freed
    <3> QED
      BY <3>4
  <2> QED
    BY <2>1, <2>2
<1>2. \A s \in Waiting(tasks) :
        s \in Requests /\ Unsent(s) /\ promise[s] = "pending" /\ s # r
  BY WaitingIsUnsent DEF Unsent
<1>3. ASSUME NEW s \in Requests \ {r} PROVE ExecOf(s)'
  <2>1. /\ ExecOf(s) /\ retry'[s] = retry[s] /\ retry[s] \in 1..Retry
        /\ promise'[s] = promise[s] /\ executed'[s] = executed[s]
    BY <1>0, <1>3 DEF ExecInv, IInv, TypeOK
  <2>2. freed[s] = worker[s]
    BY <1>3 DEF IInv, TypeOK
  <2>3. CASE s \in started
    <3>1. Unsent(s) /\ promise[s] = "pending"
      BY <1>2, <2>3
    <3>2. Sends(s)' = {retry[s]}
      BY <1>1, <2>1, <2>3, <3>1 DEF Started, Sends, Current, ExecOf
    <3> QED
      BY <1>1, <2>1, <2>3, <3>1, <3>2, FirstSend DEF Started
  <2>4. CASE s \notin started
    <3>1. Sends(s)' = Sends(s)
      BY <1>1, <1>3, <2>4 DEF Started, Sends, Current
    <3> QED
      BY <1>1, <2>1, <2>2, <2>4, <3>1, SameCall DEF Started
  <2> QED
    BY <2>3, <2>4
<1>4. /\ worker'[r] = "none" /\ promise'[r] = outcome
      /\ Sends(r)' = {n \in 1..Retry : <<r, n>> \in load}
  BY <1>0, <1>1, <1>2 DEF Started, Sends, Current, IInv, TypeOK
<1> QED
  BY <1>0, <1>3, <1>4

\* An answer turns a send at the node into an execution.
LEMMA AnswerKeepsExec ==
  ASSUME IInv, ExecInv, NEW r \in Requests, Answer(r)
  PROVE  ExecInv'
<1>1. /\ worker[r] = "sent" /\ Current(r) \in work
      /\ executed \in [Requests -> Nat]
      /\ executed' = [executed EXCEPT ![r] = @ + 1]
      /\ retry[r] \in 1..Retry
  BY DEF Answer, IInv, TypeOK
<1>2. PICK outcome \in Settled : Settle(r, outcome, work \ {Current(r)})
  BY DEF Answer, Settled
<1>3. /\ \A s \in Requests \ {r} : ExecOf(s)'
      /\ Sends(r)' = {n \in 1..Retry : <<r, n>> \in work \ {Current(r)}}
      /\ worker'[r] = "none" /\ promise'[r] = outcome /\ retry'[r] = retry[r]
  BY <1>1, <1>2, SettleSends
<1>4. Sends(r)' = Sends(r) \ {retry[r]} /\ retry[r] \in Sends(r)
  BY <1>1, <1>3 DEF Sends, Current
<1>5. /\ Cardinality(Sends(r)') = Cardinality(Sends(r)) - 1
      /\ Cardinality(Sends(r)) \in Nat
  <2>1. Sends(r) \in SUBSET (1..Retry)
    BY DEF Sends
  <2> QED
    BY <1>4, <2>1, SendSets
<1>6. /\ Tries(r)' = Tries(r) /\ Tries(r) \in Nat /\ ~Unsent(r)'
      /\ executed'[r] = executed[r] + 1 /\ executed[r] \in Nat
  BY <1>1, <1>3, TriesInRange DEF Tries, Unsent, Settled
<1>7. ExecOf(r)'
  BY <1>1, <1>3, <1>5, <1>6 DEF ExecInv, ExecOf
<1> QED
  BY <1>3, <1>7 DEF ExecInv

\* The last send fails; the node may still have it.
LEMMA GiveUpKeepsExec ==
  ASSUME IInv, ExecInv, NEW r \in Requests, GiveUp(r)
  PROVE  ExecInv'
<1>1. /\ worker[r] = "sent" /\ UNCHANGED executed
      /\ executed \in [Requests -> Nat] /\ retry[r] \in 1..Retry
      /\ Kind[r] # "params" \/ retry[r] <= 1
      /\ "rejected" \in Settled
  BY DEF GiveUp, IInv, TypeOK, Settled
<1>2. PICK load \in {work, work \ {Current(r)}} : Settle(r, "rejected", load)
  BY DEF GiveUp, LoadsAfterFailure
<1>3. /\ \A s \in Requests \ {r} : ExecOf(s)'
      /\ Sends(r)' = {n \in 1..Retry : <<r, n>> \in load}
      /\ worker'[r] = "none" /\ promise'[r] = "rejected" /\ retry'[r] = retry[r]
  BY <1>1, <1>2, SettleSends
<1>4. /\ Cardinality(Sends(r)') <= Cardinality(Sends(r))
      /\ Cardinality(Sends(r)) \in Nat /\ Cardinality(Sends(r)') \in Nat
  <2>1. Sends(r) \in SUBSET (1..Retry) /\ Sends(r)' \in SUBSET Sends(r)
    BY <1>2, <1>3 DEF Sends
  <2> QED
    BY <2>1, SendSets
<1>5. retry[r] = 1
  BY <1>1, TriesInRange DEF ExecInv, ExecOf
<1>6. Tries(r)' = Tries(r) /\ Tries(r) \in Nat /\ ~Unsent(r)' /\ executed'[r] = executed[r]
      /\ executed[r] \in Nat
  BY <1>1, <1>3, TriesInRange DEF Tries, Unsent
<1>7. ExecOf(r)'
  BY <1>1, <1>3, <1>4, <1>5, <1>6 DEF ExecInv, ExecOf
<1> QED
  BY <1>3, <1>7 DEF ExecInv

\* A failed send waits for its timer; the timer pays a try for a send.
LEMMA RetryKeepsExec ==
  ASSUME IInv, ExecInv, NEW r \in Requests, RetryLater(r) \/ Resend(r)
  PROVE  ExecInv'
<1> SUFFICES ASSUME NEW s \in Requests PROVE ExecOf(s)'
  BY DEF ExecInv
<1>1. /\ ExecOf(s) /\ UNCHANGED <<promise, executed>>
      /\ executed[s] \in Nat /\ retry[s] \in 1..Retry
      /\ Tries(s)' = Tries(s) /\ Tries(s) \in Nat /\ Retry \in Nat
  BY TriesInRange DEF ExecInv, RetryLater, Resend, IInv, TypeOK, Tries
<1>2. Sends(s) \in SUBSET (1..Retry) /\ Cardinality(Sends(s)) \in Nat
  BY SendSets DEF Sends
<1>3. CASE s # r
  <2>1. Sends(s)' = Sends(s) /\ worker'[s] = worker[s] /\ retry'[s] = retry[s]
    BY <1>3 DEF RetryLater, Resend, Sends, LoadsAfterFailure, Current, IInv, TypeOK
  <2> QED
    BY <1>1, <2>1, SameCall
<1>4. ASSUME s = r, RetryLater(r) PROVE ExecOf(s)'
  <2>1. worker'[s] = "backoff" /\ retry'[s] = retry[s] /\ Sends(s)' \in SUBSET Sends(s)
    BY <1>4 DEF RetryLater, Sends, LoadsAfterFailure, IInv, TypeOK
  <2>2. Cardinality(Sends(s)') <= Cardinality(Sends(s)) /\ Cardinality(Sends(s)') \in Nat
    BY <1>2, <2>1, SendSets
  <2>3. ~Unsent(s)'
    BY <2>1 DEF Unsent
  <2> QED
    BY <1>1, <1>2, <2>1, <2>2, <2>3 DEF ExecOf
<1>5. ASSUME s = r, Resend(r) PROVE ExecOf(s)'
  <2>1. retry[s] > 1
    BY <1>5 DEF Resend, IInv, BackoffHasTry
  <2>2. /\ worker'[s] = "sent" /\ retry'[s] = retry[s] - 1
        /\ Sends(s)' = Sends(s) \cup {retry[s] - 1}
        /\ retry[s] - 1 \in 1..Retry
    <3>1. retry[s] - 1 \in 1..Retry
      BY <1>1, <2>1
    <3> QED
      BY <1>5, <3>1 DEF Resend, Sends, IInv, TypeOK
  <2>3. Cardinality(Sends(s)') <= Cardinality(Sends(s)) + 1
    BY <1>2, <2>2, SendSets
  <2>4. Cardinality(Sends(s)') \in Nat
    <3>1. Sends(s)' \in SUBSET (1..Retry)
      BY <1>2, <2>2
    <3> QED
      BY <3>1, SendSets
  <2>5. ~Unsent(s)' /\ promise[s] = "pending"
    BY <1>5, <2>2 DEF Unsent, Resend, IInv, PendingIsHeld
  <2> QED
    BY <1>1, <1>2, <2>1, <2>2, <2>3, <2>4, <2>5 DEF ExecOf
<1> QED
  BY <1>3, <1>4, <1>5

\* The node finishes with an abandoned send, having run it or not.
LEMMA FinishAbandonedKeepsExec ==
  ASSUME IInv, ExecInv, NEW r \in Requests, NEW n \in 1..Retry, FinishAbandoned(r, n)
  PROVE  ExecInv'
<1> SUFFICES ASSUME NEW s \in Requests PROVE ExecOf(s)'
  BY DEF ExecInv
<1>1. /\ ExecOf(s) /\ UNCHANGED <<worker, promise, retry>>
      /\ retry[s] \in 1..Retry
      /\ executed \in [Requests -> Nat]
      /\ Tries(s)' = Tries(s) /\ (Unsent(s)' <=> Unsent(s)) /\ Tries(s) \in Nat
  BY TriesInRange DEF ExecInv, FinishAbandoned, IInv, TypeOK, Tries, Unsent
<1>2. CASE s # r
  <2>1. Sends(s)' = Sends(s) /\ executed'[s] = executed[s]
    BY <1>1, <1>2 DEF FinishAbandoned, Sends
  <2> QED
    BY <1>1, <2>1, SameCall
<1>3. CASE s = r
  <2>1. n \in Sends(s) /\ Sends(s)' = Sends(s) \ {n}
    BY <1>3 DEF FinishAbandoned, Sends
  <2>2. Cardinality(Sends(s)') = Cardinality(Sends(s)) - 1 /\ Cardinality(Sends(s)) \in Nat
    <3>1. Sends(s) \in SUBSET (1..Retry)
      BY DEF Sends
    <3> QED
      BY <2>1, <3>1, SendSets
  <2>3. executed'[s] \in {executed[s], executed[s] + 1} /\ executed[s] \in Nat
    BY <1>1, <1>3 DEF FinishAbandoned
  <2>4. ~Unsent(s)
    BY <1>1, <2>1 DEF ExecOf
  <2> QED
    BY <1>1, <2>2, <2>3, <2>4 DEF ExecOf
<1> QED
  BY <1>2, <1>3

LEMMA NextKeepsExec == IInv /\ ExecInv /\ [Next]_vars => ExecInv'
<1> SUFFICES ASSUME IInv, ExecInv, [Next]_vars PROVE ExecInv'
  OBVIOUS
<1>1. CASE Process
  BY <1>1, ProcessKeepsExec
<1>2. ASSUME NEW r \in Requests, Push(r) PROVE ExecInv'
  BY <1>2, PushKeepsExec
<1>3. ASSUME NEW r \in Requests, CallDirectly(r) PROVE ExecInv'
  BY <1>3, CallDirectlyKeepsExec
<1>4. ASSUME NEW r \in Requests, Answer(r) PROVE ExecInv'
  BY <1>4, AnswerKeepsExec
<1>5. ASSUME NEW r \in Requests, GiveUp(r) PROVE ExecInv'
  BY <1>5, GiveUpKeepsExec
<1>6. ASSUME NEW r \in Requests, RetryLater(r) \/ Resend(r) PROVE ExecInv'
  BY <1>6, RetryKeepsExec
<1>7. ASSUME NEW r \in Requests, NEW n \in 1..Retry, FinishAbandoned(r, n) PROVE ExecInv'
  BY <1>7, FinishAbandonedKeepsExec
<1>8. CASE UNCHANGED vars
  BY <1>8 DEF vars, ExecInv, ExecOf, Unsent, Sends, Tries
<1> QED
  BY <1>1, <1>2, <1>3, <1>4, <1>5, <1>6, <1>7, <1>8 DEF Next

\* Executions and sends at the node never exceed the tries used.
THEOREM ExecutionInvariant == Spec => []ExecInv
<1>1. Init => ExecInv
  BY InitEstablishesExec
<1> QED
  BY <1>1, NextKeepsExec, InvariantHolds, PTL DEF Spec

\* A caller told a value was answered by the node, and the node runs a call
\* at most as often as singeRpcCommand may try it, late answers included.
THEOREM ExecutionsAreBounded == Spec => []ExecutionBounds
<1>1. IInv /\ ExecInv => ExecutionBounds
  <2> SUFFICES ASSUME IInv, ExecInv, NEW r \in Requests
               PROVE  /\ promise[r] \in {"value", "rpcError"} => executed[r] >= 1
                      /\ executed[r] <= Tries(r)
    BY DEF ExecutionBounds
  <2>1. Cardinality(Sends(r)) \in Nat
    BY SendSets DEF Sends
  <2>2. executed[r] \in Nat /\ Tries(r) \in Nat
    BY TriesInRange DEF IInv, TypeOK
  <2> QED
    BY <2>1, <2>2 DEF ExecInv, ExecOf
<1> QED
  BY <1>1, ExecutionInvariant, InvariantHolds, PTL

\* A call the node never ran is rejected only after its last send.
THEOREM RejectionIsLast == Spec => []RejectedAfterLastTry
<1>1. IInv /\ ExecInv => RejectedAfterLastTry
  BY DEF IInv, TypeOK, ExecInv, ExecOf, RejectedAfterLastTry
<1> QED
  BY <1>1, ExecutionInvariant, InvariantHolds, PTL
=============================================================================
