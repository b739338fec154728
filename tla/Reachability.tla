---------------------------- MODULE Reachability ----------------------------
(***************************************************************************)
(* How many masternodes are reachable: getMasternodeReachableCount of      *)
(* app/api/rpcApi.js with the helpers of app/utils.js, beside the list of  *)
(* nodes, getNodeList of routes/restfulRouter.js.                          *)
(*                                                                         *)
(* All of them fill one ipList of the process, by address: nodes that      *)
(* share one are one entry.  A count asks the node for its own list,       *)
(* clears ipList, enters the enabled nodes, awaiting the cache for each,   *)
(* probes what ipList then holds, and is answered by a job that compares,  *)
(* every minute, what has come back with ipList as it is by then.  The     *)
(* list of nodes enters every node and clears nothing.  The lists differ:  *)
(* nodes come and go, and the list of nodes may be one that was kept.      *)
(* With the in-memory cache the awaits are microtasks: no other callback   *)
(* runs before the walk is over.  With redis they are not, and may fail.   *)
(*                                                                         *)
(* What reachableCache keeps is left out: a probe answers either way.  The *)
(* checks of getNodeList and of the ten-minute job count nothing and only  *)
(* fill that cache.                                                        *)
(***************************************************************************)
EXTENDS Integers, FiniteSets

CONSTANTS Counters,     \* overlapping calls of getMasternodeReachableCount
          Viewers,      \* overlapping calls of getNodeList
          Masternodes,  \* those that may be in a list
          Hosts,        \* their IP addresses
          HostOf,       \* mn.address up to the colon
          CacheBackends \* the back ends an execution may have

ASSUME NodesAssumption == IsFiniteSet(Hosts) /\ HostOf \in [Masternodes -> Hosts]
ASSUME RequestsAssumption == Counters \cap Viewers = {}
ASSUME BackendsAssumption == CacheBackends \subseteq {"lru", "redis"}

VARIABLES cacheBackend, \* of reachableCache
          ipList,   \* the addresses entered since the last clearIpList
          pc,       \* where each request is
          own,      \* the addresses of the enabled nodes in the list a count was given
          todo,     \* the nodes a request has still to enter
          probes,   \* the probes a count waits for
          count,    \* checkCount.count of a count
          reached,  \* checkCount.reachable; a count that is done was answered reached/count
          met       \* history: how the walks of others met a count

reachVars == <<cacheBackend, ipList, pc, own, todo, probes, count, reached, met>>

Requests == Counters \cup Viewers
At(nodes) == {HostOf[n] : n \in nodes}
Tallies == 0..Cardinality(Hosts)

ReachTypeOK ==
  /\ cacheBackend \in {"lru", "redis"}
  /\ ipList \subseteq Hosts
  /\ pc \in [Requests -> {"idle", "listing", "walking", "polling", "done", "rejected"}]
  /\ own \in [Counters -> SUBSET Hosts]
  /\ todo \in [Requests -> SUBSET Masternodes]
  /\ probes \in [Counters -> SUBSET Hosts]
  /\ count \in [Counters -> Tallies]
  /\ reached \in [Counters -> Tallies]
  /\ met \in [Counters -> SUBSET {"fewer", "more", "crossed"}]
  /\ \A v \in Viewers : pc[v] # "polling"

ReachInit ==
  /\ cacheBackend \in CacheBackends
  /\ ipList = {}
  /\ pc = [r \in Requests |-> "idle"]
  /\ own = [c \in Counters |-> {}]
  /\ todo = [r \in Requests |-> {}]
  /\ probes = [c \in Counters |-> {}]
  /\ count = [c \in Counters |-> 0]
  /\ reached = [c \in Counters |-> 0]
  /\ met = [c \in Counters |-> {}]

-----------------------------------------------------------------------------

\* A callback of the event loop runs when no microtask is due.
CallbackMayRun ==
  cacheBackend = "lru" => \A r \in Requests : pc[r] # "walking"

\* The masternode list is asked for, by RPC or through its cache.
Ask(r) ==
  /\ CallbackMayRun
  /\ pc[r] \in {"idle", "done", "rejected"}
  /\ pc' = [pc EXCEPT ![r] = "listing"]
  /\ own' = [c \in Counters |-> IF c = r THEN {} ELSE own[c]]
  /\ count' = [c \in Counters |-> IF c = r THEN 0 ELSE count[c]]
  /\ reached' = [c \in Counters |-> IF c = r THEN 0 ELSE reached[c]]
  /\ met' = [c \in Counters |-> IF c = r THEN {} ELSE met[c]]
  /\ UNCHANGED <<cacheBackend, ipList, todo, probes>>

\* The call is rejected.  A refusal of the node, which resolves, rejects getNodeList as well: the
\* fields of an error have no address to split.
NodeListFails(r) ==
  /\ CallbackMayRun
  /\ pc[r] = "listing"
  /\ pc' = [pc EXCEPT ![r] = "rejected"]
  /\ UNCHANGED <<cacheBackend, ipList, own, todo, probes, count, reached, met>>

\* History: request r begins to walk, while others walk (crossed) or poll.  To a count that polls
\* it shows, at some time, a list of no more than `least` addresses, or of `most`.
Meeting(r, least, most) ==
  [c \in Counters |->
     CASE c = r -> {k \in {"crossed"} : \E s \in Requests : pc[s] = "walking"}
       [] c # r /\ pc[c] = "walking" -> met[c] \cup {"crossed"}
       [] c # r /\ pc[c] = "polling" -> met[c] \cup {k \in {"fewer"} : least < Cardinality(own[c])}
                                             \cup {k \in {"more"} : most > Cardinality(own[c])}
       [] OTHER -> met[c]]

\* What requests that walk have still to enter.
Coming == At(UNION {todo[r] : r \in Requests})

\* clearIpList(), then the walk over the enabled nodes of the list that was answered.  With redis
\* others see the cleared list.
WalksNoClear(c, list) ==
  /\ CallbackMayRun
  /\ pc[c] = "listing"
  /\ pc' = [pc EXCEPT ![c] = "walking"]
  /\ own' = [own EXCEPT ![c] = At(list)]
  /\ todo' = [todo EXCEPT ![c] = list]
  /\ met' = Meeting(c, IF cacheBackend = "lru" THEN Cardinality(At(list)) ELSE 0,
                    Cardinality(At(list) \cup Coming))
  /\ UNCHANGED <<cacheBackend, ipList, probes, count, reached>>
Walks(c, list) ==
  /\ CallbackMayRun
  /\ pc[c] = "listing"
  /\ ipList' = {}
  /\ pc' = [pc EXCEPT ![c] = "walking"]
  /\ own' = [own EXCEPT ![c] = At(list)]
  /\ todo' = [todo EXCEPT ![c] = list]
  /\ met' = Meeting(c, IF cacheBackend = "lru" THEN Cardinality(At(list)) ELSE 0,
                    Cardinality(At(list) \cup Coming))
  /\ UNCHANGED <<cacheBackend, probes, count, reached>>

CountWalks(c) == \E list \in SUBSET Masternodes : Walks(c, list)

\* The node refuses: getRpcDataWithParams resolves with the error, none of whose fields is enabled.
CountIsRefused(c) == Walks(c, {})

\* getNodeList walks over every node and clears nothing.
ViewWalks(v) ==
  /\ CallbackMayRun
  /\ pc[v] = "listing"
  /\ pc' = [pc EXCEPT ![v] = "walking"]
  /\ \E list \in SUBSET Masternodes :
       /\ todo' = [todo EXCEPT ![v] = list]
       /\ met' = Meeting(v, Cardinality(ipList), Cardinality(ipList \cup At(list) \cup Coming))
  /\ UNCHANGED <<cacheBackend, ipList, own, probes, count, reached>>

\* isIpPortReachableFromCache(ip, port): ipList[ip] = port, an await.
Enter(r, n) ==
  /\ pc[r] = "walking"
  /\ n \in todo[r]
  /\ ipList' = ipList \cup {HostOf[n]}
  /\ todo' = [todo EXCEPT ![r] = @ \ {n}]
  /\ UNCHANGED <<cacheBackend, pc, own, probes, count, reached, met>>

\* reachableCache.get is rejected, and with it the request; what was entered stays.
WalkFails(r) ==
  /\ cacheBackend = "redis"
  /\ pc[r] = "walking"
  /\ pc' = [pc EXCEPT ![r] = "rejected"]
  /\ todo' = [todo EXCEPT ![r] = {}]
  /\ UNCHANGED <<cacheBackend, ipList, own, probes, count, reached, met>>

\* checkIpsAsync: probe what is in the list, start the job.
CheckIpsAsync(c) ==
  /\ pc[c] = "walking"
  /\ todo[c] = {}
  /\ probes' = [probes EXCEPT ![c] = ipList]
  /\ count' = [count EXCEPT ![c] = 0]
  /\ reached' = [reached EXCEPT ![c] = 0]
  /\ pc' = [pc EXCEPT ![c] = "polling"]
  /\ UNCHANGED <<cacheBackend, ipList, own, todo, met>>

\* The list of nodes answers; its checkIps() counts nothing.
ViewAnswers(v) ==
  /\ pc[v] = "walking"
  /\ todo[v] = {}
  /\ pc' = [pc EXCEPT ![v] = "done"]
  /\ UNCHANGED <<cacheBackend, ipList, own, todo, probes, count, reached, met>>

\* isIpPortReachable is answered, either way.
ProbeEndsUpOnly(c, a) ==
  /\ CallbackMayRun
  /\ a \in probes[c]
  /\ probes' = [probes EXCEPT ![c] = @ \ {a}]
  /\ \E up \in {0, 1} :
       /\ count' = [count EXCEPT ![c] = @ + up]
       /\ reached' = [reached EXCEPT ![c] = @ + up]
  /\ UNCHANGED <<cacheBackend, ipList, pc, own, todo, met>>
ProbeEndsTwice(c, a) ==
  /\ CallbackMayRun
  /\ a \in probes[c]
  /\ probes' = [probes EXCEPT ![c] = @ \ {a}]
  /\ count' = [count EXCEPT ![c] = @ + 2]
  /\ UNCHANGED <<cacheBackend, ipList, pc, own, todo, reached, met>>
ProbeEnds(c, a) ==
  /\ CallbackMayRun
  /\ a \in probes[c]
  /\ probes' = [probes EXCEPT ![c] = @ \ {a}]
  /\ count' = [count EXCEPT ![c] = @ + 1]
  /\ \E up \in {0, 1} : reached' = [reached EXCEPT ![c] = @ + up]
  /\ UNCHANGED <<cacheBackend, ipList, pc, own, todo, met>>

\* The job of a count, every minute.  Probes still under way would add to a
\* checkCount nobody reads any more.
PollAtOnce(c) ==
  /\ CallbackMayRun
  /\ pc[c] = "polling"
  /\ pc' = [pc EXCEPT ![c] = "done"]
  /\ probes' = [probes EXCEPT ![c] = {}]
  /\ UNCHANGED <<cacheBackend, ipList, own, todo, count, reached, met>>
Poll(c) ==
  /\ CallbackMayRun
  /\ pc[c] = "polling"
  /\ count[c] >= Cardinality(ipList)
  /\ pc' = [pc EXCEPT ![c] = "done"]
  /\ probes' = [probes EXCEPT ![c] = {}]
  /\ UNCHANGED <<cacheBackend, ipList, own, todo, count, reached, met>>

-----------------------------------------------------------------------------

ReachNext ==
  \/ \E r \in Requests : Ask(r) \/ NodeListFails(r) \/ WalkFails(r) \/ \E n \in Masternodes : Enter(r, n)
  \/ \E c \in Counters :
       \/ CountIsRefused(c) \/ CountWalks(c) \/ CheckIpsAsync(c) \/ Poll(c)
       \/ \E a \in Hosts : ProbeEnds(c, a)
  \/ \E v \in Viewers : ViewWalks(v) \/ ViewAnswers(v)

ReachSpec == ReachInit /\ [][ReachNext]_reachVars

\* The node answers or fails, the cache answers or fails, probes time out after a
\* second, and the job runs every minute.  A callback that is due waits for
\* the microtasks of others and then runs, hence the strong fairness; once
\* its probes are back, the list changes only while it waits.
ReachFairness ==
  /\ \A r \in Requests :
       WF_reachVars(\/ WalkFails(r) \/ \E n \in Masternodes : Enter(r, n)
                    \/ r \in Counters /\ CheckIpsAsync(r)
                    \/ r \in Viewers /\ ViewAnswers(r))
  /\ \A c \in Counters :
       /\ SF_reachVars(CountWalks(c) \/ CountIsRefused(c) \/ NodeListFails(c))
       /\ SF_reachVars(\E a \in Hosts : ProbeEnds(c, a))
       /\ SF_reachVars(Poll(c))
  /\ \A v \in Viewers : SF_reachVars(ViewWalks(v) \/ NodeListFails(v))

ReachFairSpec == ReachSpec /\ ReachFairness

-----------------------------------------------------------------------------
\* Properties

\* An answer never counts more than the addresses of the enabled nodes in the list the count was
\* given, and counts all of them unless another walk crossed its own or left fewer addresses to be
\* compared with while it polled: lists as long as its own, and lists of nodes, do not spoil it.  A
\* refusal is given no node (rpcApi.js, getMasternodeReachableCount; utils.js, checkIpsAsync).
TotalIsComplete ==
  \A c \in Counters :
    pc[c] = "done" =>
      /\ met[c] \cap {"fewer", "crossed"} = {} => count[c] = Cardinality(own[c])
      /\ "crossed" \notin met[c] => count[c] <= Cardinality(own[c])
      /\ reached[c] <= count[c]

\* No address is lost and none is counted twice on the way: while a count polls, what came back and
\* what is under way make up its own list, and what it is compared with is no shorter unless another
\* walk made it so.  With the in-memory cache no walk is crossed (utils.js, ipList and checkIps).
ProbesAccounted ==
  \A c \in Counters :
    /\ pc[c] = "polling" /\ "crossed" \notin met[c] =>
         /\ count[c] + Cardinality(probes[c]) = Cardinality(own[c])
         /\ CallbackMayRun /\ "fewer" \notin met[c] =>
              Cardinality(own[c]) <= Cardinality(ipList)
    /\ cacheBackend = "lru" => "crossed" \notin met[c]

\* A count goes unanswered only where another walk crossed its own or brought more addresses than it
\* probed, while it polled: counts of lists that have not grown do not make one another wait forever
\* (utils.js, checkIpsAsync).
CountsAnswerUnlessOutgrown ==
  \A c \in Counters :
    pc[c] = "listing" ~> pc[c] \in {"done", "rejected"} \/ met[c] \cap {"more", "crossed"} # {}

\* A count that was given enabled nodes is answered.
EveryCountIsAnswered ==
  \A c \in Counters : pc[c] = "walking" /\ own[c] # {} ~> pc[c] \in {"done", "rejected"}
=============================================================================
