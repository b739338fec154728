---------------------------- MODULE ResponseCache ----------------------------
(***************************************************************************)
(* app/cache.js and app/redisCache.js: Cache.tryCache, the read-through    *)
(* cache in front of every call of app/api/coreApi.js.  A call looks its   *)
(* key up, fetches on a miss and stores what its condition accepts, for    *)
(* its own maximal age.  The fetch of a call may itself be a cached call   *)
(* (getAddressDeltas over its unpaged deltas, getMarketCap over            *)
(* getSupply).  Misses are not coalesced: two callers fetch at once.       *)
(*                                                                         *)
(* Time is a clock; an answer remembers when the node gave it.  A promise  *)
(* that settles is seen by its consumer before any timer: the clock waits  *)
(* for microtasks.  What is sent to redis, and its replies, take time; one *)
(* connection keeps them in order.                                         *)
(***************************************************************************)
EXTENDS Integers, Sequences

CONSTANTS Callers,   \* concurrent requests of the web server
          Calls,     \* records [fn, arg, page]: a function of coreApi.js and its arguments
          Inner,     \* the cached call that fetches for a call, or NoCall
          NoCall,
          Nothing,   \* no answer, no entry
          Age,       \* the maximal age each call passes to tryCache
          KindsOf,   \* the kinds of answer a call can get
          Conditional, \* the calls that pass shouldCacheTransaction
          Bound,     \* how old an answer of a call may be, with each back end
          BoundOfAny, \* ... with whatever back end
          MaxFetch,  \* the longest time the answer of an RPC is under way
          MaxTransit, \* ... a command to redis, or its reply
          Modes,     \* the back ends an execution may have
          MaxTime    \* bound of the clock

\* "lru": in memory, "redis": BTCEXP_REDIS_URL, "none":
\* BTCEXP_NO_INMEMORY_RPC_CACHE.
ASSUME ModesAssumption == Modes \subseteq {"lru", "redis", "none"}

\* What `!result`, `result != null` and the condition tell apart: a "falsy"
\* answer (0, "") is stored but never hit; shouldCacheTransaction accepts
\* neither an "unconfirmed" transaction nor a "large" one, of more than
\* nine inputs.
Kinds == {"plain", "falsy", "null", "unconfirmed", "large"}
ASSUME KindsAssumption == KindsOf \in [Calls -> SUBSET Kinds]

\* A call is its function and its arguments.
ASSUME CallsAssumption ==
  \A a, b \in Calls : a.fn = b.fn /\ a.arg = b.arg /\ a.page = b.page => a = b
ASSUME NoCallAssumption == NoCall \notin Calls
ASSUME InnerAssumption == Inner \in [Calls -> Calls \cup {NoCall}]
ASSUME TimeAssumption ==
  /\ MaxFetch \in Nat /\ MaxTransit \in Nat
  /\ MaxTime \in Nat
  /\ Age \in [Calls -> Nat]

Transit(m) == IF m = "redis" THEN MaxTransit ELSE 0

\* Ages of nested caches add up, down to the fetch itself.  An entry of redis
\* begins to age when the SET is there, and is on its way back after the GET.
ASSUME BoundAssumption ==
  /\ Bound \in [Modes -> [Calls -> Nat]]
  /\ \A m \in Modes, call \in Calls :
       Bound[m][call] = Age[call] + 2 * Transit(m)
                          + IF Inner[call] = NoCall THEN MaxFetch ELSE Bound[m][Inner[call]]
ASSUME BoundOfAnyAssumption ==
  /\ BoundOfAny \in [Calls -> Nat]
  /\ \A m \in Modes, call \in Calls : Bound[m][call] <= BoundOfAny[call]

VARIABLES mode,   \* the back end of this execution
          now,    \* the clock
          store,  \* cacheObj: what is kept under each key
          pc,     \* where each caller is
          path,   \* the nested tryCache calls a caller is in, outermost first
          val,    \* the answer a caller has in hand, or that is on its way
          sent    \* when redis sent the reply a caller waits for

vars == <<mode, now, store, pc, path, val, sent>>

-----------------------------------------------------------------------------

\* The keys name the function and every argument the answer depends on.
KeyOfNoPage(call) == <<call.fn, call.arg>>
KeyOf(call) == <<call.fn, call.arg, call.page>>
Keys == {KeyOf(call) : call \in Calls}

Top(s) == s[Len(s)]
Pop(s) == SubSeq(s, 1, Len(s) - 1)

Answers == [call : Calls, kind : Kinds, readAt : 0..MaxTime, stored : BOOLEAN]
Entries == [answer : Answers, expires : Nat]
ASSUME NothingAssumption == Nothing \notin Answers \cup Entries

PCs == {"idle", "looking", "replied", "fetching", "answered", "returning", "done", "rejected"}

\* Callbacks of settled promises, which run before the clock moves.
Microtask(c) ==
  \/ pc[c] = "returning"
  \/ pc[c] = "looking" /\ mode # "redis"

TypeOK ==
  /\ mode \in Modes
  /\ now \in 0..MaxTime
  /\ store \in [Keys -> Entries \cup {Nothing}]
  /\ pc \in [Callers -> PCs]
  /\ path \in [Callers -> Seq(Calls)]
  /\ val \in [Callers -> Answers \cup {Nothing}]
  /\ sent \in [Callers -> 0..MaxTime]
  /\ \A c \in Callers :
       /\ pc[c] \in PCs \ {"idle", "rejected"} => path[c] # <<>>
       /\ pc[c] \in {"replied", "answered", "returning", "done"} => val[c] \in Answers

Init ==
  /\ mode \in Modes
  /\ now = 0
  /\ store = [k \in Keys |-> Nothing]
  /\ pc = [c \in Callers |-> "idle"]
  /\ path = [c \in Callers |-> <<>>]
  /\ val = [c \in Callers |-> Nothing]
  /\ sent = [c \in Callers |-> 0]

-----------------------------------------------------------------------------

\* lru-cache with a maximal age, redis SET with PX.
FreshForever(e) == e # Nothing
Fresh(e) == e # Nothing /\ now <= e.expires

\* if (result != null && cacheConditionFunction(result)) set(...).  Only
\* getRawTransaction has a condition, shouldCacheTransaction; the default
\* accepts everything.
AcceptsAll(answer) == answer.kind # "null"
Accepts(answer) ==
  /\ answer.kind # "null"
  /\ answer.call \in Conditional => answer.kind \notin {"unconfirmed", "large"}

\* The SET of redis is not awaited, takes its time and may be lost.  A GET that
\* is sent later finds what it sets.
Entry(answer, age, delay) == [answer |-> answer, expires |-> now + delay + age]
StoreDoubleAge(answer) ==
  \/ /\ Accepts(answer)
     /\ store' = [store EXCEPT ![KeyOf(answer.call)] =
                    Entry(answer, 2 * Age[answer.call], Transit(mode))]
  \/ ~Accepts(answer) /\ UNCHANGED store
Store(answer) ==
  \/ /\ Accepts(answer)
     /\ \E delay \in 0..Transit(mode) :
          store' = [store EXCEPT ![KeyOf(answer.call)] = Entry(answer, Age[answer.call], delay)]
  \/ ~Accepts(answer) /\ UNCHANGED store
  \/ mode = "redis" /\ UNCHANGED store

\* tryCache is called.  Without a cacheObj, get(key) calls an undefined
\* noopGet: the executor throws and the promise is rejected.
Ask(c, call) ==
  /\ pc[c] \in {"idle", "done", "rejected"}
  /\ path' = [path EXCEPT ![c] = <<call>>]
  /\ pc' = [pc EXCEPT ![c] = IF mode = "none" THEN "rejected" ELSE "looking"]
  /\ val' = [val EXCEPT ![c] = Nothing]
  /\ UNCHANGED <<mode, now, store, sent>>

\* finallyFunc: dataFunc() is an RPC, or the tryCache of the inner call.
FetchFor(c) ==
  LET inner == Inner[Top(path[c])]
  IN IF inner = NoCall
       THEN /\ pc' = [pc EXCEPT ![c] = "fetching"]
            /\ UNCHANGED path
       ELSE /\ path' = [path EXCEPT ![c] = Append(@, inner)]
            /\ UNCHANGED pc

\* The get is answered: a hit resolves, once the reply of redis is there; a miss and
\* a falsy value fetch.  A miss that is long on its way is as a get that fails.
Hit(e) == Fresh(e) /\ e.answer.kind # "falsy"
LookUp(c) ==
  /\ pc[c] = "looking"
  /\ LET e == store[KeyOf(Top(path[c]))]
     IN \/ /\ Hit(e)
           /\ val' = [val EXCEPT ![c] = [e.answer EXCEPT !.stored = TRUE]]
           /\ pc' = [pc EXCEPT ![c] = IF mode = "redis" THEN "replied" ELSE "returning"]
           /\ sent' = [sent EXCEPT ![c] = IF mode = "redis" THEN now ELSE @]
           /\ UNCHANGED path
        \/ /\ ~Hit(e)
           /\ FetchFor(c)
           /\ UNCHANGED <<val, sent>>
  /\ UNCHANGED <<mode, now, store>>

ReplyComes(c) ==
  /\ pc[c] = "replied"
  /\ pc' = [pc EXCEPT ![c] = "returning"]
  /\ sent' = [sent EXCEPT ![c] = 0]
  /\ UNCHANGED <<mode, now, store, path, val>>

\* redisCache.get rejects: log, then fetch.
RedisFailsNoFetch(c) ==
  /\ mode = "redis"
  /\ pc[c] = "looking"
  /\ pc' = [pc EXCEPT ![c] = "rejected"]
  /\ UNCHANGED <<mode, now, store, path, val, sent>>
RedisFails(c) ==
  /\ mode = "redis"
  /\ pc[c] = "looking"
  /\ FetchFor(c)
  /\ UNCHANGED <<mode, now, store, val, sent>>

\* The node computes the answer to an RPC; it is on its way back.
NodeAnswers(c) ==
  /\ pc[c] = "fetching"
  /\ \E kind \in KindsOf[Top(path[c])] :
       val' = [val EXCEPT ![c] = [call |-> Top(path[c]), kind |-> kind,
                                  readAt |-> now, stored |-> FALSE]]
  /\ pc' = [pc EXCEPT ![c] = "answered"]
  /\ UNCHANGED <<mode, now, store, path, sent>>

\* dataFunc() resolves: store, resolve.
Complete(c) ==
  /\ pc[c] = "answered"
  /\ Store(val[c])
  /\ pc' = [pc EXCEPT ![c] = "returning"]
  /\ UNCHANGED <<mode, now, path, val, sent>>

\* dataFunc() rejects; so does every call around it.
FetchFailsResolves(c) ==
  /\ pc[c] \in {"fetching", "answered"}
  /\ pc' = [pc EXCEPT ![c] = "returning"]
  /\ val' = [val EXCEPT ![c] = Nothing]
  /\ UNCHANGED <<mode, now, store, path, sent>>
FetchFails(c) ==
  /\ pc[c] \in {"fetching", "answered"}
  /\ pc' = [pc EXCEPT ![c] = "rejected"]
  /\ val' = [val EXCEPT ![c] = Nothing]
  /\ UNCHANGED <<mode, now, store, path, sent>>

\* The consumer of a resolved tryCache: the caller, or the call around it,
\* which builds its own answer from the inner one, stores it and resolves.
ReturnToCaller(c) ==
  /\ pc[c] = "returning"
  /\ Len(path[c]) = 1
  /\ pc' = [pc EXCEPT ![c] = "done"]
  /\ UNCHANGED <<mode, now, store, path, val, sent>>
ReturnToCall(c) ==
  /\ pc[c] = "returning"
  /\ Len(path[c]) > 1
  /\ LET outer == Top(Pop(path[c]))
     IN \E kind \in KindsOf[outer] :
          LET answer == [call |-> outer, kind |-> kind,
                         readAt |-> val[c].readAt, stored |-> FALSE]
          IN /\ val' = [val EXCEPT ![c] = answer]
             /\ Store(answer)
  /\ path' = [path EXCEPT ![c] = Pop(@)]
  /\ UNCHANGED <<mode, now, pc, sent>>

\* lru-cache evicts at its limit; redis evicts or restarts.
Lose(k) ==
  /\ store[k] # Nothing
  /\ store' = [store EXCEPT ![k] = Nothing]
  /\ UNCHANGED <<mode, now, pc, path, val, sent>>

Tick ==
  /\ now < MaxTime
  /\ \A c \in Callers :
       /\ ~Microtask(c)
       /\ pc[c] = "answered" => now < val[c].readAt + MaxFetch
       /\ pc[c] = "replied" => now < sent[c] + Transit(mode)
  /\ now' = now + 1
  /\ UNCHANGED <<mode, store, pc, path, val, sent>>

-----------------------------------------------------------------------------

Next ==
  \/ Tick
  \/ \E k \in Keys : Lose(k)
  \/ \E c \in Callers :
       \/ \E call \in Calls : Ask(c, call)
       \/ LookUp(c) \/ ReplyComes(c) \/ RedisFails(c)
       \/ NodeAnswers(c) \/ Complete(c) \/ FetchFails(c)
       \/ ReturnToCaller(c) \/ ReturnToCall(c)

Spec == Init /\ [][Next]_vars

-----------------------------------------------------------------------------
\* Properties

\* No caller is handed an answer the node gave longer ago than the ages of
\* the caches it came through, the time of one RPC and, with redis, that of
\* one SET and one GET for each cache: overlapping misses, lost entries and
\* failing gets do not add to it.
BoundedStaleness ==
  [][\A c \in Callers :
       pc[c] # "done" /\ pc'[c] = "done" => now <= val[c].readAt + Bound[mode][val[c].call]]_vars

\* No answer that a condition refused, and no null, is ever reused.
NothingRefusedIsReused ==
  \A c \in Callers :
    pc[c] = "done" /\ val[c].stored =>
      /\ val[c].kind \notin {"null", "falsy"}
      /\ val[c].call \in Conditional => val[c].kind = "plain"

\* A failing cache is not the caller's failure: a call is rejected only
\* after its fetch failed.
RejectedOnlyByFetch ==
  [][\A c \in Callers :
       pc'[c] = "rejected" /\ pc[c] # "rejected" => pc[c] \in {"fetching", "answered"}]_vars

\* Where a call is, for the caller that made it, and what it has been given.
StateOf ==
  [at \in PCs |-> CASE at \in {"looking", "replied", "returning"} -> "waiting"
                   [] at \in {"fetching", "answered"} -> "atNode"
                   [] at \in {"idle", "done", "rejected"} -> at]
MayComeAgain(call) ==
  IF call \in Conditional THEN {"plain"} ELSE Kinds \ {"null", "falsy"}

\* A caller sees neither the keys nor the nesting nor the other callers: it
\* is given what the node said of its own call, once, and recently enough.
Service == INSTANCE FreshAnswers WITH
  Bound <- BoundOfAny,
  Reusable <- [call \in Calls |-> MayComeAgain(call)],
  Nobody <- NoCall,
  asked <- [c \in Callers |-> IF path[c] = <<>> THEN NoCall ELSE path[c][1]],
  state <- [c \in Callers |-> StateOf[pc[c]]],
  answer <- [c \in Callers |-> IF pc[c] = "done" THEN val[c] ELSE Nothing]
ImplementsFreshAnswers == Service!Spec
=============================================================================
