----------------------------- MODULE BlockPages -----------------------------
(***************************************************************************)
(* The pages of a block: getBlockByHashWithTransactions of                 *)
(* app/api/coreApi.js fetches the transactions of one page, and then the   *)
(* transactions their inputs spend, each as one list through the cached    *)
(* getRawTransactions.                                                     *)
(*                                                                         *)
(* rpcApi.getRawTransactions collects its answer in `result`, which it     *)
(* never declares: one variable of the process, shared by every call under *)
(* way, and set by executeMethod of app/api/addressApi.js, too.  The       *)
(* in-memory cache hands every caller the array it keeps; redis hands out  *)
(* copies.  So arrays have identity here, and live in a heap.              *)
(***************************************************************************)
EXTENDS Integers, Sequences, FiniteSets, SequencesExt

CONSTANTS Callers,   \* requests of the web server under way
          Blocks,
          Txs,
          Tx,        \* the transactions of each block, the coinbase first
          Vin,       \* the transactions a transaction spends, up to txMaxInput
          Limit,     \* transactions per page
          Pages,     \* the pages asked for: a block and an offset
          Backends,  \* the caches there may be: "lru", "redis"
          Failures,  \* the faults of an execution: "rpc", "clobber"
          MaxPages,  \* bound: pages asked for in one execution
          None

ASSUME ConstantsAssumption ==
  /\ Tx \in [Blocks -> Seq(Txs)]
  /\ \A b \in Blocks : Tx[b] # <<>> /\ \A i \in 2..Len(Tx[b]) : Tx[b][i] # Tx[b][1]
  /\ Vin \in [Txs -> Seq(Txs)]
  /\ Limit \in Nat \ {0}
  /\ Pages \subseteq Blocks \X Nat
  /\ Backends \subseteq {"lru", "redis"}
  /\ Failures \subseteq {"rpc", "clobber"}
  /\ MaxPages \in Nat
  /\ None \notin Txs
  /\ Blocks \cap Callers = {}

VARIABLES backend,   \* the cache of this process
          heap,      \* the arrays of transactions, by identity
          result,    \* the global of getRawTransactions, 0 if it is no array
          txCache,   \* what is kept for each list: an array, or a copy of it
          coinbase,  \* block.coinbaseTx of each block object
          opened,    \* pages asked for so far
          req,       \* the requests under way
          seen       \* history: "later" page opened, "overlap" of two batches

vars == <<backend, heap, result, txCache, coinbase, opened, req, seen>>

-----------------------------------------------------------------------------

\* The txids of a page; later pages fetch the coinbase as well.
OwnTxids(b, offset) ==
  SubSeq(Tx[b], offset + 1, IF offset + Limit < Len(Tx[b]) THEN offset + Limit ELSE Len(Tx[b]))
PageTxids(b, offset) ==
  (IF offset > 0 THEN <<Tx[b][1]>> ELSE <<>>) \o OwnTxids(b, offset)

\* The txids of the inputs of the transactions on a page.
VinTxids(transactions) ==
  FlattenSeq([i \in 1..Len(transactions) |-> Vin[transactions[i]]])

\* The cached block is one object for all requests, or a copy for each.
BlockObject(c) == IF backend = "redis" THEN c ELSE req[c].block
BlockObjects == Blocks \cup Callers

Idle == [pc |-> "idle", stage |-> "page", block |-> None, offset |-> 0, list |-> <<>>,
         got |-> 0, transactions |-> 0, shown |-> <<>>, found |-> {}]

TypeOK ==
  /\ backend \in Backends
  /\ heap \in Seq(Seq(Txs))
  /\ result \in 0..Len(heap)
  /\ \A key \in DOMAIN txCache :
       txCache[key] \in IF backend = "redis" THEN Seq(Txs) ELSE 1..Len(heap)
  /\ coinbase \in [BlockObjects -> Txs \cup {None}]
  /\ opened \in 0..MaxPages
  /\ \A c \in Callers :
       /\ req[c].pc \in {"idle", "looking", "missed", "sent", "got", "done", "rejected", "lost"}
       /\ req[c].stage \in {"page", "inputs"}
       /\ req[c].pc # "idle" => <<req[c].block, req[c].offset>> \in Pages
       /\ req[c].list \in Seq(Txs)
       /\ req[c].pc = "got" => req[c].got \in 1..Len(heap)
       /\ req[c].stage = "inputs" => req[c].transactions \in 1..Len(heap)
       /\ req[c].shown \in Seq(Txs)
       /\ req[c].found \subseteq Txs
  /\ seen \subseteq {"later", "overlap"}

Init ==
  /\ backend \in Backends
  /\ heap = <<>>
  /\ result = 0
  /\ txCache = [key \in {} |-> 0]
  /\ coinbase = [o \in BlockObjects |-> None]
  /\ opened = 0
  /\ req = [c \in Callers |-> Idle]
  /\ seen = {}

-----------------------------------------------------------------------------

\* A route asks for a page: getBlockByHash, then the list of its txids.
Open(c, b, offset) ==
  /\ req[c].pc \in {"idle", "done", "rejected", "lost"}
  /\ opened < MaxPages
  /\ opened' = opened + 1
  /\ req' = [req EXCEPT ![c] = [Idle EXCEPT !.pc = "looking", !.block = b, !.offset = offset,
                                            !.list = PageTxids(b, offset)]]
  /\ coinbase' = IF backend = "redis" THEN [coinbase EXCEPT ![c] = None] ELSE coinbase
  /\ seen' = IF offset > 0 THEN seen \cup {"later"} ELSE seen
  /\ UNCHANGED <<backend, heap, result, txCache>>

\* coreApi.getRawTransactions: a hit is the array itself, or a parsed copy.
Hit(c) ==
  /\ req[c].pc = "looking"
  /\ req[c].list \in DOMAIN txCache
  /\ LET kept == txCache[req[c].list]
     IN IF backend = "redis"
          THEN /\ heap' = Append(heap, kept)
               /\ req' = [req EXCEPT ![c].pc = "got", ![c].got = Len(heap) + 1]
          ELSE /\ req' = [req EXCEPT ![c].pc = "got", ![c].got = kept]
               /\ UNCHANGED heap
  /\ UNCHANGED <<backend, result, txCache, coinbase, opened, seen>>

\* An entry that expired, or a failing redis, is a miss as well.
Miss(c) ==
  /\ req[c].pc = "looking"
  /\ req' = [req EXCEPT ![c].pc = "missed"]
  /\ UNCHANGED <<backend, heap, result, txCache, coinbase, opened, seen>>

\* resolve(result) of rpcApi.getRawTransactions, and the set of tryCache.
Resolve(c, arrays, array) ==
  /\ heap' = arrays
  /\ txCache' = [key \in DOMAIN txCache \cup {req[c].list} |->
                   IF key # req[c].list THEN txCache[key]
                   ELSE IF backend = "redis" THEN arrays[array] ELSE array]
  /\ req' = [req EXCEPT ![c].pc = "got", ![c].got = array]

\* result = []; one batch for the whole list, as (i+1) % 10 is never 0 for
\* the string i.  An empty list is answered at once.
Overlap(c) == IF \E d \in Callers \ {c} : req[d].pc = "sent" THEN {"overlap"} ELSE {}
SendNothingWaits(c) ==
  /\ req[c].pc = "missed"
  /\ seen' = seen \cup Overlap(c)
  /\ result' = Len(heap) + 1
  /\ heap' = Append(heap, <<>>)
  /\ req' = [req EXCEPT ![c].pc = IF req[c].list = <<>> THEN "lost" ELSE "sent"]
  /\ UNCHANGED <<backend, txCache, coinbase, opened>>
Send(c) ==
  /\ req[c].pc = "missed"
  /\ seen' = seen \cup Overlap(c)
  /\ result' = Len(heap) + 1
  /\ \/ /\ req[c].list = <<>>
        /\ Resolve(c, Append(heap, <<>>), Len(heap) + 1)
     \/ /\ req[c].list # <<>>
        /\ heap' = Append(heap, <<>>)
        /\ req' = [req EXCEPT ![c].pc = "sent"]
        /\ UNCHANGED txCache
  /\ UNCHANGED <<backend, coinbase, opened>>

\* getBatchRpcData is answered: result.push(...), resolve(result), with what
\* `result` is by now.
AnswerReplaces(c) ==
  /\ req[c].pc = "sent"
  /\ result # 0
  /\ Resolve(c, [heap EXCEPT ![result] = req[c].list], result)
  /\ UNCHANGED <<backend, result, coinbase, opened, seen>>
Answer(c) ==
  /\ req[c].pc = "sent"
  /\ result # 0
  /\ Resolve(c, [heap EXCEPT ![result] = @ \o req[c].list], result)
  /\ UNCHANGED <<backend, result, coinbase, opened, seen>>

\* The batch fails, or `result` has no push: getRawTransactions rejects and
\* nobody catches it.
RejectResolves(c) ==
  /\ req[c].pc = "sent"
  /\ "rpc" \in Failures \/ result = 0
  /\ req' = [req EXCEPT ![c].pc = "got"]
  /\ UNCHANGED <<backend, heap, result, txCache, coinbase, opened, seen>>
Reject(c) ==
  /\ req[c].pc = "sent"
  /\ "rpc" \in Failures \/ result = 0
  /\ req' = [req EXCEPT ![c].pc = "rejected"]
  /\ UNCHANGED <<backend, heap, result, txCache, coinbase, opened, seen>>

\* executeMethod without an address API for its method: result = {}.
Clobber ==
  /\ "clobber" \in Failures
  /\ result' = 0
  /\ UNCHANGED <<backend, heap, txCache, coinbase, opened, req, seen>>

\* transactions[0], undefined without one.
First(transactions) == IF transactions = <<>> THEN None ELSE transactions[1]

\* The page has its transactions: note the coinbase, drop it from a later
\* page, ask for the inputs.
ShowPageNoGuard(c) ==
  /\ req[c].pc = "got"
  /\ req[c].stage = "page"
  /\ LET array == req[c].got
         page == IF req[c].offset > 0 /\ heap[array] # <<>> THEN Tail(heap[array]) ELSE heap[array]
     IN /\ coinbase' = IF heap[array] # <<>>
                         THEN [coinbase EXCEPT ![BlockObject(c)] = First(heap[array])]
                         ELSE coinbase
        /\ heap' = [heap EXCEPT ![array] = page]
        /\ req' = [req EXCEPT ![c].pc = "looking", ![c].stage = "inputs",
                              ![c].transactions = array, ![c].list = VinTxids(page)]
  /\ UNCHANGED <<backend, result, txCache, opened, seen>>
ShowPageNoShift(c) ==
  /\ req[c].pc = "got"
  /\ req[c].stage = "page"
  /\ LET page == heap[req[c].got]
     IN /\ coinbase' = IF Len(page) = Len(req[c].list)
                         THEN [coinbase EXCEPT ![BlockObject(c)] = First(page)]
                         ELSE coinbase
        /\ req' = [req EXCEPT ![c].pc = "looking", ![c].stage = "inputs",
                              ![c].transactions = req[c].got, ![c].list = VinTxids(page)]
  /\ UNCHANGED <<backend, heap, result, txCache, opened, seen>>
ShowPageOwnInputs(c) ==
  /\ req[c].pc = "got"
  /\ req[c].stage = "page"
  /\ LET array == req[c].got
         page == IF req[c].offset > 0 /\ heap[array] # <<>> THEN Tail(heap[array]) ELSE heap[array]
     IN /\ coinbase' = IF Len(heap[array]) = Len(req[c].list)
                         THEN [coinbase EXCEPT ![BlockObject(c)] = First(heap[array])]
                         ELSE coinbase
        /\ heap' = [heap EXCEPT ![array] = page]
        /\ req' = [req EXCEPT ![c].pc = "looking", ![c].stage = "inputs",
                              ![c].transactions = array, ![c].list = page]
  /\ UNCHANGED <<backend, result, txCache, opened, seen>>
ShowPage(c) ==
  /\ req[c].pc = "got"
  /\ req[c].stage = "page"
  /\ LET array == req[c].got
         page == IF req[c].offset > 0 /\ heap[array] # <<>> THEN Tail(heap[array]) ELSE heap[array]
     IN /\ coinbase' = IF Len(heap[array]) = Len(req[c].list)
                         THEN [coinbase EXCEPT ![BlockObject(c)] = First(heap[array])]
                         ELSE coinbase
        /\ heap' = [heap EXCEPT ![array] = page]
        /\ req' = [req EXCEPT ![c].pc = "looking", ![c].stage = "inputs",
                              ![c].transactions = array, ![c].list = VinTxids(page)]
  /\ UNCHANGED <<backend, result, txCache, opened, seen>>

\* The inputs are there.  resolve() is called for each transaction of the
\* page: without one, never.
Render(c) ==
  /\ req[c].pc = "got"
  /\ req[c].stage = "inputs"
  /\ LET page == heap[req[c].transactions]
     IN req' = [req EXCEPT ![c].pc = IF page = <<>> THEN "lost" ELSE "done",
                           ![c].shown = page,
                           ![c].found = ToSet(heap[req[c].got])]
  /\ UNCHANGED <<backend, heap, result, txCache, coinbase, opened, seen>>

-----------------------------------------------------------------------------

Next ==
  \/ Clobber
  \/ \E c \in Callers :
       \/ \E page \in Pages : Open(c, page[1], page[2])
       \/ Hit(c) \/ Miss(c) \/ Send(c) \/ Answer(c) \/ Reject(c)
       \/ ShowPage(c) \/ Render(c)

Spec == Init /\ [][Next]_vars

\* Promises settle: the cache and the RPC client answer or fail every call.
Fairness ==
  \A c \in Callers :
    /\ WF_vars(Hit(c) \/ Miss(c))
    /\ WF_vars(Send(c))
    /\ WF_vars(Answer(c) \/ Reject(c))
    /\ WF_vars(ShowPage(c) \/ Render(c))

FairSpec == Spec /\ Fairness

-----------------------------------------------------------------------------
\* Properties

Rendered(c) == req[c].pc = "done"

\* What keeps other requests from taking from an array: none overlaps and none
\* finds the array in the cache, or no later page is opened at all.
NothingTaken ==
  "later" \notin seen \/ ("overlap" \notin seen /\ backend = "redis")

\* block.coinbaseTx, from which the miner and the fees of a block are
\* computed, is the first transaction of that block, whatever else ended up
\* in the shared array: the comparison of lengths keeps wrong ones out.
CoinbaseIsFirst ==
  \A c \in Callers :
    req[c].pc # "idle" /\ NothingTaken =>
      coinbase[BlockObject(c)] \in {None, Tx[req[c].block][1]}

\* A page misses none of its transactions: overlapping requests alone only add to an
\* array, only the shift of a later page takes from it.
PageMissesNothing ==
  \A c \in Callers :
    Rendered(c) /\ NothingTaken =>
      ToSet(OwnTxids(req[c].block, req[c].offset)) \subseteq ToSet(req[c].shown)

\* Every transaction of a rendered page has the transactions its inputs
\* spend beside it.
InputsComplete ==
  \A c \in Callers :
    Rendered(c) /\ NothingTaken =>
      \A t \in ToSet(OwnTxids(req[c].block, req[c].offset)) : ToSet(Vin[t]) \subseteq req[c].found

\* A later page does not show the coinbase it fetched for the miner, and no page
\* shows more transactions than the limit allows, if no two batches overlapped.
PageIsExact ==
  \A c \in Callers :
    Rendered(c) /\ "overlap" \notin seen =>
      /\ req[c].offset > 0 => Tx[req[c].block][1] \notin ToSet(req[c].shown)
      /\ Len(req[c].shown) <= Limit

\* A page holds as many transactions as the limit allows.
PageSizeLimited ==
  \A c \in Callers : Rendered(c) => Len(req[c].shown) <= Limit

\* A later page of a block shows all its transactions, however often it is visited.
VisitMissesNothing ==
  \A c \in Callers :
    Rendered(c) => ToSet(OwnTxids(req[c].block, req[c].offset)) \subseteq ToSet(req[c].shown)

\* Every page that has transactions is rendered or its request rejected, unless
\* the kept array of a later page was emptied by its visits.
EveryPageIsRendered ==
  \A c \in Callers :
    req[c].pc = "looking" /\ OwnTxids(req[c].block, req[c].offset) # <<>>
      ~> req[c].pc \in {"done", "rejected"} \/ (backend = "lru" /\ "later" \in seen)
=============================================================================
