# rpc-explorer: a verification project

TLA+ models of rpc-explorer, a block explorer that keeps no database: an express
web server that turns each page into calls of a node's RPC interface, with a
queue in front of the node and a cache in front of the queue. The modules are
written from the source (`app/`, `routes/`, `app.js`), checked by TLC on small
instances, and partly proved by TLAPS for every value of their constants.

JavaScript runs one handler to its end, so nothing here races inside a handler.
What goes wrong in such a program goes wrong between handlers: a variable that
outlives the handler that set it, a callback that is not called on one of its
paths, an array two callers hold, a job that compares what was with what is. The
models have one action per handler and keep exactly that state.

## 1. Inventory

| Component | Source | State | Operations | Modelled by |
|---|---|---|---|---|
| RPC queue and clients | `app/api/rpcApi.js` 17-28, 819-943, `app.js`, `app/config.js` | `rpcQueue` (async.queue), the retry count of a call, the client objects | `getRpcData`, `getBatchRpcData`, `getRpcDataWithParams`, `singeRpcCommand` | `RpcQueue`, `RpcService` |
| RPC methods | `app/api/rpcApi.js` 44-810 | the undeclared `result`, `HAS_COUNT_MAP` | one method per RPC, the list of transactions, asset counts, locked coins, masternode and quorum calls | `BlockPages`, `Reachability`, `AssetPages`, `CoinFigures`, `AddressSync` (partly) |
| Response cache | `app/cache.js`, `app/redisCache.js`, the calls of `app/api/coreApi.js` | `cacheObj` of nine caches, entries with an expiry | `tryCache`, `get`, `set`, for the LRU, redis, and none | `ResponseCache`, `FreshAnswers` |
| Block pages | `app/api/coreApi.js` 840-905, `getRawTransactions` | arrays kept by `txCache`, `block.coinbaseTx` of a cached block | `getBlockByHashWithTransactions` | `BlockPages` |
| Lists of blocks | `coreApi.js` 622-655, `baseActionsRouter.js` `/blocks`, `session.js` 403-430, `restfulRouter.js` 242-410 | the kept height, mempool and blocks | `getBlocksByHeight`, `renderBlockTables`, `getBlocks`, `getLatestTxids` | `BlockLists` |
| Masternode reachability | `app/utils.js` 608-738, `rpcApi.js` 670-710, `routes/restfulRouter.js` 516-559 | `ipList`, `reachableCache`, `checkCount` of each count | `getMasternodeReachableCount`, `getNodeList`, `checkIps`, `checkIpsAsync` | `Reachability` |
| Statistics | `app/api/coreApi.js` 222-621 | none | `getMempoolStats`, `getTxCountStats`, `getPeerSummary`, `getMempoolDetails` | `MempoolStats`, `ChainStats` (the first two) |
| Sessions and pages | `routes/session.js`, `routes/baseActionsRouter.js`, `app/pageRender.js` | `res.locals`, `htmlViewCache`, the session | one handler per page; `compileView`, `renderDynamicView`, `getAddressMetaData` | `RequestLifecycle` |
| REST API | `routes/restfulRouter.js` | none of its own | paging of the lists of blocks, transactions, holders and nodes; `triggerApiCall` | `RequestLifecycle` (how each call ends), `Reachability` (`getNodeList`), `AssetPages` (`getAssetAddresses`), `BlockLists` (`getBlocks`, `getLatestTxids`) |
| Address back ends | `app/api/addressApi.js`, `electrumAddressApi.js`, three HTTP back ends | the Electrum clients | `getAddressDetails`, `getAddressBalance` over several servers | `AddressPages` |
| Address sync | `app/api/sync.js`, `btcEventListeners.js`, `app/database/` | `syncing`, the tracker and wallets in mongodb | sync from the last height, window by window | `AddressSync`; `app.js` does not create it |
| Coins | `app/coins.js`, `app/coins/` | configuration | subsidy and collateral by height | `CoinFigures` (the subsidies) |
| Startup, middleware, jobs | `app.js`, `app/auth.js`, `app/credentials.js` | globals, `miningPoolsConfigs` | configuration, the order of middleware and routers, refresh of prices and pools | `RequestLifecycle` (the order), `MinerSearch` (the pools) |
| Prices | `app/api/MarketApi.js` | none | one HTTP request per exchange | not modelled |
| Helpers | `app/utils.js` | exchange rates | miner and fees of a block, formats | `Reachability`, `MinerSearch`, `CoinFigures` (partly) |
| Mock node, decoders, CLI | `app/api/mockApi.js`, `DaemonUtils.js`, `bin/` | none | test double, scripts | not modelled |
| Views and assets | `views/`, `public/` | none | templates | not modelled |

### How the components interact

A route builds a `Session` or calls `coreApi` directly. Each function of
`coreApi` is a `tryCache` around a function of `rpcApi`; some of these are built
on other cached functions, so caches nest. Each function of `rpcApi` pushes one
task into `rpcQueue`, whose worker talks to the node through a client object with
a timeout. All of it is promises: a caller holds a promise that somebody below has
to settle, and an error must travel up the same chain. State shared by requests:

- the slots and the list of `rpcQueue`;
- the entries of the caches, and with the in-memory cache the *objects* in them;
- `result` of `rpcApi.getRawTransactions`, a global nobody declared, which
  `addressApi.executeMethod` sets as well;
- `ipList` of `utils.js`, filled, cleared and counted by requests of two kinds
  and a job;
- `HAS_COUNT_MAP`, `blockHeightsByTxid`, `htmlViewCache`, the prices.

### Which behaviours are hard, and what makes each component correct

- **Queue.** Ten callbacks and error paths give a slot back. Correct: the number of
  slots in use is the number of calls in service and never above the limit; no
  task waits beside a free slot; a caller is pending exactly as long as its call is
  held somewhere; a call is executed at most as often as it may be tried; first in,
  first out; every caller is answered.
- **Cache.** Misses are not coalesced, entries expire, are evicted and are lost,
  redis fails between two awaits, ages of nested calls add up. Correct: an answer
  belongs to the question; it is never older than the ages it passed through and
  one fetch, and what redis takes; nothing a condition refused is reused; a failing cache
  fails no call.
- **Block pages.** Two lists are fetched through the shared `result` and kept as
  shared arrays. Correct: a page shows its own transactions, all of them and no
  others, within the limit; the coinbase the miner is computed from is the
  block's; every transaction has its inputs; a page is always rendered.
- **Reachability.** Counts overlap each other and the list of nodes on one
  `ipList`, each with the nodes of its own call. Correct: a total is the number of addresses
  of the enabled nodes in the list the count was given; every count is answered.
- **Mempool summary.** The mempool changes between its list and the questions about
  each entry. Correct: each transaction counts once in each breakdown, sums are the
  sums of what was there, the rates of a row match its label.
- **Charts and lists.** A chart or a list is put together from answers of different
  ages about different tips. Correct: a point is off by no more than the chain grew
  meanwhile; a list has every block of its heights, and a transaction of the mempool
  or of a new block once.
- **Figures.** Reward tables with edges, batches with a leftover, a search with one
  index for two loops. Correct: fees are what the coinbase claims; each collateral
  counts once; the miner is the first pool that is named.
- **Addresses and holders.** Servers, and nodes, differ in what they know and what they
  can do. Correct: a page is one slice of one history; a balance comes with it; a sync
  loses no receiver, whatever fails and whenever it stops.
- **Pages and REST calls.** Some forty handlers, each a tree of promises with a
  `catch` on some branches. Correct: one response per request, and one there is; what
  the cache of views gives to a request is what it asked for.

The full list of hazards, each at its line, is in `PROJECT.json`.

## 2. Modules

| Module | What it is |
|---|---|
| `RpcQueue` | rpcQueue, the three forms of a call, the calls beside the queue |
| `RpcService` | what the queue promises: first in, first out, `Concurrency` in service, one settlement per call |
| `RpcQueueProofs` | theorems about `RpcQueue`: that it implements `RpcService`, and how often the node runs a call |
| `ResponseCache` | `tryCache` over its three back ends, nested |
| `FreshAnswers` | what the cache promises its callers: the node's word on the very call, no older than its bound, and a rejection only from the node |
| `ResponseCacheProofs` | theorems about `ResponseCache`: that it implements `FreshAnswers`, and how old an answer gets |
| `BlockPages` | a page of a block, with the arrays as objects |
| `BlockProofs` | theorems about `BlockPages` |
| `Reachability` | counts and the list of nodes over one `ipList` |
| `RequestLifecycle` | a request from the middleware to its response, every route as the transitions of its handler, `htmlViewCache` |
| `RequestLifecycleProofs` | theorems about `RequestLifecycle`: that no request is answered twice, and that views are of the address asked for |
| `MempoolStats` | the mempool listed, asked for one by one, and summed up |
| `ChainStats` | the number of transactions over the height of a growing chain |
| `CoinFigures` | rewards and fees of a block, coins that are locked |
| `MinerSearch` | which pool mined a block |
| `FigureProofs` | theorems about `MinerSearch`, `ChainStats`, `CoinFigures`, `MempoolStats` and `Reachability` |
| `AssetPages` | pages of holders over `HAS_COUNT_MAP` |
| `AddressPages` | transactions and balance of an address from any of the back ends |
| `AddressSync` | the sync of addresses into a database |
| `AddressProofs` | theorems about `AssetPages`, `AddressPages` and `AddressSync` |
| `BlockLists` | lists of blocks by height and of the latest transactions |
| `StandaloneProofs` | theorems about `BlockLists`, and about `MCStandalone`: that its components behave there as by themselves |
| `DataInduction` | lemmas about joined sequences and sums, by induction over numbers and finite sets |
| `MC*` | instances for TLC. `MCStandalone` holds the eight modules from `MempoolStats` on: they share no state, so each of its behaviours is one of them (`part`) and the others rest |

Definitions named like another with a suffix (`KeyOfNoPage` beside `KeyOf`)
are plausible faults of the definition they stand beside. `Next` does not
use them: put in the definition's place, each must break the property that
`PROJECT.json` pairs it with.

### RpcQueue

| Model | Code |
|---|---|
| `tasks`, `processingScheduled`, `numRunning` | `_tasks`, the pending `setImmediate(process)` and `numRunning` of async.queue 2.6 |
| `worker[r]` | `none`, `sent`: the client waits for the node, `backoff`: the ten milliseconds before a retry |
| `retry[r]` | the parameter `retry` of `singeRpcCommand` |
| `promise[r]` | the promise of `getRpcData` and its siblings; an RPC error *fulfils* the form with parameters and rejects the two others |
| `work`, `executed` | what the node still has of each send, and how often it ran the call: a timeout abandons a send, it does not stop it |
| `Push` | `rpcQueue.push`, which schedules `process` |
| `Process`, `Settle` | `process()` from `setImmediate` and from `callback()`: both start tasks while a slot is free |
| `Answer`, `GiveUp`, `RetryLater`, `Resend` | the callbacks of the client and the retry timer |
| `CallDirectly` | the routes that call `global.rpcClient` (`/tx/...`, the terminal, the browser) |
| `FinishAbandoned` | the node finishes a send nobody waits for |

async.queue and the node are not under `src/`; they are external, modelled from
how the code uses them. `batchRpcCommand` (`rpcApi.js` 945) has no caller and is
left out.

### ResponseCache

`path[c]` is the stack of nested `tryCache` calls a caller is in, `val[c]` the
answer it holds, `store` the `cacheObj`. An answer carries the time the node gave
it, and `stored` says that it came out of the store. `LookUp` and `RedisFails` are
`get` and its `catch`; `NodeAnswers`, `Complete` and `FetchFails` the fetch, in two
steps since time passes between the node's answer and the `set`; `ReturnToCall`
is the nested case, where the consumer of the inner promise builds and stores its
own answer. What is sent to redis takes up to `MaxTransit`, and so does its reply: a SET begins to
age when it is there (`Entry`), and a hit is `replied` until `ReplyComes`; how long a miss is on its
way is the time before a failing get. `Tick` moves the clock when no microtask is due, no fetch has
taken `MaxFetch` and no reply `MaxTransit`. `Bound` is of a back end, since redis adds to it, and
`BoundOfAny` what `FreshAnswers` promises whatever the back end. The nine caches (`miscCache`,
`blockCache`, `txCache`, `assetsCache`, `masternodeCache` and `chartingCache` of `coreApi.js`,
`reachableCache` of `utils.js`, `htmlViewCache` of `session.js`, `marketCache` of `MarketApi.js`)
are instances of one class; the first six hold what functions of `coreApi` answer, under keys that
name the function, so one `store` stands for them. The others are modelled where they matter
(`Reachability`, `RequestLifecycle`) or not at all.

### BlockPages

`heap` gives arrays identity. `result` is the array the undeclared global points
at; `txCache` keeps a reference (`"lru"`) or a copy (`"redis"`) for each list of
txids. A request fetches the list of its page (`stage = "page"`), notes the
coinbase if the lengths agree, drops it from later pages with `shift()`, and
fetches the list of the transactions spent (`stage = "inputs"`). The route's own
work before (`getBlockByHash`) only yields the block object, which is shared in
memory and copied by redis: `BlockObject`. `Clobber` is the one step of the address
API that matters here.

### Reachability

`ipList` is a set of addresses, so that nodes which share one are one entry (`HostOf`). A count is
given a list of its own, any set of nodes, clears `ipList` (`CountWalks`), enters the addresses of
the enabled nodes one await at a time (`Enter`), probes what `ipList` then holds
(`CheckIpsAsync`), and is answered by `Poll` when what came back is at least the length of `ipList`
*by then*. A refusal of the node *resolves* the call (`rpcApi.js:911-931`): the count clears `ipList`
all the same and walks over nothing (`CountIsRefused`). Only a call that fails twice rejects
(`NodeListFails`). `getNodeList` enters every node and clears nothing; a refusal rejects it. Two
things tell the back ends apart: awaits on the in-memory cache are microtasks, and no other callback
runs before a walk is over (`CallbackMayRun`); awaits on redis may be rejected (`WalkFails`).

`own[c]` is the list the count was given, and `met[c]`, a history, what walks of others did to it:
`crossed` its walk, or left `fewer` or `more` addresses than its own in `ipList` while it polled.
The properties say what a count is owed in each case, and so that nothing else spoils it.

### RequestLifecycle

| Model | Code |
|---|---|
| a transition `[at, on, answers, next]` | the continuation of the promise `at` when it settles as `on`: it answers (`res.send`, `res.render`, `res.redirect`) or not, and waits for `next` |
| `Chain(<<p1, p2, ...>>)` | `p1.then(() => p2.then(...))`, the last one answering |
| `Caught`, `Uncaught` | a `catch` that answers; a `then` without a `catch`, or a call that is not returned into the chain the `catch` is on |
| `"error"` | an `RpcError` that *resolves* a call with parameters (`rpcApi.js` 819-909) |
| `"never"` | a promise neither resolved nor rejected, such as that of a count that polls, of `getSupply` for an empty answer, of a page of a block the node does not know |
| `waits[r]`, `sent[r]`, `lost[r]` | the continuations that can still speak for the request, its answers, and the waits that ended with nothing |
| `views`, `KeyOf`, `shown` | `htmlViewCache`, its keys, and whose view a request got |
| `Arrive`, `Settles`, `Evict` | a request enters its handler; a promise settles; a view is dropped |

One operator stands for one handler and lists what may happen in it; the handler's
computations are left out. Two requests meet only in `htmlViewCache`: what else they
share is in the other modules. `Middleware` is what answers before a router does (no
connection, no token, too many requests), `AfterRouters` what is left of a path that no
router has. `SearchHash` holds a transition that both answers and waits
(`baseActionsRouter.js` 311-321); `NeverNull`, which is read off `rpcApi.js`, says that
it is never taken.

`Gaps` names every place where a request may be left without an answer, and
`AnsweredUnlessForgotten` says that there are no others.

### MempoolStats

`pool` is the node's mempool, `results` what each listed transaction was answered with:
an entry, an RpcError (the transaction had left; `getRpcDataWithParams` resolves with it, so
the `catch` of `getRawMempoolEntry` does not see it), or null for a failed call. `Summarise`
is `getMempoolStats`: two passes, the clock read in both. `NaN` is what JavaScript makes of
an undefined field, and of an age divided by an oldest age of zero; `Parsed` is `parseInt`
of a quotient, which reads the first digit of a number printed with an exponent. Rates are
compared by multiplication, which leaves out the rounding of doubles.

The model shows what a page does with an RpcError among its entries: the transaction is
counted, and in the last bucket of fees, but the totals and averages are `NaN`
(`FeesAddUp` holds only because it asks that nothing left).

### ChainStats

`getTxCountStats` takes the height from `getBlockchainInfo`, kept for `InfoAge`, and asks
`getChainTxStats` for one window per point (`WindowAt`), kept for `StatsAge`, each of
which ends at the tip of *its* time. A count of transactions is written as the height it
counts up to, so that a point `[x, y]` is exact when `x = y`. `Invalid` is the RpcError of a
window that reaches the first block: it resolves, and is passed over.

### CoinFigures

`TableReward` is `rtm.js` 93-129 with amounts in units of 1/21262 of a coin, in which
the fraction `owlings` of the code is exact; `EraReward` is the reward of the coins that halve.
`ChainReward` is what a block really pays by the comments of the table, and `GetBlock` takes a block
whose coinbase claims that and its fees. Half satoshis of late eras are rounded down. `NextBatch`
is the loop of `totalCoinLockedByMN` with its `outputs` and `txids`.

### MinerSearch

`index` is the one variable `i` of `getMinerFromCoinbaseTx`: `After` is where the loop over the
outputs leaves it. `LoadMiningPoolConfigs` and `DirectoryRead` are the two parts of the loading,
between which `special` is filled from a list that is still empty.

### AssetPages

`flag` is `HAS_COUNT_MAP.listaddressesbyasset`, `kept` the count in `assetsCache`. A request is
at the count (`count`), at the first count that finds out (`probe`), at the whole list
after a refusal (`fallback`) or because the node does not count (`list`), or at the rows. `paged` is
read from the flag when the total is there, not when the request began. `forgotten` is the
`countRPC` without a catch.

The holders change (`HoldersChange`), while a count is kept and between the count and the rows of a
page. `was` is how many there have been; `readAt` and `since` say from when on a page may know of
them, and `Had` which totals and rows that allows.

### AddressPages

`known[s]` is how much of the history a server knows; `clients` the servers that connected, in
that order. `Compared` returns the same for every answer, since `electrumAddressApi.js` compares
a property that neither of its pairs has: the first server wins. The web services answer rows from
the newest on, and `Ascending` is how `blockchain.com` is asked for the oldest first. `daemonRPC`
asks the node itself, for the balance and for the deltas of the address at once (`rpcApi.js:212-261`):
a refused list of deltas rejects, a refused balance leaves the details without one and without an error
(`DaemonDetails`). That these details are kept for five minutes is `ResponseCache`'s.

### AddressSync

`sync[p].pc` follows `syncAddressBalance` from await to await; `syncing` is tested in `Begin` and
set in `LastAnswers`. `Find` and `Write` are the two halves of `genericSaveUpdate`, between which
another sync may insert the same address; `DatabaseFails` is the callback that never comes, and
`SyncRestart` a crash at any point.

### BlockLists

`counts`, `mempool` and `blocks` are what is kept of `getblockcount`, `getblockchaininfo`, the mempool
and `getBlockByHeight`, each with its age; `HeightsOf` gives the heights of each list as the code
computes them. One list is under way at a time; `Visit` stands for any other page that asks for a
height. `early` remembers when a height was asked for before it was mined: the RpcError resolves,
so `blockCache` keeps it for an hour (`coreApi.js:624`), and `ListsAreCurrent` excepts such a height.
The hour begins when the error is *kept*: `misses` are those the node has given and the cache has
not, during which the block may be mined (`VisitMisses`, `BlockMisses`, `MissIs`). An answer that has the
block is as good late as early, and is kept in the step it is given in.

## 3. What is checked

| Run | Shows | Bounds |
|---|---|---|
| `queue` | slots, queue, promises and retries stay consistent, `RpcService` is implemented, every caller is answered | 2 slots, 2 calls with parameters and 2 tries each, 1 single call, 1 direct call |
| `cache` | answers are never too old, never refused ones; a failing redis fails no call; `FreshAnswers` is implemented | 2 callers, a call over a call and one with a condition, clock to 3 in memory and to 7 with redis, where the call with a condition is left out |
| `cache_disabled` | *violated*: without a cache every cached call is rejected | one call suffices |
| `pages` | pages under overlap, revisits and failures miss nothing and have their inputs and the right coinbase; one that overlaps no other and was not visited before is exact; all are rendered unless a batch failed | 2 callers, 3 pages asked for, 2 blocks (3 spenders and an empty one), limit 2, offsets 0 and 2, in memory and redis |
| `pages_revisit` | *violated*: a later page visited twice from memory misses a transaction | 1 caller |
| `pages_overlap` | *violated*: overlapping requests exceed the page limit | 2 callers |
| `reachable` | a total is that of the count's own list unless another walk crossed it or left fewer addresses; no probe is lost or counted twice; a count is answered unless another walk crossed it or brought more | 2 counts, 1 list of nodes, any lists of 3 nodes with 2 addresses, in memory and with redis (there two requests at a time) |
| `requests` | no request is answered twice, views are of the address asked for, a request is answered unless it ends in a named gap | 2 requests, any of 37 routes, 2 addresses, 2 windows, coins with and without assets |
| `standalone` | the summary of a mempool covers its entries and adds up; points of a chart are near their counts; fees and locked coins are exact; the miner is the right pool; pages of holders and of addresses are slices; lists of blocks are current; a sync loses no receiver, takes no record back to an older balance, and ends | `MCStandalone.cfg`, by part |
| `miner_search` | *violated*: a search for the miner never ends | 2 files, coinbases of up to 2 outputs |
| `requests_unknown` | *violated*: a path no router has is not answered | 1 request |
| `reachable_viewed` | *violated*: a count waits forever after a list of nodes | 1 count, 1 list |

Why these bounds are enough. *Queue*: three queued calls on two slots is the least
with a call that waits beside full slots and one that overtakes nobody; two calls with
two tries let retries, timeouts and late answers of both interleave; a batch
behaves as a single call, and is one member of the same case split. *Cache*: two callers miss
together and store in either order; a longer chain of callers only repeats
that. Deltas live for the tick they were stored in (age 0), a page one tick (1),
a fetch takes up to one tick, so the oldest answer a page may return is two ticks
old and the clock to 3 lets one go beyond it. `StoreDoubleAge` is found within it. The kinds of answer are those that are stored, never
stored, or refused; one that is stored and never hit (`falsy`) is left to `RefusedIsNotReused`. With redis
a command and a reply take up to a tick each, so that a page may be six ticks old, and is, and the
clock to 7 lets it get older. *Pages*: three
pages are two that overlap and a third that finds what they left, or a page and its revisit
beside another. *Reachability*:
two counts are the least where one clears under the other; three nodes on two addresses have lists
that shrink, grow, change and share an address. With redis a walk can stop
anywhere, and any two of the three requests are enough for one to cross another.

*Requests*: requests
meet only in the cache of views, where a view is made by one and read by another, or made
by both; two addresses and two windows are the least that can be confused. *Standalone*, in the
order of the modules: one transaction is the oldest and the other is not, one leaves and the other
stays, `Tiny` is 2, so that a quotient "printed with an exponent" occurs within a clock of 4; up to three
points of a chart over a block and two ticks, so that what is kept is about a tip that has gone;
the heights beside every edge of the real tables, every step of an owling and the last era, and
up to four collaterals in batches of two (none, less than one, one, one and a part, two);
two files and two outputs, the least with which the indexes meet; two requests for
holders, one that finds out and one that comes between, and one change of the holders, so that a count is older
than the rows; two servers that know one to three
transactions, pages of two (full, part, none); two syncs, windows of two blocks over three or
four blocks, so that a window is cut short by the tip; two lists, one after the other, around one new block
and one tick, with ages of one.

Liveness is checked on the smallest instance that has its hazard; `MaxPages`
stops executions, which is why the runs of `BlockPages` and of `RpcQueue` (whose
calls are made once each) switch off the deadlock check; so do those of
`RequestLifecycle`, whose requests arrive once each, and of `MCStandalone`, where a
block, a list or a history is asked for a bounded number of times.

### Fairness

`RpcQueue`: `setImmediate` and timers fire (weak fairness of `Process`, `Resend`);
each client object is created with a timeout (`app.js`, the connect
routes), so a send that is out is answered or fails. Nothing is assumed of the node
about sends that were abandoned. `BlockPages`: the cache answers, and RPCs settle,
which is what `RpcQueue!EveryCallSettles` says. `RequestLifecycle`: every promise a request waits for settles, is seen never to, or
is in `Patient`: plain HTTP requests. (`rpcClientNoTimeout` has a timeout, of 20 s.)
`AddressSync`: every call of the node or of the database is answered or fails, where failing
includes never to call back. `MinerSearch`: a loop goes on.
`Reachability`: the cache answers or fails, probes time
out after a second, the job is a `setInterval` of a minute. Fairness is strong for
callbacks, since a callback that is due is held up only by the microtasks of others
and the event loop takes it when they are through. It is strong for the job, too:
this is an assumption in the code's favour, as a job that runs once a minute may in
principle always meet a list that has just grown; the violated run stays violated
under it.

## 4. What is proved

For every set of requests, every kind of call, and any `Concurrency` and `Retry`
above 0 (`RpcQueueProofs`):

- `InvariantHolds`: the inductive invariant `IInv`. Slot accounting is not inductive
  by itself: a freed slot starts the first tasks of the list, and that they are as
  many *calls* as tasks needs the list to have no duplicates and no call at work
  (`QueueCoherent`); that a retry has a try left needs `BackoffHasTry`. `PendingIsHeld`
  and `NoStall` are conjuncts as they stand; with `QueueCoherent` the first is what the
  run checks as `HeldOnce`. `StartTasksKeepsInv` and
  `SettleKeepsInv` carry the argument, one lemma per action the rest;
- `TypeCorrect`, `SlotsAreExact`, `NoCallIsForgotten` (that is `HeldOnce`),
  `QueueNeverStalls` follow;
- `QueueImplementsService`: each step is a step of `RpcService` under the mapping
  line = `tasks`, serving = `Holders`, answer = `promise`, or a stutter.
  `Process` and `Settle` start several calls at once, which is one `Begin` of a prefix.

For any callers, calls, nesting and ages whose `Bound` satisfies `BoundAssumption`
(`ResponseCacheProofs`):

- `StalenessIsBounded`. Its invariant bounds an answer where it is: in the store
  (`expires + Transit <= readAt + Bound`), under way (`MaxFetch`; a reply of redis by `Transit` after it
  was sent, which is within the `Bound` by what is kept back for it in the store), in hand (`Bound` of the
  call it answers). `PathInv`, that each call of the stack is the `Inner` of the one
  around it, is what makes bounds add up when a nested call returns;
- `TypeCorrect`;
- `RefusedIsNotReused`: entries were accepted when they were set, and what is in hand
  and came from the store was a hit; `CacheFailsNoCall` assumes that there is a cache
  (`"none" \notin Modes`), which is what `cache_disabled` shows to be needed;
- `CacheImplementsFreshAnswers`, under the same assumption: each step is a step of `FreshAnswers`
  or is not seen by the callers. The mapping shows a caller its first call (`path[c][1]`), so that
  nesting stutters, whether the node is being asked, and the answer once it is `done`. `Give` is
  the step that needs every invariant: of age (`HandInv`), of the call answered (`HandInv` with
  `PathInv`: the last call of a chain of one is the one asked), of refusal (`RefusedInv`), and
  `GivenInv`, that what is kept and handed on is the node's word from a moment that has passed.

How often the node runs a call (`RpcQueueProofs`, second part): `ExecutionsAreBounded` and
`RejectionIsLast`. The bound alone is not inductive, as a send the client gave up
may be executed later. The invariant bounds the executions *plus* the sends still at
the node by the tries used: an answer moves one from the sends to the executions, and
only a retry adds one, which it pays with a try.

For any nodes and addresses, any overlapping counts and lists of nodes, and either back end
(`FigureProofs`, second part): `ReachIsTyped`, `TotalsAreComplete`, `ProbesAreAccounted`. Each speaks of
a count by what met it, and is not inductive, as it says nothing of the time before the count polls.
`CrossedInv` says that a count which walks while another request does is crossed, so that one that is not
walks alone, and that in memory none is. From it follows that, while such a count walks, `ipList` and what it
has still to enter are its own list (`WalkInv`). `PollInv` takes it on: what came back and what is under way
make up the list; and unless fewer were left, `ipList` is no shorter than the list, or is just being filled
by a count whose list is no shorter (`Fits`), when no job runs. The latter is what memory gives: with redis
the job may see the list that was just cleared, which is why `met` says `fewer` there at once.

For any number of requests, addresses and windows (`RequestLifecycleProofs`):

- `NoSecondAnswer`. `AnsweredOnce` is not inductive: nothing in it keeps a request that was
  answered from waiting on. `OnceInvariant` adds that a request which waits, waits for one
  promise and has not been answered. A step keeps that if its transition answers or goes
  on, never both (`Simple`), which `HandlersAreSimple` reads off every handler, and
  `SearchIsAllowed` off the search, whose one exception `NeverNull` rules out;
- `ViewsAreOfTheirAddress`. A view in the cache is found by its key, and nothing in the
  property says what is under the key. `ViewInvariant` does: a view is of the address and the
  window in its key (`KeyMatches`), and only the handlers of the two views wait where
  one is made or read (`PlaceInvariant`), which is read off every other handler (`HandlersElsewhere`);
- `RequestsAreTyped`.

For any chain, page size, requests and cache (`BlockProofs`). Pages are shown from arrays that
are shared, so what a request will show cannot be said of the request alone:

- `PagesAreTyped`: every reference is to an array there is (`TypeInv`);
- `PagesAreExact`, for requests that never overlapped. `FreshInv`: then the
  batch under way fills an array nobody else holds. `SuffixInv`: every array is the *end* of the
  list it was fetched for, which shifting it keeps true however often it is visited;
- `PagesMissNothing` and `PagesHaveTheirInputs`, as long as no request takes from an array another
  one holds. Two invariants, one for each way of being safe: behind redis every
  request has a copy of its own (`CopyInv`), and while no later page is opened arrays only
  grow, so that a list that is in one stays in it, in one piece (`CoverInv`);
- `CoinbasesAreFirst`, from the same two, since an array as long as the list that it
  covers is that list (`CoinbaseInv`).

For any addresses, servers and databases (`AddressProofs`):

- `SavesMissNothing`. `ReceiversAreSaved` speaks of the tracker only; `SaveInv` says of each call
  that the receivers of its window are in the database or among those it has still to save, and
  that those below its window are saved, so that the tracker may be written. No failure and
  no other call takes a record away (`WriteGrows`). That addresses are saved *once and with their balance* while
  no two syncs met is `CountInv`: a call that found no record is the only one that may insert it;
- `DetailsArePages`: every answer is a history its server had between the request and now
  (`AnswersWithin`), and what is reversed or cut from it is the page asked for (`TotalInv`, `RequestInv`);
- `RecordsGrow`: no step takes a record back to an older balance, whatever was restarted, while no two syncs
  met. The property is about steps, and not every step that `SaveInv` allows has it: a window which is scanned
  again after a restart finds records that are there. `GrowInv` says that a balance which waits to be saved is no
  older than any record of its address, since it was read at a tip that only grows, and that an address
  waits once; whoever writes behind its back sets `raced`;
- `FlagIsOwned`, the part of `SyncEnds` that is no liveness: while `syncing` is up, a call scans that
  will take it down, unless a promise hung. What is left to TLC is that this call goes on;
- `PagesAreSlices`. `PageIsSlice` alone is not inductive: what is kept must be of the holders there were
  since it was read (`PageTypeInv`), and a page whose rows come must have been asked for as a page. `Paging` says that of a node that counts, and `FlagInv` why: the flag is set before a
  total is kept, so no request can find a total and an undefined flag, unless a probe was refused
  or a restart lost the flag and not the count;
- `SyncsAreTyped`, `AddressesAreTyped`, `AssetPagesAreTyped`.

For any data, ages and bounds (`FigureProofs`):

- `MinersAreExact`. `MinerIsExact` says nothing of a search that runs. `AheadInv` adds that such a
  search has not come past the file that is the first to name the miner, unless the index was moved
  before it (`Behind`): then the search may pass that file over, and nothing is claimed of it;
- `ChartsAreNear`. What is kept is about the tip of when it was asked for, which lies between
  that of the tick it was kept at and the present one (`InfoInv`, `StatsInv`); `WindowsInv` keeps that for the
  answers of a request while the chain grows, and `WindowBounds` bounds the window of each point;
- `FeesAreWhatIsClaimed`. What a coinbase pays is the sum of its outputs (`CoinbaseSum`), and
  the reward of the explorer differs from that of the chain by the fraction of an owling
  (`RowRewards`) or, for a coin that halves, not at all (`HalvingRewards`, by induction over the eras);
- `LockedCoinsAddUp`. `Batched`: what is summed up is what is neither out nor left, no coin is in
  two of the three. `BatchSum` takes one batch to the next;
- `BreakdownsAreComplete` and `SummaryFeesAddUp`. A histogram counts every entry once if its index
  is within the histogram (`SumsCount`): `AgesWithin`, `SizeIndexes` and `RowIsWithin` show that of each
  of the three, `EntriesTyped` that what is summed up is a number. The invariant (`MempoolInv`) says what may have
  been gathered from a mempool that moves meanwhile;
- `SearchIsTyped`, `ChartsAreTyped`, `FiguresAreTyped`, `SummaryIsTyped`.

For any chain, lists, filters and ages, and for the composition `MCStandalone` (`StandaloneProofs`):

- `ListsStayCurrent` and `ListsAreTyped`, about the lists of blocks and transactions.
  `CountsInv`, `KeptPoolInv` and `KeptBlocksInv` say what holds of
  each cache: a kept height was the tip at some time since it was kept, a transaction
  which is heard of and not in the kept mempool was mined, and a height that is kept as missing was
  asked for too early, no earlier than it is kept. `MissesInv` says that a miss under way is of a row that
  waits for it, or of none. `ListingInv` carries this to a list that is
  under way while blocks arrive, and `FilterPages` is the arithmetic of a page;
- `PartsBehaveAsAlone`: a behaviour of the composition is one of the specification of each component,
  since a step of one is a step in which the others rest. `StandaloneIsTyped` and `StandaloneIsCorrect` follow from it
  and the theorems about the components: the run `standalone` and those theorems are about the same thing.

Sums, and `FlattenSeq`, are recursive functions of the community modules. `DataInduction` has what is
needed of them. Its induction is over a *set*, that of the numbers, or of the parts of a finite set, of which a
formula holds (`NumberInduction`, `FiniteInduction`): unlike an operator, a set can be instantiated.

What is assumed of the constants is stated beside them, and TLC evaluates it for every run. Most of it
is types. The rest is: a block has its coinbase once (`BlockPages`); the maxima of fee buckets
rise (`MempoolStats`); the rows of the reward table do not overlap and begin above height 719 (`CoinFigures`); what
is kept is kept for at least a tick (`ChainStats`, `BlockLists`); details have a limit (`AddressPages`).

Four definitions were wrong where no run had looked, and proofs that did not go through showed it. The
arms of two `CASE` expressions overlapped (`TableReward`, `Parsed`), so that their value was not
determined, where the code takes the first. A filter without a length has a page of a hundred blocks
(`PageLength`), which the property and the chains of the runs, much shorter, did not tell from all. And
a transaction that is not mined has the height 0, which an old list may show (`TxidsListed`).

Only model-checked is liveness: `EveryCallSettles`, `EveryPageIsRendered`, `CountsAnswerUnlessOutgrown`,
`AnsweredUnlessForgotten`, `SyncEnds`. It is beyond the prover, as is `ENABLED`.

## 5. Where the code disagrees with what is said of it

- `cache_disabled`: `cache.js:89` calls `noopGet(key)`, which is no function in
  scope. With `BTCEXP_NO_INMEMORY_RPC_CACHE=true`, which `.env-sample:53` says is
  to reduce memory usage, every cached call is rejected before it fetches.
- `pages_revisit`: `coreApi.js:863` shifts the coinbase out of the array the
  in-memory cache keeps. The second visit of a later page shifts a transaction of
  the page instead; after enough visits nothing is left and the page is never sent.
- `pages_overlap`: `rpcApi.js:584` assigns a variable it does not declare. Overlapping
  requests push into one array, and a page shows the transactions of both. The
  comparison of lengths in `coreApi.js:856` keeps the miner right even then
  (`CoinbaseIsFirst`, which `pages` shows to hold).
- `reachable_viewed`: `utils.js:691` compares a count with the length `ipList` has
  when the job runs. `getNodeList` adds nodes the count never probed, and the job
  polls forever.

- `requests_unknown`: the middleware that logs the time of a request (`app.js:453`) stands
  before the one that says "catch 404 and forwarding to error handler" (`app.js:460`) and
  does not call `next()`. A path that no router has is never answered.
- `miner_search`: the loop over the outputs (`utils.js:259`) declares the `i` of the loop over the
  files again. With two files of pools and a coinbase of one output that names none of them the
  search goes back to the second file for ever, and with it the process. More
  outputs make it pass over files instead, which `MinerIsExact` excepts.

Observed on the way, with nothing in the repository that says otherwise, and so not run. The
properties are stated around them:

- a reward at the height where a row of the table ends is the default of 5000, and `owlings`, a
  fraction, makes fees up to one step too high (`rtm.js:97`, `:101`; `FeesAreClaimed`);
- a count of masternodes whose list is refused is answered 0/0, and clears the list under other counts,
  which then answer with what has come back by then; lists that shrank between two counts do the same to
  the first, and lists that grew keep it waiting for ever (`rpcApi.js:690`, `utils.js:691`; `met`);
  nodes that share an address are counted once, with the port entered last (`utils.js:657`);
- the node's refusal of a balance gives details without a balance and without an error (`DetailsAreComplete`);
- the kept number of holders may be five minutes older than the rows beside it (`coreApi.js:111`; `Had`);
- the last page of `blockchain.com`, oldest first, is right only when it is full
  (`blockchainAddressApi.js:36`; `Steady`);
- ElectrumX servers that disagree are never noticed (`electrumAddressApi.js:183`);
- locked coins of a coin with a fixed collateral are no number (`rpcApi.js:525`);
- a height asked for too early is kept as an error for an hour: searching for the next
  block, or the last page of `/blocks?sort=asc`, hides that block from every list once it is mined
  (`coreApi.js:624`; `early`);
- a transaction that left the mempool makes its totals and averages `NaN` (`FeesAddUp`);
- two syncs that meet insert addresses twice (`ReceiversAreSaved`).

The gaps `AnsweredUnlessForgotten` leaves open are no contradiction of anything the
repository says, and are listed rather than run: an unhandled rejection on `/peers`,
`/blocks`, `/block-height`, `/tx-stats`, `/mempool-summary`, `/ext/summary`, the search for
a height or an address; an address page or view of an invalid address or for a crawler; a
`GET /search` with a body; a block the node does not know, by hash or beyond the tip,
whose page waits for a promise that never settles; counts and supplies of the REST API.

## 6. Plan

Done in this order, the most shared state first: `RpcQueue` with its abstract
service, `ResponseCache`, `BlockPages`, `Reachability`, `RequestLifecycle`, `MempoolStats`; then
`MinerSearch`, `CoinFigures`, `ChainStats`, `AssetPages`, `AddressPages`, `AddressSync`, `BlockLists`.
Then the theorems, in the same order, and `FreshAnswers`, which `ResponseCache` was shown to implement.
Every invariant and every action property a run checks is proved. What could follow:

1. An abstract specification of the sync, in which a window is saved in one step, and that
   `AddressSync` implements it while no two syncs meet.
2. What a resolved page of `BlockPages` shows is sent once and does not change; the arrays it was made from do.

## 7. What is not modelled, and why

Rendering, formatting, wording and logging are presentation. Prices are single
requests without state. Configuration is read
once at start; the constants of the modules stand for it. Blocks are not reorganised in
`BlockLists`, `ChainStats` and `AddressSync`; the initial sync (`sync.js` 12-75) is
`syncAddressBalance` without the tracker. The balances of several addresses
(`restfulRouter.js` 486) and the connections of the ElectrumX clients are left out, as are the
argument checks of the masternode and quorum calls, which only turn one message into another.
The mock node is not wired in. `reachableCache` only
saves probes: a probe ends either way. The ten-minute job that fills it counts
nothing and is left out with it. In `BlockLists` a height and a mempool are kept in the tick they are read; the
calls that a rejected list leaves behind are `Visit`s.
