--------------------------- MODULE RequestLifecycle ---------------------------
(***************************************************************************)
(* From a request to its response: the middleware of app.js, the handlers  *)
(* of routes/baseActionsRouter.js, routes/session.js and                   *)
(* routes/restfulRouter.js, and htmlViewCache.                             *)
(*                                                                         *)
(* A handler is the set of its transitions.  A request waits for a promise *)
(* or more; when one settles its continuation answers, waits for the next, *)
(* or does neither, and then no other code speaks for the request.         *)
(*                                                                         *)
(*   "ok"     the promise is resolved with what was asked for              *)
(*   "fails"  it is rejected, or its continuation throws: one catch covers *)
(*            both, and without a catch that is all that happens           *)
(*   "error"  it is resolved with the RpcError that stands for a result in *)
(*            an answer to a batch                                         *)
(*   "never"  it can no longer settle                                      *)
(*   others   a branch of the continuation, named for what it tests        *)
(*                                                                         *)
(* Promise.all is one wait: it settles once, whatever its calls do later.  *)
(* A template that cannot be rendered is answered by express all the same. *)
(* htmlViewCache is the in-memory one, read in the same turn of the loop.  *)
(***************************************************************************)
EXTENDS Integers, FiniteSets, Sequences

CONSTANTS Requests,  \* requests, each for any route
          Addresses, \* the addresses one may ask for
          Windows    \* ranges of blocks of an address view, sizes of a block table

VARIABLES route,  \* what each request asks for
          arg,    \* for which address and window
          waits,  \* the promises whose continuations speak for it
          sent,   \* how often it was answered
          lost,   \* the waits that ended with neither an answer nor a wait
          shown,  \* the argument the view it got was made for
          views,  \* htmlViewCache
          assetSupported \* a property of the coin

vars == <<route, arg, waits, sent, lost, shown, views, assetSupported>>

-----------------------------------------------------------------------------
(* Transitions *)

Goes(at, on, next) == [at |-> at, on |-> on, answers |-> FALSE, next |-> {next}]
Replies(at, on) == [at |-> at, on |-> on, answers |-> TRUE, next |-> {}]
Forgets(at, on) == [at |-> at, on |-> on, answers |-> FALSE, next |-> {}]

\* then(f) where each call is made in the continuation of the one before, and
\* the last one renders the page.
Chain(calls) ==
  {Goes(calls[i], "ok", calls[i + 1]) : i \in 1..(Len(calls) - 1)}
    \cup {Replies(calls[Len(calls)], "ok")}

\* Bug: a catch that only logs.
CaughtLogs(calls) == {Forgets(c, "fails") : c \in calls}

\* A catch that answers with a message.
Caught(calls) == {Replies(c, "fails") : c \in calls}

\* then(f) without a catch: an unhandled rejection.
Uncaught(calls) == {Forgets(c, "fails") : c \in calls}

-----------------------------------------------------------------------------
(* Pages of baseActionsRouter.js *)

NodeStatus ==
  Chain(<<"/node-status", "status.getBlockchainInfo", "status.getNetworkInfo",
          "status.getUptimeSeconds", "status.getNetTotals">>)
    \cup Caught({"status.getBlockchainInfo", "status.getNetworkInfo",
                 "status.getUptimeSeconds", "status.getNetTotals"})

MempoolSummary ==
  Chain(<<"/mempool-summary", "mempool.getMempoolInfo", "mempool.getMempoolStats">>)
    \cup Caught({"mempool.getMempoolInfo"})
    \cup Uncaught({"mempool.getMempoolStats"})

Peers ==
  Chain(<<"/peers", "peers.getPeerSummary", "peers.geoLocate">>)
    \cup {Replies("peers.getPeerSummary", "no addresses")}
    \cup Caught({"peers.getPeerSummary"})
    \cup Uncaught({"peers.geoLocate"})

Blocks ==
  Chain(<<"/blocks", "blocks.getBlockchainInfo", "blocks.getBlocksByHeight">>)
    \cup Caught({"blocks.getBlockchainInfo"})
    \cup Uncaught({"blocks.getBlocksByHeight"})

SearchPage == {Replies("/search", "ok"), Forgets("/search", "query in the body")}

\* An RpcError is as good as a block: the page is redirected to it.
Truthy(call) == {Replies(call, on) : on \in {"ok", "error"}}

\* A transaction, or else a block.  After "null" the page is redirected while
\* getAddress is still under way, and may be again.
SearchHash ==
  {Replies("search.getRawTransaction", "ok"),
   Goes("search.getRawTransaction", "null", "search.getBlockByHash"),
   Goes("search.getRawTransaction", "fails", "search.orBlock"),
   [at |-> "search.getBlockByHash", on |-> "null", answers |-> TRUE, next |-> {"search.late"}],
   Replies("search.late", "ok"), Forgets("search.late", "not valid"),
   Replies("search.orBlock", "null")}
    \cup Truthy("search.getBlockByHash") \cup Truthy("search.orBlock")
    \cup Caught({"search.getBlockByHash", "search.orBlock"})
    \cup Uncaught({"search.late"})

\* A hash, a height or an address, by the look of it.
SearchText ==
  {Replies("POST /search", "no query"), Replies("POST /search", "fails"),
   Goes("POST /search", "hash", "search.getRawTransaction"),
   Goes("POST /search", "number", "search.getBlockByHeight"),
   Goes("POST /search", "text", "search.getAddress")}
    \cup Truthy("search.getBlockByHeight") \cup Truthy("search.getAddress")
    \cup Uncaught({"search.getBlockByHeight", "search.getAddress"})

\* Bug: rpcApi.js passes a null on.
NeverNullUnchecked == {}

\* getRawTransaction of rpcApi.js rejects a null, and getBlockByHash has read a
\* field of it by then: the branches for a null are never taken.
NeverNull == {<<c, "null">> : c \in {"search.getRawTransaction", "search.getBlockByHash", "search.orBlock"}}

\* getBlockByHashWithTransactions settles only if each of its calls is resolved
\* and it has a transaction to show: not for a hash the node does not know.
PageOfBlock(page) == {Replies(page, "ok"), Forgets(page, "never")}

BlockHeight ==
  {Goes("/block-height", "ok", "height.getBlockByHeight"),
   Goes("height.getBlockByHeight", "ok", "height.getBlock"),
   Goes("height.getBlockByHeight", "error", "height.noSuchBlock"),
   Forgets("height.noSuchBlock", "never")}
    \cup PageOfBlock("height.getBlock")
    \cup Uncaught({"height.getBlockByHeight"})

Block == {Goes("/block", "ok", "block.getBlock")} \cup PageOfBlock("block.getBlock")

Tx ==
  Chain(<<"/tx", "tx.getRawTransaction", "tx.all">>)
    \cup Caught({"tx.getRawTransaction", "tx.all"})

RpcTerminal ==
  {Replies("/rpc-terminal", on) : on \in {"ok", "not authenticated"}}
    \cup {Replies("POST /rpc-terminal", on) : on \in {"not authenticated", "blacklisted", "fails"}}
    \cup Chain(<<"POST /rpc-terminal", "terminal.command">>)
    \cup Caught({"terminal.command"})

\* The help of the method comes first, and the command runs if forceCsrf lets it.
RpcBrowser ==
  Chain(<<"/rpc-browser", "browser.getHelp">>)
    \cup {Replies("/rpc-browser", "not authenticated"),
          Goes("browser.getHelp", "method", "browser.getRpcMethodHelp"),
          Goes("browser.getRpcMethodHelp", "execute", "browser.command")}
    \cup {Replies("browser.getRpcMethodHelp", on) : on \in {"ok", "blacklisted", "no token"}}
    \cup {Replies("browser.command", "ok")}
    \cup Caught({"browser.getHelp", "browser.getRpcMethodHelp", "browser.command"})

UnconfirmedTx ==
  Chain(<<"/unconfirmed-tx", "unconfirmed.getMempoolDetails">>)
    \cup Caught({"unconfirmed.getMempoolDetails"})

TxStats ==
  Chain(<<"/tx-stats", "stats.total", "stats.day", "stats.week", "stats.month">>)
    \cup Uncaught({"stats.total", "stats.day", "stats.week", "stats.month"})

StaticPages == {Replies(p, "ok") : p \in {"/changeSetting", "/about", "/changelog", "/fun", "/api"}}

-----------------------------------------------------------------------------
(* Pages of session.js *)

Home ==
  Chain(<<"/", "home.getBlockchainInfo", "home.all">>)
    \cup {Replies("/", "not connected")}
    \cup Caught({"home.getBlockchainInfo", "home.all"})

NetworkSummary ==
  Chain(<<"/ext/summary", "summary.getBlockchainInfo", "summary.all">>)
    \cup Caught({"summary.getBlockchainInfo"})
    \cup Uncaught({"summary.all"})

\* An address that is not valid has no scriptPubKey to hash, which throws; for a
\* crawler nothing settles the promise.
ChecksAddress(call) ==
  {Forgets(call, on) : on \in {"fails", "not valid", "crawler"}}

AddressPage ==
  Chain(<<"/address", "address.getAddress", "address.getAddressBalance", "address.getBlockCount">>)
    \cup ChecksAddress("address.getAddress")
    \cup Caught({"address.getAddressBalance", "address.getBlockCount"})

\* A view ends with "ok" when its data is there: it is then compiled, kept and sent.
\* When the data fails compileView sends the query itself.
AddressView ==
  {Replies("/addressview", "kept"), Goes("/addressview", "absent", "view.getAddress"),
   Goes("view.getAddress", "ok", "view.getAddressDeltas"),
   Goes("view.getAddressDeltas", "ok", "view.getTransactions"),
   Forgets("view.getTransactions", "never"),
   Goes("view.getTransactions", "coinbase", "view.getBlocksByHash"),
   Replies("view.getAddressDeltas", "no transactions")}
    \cup {Replies(c, "ok") : c \in {"view.getTransactions", "view.getBlocksByHash"}}
    \cup ChecksAddress("view.getAddress")
    \cup Caught({"view.getAddressDeltas", "view.getTransactions", "view.getBlocksByHash"})

BlockTable ==
  Chain(<<"table.getBlockCount", "table.getBlocksByHeight">>)
    \cup {Replies("/blocktableview", "kept"), Goes("/blocktableview", "absent", "table.getBlockCount"),
          Replies("table.getBlockCount", "no height")}
    \cup Caught({"table.getBlockCount", "table.getBlocksByHeight"})

\* The ends of the two views at which there is data to compile.
Compiled ==
  {<<"view.getAddressDeltas", "no transactions">>, <<"view.getTransactions", "ok">>,
   <<"view.getBlocksByHash", "ok">>, <<"table.getBlockCount", "no height">>,
   <<"table.getBlocksByHeight", "ok">>}

-----------------------------------------------------------------------------
(* restfulRouter.js: the result or the error is sent, whichever comes *)

ApiCall(calls) == Chain(calls) \cup Caught({calls[i] : i \in 2..Len(calls)})

ApiRoutes ==
  {"/api/core", "/api/counts", "/api/supply", "/api/getnetworkhashes", "/api/getassetaddresses",
   "/api/queryrichlist", "/api/queryassets", "/api/getblocks", "/api/getlatesttxids",
   "/api/getaddress", "/api/getNodeList", "/api/getmasternodecount"}

\* A count may poll for ever, and getSupply ignores an empty answer.
CoreCalls ==
  ApiCall(<<"/api/core", "api.core">>) \cup ApiCall(<<"/api/counts", "api.count">>)
    \cup ApiCall(<<"/api/supply", "api.getSupply">>)
    \cup {Forgets(c, "never") : c \in {"api.count", "api.getSupply"}}

HashCalls ==
  ApiCall(<<"/api/getnetworkhashes", "hashes.getBlockCount", "hashes.all">>)
    \cup {Replies("/api/getnetworkhashes", "nothing asked"),
          Goes("/api/getnetworkhashes", "from", "hashes.all")}

\* countRPC has no catch; a query without search[value] throws before there is a promise.
AssetCalls ==
  ApiCall(<<"/api/getassetaddresses", "asset.getTotalAssetAddresses", "asset.getAssetAddresses">>)
    \cup ApiCall(<<"/api/queryrichlist", "richlist.request">>)
    \cup ApiCall(<<"/api/queryassets", "assets.totals", "assets.queryAssets">>)
    \cup {Replies("/api/getassetaddresses", "nothing asked"), Replies("asset.getTotalAssetAddresses", "none"),
          Forgets("asset.getTotalAssetAddresses", "never"), Replies("/api/queryassets", "fails")}

BlockCalls ==
  ApiCall(<<"/api/getblocks", "list.getBlockCount", "list.getBlocksByHeight">>)
    \cup ApiCall(<<"/api/getlatesttxids", "latest.getBlockCount", "latest.all">>)
    \cup {Replies("/api/getblocks", "fails"), Replies("list.getBlockCount", "out of range"),
          Replies("latest.getBlockCount", "no height")}

AddressCalls ==
  ApiCall(<<"/api/getaddress", "of.getAddress", "of.each">>)
    \cup {Replies("/api/getaddress", "nothing asked"), Replies("of.getAddress", "none valid")}

NodeCalls ==
  ApiCall(<<"/api/getNodeList", "nodes.masternode">>)
    \cup ApiCall(<<"/api/getmasternodecount", "nodes.count">>)

-----------------------------------------------------------------------------
(* app.js *)

Handlers ==
  UNION {NodeStatus, MempoolSummary, Peers, Blocks, SearchPage, SearchHash, SearchText,
         BlockHeight, Block, Tx, RpcTerminal, RpcBrowser, UnconfirmedTx, TxStats, StaticPages,
         Home, NetworkSummary, AddressPage, AddressView, BlockTable,
         CoreCalls, HashCalls, AssetCalls, BlockCalls, AddressCalls, NodeCalls}

Routes == {"/node-status", "/mempool-summary", "/peers", "/blocks", "/search", "POST /search",
           "/block-height", "/block", "/tx", "/rpc-terminal", "POST /rpc-terminal", "/rpc-browser",
           "/unconfirmed-tx", "/tx-stats", "/changeSetting", "/about", "/changelog", "/fun", "/",
           "/ext/summary", "/address", "/addressview", "/blocktableview", "/api", "no such path"}
            \cup ApiRoutes

Views == {"/addressview", "/blocktableview"}

\* What comes before the handlers answers in their place.
Middleware ==
  {Replies(r, "not connected") : r \in Routes \ {"/"}}
    \cup {Replies(r, "no token") : r \in {"POST /search", "POST /rpc-terminal"}}
    \cup {Replies(r, "limited") : r \in ApiRoutes \cup {"/api"}}

\* A request no router matched comes to the middleware that logs its time, which
\* does not call next().
AfterRouters == {Forgets("no such path", "ok")}

Transitions == Middleware \cup Handlers \cup AfterRouters

Waits == {t.at : t \in Transitions} \cup UNION {t.next : t \in Transitions}

-----------------------------------------------------------------------------
(* htmlViewCache *)

Args == [address : Addresses, window : Windows]
NoArg == [address |-> "none", window |-> "none"]

\* Bug: the range of blocks is in no key.
KeyOfNoWindow(r) ==
  IF route[r] = "/blocktableview" THEN <<"block-table-view">> ELSE <<"address", arg[r].address>>

\* The key of a table leaves out its size; that of an address view of a coin with
\* assets the range of blocks.  Asset, order and page are in every key.
KeyOf(r) ==
  CASE route[r] = "/blocktableview" -> <<"block-table-view">>
    [] route[r] = "/addressview" /\ assetSupported -> <<"address", arg[r].address>>
    [] OTHER -> <<"address", arg[r].address, arg[r].window>>

Kept(r) == {v \in views : v.key = KeyOf(r)}

-----------------------------------------------------------------------------
Init ==
  /\ route = [r \in Requests |-> "none"]
  /\ arg = [r \in Requests |-> NoArg]
  /\ waits = [r \in Requests |-> {}]
  /\ sent = [r \in Requests |-> 0]
  /\ lost = [r \in Requests |-> {}]
  /\ shown = [r \in Requests |-> NoArg]
  /\ views = {}
  /\ assetSupported \in BOOLEAN

Arrive(r, path, a) ==
  /\ route[r] = "none"
  /\ a \in (IF path \in Views THEN Args ELSE {NoArg})
  /\ route' = [route EXCEPT ![r] = path]
  /\ arg' = [arg EXCEPT ![r] = a]
  /\ waits' = [waits EXCEPT ![r] = {path}]
  /\ UNCHANGED <<sent, lost, shown, views, assetSupported>>

\* Bug: what is kept is of the query before its data was there.
ShowsEarly(r, t) ==
  /\ views' = IF <<t.at, t.on>> \in Compiled
              THEN (views \ Kept(r)) \cup {[key |-> KeyOf(r), of |-> shown[r]]} ELSE views
  /\ UNCHANGED shown

\* compileView keeps what it made, in place of what another made meanwhile.
Shows(r, t) ==
  IF <<t.at, t.on>> \in Compiled
  THEN /\ views' = (views \ Kept(r)) \cup {[key |-> KeyOf(r), of |-> arg[r]]}
       /\ shown' = [shown EXCEPT ![r] = arg[r]]
  ELSE /\ shown' = IF t.on = "kept" THEN [shown EXCEPT ![r] = (CHOOSE v \in Kept(r) : TRUE).of]
                                    ELSE shown
       /\ UNCHANGED views

\* A promise settles and its continuation runs to its end.
Settles(r, t) ==
  /\ t.at \in waits[r]
  /\ <<t.at, t.on>> \notin NeverNull
  /\ t.on = "kept" => Kept(r) # {}
  /\ t.on = "absent" => Kept(r) = {}
  /\ waits' = [waits EXCEPT ![r] = (@ \ {t.at}) \cup t.next]
  /\ sent' = [sent EXCEPT ![r] = @ + (IF t.answers THEN 1 ELSE 0)]
  /\ lost' = [lost EXCEPT ![r] = @ \cup (IF t.answers \/ t.next # {} THEN {} ELSE {t.at})]
  /\ Shows(r, t)
  /\ UNCHANGED <<route, arg, assetSupported>>

Evict(v) ==
  /\ v \in views
  /\ views' = views \ {v}
  /\ UNCHANGED <<route, arg, waits, sent, lost, shown, assetSupported>>

Next ==
  \/ \E r \in Requests, path \in Routes, a \in Args \cup {NoArg} : Arrive(r, path, a)
  \/ \E r \in Requests, t \in Transitions : Settles(r, t)
  \/ \E v \in views : Evict(v)

Spec == Init /\ [][Next]_vars

\* Calls without a timeout: plain HTTP requests.
Patient == {"api.getSupply", "peers.geoLocate", "richlist.request"}

\* Every other promise settles, or can be seen never to: the queue answers every
\* call, and each client, rpcClientNoTimeout too, gives up on the node after its timeout.
FairSpec ==
  Spec /\ \A r \in Requests : WF_vars(\E t \in Transitions : t.at \notin Patient /\ Settles(r, t))

-----------------------------------------------------------------------------
(* Properties *)

TypeOK ==
  /\ route \in [Requests -> Routes \cup {"none"}]
  /\ arg \in [Requests -> Args \cup {NoArg}]
  /\ waits \in [Requests -> SUBSET Waits]
  /\ sent \in [Requests -> 0..2]
  /\ lost \in [Requests -> SUBSET Waits]
  /\ shown \in [Requests -> Args \cup {NoArg}]
  /\ \A v \in views : v.of \in Args
  /\ assetSupported \in BOOLEAN

\* No request is answered a second time, which express refuses with an exception: not
\* by a handler that goes on after its redirect, nor by a view that has answered for
\* itself (baseActionsRouter.js, search; session.js, compileView).
AnsweredOnce == \A r \in Requests : sent[r] <= 1

\* An address view out of the cache is of the address asked for, whoever made it; for
\* a coin without assets it is also of the blocks asked for (session.js, renderTransactions).
ViewsAnswerTheirRequest ==
  \A r \in Requests :
    route[r] = "/addressview" /\ shown[r] # NoArg =>
      /\ shown[r].address = arg[r].address
      /\ ~assetSupported => shown[r] = arg[r]

\* The places where a request is forgotten: a promise without a catch, one that may
\* never settle, a GET with a body, a path no router has.
Gaps ==
  {"mempool.getMempoolStats", "peers.geoLocate", "blocks.getBlocksByHeight", "/search",
   "search.getBlockByHeight", "search.getAddress", "height.getBlockByHeight", "height.noSuchBlock",
   "height.getBlock", "block.getBlock", "stats.total", "stats.day", "stats.week", "stats.month",
   "summary.all", "address.getAddress", "view.getAddress", "view.getTransactions",
   "api.count", "api.getSupply", "asset.getTotalAssetAddresses", "no such path"}

\* Every request is answered, whatever fails and whatever other requests do to the
\* cache of views, unless it ended in one of the gaps or waits without a timeout.
AnsweredUnlessForgotten ==
  \A r \in Requests :
    route[r] # "none" ~> sent[r] > 0 \/ lost[r] \cap Gaps # {} \/ waits[r] \cap Patient # {}

\* A path that no router has is answered, with the 404 of the handler that says
\* "catch 404 and forwarding to error handler" (app.js).
UnknownPathIsAnswered ==
  \A r \in Requests : route[r] = "no such path" ~> sent[r] > 0

===============================================================================
