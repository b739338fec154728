------------------------ MODULE RequestLifecycleProofs ------------------------
(***************************************************************************)
(* No request is answered twice.  A transition that can be taken answers   *)
(* or waits for one more promise, never both, so a request that waits has  *)
(* not been answered.  That is read off the handlers, one by one.          *)
(*                                                                         *)
(* A view is of the address asked for.  Only the handlers of views wait    *)
(* where one is made or read, which is read off the handlers as well.      *)
(***************************************************************************)
EXTENDS RequestLifecycle, TLAPS

\* A transition that does not answer and go on, and goes on at one place.
Simple(t) ==
  /\ t.answers => t.next = {}
  /\ \E x : t.next \subseteq {x}

\* Each transition that is not the dead branch of search is simple.
Allowed(t) == <<t.at, t.on>> \notin NeverNull => Simple(t)

\* Going on, answering and forgetting exclude each other.
LEMMA PartsAreSimple ==
  ASSUME NEW at, NEW on, NEW next
  PROVE  /\ Simple(Goes(at, on, next))
         /\ Simple(Replies(at, on))
         /\ Simple(Forgets(at, on))
  BY DEF Simple, Goes, Replies, Forgets

\* What the code writes as a chain of then is simple.
LEMMA ChainIsSimple ==
  ASSUME NEW calls
  PROVE  \A t \in Chain(calls) : Simple(t)
  BY PartsAreSimple DEF Chain

\* So is a catch, and the lack of one.
LEMMA CatchIsSimple ==
  ASSUME NEW calls
  PROVE  /\ \A t \in Caught(calls) : Simple(t)
         /\ \A t \in Uncaught(calls) : Simple(t)
  BY PartsAreSimple DEF Caught, Uncaught

\* The other shapes several handlers share.
LEMMA SharedAreSimple ==
  ASSUME NEW call
  PROVE  /\ \A t \in PageOfBlock(call) : Simple(t)
         /\ \A t \in ChecksAddress(call) : Simple(t)
         /\ \A t \in Truthy(call) : Simple(t)
  BY PartsAreSimple DEF PageOfBlock, ChecksAddress, Truthy

\* A call of the REST API is a chain with a catch.
LEMMA ApiCallIsSimple ==
  ASSUME NEW calls
  PROVE  \A t \in ApiCall(calls) : Simple(t)
  BY ChainIsSimple, CatchIsSimple DEF ApiCall

\* Every handler but the search for a hash.
LEMMA HandlersAreSimple ==
  \A t \in Handlers \ SearchHash : Simple(t)
<1>1. \A t \in NodeStatus \cup MempoolSummary \cup Blocks \cup Tx \cup UnconfirmedTx \cup TxStats :
        Simple(t)
  BY ChainIsSimple, CatchIsSimple
     DEF NodeStatus, MempoolSummary, Blocks, Tx, UnconfirmedTx, TxStats
<1>2. \A t \in Peers \cup SearchPage \cup StaticPages \cup Home \cup NetworkSummary : Simple(t)
  BY ChainIsSimple, CatchIsSimple, PartsAreSimple
     DEF Peers, SearchPage, StaticPages, Home, NetworkSummary
<1>3. \A t \in BlockHeight \cup Block : Simple(t)
  BY SharedAreSimple, CatchIsSimple, PartsAreSimple DEF BlockHeight, Block
<1>4. ASSUME NEW t \in RpcTerminal \cup RpcBrowser PROVE Simple(t)
  <2>1. CASE t \in RpcTerminal
    BY <2>1, ChainIsSimple, CatchIsSimple, PartsAreSimple, Zenon DEF RpcTerminal
  <2>2. CASE t \in RpcBrowser
    BY <2>2, ChainIsSimple, CatchIsSimple, PartsAreSimple, Zenon DEF RpcBrowser
  <2> QED
    BY <2>1, <2>2
<1>5. ASSUME NEW t \in AddressPage \cup AddressView \cup BlockTable PROVE Simple(t)
  <2>1. CASE t \in AddressPage
    BY <2>1, ChainIsSimple, CatchIsSimple, SharedAreSimple, Zenon DEF AddressPage
  <2>2. CASE t \in AddressView
    BY <2>2, CatchIsSimple, SharedAreSimple, PartsAreSimple, Zenon DEF AddressView
  <2>3. CASE t \in BlockTable
    BY <2>3, ChainIsSimple, CatchIsSimple, PartsAreSimple, Zenon DEF BlockTable
  <2> QED
    BY <2>1, <2>2, <2>3
<1>6. ASSUME NEW t \in CoreCalls \cup HashCalls \cup NodeCalls PROVE Simple(t)
  BY <1>6, ApiCallIsSimple, PartsAreSimple, ZenonT(30) DEF CoreCalls, HashCalls, NodeCalls
<1>7. ASSUME NEW t \in AssetCalls \cup BlockCalls \cup AddressCalls PROVE Simple(t)
  BY <1>7, ApiCallIsSimple, PartsAreSimple, ZenonT(30) DEF AssetCalls, BlockCalls, AddressCalls
<1>8. ASSUME NEW t \in SearchText PROVE Simple(t)
  BY <1>8, CatchIsSimple, PartsAreSimple, SharedAreSimple, Zenon DEF SearchText
<1> QED
  BY <1>1, <1>2, <1>3, <1>4, <1>5, <1>6, <1>7, <1>8 DEF Handlers

\* That search answers and goes on only at a null that rpcApi.js does not let through.
LEMMA SearchIsAllowed == \A t \in SearchHash : Allowed(t)
<1> DEFINE Dead == [at |-> "search.getBlockByHash", on |-> "null", answers |-> TRUE, next |-> {"search.late"}]
<1>1. ~(<<Dead.at, Dead.on>> \notin NeverNull)
  BY DEF NeverNull
<1>2. ASSUME NEW t \in SearchHash PROVE t = Dead \/ Simple(t)
  BY <1>2, CatchIsSimple, PartsAreSimple, SharedAreSimple, ZenonT(30) DEF SearchHash
<1> QED
  BY <1>1, <1>2 DEF Allowed

\* The handlers with the middleware before and after them.
LEMMA TransitionsAreAllowed == \A t \in Transitions : Allowed(t)
<1>1. \A t \in Middleware \cup AfterRouters : Simple(t)
  BY PartsAreSimple DEF Middleware, AfterRouters
<1> QED
  BY <1>1, HandlersAreSimple, SearchIsAllowed DEF Transitions, Allowed

-----------------------------------------------------------------------------
\* Inductive: a request that waits, waits for one promise and has no answer yet.
OnceInvariant ==
  /\ DOMAIN route = Requests /\ DOMAIN waits = Requests
  /\ sent \in [Requests -> {0, 1}]
  /\ \A r \in Requests :
       /\ \E x : waits[r] \subseteq {x}
       /\ waits[r] # {} => sent[r] = 0
       /\ route[r] = "none" => waits[r] = {} /\ sent[r] = 0

\* At first no request has arrived.
LEMMA InitOnce == Init => OnceInvariant
  BY DEF Init, OnceInvariant

\* The promise that settles is the only one the request waits for.
LEMMA SettlesOnce ==
  ASSUME OnceInvariant, NEW r \in Requests, NEW t \in Transitions, Settles(r, t)
  PROVE  OnceInvariant'
<1>1. Simple(t)
  BY TransitionsAreAllowed DEF Allowed, Settles
<1>2. waits[r] \ {t.at} = {} /\ sent[r] = 0 /\ route[r] # "none"
  BY DEF OnceInvariant, Settles
<1>3. /\ waits' = [waits EXCEPT ![r] = t.next]
      /\ sent' = [sent EXCEPT ![r] = IF t.answers THEN 1 ELSE 0]
      /\ route' = route
  <2>1. (waits[r] \ {t.at}) \cup t.next = t.next
    BY <1>2
  <2>2. sent[r] + (IF t.answers THEN 1 ELSE 0) = (IF t.answers THEN 1 ELSE 0)
    BY <1>2
  <2> QED
    BY <2>1, <2>2 DEF Settles
<1>4. sent' \in [Requests -> {0, 1}] /\ DOMAIN waits' = Requests /\ DOMAIN route' = Requests
  BY <1>3 DEF OnceInvariant
<1>5. ASSUME NEW q \in Requests
      PROVE  /\ \E x : waits'[q] \subseteq {x}
             /\ waits'[q] # {} => sent'[q] = 0
             /\ route'[q] = "none" => waits'[q] = {} /\ sent'[q] = 0
  <2>1. CASE q = r
    <3>1. waits'[q] = t.next /\ sent'[q] = (IF t.answers THEN 1 ELSE 0)
      BY <1>3, <2>1 DEF OnceInvariant
    <3> QED
      BY <1>1, <1>2, <1>3, <2>1, <3>1 DEF Simple
  <2>2. CASE q # r
    BY <1>3, <2>2 DEF OnceInvariant
  <2> QED
    BY <2>1, <2>2
<1> QED
  BY <1>4, <1>5 DEF OnceInvariant

\* Each step keeps the invariant.
LEMMA NextOnce == OnceInvariant /\ [Next]_vars => OnceInvariant'
<1> SUFFICES ASSUME OnceInvariant, [Next]_vars PROVE OnceInvariant'
  OBVIOUS
<1>1. ASSUME NEW r \in Requests, NEW path \in Routes, NEW a, Arrive(r, path, a)
      PROVE  OnceInvariant'
  <2>1. path # "none"
    BY DEF Routes, ApiRoutes
  <2> QED
    BY <1>1, <2>1 DEF Arrive, OnceInvariant
<1>2. ASSUME NEW r \in Requests, NEW t \in Transitions, Settles(r, t)
      PROVE  OnceInvariant'
  BY <1>2, SettlesOnce
<1>3. ASSUME NEW v \in views, Evict(v)
      PROVE  OnceInvariant'
  BY <1>3 DEF Evict, OnceInvariant
<1>4. CASE UNCHANGED vars
  BY <1>4 DEF vars, OnceInvariant
<1> QED
  BY <1>1, <1>2, <1>3, <1>4 DEF Next

\* For any number of requests, none is answered twice, whatever settles in whatever
\* order (the handlers of baseActionsRouter.js, session.js and restfulRouter.js).
THEOREM NoSecondAnswer == Spec => []AnsweredOnce
<1>1. OnceInvariant => AnsweredOnce
  BY DEF OnceInvariant, AnsweredOnce
<1> QED
  BY InitOnce, NextOnce, <1>1, PTL DEF Spec

-----------------------------------------------------------------------------
(* Where a view is made or read *)

AddressWaits == {"/addressview", "view.getAddress", "view.getAddressDeltas",
                 "view.getTransactions", "view.getBlocksByHash"}
TableWaits == {"/blocktableview", "table.getBlockCount", "table.getBlocksByHeight"}
ViewWaits == AddressWaits \cup TableWaits

\* A transition that does not lead to a view.
Elsewhere(t) == t.next \cap ViewWaits = {} /\ t.on # "kept"

\* A transition that leads to a view is one of the handler of that view.
InPlace(t) ==
  /\ t.next \cap AddressWaits # {} => t.at \in AddressWaits
  /\ t.next \cap TableWaits # {} => t.at \in TableWaits
  /\ t.on = "kept" => t.at \in {"/addressview", "/blocktableview"}

\* The parts of handlers lead to no view.
LEMMA PartsElsewhere ==
  ASSUME NEW at, NEW on, on # "kept"
  PROVE  /\ Elsewhere(Replies(at, on)) /\ Elsewhere(Forgets(at, on))
         /\ \A next : next \notin ViewWaits => Elsewhere(Goes(at, on, next))
  BY DEF Elsewhere, Replies, Forgets, Goes

\* The same of a chain of any length.
LEMMA ChainElsewhere ==
  ASSUME NEW n \in Nat, NEW calls, Len(calls) = n, \A i \in 2..n : calls[i] \notin ViewWaits
  PROVE  \A t \in Chain(calls) : Elsewhere(t)
  <1>1. \A i \in 1..(n - 1) : i + 1 \in 2..n OBVIOUS
  <1>2. \A i \in 1..(n - 1) : Elsewhere(Goes(calls[i], "ok", calls[i + 1]))
    BY <1>1, PartsElsewhere
  <1>3. Elsewhere(Replies(calls[n], "ok")) BY PartsElsewhere
  <1> QED BY <1>2, <1>3 DEF Chain

\* A chain of calls none of which is of a view leads to none.
LEMMA ChainsElsewhere ==
  ASSUME NEW a, NEW b, b \notin ViewWaits
  PROVE  /\ \A t \in Chain(<<a, b>>) : Elsewhere(t)
         /\ \A c : c \notin ViewWaits =>
              /\ \A t \in Chain(<<a, b, c>>) : Elsewhere(t)
              /\ \A d : d \notin ViewWaits =>
                   /\ \A t \in Chain(<<a, b, c, d>>) : Elsewhere(t)
                   /\ \A e : e \notin ViewWaits =>
                        \A t \in Chain(<<a, b, c, d, e>>) : Elsewhere(t)
  <1>1. \A t \in Chain(<<a, b>>) : Elsewhere(t)
    <2>1. Len(<<a, b>>) = 2 /\ \A i \in 2..2 : <<a, b>>[i] \notin ViewWaits OBVIOUS
    <2> QED BY <2>1, ChainElsewhere
  <1>2. ASSUME NEW c, c \notin ViewWaits
        PROVE  \A t \in Chain(<<a, b, c>>) : Elsewhere(t)
    <2>1. Len(<<a, b, c>>) = 3 /\ \A i \in 2..3 : <<a, b, c>>[i] \notin ViewWaits BY <1>2
    <2> QED BY <2>1, ChainElsewhere
  <1>3. ASSUME NEW c, c \notin ViewWaits, NEW d, d \notin ViewWaits
        PROVE  \A t \in Chain(<<a, b, c, d>>) : Elsewhere(t)
    <2>1. Len(<<a, b, c, d>>) = 4 /\ \A i \in 2..4 : <<a, b, c, d>>[i] \notin ViewWaits BY <1>3
    <2> QED BY <2>1, ChainElsewhere
  <1>4. ASSUME NEW c, c \notin ViewWaits, NEW d, d \notin ViewWaits, NEW e, e \notin ViewWaits
        PROVE  \A t \in Chain(<<a, b, c, d, e>>) : Elsewhere(t)
    <2>1. Len(<<a, b, c, d, e>>) = 5
          /\ \A i \in 2..5 : <<a, b, c, d, e>>[i] \notin ViewWaits
      BY <1>4
    <2> QED BY <2>1, ChainElsewhere
  <1> QED BY <1>1, <1>2, <1>3, <1>4

\* The shared handlers lead to no view.
LEMMA SharedElsewhere ==
  ASSUME NEW call
  PROVE  /\ \A t \in Caught(call) : Elsewhere(t)
         /\ \A t \in Uncaught(call) : Elsewhere(t)
         /\ \A t \in PageOfBlock(call) : Elsewhere(t)
         /\ \A t \in ChecksAddress(call) : Elsewhere(t)
         /\ \A t \in Truthy(call) : Elsewhere(t)
  BY PartsElsewhere DEF Caught, Uncaught, PageOfBlock, ChecksAddress, Truthy

\* The REST calls lead to no view.
LEMMA ApiCallsElsewhere ==
  ASSUME NEW a, NEW b, b \notin ViewWaits
  PROVE  /\ \A t \in ApiCall(<<a, b>>) : Elsewhere(t)
         /\ \A c : c \notin ViewWaits => \A t \in ApiCall(<<a, b, c>>) : Elsewhere(t)
  BY ChainsElsewhere, SharedElsewhere DEF ApiCall

\* The handlers of other routes lead to no view.
LEMMA HandlersElsewhere ==
  \A t \in Handlers : Elsewhere(t) \/ t \in AddressView \cup BlockTable
<1> USE DEF ViewWaits, AddressWaits, TableWaits
<1>1. \A t \in NodeStatus : Elsewhere(t)
  BY ChainsElsewhere, SharedElsewhere, Zenon DEF NodeStatus
<1>2. \A t \in MempoolSummary : Elsewhere(t)
  BY ChainsElsewhere, SharedElsewhere, Zenon DEF MempoolSummary
<1>3. \A t \in Peers : Elsewhere(t)
  BY ChainsElsewhere, SharedElsewhere, PartsElsewhere, Zenon DEF Peers
<1>4. \A t \in Blocks : Elsewhere(t)
  BY ChainsElsewhere, SharedElsewhere, Zenon DEF Blocks
<1>5. \A t \in SearchPage : Elsewhere(t)
  BY PartsElsewhere, Zenon DEF SearchPage
<1>6. ASSUME NEW t \in SearchHash PROVE Elsewhere(t)
  <2>1. /\ Elsewhere(Replies("search.getRawTransaction", "ok"))
        /\ Elsewhere(Goes("search.getRawTransaction", "null", "search.getBlockByHash"))
        /\ Elsewhere(Goes("search.getRawTransaction", "fails", "search.orBlock"))
        /\ Elsewhere(Replies("search.late", "ok")) /\ Elsewhere(Forgets("search.late", "not valid"))
        /\ Elsewhere(Replies("search.orBlock", "null"))
    BY PartsElsewhere, Zenon
  <2>2. Elsewhere([at |-> "search.getBlockByHash", on |-> "null", answers |-> TRUE,
                   next |-> {"search.late"}])
    BY DEF Elsewhere
  <2> HIDE DEF ViewWaits, AddressWaits, TableWaits
  <2> QED BY <2>1, <2>2, SharedElsewhere, ZenonT(30) DEF SearchHash
<1>7. \A t \in SearchText : Elsewhere(t)
  BY SharedElsewhere, PartsElsewhere, Zenon DEF SearchText
<1>8. \A t \in BlockHeight : Elsewhere(t)
  BY SharedElsewhere, PartsElsewhere, Zenon DEF BlockHeight
<1>9. \A t \in Block : Elsewhere(t)
  BY SharedElsewhere, PartsElsewhere, Zenon DEF Block
<1>10. \A t \in Tx : Elsewhere(t)
  BY ChainsElsewhere, SharedElsewhere, Zenon DEF Tx
<1>11. \A t \in RpcTerminal : Elsewhere(t)
  BY ChainsElsewhere, SharedElsewhere, PartsElsewhere, Zenon DEF RpcTerminal
<1>12. ASSUME NEW t \in RpcBrowser PROVE Elsewhere(t)
  <2>1. /\ Elsewhere(Replies("/rpc-browser", "not authenticated"))
        /\ Elsewhere(Goes("browser.getHelp", "method", "browser.getRpcMethodHelp"))
        /\ Elsewhere(Goes("browser.getRpcMethodHelp", "execute", "browser.command"))
        /\ Elsewhere(Replies("browser.command", "ok"))
        /\ \A on \in {"ok", "blacklisted", "no token"} :
             Elsewhere(Replies("browser.getRpcMethodHelp", on))
    BY PartsElsewhere, Zenon
  <2>2. \A u \in Chain(<<"/rpc-browser", "browser.getHelp">>) : Elsewhere(u)
    BY ChainsElsewhere, Zenon
  <2> HIDE DEF ViewWaits, AddressWaits, TableWaits
  <2> QED BY <2>1, <2>2, SharedElsewhere, ZenonT(30) DEF RpcBrowser
<1>13. \A t \in UnconfirmedTx : Elsewhere(t)
  BY ChainsElsewhere, SharedElsewhere, Zenon DEF UnconfirmedTx
<1>14. \A t \in TxStats : Elsewhere(t)
  BY ChainsElsewhere, SharedElsewhere, Zenon DEF TxStats
<1>15. \A t \in StaticPages : Elsewhere(t)
  BY PartsElsewhere, Zenon DEF StaticPages
<1>16. \A t \in Home : Elsewhere(t)
  BY ChainsElsewhere, SharedElsewhere, PartsElsewhere, Zenon DEF Home
<1>17. \A t \in NetworkSummary : Elsewhere(t)
  BY ChainsElsewhere, SharedElsewhere, Zenon DEF NetworkSummary
<1>18. \A t \in AddressPage : Elsewhere(t)
  BY ChainsElsewhere, SharedElsewhere, Zenon DEF AddressPage
<1>19. \A t \in CoreCalls : Elsewhere(t)
  BY ApiCallsElsewhere, PartsElsewhere, Zenon DEF CoreCalls
<1>20. \A t \in HashCalls : Elsewhere(t)
  BY ApiCallsElsewhere, PartsElsewhere, Zenon DEF HashCalls
<1>21. \A t \in AssetCalls : Elsewhere(t)
  BY ApiCallsElsewhere, PartsElsewhere, Zenon DEF AssetCalls
<1>22. \A t \in BlockCalls : Elsewhere(t)
  BY ApiCallsElsewhere, PartsElsewhere, Zenon DEF BlockCalls
<1>23. \A t \in AddressCalls : Elsewhere(t)
  BY ApiCallsElsewhere, PartsElsewhere, Zenon DEF AddressCalls
<1>24. \A t \in NodeCalls : Elsewhere(t)
  BY ApiCallsElsewhere, Zenon DEF NodeCalls
<1> QED
  BY <1>1, <1>2, <1>3, <1>4, <1>5, <1>6, <1>7, <1>8, <1>9, <1>10, <1>11, <1>12, <1>13, <1>14,
     <1>15, <1>16, <1>17, <1>18, <1>19, <1>20, <1>21, <1>22, <1>23, <1>24 DEF Handlers

\* What leads to no view is in its place.
LEMMA ElsewhereInPlace == \A t : Elsewhere(t) => InPlace(t)
  BY DEF Elsewhere, InPlace, ViewWaits

\* Every transition that leads to a view is of the handler of that view.
LEMMA TransitionsInPlace == \A t \in Transitions : InPlace(t)
<1>1. ASSUME NEW t \in AddressView PROVE InPlace(t)
  <2>1. /\ InPlace(Replies("/addressview", "kept"))
        /\ InPlace(Goes("/addressview", "absent", "view.getAddress"))
        /\ InPlace(Goes("view.getAddress", "ok", "view.getAddressDeltas"))
        /\ InPlace(Goes("view.getAddressDeltas", "ok", "view.getTransactions"))
        /\ InPlace(Goes("view.getTransactions", "coinbase", "view.getBlocksByHash"))
    BY DEF InPlace, Replies, Goes, AddressWaits, TableWaits
  <2>2. /\ Elsewhere(Forgets("view.getTransactions", "never"))
        /\ Elsewhere(Replies("view.getAddressDeltas", "no transactions"))
        /\ \A c \in {"view.getTransactions", "view.getBlocksByHash"} : Elsewhere(Replies(c, "ok"))
    BY PartsElsewhere, Zenon
  <2> QED BY <2>1, <2>2, SharedElsewhere, ElsewhereInPlace, ZenonT(30) DEF AddressView
<1>2. ASSUME NEW t \in BlockTable PROVE InPlace(t)
  <2>1. /\ InPlace(Replies("/blocktableview", "kept"))
        /\ InPlace(Goes("/blocktableview", "absent", "table.getBlockCount"))
        /\ InPlace(Goes("table.getBlockCount", "ok", "table.getBlocksByHeight"))
    BY DEF InPlace, Replies, Goes, AddressWaits, TableWaits
  <2>2. /\ Elsewhere(Replies("table.getBlockCount", "no height"))
        /\ Elsewhere(Replies("table.getBlocksByHeight", "ok"))
    BY PartsElsewhere, Zenon
  <2>3. \A u \in Chain(<<"table.getBlockCount", "table.getBlocksByHeight">>) : InPlace(u)
    <3> DEFINE calls == <<"table.getBlockCount", "table.getBlocksByHeight">>
    <3>1. Len(calls) = 2 /\ calls[1] = "table.getBlockCount" /\ calls[2] = "table.getBlocksByHeight"
      OBVIOUS
    <3>2. \A i \in 1..(Len(calls) - 1) : i = 1 /\ i + 1 = 2 BY <3>1
    <3> HIDE DEF calls
    <3>3. \A u \in Chain(calls) : u = Goes(calls[1], "ok", calls[2]) \/ u = Replies(calls[2], "ok")
      BY <3>1, <3>2 DEF Chain
    <3> QED BY <2>1, <2>2, <3>1, <3>3, ElsewhereInPlace DEF calls
  <2> QED BY <2>1, <2>2, <2>3, SharedElsewhere, ElsewhereInPlace, ZenonT(30) DEF BlockTable
<1>3. \A t \in Middleware \cup AfterRouters : Elsewhere(t)
  BY PartsElsewhere, Zenon DEF Middleware, AfterRouters
<1> QED
  BY <1>1, <1>2, <1>3, HandlersElsewhere, ElsewhereInPlace DEF Transitions

\* A view is made or read where one is waited for.
LEMMA CompiledInPlace ==
  ASSUME NEW t, <<t.at, t.on>> \in Compiled
  PROVE  t.at \in ViewWaits
  <1>1. t.at \in {"view.getAddressDeltas", "view.getTransactions", "view.getBlocksByHash",
                  "table.getBlockCount", "table.getBlocksByHeight"}
    BY DEF Compiled
  <1> QED BY <1>1 DEF ViewWaits, AddressWaits, TableWaits

\* A request begins at its route, which some handler or middleware answers.
LEMMA RoutesAreWaits ==
  ASSUME NEW path \in Routes
  PROVE  /\ path \in Waits /\ path # "none"
         /\ path \in AddressWaits => path = "/addressview"
         /\ path \in TableWaits => path = "/blocktableview"
  <1>1. ASSUME path # "/" PROVE path \in Waits
    <2>1. Replies(path, "not connected") \in Transitions
      BY <1>1 DEF Transitions, Middleware
    <2>2. Replies(path, "not connected").at = path BY DEF Replies
    <2> QED BY <2>1, <2>2 DEF Waits
  <1>2. ASSUME path = "/" PROVE path \in Waits
    <2>1. Replies("/", "not connected") \in Home BY DEF Home
    <2>2. Replies("/", "not connected") \in Transitions
      BY <2>1 DEF Transitions, Handlers
    <2>3. Replies("/", "not connected").at = "/" BY DEF Replies
    <2> QED BY <1>2, <2>2, <2>3 DEF Waits
  <1>3. path # "none" BY DEF Routes, ApiRoutes
  <1>4. /\ path \in AddressWaits => path = "/addressview"
        /\ path \in TableWaits => path = "/blocktableview"
    BY DEF Routes, ApiRoutes, AddressWaits, TableWaits
  <1> QED BY <1>1, <1>2, <1>3, <1>4

-----------------------------------------------------------------------------
(* A view is of the address asked for *)

TypeInvariant ==
  /\ route \in [Requests -> Routes \cup {"none"}]
  /\ arg \in [Requests -> Args \cup {NoArg}]
  /\ waits \in [Requests -> SUBSET Waits]
  /\ lost \in [Requests -> SUBSET Waits]
  /\ shown \in [Requests -> Args \cup {NoArg}]
  /\ assetSupported \in BOOLEAN

\* Who waits where a view is made asked for one, for an address and a window.
PlaceInvariant ==
  \A r \in Requests :
    /\ waits[r] \cap AddressWaits # {} => route[r] = "/addressview"
    /\ waits[r] \cap TableWaits # {} => route[r] = "/blocktableview"
    /\ route[r] \in Views => arg[r] \in Args
    /\ route[r] = "none" => shown[r] = NoArg

\* The key of what is kept says what it is of.
KeyMatches(v) ==
  /\ v.of \in Args
  /\ \/ v.key = <<"block-table-view">>
     \/ assetSupported /\ v.key = <<"address", v.of.address>>
     \/ ~assetSupported /\ v.key = <<"address", v.of.address, v.of.window>>

ViewInvariant ==
  /\ TypeInvariant /\ PlaceInvariant /\ ViewsAnswerTheirRequest
  /\ \A v \in views : KeyMatches(v)

\* An address and a window are all that is asked for.
LEMMA ArgFields ==
  ASSUME NEW a \in Args, NEW b \in Args, a.address = b.address, a.window = b.window
  PROVE  a = b
  BY DEF Args

\* What is found under the key of an address view answers it.
LEMMA KeptAnswers ==
  ASSUME ViewInvariant, NEW r \in Requests, route[r] = "/addressview", NEW v \in Kept(r)
  PROVE  v.of.address = arg[r].address /\ (~assetSupported => v.of = arg[r])
  <1>1. v.key = KeyOf(r) /\ KeyMatches(v) BY DEF Kept, ViewInvariant
  <1>2. arg[r] \in Args BY DEF ViewInvariant, PlaceInvariant, Views
  <1>3. \A a, b : <<"address", a>> # <<"block-table-view">> OBVIOUS
  <1>4. \A a, b : <<"address", a, b>> # <<"block-table-view">> OBVIOUS
  <1>5. assetSupported \in BOOLEAN BY DEF ViewInvariant, TypeInvariant
  <1>6. CASE assetSupported
    <2>1. KeyOf(r) = <<"address", arg[r].address>> BY <1>6 DEF KeyOf
    <2>2. v.key = <<"address", v.of.address>> BY <1>1, <1>3, <1>6, <2>1 DEF KeyMatches
    <2> QED BY <1>1, <1>6, <2>1, <2>2
  <1>7. CASE ~assetSupported
    <2>1. KeyOf(r) = <<"address", arg[r].address, arg[r].window>> BY <1>7 DEF KeyOf
    <2>2. v.key = <<"address", v.of.address, v.of.window>> BY <1>1, <1>4, <1>7, <2>1 DEF KeyMatches
    <2>3. v.of.address = arg[r].address /\ v.of.window = arg[r].window BY <1>1, <2>1, <2>2
    <2>4. v.of \in Args BY <1>1 DEF KeyMatches
    <2> QED BY <1>2, <2>3, <2>4, ArgFields
  <1> QED BY <1>6, <1>7

\* What a view is kept under says what it is of.
LEMMA MadeMatches ==
  ASSUME ViewInvariant, NEW r \in Requests, route[r] \in Views
  PROVE  KeyMatches([key |-> KeyOf(r), of |-> arg[r]])
  <1>1. arg[r] \in Args BY DEF ViewInvariant, PlaceInvariant
  <1>2. KeyOf(r) = (IF route[r] = "/blocktableview" THEN <<"block-table-view">>
                    ELSE IF assetSupported THEN <<"address", arg[r].address>>
                    ELSE <<"address", arg[r].address, arg[r].window>>)
    BY DEF KeyOf, Views
  <1> QED BY <1>1, <1>2 DEF KeyMatches

\* Initially there are no views.
LEMMA InitViews == Init => ViewInvariant
<1> SUFFICES ASSUME Init PROVE ViewInvariant
  OBVIOUS
<1>1. TypeInvariant
  BY DEF Init, TypeInvariant
<1>2. PlaceInvariant /\ ViewsAnswerTheirRequest
  BY DEF Init, PlaceInvariant, ViewsAnswerTheirRequest, Views
<1> QED
  BY <1>1, <1>2 DEF Init, ViewInvariant

\* What a request is shown when its promise settles.
LEMMA ShowsView ==
  ASSUME ViewInvariant, NEW r \in Requests, NEW t \in Transitions, Settles(r, t)
  PROVE  /\ shown' \in [Requests -> Args \cup {NoArg}]
         /\ \A q \in Requests \ {r} : shown'[q] = shown[q]
         /\ route[r] = "/addressview" /\ shown'[r] # NoArg =>
              /\ shown'[r].address = arg[r].address
              /\ ~assetSupported => shown'[r] = arg[r]
         /\ \A v \in views' : KeyMatches(v)
  <1>1. t.at \in waits[r] /\ InPlace(t) /\ Shows(r, t) BY TransitionsInPlace DEF Settles
  <1>2. t.at \in ViewWaits => route[r] \in Views
    BY <1>1 DEF ViewInvariant, PlaceInvariant, ViewWaits, Views
  <1>3. shown \in [Requests -> Args \cup {NoArg}] /\ \A v \in views : KeyMatches(v)
    BY DEF ViewInvariant, TypeInvariant
  <1>4. CASE <<t.at, t.on>> \in Compiled
    <2>1. route[r] \in Views BY <1>2, <1>4, CompiledInPlace
    <2>2. arg[r] \in Args BY <2>1 DEF ViewInvariant, PlaceInvariant
    <2>3. /\ views' = (views \ Kept(r)) \cup {[key |-> KeyOf(r), of |-> arg[r]]}
          /\ shown' = [shown EXCEPT ![r] = arg[r]]
      BY <1>1, <1>4 DEF Shows
    <2>4. \A v \in views' : KeyMatches(v) BY <1>3, <2>1, <2>3, MadeMatches
    <2> QED BY <1>3, <2>2, <2>3, <2>4
  <1>5. CASE <<t.at, t.on>> \notin Compiled /\ t.on = "kept"
    <2> DEFINE v == CHOOSE v \in Kept(r) : TRUE
    <2>1. shown' = [shown EXCEPT ![r] = v.of] /\ views' = views BY <1>1, <1>5 DEF Shows
    <2>2. v \in Kept(r) BY <1>5 DEF Settles
    <2> HIDE DEF v
    <2>3. v.of \in Args BY <1>3, <2>2 DEF Kept, KeyMatches
    <2>4. route[r] = "/addressview" =>
            v.of.address = arg[r].address /\ (~assetSupported => v.of = arg[r])
      BY <2>2, KeptAnswers
    <2>5. /\ shown' \in [Requests -> Args \cup {NoArg}] /\ shown'[r] = v.of
          /\ \A q \in Requests \ {r} : shown'[q] = shown[q]
      BY <1>3, <2>1, <2>3
    <2> QED BY <1>3, <2>1, <2>4, <2>5
  <1>6. CASE <<t.at, t.on>> \notin Compiled /\ t.on # "kept"
    <2>1. shown' = shown /\ views' = views BY <1>1, <1>6 DEF Shows
    <2>2. route[r] = "/addressview" /\ shown[r] # NoArg =>
            /\ shown[r].address = arg[r].address
            /\ ~assetSupported => shown[r] = arg[r]
      BY DEF ViewInvariant, ViewsAnswerTheirRequest
    <2> QED BY <1>3, <2>1, <2>2
  <1> QED BY <1>4, <1>5, <1>6

\* A promise settles.
LEMMA SettlesView ==
  ASSUME OnceInvariant, ViewInvariant, NEW r \in Requests, NEW t \in Transitions, Settles(r, t)
  PROVE  ViewInvariant'
  <1>1. /\ t.at \in waits[r] /\ InPlace(t) /\ route' = route /\ arg' = arg
        /\ assetSupported' = assetSupported
        /\ waits' = [waits EXCEPT ![r] = (@ \ {t.at}) \cup t.next]
        /\ lost' = [lost EXCEPT ![r] = @ \cup (IF t.answers \/ t.next # {} THEN {} ELSE {t.at})]
    BY TransitionsInPlace DEF Settles
  <1>2. TypeInvariant /\ PlaceInvariant /\ ViewsAnswerTheirRequest BY DEF ViewInvariant
  <1>3. t.at \in Waits /\ t.next \subseteq Waits BY DEF Waits
  <1>4. /\ shown' \in [Requests -> Args \cup {NoArg}]
        /\ \A q \in Requests \ {r} : shown'[q] = shown[q]
        /\ route[r] = "/addressview" /\ shown'[r] # NoArg =>
             /\ shown'[r].address = arg[r].address
             /\ ~assetSupported => shown'[r] = arg[r]
        /\ \A v \in views' : KeyMatches(v)
    BY ShowsView
  <1>5. TypeInvariant' BY <1>1, <1>2, <1>3, <1>4 DEF TypeInvariant
  <1>6. ViewsAnswerTheirRequest' BY <1>1, <1>2, <1>4 DEF ViewsAnswerTheirRequest
  <1>7. \A v \in views' : KeyMatches(v)' BY <1>1, <1>4 DEF KeyMatches
  <1>8. route[r] # "none" BY <1>1 DEF OnceInvariant
  <1>9. PlaceInvariant'
    <2> SUFFICES ASSUME NEW q \in Requests
                 PROVE  /\ waits'[q] \cap AddressWaits # {} => route[q] = "/addressview"
                        /\ waits'[q] \cap TableWaits # {} => route[q] = "/blocktableview"
                        /\ route[q] \in Views => arg[q] \in Args
                        /\ route[q] = "none" => shown'[q] = NoArg
      BY <1>1 DEF PlaceInvariant
    <2>1. CASE q # r BY <1>1, <1>2, <1>4, <2>1 DEF PlaceInvariant, TypeInvariant
    <2>2. CASE q = r
      <3>1. waits'[q] = (waits[r] \ {t.at}) \cup t.next BY <1>1, <1>2, <2>2 DEF TypeInvariant
      <3>2. waits'[q] \cap AddressWaits # {} => waits[r] \cap AddressWaits # {}
        BY <1>1, <3>1 DEF InPlace
      <3>3. waits'[q] \cap TableWaits # {} => waits[r] \cap TableWaits # {}
        BY <1>1, <3>1 DEF InPlace
      <3> QED BY <1>2, <1>8, <2>2, <3>2, <3>3 DEF PlaceInvariant
    <2> QED BY <2>1, <2>2
  <1> HIDE DEF KeyMatches
  <1> QED BY <1>5, <1>6, <1>7, <1>9 DEF ViewInvariant

\* A request arrives.
LEMMA ArriveView ==
  ASSUME OnceInvariant, ViewInvariant, NEW r \in Requests, NEW path \in Routes,
         NEW a \in Args \cup {NoArg}, Arrive(r, path, a)
  PROVE  ViewInvariant'
  <1>1. /\ route[r] = "none" /\ route' = [route EXCEPT ![r] = path]
        /\ path \in Views => a \in Args
        /\ arg' = [arg EXCEPT ![r] = a] /\ waits' = [waits EXCEPT ![r] = {path}]
        /\ lost' = lost /\ shown' = shown /\ views' = views /\ assetSupported' = assetSupported
    BY DEF Arrive
  <1>2. TypeInvariant /\ PlaceInvariant /\ ViewsAnswerTheirRequest BY DEF ViewInvariant
  <1>3. /\ path \in Waits /\ path # "none"
        /\ path \in AddressWaits => path = "/addressview"
        /\ path \in TableWaits => path = "/blocktableview"
    BY RoutesAreWaits
  <1>4. TypeInvariant' BY <1>1, <1>2, <1>3 DEF TypeInvariant
  <1>5. shown[r] = NoArg BY <1>1, <1>2 DEF PlaceInvariant
  <1>6. PlaceInvariant' BY <1>1, <1>2, <1>3 DEF PlaceInvariant, TypeInvariant
  <1>7. ViewsAnswerTheirRequest'
    BY <1>1, <1>2, <1>5 DEF ViewsAnswerTheirRequest, TypeInvariant
  <1>8. \A v \in views' : KeyMatches(v)' BY <1>1 DEF KeyMatches, ViewInvariant
  <1> HIDE DEF KeyMatches
  <1> QED BY <1>4, <1>6, <1>7, <1>8 DEF ViewInvariant

\* Every step keeps the views.
LEMMA NextView ==
  ASSUME OnceInvariant, ViewInvariant, [Next]_vars
  PROVE  ViewInvariant'
<1>1. ASSUME NEW r \in Requests, NEW path \in Routes, NEW a \in Args \cup {NoArg},
             Arrive(r, path, a)
      PROVE  ViewInvariant'
  BY <1>1, ArriveView
<1>2. ASSUME NEW r \in Requests, NEW t \in Transitions, Settles(r, t)
      PROVE  ViewInvariant'
  BY <1>2, SettlesView
<1>3. CASE (\E v \in views : Evict(v)) \/ UNCHANGED vars
  <2>1. /\ route' = route /\ arg' = arg /\ waits' = waits /\ lost' = lost /\ shown' = shown
        /\ assetSupported' = assetSupported /\ views' \subseteq views
    BY <1>3 DEF Evict, vars
  <2>2. TypeInvariant' /\ PlaceInvariant' /\ ViewsAnswerTheirRequest'
    BY <2>1 DEF ViewInvariant, TypeInvariant, PlaceInvariant, ViewsAnswerTheirRequest
  <2>3. \A v \in views' : KeyMatches(v)' BY <2>1 DEF KeyMatches, ViewInvariant
  <2> HIDE DEF KeyMatches
  <2> QED BY <2>2, <2>3 DEF ViewInvariant
<1> QED
  BY <1>1, <1>2, <1>3 DEF Next

\* For any requests, addresses and windows an address view is of the address asked for, whoever made
\* it and whatever was evicted meanwhile; of a coin without assets also of the blocks asked for
\* (session.js, renderTransactions and compileView).
THEOREM ViewsAreOfTheirAddress == Spec => []ViewsAnswerTheirRequest
<1>1. Init => OnceInvariant /\ ViewInvariant
  BY InitOnce, InitViews
<1>2. (OnceInvariant /\ ViewInvariant) /\ [Next]_vars => (OnceInvariant /\ ViewInvariant)'
  BY NextOnce, NextView
<1>3. ViewInvariant => ViewsAnswerTheirRequest
  BY DEF ViewInvariant
<1> QED
  BY <1>1, <1>2, <1>3, PTL DEF Spec

\* Every wait a handler leads to is one whose outcome the handlers know, and what is kept is always
\* of an address and a window somebody asked for (app.js, the routers and htmlViewCache).
THEOREM RequestsAreTyped == Spec => []TypeOK
<1>1. Init => OnceInvariant /\ ViewInvariant
  BY InitOnce, InitViews
<1>2. (OnceInvariant /\ ViewInvariant) /\ [Next]_vars => (OnceInvariant /\ ViewInvariant)'
  BY NextOnce, NextView
<1>3. OnceInvariant /\ ViewInvariant => TypeOK
  <2> SUFFICES ASSUME OnceInvariant, ViewInvariant PROVE TypeOK
    OBVIOUS
  <2>1. sent \in [Requests -> 0..2]
    BY DEF OnceInvariant
  <2>2. \A v \in views : v.of \in Args
    BY DEF ViewInvariant, KeyMatches
  <2> QED
    BY <2>1, <2>2 DEF ViewInvariant, TypeInvariant, TypeOK
<1> QED
  BY <1>1, <1>2, <1>3, PTL DEF Spec
===============================================================================
