------------------------------ MODULE AddressPages ------------------------------
(***************************************************************************)
(* The transactions of an address, a page at a time, from one of the       *)
(* address back ends: all connected ElectrumX servers at once, a web       *)
(* service, or the node itself. Servers come to know transactions at       *)
(* different times.                                                        *)
(*                                                                         *)
(* A transaction is its position in the history of the address, the oldest *)
(* being 1; a balance is written as the number of transactions it is the   *)
(* balance after. The web services list the newest first; the node lists   *)
(* the deltas of an address, one for each input and output. The details of *)
(* the node are kept for five minutes (coreApi.js), which ResponseCache    *)
(* is about: here a request is one that is not answered with them.         *)
(***************************************************************************)
EXTENDS Integers, Sequences, FiniteSets, FiniteSetsExt

CONSTANTS Servers,          \* config.electrumXServers; a web service and the node are one of them
          MaxTxs,           \* bound on the history of the address
          Offsets, Limits,  \* what is asked for
          Unanswered, Absent

ASSUME AddressAssumption ==
  /\ Servers # {} /\ IsFiniteSet(Servers)
  /\ MaxTxs \in Nat \ {0} /\ Offsets \subseteq Nat /\ Limits \subseteq Nat \ {0}
  /\ Absent \notin Nat

Backends == {"electrumx", "blockchain.com", "blockchair.com", "blockcypher.com", "daemonRPC", "none"}
Calls == {"history", "balance"}

VARIABLES backend, \* config.addressApi
          known,   \* how many transactions of the address each server knows
          clients, \* electrumClients, in the order they connected
          request  \* a call of getAddressDetails, its answers and its outcome

addressVars == <<backend, known, clients, request>>

NoRequest == [phase |-> "none"]

\* Part of a history of n transactions, from the oldest or from the newest on.
Part(n, sort, offset, limit) ==
  [k \in 1..Max({0, Min({limit, n - offset})}) |-> IF sort = "asc" THEN offset + k ELSE n - offset - k + 1]

Reversed(seq) == [k \in 1..Len(seq) |-> seq[Len(seq) + 1 - k]]

Outcome(txids, count, balance, errors) ==
  [phase |-> "answered", sort |-> request.sort, offset |-> request.offset, limit |-> request.limit,
   least |-> request.least, most |-> known, total |-> request.total,
   txids |-> txids, count |-> count, balance |-> balance, errors |-> errors]

Service == CHOOSE s \in Servers : TRUE
OfService == backend \in {"blockchain.com", "blockchair.com", "blockcypher.com"}

-----------------------------------------------------------------------------
(* electrumAddressApi.js; rpcApi.js, getAddressDetails *)

AddressInit ==
  /\ backend \in Backends
  /\ known = [s \in Servers |-> 1]
  /\ clients = <<>>
  /\ request = NoRequest

Learns(s) ==
  /\ known[s] < MaxTxs
  /\ known' = [known EXCEPT ![s] = @ + 1]
  /\ UNCHANGED <<backend, clients, request>>

\* connectToServer: a server that cannot be reached is never tried again.
Connects(s) ==
  /\ backend = "electrumx" /\ \A n \in DOMAIN clients : clients[n] # s
  /\ clients' = Append(clients, s)
  /\ UNCHANGED <<backend, known, request>>

\* runOnAllServers, once for each of the two calls, or both calls of the node at once; of a web
\* service only the rows, and for the oldest first the total before them.
Asked == IF backend = "daemonRPC" THEN <<Service>> ELSE clients
GetAddressDetails(sort, offset, limit) ==
  /\ request = NoRequest
  /\ request' = [phase |-> IF backend = "blockchain.com" /\ sort = "asc" THEN "total" ELSE "rows",
                 sort |-> sort, offset |-> offset, limit |-> limit,
                 asked |-> Asked, total |-> Absent, least |-> known,
                 answers |-> [c \in Calls |-> [n \in DOMAIN Asked |-> Unanswered]],
                 failed |-> [c \in Calls |-> Asked = <<>>]] \* results[0].result throws
  /\ UNCHANGED <<backend, known, clients>>

ServerAnswers(c, n) ==
  /\ backend \in {"electrumx", "daemonRPC"} /\ request.phase = "rows"
  /\ n \in DOMAIN request.asked /\ request.answers[c][n] = Unanswered
  /\ request' = [request EXCEPT !.answers[c][n] = known[request.asked[n]]]
  /\ UNCHANGED <<backend, known, clients>>

\* An error of one server fails the call; of the node, it is a refusal.
ServerFails(c, n) ==
  /\ backend \in {"electrumx", "daemonRPC"} /\ request.phase = "rows"
  /\ n \in DOMAIN request.asked /\ request.answers[c][n] = Unanswered
  /\ request' = [request EXCEPT !.failed[c] = TRUE]
  /\ UNCHANGED <<backend, known, clients>>

\* Bug: what would be compared if the answers were.
ComparedAnswer(answer) == answer

\* Answers are compared by a property of the pair of an answer and its server, which has no such.
Compared(answer) == Absent

Settled(c) == request.failed[c] \/ \A n \in DOMAIN request.asked : request.answers[c][n] # Unanswered

\* The answer of the first server; conflicting results come without one.
FirstResult(c) ==
  LET answers == request.answers[c] IN
  IF request.failed[c] \/ \E n \in DOMAIN answers : Compared(answers[n]) # Compared(answers[1])
  THEN Absent ELSE answers[1]

ElectrumDetails ==
  /\ backend = "electrumx" /\ request.phase = "rows" /\ \A c \in Calls : Settled(c)
  /\ LET count == FirstResult("history")
         txids == IF count = Absent THEN Absent
                  ELSE Part(count, request.sort, request.offset, request.limit)
     IN request' = Outcome(txids, count, FirstResult("balance"), {c \in Calls : request.failed[c]})
  /\ UNCHANGED <<backend, known, clients>>

\* A refusal resolves: of the history it has nothing to slice, of the balance no balance, and
\* nobody says so.
DaemonDetails ==
  /\ backend = "daemonRPC" /\ request.phase = "rows" /\ \A c \in Calls : Settled(c)
  /\ LET count == FirstResult("history")
     IN request' = IF count = Absent THEN [phase |-> "rejected"]
                   ELSE Outcome(Part(count, request.sort, request.offset, request.limit),
                                count, FirstResult("balance"), {})
  /\ UNCHANGED <<backend, known, clients>>

-----------------------------------------------------------------------------
(* blockchainAddressApi.js, blockchairAddressApi.js, blockcypherAddressApi.js, executeMethod *)

TotalAnswers ==
  /\ OfService /\ request.phase = "total"
  /\ request' = [request EXCEPT !.phase = "rows", !.total = known[Service]]
  /\ UNCHANGED <<backend, known, clients>>

\* Rows from the newest on that end where the page begins: a last page that is not full is
\* asked for at an offset made of its own length.
Ascending(n) ==
  LET from == request.total - request.limit - request.offset
      limit == IF from < 0 THEN request.limit + from ELSE request.limit
      offset == IF from < 0 THEN from + limit ELSE from
  IN IF limit <= 0 \/ offset < 0 THEN <<>> ELSE Reversed(Part(n, "desc", offset, limit))

ServiceAnswers ==
  /\ OfService /\ request.phase = "rows"
  /\ LET n == known[Service]
         txids == IF request.total # Absent THEN Ascending(n)
                  ELSE Part(n, "desc", request.offset, request.limit)
     IN request' = Outcome(txids, n, n, {})
  /\ UNCHANGED <<backend, known, clients>>

\* An error, or an address the service does not know how to read; a call that does not reach the node.
ServiceFails ==
  /\ OfService \/ backend = "daemonRPC"
  /\ request.phase \in {"total", "rows"}
  /\ request' = [phase |-> "rejected"]
  /\ UNCHANGED <<backend, known, clients>>

\* executeMethod without a function for the method.
NotConfigured ==
  /\ backend = "none" /\ request.phase = "rows"
  /\ request' = Outcome(Absent, Absent, Absent, {"not configured"})
  /\ UNCHANGED <<backend, known, clients>>

AddressNext ==
  \/ \E s \in Servers : Learns(s) \/ Connects(s)
  \/ \E sort \in {"asc", "desc"}, offset \in Offsets, limit \in Limits : GetAddressDetails(sort, offset, limit)
  \/ \E c \in Calls, n \in 1..Cardinality(Servers) : ServerAnswers(c, n) \/ ServerFails(c, n)
  \/ ElectrumDetails \/ DaemonDetails \/ TotalAnswers \/ ServiceAnswers \/ ServiceFails \/ NotConfigured

AddressSpec == AddressInit /\ [][AddressNext]_addressVars

-----------------------------------------------------------------------------
(* Properties *)

AddressTypeOK ==
  /\ backend \in Backends
  /\ known \in [Servers -> 1..MaxTxs]
  /\ clients \in Seq(Servers) /\ Len(clients) <= Cardinality(Servers)
  /\ request.phase \in {"none", "total", "rows", "answered", "rejected"}

\* Whether the oldest-first page of blockchain.com is full and its rows did not move.
Steady ==
  request.total # Absent =>
    request.offset + request.limit <= request.total /\ request.count = request.total

\* Details without an error have a balance, unless the node refused it, of a history some server had
\* during the request, and are the page asked for, in the order asked for, of such a history, however
\* many servers disagree; of blockchain.com oldest first if the page is full and no transaction came
\* meanwhile (getAddressDetails).
DetailsAreComplete ==
  request.phase = "answered" /\ request.errors = {} =>
    /\ request.count # Absent /\ (request.balance = Absent => backend = "daemonRPC")
    /\ \A n \in {request.count, request.balance} \ {Absent} :
         \E s \in Servers : n \in request.least[s]..request.most[s]
    /\ LET sort == IF backend \in {"blockchair.com", "blockcypher.com"} THEN "desc" ELSE request.sort IN
       Steady => request.txids = Part(request.count, sort, request.offset, request.limit)
===============================================================================
