------------------------------- MODULE BlockLists -------------------------------
(***************************************************************************)
(* Lists of blocks by height, /blocks, the table of latest blocks and the  *)
(* filtered list of the REST API, and the list of latest transactions,     *)
(* over the kept height, the kept mempool and the kept blocks. Whatever    *)
(* the node says of a height is kept, also that there is no such block; it *)
(* ages from then on, however long the answer was under way.               *)
(*                                                                         *)
(* Blocks are not reorganised here, so an answer that has the block is as  *)
(* good when it comes as when it was given; one that has none is not.      *)
(* Heights and the mempool are kept in the tick they are read. Of a list   *)
(* the heights matter and whether each has its block; of a transaction     *)
(* where it is. The calls that a rejected list leaves behind are visits.   *)
(***************************************************************************)
EXTENDS Integers, Sequences, FiniteSets, FiniteSetsExt

CONSTANTS ListTxs,
          FirstBest, MaxBest, LastTime, MaxLists, \* bounds on the chain, the clock and the lists asked for
          CountAge, PoolAge, BlockAge,   \* ten seconds, one second, an hour
          Amounts, Skips, Lengths,       \* what lists are asked for
          Filters,                       \* lower and upper height, 0 if there is none
          Visited                        \* heights asked for by number

ASSUME ListsAssumption ==
  /\ FirstBest \in Nat \ {0} /\ MaxBest \in Nat /\ FirstBest <= MaxBest
  /\ LastTime \in Nat /\ MaxLists \in Nat
  /\ {CountAge, PoolAge, BlockAge} \subseteq Nat \ {0}
  /\ Amounts \subseteq Nat /\ Skips \subseteq Nat /\ Lengths \subseteq Int /\ Visited \subseteq Nat
  /\ Filters \subseteq Nat \X Nat

VARIABLES best, time,
          heard,   \* when each transaction entered the mempool, or -1
          mined,   \* the height of its block, or 0
          counts,  \* what is kept of getblockcount and of getblockchaininfo
          mempool, \* what is kept of the mempool
          blocks,  \* what is kept of blocks, by height
          misses,  \* answers without a block that are under way, to rows of the list or to visits
          listing, \* the list asked for, and how many there were
          early,   \* history: when it was last kept of a height that it has no block yet
          bests    \* history: the height when each tick began

listVars == <<best, time, heard, mined, counts, mempool, blocks, misses, listing, early, bests>>

Lists ==
  [kind : {"table", "txids"}, limit : Amounts]
    \cup [kind : {"newest", "oldest"}, offset : Skips, limit : Lengths \cap Nat]
    \cup [kind : {"filter"}, range : Filters, offset : Skips, limit : Lengths]

Sources == {"getblockcount", "getblockchaininfo"}
SourceOf(list) == IF list.kind \in {"newest", "oldest"} THEN "getblockchaininfo" ELSE "getblockcount"

Down(from, n) == [k \in 1..Max({0, n}) |-> from - k + 1]

\* RestfulRouter.getBlocks: without a filter from the first block on, and without an upper height
\* up to the tip, or the one block of the filter.
Lower(range) == IF range[1] = 0 THEN 1 ELSE range[1]
Upper(range, tip) ==
  Min({tip, CASE range[2] # 0 -> range[2]
              [] range[2] = 0 /\ range[1] # 0 -> range[1]
              [] OTHER -> tip})

\* A page of a filter has a hundred blocks if no length is asked for.
PageLength(list) == IF list.limit < 0 THEN 100 ELSE list.limit

HeightsOf(list, tip) ==
  CASE list.kind \in {"table", "txids"} -> Down(tip, list.limit)
    [] list.kind = "newest" -> Down(tip - list.offset, Min({list.limit, tip - list.offset + 1}))
    [] list.kind = "oldest" -> [k \in 1..list.limit |-> list.offset + k - 1]
    [] list.kind = "filter" ->
         LET end == Upper(list.range, tip) - list.offset IN
         Down(end, Min({PageLength(list), end - Lower(list.range) + 1}))

\* Bug: a block that is kept never grows old.
FreshBlockForever(h) == h \in DOMAIN blocks

FreshBlock(h) == h \in DOMAIN blocks /\ time < blocks[h].at + BlockAge

\* What the node says of a height; an error resolves.
AtHeight(h) == IF h \in 0..best THEN "block" ELSE "missing"

\* blockCache after the node was asked.
Keeping(h, answer) ==
  [g \in DOMAIN blocks \cup {h} |-> IF g = h THEN [answer |-> answer, at |-> time] ELSE blocks[g]]

Missing(h, answer) == [g \in DOMAIN early |-> IF g = h /\ answer = "missing" THEN time ELSE early[g]]

-----------------------------------------------------------------------------
ListInit ==
  /\ best = FirstBest /\ time = 0
  /\ heard = [t \in ListTxs |-> -1] /\ mined = [t \in ListTxs |-> 0]
  /\ counts = [s \in Sources |-> [height |-> 0, at |-> -CountAge]]
  /\ mempool = [txids |-> {}, at |-> -PoolAge]
  /\ blocks = [h \in {} |-> 0] /\ misses = {}
  /\ listing = [phase |-> "none", number |-> 0]
  /\ early = [h \in 0..MaxBest |-> -BlockAge]
  /\ bests = [c \in 0..LastTime |-> FirstBest]

TxArrives(t) ==
  /\ heard[t] = -1
  /\ heard' = [heard EXCEPT ![t] = time]
  /\ UNCHANGED <<best, time, mined, counts, mempool, blocks, misses, listing, early, bests>>

BlockArrives ==
  /\ best < MaxBest
  /\ best' = best + 1
  /\ \E taken \in SUBSET {t \in ListTxs : heard[t] # -1 /\ mined[t] = 0} :
       mined' = [t \in ListTxs |-> IF t \in taken THEN best + 1 ELSE mined[t]]
  /\ UNCHANGED <<time, heard, counts, mempool, blocks, misses, listing, early, bests>>

TimePasses ==
  /\ time < LastTime
  /\ time' = time + 1
  /\ bests' = [bests EXCEPT ![time + 1] = best]
  /\ UNCHANGED <<best, heard, mined, counts, mempool, blocks, misses, listing, early>>

\* POST /search with a number, or /block-height.
Visit(h) ==
  /\ ~FreshBlock(h)
  /\ blocks' = Keeping(h, AtHeight(h))
  /\ early' = Missing(h, AtHeight(h))
  /\ UNCHANGED <<best, time, heard, mined, counts, mempool, misses, listing, bests>>

\* The node answers that there is no such block; the chain may grow before it is kept.
VisitMisses(h) ==
  /\ ~FreshBlock(h) /\ AtHeight(h) = "missing"
  /\ misses' = misses \cup {[height |-> h, row |-> 0]}
  /\ UNCHANGED <<best, time, heard, mined, counts, mempool, blocks, listing, early, bests>>

\* The heights are asked for at once, and beside them the mempool for a list of transactions.
AskHeights(number, list, tip) ==
  LET heights == HeightsOf(list, tip) IN
  listing' = [phase |-> "blocks", number |-> number, list |-> list, tip |-> tip, heights |-> heights, at |-> time,
              rows |-> [k \in DOMAIN heights |-> IF FreshBlock(heights[k])
                                                 THEN blocks[heights[k]].answer ELSE "pending"],
              pooled |-> list.kind # "txids" \/ time < mempool.at + PoolAge,
              txids |-> IF list.kind = "txids" /\ time < mempool.at + PoolAge THEN mempool.txids ELSE {}]

AskList(list) ==
  /\ listing.phase \notin {"count", "blocks"} /\ listing.number < MaxLists
  /\ LET height == counts[SourceOf(list)] IN
     IF time < height.at + CountAge
     THEN AskHeights(listing.number + 1, list, height.height)
     ELSE listing' = [phase |-> "count", number |-> listing.number + 1, list |-> list]
  /\ UNCHANGED <<best, time, heard, mined, counts, mempool, blocks, misses, early, bests>>

HeightIs ==
  /\ listing.phase = "count"
  /\ counts' = [counts EXCEPT ![SourceOf(listing.list)] = [height |-> best, at |-> time]]
  /\ AskHeights(listing.number, listing.list, best)
  /\ UNCHANGED <<best, time, heard, mined, mempool, blocks, misses, early, bests>>

BlockIs(k) ==
  /\ listing.phase = "blocks" /\ k \in DOMAIN listing.rows /\ listing.rows[k] = "pending"
  /\ LET h == listing.heights[k] IN
     /\ listing' = [listing EXCEPT !.rows[k] = AtHeight(h)]
     /\ blocks' = Keeping(h, AtHeight(h))
     /\ early' = Missing(h, AtHeight(h))
  /\ UNCHANGED <<best, time, heard, mined, counts, mempool, misses, bests>>

BlockMisses(k) ==
  /\ listing.phase = "blocks" /\ k \in DOMAIN listing.rows /\ listing.rows[k] = "pending"
  /\ AtHeight(listing.heights[k]) = "missing"
  /\ listing' = [listing EXCEPT !.rows[k] = "coming"]
  /\ misses' = misses \cup {[height |-> listing.heights[k], row |-> k]}
  /\ UNCHANGED <<best, time, heard, mined, counts, mempool, blocks, early, bests>>

\* It comes, and is kept from then on.
MissIs(miss) ==
  /\ blocks' = Keeping(miss.height, "missing")
  /\ early' = Missing(miss.height, "missing")
  /\ misses' = misses \ {miss}
  /\ listing' = IF miss.row = 0 THEN listing ELSE [listing EXCEPT !.rows[miss.row] = "missing"]
  /\ UNCHANGED <<best, time, heard, mined, counts, mempool, bests>>

PoolIs ==
  /\ listing.phase = "blocks" /\ ~listing.pooled
  /\ LET txids == {t \in ListTxs : heard[t] # -1 /\ mined[t] = 0} IN
     /\ mempool' = [txids |-> txids, at |-> time]
     /\ listing' = [listing EXCEPT !.pooled = TRUE, !.txids = txids]
  /\ UNCHANGED <<best, time, heard, mined, counts, blocks, misses, early, bests>>

\* One call that is rejected rejects the list.
ListFails ==
  /\ listing.phase \in {"count", "blocks"}
  /\ listing' = [phase |-> "rejected", number |-> listing.number]
  /\ misses' = {[miss EXCEPT !.row = 0] : miss \in misses}
  /\ UNCHANGED <<best, time, heard, mined, counts, mempool, blocks, early, bests>>

ListResolves ==
  /\ listing.phase = "blocks" /\ listing.pooled /\ \A k \in DOMAIN listing.rows : listing.rows[k] \in {"block", "missing"}
  /\ listing' = [listing EXCEPT !.phase = "resolved"]
  /\ UNCHANGED <<best, time, heard, mined, counts, mempool, blocks, misses, early, bests>>

ListNext ==
  \/ \E t \in ListTxs : TxArrives(t)
  \/ BlockArrives \/ TimePasses
  \/ \E h \in Visited : Visit(h) \/ VisitMisses(h)
  \/ \E list \in Lists : AskList(list)
  \/ HeightIs \/ PoolIs \/ ListFails \/ ListResolves
  \/ \E k \in 1..Max(Amounts \cup Lengths \cup {MaxBest}) : BlockIs(k) \/ BlockMisses(k)
  \/ \E miss \in misses : MissIs(miss)

ListSpec == ListInit /\ [][ListNext]_listVars

-----------------------------------------------------------------------------
(* Properties *)

ListTypeOK ==
  /\ best \in FirstBest..MaxBest /\ time \in 0..LastTime
  /\ heard \in [ListTxs -> -1..LastTime] /\ mined \in [ListTxs -> 0..MaxBest]
  /\ mempool.txids \subseteq ListTxs
  /\ \A h \in DOMAIN blocks : blocks[h].answer \in {"block", "missing"} /\ blocks[h].at \in 0..time
  /\ \A miss \in misses : miss.height \in Int /\ (miss.row # 0 => listing.rows[miss.row] = "coming")
  /\ listing.phase \in {"none", "count", "blocks", "resolved", "rejected"}

\* The height an answer of the given age is about at the least.
BestBefore(age) == bests[Max({0, listing.at - age + 1})]

\* The heights a filter stands for, and those of them on the page.
Filtered(list, tip) == {h \in Lower(list.range)..tip : h <= Upper(list.range, tip)}
OnPage(list, tip) ==
  {h \in Filtered(list, tip) :
     LET above == Cardinality({g \in Filtered(list, tip) : g > h}) IN
     list.offset <= above /\ above < list.offset + PageLength(list)}

Shown == {listing.heights[k] : k \in {n \in DOMAIN listing.rows : listing.rows[n] = "block"}}
AskedEarly(h) == listing.at < early[h] + BlockAge

BlocksListed ==
  /\ listing.tip \in BestBefore(CountAge)..best
  /\ \A k \in DOMAIN listing.heights :
       LET h == listing.heights[k] IN
       /\ h > listing.tip => listing.list.kind = "oldest"
       /\ h \in 0..listing.tip /\ ~AskedEarly(h) => h \in Shown
  /\ listing.list.kind = "filter" => {listing.heights[k] : k \in DOMAIN listing.heights}
                                       = OnPage(listing.list, listing.tip)

TxidsListed ==
  \A t \in ListTxs :
    LET blocked == mined[t] # 0 /\ mined[t] \in Shown IN
    /\ t \in listing.txids /\ blocked => mined[t] > BestBefore(PoolAge)
    /\ heard[t] \in 0..(listing.at - PoolAge) /\ t \notin listing.txids /\ ~blocked =>
         mined[t] # 0 /\ (mined[t] \notin (listing.tip - listing.list.limit + 1)..listing.tip
                            \/ AskedEarly(mined[t]))

\* A list has every block of the heights asked for, up to a height that was the tip within the age
\* of what is kept, unless the height was asked for before it was mined and what the node said
\* then is still kept; a page of a filter is that part of the heights it stands for. A list of
\* transactions has each that is in the mempool or in these blocks, twice only if its block came
\* after the mempool was read (coreApi.js, getBlocksByHeight; restfulRouter.js, getBlocks and
\* getLatestTxids; session.js, renderBlockTables).
ListsAreCurrent ==
  listing.phase = "resolved" => BlocksListed /\ (listing.list.kind = "txids" => TxidsListed)
===============================================================================
