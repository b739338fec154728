--------------------------- MODULE StandaloneProofs ---------------------------
(***************************************************************************)
(* Theorems about the lists of blocks and of transactions, for any chain,  *)
(* ages and filters; and that each component of MCStandalone behaves there *)
(* as it does by itself, so that what is proved of it is true of them all. *)
(***************************************************************************)
EXTENDS MCStandalone, AddressProofs, FigureProofs

-----------------------------------------------------------------------------
(* Lists of blocks and of transactions *)

\* The heights from one downwards.
LEMMA DownHas ==
  ASSUME NEW from \in Int, NEW n \in Int
  PROVE  /\ \A k \in DOMAIN Down(from, n) : Down(from, n)[k] \in Int /\ Down(from, n)[k] <= from
         /\ {Down(from, n)[k] : k \in DOMAIN Down(from, n)} = (from - n + 1)..from
  <1> DEFINE d == Down(from, n)
             last == Max({0, n})
  <1>1. last = IF 0 >= n THEN 0 ELSE n BY MaxOfTwo
  <1>2. DOMAIN d = 1..last /\ \A k \in 1..last : d[k] = from - k + 1 BY DEF Down
  <1> HIDE DEF d, last
  <1>3. \A k \in DOMAIN d : d[k] \in Int /\ d[k] <= from BY <1>1, <1>2
  <1>4. ASSUME NEW h \in (from - n + 1)..from PROVE \E k \in DOMAIN d : h = d[k]
    <2>1. from - h + 1 \in 1..last /\ from - (from - h + 1) + 1 = h BY <1>1
    <2> QED BY <1>2, <2>1
  <1>5. ASSUME NEW k \in DOMAIN d PROVE d[k] \in (from - n + 1)..from BY <1>1, <1>2
  <1>6. {d[k] : k \in DOMAIN d} = (from - n + 1)..from BY <1>4, <1>5
  <1> QED BY <1>3, <1>6 DEF d

\* The bounds of a filter.
LEMMA FilterBounds ==
  ASSUME NEW range \in Filters, NEW top \in Nat
  PROVE  Lower(range) \in Nat /\ Upper(range, top) \in Nat /\ Upper(range, top) <= top
  <1>1. range[1] \in Nat /\ range[2] \in Nat BY ListsAssumption
  <1>2. Lower(range) \in Nat BY <1>1 DEF Lower
  <1>3. Upper(range, top) \in {Min({top, range[1]}), Min({top, range[2]}), Min({top, top})}
    <2>1. CASE range[2] # 0 BY <2>1 DEF Upper
    <2>2. CASE range[2] = 0 /\ range[1] # 0 BY <2>2 DEF Upper
    <2>3. CASE range[2] = 0 /\ range[1] = 0 BY <2>3 DEF Upper
    <2> QED BY <2>1, <2>2, <2>3
  <1>4. ASSUME NEW x \in Nat PROVE Min({top, x}) \in Nat /\ Min({top, x}) <= top BY MinOfTwo
  <1> QED BY <1>1, <1>2, <1>3, <1>4

\* A page of a filter is that part of the heights it stands for.
LEMMA FilterPages ==
  ASSUME NEW list \in Lists, list.kind = "filter", NEW top \in Nat
  PROVE  LET end == Upper(list.range, top) - list.offset
             n == Min({PageLength(list), end - Lower(list.range) + 1}) IN
         n \in Int /\ end \in Int /\ end <= top /\ OnPage(list, top) = (end - n + 1)..end
  <1> DEFINE low == Lower(list.range)
             up == Upper(list.range, top)
             length == PageLength(list)
             offset == list.offset
             end == up - offset
             n == Min({length, end - low + 1})
             F == Filtered(list, top)
  <1>1. list.range \in Filters /\ list.offset \in Nat /\ list.limit \in Int
    BY ListsAssumption DEF Lists
  <1>2. low \in Nat /\ up \in Nat /\ up <= top BY <1>1, FilterBounds
  <1>3. length \in Nat BY <1>1 DEF PageLength
  <1>4. F = low..up
    <2>1. F = {h \in low..top : h <= up} BY DEF Filtered
    <2> HIDE DEF F, low, up
    <2> QED BY <1>2, <2>1
  <1>5. OnPage(list, top) = {h \in F : LET above == Cardinality({g \in F : g > h}) IN
                                        offset <= above /\ above < offset + length}
    BY DEF OnPage
  <1> HIDE DEF low, up, length, offset, F
  <1>6. ASSUME NEW h \in F PROVE Cardinality({g \in F : g > h}) = up - h
    <2>1. {g \in F : g > h} = (h + 1)..up BY <1>2, <1>4
    <2>2. Cardinality((h + 1)..up) = IF h + 1 > up THEN 0 ELSE up - (h + 1) + 1
      BY <1>2, <1>4, FS_Interval
    <2>3. (IF h + 1 > up THEN 0 ELSE up - (h + 1) + 1) = up - h BY <1>2, <1>4
    <2> QED BY <2>1, <2>2, <2>3, Zenon
  <1>7. OnPage(list, top) = {h \in F : offset <= up - h /\ up - h < offset + length}
    BY <1>5, <1>6
  <1>8. offset \in Nat BY <1>1 DEF offset
  <1>9. n = IF length <= end - low + 1 THEN length ELSE end - low + 1
    BY <1>2, <1>3, <1>8, MinOfTwo
  <1> HIDE DEF n
  <1>10. OnPage(list, top) = (end - n + 1)..end
    BY <1>2, <1>3, <1>4, <1>7, <1>8, <1>9
  <1>11. n \in Int /\ end \in Int /\ end <= top BY <1>2, <1>3, <1>8, <1>9
  <1> QED BY <1>10, <1>11 DEF n, length, low, up, offset

\* What a list is asked for with.
LEMMA ListLimits == ASSUME NEW list \in Lists PROVE list.limit \in Int
  <1>1. CASE list \in [kind : {"table", "txids"}, limit : Amounts]
    <2>1. list.limit \in Amounts BY <1>1
    <2>2. \A n \in Amounts : n \in Int
      <3>1. Amounts \subseteq Nat BY ListsAssumption
      <3> QED BY <3>1
    <2> QED BY <2>1, <2>2
  <1>2. CASE list \in [kind : {"newest", "oldest"}, offset : Skips, limit : Lengths \cap Nat]
    BY <1>2, ListsAssumption
  <1>3. CASE list \in [kind : {"filter"}, range : Filters, offset : Skips, limit : Lengths]
    BY <1>3, ListsAssumption
  <1> QED BY <1>1, <1>2, <1>3 DEF Lists

\* The heights of a list: none is above the tip but for the first page on, the latest are all
\* there, and those of a filter are its page.
LEMMA HeightsListed ==
  ASSUME NEW list \in Lists, NEW top \in Nat
  PROVE  LET heights == HeightsOf(list, top)
             set == {heights[k] : k \in DOMAIN heights} IN
         /\ \A k \in DOMAIN heights : /\ heights[k] \in Int
                                      /\ heights[k] > top => list.kind = "oldest"
         /\ list.kind = "txids" => set = (top - list.limit + 1)..top
         /\ list.kind = "filter" => set = OnPage(list, top)
  <1> DEFINE heights == HeightsOf(list, top)
             set == {heights[k] : k \in DOMAIN heights}
  <1>1. CASE list.kind \in {"table", "txids"}
    <2>1. heights = Down(top, list.limit) BY <1>1 DEF HeightsOf
    <2>2. list.limit \in Int BY ListLimits
    <2> HIDE DEF heights
    <2>3. /\ \A k \in DOMAIN heights : heights[k] \in Int /\ heights[k] <= top
          /\ set = (top - list.limit + 1)..top
      BY <2>1, <2>2, DownHas
    <2>4. \A k \in DOMAIN heights : ~(heights[k] > top) BY <2>3
    <2> QED BY <1>1, <2>3, <2>4 DEF heights
  <1>2. CASE list.kind = "newest"
    <2> DEFINE from == top - list.offset
               n == Min({list.limit, top - list.offset + 1})
    <2>1. heights = Down(from, n) BY <1>2 DEF HeightsOf
    <2>2. list.offset \in Nat /\ list.limit \in Int BY <1>2, ListsAssumption DEF Lists
    <2>3. from \in Int /\ from <= top BY <2>2
    <2>4. n \in Int BY <2>2, MinOfTwo
    <2> HIDE DEF heights, from, n
    <2>5. \A k \in DOMAIN heights : heights[k] \in Int /\ heights[k] <= from
      BY <2>1, <2>3, <2>4, DownHas
    <2>6. \A k \in DOMAIN heights : ~(heights[k] > top) BY <2>3, <2>5
    <2> QED BY <1>2, <2>5, <2>6 DEF heights
  <1>3. CASE list.kind = "oldest"
    <2>1. heights = [k \in 1..list.limit |-> list.offset + k - 1] BY <1>3 DEF HeightsOf
    <2>2. list.offset \in Nat /\ list.limit \in Int BY <1>3, ListsAssumption DEF Lists
    <2>3. \A k \in DOMAIN heights : heights[k] \in Int BY <2>1, <2>2
    <2> QED BY <1>3, <2>3
  <1>4. CASE list.kind = "filter"
    <2> DEFINE end == Upper(list.range, top) - list.offset
               n == Min({PageLength(list), end - Lower(list.range) + 1})
    <2>1. heights = Down(end, n) BY <1>4 DEF HeightsOf
    <2>2. n \in Int /\ end \in Int /\ end <= top /\ OnPage(list, top) = (end - n + 1)..end
      BY <1>4, FilterPages
    <2> HIDE DEF heights, end, n
    <2>3. /\ \A k \in DOMAIN heights : heights[k] \in Int /\ heights[k] <= end
          /\ set = (end - n + 1)..end
      BY <2>1, <2>2, DownHas
    <2>4. \A k \in DOMAIN heights : ~(heights[k] > top) BY <2>2, <2>3
    <2> QED BY <1>4, <2>2, <2>3, <2>4 DEF heights
  <1> QED BY <1>1, <1>2, <1>3, <1>4 DEF Lists

-----------------------------------------------------------------------------
\* The height when each tick began never falls, and transactions are mined in blocks there are.
ChainOfListsInv ==
  /\ best \in FirstBest..MaxBest /\ time \in 0..LastTime
  /\ bests \in [0..LastTime -> Nat]
  /\ \A c \in 0..time : bests[c] <= best
  /\ \A c \in 0..time : \A d \in 0..c : bests[d] <= bests[c]
  /\ heard \in [ListTxs -> -1..LastTime] /\ mined \in [ListTxs -> 0..MaxBest]
  /\ \A t \in ListTxs : heard[t] <= time /\ mined[t] <= best /\ (mined[t] # 0 => heard[t] # -1)
  /\ early \in [0..MaxBest -> Int] /\ \A h \in 0..MaxBest : early[h] <= time

\* A kept height is one that was the tip when it was asked for or after.
CountsInv ==
  /\ DOMAIN counts = Sources
  /\ \A s \in Sources :
       \/ counts[s].at = -CountAge
       \/ /\ counts[s].at \in 0..time /\ counts[s].height \in Nat
          /\ bests[counts[s].at] <= counts[s].height /\ counts[s].height <= best

\* The kept mempool has what was heard before it was read and was not mined then.
KeptPoolInv ==
  /\ mempool.txids \subseteq ListTxs
  /\ \/ mempool.at = -PoolAge
     \/ /\ mempool.at \in 0..time
        /\ \A t \in mempool.txids : mined[t] = 0 \/ mined[t] > bests[mempool.at]
        /\ \A t \in ListTxs :
             heard[t] \in 0..(mempool.at - 1) /\ t \notin mempool.txids => mined[t] # 0

\* A height of which no block is kept was asked for too early, not before that was kept.
KeptBlocksInv ==
  \A h \in DOMAIN blocks :
    /\ blocks[h].at \in 0..time /\ blocks[h].answer \in {"block", "missing"}
    /\ blocks[h].answer = "missing" /\ h \in 0..MaxBest => blocks[h].at <= early[h]

\* The transactions of a list are those of the mempool within its age.
PooledInv ==
  /\ \A t \in listing.txids : mined[t] = 0 \/ mined[t] > BestBefore(PoolAge)
  /\ listing.pooled => \A t \in ListTxs :
       heard[t] \in 0..(listing.at - PoolAge) /\ t \notin listing.txids => mined[t] # 0

\* What the node says of a height.
Answered == {"block", "missing"}

\* The list that was asked for, with what is known of its heights so far.
ListingInv ==
  /\ listing.phase \in {"none", "count", "blocks", "resolved", "rejected"}
  /\ listing.phase = "count" => listing.list \in Lists
  /\ listing.phase \in {"blocks", "resolved"} =>
       /\ DOMAIN listing = {"phase", "number", "list", "tip", "heights", "at", "rows", "pooled", "txids"}
       /\ listing.list \in Lists /\ listing.at \in 0..time /\ listing.tip \in Nat
       /\ BestBefore(CountAge) <= listing.tip /\ listing.tip <= best
       /\ listing.heights = HeightsOf(listing.list, listing.tip)
       /\ DOMAIN listing.rows = DOMAIN listing.heights
       /\ \A k \in DOMAIN listing.rows :
            /\ listing.rows[k] \in Answered \cup {"pending", "coming"}
            /\ listing.rows[k] = "missing" /\ listing.heights[k] \in 0..listing.tip =>
                 AskedEarly(listing.heights[k])
            /\ listing.phase = "resolved" => listing.rows[k] \in Answered
       /\ listing.txids \subseteq ListTxs
       /\ listing.list.kind = "txids" => PooledInv /\ (listing.phase = "resolved" => listing.pooled)

\* An answer without a block that is under way goes to a row of the list that waits for it, or to
\* no list there is.
MissesInv ==
  \A miss \in misses :
    \E h, k :
      /\ h \in Int /\ miss = [height |-> h, row |-> k]
      /\ k # 0 => /\ listing.phase = "blocks" /\ k \in DOMAIN listing.rows
                  /\ listing.rows[k] = "coming" /\ listing.heights[k] = h

ListInv == ChainOfListsInv /\ CountsInv /\ KeptPoolInv /\ KeptBlocksInv /\ ListingInv /\ MissesInv

\* A list that is complete is current.
LEMMA ListsFollow == ASSUME ListInv PROVE ListsAreCurrent
  <1> SUFFICES ASSUME listing.phase = "resolved"
               PROVE  BlocksListed /\ (listing.list.kind = "txids" => TxidsListed)
    BY DEF ListsAreCurrent
  <1> DEFINE heights == listing.heights
             top == listing.tip
             list == listing.list
             set == {heights[k] : k \in DOMAIN heights}
  <1>1. /\ list \in Lists /\ listing.at \in 0..time /\ top \in Nat
        /\ BestBefore(CountAge) <= top /\ top <= best
        /\ heights = HeightsOf(list, top) /\ DOMAIN listing.rows = DOMAIN heights
        /\ \A k \in DOMAIN heights :
             /\ listing.rows[k] \in {"block", "missing"}
             /\ listing.rows[k] = "missing" /\ heights[k] \in 0..top => AskedEarly(heights[k])
        /\ list.kind = "txids" => PooledInv /\ listing.pooled
    BY DEF ListInv, ListingInv, Answered
  <1>2. /\ \A k \in DOMAIN heights : heights[k] \in Int /\ (heights[k] > top => list.kind = "oldest")
        /\ list.kind = "txids" => set = (top - list.limit + 1)..top
        /\ list.kind = "filter" => set = OnPage(list, top)
    BY <1>1, HeightsListed
  <1>3. best \in Int /\ BestBefore(CountAge) \in Int
    <2>1. time \in Nat /\ LastTime \in Nat /\ time <= LastTime /\ bests \in [0..LastTime -> Nat]
      BY ListsAssumption DEF ListInv, ChainOfListsInv
    <2> DEFINE from == listing.at - CountAge + 1
    <2>2. CountAge \in Nat \ {0} BY ListsAssumption
    <2>3. Max({0, listing.at - CountAge + 1}) \in 0..LastTime
      <3>1. from \in Int /\ from <= time BY <1>1, <2>1, <2>2
      <3> HIDE DEF from
      <3>2. Max({0, from}) \in 0..LastTime BY <2>1, <3>1, MaxOfTwo
      <3> QED BY <3>2 DEF from
    <2>4. best \in Int BY ListsAssumption DEF ListInv, ChainOfListsInv
    <2> QED BY <2>1, <2>3, <2>4 DEF BestBefore
  <1> HIDE DEF heights, top, list
  <1>4. \A k \in DOMAIN heights : listing.rows[k] = "block" => heights[k] \in Shown
    BY <1>1 DEF Shown, heights
  <1>5. \A k \in DOMAIN heights : heights[k] \in 0..top /\ ~AskedEarly(heights[k]) => heights[k] \in Shown
    BY <1>1, <1>4
  <1>6. BlocksListed
    <2>1. top \in BestBefore(CountAge)..best BY <1>1, <1>3
    <2> QED BY <1>2, <1>5, <2>1 DEF BlocksListed, heights, top, list
  <1>7. ASSUME list.kind = "txids" PROVE TxidsListed
    <2> DEFINE blocked(t) == mined[t] # 0 /\ mined[t] \in Shown
    <2>1. ASSUME NEW t \in ListTxs
          PROVE  /\ t \in listing.txids /\ blocked(t) => mined[t] > BestBefore(PoolAge)
                 /\ heard[t] \in 0..(listing.at - PoolAge) /\ t \notin listing.txids /\ ~blocked(t) =>
                      mined[t] # 0 /\ (mined[t] \notin (top - list.limit + 1)..top
                                         \/ AskedEarly(mined[t]))
      <3>1. t \in listing.txids /\ blocked(t) => mined[t] > BestBefore(PoolAge)
        BY <1>1, <1>7 DEF PooledInv
      <3>2. heard[t] \in 0..(listing.at - PoolAge) /\ t \notin listing.txids => mined[t] # 0
        BY <1>1, <1>7 DEF PooledInv
      <3>3. ASSUME mined[t] # 0, mined[t] \in (top - list.limit + 1)..top, ~AskedEarly(mined[t])
            PROVE  mined[t] \in Shown
        <4>1. mined[t] \in set BY <1>2, <1>7, <3>3
        <4>2. mined[t] \in Nat BY ListsAssumption DEF ListInv, ChainOfListsInv
        <4>3. mined[t] \in 0..top BY <1>1, <3>3, <4>2
        <4> QED BY <1>5, <3>3, <4>1, <4>3
      <3> QED BY <3>1, <3>2, <3>3
    <2> QED BY <2>1 DEF TxidsListed, top, list
  <1> QED BY <1>6, <1>7 DEF list

\* The numbers there are.
LEMMA ListNumbers ==
  ASSUME ChainOfListsInv
  PROVE  /\ time \in Nat /\ best \in Nat /\ LastTime \in Nat /\ time <= LastTime
         /\ MaxBest \in Nat /\ best <= MaxBest
         /\ \A c \in 0..time : bests[c] \in Nat /\ bests[c] <= best
         /\ \A t \in ListTxs : heard[t] \in Int /\ mined[t] \in Nat /\ heard[t] <= time /\ mined[t] <= best
         /\ \A h \in 0..MaxBest : early[h] \in Int /\ early[h] <= time
         /\ CountAge \in Nat \ {0} /\ PoolAge \in Nat \ {0} /\ BlockAge \in Nat \ {0}
  <1>1. /\ LastTime \in Nat /\ MaxBest \in Nat /\ FirstBest \in Nat
        /\ CountAge \in Nat \ {0} /\ PoolAge \in Nat \ {0} /\ BlockAge \in Nat \ {0}
    BY ListsAssumption
  <1>2. time \in Nat /\ best \in Nat /\ time <= LastTime /\ best <= MaxBest
    BY <1>1 DEF ChainOfListsInv
  <1>3. \A c \in 0..time : c \in 0..LastTime BY <1>1, <1>2
  <1>4. \A t \in ListTxs : heard[t] \in Int /\ mined[t] \in Nat BY <1>1 DEF ChainOfListsInv
  <1> QED BY <1>1, <1>2, <1>3, <1>4 DEF ChainOfListsInv

\* The tick an age goes back to is one that was.
LEMMA TickBefore ==
  ASSUME ChainOfListsInv, NEW at \in 0..time, NEW age \in Nat \ {0}
  PROVE  LET c == Max({0, at - age + 1}) IN
         /\ c \in 0..time /\ c <= at
         /\ \A a \in 0..time : at < a + age => c <= a /\ bests[c] <= bests[a]
  <1> DEFINE from == at - age + 1
             c == Max({0, from})
  <1>1. time \in Nat BY ListNumbers
  <1>2. from \in Int /\ from <= at BY <1>1
  <1>3. \A a \in 0..time : at < a + age => from <= a BY <1>1
  <1> HIDE DEF from
  <1>4. c = IF 0 >= from THEN 0 ELSE from BY <1>2, MaxOfTwo
  <1> HIDE DEF c
  <1>5. c \in 0..time /\ c <= at BY <1>1, <1>2, <1>4
  <1>6. ASSUME NEW a \in 0..time, at < a + age PROVE c <= a /\ bests[c] <= bests[a]
    <2>1. c <= a BY <1>1, <1>2, <1>3, <1>4, <1>6
    <2>2. c \in 0..a BY <1>5, <2>1
    <2> QED BY <2>1, <2>2 DEF ChainOfListsInv
  <1> QED BY <1>5, <1>6 DEF c, from

\* What was said of a list stays as the node and the clock go on.
LEMMA ListsGoOn ==
  ASSUME ListInv, ChainOfListsInv', UNCHANGED <<counts, mempool, blocks, misses, listing, early>>,
         time <= time', best <= best', \A c \in 0..time : bests'[c] = bests[c],
         \A t \in ListTxs : /\ mined'[t] = mined[t] \/ (mined[t] = 0 /\ mined'[t] > best)
                            /\ heard'[t] = heard[t] \/ heard'[t] >= time
  PROVE  ListInv'
  <1>0. ChainOfListsInv BY DEF ListInv
  <1>1. /\ time \in Nat /\ time' \in Nat /\ best \in Nat /\ best' \in Nat
        /\ \A t \in ListTxs : mined'[t] \in Nat /\ mined[t] \in Nat /\ heard[t] \in Int /\ heard'[t] \in Int
        /\ \A c \in 0..time : bests[c] \in Nat /\ bests[c] <= best
    <2>1. time' \in Nat /\ best' \in Nat /\ \A t \in ListTxs : mined'[t] \in Nat /\ heard'[t] \in Int
      BY ListsAssumption DEF ChainOfListsInv
    <2> QED BY <1>0, <2>1, ListNumbers
  <1>2. CountAge \in Nat \ {0} /\ PoolAge \in Nat \ {0} BY <1>0, ListNumbers
  <1>3. CountsInv'
    <2>1. DOMAIN counts = Sources BY DEF ListInv, CountsInv
    <2>2. ASSUME NEW s \in Sources
          PROVE  \/ counts[s].at = -CountAge
                 \/ /\ counts[s].at \in 0..time' /\ counts[s].height \in Nat
                    /\ bests'[counts[s].at] <= counts[s].height /\ counts[s].height <= best'
      <3>1. CASE counts[s].at = -CountAge BY <3>1
      <3>2. CASE /\ counts[s].at \in 0..time /\ counts[s].height \in Nat
                 /\ bests[counts[s].at] <= counts[s].height /\ counts[s].height <= best
        BY <1>1, <3>2
      <3> QED BY <3>1, <3>2 DEF ListInv, CountsInv
    <2> QED BY <2>1, <2>2 DEF CountsInv, Sources
  <1>4. KeptPoolInv'
    <2>1. mempool.txids \subseteq ListTxs BY DEF ListInv, KeptPoolInv
    <2>2. CASE mempool.at = -PoolAge BY <2>1, <2>2 DEF KeptPoolInv
    <2>3. CASE mempool.at # -PoolAge
      <3>1. /\ mempool.at \in 0..time
            /\ \A t \in mempool.txids : mined[t] = 0 \/ mined[t] > bests[mempool.at]
            /\ \A t \in ListTxs :
                 heard[t] \in 0..(mempool.at - 1) /\ t \notin mempool.txids => mined[t] # 0
        BY <2>3 DEF ListInv, KeptPoolInv
      <3>2. mempool.at \in 0..time' /\ bests'[mempool.at] = bests[mempool.at]
            /\ bests[mempool.at] <= best /\ bests[mempool.at] \in Nat
        BY <1>1, <3>1
      <3>3. \A t \in mempool.txids : mined'[t] = 0 \/ mined'[t] > bests[mempool.at]
        BY <1>1, <2>1, <3>1, <3>2
      <3>4. \A t \in ListTxs :
              heard'[t] \in 0..(mempool.at - 1) /\ t \notin mempool.txids => mined'[t] # 0
        BY <1>1, <3>1
      <3> QED BY <2>1, <3>2, <3>3, <3>4 DEF KeptPoolInv
    <2> QED BY <2>2, <2>3
  <1>5. KeptBlocksInv'
    <2>1. \A h \in DOMAIN blocks : blocks[h].at \in 0..time => blocks[h].at \in 0..time' BY <1>1
    <2> QED BY <2>1 DEF ListInv, KeptBlocksInv
  <1>6. ListingInv'
    <2>1. CASE listing.phase \notin {"blocks", "resolved"} BY <2>1 DEF ListInv, ListingInv
    <2>2. CASE listing.phase \in {"blocks", "resolved"}
      <3>1. ListingInv /\ listing.at \in 0..time BY <2>2 DEF ListInv, ListingInv
      <3>2. ASSUME NEW age \in Nat \ {0}
            PROVE  /\ BestBefore(age)' = BestBefore(age)
                   /\ BestBefore(age) \in Nat /\ BestBefore(age) <= best
        <4>1. Max({0, listing.at - age + 1}) \in 0..time BY <1>0, <3>1, TickBefore
        <4> QED BY <1>1, <4>1 DEF BestBefore
      <3>3. BestBefore(CountAge)' = BestBefore(CountAge) BY <1>2, <3>2
      <3>4. \A h : AskedEarly(h)' = AskedEarly(h) BY DEF AskedEarly
      <3>5. listing.at \in 0..time' BY <1>1, <3>1
      <3>6. listing.tip \in Nat /\ listing.tip <= best' BY <1>1, <2>2, <3>1 DEF ListingInv
      <3>7. listing.list.kind = "txids" => PooledInv'
        <4> SUFFICES ASSUME PooledInv, listing.txids \subseteq ListTxs PROVE PooledInv'
          BY <2>2, <3>1 DEF ListingInv
        <4>1. /\ BestBefore(PoolAge)' = BestBefore(PoolAge)
              /\ BestBefore(PoolAge) \in Nat /\ BestBefore(PoolAge) <= best
          BY <1>2, <3>2
        <4>2. \A t \in listing.txids : mined'[t] = 0 \/ mined'[t] > BestBefore(PoolAge)
          BY <1>1, <4>1 DEF PooledInv
        <4>3. ASSUME listing.pooled, NEW t \in ListTxs, heard'[t] \in 0..(listing.at - PoolAge),
                     t \notin listing.txids
              PROVE  mined'[t] # 0
          <5>1. heard'[t] < time BY <1>1, <1>2, <3>1, <4>3
          <5>2. heard[t] \in 0..(listing.at - PoolAge) BY <1>1, <4>3, <5>1
          <5>3. mined[t] # 0 BY <4>3, <5>2 DEF PooledInv
          <5> QED BY <5>3
        <4> QED BY <4>1, <4>2, <4>3 DEF PooledInv
      <3> QED BY <2>2, <3>1, <3>3, <3>4, <3>5, <3>6, <3>7 DEF ListingInv
    <2> QED BY <2>1, <2>2
  <1>7. MissesInv' BY DEF ListInv, MissesInv
  <1> QED BY <1>3, <1>4, <1>5, <1>6, <1>7 DEF ListInv

\* What is kept after the node was asked for a height.
LEMMA KeepingIsSound ==
  ASSUME ListInv, NEW h, NEW answer \in Answered, UNCHANGED <<time, best>>,
         blocks' = Keeping(h, answer), early' = Missing(h, answer)
  PROVE  /\ KeptBlocksInv'
         /\ early' \in [0..MaxBest -> Int]
         /\ \A g \in 0..MaxBest : early[g] <= early'[g] /\ early'[g] <= time
         /\ answer = "missing" /\ h \in 0..MaxBest => early'[h] = time
  <1>0. ChainOfListsInv /\ KeptBlocksInv BY DEF ListInv
  <1>1. /\ time \in Nat /\ best \in Nat /\ MaxBest \in Nat
        /\ \A g \in 0..MaxBest : early[g] \in Int /\ early[g] <= time
    BY <1>0, ListNumbers
  <1>2. DOMAIN early = 0..MaxBest BY <1>0 DEF ChainOfListsInv
  <1>3. /\ early' = [g \in 0..MaxBest |-> IF g = h /\ answer = "missing" THEN time ELSE early[g]]
        /\ \A g \in 0..MaxBest : early'[g] = IF g = h /\ answer = "missing" THEN time ELSE early[g]
    BY <1>2 DEF Missing
  <1>4. early' \in [0..MaxBest -> Int] BY <1>1, <1>3
  <1>5. \A g \in 0..MaxBest : early[g] <= early'[g] /\ early'[g] <= time BY <1>1, <1>3
  <1>6. KeptBlocksInv'
    <2>1. /\ DOMAIN blocks' = DOMAIN blocks \cup {h}
          /\ blocks'[h] = [answer |-> answer, at |-> time]
          /\ \A g \in DOMAIN blocks \ {h} : blocks'[g] = blocks[g]
      BY DEF Keeping
    <2>2. answer \in {"block", "missing"} BY DEF Answered
    <2>3. /\ blocks'[h].at = time /\ blocks'[h].answer = answer
      BY <2>1
    <2>4. answer = "missing" /\ h \in 0..MaxBest => early'[h] = time
      BY <1>3
    <2>5. ASSUME NEW g \in DOMAIN blocks \ {h}
          PROVE  /\ blocks'[g].at \in 0..time /\ blocks'[g].answer \in {"block", "missing"}
                 /\ blocks'[g].answer = "missing" /\ g \in 0..MaxBest => blocks'[g].at <= early'[g]
      <3>1. /\ blocks[g].at \in 0..time /\ blocks[g].answer \in {"block", "missing"}
            /\ blocks[g].answer = "missing" /\ g \in 0..MaxBest => blocks[g].at <= early[g]
        BY <1>0 DEF KeptBlocksInv
      <3>2. g \in 0..MaxBest /\ blocks[g].at \in Int /\ blocks[g].at <= early[g]
              => blocks[g].at <= early'[g]
        BY <1>1, <1>3, <1>5
      <3> QED BY <2>1, <3>1, <3>2
    <2>6. time \in 0..time BY <1>1
    <2>7. ASSUME NEW g \in DOMAIN blocks'
          PROVE  /\ blocks'[g].at \in 0..time' /\ blocks'[g].answer \in {"block", "missing"}
                 /\ blocks'[g].answer = "missing" /\ g \in 0..MaxBest => blocks'[g].at <= early'[g]
      <3>1. CASE g = h BY <1>1, <2>2, <2>3, <2>4, <2>6, <3>1
      <3>2. CASE g # h BY <2>1, <2>5, <3>2
      <3> QED BY <3>1, <3>2
    <2> QED BY <2>7 DEF KeptBlocksInv
  <1>7. answer = "missing" /\ h \in 0..MaxBest => early'[h] = time BY <1>3
  <1> QED BY <1>4, <1>5, <1>6, <1>7

\* What is kept of the chain does not depend on the list.
LEMMA ListsApart ==
  ASSUME ListInv, UNCHANGED <<best, time, heard, mined, bests>>
  PROVE  /\ UNCHANGED early => ChainOfListsInv'
         /\ (/\ early' \in [0..MaxBest -> Int]
             /\ \A g \in 0..MaxBest : early[g] <= early'[g] /\ early'[g] <= time) => ChainOfListsInv'
         /\ UNCHANGED counts => CountsInv'
         /\ UNCHANGED mempool => KeptPoolInv'
         /\ UNCHANGED <<blocks, early>> => KeptBlocksInv'
         /\ UNCHANGED misses /\ (UNCHANGED listing \/ listing.phase # "blocks") => MissesInv'
  <1>1. UNCHANGED early => ChainOfListsInv' BY DEF ListInv, ChainOfListsInv
  <1>2. (/\ early' \in [0..MaxBest -> Int]
         /\ \A g \in 0..MaxBest : early[g] <= early'[g] /\ early'[g] <= time) => ChainOfListsInv'
    BY DEF ListInv, ChainOfListsInv
  <1>3. UNCHANGED counts => CountsInv' BY DEF ListInv, CountsInv, Sources
  <1>4. UNCHANGED mempool => KeptPoolInv' BY DEF ListInv, KeptPoolInv
  <1>5. UNCHANGED <<blocks, early>> => KeptBlocksInv' BY DEF ListInv, KeptBlocksInv
  <1>6. UNCHANGED misses /\ (UNCHANGED listing \/ listing.phase # "blocks") => MissesInv'
    BY DEF ListInv, MissesInv
  <1> QED BY <1>1, <1>2, <1>3, <1>4, <1>5, <1>6

\* What a list begins with.
LEMMA AskHeightsIsSound ==
  ASSUME ListInv, UNCHANGED <<best, time, heard, mined, bests, early>>,
         NEW number, NEW list \in Lists, NEW top \in Nat, AskHeights(number, list, top),
         bests[Max({0, time - CountAge + 1})] <= top, top <= best
  PROVE  ListingInv'
  <1> DEFINE heights == HeightsOf(list, top)
             rows == [k \in DOMAIN heights |-> IF FreshBlock(heights[k])
                                               THEN blocks[heights[k]].answer ELSE "pending"]
             fresh == time < mempool.at + PoolAge
             txids == IF list.kind = "txids" /\ fresh THEN mempool.txids ELSE {}
             pooled == list.kind # "txids" \/ fresh
  <1>0. ChainOfListsInv /\ KeptPoolInv /\ KeptBlocksInv BY DEF ListInv
  <1>1. /\ time \in Nat /\ best \in Nat /\ MaxBest \in Nat /\ best <= MaxBest
        /\ \A h \in 0..MaxBest : early[h] \in Int
        /\ PoolAge \in Nat \ {0} /\ BlockAge \in Nat \ {0}
        /\ \A t \in ListTxs : heard[t] \in Int /\ mined[t] \in Nat
        /\ \A c \in 0..time : bests[c] \in Nat
    BY <1>0, ListNumbers
  <1>2. listing' = [phase |-> "blocks", number |-> number, list |-> list, tip |-> top,
                    heights |-> heights, at |-> time, rows |-> rows, pooled |-> pooled, txids |-> txids]
    BY DEF AskHeights
  <1>3. ASSUME NEW k \in DOMAIN heights
        PROVE  /\ rows[k] \in {"pending", "block", "missing"}
               /\ rows[k] = "missing" /\ heights[k] \in 0..top => time < early[heights[k]] + BlockAge
    <2> DEFINE h == heights[k]
    <2>1. rows[k] = IF FreshBlock(h) THEN blocks[h].answer ELSE "pending" OBVIOUS
    <2> HIDE DEF h, rows
    <2>2. CASE ~FreshBlock(h) BY <2>1, <2>2
    <2>3. CASE FreshBlock(h)
      <3>1. h \in DOMAIN blocks /\ time < blocks[h].at + BlockAge BY <2>3 DEF FreshBlock
      <3>2. /\ blocks[h].at \in 0..time /\ blocks[h].answer \in {"block", "missing"}
            /\ blocks[h].answer = "missing" /\ h \in 0..MaxBest => blocks[h].at <= early[h]
        BY <1>0, <3>1 DEF KeptBlocksInv
      <3>3. ASSUME rows[k] = "missing", h \in 0..top PROVE time < early[h] + BlockAge
        <4>1. h \in 0..MaxBest BY <1>1, <3>3
        <4> QED BY <1>1, <2>1, <2>3, <3>1, <3>2, <3>3, <4>1
      <3> QED BY <2>1, <2>3, <3>2, <3>3 DEF h
    <2> QED BY <2>2, <2>3 DEF h
  <1>4. txids \subseteq ListTxs BY <1>0 DEF KeptPoolInv
  <1> DEFINE c == Max({0, time - PoolAge + 1})
  <1>5. /\ c \in 0..time
        /\ \A a \in 0..time : time < a + PoolAge => c <= a /\ bests[c] <= bests[a]
    <2>1. time \in 0..time BY <1>1
    <2> QED BY <1>0, <1>1, <2>1, TickBefore
  <1> HIDE DEF c
  <1>6. ASSUME list.kind = "txids", fresh
        PROVE  /\ \A t \in txids : mined[t] = 0 \/ mined[t] > bests[c]
               /\ \A t \in ListTxs : heard[t] \in 0..(time - PoolAge) /\ t \notin txids => mined[t] # 0
    <2>1. txids = mempool.txids BY <1>6
    <2>2. mempool.at # -PoolAge BY <1>1, <1>6
    <2>3. /\ mempool.at \in 0..time /\ mempool.txids \subseteq ListTxs
          /\ \A t \in mempool.txids : mined[t] = 0 \/ mined[t] > bests[mempool.at]
          /\ \A t \in ListTxs :
               heard[t] \in 0..(mempool.at - 1) /\ t \notin mempool.txids => mined[t] # 0
      BY <1>0, <2>2 DEF KeptPoolInv
    <2>4. bests[c] <= bests[mempool.at] /\ bests[c] \in Nat /\ bests[mempool.at] \in Nat
      BY <1>1, <1>5, <1>6, <2>3
    <2>5. \A t \in ListTxs : heard[t] \in 0..(time - PoolAge) => heard[t] \in 0..(mempool.at - 1)
      BY <1>1, <1>6, <2>3
    <2> HIDE DEF txids
    <2>6. \A t \in txids : mined[t] = 0 \/ mined[t] > bests[c] BY <1>1, <2>1, <2>3, <2>4
    <2> QED BY <2>1, <2>3, <2>5, <2>6
  <1>7. ASSUME ~(list.kind = "txids" /\ fresh) PROVE txids = {} /\ (list.kind = "txids" => ~pooled)
    BY <1>7
  <1>8. DOMAIN rows = DOMAIN heights OBVIOUS
  <1>9. (list.kind # "txids" \/ fresh) <=> pooled OBVIOUS
  <1> HIDE DEF heights, rows, txids, fresh, pooled
  <1>10. /\ listing'.phase = "blocks" /\ listing'.list = list /\ listing'.tip = top
         /\ listing'.heights = heights /\ listing'.at = time /\ listing'.rows = rows
         /\ listing'.pooled = pooled /\ listing'.txids = txids
         /\ DOMAIN listing' = {"phase", "number", "list", "tip", "heights", "at", "rows", "pooled", "txids"}
    BY <1>2
  <1>11. /\ BestBefore(CountAge)' = bests[Max({0, time - CountAge + 1})]
         /\ BestBefore(PoolAge)' = bests[c]
    BY <1>10 DEF BestBefore, c
  <1>12. list.kind = "txids" => PooledInv'
    BY <1>6, <1>7, <1>9, <1>10, <1>11 DEF PooledInv
  <1>13. \A h : AskedEarly(h)' <=> time < early[h] + BlockAge BY <1>10 DEF AskedEarly
  <1>14. time \in 0..time' /\ heights = HeightsOf(list, top) BY <1>1 DEF heights
  <1> QED BY <1>3, <1>4, <1>8, <1>10, <1>11, <1>12, <1>13, <1>14 DEF ListingInv, Answered

\* A list of which something becomes known stays as it was asked for.
LEMMA ListingGoesOn ==
  ASSUME ListInv, listing.phase \in {"blocks", "resolved"}, ListingInv,
         UNCHANGED <<best, time, heard, mined, bests>>,
         \A g \in 0..MaxBest : early[g] <= early'[g], early' \in [0..MaxBest -> Int],
         listing'.phase \in {"blocks", "resolved"},
         DOMAIN listing' = DOMAIN listing, listing'.list = listing.list, listing'.tip = listing.tip,
         listing'.heights = listing.heights, listing'.at = listing.at,
         DOMAIN listing'.rows = DOMAIN listing.rows,
         \A k \in DOMAIN listing.rows :
           /\ \/ listing'.rows[k] = listing.rows[k]
              \/ /\ listing'.rows[k] \in Answered \cup {"coming"}
                 /\ listing'.rows[k] = "missing" /\ listing.heights[k] \in 0..MaxBest =>
                      early'[listing.heights[k]] = time
           /\ listing'.phase = "resolved" => listing'.rows[k] \in Answered,
         listing'.txids \subseteq ListTxs,
         listing.list.kind = "txids" =>
           PooledInv' /\ (listing'.phase = "resolved" => listing'.pooled)
  PROVE  ListingInv'
  <1>1. BestBefore(CountAge)' = BestBefore(CountAge) BY DEF BestBefore
  <1>2. ChainOfListsInv /\ listing.tip \in Nat /\ listing.tip <= best /\ listing.at \in 0..time
    BY DEF ListInv, ListingInv
  <1>3. /\ MaxBest \in Nat /\ best \in Nat /\ best <= MaxBest /\ time \in Nat /\ BlockAge \in Nat
        /\ \A h \in 0..MaxBest : early[h] \in Int /\ early'[h] \in Int
    BY <1>2, ListNumbers
  <1>4. ASSUME NEW h \in 0..listing.tip, AskedEarly(h) PROVE AskedEarly(h)'
    <2>1. h \in 0..MaxBest BY <1>2, <1>3
    <2>2. early[h] <= early'[h] /\ listing.at \in Int BY <1>2, <2>1
    <2> QED BY <1>3, <1>4, <2>1, <2>2 DEF AskedEarly
  <1>5. ASSUME NEW k \in DOMAIN listing.rows
        PROVE  /\ listing'.rows[k] \in Answered \cup {"pending", "coming"}
               /\ listing'.rows[k] = "missing" /\ listing.heights[k] \in 0..listing.tip =>
                    AskedEarly(listing.heights[k])'
               /\ listing'.phase = "resolved" => listing'.rows[k] \in Answered
    <2>1. /\ listing.rows[k] \in Answered \cup {"pending", "coming"}
          /\ listing.rows[k] = "missing" /\ listing.heights[k] \in 0..listing.tip =>
               AskedEarly(listing.heights[k])
      BY DEF ListingInv
    <2>2. CASE listing'.rows[k] = listing.rows[k] BY <1>4, <2>1, <2>2
    <2>3. CASE listing'.rows[k] # listing.rows[k]
      <3>1. /\ listing'.rows[k] \in Answered \cup {"coming"}
            /\ listing'.rows[k] = "missing" /\ listing.heights[k] \in 0..MaxBest =>
                 early'[listing.heights[k]] = time
            /\ listing'.phase = "resolved" => listing'.rows[k] \in Answered
        BY <2>3
      <3>2. ASSUME NEW h \in 0..listing.tip, listing.heights[k] = h, listing'.rows[k] = "missing"
            PROVE  listing'.at < early'[h] + BlockAge
        <4>1. h \in 0..MaxBest BY <1>2, <1>3
        <4>2. early'[h] = time /\ listing'.at \in 0..time BY <1>2, <3>1, <3>2, <4>1
        <4>3. BlockAge \in Nat \ {0} BY <1>2, ListNumbers
        <4> QED BY <1>3, <4>2, <4>3
      <3> QED BY <3>1, <3>2 DEF AskedEarly
    <2> QED BY <2>2, <2>3
  <1>6. /\ DOMAIN listing = {"phase", "number", "list", "tip", "heights", "at", "rows", "pooled", "txids"}
        /\ listing.list \in Lists /\ BestBefore(CountAge) <= listing.tip
        /\ listing.heights = HeightsOf(listing.list, listing.tip)
        /\ DOMAIN listing.rows = DOMAIN listing.heights
    BY DEF ListingInv
  <1>7. \A h : AskedEarly(h)' <=> listing.at < early'[h] + BlockAge BY DEF AskedEarly
  <1>8. \A k \in DOMAIN listing'.rows :
          /\ listing'.rows[k] \in Answered \cup {"pending", "coming"}
          /\ listing'.rows[k] = "missing" /\ listing'.heights[k] \in 0..listing'.tip =>
               listing.at < early'[listing'.heights[k]] + BlockAge
          /\ listing'.phase = "resolved" => listing'.rows[k] \in Answered
    BY <1>5, <1>7
  <1> QED BY <1>1, <1>2, <1>6, <1>7, <1>8 DEF ListingInv, AskedEarly

\* A list of which nothing becomes known stays as it is.
LEMMA ListingStays ==
  ASSUME ListInv, UNCHANGED <<best, time, heard, mined, listing, bests>>,
         \A g \in 0..MaxBest : early[g] <= early'[g], early' \in [0..MaxBest -> Int]
  PROVE  ListingInv'
  <1>1. ListingInv BY DEF ListInv
  <1>2. CASE listing.phase \notin {"blocks", "resolved"} BY <1>1, <1>2 DEF ListingInv
  <1>3. CASE listing.phase \in {"blocks", "resolved"}
    <2>1. /\ listing.txids \subseteq ListTxs
          /\ \A k \in DOMAIN listing.rows : listing.phase = "resolved" => listing.rows[k] \in Answered
          /\ listing.list.kind = "txids" => PooledInv /\ (listing.phase = "resolved" => listing.pooled)
      BY <1>1, <1>3 DEF ListingInv
    <2>2. PooledInv => PooledInv' BY DEF PooledInv, BestBefore
    <2> QED BY <1>1, <1>3, <2>1, <2>2, ListingGoesOn
  <1> QED BY <1>2, <1>3

\* Initially nothing is kept and nothing listed.
LEMMA ListsInitially == ListInit => ListInv
  <1> SUFFICES ASSUME ListInit PROVE ListInv OBVIOUS
  <1>1. /\ FirstBest \in Nat /\ MaxBest \in Nat /\ LastTime \in Nat /\ FirstBest <= MaxBest
        /\ BlockAge \in Nat
    BY ListsAssumption
  <1>2. ChainOfListsInv
    <2>1. best = FirstBest /\ time = 0 /\ bests = [c \in 0..LastTime |-> FirstBest]
          /\ heard = [t \in ListTxs |-> -1] /\ mined = [t \in ListTxs |-> 0]
          /\ early = [h \in 0..MaxBest |-> -BlockAge]
      BY DEF ListInit
    <2>2. 0 \in 0..LastTime /\ \A c \in 0..time : c \in 0..LastTime /\ bests[c] = FirstBest
      BY <1>1, <2>1
    <2>3. bests \in [0..LastTime -> Nat] BY <1>1, <2>1
    <2>4. /\ heard \in [ListTxs -> -1..LastTime] /\ mined \in [ListTxs -> 0..MaxBest]
          /\ \A t \in ListTxs : heard[t] = -1 /\ mined[t] = 0
      BY <1>1, <2>1
    <2>5. /\ early \in [0..MaxBest -> Int] /\ \A h \in 0..MaxBest : early[h] <= time
      BY <1>1, <2>1
    <2>6. \A c \in 0..time : bests[c] <= best BY <1>1, <2>1, <2>2
    <2>7. \A c \in 0..time : \A d \in 0..c : bests[d] <= bests[c]
      <3>1. \A c \in 0..time : \A d \in 0..c : d \in 0..time BY <2>1
      <3> QED BY <1>1, <2>2, <3>1
    <2>8. \A t \in ListTxs : heard[t] <= time /\ mined[t] <= best /\ mined[t] = 0
      BY <1>1, <2>1, <2>4
    <2>9. best \in FirstBest..MaxBest /\ time \in 0..LastTime BY <1>1, <2>1
    <2> QED BY <2>3, <2>4, <2>5, <2>6, <2>7, <2>8, <2>9 DEF ChainOfListsInv
  <1>3. CountsInv
    <2>1. counts = [s \in Sources |-> [height |-> 0, at |-> -CountAge]] BY DEF ListInit
    <2> QED BY <2>1 DEF CountsInv
  <1>4. KeptPoolInv BY DEF ListInit, KeptPoolInv
  <1>5. KeptBlocksInv BY DEF ListInit, KeptBlocksInv
  <1>6. ListingInv
    <2>1. listing.phase = "none" BY DEF ListInit
    <2> QED BY <2>1 DEF ListingInv
  <1>7. MissesInv BY DEF ListInit, MissesInv
  <1> QED BY <1>2, <1>3, <1>4, <1>5, <1>6, <1>7 DEF ListInv

\* A transaction enters the mempool.
LEMMA TxKeepsLists == ASSUME ListInv, NEW t \in ListTxs, TxArrives(t) PROVE ListInv'
  <1>0. ChainOfListsInv BY DEF ListInv
  <1>1. /\ heard[t] = -1 /\ heard' = [heard EXCEPT ![t] = time]
        /\ UNCHANGED <<best, time, mined, counts, mempool, blocks, misses, listing, early, bests>>
    BY DEF TxArrives
  <1>2. time \in Nat /\ LastTime \in Nat /\ time <= LastTime BY <1>0, ListNumbers
  <1>3. heard \in [ListTxs -> -1..LastTime] BY <1>0 DEF ChainOfListsInv
  <1>4. /\ \A u \in ListTxs : heard'[u] = IF u = t THEN time ELSE heard[u]
        /\ heard' \in [ListTxs -> -1..LastTime]
    BY <1>1, <1>2, <1>3
  <1>5. ChainOfListsInv' BY <1>0, <1>1, <1>2, <1>4 DEF ChainOfListsInv
  <1>6. time <= time' /\ best <= best'
    <2>1. best \in Nat BY <1>0, ListNumbers
    <2> QED BY <1>1, <1>2, <2>1
  <1>7. \A u \in ListTxs : heard'[u] = heard[u] \/ heard'[u] >= time BY <1>2, <1>4
  <1> QED BY <1>1, <1>5, <1>6, <1>7, ListsGoOn

\* A block is mined, with some of the transactions of the mempool.
LEMMA BlockKeepsLists == ASSUME ListInv, BlockArrives PROVE ListInv'
  <1>0. ChainOfListsInv BY DEF ListInv
  <1>1. /\ best < MaxBest /\ best' = best + 1
        /\ UNCHANGED <<time, heard, counts, mempool, blocks, misses, listing, early, bests>>
        /\ \E taken \in SUBSET {t \in ListTxs : heard[t] # -1 /\ mined[t] = 0} :
             mined' = [t \in ListTxs |-> IF t \in taken THEN best + 1 ELSE mined[t]]
    BY DEF BlockArrives
  <1>2. PICK taken \in SUBSET {t \in ListTxs : heard[t] # -1 /\ mined[t] = 0} :
          mined' = [t \in ListTxs |-> IF t \in taken THEN best + 1 ELSE mined[t]]
    BY <1>1
  <1>3. /\ best \in Nat /\ MaxBest \in Nat /\ time \in Nat /\ FirstBest \in Nat /\ FirstBest <= best
        /\ \A t \in ListTxs : mined[t] \in Nat /\ mined[t] <= best
        /\ \A c \in 0..time : bests[c] \in Nat /\ bests[c] <= best
    <2>1. FirstBest \in Nat BY ListsAssumption
    <2>2. FirstBest <= best BY <1>0, <2>1 DEF ChainOfListsInv
    <2> QED BY <1>0, <2>1, <2>2, ListNumbers
  <1>4. \A t \in ListTxs :
          /\ t \in taken => mined'[t] = best + 1 /\ mined[t] = 0 /\ heard[t] # -1
          /\ t \notin taken => mined'[t] = mined[t]
    BY <1>2
  <1>5. mined' \in [ListTxs -> 0..MaxBest]
    <2>1. \A t \in ListTxs : (IF t \in taken THEN best + 1 ELSE mined[t]) \in 0..MaxBest
      BY <1>0, <1>1, <1>3 DEF ChainOfListsInv
    <2> QED BY <1>2, <2>1
  <1>6. \A t \in ListTxs : mined'[t] <= best' /\ (mined'[t] # 0 => heard[t] # -1)
    BY <1>0, <1>1, <1>3, <1>4 DEF ChainOfListsInv
  <1>7. \A c \in 0..time : bests[c] <= best' BY <1>1, <1>3
  <1>8. best' \in FirstBest..MaxBest BY <1>1, <1>3
  <1>9. ChainOfListsInv' BY <1>0, <1>1, <1>5, <1>6, <1>7, <1>8 DEF ChainOfListsInv
  <1>10. \A t \in ListTxs : mined'[t] = mined[t] \/ (mined[t] = 0 /\ mined'[t] > best)
    BY <1>3, <1>4
  <1>11. time <= time' /\ best <= best' BY <1>1, <1>3
  <1> QED BY <1>1, <1>9, <1>10, <1>11, ListsGoOn

\* What is kept grows old.
LEMMA TimeKeepsLists == ASSUME ListInv, TimePasses PROVE ListInv'
  <1>0. ChainOfListsInv BY DEF ListInv
  <1>1. /\ time < LastTime /\ time' = time + 1 /\ bests' = [bests EXCEPT ![time + 1] = best]
        /\ UNCHANGED <<best, heard, mined, counts, mempool, blocks, misses, listing, early>>
    BY DEF TimePasses
  <1>2. /\ best \in Nat /\ time \in Nat /\ LastTime \in Nat
        /\ \A t \in ListTxs : heard[t] \in Int /\ heard[t] <= time
        /\ \A h \in 0..MaxBest : early[h] \in Int /\ early[h] <= time
        /\ \A c \in 0..time : bests[c] \in Nat /\ bests[c] <= best
    BY <1>0, ListNumbers
  <1>3. bests \in [0..LastTime -> Nat] BY <1>0 DEF ChainOfListsInv
  <1>4. time + 1 \in 0..LastTime BY <1>1, <1>2
  <1>5. /\ bests' \in [0..LastTime -> Nat] /\ bests'[time + 1] = best
        /\ \A c \in 0..time : bests'[c] = bests[c]
    <2>1. \A c \in 0..LastTime : bests'[c] = IF c = time + 1 THEN best ELSE bests[c]
      BY <1>1, <1>3
    <2>2. bests' \in [0..LastTime -> Nat] BY <1>1, <1>2, <1>3
    <2>3. \A c \in 0..time : c \in 0..LastTime /\ c # time + 1 BY <1>1, <1>2
    <2> QED BY <1>4, <2>1, <2>2, <2>3
  <1>6. \A c \in 0..time' : c = time + 1 \/ c \in 0..time BY <1>1, <1>2
  <1>7. \A c \in 0..time' : bests'[c] <= best BY <1>2, <1>5, <1>6
  <1>8. \A c \in 0..time' : \A d \in 0..c : bests'[d] <= bests'[c]
    <2> SUFFICES ASSUME NEW c \in 0..time', NEW d \in 0..c PROVE bests'[d] <= bests'[c] OBVIOUS
    <2>1. CASE c = time + 1
      <3>1. d \in 0..time' BY <1>1, <1>2, <2>1
      <3> QED BY <1>5, <1>7, <2>1, <3>1
    <2>2. CASE c \in 0..time
      <3>1. d \in 0..time BY <1>2, <2>2
      <3>2. bests[d] <= bests[c] BY <1>0, <2>2 DEF ChainOfListsInv
      <3> QED BY <1>5, <2>2, <3>1, <3>2
    <2> QED BY <1>6, <2>1, <2>2
  <1>9. (\A t \in ListTxs : heard[t] <= time') /\ \A h \in 0..MaxBest : early[h] <= time'
    BY <1>1, <1>2
  <1>10. time' \in 0..LastTime BY <1>1, <1>4
  <1>11. ChainOfListsInv' BY <1>0, <1>1, <1>5, <1>7, <1>8, <1>9, <1>10 DEF ChainOfListsInv
  <1>12. time <= time' /\ best <= best' BY <1>1, <1>2
  <1> QED BY <1>1, <1>5, <1>11, <1>12, ListsGoOn

\* Another page asks for a height.
LEMMA VisitKeepsLists == ASSUME ListInv, NEW h, Visit(h) PROVE ListInv'
  <1>1. /\ blocks' = Keeping(h, AtHeight(h)) /\ early' = Missing(h, AtHeight(h))
        /\ UNCHANGED <<best, time, heard, mined, counts, mempool, misses, listing, bests>>
    BY DEF Visit
  <1>2. /\ KeptBlocksInv' /\ early' \in [0..MaxBest -> Int]
        /\ \A g \in 0..MaxBest : early[g] <= early'[g] /\ early'[g] <= time
    <2>1. AtHeight(h) \in Answered BY DEF AtHeight, Answered
    <2> QED BY <1>1, <2>1, KeepingIsSound
  <1>3. ChainOfListsInv' /\ CountsInv' /\ KeptPoolInv' /\ MissesInv' BY <1>1, <1>2, ListsApart
  <1>4. ListingInv' BY <1>1, <1>2, ListingStays
  <1> QED BY <1>2, <1>3, <1>4 DEF ListInv

\* Or its answer, that there is no block, is under way.
LEMMA VisitMissesKeepsLists == ASSUME ListInv, NEW h \in Int, VisitMisses(h) PROVE ListInv'
  <1>1. /\ misses' = misses \cup {[height |-> h, row |-> 0]}
        /\ UNCHANGED <<best, time, heard, mined, counts, mempool, blocks, listing, early, bests>>
    BY DEF VisitMisses
  <1>2. ChainOfListsInv' /\ CountsInv' /\ KeptPoolInv' /\ KeptBlocksInv' BY <1>1, ListsApart
  <1>3. ListingInv' BY <1>1 DEF ListInv, ListingInv, PooledInv, BestBefore, AskedEarly
  <1>4. MissesInv' BY <1>1 DEF ListInv, MissesInv
  <1> QED BY <1>2, <1>3, <1>4 DEF ListInv

\* A list is asked for, and perhaps its height is kept.
LEMMA AskKeepsLists == ASSUME ListInv, NEW list \in Lists, AskList(list) PROVE ListInv'
  <1>1. /\ UNCHANGED <<best, time, heard, mined, counts, mempool, blocks, misses, early, bests>>
        /\ listing.phase # "blocks"
    BY DEF AskList
  <1>2. ChainOfListsInv' /\ CountsInv' /\ KeptPoolInv' /\ KeptBlocksInv' /\ MissesInv' BY <1>1, ListsApart
  <1> DEFINE counted == counts[SourceOf(list)]
  <1>3. ListingInv'
    <2>1. CASE ~(time < counted.at + CountAge)
      <3>1. listing' = [phase |-> "count", number |-> listing.number + 1, list |-> list]
        BY <2>1 DEF AskList
      <3> QED BY <3>1 DEF ListingInv
    <2>2. CASE time < counted.at + CountAge
      <3>1. AskHeights(listing.number + 1, list, counted.height) BY <2>2 DEF AskList
      <3>2. ChainOfListsInv /\ CountsInv BY DEF ListInv
      <3>3. time \in Nat /\ CountAge \in Nat \ {0} BY <3>2, ListNumbers
      <3>4. SourceOf(list) \in Sources BY DEF SourceOf, Sources
      <3> HIDE DEF counted
      <3>5. counted.at # -CountAge BY <2>2, <3>3
      <3>6. /\ counted.at \in 0..time /\ counted.height \in Nat
            /\ bests[counted.at] <= counted.height /\ counted.height <= best
        BY <3>2, <3>4, <3>5 DEF CountsInv, counted
      <3> DEFINE c == Max({0, time - CountAge + 1})
      <3>7. c \in 0..time /\ bests[c] <= bests[counted.at]
        <4>1. time \in 0..time BY <3>3
        <4> QED BY <2>2, <3>2, <3>3, <3>6, <4>1, TickBefore
      <3> HIDE DEF c
      <3>8. bests[c] <= counted.height
        <4>1. bests[c] \in Nat /\ bests[counted.at] \in Nat BY <3>2, <3>6, <3>7, ListNumbers
        <4> QED BY <3>6, <3>7, <4>1
      <3>9. AskHeights(listing.number + 1, list, counted.height) BY <3>1
      <3> QED BY <1>1, <3>6, <3>8, <3>9, AskHeightsIsSound DEF c
    <2> QED BY <2>1, <2>2
  <1> QED BY <1>2, <1>3 DEF ListInv

\* The height is answered.
LEMMA HeightKeepsLists == ASSUME ListInv, HeightIs PROVE ListInv'
  <1>1. /\ listing.phase = "count"
        /\ counts' = [counts EXCEPT ![SourceOf(listing.list)] = [height |-> best, at |-> time]]
        /\ AskHeights(listing.number, listing.list, best)
        /\ UNCHANGED <<best, time, heard, mined, mempool, blocks, misses, early, bests>>
    BY DEF HeightIs
  <1>2. ChainOfListsInv /\ CountsInv /\ listing.list \in Lists BY <1>1 DEF ListInv, ListingInv
  <1>3. /\ time \in Nat /\ best \in Nat /\ CountAge \in Nat \ {0}
        /\ \A c \in 0..time : bests[c] \in Nat /\ bests[c] <= best
    BY <1>2, ListNumbers
  <1>4. ChainOfListsInv' /\ KeptPoolInv' /\ KeptBlocksInv' /\ MissesInv' BY <1>1, ListsApart
  <1>5. CountsInv'
    <2> DEFINE src == SourceOf(listing.list)
    <2>1. src \in Sources /\ DOMAIN counts = Sources BY <1>2 DEF SourceOf, Sources, CountsInv
    <2> HIDE DEF src
    <2>2. /\ DOMAIN counts' = Sources
          /\ counts'[src] = [height |-> best, at |-> time]
          /\ \A s \in Sources \ {src} : counts'[s] = counts[s]
      BY <1>1, <2>1 DEF src
    <2>3. counts'[src].height = best /\ counts'[src].at = time BY <2>2
    <2>4. time \in 0..time /\ bests[time] <= best BY <1>3
    <2>5. ASSUME NEW s \in Sources
          PROVE  \/ counts'[s].at = -CountAge
                 \/ /\ counts'[s].at \in 0..time /\ counts'[s].height \in Nat
                    /\ bests[counts'[s].at] <= counts'[s].height /\ counts'[s].height <= best
      <3>1. CASE s = src BY <1>3, <2>3, <2>4, <3>1
      <3>2. CASE s # src BY <1>2, <2>2, <3>2 DEF CountsInv
      <3> QED BY <3>1, <3>2
    <2> QED BY <1>1, <2>2, <2>5 DEF CountsInv, Sources
  <1>6. ListingInv'
    <2> DEFINE c == Max({0, time - CountAge + 1})
    <2>1. c \in 0..time
      <3>1. time \in 0..time BY <1>3
      <3> QED BY <1>2, <1>3, <3>1, TickBefore
    <2> HIDE DEF c
    <2>2. bests[c] <= best /\ best <= best BY <1>3, <2>1
    <2> QED BY <1>1, <1>2, <1>3, <2>2, AskHeightsIsSound DEF c
  <1> QED BY <1>4, <1>5, <1>6 DEF ListInv

\* A row of the list changes, from one that waits to what becomes known of it.
LEMMA RowKeepsListing ==
  ASSUME ListInv, NEW k, NEW row \in Answered \cup {"coming"},
         listing.phase = "blocks", k \in DOMAIN listing.rows,
         listing' = [listing EXCEPT !.rows[k] = row],
         UNCHANGED <<best, time, heard, mined, bests>>,
         early' \in [0..MaxBest -> Int], \A g \in 0..MaxBest : early[g] <= early'[g],
         row = "missing" /\ listing.heights[k] \in 0..MaxBest => early'[listing.heights[k]] = time
  PROVE  /\ ListingInv' /\ listing'.phase = "blocks" /\ listing'.heights = listing.heights
         /\ DOMAIN listing'.rows = DOMAIN listing.rows /\ listing'.rows[k] = row
         /\ \A j \in DOMAIN listing.rows \ {k} : listing'.rows[j] = listing.rows[j]
  <1>1. ListingInv BY DEF ListInv
  <1>2. /\ listing'.phase = listing.phase /\ listing'.list = listing.list /\ listing'.tip = listing.tip
        /\ listing'.heights = listing.heights /\ listing'.at = listing.at
        /\ listing'.txids = listing.txids /\ listing'.pooled = listing.pooled
        /\ DOMAIN listing' = DOMAIN listing
        /\ listing'.rows = [listing.rows EXCEPT ![k] = row]
    BY <1>1 DEF ListingInv
  <1>3. /\ DOMAIN listing'.rows = DOMAIN listing.rows
        /\ listing'.rows[k] = row
        /\ \A j \in DOMAIN listing.rows \ {k} : listing'.rows[j] = listing.rows[j]
    BY <1>2
  <1>4. \A j \in DOMAIN listing.rows :
          \/ listing'.rows[j] = listing.rows[j]
          \/ /\ listing'.rows[j] \in Answered \cup {"coming"}
             /\ listing'.rows[j] = "missing" /\ listing.heights[j] \in 0..MaxBest =>
                  early'[listing.heights[j]] = time
    BY <1>3
  <1>5. /\ listing.txids \subseteq ListTxs
        /\ listing.list.kind = "txids" => PooledInv /\ (listing.phase = "resolved" => listing.pooled)
    BY <1>1 DEF ListingInv
  <1>6. PooledInv => PooledInv' BY <1>2 DEF PooledInv, BestBefore
  <1>7. ListingInv' BY <1>1, <1>2, <1>3, <1>4, <1>5, <1>6, ListingGoesOn
  <1> QED BY <1>2, <1>3, <1>7

\* A height of the list is answered.
LEMMA BlockIsKeepsLists == ASSUME ListInv, NEW k, BlockIs(k) PROVE ListInv'
  <1> DEFINE h == listing.heights[k]
             row == AtHeight(h)
  <1>1. /\ listing.phase = "blocks" /\ k \in DOMAIN listing.rows /\ listing.rows[k] = "pending"
        /\ listing' = [listing EXCEPT !.rows[k] = row]
        /\ blocks' = Keeping(h, row) /\ early' = Missing(h, row)
        /\ UNCHANGED <<best, time, heard, mined, counts, mempool, misses, bests>>
    BY DEF BlockIs
  <1>2. row \in Answered BY DEF AtHeight, Answered
  <1> HIDE DEF h, row
  <1>3. /\ KeptBlocksInv' /\ early' \in [0..MaxBest -> Int]
        /\ \A g \in 0..MaxBest : early[g] <= early'[g] /\ early'[g] <= time
        /\ row = "missing" /\ h \in 0..MaxBest => early'[h] = time
    BY <1>1, <1>2, KeepingIsSound
  <1>4. ChainOfListsInv' /\ CountsInv' /\ KeptPoolInv' BY <1>1, <1>3, ListsApart
  <1>5. /\ ListingInv' /\ listing'.phase = "blocks" /\ listing'.heights = listing.heights
        /\ DOMAIN listing'.rows = DOMAIN listing.rows
        /\ \A j \in DOMAIN listing.rows \ {k} : listing'.rows[j] = listing.rows[j]
    BY <1>1, <1>2, <1>3, RowKeepsListing DEF h
  <1>6. MissesInv'
    <2>1. MissesInv BY DEF ListInv
    <2> QED BY <1>1, <1>5, <2>1 DEF MissesInv
  <1> QED BY <1>3, <1>4, <1>5, <1>6 DEF ListInv

\* The answer that there is no such block is under way.
LEMMA BlockMissesKeepsLists == ASSUME ListInv, NEW k, BlockMisses(k) PROVE ListInv'
  <1>1. /\ listing.phase = "blocks" /\ k \in DOMAIN listing.rows /\ listing.rows[k] = "pending"
        /\ listing' = [listing EXCEPT !.rows[k] = "coming"]
        /\ misses' = misses \cup {[height |-> listing.heights[k], row |-> k]}
        /\ UNCHANGED <<best, time, heard, mined, counts, mempool, blocks, early, bests>>
    BY DEF BlockMisses
  <1>2. ChainOfListsInv /\ ListingInv /\ MissesInv BY DEF ListInv
  <1>3. early' \in [0..MaxBest -> Int] /\ \A g \in 0..MaxBest : early[g] <= early'[g]
    <2>1. \A g \in 0..MaxBest : early[g] \in Int BY <1>2, ListNumbers
    <2> QED BY <1>1, <1>2, <2>1 DEF ChainOfListsInv
  <1>4. ChainOfListsInv' /\ CountsInv' /\ KeptPoolInv' /\ KeptBlocksInv' BY <1>1, ListsApart
  <1>5. /\ ListingInv' /\ listing'.phase = "blocks" /\ listing'.heights = listing.heights
        /\ DOMAIN listing'.rows = DOMAIN listing.rows /\ listing'.rows[k] = "coming"
        /\ \A j \in DOMAIN listing.rows \ {k} : listing'.rows[j] = listing.rows[j]
    <2>1. "coming" \in Answered \cup {"coming"} /\ "coming" # "missing" OBVIOUS
    <2> QED BY <1>1, <1>3, <2>1, RowKeepsListing
  <1>6. listing.heights[k] \in Int
    <2>1. /\ listing.list \in Lists /\ listing.tip \in Nat /\ listing.heights = HeightsOf(listing.list, listing.tip)
          /\ DOMAIN listing.rows = DOMAIN listing.heights
      BY <1>1, <1>2 DEF ListingInv
    <2>2. \A j \in DOMAIN listing.heights : listing.heights[j] \in Int BY <2>1, HeightsListed
    <2> QED BY <1>1, <2>1, <2>2
  <1>7. MissesInv'
    <2> SUFFICES ASSUME NEW miss \in misses'
                 PROVE  \E g, j :
                          /\ g \in Int /\ miss = [height |-> g, row |-> j]
                          /\ j # 0 => /\ listing'.phase = "blocks" /\ j \in DOMAIN listing'.rows
                                      /\ listing'.rows[j] = "coming" /\ listing'.heights[j] = g
      BY DEF MissesInv
    <2>1. CASE miss \in misses
      <3>1. PICK g, j :
              /\ g \in Int /\ miss = [height |-> g, row |-> j]
              /\ j # 0 => /\ listing.phase = "blocks" /\ j \in DOMAIN listing.rows
                          /\ listing.rows[j] = "coming" /\ listing.heights[j] = g
        BY <1>2, <2>1 DEF MissesInv
      <3>2. j # 0 => listing'.rows[j] = "coming" BY <1>5, <3>1
      <3> QED BY <1>5, <3>1, <3>2
    <2>2. CASE miss = [height |-> listing.heights[k], row |-> k]
      <3>1. k \in DOMAIN listing'.rows /\ listing'.heights[k] = listing.heights[k] BY <1>1, <1>5
      <3> QED BY <1>5, <1>6, <2>2, <3>1
    <2> QED BY <1>1, <2>1, <2>2
  <1> QED BY <1>4, <1>5, <1>7 DEF ListInv

\* And comes: it is kept from then on.
LEMMA MissIsKeepsLists == ASSUME ListInv, NEW miss \in misses, MissIs(miss) PROVE ListInv'
  <1>1. MissesInv /\ ListingInv /\ ChainOfListsInv BY DEF ListInv
  <1>2. PICK h, k :
          /\ h \in Int /\ miss = [height |-> h, row |-> k]
          /\ k # 0 => /\ listing.phase = "blocks" /\ k \in DOMAIN listing.rows
                      /\ listing.rows[k] = "coming" /\ listing.heights[k] = h
    BY <1>1 DEF MissesInv
  <1>3. /\ blocks' = Keeping(h, "missing") /\ early' = Missing(h, "missing")
        /\ misses' = misses \ {miss}
        /\ listing' = IF k = 0 THEN listing ELSE [listing EXCEPT !.rows[k] = "missing"]
        /\ UNCHANGED <<best, time, heard, mined, counts, mempool, bests>>
    BY <1>2 DEF MissIs
  <1>4. "missing" \in Answered BY DEF Answered
  <1>5. /\ KeptBlocksInv' /\ early' \in [0..MaxBest -> Int]
        /\ \A g \in 0..MaxBest : early[g] <= early'[g] /\ early'[g] <= time
        /\ h \in 0..MaxBest => early'[h] = time
    BY <1>3, <1>4, KeepingIsSound
  <1>6. ChainOfListsInv' /\ CountsInv' /\ KeptPoolInv' BY <1>3, <1>5, ListsApart
  <1>7. CASE k = 0
    <2>1. UNCHANGED listing BY <1>3, <1>7
    <2>2. misses' \subseteq misses BY <1>3
    <2>3. MissesInv' BY <1>1, <2>1, <2>2 DEF MissesInv
    <2>4. ListingInv' BY <1>1, <1>3, <1>5, <2>1, ListingStays
    <2> QED BY <1>5, <1>6, <2>3, <2>4 DEF ListInv
  <1>8. CASE k # 0
    <2>1. /\ listing.phase = "blocks" /\ k \in DOMAIN listing.rows /\ listing.heights[k] = h
          /\ listing' = [listing EXCEPT !.rows[k] = "missing"]
      BY <1>2, <1>3, <1>8
    <2>2. /\ ListingInv' /\ listing'.phase = "blocks" /\ listing'.heights = listing.heights
          /\ DOMAIN listing'.rows = DOMAIN listing.rows
          /\ \A j \in DOMAIN listing.rows \ {k} : listing'.rows[j] = listing.rows[j]
      BY <1>3, <1>4, <1>5, <2>1, RowKeepsListing
    <2>3. MissesInv'
      <3> SUFFICES ASSUME NEW m \in misses \ {miss}
                   PROVE  \E g, j :
                            /\ g \in Int /\ m = [height |-> g, row |-> j]
                            /\ j # 0 => /\ listing'.phase = "blocks" /\ j \in DOMAIN listing'.rows
                                        /\ listing'.rows[j] = "coming" /\ listing'.heights[j] = g
        BY <1>3 DEF MissesInv
      <3>1. PICK g, j :
              /\ g \in Int /\ m = [height |-> g, row |-> j]
              /\ j # 0 => /\ listing.phase = "blocks" /\ j \in DOMAIN listing.rows
                          /\ listing.rows[j] = "coming" /\ listing.heights[j] = g
        BY <1>1 DEF MissesInv
      <3>2. j = k => m = miss BY <1>2, <1>8, <3>1
      <3>3. j # k BY <3>2
      <3> QED BY <2>2, <3>1, <3>3
    <2> QED BY <1>5, <1>6, <2>2, <2>3 DEF ListInv
  <1> QED BY <1>7, <1>8

\* The mempool is answered.
LEMMA PoolKeepsLists == ASSUME ListInv, PoolIs PROVE ListInv'
  <1> DEFINE txids == {t \in ListTxs : heard[t] # -1 /\ mined[t] = 0}
  <1>1. /\ listing.phase = "blocks" /\ ~listing.pooled
        /\ mempool' = [txids |-> txids, at |-> time]
        /\ listing' = [listing EXCEPT !.pooled = TRUE, !.txids = txids]
        /\ UNCHANGED <<best, time, heard, mined, counts, blocks, misses, early, bests>>
    BY DEF PoolIs
  <1>2. /\ \A t \in txids : t \in ListTxs /\ mined[t] = 0
        /\ \A t \in ListTxs : t \notin txids /\ heard[t] # -1 => mined[t] # 0
        /\ txids \subseteq ListTxs
    OBVIOUS
  <1> HIDE DEF txids
  <1>3. ListingInv /\ ChainOfListsInv BY DEF ListInv
  <1>4. /\ time \in Nat /\ PoolAge \in Nat \ {0} /\ \A t \in ListTxs : heard[t] \in Int
        /\ \A g \in 0..MaxBest : early[g] \in Int
    BY <1>3, ListNumbers
  <1>5. ChainOfListsInv' /\ CountsInv' /\ KeptBlocksInv' BY <1>1, ListsApart
  <1>6. KeptPoolInv'
    <2>1. mempool'.txids = txids /\ mempool'.at = time BY <1>1
    <2>2. time \in 0..time BY <1>4
    <2>3. \A t \in ListTxs : heard[t] \in 0..(time - 1) /\ t \notin txids => mined[t] # 0
      BY <1>2, <1>4
    <2> QED BY <1>1, <1>2, <2>1, <2>2, <2>3 DEF KeptPoolInv
  <1>7. /\ listing'.phase = listing.phase /\ listing'.list = listing.list /\ listing'.tip = listing.tip
        /\ listing'.heights = listing.heights /\ listing'.at = listing.at
        /\ listing'.txids = txids /\ listing'.rows = listing.rows
        /\ DOMAIN listing' = DOMAIN listing
    BY <1>1, <1>3 DEF ListingInv
  <1>8. PooledInv'
    <2>1. \A t \in ListTxs : heard[t] \in 0..(listing.at - PoolAge) /\ t \notin txids => mined[t] # 0
      BY <1>2, <1>4
    <2> QED BY <1>1, <1>2, <1>7, <2>1 DEF PooledInv
  <1>9. \A g \in 0..MaxBest : early[g] <= early'[g] BY <1>1, <1>4
  <1>10. early' \in [0..MaxBest -> Int] BY <1>1, <1>3 DEF ChainOfListsInv
  <1>11. ListingInv'
    BY <1>1, <1>2, <1>3, <1>7, <1>8, <1>9, <1>10, ListingGoesOn
  <1>12. MissesInv' BY <1>1, <1>7 DEF ListInv, MissesInv
  <1> QED BY <1>5, <1>6, <1>11, <1>12 DEF ListInv

\* A list is resolved or rejected.
LEMMA EndKeepsLists ==
  ASSUME ListInv, ListFails \/ ListResolves \/ UNCHANGED listVars
  PROVE  ListInv'
  <1>1. UNCHANGED <<best, time, heard, mined, counts, mempool, blocks, early, bests>>
    BY DEF ListFails, ListResolves, listVars
  <1>2. ChainOfListsInv' /\ CountsInv' /\ KeptPoolInv' /\ KeptBlocksInv' BY <1>1, ListsApart
  <1>3. ListingInv /\ ChainOfListsInv BY DEF ListInv
  <1>4. ListingInv'
    <2>1. CASE ListFails
      <3>1. listing'.phase = "rejected" BY <2>1 DEF ListFails
      <3> QED BY <3>1 DEF ListingInv
    <2>2. CASE UNCHANGED listVars
      <3>1. UNCHANGED listing BY <2>2 DEF listVars
      <3> QED BY <1>1, <1>3, <3>1 DEF ListingInv, PooledInv, BestBefore, AskedEarly
    <2>3. CASE ListResolves
      <3>1. /\ listing.phase = "blocks" /\ listing.pooled
            /\ \A k \in DOMAIN listing.rows : listing.rows[k] \in {"block", "missing"}
            /\ listing' = [listing EXCEPT !.phase = "resolved"]
        BY <2>3 DEF ListResolves
      <3>2. /\ listing'.phase = "resolved" /\ listing'.list = listing.list /\ listing'.tip = listing.tip
            /\ listing'.heights = listing.heights /\ listing'.at = listing.at
            /\ listing'.txids = listing.txids /\ listing'.rows = listing.rows
            /\ listing'.pooled = listing.pooled /\ DOMAIN listing' = DOMAIN listing
        BY <1>3, <3>1 DEF ListingInv
      <3>3. \A g \in 0..MaxBest : early[g] <= early'[g]
        <4>1. \A g \in 0..MaxBest : early[g] \in Int BY <1>3, ListNumbers
        <4> QED BY <1>1, <4>1
      <3>4. early' \in [0..MaxBest -> Int] BY <1>1, <1>3 DEF ChainOfListsInv
      <3>5. listing.txids \subseteq ListTxs /\ (listing.list.kind = "txids" => PooledInv)
        BY <1>3, <3>1 DEF ListingInv
      <3>6. PooledInv => PooledInv' BY <1>1, <3>2 DEF PooledInv, BestBefore
      <3> QED BY <1>1, <1>3, <3>1, <3>2, <3>3, <3>4, <3>5, <3>6, ListingGoesOn DEF Answered
    <2> QED BY <2>1, <2>2, <2>3
  <1>5. MissesInv'
    <2>1. MissesInv BY DEF ListInv
    <2>2. CASE ListFails
      <3>1. misses' = {[miss EXCEPT !.row = 0] : miss \in misses} BY <2>2 DEF ListFails
      <3>2. \A miss \in misses : \E h, k : h \in Int /\ miss = [height |-> h, row |-> k] BY <2>1 DEF MissesInv
      <3>3. \A h \in Int : \A k : [[height |-> h, row |-> k] EXCEPT !.row = 0] = [height |-> h, row |-> 0]
        OBVIOUS
      <3>4. \A m \in misses' : \E h \in Int : m = [height |-> h, row |-> 0] BY <3>1, <3>2, <3>3
      <3> QED BY <3>4 DEF MissesInv
    <2>3. CASE UNCHANGED listVars
      <3>1. UNCHANGED <<misses, listing>> BY <2>3 DEF listVars
      <3> QED BY <2>1, <3>1 DEF MissesInv
    <2>4. CASE ListResolves
      <3>1. UNCHANGED misses /\ \A k \in DOMAIN listing.rows : listing.rows[k] # "coming"
        BY <2>4 DEF ListResolves
      <3>2. \A miss \in misses : \E h \in Int : miss = [height |-> h, row |-> 0] BY <2>1, <3>1 DEF MissesInv
      <3> QED BY <3>1, <3>2 DEF MissesInv
    <2> QED BY <2>2, <2>3, <2>4
  <1> QED BY <1>2, <1>4, <1>5 DEF ListInv

\* Every step keeps the invariant of the lists.
LEMMA ListStep == ASSUME ListInv, [ListNext]_listVars PROVE ListInv'
  <1>1. CASE \E t \in ListTxs : TxArrives(t) BY <1>1, TxKeepsLists
  <1>2. CASE \E h \in Visited : Visit(h) BY <1>2, VisitKeepsLists
  <1>3. CASE \E list \in Lists : AskList(list) BY <1>3, AskKeepsLists
  <1>4. CASE \E k : BlockIs(k) BY <1>4, BlockIsKeepsLists
  <1>5. CASE \E h \in Visited : VisitMisses(h)
    <2>1. Visited \subseteq Int BY ListsAssumption
    <2> QED BY <1>5, <2>1, VisitMissesKeepsLists
  <1>6. CASE \E k : BlockMisses(k) BY <1>6, BlockMissesKeepsLists
  <1>7. CASE \E miss \in misses : MissIs(miss) BY <1>7, MissIsKeepsLists
  <1> QED
    BY <1>1, <1>2, <1>3, <1>4, <1>5, <1>6, <1>7, BlockKeepsLists, TimeKeepsLists, HeightKeepsLists, PoolKeepsLists,
       EndKeepsLists DEF ListNext

\* Lists of blocks and transactions are current, for any chain, any lists and pages, and any ages
\* of what is kept.
THEOREM ListsStayCurrent == ListSpec => []ListsAreCurrent
  <1>1. ListInv => ListsAreCurrent BY ListsFollow
  <1> QED BY <1>1, ListsInitially, ListStep, PTL DEF ListSpec

\* Every variable of the lists keeps its type.
THEOREM ListsAreTyped == ListSpec => []ListTypeOK
  <1>1. ListInv => ListTypeOK
    <2> SUFFICES ASSUME ListInv PROVE ListTypeOK OBVIOUS
    <2>1. ChainOfListsInv /\ KeptPoolInv /\ KeptBlocksInv /\ ListingInv /\ MissesInv BY DEF ListInv
    <2>2. \A miss \in misses : miss.height \in Int /\ (miss.row # 0 => listing.rows[miss.row] = "coming")
      BY <2>1 DEF MissesInv
    <2> QED BY <2>1, <2>2 DEF ChainOfListsInv, KeptPoolInv, KeptBlocksInv, ListingInv, ListTypeOK
  <1> QED BY <1>1, ListsInitially, ListStep, PTL DEF ListSpec

-----------------------------------------------------------------------------
(* The components together *)

\* Each component begins as it does by itself.
LEMMA PartsBegin ==
  ASSUME Init
  PROVE  MempoolInit /\ ChainInit /\ CoinInit /\ MinerInit /\ AssetInit /\ AddressInit /\ SyncInit /\ ListInit
  BY DEF Init

\* A step of one is a step the others rest in.
LEMMA PartsStep ==
  ASSUME [Next]_standaloneVars
  PROVE  /\ [MempoolNext]_mempoolVars /\ [ChainNext]_chainVars /\ [CoinNext]_coinVars
         /\ [MinerNext]_minerVars /\ [AssetNext]_assetVars /\ [AddressNext]_addressVars
         /\ [SyncNext]_syncVars /\ [ListNext]_listVars
  BY DEF Next, standaloneVars

\* In the composition that TLC explores every component behaves as its own specification says, the
\* sync with its fairness: what is proved of a component is true of the composition, and no step of
\* one disturbs another.
THEOREM PartsBehaveAsAlone ==
  FairSpec => /\ MempoolSpec /\ ChainSpec /\ CoinSpec /\ MinerSpec
              /\ AssetSpec /\ AddressSpec /\ SyncSpec /\ ListSpec
  BY PartsBegin, PartsStep, PTL
     DEF FairSpec, Spec, MempoolSpec, ChainSpec, CoinSpec, MinerSpec, AssetSpec, AddressSpec, SyncSpec, ListSpec

\* Every variable of every component keeps its type.
THEOREM StandaloneIsTyped == FairSpec => []TypeOK
  BY PartsBehaveAsAlone, SummaryIsTyped, ChartsAreTyped, FiguresAreTyped, SearchIsTyped,
     AssetPagesAreTyped, AddressesAreTyped, SyncsAreTyped, ListsAreTyped, PTL DEF TypeOK

\* And what is claimed of each of them holds side by side: of the summary of the mempool, of charts,
\* fees and locked coins, of the search for a miner, of pages, of details, of the sync and of lists.
THEOREM StandaloneIsCorrect ==
  FairSpec => /\ [](BreakdownsCoverEntries /\ FeesAddUp)
              /\ [](PointsNearCounts /\ FeesAreClaimed /\ LockedIsComplete)
              /\ [](MinerIsExact /\ PageIsSlice /\ DetailsAreComplete /\ ListsAreCurrent)
              /\ []ReceiversAreSaved /\ RecordsOnlyGrow
  BY PartsBehaveAsAlone, BreakdownsAreComplete, SummaryFeesAddUp, ChartsAreNear, FeesAreWhatIsClaimed,
     LockedCoinsAddUp, MinersAreExact, PagesAreSlices, DetailsArePages, ListsStayCurrent, SavesMissNothing,
     RecordsGrow, PTL
===============================================================================
