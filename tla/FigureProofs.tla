----------------------------- MODULE FigureProofs -----------------------------
(***************************************************************************)
(* Theorems about the figures the explorer works out: the miner of a       *)
(* block, the points of the chart of transactions, the fees of a block,    *)
(* the locked coins, the summary of the mempool and the masternodes that   *)
(* are reachable, for any data, any ages and any bounds.                   *)
(***************************************************************************)
EXTENDS MinerSearch, ChainStats, CoinFigures, MempoolStats, Reachability, DataInduction

\* The larger and the smaller of two numbers.
LEMMA MaxOfTwo ==
  ASSUME NEW a \in Int, NEW b \in Int
  PROVE  Max({a, b}) = IF a >= b THEN a ELSE b
  BY DEF Max

LEMMA MinOfTwo ==
  ASSUME NEW a \in Int, NEW b \in Int
  PROVE  Min({a, b}) = IF a <= b THEN a ELSE b
  BY DEF Min

-----------------------------------------------------------------------------
(* MinerSearch *)

\* The files and outputs are sequences, and a search goes through the files there are.
SearchTypeInv ==
  /\ files \in Seq(File) /\ pools \in {<<>>, files}
  /\ coinbase.outputs \in Seq(SUBSET PayoutAddresses)
  /\ index \in Nat /\ busy \in BOOLEAN
  /\ busy => over = pools

First(n) == Names(n) /\ (\A k \in 1..(n - 1) : ~Names(k)) /\ ~Behind(n)

\* The search has not gone past the file that names the miner, unless the index was moved.
AheadInv == busy => \A n \in 1..Len(over) : First(n) => index < n

SearchInv == SearchTypeInv /\ AheadInv /\ MinerIsExact

-----------------------------------------------------------------------------
\* What is bounded in length is a sequence.
LEMMA BoundedIsSeq ==
  ASSUME NEW S, NEW n, NEW s \in BoundedSeq(S, n)
  PROVE  s \in Seq(S)
  <1>1. PICK m \in 0..n : s \in [1..m -> S]
    BY DEF BoundedSeq, SeqOf
  <1> QED BY <1>1

\* A file names the miner if it names one by its address or by its tag.
LEMMA NamedIsNames ==
  ASSUME NEW n, over = pools
  PROVE  /\ Named(pools[n]) # "none" <=> Names(n)
         /\ Named(pools[n]) # "none" =>
              Named(pools[n]) = IF Pays(over[n]) THEN "address" ELSE "tag"
  BY DEF Named, Names

\* Initially nothing was searched.
LEMMA SearchInitially == MinerInit => SearchInv
  <1> SUFFICES ASSUME MinerInit PROVE SearchInv OBVIOUS
  <1>1. files \in Seq(File) BY BoundedIsSeq DEF MinerInit
  <1>2. coinbase.outputs = <<>> BY DEF MinerInit, NoCoinbase
  <1>3. coinbase.outputs \in Seq(SUBSET PayoutAddresses) BY <1>2
  <1>4. SearchTypeInv BY <1>1, <1>3 DEF MinerInit, SearchTypeInv
  <1>5. AheadInv /\ MinerIsExact BY DEF MinerInit, AheadInv, MinerIsExact
  <1> QED BY <1>4, <1>5 DEF SearchInv

\* What a search looks at does not change while nothing is searched.
LEMMA RestingSteps ==
  ASSUME SearchInv, UNCHANGED <<files, coinbase, busy, index, miner, over>>,
         pools' \in {files, pools}, busy => UNCHANGED pools
  PROVE  SearchInv'
  <1>1. SearchTypeInv' BY DEF SearchInv, SearchTypeInv
  <1>2. AheadInv' BY DEF SearchInv, AheadInv, First, Names, Pays, Tagged, Behind
  <1>3. MinerIsExact' BY DEF SearchInv, MinerIsExact, Names, Pays, Tagged, Behind
  <1> QED BY <1>1, <1>2, <1>3 DEF SearchInv

\* One file: it names the miner and is the first that does, or the index goes on, or is moved
\* past files that are then behind.
LEMMA ExamineSteps ==
  ASSUME SearchInv, Examine
  PROVE  SearchInv'
  <1> DEFINE here == index + 1
  <1>1. /\ busy /\ index < Len(pools) /\ over = pools
        /\ index \in Nat /\ Len(pools) \in Nat /\ here \in 1..Len(over)
        /\ UNCHANGED <<files, pools, coinbase, over>>
    BY DEF SearchInv, SearchTypeInv, Examine
  <1>2. \A n : /\ First(n)' <=> First(n)
               /\ Names(n)' <=> Names(n)
               /\ Pays(over[n])' <=> Pays(over[n])
               /\ Behind(n)' <=> Behind(n)
    BY <1>1 DEF First, Names, Pays, Tagged, Behind
  <1>3. CASE Named(pools[here]) = "none"
    <2>1. index' = After(here) /\ busy' = busy /\ miner' = miner BY <1>3 DEF Examine
    <2>2. ~Names(here) BY <1>1, <1>3, NamedIsNames
    <2>3. After(here) \in Nat BY <1>1 DEF SearchInv, SearchTypeInv, After
    <2>4. SearchTypeInv' BY <1>1, <2>1, <2>3 DEF SearchInv, SearchTypeInv
    <2>5. ASSUME NEW n \in 1..Len(over), First(n)
          PROVE  After(here) < n
      <3>1. index < n BY <1>1, <2>5 DEF SearchInv, AheadInv
      <3>2. n # here BY <2>2, <2>5 DEF First
      <3>3. here < n /\ here \in 1..(n - 1) BY <1>1, <3>1, <3>2
      <3>4. ~(pools[here].addresses # {} /\ coinbase.outputs # <<>>)
        BY <1>1, <2>5, <3>3 DEF First, Behind
      <3> QED BY <3>3, <3>4 DEF After
    <2>6. AheadInv' BY <1>1, <1>2, <2>1, <2>5 DEF AheadInv
    <2>7. MinerIsExact' BY <1>1, <2>1 DEF MinerIsExact
    <2> QED BY <2>4, <2>6, <2>7 DEF SearchInv
  <1>4. CASE Named(pools[here]) # "none"
    <2>1. miner' = <<here, Named(pools[here])>> /\ busy' = FALSE /\ index' = index
      BY <1>4 DEF Examine
    <2>2. Names(here) BY <1>1, <1>4, NamedIsNames
    <2>3. SearchTypeInv' /\ AheadInv' BY <1>1, <2>1 DEF SearchInv, SearchTypeInv, AheadInv
    <2>4. ASSUME NEW n \in 1..Len(over), First(n)
          PROVE  n = here
      <3>1. index < n BY <1>1, <2>4 DEF SearchInv, AheadInv
      <3>2. here \notin 1..(n - 1) BY <2>2, <2>4 DEF First
      <3> QED BY <1>1, <3>1, <3>2
    <2>5. \A n \in 1..Len(over) :
            First(n) => miner' = <<n, IF Pays(over[n]) THEN "address" ELSE "tag">>
      BY <1>1, <1>4, <2>1, <2>4, NamedIsNames
    <2>6. MinerIsExact' BY <1>1, <1>2, <2>2, <2>5 DEF MinerIsExact, First
    <2> QED BY <2>3, <2>6 DEF SearchInv
  <1> QED BY <1>3, <1>4

\* A search that comes to the end has met no file that names the miner, unless it passed it over.
LEMMA ExhaustedSteps ==
  ASSUME SearchInv, Exhausted
  PROVE  SearchInv'
  <1>1. SearchTypeInv' /\ AheadInv' BY DEF SearchInv, SearchTypeInv, AheadInv, Exhausted
  <1>2. /\ busy /\ over = pools /\ index >= Len(pools)
        /\ index \in Nat /\ Len(pools) \in Nat
        /\ miner' = NoMiner /\ UNCHANGED <<coinbase, over>>
    BY DEF SearchInv, SearchTypeInv, Exhausted
  <1>3. \A n \in 1..Len(over) : ~First(n) BY <1>2 DEF SearchInv, AheadInv
  <1>4. MinerIsExact'
    BY <1>2, <1>3 DEF MinerIsExact, First, Names, Pays, Tagged, Behind
  <1> QED BY <1>1, <1>4 DEF SearchInv

\* Every step keeps the invariant of the search.
LEMMA SearchSteps == SearchInv /\ [MinerNext]_minerVars => SearchInv'
  <1> SUFFICES ASSUME SearchInv, [MinerNext]_minerVars PROVE SearchInv' OBVIOUS
  <1>1. CASE LoadMiningPoolConfigs
    BY <1>1, RestingSteps DEF LoadMiningPoolConfigs
  <1>2. CASE DirectoryRead
    BY <1>2, RestingSteps DEF DirectoryRead
  <1>3. ASSUME NEW t \in Coinbase, Search(t) PROVE SearchInv'
    <2>1. t.outputs \in Seq(SUBSET PayoutAddresses) BY BoundedIsSeq DEF Coinbase
    <2>2. SearchTypeInv' BY <1>3, <2>1 DEF SearchInv, SearchTypeInv, Search
    <2>3. AheadInv'
      BY <1>3 DEF AheadInv, Search, First
    <2>4. MinerIsExact' BY <1>3 DEF MinerIsExact, Search
    <2> QED BY <2>2, <2>3, <2>4 DEF SearchInv
  <1>4. CASE Examine BY <1>4, ExamineSteps
  <1>5. CASE Exhausted BY <1>5, ExhaustedSteps
  <1>6. CASE UNCHANGED minerVars BY <1>6, RestingSteps DEF minerVars
  <1> QED BY <1>1, <1>2, <1>3, <1>4, <1>5, <1>6 DEF MinerNext

\* A search names the first pool whose file names the miner, and nobody if no file does, for any
\* number of files and outputs, except for a file behind one with payout addresses
\* (getMinerFromCoinbaseTx).
THEOREM MinersAreExact == MinerSpec => []MinerIsExact
  <1>1. SearchInv => MinerIsExact BY DEF SearchInv
  <1> QED BY <1>1, SearchInitially, SearchSteps, PTL DEF MinerSpec

\* The files and what a search is about keep their types, step by step.
LEMMA MinerTypesStep == ASSUME MinerTypeOK, [MinerNext]_minerVars PROVE MinerTypeOK'
  <1>1. CASE LoadMiningPoolConfigs
    <2>1. special' = special BY <1>1 DEF LoadMiningPoolConfigs
    <2> QED BY <1>1, <2>1 DEF LoadMiningPoolConfigs, MinerTypeOK
  <1>2. CASE DirectoryRead BY <1>2 DEF DirectoryRead, MinerTypeOK
  <1>3. ASSUME NEW paid \in Coinbase, Search(paid) PROVE MinerTypeOK'
    <2>1. paid \in [outputs : Seq(SUBSET PayoutAddresses), tags : SUBSET CoinbaseTags]
      <3>1. paid.outputs \in Seq(SUBSET PayoutAddresses) BY BoundedIsSeq DEF Coinbase
      <3> QED BY <3>1 DEF Coinbase
    <2> QED BY <1>3, <2>1 DEF Search, MinerTypeOK
  <1>4. CASE Examine
    <2>1. /\ index \in Nat /\ index < Len(pools)
          /\ UNCHANGED <<files, reading, pools, special, coinbase, over>>
      BY <1>4 DEF Examine, MinerTypeOK
    <2>2. pools = files
      <3>1. pools # <<>> BY <2>1
      <3> QED BY <3>1 DEF MinerTypeOK
    <2>3. files \in Seq(File) /\ Len(files) \in Nat BY DEF MinerTypeOK
    <2>4. index + 1 \in 1..Len(files) BY <2>1, <2>2, <2>3
    <2>5. CASE Named(pools[index + 1]) = "none"
      <3>1. index' = After(index + 1) /\ busy' = busy /\ miner' = miner BY <1>4, <2>5 DEF Examine
      <3>2. Len(coinbase.outputs) \in Nat BY DEF MinerTypeOK
      <3>3. After(index + 1) \in Nat BY <2>1, <3>2 DEF After
      <3> QED BY <2>1, <3>1, <3>3 DEF MinerTypeOK
    <2>6. CASE Named(pools[index + 1]) # "none"
      <3>1. miner' = <<index + 1, Named(pools[index + 1])>> /\ busy' = FALSE /\ index' = index
        BY <1>4, <2>6 DEF Examine
      <3>2. Named(pools[index + 1]) \in {"address", "tag"} BY <2>6 DEF Named
      <3>3. miner'[1] = index + 1 /\ miner'[2] \in {"address", "tag"} BY <3>1, <3>2
      <3> QED BY <2>1, <2>4, <3>1, <3>3 DEF MinerTypeOK
    <2> QED BY <2>5, <2>6
  <1>5. CASE Exhausted BY <1>5 DEF Exhausted, MinerTypeOK
  <1>6. CASE UNCHANGED minerVars BY <1>6 DEF minerVars, MinerTypeOK
  <1> QED BY <1>1, <1>2, <1>3, <1>4, <1>5, <1>6 DEF MinerNext

\* Every variable of the search keeps its type, and a miner is of a file there is.
THEOREM SearchIsTyped == MinerSpec => []MinerTypeOK
  <1>1. ASSUME MinerInit PROVE MinerTypeOK
    <2>1. files \in Seq(File) BY <1>1, BoundedIsSeq DEF MinerInit
    <2>2. coinbase \in [outputs : Seq(SUBSET PayoutAddresses), tags : SUBSET CoinbaseTags]
      <3>1. <<>> \in Seq(SUBSET PayoutAddresses) OBVIOUS
      <3> QED BY <1>1, <3>1 DEF MinerInit, NoCoinbase
    <2> QED BY <1>1, <2>1, <2>2 DEF MinerInit, MinerTypeOK
  <1> QED BY <1>1, MinerTypesStep, PTL DEF MinerSpec

-----------------------------------------------------------------------------
(* ChainStats *)

\* The tip of each tick so far never falls, nor does that of the request.
TipsInv ==
  /\ tip \in FirstTip..MaxTip /\ clock \in 0..MaxClock
  /\ tips.began \in [0..MaxClock -> Nat] /\ tips.asked \in Nat /\ tips.askedAt \in 0..clock
  /\ DOMAIN tips = {"began", "asked", "askedAt"}
  /\ \A c \in 0..clock : tips.began[c] <= tip
  /\ \A c \in 0..clock : \A d \in 0..c : tips.began[d] <= tips.began[c]
  /\ tips.began[tips.askedAt] <= tips.asked /\ tips.asked <= tip

\* What getBlockchainInfo said is of the time it was asked.
InfoInv ==
  \/ info = NoInfo
  \/ /\ info.at \in 0..clock /\ info.blocks \in Nat
     /\ tips.began[info.at] <= info.blocks /\ info.blocks <= tip

\* What the node says of a window that ends at a tip between two heights.
IsAnswer(said, window, least, most) ==
  /\ said.kind \in {"stats", "error"}
  /\ said.kind = "stats" =>
       /\ said.tip \in Int /\ said.length \in Int
       /\ least <= said.tip /\ said.tip <= most
       /\ window # Unset => said.length = window

\* What is kept of a window is of the time it was asked.
StatsInv ==
  \A w \in DOMAIN stats :
    /\ stats[w].at \in 0..clock
    /\ IsAnswer(stats[w].value, w, tips.began[stats[w].at], tip)

\* The windows of a request are those of its heights, and what they were answered with is no
\* older than what is kept.
WindowsInv ==
  chart.phase = "windows" =>
    /\ DOMAIN chart = {"phase", "blocks", "start", "windows", "results"}
    /\ chart.blocks \in Nat /\ chart.start \in Int
    /\ TipBefore(InfoAge) <= chart.blocks /\ chart.blocks <= tips.asked
    /\ \E points \in DataPoints :
         /\ chart.windows = [i \in 0..(points - 1) |-> WindowAt(points, chart.start, chart.blocks, i)]
         /\ DOMAIN chart.results = 0..(points - 1)
    /\ \A i \in DOMAIN chart.results :
         \/ chart.results[i] = Pending
         \/ IsAnswer(chart.results[i], chart.windows[i], TipBefore(StatsAge), tip)

PointsInv == chart.phase = "resolved" => \A p \in chart.points : p.x \in Int /\ p.y \in Int

ChainInv ==
  /\ TipsInv /\ InfoInv /\ StatsInv /\ WindowsInv /\ PointsInv /\ PointsNearCounts
  /\ chart.phase \in {"none", "windows", "resolved", "rejected"}

-----------------------------------------------------------------------------
\* A share of the heights is none below 0, and not beyond all of them.
LEMMA CeilingBounds ==
  ASSUME NEW d \in Int, NEW n \in Nat \ {0}, NEW i \in 0..n
  PROVE  /\ Ceiling(i * d, n) \in Int
         /\ d >= 0 => Ceiling(i * d, n) >= 0
         /\ d < 0 => Ceiling(i * d, n) >= d
  <1> DEFINE a == i * d
             q == (-a) \div n
  <1>1. a \in Int OBVIOUS
  <1>2. d >= 0 => a >= 0 OBVIOUS
  <1>3. d < 0 => -a <= n * (-d)
    <2> SUFFICES ASSUME d < 0 PROVE i * (-d) <= n * (-d) OBVIOUS
    <2>1. (n - i) * (-d) >= 0 OBVIOUS
    <2> QED BY <2>1
  <1> HIDE DEF a
  <1>4. q \in Int /\ n * q <= -a BY <1>1
  <1> HIDE DEF q
  <1>5. d >= 0 => q <= 0
    <2> SUFFICES ASSUME d >= 0, q > 0 PROVE FALSE BY <1>4
    <2>1. n * q > 0 BY <1>4
    <2> QED BY <1>1, <1>2, <1>4, <2>1
  <1>6. d < 0 => q <= -d
    <2> SUFFICES ASSUME d < 0, q > -d PROVE FALSE BY <1>4
    <2>1. n * (q + d) > 0 BY <1>4
    <2>2. n * (q + d) = n * q - n * (-d) BY <1>4
    <2>3. n * q \in Int /\ n * (-d) \in Int BY <1>4
    <2> QED BY <1>1, <1>3, <1>4, <2>1, <2>2, <2>3
  <1>7. Ceiling(i * d, n) = -q BY DEF Ceiling, a, q
  <1> QED BY <1>4, <1>5, <1>6, <1>7

\* A window is as long as the smallest or reaches no further than where the heights begin.
LEMMA WindowBounds ==
  ASSUME NEW points \in DataPoints, points # 1, NEW start \in Int, NEW blocks \in Nat,
         NEW i \in 0..(points - 1)
  PROVE  LET w == WindowAt(points, start, blocks, i) IN
         /\ w \in Int /\ w # Unset /\ w >= MinWindow
         /\ w = MinWindow \/ w <= blocks - start - 1
  <1> DEFINE d == blocks - start
             n == points - 1
             c == Ceiling(i * d, n)
             v == d - c - 1
  <1>1. points \in Nat /\ MinWindow \in Nat BY StatsAssumption
  <1>2. n \in Nat \ {0} /\ i \in 0..n /\ d \in Int BY <1>1
  <1>3. c \in Int /\ (d >= 0 => c >= 0) /\ (d < 0 => c >= d)
    <2> HIDE DEF d, n
    <2> QED BY <1>2, CeilingBounds
  <1>4. WindowAt(points, start, blocks, i) = Max({MinWindow, v}) BY DEF WindowAt
  <1> HIDE DEF c
  <1>5. v \in Int /\ (d >= 0 => v <= d - 1) /\ (d < 0 => v <= -1) BY <1>2, <1>3
  <1> HIDE DEF v, d
  <1>6. Max({MinWindow, v}) = IF MinWindow >= v THEN MinWindow ELSE v BY <1>1, <1>5, MaxOfTwo
  <1> QED BY <1>1, <1>2, <1>4, <1>5, <1>6, StatsAssumption DEF d

\* What the node answers now.
LEMMA NodeAnswers ==
  ASSUME TipsInv, NEW w \in Int \cup {Unset}
  PROVE  IsAnswer(StatsOf(w), w, tip, tip)
  <1>1. tip \in Nat BY StatsAssumption DEF TipsInv
  <1>2. Min({UsualWindow, tip - 1}) \in Int
    <2>1. UsualWindow \in Int /\ tip - 1 \in Int BY <1>1, StatsAssumption
    <2> QED BY <2>1, MinOfTwo
  <1>3. CASE w = Unset BY <1>1, <1>2, <1>3 DEF StatsOf, IsAnswer
  <1>4. CASE w # Unset /\ w < tip
    <2>1. StatsOf(w) = [kind |-> "stats", length |-> w, tip |-> tip] BY <1>4 DEF StatsOf
    <2> QED BY <1>1, <1>4, <2>1 DEF IsAnswer
  <1>5. CASE ~(w = Unset) /\ ~(w # Unset /\ w < tip)
    <2>1. StatsOf(w) = Invalid BY <1>5 DEF StatsOf
    <2> QED BY <2>1 DEF IsAnswer, Invalid
  <1> QED BY <1>3, <1>4, <1>5

-----------------------------------------------------------------------------
\* Initially nothing is kept and nothing was asked.
LEMMA ChainInitially == ChainInit => ChainInv
  <1> SUFFICES ASSUME ChainInit PROVE ChainInv OBVIOUS
  <1>1. TipsInv BY StatsAssumption DEF ChainInit, TipsInv
  <1>2. InfoInv BY DEF ChainInit, InfoInv
  <1>3. StatsInv BY DEF ChainInit, StatsInv
  <1>4. chart.phase = "none" BY DEF ChainInit, NoChart
  <1> QED BY <1>1, <1>2, <1>3, <1>4 DEF ChainInv, WindowsInv, PointsInv, PointsNearCounts

\* An answer is still one when more blocks have come, and of an earlier time than less.
LEMMA AnswersLast ==
  ASSUME NEW said, NEW w, NEW a \in Int, NEW b \in Int, NEW c \in Int, NEW d \in Int,
         IsAnswer(said, w, a, b), c <= a, b <= d
  PROVE  IsAnswer(said, w, c, d)
  BY DEF IsAnswer

\* The tips of the ages that matter are tips of ticks so far.
LEMMA TipsBefore ==
  ASSUME TipsInv, NEW age \in {InfoAge, StatsAge}
  PROVE  /\ Max({0, tips.askedAt - age + 1}) \in 0..tips.askedAt
         /\ Max({0, tips.askedAt - age + 1}) >= tips.askedAt - age + 1
         /\ TipBefore(age) \in Nat /\ TipBefore(age) <= tips.asked
  <1>1. age \in Nat \ {0} /\ tips.askedAt \in Nat BY StatsAssumption DEF TipsInv
  <1> DEFINE c == Max({0, tips.askedAt - age + 1})
  <1>2. c = IF 0 >= tips.askedAt - age + 1 THEN 0 ELSE tips.askedAt - age + 1 BY <1>1, MaxOfTwo
  <1> HIDE DEF c
  <1>3. c \in 0..tips.askedAt /\ c >= tips.askedAt - age + 1 BY <1>1, <1>2
  <1>4. tips.began[c] \in Nat /\ tips.began[c] <= tips.began[tips.askedAt] /\ tips.asked \in Nat
    BY <1>1, <1>3, StatsAssumption DEF TipsInv
  <1>5. tips.began[tips.askedAt] \in Nat /\ tips.began[tips.askedAt] <= tips.asked
    BY StatsAssumption DEF TipsInv
  <1>6. TipBefore(age) = tips.began[c] BY DEF TipBefore, c
  <1> QED BY <1>3, <1>4, <1>5, <1>6 DEF c

\* The tip of a tick is a number.
LEMMA TicksHaveTips == ASSUME TipsInv PROVE \A c \in 0..MaxClock : tips.began[c] \in Int
  <1>1. tips.began \in [0..MaxClock -> Nat] BY DEF TipsInv
  <1> QED BY <1>1, StatsAssumption

\* What changes only the chain or the clock.
LEMMA ChainGoesOn ==
  ASSUME ChainInv, TipsInv', UNCHANGED <<info, stats, chart>>,
         tip <= tip', clock <= clock', tips'.asked = tips.asked, tips'.askedAt = tips.askedAt,
         \A c \in 0..clock : tips'.began[c] = tips.began[c]
  PROVE  ChainInv'
  <1>1. TipsInv BY DEF ChainInv
  <1>2. tip \in Nat /\ tip' \in Nat /\ clock \in Nat /\ clock' \in Nat
    BY <1>1, StatsAssumption DEF TipsInv
  <1>3. InfoInv'
    <2>1. CASE info = NoInfo BY <2>1 DEF InfoInv
    <2>2. CASE info # NoInfo BY <1>2, <2>2 DEF ChainInv, InfoInv
    <2> QED BY <2>1, <2>2
  <1>4. StatsInv'
    <2> SUFFICES ASSUME NEW w \in DOMAIN stats
                 PROVE  /\ stats[w].at \in 0..clock'
                        /\ IsAnswer(stats[w].value, w, tips'.began[stats[w].at], tip')
      BY DEF StatsInv
    <2>1. stats[w].at \in 0..clock /\ IsAnswer(stats[w].value, w, tips.began[stats[w].at], tip)
      BY DEF ChainInv, StatsInv
    <2>2. tips.began[stats[w].at] \in Int
      <3>1. stats[w].at \in 0..MaxClock BY <1>1, <2>1, StatsAssumption DEF TipsInv
      <3>2. \A c \in 0..MaxClock : tips.began[c] \in Int BY <1>1, TicksHaveTips
      <3> QED BY <3>1, <3>2
    <2>3. IsAnswer(stats[w].value, w, tips.began[stats[w].at], tip')
      BY <1>2, <2>1, <2>2, AnswersLast
    <2> QED BY <1>2, <2>1, <2>3
  <1>5. \A age \in {InfoAge, StatsAge} :
          TipBefore(age) \in Int /\ tips'.began[Max({0, tips'.askedAt - age + 1})] = TipBefore(age)
    <2> SUFFICES ASSUME NEW age \in {InfoAge, StatsAge}
                 PROVE  TipBefore(age) \in Int
                          /\ tips'.began[Max({0, tips.askedAt - age + 1})] = TipBefore(age)
      OBVIOUS
    <2>1. Max({0, tips.askedAt - age + 1}) \in 0..tips.askedAt /\ TipBefore(age) \in Int
      BY <1>1, TipsBefore
    <2>2. tips.askedAt \in 0..clock BY <1>1 DEF TipsInv
    <2>3. Max({0, tips.askedAt - age + 1}) \in 0..clock BY <1>2, <2>1, <2>2
    <2> QED BY <2>1, <2>3 DEF TipBefore
  <1>6. TipBefore(InfoAge)' = TipBefore(InfoAge) /\ TipBefore(StatsAge)' = TipBefore(StatsAge)
    BY <1>5 DEF TipBefore
  <1>7. WindowsInv'
    <2> SUFFICES ASSUME chart.phase = "windows" PROVE WindowsInv' BY DEF WindowsInv
    <2>1. \A i \in DOMAIN chart.results :
            \/ chart.results[i] = Pending
            \/ IsAnswer(chart.results[i], chart.windows[i], TipBefore(StatsAge), tip')
      BY <1>2, <1>5, AnswersLast DEF ChainInv, WindowsInv
    <2> QED BY <1>6, <2>1 DEF ChainInv, WindowsInv
  <1>8. PointsNearCounts'
    <2> SUFFICES ASSUME chart.phase = "resolved" PROVE PointsNearCounts' BY DEF PointsNearCounts
    <2> SUFFICES ASSUME NEW p \in chart.points
                 PROVE  p.y - p.x <= tip' - TipBefore(InfoAge)'
      BY <1>6 DEF ChainInv, PointsNearCounts
    <2>1. p.y - p.x <= tip - TipBefore(InfoAge) /\ p.x \in Int /\ p.y \in Int
      BY DEF ChainInv, PointsInv, PointsNearCounts
    <2>2. TipBefore(InfoAge) \in Int BY <1>5
    <2> QED BY <1>2, <1>6, <2>1, <2>2
  <1>9. PointsInv' BY DEF ChainInv, PointsInv
  <1> QED BY <1>3, <1>4, <1>7, <1>8, <1>9 DEF ChainInv

\* A block is mined.
LEMMA MineKeepsChain == ASSUME ChainInv, MineBlock PROVE ChainInv'
  <1>0. tip' \in FirstTip..MaxTip /\ tip <= tip' /\ UNCHANGED <<clock, tips>> /\ tip \in Nat
    BY StatsAssumption DEF ChainInv, TipsInv, MineBlock
  <1>1. TipsInv'
    <2>1. \A c \in 0..clock : tips.began[c] <= tip'
      <3> SUFFICES ASSUME NEW c \in 0..clock PROVE tips.began[c] <= tip' OBVIOUS
      <3>1. tips.began[c] <= tip BY DEF ChainInv, TipsInv
      <3>2. tips.began[c] \in Int
        <4>1. c \in 0..MaxClock BY StatsAssumption DEF ChainInv, TipsInv
        <4> QED BY <4>1, TicksHaveTips DEF ChainInv
      <3> QED BY <1>0, <3>1, <3>2, StatsAssumption
    <2>2. TipsInv /\ tips' = tips /\ clock' = clock BY <1>0 DEF ChainInv
    <2>3. tips.asked <= tip' BY <1>0, <2>2, StatsAssumption DEF TipsInv
    <2>4. /\ tip' \in FirstTip..MaxTip /\ clock' \in 0..MaxClock
          /\ tips'.began \in [0..MaxClock -> Nat] /\ tips'.asked \in Nat /\ tips'.askedAt \in 0..clock'
          /\ DOMAIN tips' = {"began", "asked", "askedAt"}
      BY <1>0, <2>2 DEF TipsInv
    <2>5. /\ \A c \in 0..clock' : tips'.began[c] <= tip'
          /\ \A c \in 0..clock' : \A d \in 0..c : tips'.began[d] <= tips'.began[c]
          /\ tips'.began[tips'.askedAt] <= tips'.asked /\ tips'.asked <= tip'
      BY <2>1, <2>2, <2>3 DEF TipsInv
    <2> QED BY <2>4, <2>5 DEF TipsInv
  <1>2. tip \in Nat BY StatsAssumption DEF ChainInv, TipsInv
  <1>3. /\ UNCHANGED <<info, stats, chart>> /\ clock \in Nat
        /\ clock' = clock /\ tips'.asked = tips.asked /\ tips'.askedAt = tips.askedAt
    BY <1>0, StatsAssumption DEF MineBlock, ChainInv, TipsInv
  <1>4. \A c \in 0..clock : tips'.began[c] = tips.began[c] BY <1>0
  <1> HIDE DEF ChainInv
  <1> QED BY <1>0, <1>1, <1>3, <1>4, ChainGoesOn

\* The clock goes on: its new tick begins with the tip there is.
LEMMA TickKeepsChain == ASSUME ChainInv, ClockTicks PROVE ChainInv'
  <1>1. clock \in Nat /\ clock' = clock + 1 /\ clock + 1 \in 0..MaxClock /\ tip \in Nat
    BY StatsAssumption DEF ChainInv, TipsInv, ClockTicks
  <1>2. /\ tips'.asked = tips.asked /\ tips'.askedAt = tips.askedAt
        /\ tips'.began = [tips.began EXCEPT ![clock + 1] = tip]
        /\ DOMAIN tips' = DOMAIN tips
    BY DEF ChainInv, TipsInv, ClockTicks
  <1>3. /\ tips'.began \in [0..MaxClock -> Nat] /\ tips'.began[clock + 1] = tip
        /\ \A c \in 0..clock : tips'.began[c] = tips.began[c]
    BY <1>1, <1>2, StatsAssumption DEF ChainInv, TipsInv
  <1>4. \A c \in 0..clock : tips.began[c] \in Nat /\ tips.began[c] <= tip
    BY <1>1, StatsAssumption DEF ChainInv, TipsInv
  <1>5. \A c \in 0..(clock + 1) : tips'.began[c] <= tip
    <2> SUFFICES ASSUME NEW c \in 0..(clock + 1) PROVE tips'.began[c] <= tip OBVIOUS
    <2>1. c = clock + 1 \/ c \in 0..clock BY <1>1
    <2> QED BY <1>1, <1>3, <1>4, <2>1
  <1>6. \A c \in 0..(clock + 1) : \A d \in 0..c : tips'.began[d] <= tips'.began[c]
    <2> SUFFICES ASSUME NEW c \in 0..(clock + 1), NEW d \in 0..c
                 PROVE  tips'.began[d] <= tips'.began[c]
      OBVIOUS
    <2>1. CASE c = clock + 1
      <3>1. d \in 0..(clock + 1) BY <1>1
      <3> QED BY <1>3, <1>5, <2>1, <3>1
    <2>2. CASE c # clock + 1
      <3>1. c \in 0..clock /\ d \in 0..clock BY <1>1, <2>2
      <3>2. tips.began[d] <= tips.began[c] BY <3>1 DEF ChainInv, TipsInv
      <3> QED BY <1>3, <3>1, <3>2
    <2> QED BY <2>1, <2>2
  <1>7. tips.askedAt \in 0..clock /\ tips.began[tips.askedAt] <= tips.asked
        /\ tips.asked \in Nat /\ tips.asked <= tip /\ tip \in FirstTip..MaxTip
        /\ DOMAIN tips = {"began", "asked", "askedAt"}
    BY DEF ChainInv, TipsInv
  <1>8. tips'.askedAt \in 0..clock' /\ tips'.began[tips'.askedAt] <= tips'.asked
    BY <1>1, <1>2, <1>3, <1>7
  <1>9. TipsInv' BY <1>1, <1>2, <1>3, <1>5, <1>6, <1>7, <1>8 DEF TipsInv, ClockTicks
  <1> QED BY <1>1, <1>2, <1>3, <1>9, ChainGoesOn DEF ClockTicks

\* The windows of the heights getBlockchainInfo gave, with what is kept of them.
LEMMA AskWindowsIsSound ==
  ASSUME ChainInv, TipsInv', InfoInv', StatsInv', NEW points \in DataPoints, NEW start \in Starts,
         NEW blocks \in Nat, AskWindows(points, start, blocks), UNCHANGED <<tip, clock, stats>>,
         tips' = [tips EXCEPT !.asked = tip, !.askedAt = clock],
         TipBefore(InfoAge)' <= blocks, blocks <= tip
  PROVE  ChainInv'
  <1> DEFINE from == IF start < 0 THEN start + blocks ELSE start
             windows == [i \in 0..(points - 1) |-> WindowAt(points, from, blocks, i)]
             answers == [i \in 0..(points - 1) |->
                           IF FreshStats(windows[i]) THEN stats[windows[i]].value ELSE Pending]
  <1>1. from \in Int BY StatsAssumption
  <1>2. chart' = [phase |-> "windows", blocks |-> blocks, start |-> from, windows |-> windows,
                  results |-> answers]
    BY DEF AskWindows
  <1>3. tips'.asked = tip /\ tips'.askedAt = clock /\ tips'.began = tips.began
    BY DEF ChainInv, TipsInv
  <1>4. tip \in Nat /\ clock \in Nat /\ StatsAge \in Nat /\ clock <= MaxClock /\ MaxClock \in Nat
    BY StatsAssumption DEF ChainInv, TipsInv
  <1>5. ASSUME NEW i \in 0..(points - 1)
        PROVE  answers[i] = Pending \/ IsAnswer(answers[i], windows[i], TipBefore(StatsAge)', tip)
    <2> DEFINE w == windows[i]
    <2> HIDE DEF windows
    <2> SUFFICES ASSUME FreshStats(w)
                 PROVE  IsAnswer(stats[w].value, w, TipBefore(StatsAge)', tip)
      OBVIOUS
    <2> HIDE DEF w
    <2>1. /\ w \in DOMAIN stats /\ stats[w].at \in 0..clock /\ clock < stats[w].at + StatsAge
          /\ IsAnswer(stats[w].value, w, tips.began[stats[w].at], tip)
      BY DEF FreshStats, ChainInv, StatsInv
    <2> DEFINE at == stats[w].at
               c == Max({0, clock - StatsAge + 1})
    <2>2. c = IF 0 >= clock - StatsAge + 1 THEN 0 ELSE clock - StatsAge + 1 BY <1>4, MaxOfTwo
    <2>3. at \in 0..clock /\ clock < at + StatsAge BY <2>1
    <2>4. TipBefore(StatsAge)' = tips.began[c] BY <1>3 DEF TipBefore
    <2>5. IsAnswer(stats[w].value, w, tips.began[at], tip) BY <2>1
    <2> HIDE DEF at, c
    <2>6. c \in 0..at /\ at \in 0..MaxClock /\ c \in 0..MaxClock BY <1>4, <2>2, <2>3
    <2>7. tips.began[c] <= tips.began[at] BY <2>3, <2>6 DEF ChainInv, TipsInv
    <2>8. tips.began[c] \in Int /\ tips.began[at] \in Int
      <3>1. \A d \in 0..MaxClock : tips.began[d] \in Int BY TicksHaveTips DEF ChainInv
      <3> QED BY <2>6, <3>1
    <2> QED BY <1>4, <2>4, <2>5, <2>7, <2>8, AnswersLast
  <1> HIDE DEF from, windows, answers
  <1>6. WindowsInv'
    <2>1. chart'.phase = "windows" /\ chart'.blocks = blocks /\ chart'.start = from
          /\ chart'.windows = windows /\ chart'.results = answers
          /\ DOMAIN chart' = {"phase", "blocks", "start", "windows", "results"}
      BY <1>2
    <2>2. DOMAIN answers = 0..(points - 1) BY DEF answers
    <2>3. windows = [i \in 0..(points - 1) |-> WindowAt(points, from, blocks, i)] BY DEF windows
    <2> QED BY <1>1, <1>3, <1>5, <2>1, <2>2, <2>3 DEF WindowsInv
  <1>7. chart'.phase = "windows" BY <1>2
  <1> QED BY <1>6, <1>7 DEF ChainInv, PointsInv, PointsNearCounts

\* A request is made.
LEMMA AskKeepsChain ==
  ASSUME ChainInv, NEW points \in DataPoints, NEW start \in Starts, AskStats(points, start)
  PROVE  ChainInv'
  <1>1. /\ tips' = [tips EXCEPT !.asked = tip, !.askedAt = clock]
        /\ UNCHANGED <<tip, clock, stats>>
    BY DEF AskStats
  <1>2. tips'.asked = tip /\ tips'.askedAt = clock /\ tips'.began = tips.began
        /\ DOMAIN tips' = DOMAIN tips
    BY <1>1 DEF ChainInv, TipsInv
  <1>3. tip \in Nat /\ clock \in Nat /\ InfoAge \in Nat \ {0} /\ clock <= MaxClock
        /\ MaxClock \in Nat
    BY StatsAssumption DEF ChainInv, TipsInv
  <1>4. TipsInv'
    <2>1. tips.began[clock] <= tip /\ clock \in 0..clock BY <1>3 DEF ChainInv, TipsInv
    <2> QED BY <1>1, <1>2, <1>3, <2>1 DEF ChainInv, TipsInv
  <1>5. StatsInv' BY <1>1, <1>2 DEF ChainInv, StatsInv
  <1> DEFINE c == Max({0, clock - InfoAge + 1})
  <1>6. c = IF 0 >= clock - InfoAge + 1 THEN 0 ELSE clock - InfoAge + 1 BY <1>3, MaxOfTwo
  <1>7. TipBefore(InfoAge)' = tips.began[c] BY <1>2 DEF TipBefore
  <1> HIDE DEF c
  <1>8. \A d \in 0..MaxClock : tips.began[d] \in Nat BY DEF ChainInv, TipsInv
  <1>9. CASE clock < info.at + InfoAge /\ AskWindows(points, start, info.blocks) /\ UNCHANGED info
    <2>1. /\ info.at \in 0..clock /\ info.blocks \in Nat
          /\ tips.began[info.at] <= info.blocks /\ info.blocks <= tip
      <3>1. info # NoInfo BY <1>3, <1>9 DEF NoInfo
      <3> QED BY <3>1 DEF ChainInv, InfoInv
    <2>2. InfoInv' BY <1>1, <1>2, <1>9, <2>1 DEF InfoInv
    <2> DEFINE at == info.at
    <2>3. at \in 0..clock /\ clock < at + InfoAge /\ tips.began[at] <= info.blocks BY <1>9, <2>1
    <2> HIDE DEF at
    <2>4. c \in 0..at /\ c \in 0..MaxClock /\ at \in 0..MaxClock BY <1>3, <1>6, <2>3
    <2>5. tips.began[c] <= tips.began[at] BY <2>3, <2>4 DEF ChainInv, TipsInv
    <2>6. tips.began[c] <= info.blocks
      <3>1. tips.began[c] \in Nat /\ tips.began[at] \in Nat BY <1>8, <2>4
      <3> QED BY <2>1, <2>3, <2>5, <3>1
    <2> QED BY <1>1, <1>4, <1>5, <1>7, <1>9, <2>1, <2>2, <2>6, AskWindowsIsSound
  <1>10. CASE AskWindows(points, start, tip) /\ info' = [blocks |-> tip, at |-> clock]
    <2>1. tips.began[clock] <= tip /\ clock \in 0..clock BY <1>3 DEF ChainInv, TipsInv
    <2>2. InfoInv' BY <1>1, <1>2, <1>3, <1>10, <2>1 DEF InfoInv
    <2>3. c \in 0..clock BY <1>3, <1>6
    <2>4. tips.began[c] <= tip BY <2>3 DEF ChainInv, TipsInv
    <2> QED BY <1>1, <1>3, <1>4, <1>5, <1>7, <1>10, <2>2, <2>4, AskWindowsIsSound
  <1>11. CASE chart' = [phase |-> "rejected"] /\ UNCHANGED info
    <2>1. InfoInv' BY <1>1, <1>2, <1>11 DEF ChainInv, InfoInv
    <2>2. chart'.phase = "rejected" BY <1>11
    <2> QED BY <1>4, <1>5, <2>1, <2>2 DEF ChainInv, WindowsInv, PointsInv, PointsNearCounts
  <1> QED BY <1>9, <1>10, <1>11 DEF AskStats

\* A window is answered by the node.
LEMMA AnswerKeepsChain == ASSUME ChainInv, NEW i, WindowAnswers(i) PROVE ChainInv'
  <1> DEFINE w == chart.windows[i]
             a == StatsOf(w)
  <1>1. /\ chart.phase = "windows" /\ i \in DOMAIN chart.results
        /\ chart' = [chart EXCEPT !.results[i] = a]
        /\ stats' = [v \in DOMAIN stats \cup {w} |->
                       IF v = w THEN [value |-> a, at |-> clock] ELSE stats[v]]
        /\ UNCHANGED <<tip, clock, info, tips>>
    BY DEF WindowAnswers
  <1>2. /\ DOMAIN chart = {"phase", "blocks", "start", "windows", "results"}
        /\ chart.blocks \in Nat /\ chart.start \in Int
        /\ \A k \in DOMAIN chart.results :
             \/ chart.results[k] = Pending
             \/ IsAnswer(chart.results[k], chart.windows[k], TipBefore(StatsAge), tip)
    BY <1>1 DEF ChainInv, WindowsInv
  <1>3. PICK points \in DataPoints :
          /\ chart.windows = [k \in 0..(points - 1) |-> WindowAt(points, chart.start, chart.blocks, k)]
          /\ DOMAIN chart.results = 0..(points - 1)
    BY <1>1 DEF ChainInv, WindowsInv
  <1>4. w \in Int \cup {Unset}
    <2>1. w = WindowAt(points, chart.start, chart.blocks, i) BY <1>1, <1>3
    <2>2. CASE points = 1 BY <2>1, <2>2 DEF WindowAt
    <2>3. CASE points # 1 BY <1>1, <1>2, <1>3, <2>1, <2>3, WindowBounds
    <2> QED BY <2>2, <2>3
  <1> HIDE DEF w
  <1>5. IsAnswer(a, w, tip, tip) BY <1>4, NodeAnswers DEF ChainInv
  <1>6. tip \in Nat /\ clock \in Nat /\ clock <= MaxClock
    BY StatsAssumption DEF ChainInv, TipsInv
  <1> HIDE DEF a
  <1>7. IsAnswer(a, w, TipBefore(StatsAge), tip)
    <2>1. TipBefore(StatsAge) \in Nat /\ TipBefore(StatsAge) <= tips.asked
      BY TipsBefore DEF ChainInv
    <2>2. tips.asked \in Nat /\ tips.asked <= tip BY DEF ChainInv, TipsInv
    <2>3. TipBefore(StatsAge) <= tip BY <1>6, <2>1, <2>2
    <2> QED BY <1>5, <1>6, <2>1, <2>3, AnswersLast
  <1>8. IsAnswer(a, w, tips.began[clock], tip)
    <2>1. clock \in 0..clock /\ clock \in 0..MaxClock BY <1>6, StatsAssumption
    <2>2. tips.began[clock] \in Int BY <2>1, TicksHaveTips DEF ChainInv
    <2>3. tips.began[clock] <= tip BY <2>1 DEF ChainInv, TipsInv
    <2> QED BY <1>5, <1>6, <2>2, <2>3, AnswersLast
  <1>9. StatsInv'
    <2> SUFFICES ASSUME NEW v \in DOMAIN stats'
                 PROVE  /\ stats'[v].at \in 0..clock
                        /\ IsAnswer(stats'[v].value, v, tips.began[stats'[v].at], tip)
      BY <1>1 DEF StatsInv
    <2>1. CASE v = w
      <3>1. stats'[v] = [value |-> a, at |-> clock] BY <1>1, <2>1
      <3> QED BY <1>6, <1>8, <2>1, <3>1
    <2>2. CASE v # w
      <3>1. v \in DOMAIN stats /\ stats'[v] = stats[v] BY <1>1, <2>2
      <3> QED BY <3>1 DEF ChainInv, StatsInv
    <2> QED BY <2>1, <2>2
  <1>10. /\ chart'.phase = "windows" /\ chart'.blocks = chart.blocks /\ chart'.start = chart.start
         /\ chart'.windows = chart.windows /\ DOMAIN chart' = DOMAIN chart
         /\ chart'.results = [chart.results EXCEPT ![i] = a]
    BY <1>1, <1>2
  <1>11. \A k \in DOMAIN chart'.results :
           \/ chart'.results[k] = Pending
           \/ IsAnswer(chart'.results[k], chart.windows[k], TipBefore(StatsAge), tip)
    <2> SUFFICES ASSUME NEW k \in DOMAIN chart.results
                 PROVE  \/ chart'.results[k] = Pending
                        \/ IsAnswer(chart'.results[k], chart.windows[k], TipBefore(StatsAge), tip)
      BY <1>10
    <2>1. CASE k = i
      <3>1. chart'.results[k] = a BY <1>10, <2>1
      <3> QED BY <1>7, <2>1, <3>1 DEF w
    <2>2. CASE k # i
      <3>1. chart'.results[k] = chart.results[k] BY <1>10, <2>2
      <3> QED BY <1>2, <3>1
    <2> QED BY <2>1, <2>2
  <1>12. TipBefore(StatsAge)' = TipBefore(StatsAge) /\ TipBefore(InfoAge)' = TipBefore(InfoAge)
    BY <1>1 DEF TipBefore
  <1>13. WindowsInv'
    <2>1. TipBefore(InfoAge) <= chart.blocks /\ chart.blocks <= tips.asked
      BY <1>1 DEF ChainInv, WindowsInv
    <2>2. DOMAIN chart'.results = 0..(points - 1) BY <1>3, <1>10
    <2> QED BY <1>1, <1>2, <1>3, <1>10, <1>11, <1>12, <2>1, <2>2 DEF WindowsInv
  <1>14. TipsInv' /\ InfoInv' BY <1>1 DEF ChainInv, TipsInv, InfoInv
  <1> QED BY <1>9, <1>10, <1>13, <1>14 DEF ChainInv, PointsInv, PointsNearCounts

\* The chart is rejected.
LEMMA RejectionKeepsChain ==
  ASSUME ChainInv, chart' = [phase |-> "rejected"], UNCHANGED <<tip, clock, info, stats, tips>>
  PROVE  ChainInv'
  <1>1. TipsInv' /\ InfoInv' /\ StatsInv' BY DEF ChainInv, TipsInv, InfoInv, StatsInv
  <1>2. chart'.phase = "rejected" OBVIOUS
  <1> QED BY <1>1, <1>2 DEF ChainInv, WindowsInv, PointsInv, PointsNearCounts

\* The chart is made: each point lies where its window begins, and is as far off as the tip of its
\* answer is from that of the heights.
LEMMA ChartKeepsChain ==
  ASSUME ChainInv, UNCHANGED <<tip, clock, info, stats, tips>>,
         chart.phase = "windows", \A i \in DOMAIN chart.results : chart.results[i] # Pending,
         NEW total, NEW regular, regular => Cardinality(DOMAIN chart.results) > 1,
         chart' = [phase |-> "resolved", blocks |-> chart.blocks, start |-> chart.start,
                   regular |-> regular,
                   points |-> {[x |-> chart.blocks - chart.results[i].length,
                                y |-> chart.results[i].tip - chart.results[i].length] : i \in WithCounts},
                   total |-> total]
  PROVE  ChainInv'
  <1>1. TipsInv' /\ InfoInv' /\ StatsInv' BY DEF ChainInv, TipsInv, InfoInv, StatsInv
  <1>2. chart'.phase = "resolved" /\ chart'.blocks = chart.blocks /\ chart'.start = chart.start
        /\ chart'.regular = regular
    OBVIOUS
  <1>3. TipBefore(StatsAge)' = TipBefore(StatsAge) /\ TipBefore(InfoAge)' = TipBefore(InfoAge)
    BY DEF TipBefore
  <1>4. /\ chart.blocks \in Nat /\ chart.start \in Int
        /\ TipBefore(InfoAge) <= chart.blocks /\ chart.blocks <= tips.asked
        /\ tips.asked \in Nat /\ tip \in Int /\ MinWindow \in Nat
    BY StatsAssumption DEF ChainInv, WindowsInv, TipsInv
  <1>5. TipBefore(InfoAge) \in Nat /\ TipBefore(StatsAge) \in Nat BY TipsBefore DEF ChainInv
  <1>6. PICK points \in DataPoints :
          /\ chart.windows = [k \in 0..(points - 1) |-> WindowAt(points, chart.start, chart.blocks, k)]
          /\ DOMAIN chart.results = 0..(points - 1)
    BY DEF ChainInv, WindowsInv
  <1>7. ASSUME NEW p \in chart'.points
        PROVE  /\ p.x \in Int /\ p.y \in Int
               /\ p.y - p.x <= tip - TipBefore(InfoAge)
               /\ p.x - p.y <= tips.asked - TipBefore(StatsAge)
               /\ regular =>
                    /\ p.x <= chart.blocks - MinWindow
                    /\ p.x >= Min({chart.start + 1, chart.blocks - MinWindow})
    <2>1. PICK i \in WithCounts : p = [x |-> chart.blocks - chart.results[i].length,
                                       y |-> chart.results[i].tip - chart.results[i].length]
      OBVIOUS
    <2> DEFINE a == chart.results[i]
               w == chart.windows[i]
    <2>2. i \in DOMAIN chart.results /\ a.kind = "stats" BY DEF WithCounts
    <2>3. IsAnswer(a, w, TipBefore(StatsAge), tip) BY <2>2 DEF ChainInv, WindowsInv
    <2>4. p.x = chart.blocks - a.length /\ p.y = a.tip - a.length BY <2>1
    <2> HIDE DEF a
    <2>5. /\ a.tip \in Int /\ a.length \in Int /\ TipBefore(StatsAge) <= a.tip /\ a.tip <= tip
          /\ w # Unset => a.length = w
      BY <2>2, <2>3 DEF IsAnswer
    <2>6. p.x \in Int /\ p.y \in Int BY <1>4, <2>4, <2>5
    <2>7. p.y - p.x <= tip - TipBefore(InfoAge) BY <1>4, <1>5, <2>4, <2>5
    <2>8. p.x - p.y <= tips.asked - TipBefore(StatsAge) BY <1>4, <1>5, <2>4, <2>5
    <2>9. ASSUME regular
          PROVE  /\ p.x <= chart.blocks - MinWindow
                 /\ p.x >= Min({chart.start + 1, chart.blocks - MinWindow})
      <3>1. points # 1
        <4> SUFFICES ASSUME points = 1 PROVE FALSE OBVIOUS
        <4>1. DOMAIN chart.results = {0} BY <1>6
        <4>2. Cardinality(DOMAIN chart.results) = 1 BY <4>1, FS_Singleton
        <4>3. Cardinality(DOMAIN chart.results) > 1 BY <2>9
        <4> QED BY <4>2, <4>3
      <3>2. w = WindowAt(points, chart.start, chart.blocks, i) BY <1>6, <2>2
      <3>3. /\ w \in Int /\ w # Unset /\ w >= MinWindow
            /\ w = MinWindow \/ w <= chart.blocks - chart.start - 1
        <4> DEFINE v == WindowAt(points, chart.start, chart.blocks, i)
        <4>1. i \in 0..(points - 1) BY <1>6, <2>2
        <4>2. /\ v \in Int /\ v # Unset /\ v >= MinWindow
              /\ v = MinWindow \/ v <= chart.blocks - chart.start - 1
          BY <1>4, <3>1, <4>1, WindowBounds
        <4> QED BY <3>2, <4>2
      <3> HIDE DEF w
      <3>4. p.x = chart.blocks - w BY <2>4, <2>5, <3>3
      <3> DEFINE u == chart.start + 1
                 v == chart.blocks - MinWindow
      <3>5. u \in Int /\ v \in Int BY <1>4
      <3>6. p.x >= u \/ p.x = v BY <1>4, <3>3, <3>4
      <3>7. p.x <= v BY <1>4, <3>3, <3>4
      <3> HIDE DEF u, v
      <3>8. Min({u, v}) = IF u <= v THEN u ELSE v BY <3>5, MinOfTwo
      <3>9. p.x >= Min({u, v}) BY <2>6, <3>5, <3>6, <3>8
      <3> QED BY <3>7, <3>9 DEF u, v
    <2> QED BY <2>6, <2>7, <2>8, <2>9
  <1>8. PointsInv' /\ PointsNearCounts' BY <1>2, <1>3, <1>7 DEF PointsInv, PointsNearCounts
  <1> QED BY <1>1, <1>2, <1>8 DEF ChainInv, WindowsInv

\* Every step keeps the invariant.
LEMMA ChainStep == ASSUME ChainInv, [ChainNext]_chainVars PROVE ChainInv'
  <1>1. CASE MineBlock BY <1>1, MineKeepsChain
  <1>2. CASE ClockTicks BY <1>2, TickKeepsChain
  <1>3. CASE \E points \in DataPoints, start \in Starts : AskStats(points, start)
    BY <1>3, AskKeepsChain
  <1>4. ASSUME NEW i, WindowAnswers(i) PROVE ChainInv' BY <1>4, AnswerKeepsChain
  <1>5. ASSUME NEW i, WindowFails(i) PROVE ChainInv'
    BY <1>5, RejectionKeepsChain DEF WindowFails
  <1>6. CASE Resolve
    <2>1. CASE WithCounts = {} /\ chart' = [phase |-> "rejected"]
      BY <1>6, <2>1, RejectionKeepsChain DEF Resolve
    <2>2. CASE WithCounts # {} /\ chart'.phase # "rejected"
      <3> DEFINE regular == Cardinality(DOMAIN chart.results) > 1
                 total == chart.results[Min(WithCounts)].tip
      <3>1. /\ chart.phase = "windows" /\ \A i \in DOMAIN chart.results : chart.results[i] # Pending
            /\ UNCHANGED <<tip, clock, info, stats, tips>>
            /\ chart' = [phase |-> "resolved", blocks |-> chart.blocks, start |-> chart.start,
                         regular |-> regular,
                         points |-> {[x |-> chart.blocks - chart.results[i].length,
                                      y |-> chart.results[i].tip - chart.results[i].length]
                                      : i \in WithCounts},
                         total |-> total]
        BY <1>6, <2>2 DEF Resolve
      <3>2. regular => Cardinality(DOMAIN chart.results) > 1 OBVIOUS
      <3> HIDE DEF regular, total
      <3> QED BY <3>1, <3>2, ChartKeepsChain
    <2>3. WithCounts = {} => chart' = [phase |-> "rejected"] BY <1>6 DEF Resolve
    <2>4. WithCounts # {} => chart'.phase # "rejected" BY <1>6 DEF Resolve
    <2> QED BY <2>1, <2>2, <2>3, <2>4
  <1>7. CASE UNCHANGED chainVars
    BY <1>7 DEF chainVars, ChainInv, TipsInv, InfoInv, StatsInv, WindowsInv, PointsInv,
                PointsNearCounts, TipBefore
  <1> QED BY <1>1, <1>2, <1>3, <1>4, <1>5, <1>6, <1>7 DEF ChainNext

\* A point of the chart is the count of a height no further from its own than the chain grew
\* while what it is made of was kept or asked for, for any number of points and any ages.
THEOREM ChartsAreNear == ChainSpec => []PointsNearCounts
  <1>1. ChainInv => PointsNearCounts BY DEF ChainInv
  <1> QED BY <1>1, ChainInitially, ChainStep, PTL DEF ChainSpec

\* Every variable of the charts keeps its type.
THEOREM ChartsAreTyped == ChainSpec => []ChainTypeOK
  <1>1. ChainInv => ChainTypeOK
    <2> SUFFICES ASSUME ChainInv PROVE ChainTypeOK OBVIOUS
    <2>1. tip \in FirstTip..MaxTip /\ clock \in 0..MaxClock BY DEF ChainInv, TipsInv
    <2>2. info.blocks \in 0..MaxTip /\ info.at <= clock
      <3>1. CASE info = NoInfo BY <2>1, <3>1, StatsAssumption DEF NoInfo
      <3>2. CASE info # NoInfo BY <2>1, <3>2, StatsAssumption DEF ChainInv, InfoInv
      <3> QED BY <3>1, <3>2
    <2>3. \A w \in DOMAIN stats : stats[w].value.kind \in {"stats", "error"} /\ stats[w].at <= clock
      BY <2>1 DEF ChainInv, StatsInv, IsAnswer
    <2> QED BY <2>1, <2>2, <2>3 DEF ChainInv, ChainTypeOK
  <1> QED BY <1>1, ChainInitially, ChainStep, PTL DEF ChainSpec

-----------------------------------------------------------------------------
(* CoinFigures: rewards *)

\* The rewards of the eras up to the n-th.
HalvedUp(f, a, n) == f = [i \in 0..n |-> IF i = 0 THEN a ELSE f[i-1] \div 2]

\* Halves of a number are numbers.
LEMMA HalvedIsNat ==
  ASSUME NEW f, NEW a \in Nat, NEW n \in Nat, HalvedUp(f, a, n)
  PROVE  f \in [0..n -> Nat]
  <1> DEFINE T == {i \in Nat : i \in 0..n => f[i] \in Nat}
  <1>0. \A i \in 0..n : f[i] = IF i = 0 THEN a ELSE f[i-1] \div 2 BY DEF HalvedUp
  <1>1. 0 \in T
    <2>1. 0 \in 0..n OBVIOUS
    <2> QED BY <1>0, <2>1
  <1>2. ASSUME NEW i \in Nat, i \in T PROVE i + 1 \in T
    <2> SUFFICES ASSUME i + 1 \in 0..n PROVE f[i + 1] \in Nat OBVIOUS
    <2>1. f[i] \in Nat BY <1>2
    <2>2. f[i + 1] = f[i] \div 2
      <3>1. i + 1 # 0 /\ i + 1 - 1 = i OBVIOUS
      <3>2. f[i + 1] = IF i + 1 = 0 THEN a ELSE f[i + 1 - 1] \div 2 BY <1>0
      <3> QED BY <3>1, <3>2
    <2> QED BY <2>1, <2>2
  <1> HIDE DEF T
  <1>3. Nat \subseteq T BY <1>1, <1>2, NumberInduction
  <1>4. \A i \in 0..n : f[i] \in Nat BY <1>3 DEF T
  <1>5. f = [i \in 0..n |-> f[i]] BY DEF HalvedUp
  <1> QED BY <1>4, <1>5

\* There are the halves up to the n-th.
LEMMA HalvedExists ==
  ASSUME NEW a \in Nat, NEW n \in Nat
  PROVE  \E f : HalvedUp(f, a, n)
  <1> DEFINE T == {m \in Nat : \E f : HalvedUp(f, a, m)}
  <1>1. 0 \in T
    <2> DEFINE g == [i \in 0..0 |-> a]
    <2>1. HalvedUp(g, a, 0) BY DEF HalvedUp
    <2> QED BY <2>1
  <1>2. ASSUME NEW m \in Nat, m \in T PROVE m + 1 \in T
    <2>1. PICK f : HalvedUp(f, a, m) BY <1>2
    <2>2. \A i \in 0..m : f[i] = IF i = 0 THEN a ELSE f[i-1] \div 2 BY <2>1 DEF HalvedUp
    <2> DEFINE g == [i \in 0..(m + 1) |-> IF i = m + 1 THEN f[m] \div 2 ELSE f[i]]
    <2>3. \A i \in 0..(m + 1) : g[i] = IF i = m + 1 THEN f[m] \div 2 ELSE f[i] OBVIOUS
    <2>4. g = [i \in 0..(m + 1) |-> g[i]] OBVIOUS
    <2> HIDE DEF g
    <2>5. ASSUME NEW i \in 0..(m + 1) PROVE g[i] = IF i = 0 THEN a ELSE g[i-1] \div 2
      <3>1. CASE i = m + 1
        <4>1. m \in 0..(m + 1) /\ m # m + 1 /\ i # 0 /\ i - 1 = m BY <3>1
        <4>2. g[m] = f[m] /\ g[i] = f[m] \div 2 BY <2>3, <3>1, <4>1
        <4> QED BY <4>1, <4>2
      <3>2. CASE i # m + 1
        <4>1. i \in 0..m /\ (i # 0 => i - 1 \in 0..(m + 1) /\ i - 1 # m + 1) BY <3>2
        <4>2. g[i] = f[i] /\ (i # 0 => g[i-1] = f[i-1]) BY <2>3, <3>2, <4>1
        <4> QED BY <2>2, <4>1, <4>2
      <3> QED BY <3>1, <3>2
    <2>6. HalvedUp(g, a, m + 1) BY <2>4, <2>5 DEF HalvedUp
    <2> QED BY <2>6
  <1> HIDE DEF T
  <1>3. n \in T BY <1>1, <1>2, NumberInduction
  <1> QED BY <1>3 DEF T

\* The rewards of the eras are whole numbers of units.
LEMMA ErasAreNat ==
  ASSUME NEW c \in Halving, NEW era \in 0..(Eras - 1)
  PROVE  EraRewards(c)[era] \in Nat
  <1> DEFINE a == Subsidy[c] * Owlings
             n == Eras - 1
             eras[i \in 0..(Eras - 1)] ==
               IF i = 0 THEN Subsidy[c] * Owlings ELSE eras[i-1] \div 2
  <1>1. a \in Nat /\ n \in Nat BY CoinsAssumption, TableAssumption DEF Eras
  <1>2. eras = [i \in 0..(Eras - 1) |-> IF i = 0 THEN Subsidy[c] * Owlings ELSE eras[i-1] \div 2]
    <2> SUFFICES \E f : f = [i \in 0..(Eras - 1) |->
                               IF i = 0 THEN Subsidy[c] * Owlings ELSE f[i-1] \div 2]
      OBVIOUS
    <2>1. \E f : HalvedUp(f, a, n)
      <3> HIDE DEF a, n
      <3> QED BY <1>1, HalvedExists
    <2> QED BY <2>1 DEF HalvedUp
  <1>3. EraRewards(c) = eras BY DEF EraRewards
  <1> HIDE DEF eras
  <1>4. HalvedUp(eras, a, n) BY <1>2 DEF HalvedUp
  <1> HIDE DEF a
  <1>5. eras \in [0..n -> Nat]
    <2> HIDE DEF n
    <2> QED BY <1>1, <1>4, HalvedIsNat
  <1> QED BY <1>3, <1>5

\* What a coin that halves pays, where the explorer knows it.
LEMMA HalvingRewards ==
  ASSUME coin \in Halving, coin # "rtm", NEW height \in Nat, BlockReward(height) # Undefined
  PROVE  BlockReward(height) \in Nat /\ ChainReward(height) = BlockReward(height)
  <1> DEFINE era == height \div Interval[coin]
  <1>1. Interval[coin] \in Nat \ {0} BY CoinsAssumption
  <1>2. era \in Nat BY <1>1
  <1>3. BlockReward(height) = IF era >= Eras THEN Undefined ELSE EraRewards(coin)[era]
    BY DEF BlockReward, EraReward
  <1> HIDE DEF era
  <1>4. Eras \in Nat BY DEF Eras
  <1>5. ~(era >= Eras) /\ era \in 0..(Eras - 1) BY <1>2, <1>3, <1>4
  <1>6. BlockReward(height) \in Nat BY <1>3, <1>5, ErasAreNat
  <1>7. ChainReward(height) = BlockReward(height)
    <2>1. ~(coin # "rtm" /\ height \div Interval[coin] >= Eras) BY <1>5 DEF era
    <2> QED BY <2>1 DEF ChainReward
  <1> QED BY <1>6, <1>7

\* Within a row the reward of the table falls short of that of the chain by the begun step.
LEMMA RowRewards ==
  ASSUME coin = "rtm", NEW height \in Nat, NEW r \in RowsOf(height)
  PROVE  /\ RowsOf(height) = {r}
         /\ BlockReward(height) \in Int /\ ChainReward(height) \in Int
         /\ BlockReward(height) <= ChainReward(height)
         /\ ChainReward(height) - BlockReward(height) <= Table[r].per * (Owlings - 1)
  <1> DEFINE after == Table[r].after
             less == Table[r].less
             per == Table[r].per
             k == height - after - 1
  <1>1. r \in DOMAIN Table /\ after < height /\ height < Table[r].before BY DEF RowsOf
  <1>2. after \in Nat /\ less \in Nat /\ per \in Nat /\ 719 <= after /\ Table[r].before \in Nat
    BY <1>1, TableAssumption
  <1>3. \A s \in DOMAIN Table : Table[s].after < height /\ height <= Table[s].before => s = r
    <2> SUFFICES ASSUME NEW s \in DOMAIN Table \ {r}, Table[s].after < height,
                        height <= Table[s].before
                 PROVE  FALSE
      OBVIOUS
    <2>1. Table[r].before <= Table[s].after \/ Table[s].before <= Table[r].after
      BY <1>1, TableAssumption
    <2>2. Table[s].after \in Nat /\ Table[s].before \in Nat BY TableAssumption
    <2> QED BY <1>1, <1>2, <2>1, <2>2
  <1>4. \A s \in DOMAIN Table : height < Table[s].before => height <= Table[s].before
    BY TableAssumption
  <1>5. RowsOf(height) = {r} BY <1>3, <1>4 DEF RowsOf
  <1>6. {s \in DOMAIN Table : Table[s].after < height /\ height <= Table[s].before} = {r}
    BY <1>1, <1>2, <1>3
  <1>7. (CHOOSE s \in {r} : TRUE) = r OBVIOUS
  <1>8. ~(height < 720) BY <1>1, <1>2
  <1>9. BlockReward(height) = Usual - (less * Owlings + per * k)
    <2> DEFINE row == Table[CHOOSE s \in RowsOf(height) : TRUE]
    <2>1. RowsOf(height) # {} BY <1>5
    <2>2. TableReward(height) = Usual - (row.less * Owlings + row.per * (height - row.after - 1))
      BY <1>8, <2>1 DEF TableReward
    <2>3. row = Table[r] BY <1>5, <1>7
    <2> HIDE DEF row
    <2> QED BY <2>2, <2>3 DEF BlockReward
  <1>10. ChainReward(height) = Usual - Owlings * (less + per * (k \div Owlings))
    BY <1>6, <1>7 DEF ChainReward
  <1>11. k \in Nat BY <1>1, <1>2
  <1>12. Usual \in Nat /\ Owlings \in Nat \ {0} BY TableAssumption DEF Usual
  <1> HIDE DEF k, less, per, after
  <1> DEFINE q == k \div Owlings
             m == k % Owlings
  <1>13. q \in Nat /\ m \in 0..(Owlings - 1) /\ k = Owlings * q + m BY <1>11, <1>12
  <1>14. ChainReward(height) = Usual - Owlings * (less + per * q) BY <1>10
  <1> HIDE DEF q, m
  <1>15. per * k = per * (Owlings * q) + per * m BY <1>2, <1>12, <1>13
  <1>16. per * (Owlings * q) = Owlings * (per * q) BY <1>2, <1>12, <1>13
  <1>17. per * m >= 0 /\ per * m <= per * (Owlings - 1) BY <1>2, <1>12, <1>13
  <1>18. Owlings * (less + per * q) = less * Owlings + Owlings * (per * q) BY <1>2, <1>12, <1>13
  <1> DEFINE A == less * Owlings
             B == Owlings * (per * q)
             C == per * m
  <1>19. A \in Int /\ B \in Int /\ C \in Int /\ per * (Owlings - 1) \in Int
    BY <1>2, <1>12, <1>13
  <1>20. BlockReward(height) = Usual - (A + (B + C)) /\ ChainReward(height) = Usual - (A + B)
    BY <1>9, <1>14, <1>15, <1>16, <1>18
  <1>21. C >= 0 /\ C <= per * (Owlings - 1) BY <1>17
  <1> HIDE DEF A, B, C
  <1>22. /\ BlockReward(height) \in Int /\ ChainReward(height) \in Int
         /\ BlockReward(height) <= ChainReward(height)
         /\ ChainReward(height) - BlockReward(height) = C
    BY <1>12, <1>19, <1>20, <1>21
  <1> QED BY <1>5, <1>21, <1>22 DEF per

\* Above and between the rows the reward of the table is that of the chain.
LEMMA PlainRewards ==
  ASSUME coin = "rtm", NEW height \in Nat, RowsOf(height) = {},
         ~\E r \in DOMAIN Table : height = Table[r].before
  PROVE  BlockReward(height) \in Int /\ ChainReward(height) = BlockReward(height)
  <1>1. {r \in DOMAIN Table : Table[r].after < height /\ height <= Table[r].before} = {}
    <2> SUFFICES ASSUME NEW r \in DOMAIN Table, Table[r].after < height, height <= Table[r].before
                 PROVE  FALSE
      OBVIOUS
    <2>1. Table[r].before \in Nat BY TableAssumption
    <2>2. height < Table[r].before BY <2>1
    <2> QED BY <2>2 DEF RowsOf
  <1>2. ChainReward(height) = BlockReward(height) BY <1>1 DEF ChainReward
  <1>3. Owlings \in Nat BY TableAssumption
  <1>4. Small \in Int /\ Remnant \in Int /\ Usual \in Int BY <1>3 DEF Small, Remnant, Usual
  <1>5. TableReward(height) \in {Small, Remnant, Usual} BY DEF TableReward
  <1> QED BY <1>2, <1>4, <1>5 DEF BlockReward

-----------------------------------------------------------------------------
(* CoinFigures: the fees of a block *)

\* Nothing sums up to nothing.
LEMMA ZerosSum ==
  ASSUME NEW f, NEW S, IsFiniteSet(S), \A x \in S : f[x] = 0
  PROVE  SumFunctionOnSet(f, S) = 0
  <1> DEFINE F == SumFunctionOnSet(f, S)
  <1>1. F \in Int BY SumLaws
  <1>2. \A x \in S : 0 * f[x] <= f[x] /\ 2 * f[x] <= f[x] /\ f[x] \in Int OBVIOUS
  <1>3. 0 * F <= F BY <1>2, SumsCompare
  <1>4. 2 * F <= F BY <1>2, SumsCompare
  <1> HIDE DEF F
  <1>5. F = 0 BY <1>1, <1>3, <1>4
  <1> QED BY <1>5 DEF F

\* Outputs of one unit sum up to their number.
LEMMA UnitsSum ==
  ASSUME NEW f, NEW S, IsFiniteSet(S), \A x \in S : f[x] = 1
  PROVE  SumFunctionOnSet(f, S) = Cardinality(S)
  <1> DEFINE c == [i \in S |-> Cardinality({t \in S : [s \in S |-> s][t] = i})]
  <1>1. SumFunctionOnSet(c, S) = Cardinality(S)
    <2> DEFINE id == [s \in S |-> s]
    <2>1. \A t \in S : id[t] \in S OBVIOUS
    <2> HIDE DEF id
    <2>2. SumFunctionOnSet([i \in S |-> Cardinality({t \in S : id[t] = i})], S) = Cardinality(S)
      BY <2>1, SumsCount
    <2> QED BY <2>2 DEF id
  <1>2. \A x \in S : c[x] = 1
    <2> SUFFICES ASSUME NEW x \in S PROVE c[x] = 1 OBVIOUS
    <2>1. {t \in S : [s \in S |-> s][t] = x} = {x} OBVIOUS
    <2>2. c[x] = Cardinality({x}) BY <2>1
    <2> QED BY <2>2, FS_Singleton
  <1> HIDE DEF c
  <1>3. SumFunctionOnSet(f, S) = SumFunctionOnSet(c, S)
    <2>1. \A x \in S : f[x] \in Int /\ f[x] = c[x] BY <1>2
    <2> QED BY <2>1, SumsAgree
  <1> QED BY <1>1, <1>3

\* What a coinbase pays in one output, units and a commitment of no value.
OutputsOf(paid, parts) ==
  [n \in 1..(parts + 1) |-> IF n = 1 THEN paid - (parts - 1) ELSE IF n = parts + 1 THEN 0 ELSE 1]

\* The outputs of some value sum up to what was paid.
LEMMA CoinbaseSum ==
  ASSUME NEW parts \in Nat \ {0}, NEW paid \in Int, paid >= parts - 1
  PROVE  LET o == OutputsOf(paid, parts) IN
         SumFunctionOnSet(o, {n \in DOMAIN o : o[n] > 0}) = paid
  <1> DEFINE o == OutputsOf(paid, parts)
             D == 1..(parts + 1)
             P == {n \in D : o[n] > 0}
             Z == {n \in D : ~(o[n] > 0)}
             F(S) == SumFunctionOnSet(o, S)
  <1>1. DOMAIN o = D BY DEF OutputsOf
  <1>2. \A n \in D : o[n] = IF n = 1 THEN paid - (parts - 1) ELSE IF n = parts + 1 THEN 0 ELSE 1
    BY DEF OutputsOf
  <1> HIDE DEF o
  <1>3. \A n \in D : o[n] \in Int /\ (~(o[n] > 0) => o[n] = 0) BY <1>2
  <1>4. IsFiniteSet(D) BY FS_Interval
  <1>5. P \in SUBSET D /\ Z \in SUBSET D /\ P \cap Z = {} /\ P \cup Z = D OBVIOUS
  <1>6. F(D) = F(P) + F(Z)
    <2> HIDE DEF P, Z, D
    <2>1. F(P \cup Z) = F(P) + F(Z) BY <1>3, <1>4, <1>5, SumsJoin
    <2> QED BY <1>5, <2>1
  <1>7. F(Z) = 0
    <2>1. IsFiniteSet(Z) BY <1>4, <1>5, FS_Subset
    <2> QED BY <1>3, <2>1, ZerosSum
  <1>8. F(P) \in Int BY <1>3, <1>4, <1>5, SumLaws
  <1> DEFINE M == 2..parts
  <1>9. F(D) = o[1] + F(D \ {1})
    <2>1. 1 \in D OBVIOUS
    <2> QED BY <1>3, <1>4, <2>1, SumLaws
  <1>10. F(D \ {1}) = o[parts + 1] + F((D \ {1}) \ {parts + 1})
    <2>1. parts + 1 \in D \ {1} /\ D \ {1} \in SUBSET D OBVIOUS
    <2> QED BY <1>3, <1>4, <2>1, SumLaws
  <1>11. F((D \ {1}) \ {parts + 1}) = F(M)
    <2>1. (D \ {1}) \ {parts + 1} = M OBVIOUS
    <2> HIDE DEF D, M
    <2> QED BY <2>1
  <1>12. F(M) = parts - 1
    <2>1. IsFiniteSet(M) /\ Cardinality(M) = parts - 1 BY FS_Interval
    <2>2. \A n \in M : o[n] = 1 BY <1>2
    <2> QED BY <2>1, <2>2, UnitsSum
  <1>13. o[1] = paid - (parts - 1) /\ o[parts + 1] = 0 BY <1>2
  <1> HIDE DEF F, P, Z
  <1>14. F(P) = paid BY <1>6, <1>7, <1>8, <1>9, <1>10, <1>11, <1>12, <1>13
  <1> QED BY <1>1, <1>14 DEF F, P, o

\* A block whose coinbase is looked at claims what the chain pays and its fees.
BlockInv ==
  /\ block.phase \in {"none", "block", "coinbase", "resolved", "rejected"}
  /\ block.phase \in {"block", "coinbase"} =>
       /\ DOMAIN block = {"phase", "height", "claimed", "fees", "outputs"}
       /\ block.height \in Nat /\ block.claimed \in Nat /\ block.fees = Unknown
       /\ \E parts \in 1..MaxParts :
            /\ ChainReward(block.height) + block.claimed >= parts - 1
            /\ block.outputs = OutputsOf(ChainReward(block.height) + block.claimed, parts)
  /\ FeesAreClaimed

\* The fees of a coinbase that paid so much.
LEMMA FeesOfPaid ==
  ASSUME NEW h, NEW parts \in Nat \ {0}, NEW paid \in Int, paid >= parts - 1
  PROVE  BlockFees(OutputsOf(paid, parts), h) = paid - BlockReward(h)
  <1> DEFINE o == OutputsOf(paid, parts)
  <1>1. SumFunctionOnSet(o, {n \in DOMAIN o : o[n] > 0}) = paid BY CoinbaseSum
  <1> HIDE DEF o
  <1>2. BlockFees(o, h) = SumFunctionOnSet(o, {n \in DOMAIN o : o[n] > 0}) - BlockReward(h)
    BY DEF BlockFees
  <1>3. BlockFees(o, h) = paid - BlockReward(h) BY <1>1, <1>2
  <1> QED BY <1>3 DEF o

\* The reward is that of the chain up to a begun step, wherever the figures are claimed.
LEMMA FeesOfCoinbase ==
  ASSUME coin \in Coins, BlockInv, block.phase = "coinbase",
         BlockReward(block.height) # Undefined,
         block' = [block EXCEPT !.phase = "resolved",
                                !.fees = BlockFees(block.outputs, block.height)],
         coin' = coin
  PROVE  FeesAreClaimed'
  <1> DEFINE h == block.height
             fees == BlockFees(block.outputs, h)
             within == IF coin = "rtm" THEN RowsOf(h) ELSE {}
  <1>1. h \in Nat /\ block.claimed \in Nat BY DEF BlockInv
  <1>2. block'.height = h /\ block'.claimed = block.claimed /\ block'.fees = fees
    BY DEF BlockInv
  <1>3. PICK parts \in 1..MaxParts :
          /\ ChainReward(h) + block.claimed >= parts - 1
          /\ block.outputs = OutputsOf(ChainReward(h) + block.claimed, parts)
    BY DEF BlockInv
  <1>4. parts \in Nat \ {0} BY CoinsAssumption
  <1>5. ASSUME ChainReward(h) \in Int
        PROVE  fees = (ChainReward(h) + block.claimed) - BlockReward(h)
    <2>1. ChainReward(h) + block.claimed \in Int BY <1>1, <1>5
    <2>2. BlockFees(OutputsOf(ChainReward(h) + block.claimed, parts), h)
            = (ChainReward(h) + block.claimed) - BlockReward(h)
      <3> DEFINE paid == ChainReward(h) + block.claimed
      <3>1. paid \in Int /\ paid >= parts - 1 BY <1>3, <2>1
      <3> HIDE DEF paid
      <3>2. BlockFees(OutputsOf(paid, parts), h) = paid - BlockReward(h) BY <1>4, <3>1, FeesOfPaid
      <3> QED BY <3>2 DEF paid
    <2>3. fees = BlockFees(OutputsOf(ChainReward(h) + block.claimed, parts), h) BY <1>3, Zenon
    <2> QED BY <2>2, <2>3
  <1> HIDE DEF fees
  <1>6. ASSUME within = {}, ~(coin = "rtm" /\ \E r \in DOMAIN Table : h = Table[r].before)
        PROVE  fees = block.claimed
    <2>1. BlockReward(h) \in Int /\ ChainReward(h) = BlockReward(h)
      <3>1. CASE coin = "rtm" BY <1>1, <1>6, <3>1, PlainRewards
      <3>2. CASE coin # "rtm" BY <1>1, <3>2, HalvingRewards DEF Coins
      <3> QED BY <3>1, <3>2
    <2> QED BY <1>1, <1>5, <2>1
  <1>7. ASSUME NEW r \in within
        PROVE  block.claimed <= fees /\ fees - block.claimed <= Table[r].per * (Owlings - 1)
    <2>1. coin = "rtm" /\ r \in RowsOf(h) OBVIOUS
    <2>2. /\ BlockReward(h) \in Int /\ ChainReward(h) \in Int
          /\ BlockReward(h) <= ChainReward(h)
          /\ ChainReward(h) - BlockReward(h) <= Table[r].per * (Owlings - 1)
      BY <1>1, <2>1, RowRewards
    <2>3. fees = (ChainReward(h) + block.claimed) - BlockReward(h) BY <1>5, <2>2
    <2>4. fees - block.claimed = ChainReward(h) - BlockReward(h) /\ fees \in Int BY <1>1, <2>2, <2>3
    <2>5. block.claimed <= fees BY <1>1, <2>2, <2>3
    <2> QED BY <2>2, <2>4, <2>5
  <1>8. within' = within BY <1>2 DEF RowsOf
  <1> QED BY <1>2, <1>6, <1>7, <1>8 DEF FeesAreClaimed

\* The steps about a block keep what is said of it.
LEMMA BlockStep ==
  ASSUME coin \in Coins, coin' = coin, BlockInv,
         \/ UNCHANGED block
         \/ \E height \in Heights, fees \in ClaimedFees, parts \in 1..MaxParts :
              GetBlock(height, fees, parts)
         \/ BlockAnswers \/ CoinbaseAnswers
  PROVE  BlockInv'
  <1>0. \A height, r : /\ ChainReward(height)' = ChainReward(height)
                       /\ RowsOf(height)' = RowsOf(height)
    BY DEF ChainReward, BlockReward, TableReward, EraReward, RowsOf
  <1>1. CASE UNCHANGED block BY <1>1, <1>0 DEF BlockInv, FeesAreClaimed
  <1>2. ASSUME NEW height \in Heights, NEW fees \in ClaimedFees, NEW parts \in 1..MaxParts,
               GetBlock(height, fees, parts)
        PROVE  BlockInv'
    <2> DEFINE paid == ChainReward(height) + fees
    <2>1. paid >= parts - 1 BY <1>2 DEF GetBlock
    <2>2. block' = [phase |-> "block", height |-> height, claimed |-> fees, fees |-> Unknown,
                    outputs |-> OutputsOf(paid, parts)]
      BY <1>2 DEF GetBlock, OutputsOf
    <2>3. height \in Nat /\ fees \in Nat BY CoinsAssumption
    <2>4. /\ block'.phase = "block" /\ block'.height = height /\ block'.claimed = fees
          /\ block'.fees = Unknown /\ block'.outputs = OutputsOf(paid, parts)
          /\ DOMAIN block' = {"phase", "height", "claimed", "fees", "outputs"}
      BY <2>2
    <2>5. ChainReward(block.height)' = ChainReward(height)
      BY <2>4 DEF ChainReward, BlockReward, TableReward, EraReward, RowsOf
    <2> HIDE DEF paid
    <2>6. /\ ChainReward(block.height)' + block'.claimed >= parts - 1
          /\ block'.outputs = OutputsOf(ChainReward(block.height)' + block'.claimed, parts)
      BY <2>1, <2>4, <2>5 DEF paid
    <2>7. FeesAreClaimed' BY <2>4 DEF FeesAreClaimed
    <2> QED BY <2>3, <2>4, <2>6, <2>7 DEF BlockInv
  <1>3. ASSUME block.phase \in {"block", "coinbase"}, NEW phase \in {"coinbase", "resolved", "rejected"},
               block' = [block EXCEPT !.phase = phase]
        PROVE  BlockInv'
    <2>1. /\ block'.phase = phase /\ block'.height = block.height /\ block'.claimed = block.claimed
          /\ block'.fees = Unknown /\ block'.outputs = block.outputs /\ DOMAIN block' = DOMAIN block
      BY <1>3 DEF BlockInv
    <2>2. FeesAreClaimed' BY <2>1 DEF FeesAreClaimed
    <2> QED BY <1>0, <1>3, <2>1, <2>2 DEF BlockInv
  <1>4. CASE BlockAnswers BY <1>3, <1>4 DEF BlockAnswers
  <1>5. CASE CoinbaseAnswers
    <2>1. CASE block' = [block EXCEPT !.phase = "rejected"] BY <1>3, <1>5, <2>1 DEF CoinbaseAnswers
    <2>2. CASE /\ BlockReward(block.height) # Undefined
               /\ block' = [block EXCEPT !.phase = "resolved",
                                         !.fees = BlockFees(block.outputs, block.height)]
      <3>1. block.phase = "coinbase" BY <1>5 DEF CoinbaseAnswers
      <3>2. FeesAreClaimed' BY <2>2, <3>1, FeesOfCoinbase
      <3>3. block'.phase = "resolved" BY <2>2, <3>1 DEF BlockInv
      <3> QED BY <3>2, <3>3 DEF BlockInv
    <2> QED BY <1>5, <2>1, <2>2 DEF CoinbaseAnswers
  <1> QED BY <1>1, <1>2, <1>4, <1>5

-----------------------------------------------------------------------------
(* CoinFigures: locked coins *)

\* A sequence has each of its elements once.
Once(s) == \A m, n \in DOMAIN s : s[m] = s[n] => m = n

\* A set in some order.
LEMMA InSomeOrder ==
  ASSUME NEW S, IsFiniteSet(S)
  PROVE  SetToSeq(S) \in Seq(S) /\ ToSet(SetToSeq(S)) = S /\ Once(SetToSeq(S))
  <1> DEFINE n == Cardinality(S)
             s == SetToSeq(S)
  <1>1. n \in Nat /\ ExistsBijection(1..n, S) BY FS_CardinalityType
  <1>2. PICK b \in Bijection(1..n, S) : TRUE BY <1>1 DEF ExistsBijection
  <1>3. b \in [1..n -> S] /\ IsInjective(b)
    BY <1>2 DEF Bijection, Injection, Surjection, IsInjective
  <1>4. s \in [1..n -> S] /\ IsInjective(s) BY <1>3 DEF SetToSeq
  <1> HIDE DEF s
  <1>5. Once(s) BY <1>4 DEF IsInjective, Once
  <1>6. s \in Injection(1..n, S) BY <1>4 DEF Injection, IsInjective
  <1>7. IsFiniteSet(1..n) /\ Cardinality(1..n) = n BY <1>1, FS_Interval
  <1>8. s \in Surjection(1..n, S) BY <1>6, <1>7, FS_Injection
  <1>9. ToSet(s) = S BY <1>4, <1>8 DEF ToSet, Surjection
  <1>10. s \in Seq(S) BY <1>1, <1>4
  <1> QED BY <1>5, <1>9, <1>10 DEF s

\* A batch and the rest of a sequence that has each element once.
LEMMA BatchAndRest ==
  ASSUME NEW S, NEW s \in Seq(S), Once(s), NEW n \in 0..Len(s)
  PROVE  LET o == SubSeq(s, 1, n)
             r == SubSeq(s, n + 1, Len(s))
         IN  /\ o \in Seq(S) /\ r \in Seq(S) /\ Len(o) = n
             /\ Once(o) /\ Once(r)
             /\ ToSet(o) \cap ToSet(r) = {} /\ ToSet(o) \cup ToSet(r) = ToSet(s)
  <1> DEFINE o == SubSeq(s, 1, n)
             r == SubSeq(s, n + 1, Len(s))
  <1>1. /\ o \in Seq(S) /\ Len(o) = n /\ DOMAIN o = 1..n
        /\ \A i \in 1..n : o[i] = s[i]
    OBVIOUS
  <1>2. /\ r \in Seq(S) /\ Len(r) = Len(s) - n /\ DOMAIN r = 1..(Len(s) - n)
        /\ \A i \in 1..(Len(s) - n) : r[i] = s[n + i]
    OBVIOUS
  <1>3. DOMAIN s = 1..Len(s) /\ Len(s) \in Nat /\ n \in Nat /\ n <= Len(s) OBVIOUS
  <1> HIDE DEF o, r
  <1>4. \A i, j \in 1..Len(s) : s[i] = s[j] => i = j BY <1>3 DEF Once
  <1>5. Once(o) BY <1>1, <1>3, <1>4 DEF Once
  <1>6. Once(r)
    <2> SUFFICES ASSUME NEW i \in 1..(Len(s) - n), NEW j \in 1..(Len(s) - n), r[i] = r[j]
                 PROVE  i = j
      BY <1>2 DEF Once
    <2>1. n + i \in 1..Len(s) /\ n + j \in 1..Len(s) BY <1>3
    <2>2. s[n + i] = s[n + j] BY <1>2
    <2>3. n + i = n + j BY <1>4, <2>1, <2>2
    <2> QED BY <1>3, <2>3
  <1>7. ToSet(o) \cap ToSet(r) = {}
    <2> SUFFICES ASSUME NEW i \in 1..n, NEW j \in 1..(Len(s) - n), o[i] = r[j] PROVE FALSE
      BY <1>1, <1>2 DEF ToSet
    <2>1. i \in 1..Len(s) /\ n + j \in 1..Len(s) /\ i # n + j BY <1>3
    <2>2. s[i] = s[n + j] BY <1>1, <1>2
    <2> QED BY <1>4, <2>1, <2>2
  <1>8. ToSet(s) \subseteq ToSet(o) \cup ToSet(r)
    <2> SUFFICES ASSUME NEW i \in 1..Len(s) PROVE s[i] \in ToSet(o) \cup ToSet(r)
      BY <1>3 DEF ToSet
    <2>1. CASE i <= n
      <3>1. i \in DOMAIN o /\ o[i] = s[i] BY <1>1, <1>3, <2>1
      <3> QED BY <3>1 DEF ToSet
    <2>2. CASE ~(i <= n)
      <3>1. i - n \in 1..(Len(s) - n) /\ n + (i - n) = i BY <1>3, <2>2
      <3>2. i - n \in DOMAIN r /\ r[i - n] = s[i] BY <1>2, <3>1
      <3> QED BY <3>2 DEF ToSet
    <2> QED BY <2>1, <2>2
  <1>9. ToSet(o) \subseteq ToSet(s)
    <2> SUFFICES ASSUME NEW i \in 1..n PROVE o[i] \in ToSet(s) BY <1>1 DEF ToSet
    <2>1. i \in 1..Len(s) BY <1>3
    <2> QED BY <1>1, <1>3, <2>1 DEF ToSet
  <1>10. ToSet(r) \subseteq ToSet(s)
    <2> SUFFICES ASSUME NEW i \in 1..(Len(s) - n) PROVE r[i] \in ToSet(s) BY <1>2 DEF ToSet
    <2>1. n + i \in 1..Len(s) BY <1>3
    <2> QED BY <1>2, <1>3, <2>1 DEF ToSet
  <1> QED BY <1>1, <1>2, <1>5, <1>6, <1>7, <1>8, <1>9, <1>10 DEF o, r

\* The coins of a list, batch by batch: what is summed up is what is neither out nor left.
Batched(l) ==
  /\ DOMAIN l = {"phase", "listed", "rest", "outputs", "total"}
  /\ l.listed \in SUBSET Nodes
  /\ l.outputs \in Seq(Nodes) /\ Once(l.outputs)
  /\ l.rest \in Seq(Nodes) /\ Once(l.rest)
  /\ ToSet(l.outputs) \cap ToSet(l.rest) = {} /\ ToSet(l.outputs) \cup ToSet(l.rest) \subseteq l.listed
  /\ l.total = SumFunctionOnSet(Value, l.listed \ (ToSet(l.outputs) \cup ToSet(l.rest)))

LockInv ==
  /\ lock.phase \in {"none", "list", "batch", "resolved", "rejected"}
  /\ lock.phase = "batch" => Batched(lock) /\ Len(lock.outputs) \in 1..Batch
  /\ LockedIsComplete

\* What a batch leaves is the next batch, or the sum is complete.
LEMMA NextBatchIsBatched ==
  ASSUME NEW l, DOMAIN l = {"phase", "listed", "rest", "outputs", "total"},
         l.phase = "batch", l.listed \in SUBSET Nodes, l.rest \in Seq(Nodes), Once(l.rest),
         ToSet(l.rest) \subseteq l.listed,
         l.total = SumFunctionOnSet(Value, l.listed \ ToSet(l.rest)),
         lock' = NextBatch(l)
  PROVE  LockInv'
  <1> DEFINE n == Min({Batch, Len(l.rest)})
  <1>1. Batch \in Nat \ {0} /\ Len(l.rest) \in Nat BY CoinsAssumption
  <1>2. n = IF Batch <= Len(l.rest) THEN Batch ELSE Len(l.rest) BY <1>1, MinOfTwo
  <1>3. n \in 0..Len(l.rest) /\ n <= Batch BY <1>1, <1>2
  <1>4. CASE n = 0
    <2>1. Len(l.rest) = 0 BY <1>1, <1>2, <1>4
    <2>2. ToSet(l.rest) = {} BY <2>1 DEF ToSet
    <2>3. lock' = [l EXCEPT !.phase = "resolved"] BY <1>4 DEF NextBatch
    <2>4. lock'.phase = "resolved" /\ lock'.total = l.total /\ lock'.listed = l.listed BY <2>3
    <2>5. l.listed \ ToSet(l.rest) = l.listed BY <2>2
    <2> QED BY <2>4, <2>5 DEF LockInv, LockedIsComplete
  <1>5. CASE n # 0
    <2> DEFINE o == SubSeq(l.rest, 1, n)
               r == SubSeq(l.rest, n + 1, Len(l.rest))
    <2>1. lock' = [l EXCEPT !.phase = "batch", !.outputs = o, !.rest = r] BY <1>5 DEF NextBatch
    <2>2. /\ o \in Seq(Nodes) /\ r \in Seq(Nodes) /\ Len(o) = n
          /\ Once(o) /\ Once(r)
          /\ ToSet(o) \cap ToSet(r) = {} /\ ToSet(o) \cup ToSet(r) = ToSet(l.rest)
      <3> HIDE DEF n
      <3> QED BY <1>3, BatchAndRest
    <2> HIDE DEF o, r, n
    <2>3. /\ DOMAIN lock' = DOMAIN l /\ lock'.phase = "batch" /\ lock'.outputs = o
          /\ lock'.rest = r /\ lock'.total = l.total /\ lock'.listed = l.listed
      BY <2>1
    <2>4. Len(lock'.outputs) \in 1..Batch BY <1>1, <1>3, <1>5, <2>2, <2>3
    <2>5. Batched(lock') BY <2>2, <2>3 DEF Batched
    <2> QED BY <2>3, <2>4, <2>5 DEF LockInv, LockedIsComplete
  <1> QED BY <1>4, <1>5

\* The coins of a batch are counted each once.
LEMMA BatchSum ==
  ASSUME Batched(lock), lock.phase = "batch"
  PROVE  LET paid == lock.total + SumFunction([n \in DOMAIN lock.outputs |-> Value[lock.outputs[n]]])
         IN  paid = SumFunctionOnSet(Value, lock.listed \ ToSet(lock.rest))
  <1> DEFINE o == lock.outputs
             D == DOMAIN o
             O == ToSet(o)
             R == ToSet(lock.rest)
             f == [n \in D |-> Value[o[n]]]
             L == lock.listed
             Done == L \ (O \cup R)
  <1>1. /\ o \in Seq(Nodes) /\ Once(o) /\ L \in SUBSET Nodes
        /\ O \cap R = {} /\ O \cup R \subseteq L /\ lock.total = SumFunctionOnSet(Value, Done)
    BY DEF Batched
  <1>2. IsFiniteSet(Nodes) /\ \A x \in Nodes : Value[x] \in Int BY CoinsAssumption
  <1>3. IsFiniteSet(D) /\ \A n \in D : o[n] \in Nodes
    <2>1. Len(o) \in Nat /\ D = 1..Len(o) /\ \A n \in D : o[n] \in Nodes BY <1>1
    <2> QED BY <2>1, FS_Interval
  <1>4. O = {o[n] : n \in D} BY DEF ToSet
  <1>5. SumFunctionOnSet(f, D) = SumFunctionOnSet(Value, {o[n] : n \in D})
    <2>1. \A n \in D : Value[o[n]] \in Int BY <1>2, <1>3
    <2>2. \A m, n \in D : o[m] = o[n] => m = n BY <1>1 DEF Once
    <2> HIDE DEF D, o
    <2> QED BY <1>3, <2>1, <2>2, SumsRenumber
  <1>6. SumFunction(f) = SumFunctionOnSet(f, D) BY DEF SumFunction
  <1> HIDE DEF O, R
  <1>7. Done \in SUBSET Nodes /\ O \in SUBSET Nodes /\ Done \cap O = {} /\ Done \cup O = L \ R
    BY <1>1
  <1> HIDE DEF Done
  <1>8. SumFunctionOnSet(Value, Done \cup O)
          = SumFunctionOnSet(Value, Done) + SumFunctionOnSet(Value, O)
    BY <1>2, <1>7, SumsJoin
  <1>9. SumFunctionOnSet(f, D) = SumFunctionOnSet(Value, O) BY <1>4, <1>5
  <1> HIDE DEF f, D
  <1>10. lock.total + SumFunction(f) = SumFunctionOnSet(Value, L \ R)
    BY <1>1, <1>6, <1>7, <1>8, <1>9
  <1> QED BY <1>10 DEF f, D, o, R, L

\* The steps about the locked coins keep what is said of them.
LEMMA LockStep ==
  ASSUME coin \in Coins, LockInv,
         UNCHANGED lock \/ AskLocked \/ ListAnswers \/ BatchAnswers
  PROVE  LockInv'
  <1>1. CASE UNCHANGED lock BY <1>1 DEF LockInv, LockedIsComplete, Batched
  <1>2. CASE AskLocked
    <2>1. lock'.phase = "list" BY <1>2 DEF AskLocked
    <2> QED BY <2>1 DEF LockInv, LockedIsComplete
  <1>3. CASE lock' = [phase |-> "rejected"]
    <2>1. lock'.phase = "rejected" BY <1>3
    <2> QED BY <2>1 DEF LockInv, LockedIsComplete
  <1>4. CASE lock' = [phase |-> "resolved", total |-> Unknown]
    <2>1. lock'.phase = "resolved" /\ lock'.total = Unknown BY <1>4
    <2> QED BY <2>1 DEF LockInv, LockedIsComplete
  <1>5. ASSUME NEW listed \in SUBSET Nodes,
               lock' = NextBatch([phase |-> "batch", listed |-> listed, rest |-> SetToSeq(listed),
                                  outputs |-> <<>>, total |-> 0])
        PROVE  LockInv'
    <2> DEFINE l == [phase |-> "batch", listed |-> listed, rest |-> SetToSeq(listed),
                     outputs |-> <<>>, total |-> 0]
    <2>1. IsFiniteSet(Nodes) /\ IsFiniteSet(listed) BY CoinsAssumption, FS_Subset
    <2>2. SetToSeq(listed) \in Seq(listed) /\ ToSet(SetToSeq(listed)) = listed /\ Once(SetToSeq(listed))
      BY <2>1, InSomeOrder
    <2>3. SetToSeq(listed) \in Seq(Nodes)
      <3> DEFINE s == SetToSeq(listed)
      <3>1. Len(s) \in Nat /\ s \in [1..Len(s) -> listed] BY <2>2
      <3> HIDE DEF s
      <3>2. s \in [1..Len(s) -> Nodes] BY <3>1
      <3>3. s \in Seq(Nodes) BY <3>1, <3>2
      <3> QED BY <3>3 DEF s
    <2>4. SumFunctionOnSet(Value, {}) = 0 BY <2>1, CoinsAssumption, SumLaws
    <2>5. /\ DOMAIN l = {"phase", "listed", "rest", "outputs", "total"}
          /\ l.phase = "batch" /\ l.listed = listed /\ l.rest = SetToSeq(listed) /\ l.total = 0
      OBVIOUS
    <2>6. lock' = NextBatch(l) BY <1>5
    <2> HIDE DEF l
    <2>7. l.listed \ ToSet(l.rest) = {} BY <2>2, <2>5
    <2> QED BY <2>2, <2>3, <2>4, <2>5, <2>6, <2>7, NextBatchIsBatched
  <1>6. CASE ListAnswers BY <1>3, <1>4, <1>5, <1>6 DEF ListAnswers
  <1>7. ASSUME lock.phase = "batch",
               lock' = NextBatch([lock EXCEPT !.total = @ + SumFunction([n \in DOMAIN lock.outputs |->
                                    Value[lock.outputs[n]]])])
        PROVE  LockInv'
    <2> DEFINE more == lock.total + SumFunction([n \in DOMAIN lock.outputs |-> Value[lock.outputs[n]]])
               l == [lock EXCEPT !.total = more]
    <2>1. Batched(lock) BY <1>7 DEF LockInv
    <2>2. more = SumFunctionOnSet(Value, lock.listed \ ToSet(lock.rest)) BY <1>7, <2>1, BatchSum
    <2>3. lock' = NextBatch(l) BY <1>7
    <2> HIDE DEF more
    <2>4. /\ DOMAIN l = {"phase", "listed", "rest", "outputs", "total"}
          /\ l.phase = "batch" /\ l.listed = lock.listed /\ l.rest = lock.rest /\ l.total = more
      BY <1>7, <2>1 DEF Batched
    <2> HIDE DEF l
    <2>5. /\ l.listed \in SUBSET Nodes /\ l.rest \in Seq(Nodes) /\ Once(l.rest)
          /\ ToSet(l.rest) \subseteq l.listed
          /\ l.total = SumFunctionOnSet(Value, l.listed \ ToSet(l.rest))
      BY <2>1, <2>2, <2>4 DEF Batched
    <2> QED BY <2>3, <2>4, <2>5, NextBatchIsBatched
  <1>8. CASE BatchAnswers BY <1>3, <1>7, <1>8 DEF BatchAnswers
  <1> QED BY <1>1, <1>2, <1>6, <1>8

-----------------------------------------------------------------------------
FiguresInv == coin \in Coins /\ BlockInv /\ LockInv

\* Initially no block and no locked coins were asked for.
LEMMA FiguresInitially == CoinInit => FiguresInv
  <1> SUFFICES ASSUME CoinInit PROVE FiguresInv OBVIOUS
  <1>1. coin \in Coins /\ block.phase = "none" /\ lock.phase = "none"
    BY DEF CoinInit, NoBlock, NoLock
  <1> QED BY <1>1 DEF FiguresInv, BlockInv, LockInv, FeesAreClaimed, LockedIsComplete

\* Every step keeps both figures.
LEMMA FiguresStep == ASSUME FiguresInv, [CoinNext]_coinVars PROVE FiguresInv'
  <1>1. coin \in Coins /\ BlockInv /\ LockInv BY DEF FiguresInv
  <1>2. coin' = coin
    BY DEF CoinNext, coinVars, GetBlock, BlockAnswers, CoinbaseAnswers, AskLocked, ListAnswers,
           BatchAnswers
  <1>3. BlockInv'
    <2>1. \/ UNCHANGED block
          \/ \E height \in Heights, fees \in ClaimedFees, parts \in 1..MaxParts :
               GetBlock(height, fees, parts)
          \/ BlockAnswers \/ CoinbaseAnswers
      BY DEF CoinNext, coinVars, AskLocked, ListAnswers, BatchAnswers
    <2> QED BY <1>1, <1>2, <2>1, BlockStep
  <1>4. LockInv'
    <2>1. UNCHANGED lock \/ AskLocked \/ ListAnswers \/ BatchAnswers
      BY DEF CoinNext, coinVars, GetBlock, BlockAnswers, CoinbaseAnswers
    <2> QED BY <1>1, <2>1, LockStep
  <1> QED BY <1>1, <1>2, <1>3, <1>4 DEF FiguresInv

\* The fees of a block are what its coinbase claims, up to a begun step of the table, for any
\* coins, any table whose rows do not overlap, and any coinbase.
THEOREM FeesAreWhatIsClaimed == CoinSpec => []FeesAreClaimed
  <1>1. FiguresInv => FeesAreClaimed BY DEF FiguresInv, BlockInv
  <1> QED BY <1>1, FiguresInitially, FiguresStep, PTL DEF CoinSpec

\* Every locked coin is counted once, for lists and batches of any length.
THEOREM LockedCoinsAddUp == CoinSpec => []LockedIsComplete
  <1>1. FiguresInv => LockedIsComplete BY DEF FiguresInv, LockInv
  <1> QED BY <1>1, FiguresInitially, FiguresStep, PTL DEF CoinSpec

\* Every variable of the figures keeps its type.
THEOREM FiguresAreTyped == CoinSpec => []CoinTypeOK
  <1>1. FiguresInv => CoinTypeOK BY DEF FiguresInv, BlockInv, LockInv, CoinTypeOK
  <1> QED BY <1>1, FiguresInitially, FiguresStep, PTL DEF CoinSpec

-----------------------------------------------------------------------------
(* MempoolStats *)

\* What a listed transaction may be answered with: its fee, its size, and when it entered.
IsEntry(t, r) ==
  /\ r.kind = "entry" /\ r.fee = tx[t].fee /\ r.size = tx[t].size
  /\ r.time \in Int /\ r.time <= now + skew

\* What was gathered, and that nothing was answered with an error if nothing left the mempool.
ResultsInv ==
  /\ results = [t \in DOMAIN results |-> results[t]] /\ DOMAIN results \subseteq Txids
  /\ \A t \in DOMAIN results : results[t] \in {Waiting, Null, Error} \/ IsEntry(t, results[t])
  /\ ~left => \A t \in DOMAIN results : t \in DOMAIN pool /\ results[t] # Error

\* The mempool and the clocks.
PoolInv ==
  /\ tx \in [Txids -> [fee : Fees, size : Sizes]]
  /\ DOMAIN pool \subseteq Txids /\ \A t \in DOMAIN pool : pool[t] \in Int /\ pool[t] <= now + skew
  /\ now \in 0..MaxTime /\ skew \in Skews /\ left \in BOOLEAN

\* A summary is of what was gathered, and is not there before.
SummaryInv ==
  summary # NoSummary => Gathered /\ summary.all.count \in 0..Cardinality(Txids)

MempoolInv == PoolInv /\ ResultsInv /\ SummaryInv /\ BreakdownsCoverEntries /\ FeesAddUp

\* The kinds of answers differ.
LEMMA KindsDiffer ==
  /\ Waiting # Null /\ Waiting # Error /\ Null # Error
  /\ \A t, r : IsEntry(t, r) => r \notin {Waiting, Null, Error}
  <1>1. Waiting.kind = "waiting" /\ Null.kind = "null" /\ Error.kind = "error"
    BY DEF Waiting, Null, Error
  <1>2. \A t, r : IsEntry(t, r) => r.kind = "entry" BY DEF IsEntry
  <1> QED BY <1>1, <1>2

\* What was gathered are entries, with a fee, a size and a time, and errors.
LEMMA EntriesTyped ==
  ASSUME PoolInv, ResultsInv
  PROVE  /\ Entries \subseteq Kept /\ Kept \subseteq DOMAIN results
         /\ IsFiniteSet(Kept) /\ IsFiniteSet(Entries)
         /\ Cardinality(Kept) \in 0..Cardinality(Txids)
         /\ \A t \in Entries : /\ IsEntry(t, results[t]) /\ t \in Txids
                               /\ results[t].fee \in Nat /\ results[t].size \in Nat
                               /\ results[t].time \in Int /\ results[t].time <= now + skew
         /\ Gathered => \A t \in Kept \ Entries : results[t] = Error
  <1>1. Entries \subseteq Kept /\ Kept \subseteq DOMAIN results /\ Kept \subseteq Txids
    BY DEF Entries, Kept, ResultsInv
  <1>2. IsFiniteSet(Kept) /\ IsFiniteSet(Entries)
    BY <1>1, FS_Subset, PoolAssumption
  <1>3. Cardinality(Kept) \in 0..Cardinality(Txids)
    <2>1. Cardinality(Kept) <= Cardinality(Txids) BY <1>1, FS_Subset, PoolAssumption
    <2>2. Cardinality(Kept) \in Nat /\ Cardinality(Txids) \in Nat
      BY <1>2, FS_CardinalityType, PoolAssumption
    <2> QED BY <2>1, <2>2
  <1>4. \A t \in DOMAIN results : results[t] \in {Waiting, Null, Error} \/ IsEntry(t, results[t])
    BY DEF ResultsInv
  <1>5. Waiting.kind # "entry" /\ Null.kind # "entry" /\ Error.kind # "entry"
    BY DEF Waiting, Null, Error
  <1>6. ASSUME NEW t \in Entries
        PROVE  /\ IsEntry(t, results[t]) /\ t \in Txids
               /\ results[t].fee \in Nat /\ results[t].size \in Nat
               /\ results[t].time \in Int /\ results[t].time <= now + skew
    <2>1. results[t].kind = "entry" /\ t \in DOMAIN results /\ t \in Txids
      BY <1>1 DEF Entries
    <2>2. IsEntry(t, results[t]) BY <1>4, <1>5, <2>1
    <2>3. tx[t].fee \in Nat /\ tx[t].size \in Nat BY <2>1, PoolAssumption DEF PoolInv
    <2> QED BY <2>1, <2>2, <2>3 DEF IsEntry
  <1>7. ASSUME Gathered, NEW t \in Kept \ Entries PROVE results[t] = Error
    <2>1. t \in DOMAIN results /\ results[t] # Waiting /\ results[t] # Null
      BY <1>1, <1>7 DEF Gathered, Kept
    <2>2. ~IsEntry(t, results[t]) BY <1>7 DEF Entries, IsEntry
    <2> QED BY <1>4, <2>1, <2>2
  <1> QED BY <1>1, <1>2, <1>3, <1>6, <1>7

\* Totals over entries are sums; over anything else they are no number.
LEMMA TotalsAre ==
  ASSUME PoolInv, ResultsInv, NEW S \in SUBSET Kept
  PROVE  LET fee == [t \in S |-> results[t].fee]
             size == [t \in S |-> results[t].size] IN
         IF S \subseteq Entries
         THEN /\ TotalFees(S) = SumFunctionOnSet(fee, S) /\ TotalFees(S) \in Int
              /\ TotalBytes(S) = SumFunctionOnSet(size, S) /\ TotalBytes(S) \in Int
         ELSE TotalFees(S) = NaN /\ TotalBytes(S) = NaN
  <1> DEFINE fee == [t \in S |-> results[t].fee]
             size == [t \in S |-> results[t].size]
  <1>1. CASE ~(S \subseteq Entries) BY <1>1 DEF TotalFees, TotalBytes
  <1>2. CASE S \subseteq Entries
    <2>1. IsFiniteSet(S) BY EntriesTyped, FS_Subset
    <2>2. \A t \in S : results[t].fee \in Int /\ results[t].size \in Int BY <1>2, EntriesTyped
    <2>3. DOMAIN fee = S /\ DOMAIN size = S OBVIOUS
    <2>4. \A t \in S : fee[t] \in Int /\ size[t] \in Int BY <2>2
    <2>5. TotalFees(S) = SumFunction(fee) /\ TotalBytes(S) = SumFunction(size)
      BY <1>2 DEF TotalFees, TotalBytes
    <2> HIDE DEF fee, size
    <2>6. SumFunction(fee) = SumFunctionOnSet(fee, S) /\ SumFunction(size) = SumFunctionOnSet(size, S)
      BY <2>3 DEF SumFunction
    <2>7. SumFunctionOnSet(fee, S) \in Int /\ SumFunctionOnSet(size, S) \in Int
      BY <2>1, <2>4, SumLaws
    <2>8. /\ TotalFees(S) = SumFunctionOnSet(fee, S) /\ TotalFees(S) \in Int
          /\ TotalBytes(S) = SumFunctionOnSet(size, S) /\ TotalBytes(S) \in Int
      BY <2>5, <2>6, <2>7
    <2> QED BY <1>2, <2>8 DEF fee, size
  <1> QED BY <1>1, <1>2

\* Every transaction is in one row of the fees.
LEMMA FeeBuckets ==
  ASSUME PoolInv, ResultsInv, NEW t
  PROVE  /\ FeeBucket(t) \in 1..(Len(Maxima) + 1)
         /\ t \in Entries =>
              /\ FeeBucket(t) > 1 =>
                   Maxima[FeeBucket(t) - 1] * results[t].size <= results[t].fee
              /\ FeeBucket(t) <= Len(Maxima) =>
                   results[t].fee < Maxima[FeeBucket(t)] * results[t].size
  <1> DEFINE beyond(i) == Maxima[i] * results[t].size > results[t].fee
             above == {i \in 1..Len(Maxima) : t \in Entries /\ beyond(i)}
  <1>1. Len(Maxima) \in Nat /\ \A i \in 1..Len(Maxima) : Maxima[i] \in Nat BY MaximaAssumption
  <1>2. FeeBucket(t) = IF above = {} THEN Len(Maxima) + 1 ELSE Min(above) BY DEF FeeBucket
  <1>3. above # {} => Min(above) \in above /\ \A i \in above : Min(above) <= i
    <2> SUFFICES ASSUME above # {} PROVE Min(above) \in above /\ \A i \in above : Min(above) <= i
      OBVIOUS
    <2>1. above \in SUBSET Nat BY <1>1
    <2> HIDE DEF above
    <2>2. \E m \in above : \A i \in above : m <= i BY <2>1, LeastNumber
    <2> QED BY <2>2 DEF Min
  <1>4. t \in Entries => \A i \in 1..Len(Maxima) : ~beyond(i) => Maxima[i] * results[t].size <= results[t].fee
    <2> SUFFICES ASSUME t \in Entries, NEW i \in 1..Len(Maxima), ~beyond(i)
                 PROVE  Maxima[i] * results[t].size <= results[t].fee
      OBVIOUS
    <2>1. Maxima[i] \in Nat /\ results[t].size \in Nat /\ results[t].fee \in Nat
      BY <1>1, EntriesTyped
    <2>2. Maxima[i] * results[t].size \in Int BY <2>1
    <2> QED BY <2>1, <2>2
  <1>5. \A i \in 1..Len(Maxima) : beyond(i) => results[t].fee < Maxima[i] * results[t].size OBVIOUS
  <1>6. \A i \in above : i \in 1..Len(Maxima) /\ t \in Entries /\ beyond(i) OBVIOUS
  <1>7. \A i \in 1..Len(Maxima) : t \in Entries /\ beyond(i) => i \in above OBVIOUS
  <1> HIDE DEF above, beyond
  <1>8. CASE above = {}
    <2>1. FeeBucket(t) = Len(Maxima) + 1 BY <1>2, <1>8
    <2>2. t \in Entries /\ Len(Maxima) >= 1 => ~beyond(Len(Maxima)) BY <1>1, <1>7, <1>8
    <2>3. FeeBucket(t) - 1 = Len(Maxima) /\ ~(FeeBucket(t) <= Len(Maxima)) BY <1>1, <2>1
    <2>4. Len(Maxima) >= 1 => Len(Maxima) \in 1..Len(Maxima) BY <1>1
    <2> QED BY <1>1, <1>4, <2>1, <2>2, <2>3, <2>4
  <1>9. CASE above # {}
    <2> DEFINE b == Min(above)
    <2>1. FeeBucket(t) = b /\ b \in above BY <1>2, <1>3, <1>9
    <2>2. b \in 1..Len(Maxima) /\ beyond(b) BY <1>6, <2>1
    <2>3. t \in Entries /\ b > 1 => b - 1 \in 1..Len(Maxima) /\ ~beyond(b - 1)
      <3> SUFFICES ASSUME t \in Entries, b > 1 PROVE b - 1 \in 1..Len(Maxima) /\ ~beyond(b - 1)
        OBVIOUS
      <3>1. b - 1 \in 1..Len(Maxima) /\ ~(b <= b - 1) BY <1>1, <2>2
      <3> QED BY <1>3, <1>7, <1>9, <3>1
    <2> HIDE DEF b
    <2> QED BY <1>1, <1>4, <1>5, <2>1, <2>2, <2>3
  <1> QED BY <1>8, <1>9

\* The average of a row is between the maxima around it.
LEMMA RowIsWithin ==
  ASSUME PoolInv, ResultsInv, NEW i \in 1..(Len(Maxima) + 1)
  PROVE  LET row == Bucket({t \in Kept : FeeBucket(t) = i}) IN
         row.count > 0 /\ row.totalFees # NaN =>
           /\ i > 1 => Maxima[i - 1] * row.totalBytes <= row.totalFees
           /\ i <= Len(Maxima) => row.totalFees < Maxima[i] * row.totalBytes
  <1> DEFINE S == {t \in Kept : FeeBucket(t) = i}
             row == Bucket(S)
             fee == [t \in S |-> results[t].fee]
             size == [t \in S |-> results[t].size]
  <1>1. row.count = Cardinality(S) /\ row.totalFees = TotalFees(S) /\ row.totalBytes = TotalBytes(S)
    BY DEF Bucket
  <1> SUFFICES ASSUME row.count > 0, row.totalFees # NaN
               PROVE  /\ i > 1 => Maxima[i - 1] * row.totalBytes <= row.totalFees
                      /\ i <= Len(Maxima) => row.totalFees < Maxima[i] * row.totalBytes
    OBVIOUS
  <1>2. S \in SUBSET Kept OBVIOUS
  <1>3. \A t \in S : FeeBucket(t) = i OBVIOUS
  <1>4. \A t \in S : fee[t] = results[t].fee /\ size[t] = results[t].size OBVIOUS
  <1>5. S \subseteq Entries /\ TotalFees(S) = SumFunctionOnSet(fee, S)
        /\ TotalBytes(S) = SumFunctionOnSet(size, S)
    <2> HIDE DEF S, row
    <2> QED BY <1>1, <1>2, TotalsAre
  <1>6. IsFiniteSet(S) BY EntriesTyped, FS_Subset
  <1>7. S # {}
    <2> SUFFICES ASSUME S = {} PROVE FALSE OBVIOUS
    <2>1. Cardinality(S) = 0 BY FS_EmptySet
    <2> QED BY <1>1, <2>1
  <1> HIDE DEF S, row, fee, size
  <1>8. \A t \in S : fee[t] \in Int /\ size[t] \in Int /\ fee[t] \in Nat /\ size[t] \in Nat
    BY <1>4, <1>5, EntriesTyped
  <1>9. Len(Maxima) \in Nat /\ \A j \in 1..Len(Maxima) : Maxima[j] \in Int BY MaximaAssumption
  <1>10. ASSUME i > 1 PROVE Maxima[i - 1] * row.totalBytes <= row.totalFees
    <2>1. \A t \in S : Maxima[i - 1] * size[t] <= fee[t] BY <1>3, <1>4, <1>5, <1>10, FeeBuckets
    <2>2. Maxima[i - 1] \in Int BY <1>9, <1>10
    <2>3. Maxima[i - 1] * SumFunctionOnSet(size, S) <= SumFunctionOnSet(fee, S)
      BY <1>6, <1>8, <2>1, <2>2, SumsCompare
    <2> QED BY <1>1, <1>5, <2>3
  <1>11. ASSUME i <= Len(Maxima) PROVE row.totalFees < Maxima[i] * row.totalBytes
    <2>1. \A t \in S : fee[t] < Maxima[i] * size[t] BY <1>3, <1>4, <1>5, <1>11, FeeBuckets
    <2>2. Maxima[i] \in Int BY <1>9, <1>11
    <2>3. SumFunctionOnSet(fee, S) < Maxima[i] * SumFunctionOnSet(size, S)
      BY <1>6, <1>7, <1>8, <2>1, <2>2, SumsCompare
    <2> QED BY <1>1, <1>5, <2>3
  <1> QED BY <1>10, <1>11

\* An entry is in one of the sizes, and nothing else is.
LEMMA SizeIndexes ==
  ASSUME PoolInv, ResultsInv, NEW t
  PROVE  IF t \in Entries THEN SizeIndex(t) \in 0..(SizeBuckets - 1) ELSE SizeIndex(t) = NaN
  <1>1. CASE t \notin Entries BY <1>1 DEF SizeIndex
  <1>2. CASE t \in Entries
    <2> DEFINE size == results[t].size
               i == (size * SizeBuckets) \div LargeSize
    <2>1. size \in Nat /\ SizeBuckets \in Nat \ {0} /\ LargeSize \in Nat \ {0}
      BY <1>2, EntriesTyped, BucketsAssumption
    <2>2. size * SizeBuckets \in Nat BY <2>1
    <2>3. i \in Nat
      <3> DEFINE a == size * SizeBuckets
      <3> HIDE DEF a
      <3>1. a \div LargeSize \in Nat BY <2>1, <2>2 DEF a
      <3> QED BY <3>1 DEF a
    <2>4. SizeIndex(t) = Min({SizeBuckets - 1, i}) BY <1>2 DEF SizeIndex
    <2> HIDE DEF i
    <2>5. SizeIndex(t) = IF SizeBuckets - 1 <= i THEN SizeBuckets - 1 ELSE i
      BY <2>1, <2>3, <2>4 DEF Min
    <2> QED BY <1>2, <2>1, <2>3, <2>5
  <1> QED BY <1>1, <1>2

\* A share of what is not negative is read as one that is not negative.
LEMMA ParsedShare ==
  ASSUME NEW n \in Nat, NEW d \in Nat \ {0}
  PROVE  Parsed(n, d) \subseteq Nat
  <1>1. n \div d \in Nat OBVIOUS
  <1>2. ~(n < 0) OBVIOUS
  <1> QED BY <1>1, <1>2 DEF Parsed

\* No transaction is older than the oldest.
LEMMA OldestIs ==
  ASSUME PoolInv, ResultsInv, NEW at \in Int
  PROVE  MaxAge(at) \in Nat /\ \A t \in Entries : Age(t, at) <= MaxAge(at)
  <1> DEFINE ages == {Age(t, at) : t \in Entries}
             S == {0} \cup ages
  <1>1. \A t \in Entries : Age(t, at) \in Int BY EntriesTyped DEF Age
  <1>2. IsFiniteSet(ages)
    <2> DEFINE age == [t \in Entries |-> Age(t, at)]
    <2>1. IsFiniteSet(Entries) BY EntriesTyped
    <2>2. ages = {age[t] : t \in Entries} OBVIOUS
    <2> HIDE DEF age, ages
    <2>3. IsFiniteSet({age[t] : t \in Entries}) BY <2>1, FiniteImage
    <2> QED BY <2>2, <2>3
  <1>3. IsFiniteSet(S)
    <2>1. IsFiniteSet(ages \cup {0}) BY <1>2, FS_AddElement
    <2> QED BY <2>1
  <1>4. S \in SUBSET Int /\ S # {} BY <1>1
  <1>5. MaxAge(at) = Max(S) BY DEF MaxAge
  <1>6. 0 \in S /\ \A t \in Entries : Age(t, at) \in S OBVIOUS
  <1> HIDE DEF S
  <1>7. Max(S) \in S /\ \A x \in S : x <= Max(S) BY <1>3, <1>4, LargestIs
  <1>8. Max(S) \in Int /\ 0 <= Max(S) BY <1>4, <1>6, <1>7
  <1>9. \A t \in Entries : Age(t, at) <= Max(S) BY <1>6, <1>7
  <1> HIDE DEF ages
  <1> QED BY <1>5, <1>8, <1>9

\* If the clocks agree and something is older than the summary, an entry is in one of the ages.
LEMMA AgesWithin ==
  ASSUME PoolInv, ResultsInv, NEW at \in Int, NEW t, NEW i \in AgeIndexes(t, at, MaxAge(now)),
         now <= at
  PROVE  /\ t \notin Entries => i = NaN
         /\ t \in Entries /\ skew = 0 /\ (\E u \in Entries : results[u].time < now) =>
              i \in 0..(AgeBuckets - 1)
  <1> DEFINE oldest == MaxAge(now)
  <1>1. now \in Int BY DEF PoolInv
  <1>2. oldest \in Nat /\ \A u \in Entries : Age(u, now) <= oldest BY <1>1, OldestIs
  <1>3. t \notin Entries => i = NaN BY DEF AgeIndexes
  <1>4. ASSUME t \in Entries, skew = 0, NEW u \in Entries, results[u].time < now
        PROVE  i \in 0..(AgeBuckets - 1)
    <2>1. oldest > 0
      <3>1. Age(u, now) > 0 BY <1>1, <1>4, EntriesTyped DEF Age
      <3>2. Age(u, now) \in Int BY <1>1, <1>4, EntriesTyped DEF Age
      <3> QED BY <1>2, <1>4, <3>1, <3>2
    <2>2. Age(t, at) \in Nat
      <3>1. results[t].time \in Int /\ results[t].time <= now BY <1>1, <1>4, EntriesTyped
      <3> QED BY <1>1, <3>1 DEF Age
    <2>3. AgeBuckets \in Nat \ {0} BY BucketsAssumption
    <2>4. Age(t, at) * AgeBuckets \in Nat BY <2>2, <2>3
    <2> HIDE DEF oldest
    <2>5. Parsed(Age(t, at) * AgeBuckets, oldest) \subseteq Nat BY <1>2, <2>1, <2>4, ParsedShare
    <2>6. i \in {Min({AgeBuckets - 1, j}) : j \in Parsed(Age(t, at) * AgeBuckets, oldest)}
      BY <1>4, <2>1 DEF AgeIndexes, oldest
    <2>7. PICK j \in Parsed(Age(t, at) * AgeBuckets, oldest) : i = Min({AgeBuckets - 1, j})
      BY <2>6
    <2>8. j \in Nat BY <2>5
    <2>9. i = IF AgeBuckets - 1 <= j THEN AgeBuckets - 1 ELSE j BY <2>3, <2>7, <2>8 DEF Min
    <2> QED BY <2>3, <2>8, <2>9
  <1> QED BY <1>3, <1>4

\* Of what has an place some has none among the buckets: the rest is counted once.
LEMMA BucketsCount ==
  ASSUME NEW K, NEW E \in SUBSET K, IsFiniteSet(E), NEW place, NEW B, IsFiniteSet(B),
         \A t \in E : place[t] \in B, \A t \in K \ E : place[t] \notin B
  PROVE  SumFunction([i \in B |-> Cardinality({t \in K : place[t] = i})]) = Cardinality(E)
  <1> DEFINE f == [i \in B |-> Cardinality({t \in K : place[t] = i})]
             g == [i \in B |-> Cardinality({t \in E : place[t] = i})]
  <1>2. SumFunctionOnSet(g, B) = Cardinality(E)
    <2>1. \A t \in E : place[t] \in B OBVIOUS
    <2> QED BY <2>1, SumsCount
  <1>3. f = g
    <2>1. \A i \in B : {t \in K : place[t] = i} = {t \in E : place[t] = i} OBVIOUS
    <2> QED BY <2>1
  <1>4. DOMAIN f = B OBVIOUS
  <1> HIDE DEF f, g
  <1>5. SumFunction(f) = Cardinality(E) BY <1>2, <1>3, <1>4 DEF SumFunction
  <1> QED BY <1>5 DEF f

\* A summary is of what was gathered: its breakdowns count it, and its fees are its fees.
LEMMA SummaryIsSound ==
  ASSUME PoolInv, ResultsInv, Summarise
  PROVE  /\ Gathered /\ summary'.all = Bucket(Kept)
         /\ SumFunction([i \in DOMAIN summary'.fees |-> summary'.fees[i].count]) = summary'.all.count
         /\ \A i \in DOMAIN summary'.fees :
              LET row == summary'.fees[i] IN
              row.count > 0 /\ row.totalFees # NaN =>
                /\ i > 1 => Maxima[i - 1] * row.totalBytes <= row.totalFees
                /\ i <= Len(Maxima) => row.totalFees < Maxima[i] * row.totalBytes
         /\ SumFunction(summary'.sizes) = Cardinality(Entries)
         /\ skew = 0 /\ (\E t \in Entries : results[t].time < summary'.at) =>
              SumFunction(summary'.ages) = Cardinality(Entries)
  <1> DEFINE Rows == 1..(Len(Maxima) + 1)
             fees == [i \in Rows |-> Bucket({t \in Kept : FeeBucket(t) = i})]
             sizes == [i \in 0..(SizeBuckets - 1) |-> Cardinality({t \in Kept : SizeIndex(t) = i})]
             ages(place) == [i \in 0..(AgeBuckets - 1) |-> Cardinality({t \in Kept : place[t] = i})]
  <1>1. /\ Gathered /\ now' \in {now, now + 1}
        /\ \E place \in [Kept -> UNION {AgeIndexes(t, now', MaxAge(now)) : t \in Kept}] :
             /\ \A t \in Kept : place[t] \in AgeIndexes(t, now', MaxAge(now))
             /\ summary' = [at |-> now, all |-> Bucket(Kept), fees |-> fees,
                            ages |-> ages(place), sizes |-> sizes]
    BY DEF Summarise
  <1>2. PICK place :
          /\ \A t \in Kept : place[t] \in AgeIndexes(t, now', MaxAge(now))
          /\ summary' = [at |-> now, all |-> Bucket(Kept), fees |-> fees,
                         ages |-> ages(place), sizes |-> sizes]
    BY <1>1
  <1> HIDE DEF fees, sizes, ages
  <1>3. /\ summary'.at = now /\ summary'.all = Bucket(Kept) /\ summary'.fees = fees
        /\ summary'.ages = ages(place) /\ summary'.sizes = sizes
    BY <1>2
  <1>4. /\ IsFiniteSet(Kept) /\ Entries \in SUBSET Kept /\ IsFiniteSet(Entries) BY EntriesTyped
  <1>5. now \in Int /\ now' \in Int /\ now <= now'
    <2>1. now \in Int BY DEF PoolInv
    <2> QED BY <1>1, <2>1
  <1>6. ASSUME NEW B, IsFiniteSet(B), NEW in,
               \A t \in Entries : in[t] \in B, \A t \in Kept \ Entries : in[t] \notin B
        PROVE  SumFunction([i \in B |-> Cardinality({t \in Kept : in[t] = i})]) = Cardinality(Entries)
    BY <1>4, <1>6, BucketsCount
  <1>7. ASSUME NEW B, IsFiniteSet(B), NEW in, \A t \in Kept : in[t] \in B
        PROVE  SumFunction([i \in B |-> Cardinality({t \in Kept : in[t] = i})]) = Cardinality(Kept)
    <2> DEFINE f == [i \in B |-> Cardinality({t \in Kept : in[t] = i})]
    <2>1. SumFunctionOnSet(f, B) = Cardinality(Kept) BY <1>4, <1>7, SumsCount
    <2>2. DOMAIN f = B OBVIOUS
    <2> HIDE DEF f
    <2>3. SumFunction(f) = Cardinality(Kept) BY <2>1, <2>2 DEF SumFunction
    <2> QED BY <2>3 DEF f
  <1>8. DOMAIN fees = Rows /\ \A i \in Rows : fees[i] = Bucket({t \in Kept : FeeBucket(t) = i})
    BY DEF fees
  <1>9. SumFunction([i \in Rows |-> fees[i].count]) = Cardinality(Kept)
    <2> DEFINE row == [t \in Kept |-> FeeBucket(t)]
               f == [i \in Rows |-> Cardinality({t \in Kept : row[t] = i})]
    <2>1. IsFiniteSet(Rows) BY FS_Interval, MaximaAssumption
    <2>2. \A t \in Kept : row[t] \in Rows BY FeeBuckets
    <2>3. [i \in Rows |-> fees[i].count] = f
      <3>1. \A i \in Rows : {t \in Kept : row[t] = i} = {t \in Kept : FeeBucket(t) = i} OBVIOUS
      <3>2. \A i \in Rows : fees[i].count = Cardinality({t \in Kept : FeeBucket(t) = i})
        <4>1. \A S : Bucket(S).count = Cardinality(S) BY DEF Bucket
        <4> QED BY <1>8, <4>1
      <3> HIDE DEF Rows, row
      <3> QED BY <3>1, <3>2
    <2> HIDE DEF Rows, row
    <2>4. SumFunction(f) = Cardinality(Kept) BY <1>7, <2>1, <2>2
    <2> QED BY <2>3, <2>4
  <1>10. SumFunction(sizes) = Cardinality(Entries)
    <2> DEFINE B == 0..(SizeBuckets - 1)
               size == [t \in Kept |-> SizeIndex(t)]
               f == [i \in B |-> Cardinality({t \in Kept : size[t] = i})]
    <2>1. IsFiniteSet(B)
      <3>1. SizeBuckets - 1 \in Int BY BucketsAssumption
      <3> QED BY <3>1, FS_Interval
    <2>2. (\A t \in Entries : size[t] \in B) /\ \A t \in Kept \ Entries : size[t] \notin B
      <3>1. NaN \notin B BY PoolAssumption
      <3> QED BY <1>4, <3>1, SizeIndexes
    <2>3. sizes = f
      <3>1. \A i \in B : {t \in Kept : size[t] = i} = {t \in Kept : SizeIndex(t) = i} OBVIOUS
      <3> HIDE DEF size
      <3> QED BY <3>1 DEF sizes
    <2> HIDE DEF B, size
    <2>4. SumFunction(f) = Cardinality(Entries) BY <2>1, <2>2, <1>6
    <2> QED BY <2>3, <2>4
  <1>11. ASSUME skew = 0, NEW u \in Entries, results[u].time < now
        PROVE  SumFunction(ages(place)) = Cardinality(Entries)
    <2> DEFINE B == 0..(AgeBuckets - 1)
    <2>1. IsFiniteSet(B)
      <3>1. AgeBuckets - 1 \in Int BY BucketsAssumption
      <3> QED BY <3>1, FS_Interval
    <2>2. (\A t \in Entries : place[t] \in B) /\ \A t \in Kept \ Entries : place[t] \notin B
      <3>1. NaN \notin B BY PoolAssumption
      <3>2. \A t \in Kept : /\ t \notin Entries => place[t] = NaN
                            /\ t \in Entries => place[t] \in B
        BY <1>2, <1>5, <1>11, AgesWithin
      <3> QED BY <1>4, <3>1, <3>2
    <2>3. ages(place) = [i \in B |-> Cardinality({t \in Kept : place[t] = i})] BY DEF ages
    <2> HIDE DEF B
    <2>4. SumFunction([i \in B |-> Cardinality({t \in Kept : place[t] = i})]) = Cardinality(Entries)
      BY <2>1, <2>2, <1>6
    <2> QED BY <2>3, <2>4
  <1>12. summary'.all.count = Cardinality(Kept) BY <1>3 DEF Bucket
  <1>13. \A i \in Rows : LET row == fees[i] IN
           row.count > 0 /\ row.totalFees # NaN =>
             /\ i > 1 => Maxima[i - 1] * row.totalBytes <= row.totalFees
             /\ i <= Len(Maxima) => row.totalFees < Maxima[i] * row.totalBytes
    BY <1>8, RowIsWithin
  <1> HIDE DEF Rows
  <1> QED BY <1>1, <1>3, <1>8, <1>9, <1>10, <1>11, <1>12, <1>13

\* What was gathered without an error, of a mempool nothing left, has the fees of that mempool.
LEMMA FeesOfSummary ==
  ASSUME PoolInv, ResultsInv, Gathered, ~left, Kept = DOMAIN results
  PROVE  TotalFees(Kept) = SumFunction([t \in DOMAIN results |-> tx[t].fee])
  <1> DEFINE fee == [t \in Kept |-> results[t].fee]
             paid == [t \in Kept |-> tx[t].fee]
  <1>1. Kept \subseteq Entries BY EntriesTyped DEF ResultsInv
  <1>2. TotalFees(Kept) = SumFunctionOnSet(fee, Kept) BY <1>1, TotalsAre
  <1>3. IsFiniteSet(Kept) BY EntriesTyped
  <1>4. \A t \in Kept : fee[t] \in Int /\ fee[t] = paid[t] BY <1>1, EntriesTyped DEF IsEntry
  <1>5. DOMAIN paid = Kept OBVIOUS
  <1> HIDE DEF fee, paid
  <1>6. SumFunctionOnSet(fee, Kept) = SumFunctionOnSet(paid, Kept) BY <1>3, <1>4, SumsAgree
  <1>7. SumFunction(paid) = SumFunctionOnSet(paid, Kept) BY <1>5 DEF SumFunction
  <1>8. TotalFees(Kept) = SumFunction(paid) BY <1>2, <1>6, <1>7
  <1> QED BY <1>8 DEF paid

\* Initially nothing was listed.
LEMMA MempoolInitially == MempoolInit => MempoolInv
  <1> SUFFICES ASSUME MempoolInit PROVE MempoolInv OBVIOUS
  <1>1. PoolInv
    <2>1. tx \in [Txids -> [fee : Fees, size : Sizes]] /\ skew \in Skews BY DEF MempoolInit
    <2>2. DOMAIN pool = {} /\ left \in BOOLEAN BY DEF MempoolInit
    <2>3. now \in 0..MaxTime BY PoolAssumption DEF MempoolInit
    <2> QED BY <2>1, <2>2, <2>3 DEF PoolInv
  <1>2. ResultsInv BY DEF MempoolInit, ResultsInv
  <1>3. summary = NoSummary BY DEF MempoolInit
  <1> QED BY <1>1, <1>2, <1>3 DEF MempoolInv, SummaryInv, BreakdownsCoverEntries, FeesAddUp

\* A summary is judged by what was gathered, and by whether something left since.
LEMMA SummaryStays ==
  ASSUME MempoolInv, UNCHANGED <<tx, results, summary, skew>>, left => left'
  PROVE  SummaryInv' /\ BreakdownsCoverEntries' /\ FeesAddUp'
  <1>1. Kept' = Kept /\ Entries' = Entries /\ Gathered' = Gathered /\ RowsMatchLabels' = RowsMatchLabels
    BY DEF Kept, Entries, Gathered, RowsMatchLabels
  <1>2. SummaryInv' BY <1>1 DEF MempoolInv, SummaryInv
  <1>3. BreakdownsCoverEntries' BY <1>1 DEF MempoolInv, BreakdownsCoverEntries
  <1>4. FeesAddUp' BY <1>1 DEF MempoolInv, FeesAddUp
  <1> QED BY <1>2, <1>3, <1>4

\* What was gathered stays as it is while the clock goes on and nothing is answered.
LEMMA ResultsStay ==
  ASSUME MempoolInv, UNCHANGED <<tx, results, skew>>, now' \in Int, now <= now',
         left' = left, DOMAIN pool \subseteq DOMAIN pool'
  PROVE  ResultsInv'
  <1>1. now \in Int /\ skew \in Int BY PoolAssumption DEF MempoolInv, PoolInv
  <1>2. ASSUME NEW t, IsEntry(t, results[t]) PROVE IsEntry(t, results[t])'
    BY <1>1, <1>2 DEF IsEntry
  <1> QED BY <1>2 DEF MempoolInv, ResultsInv

\* A summary stays as it is while the mempool moves.
LEMMA PoolKeepsSummary ==
  ASSUME MempoolInv, NEW t, (t \in Txids /\ (Enters(t) \/ Leaves(t))) \/ Tick \/ UNCHANGED mempoolVars
  PROVE  MempoolInv'
  <1>1. UNCHANGED <<tx, results, summary, skew>> /\ (left => left')
    BY DEF Enters, Leaves, Tick, mempoolVars
  <1>2. SummaryInv' /\ BreakdownsCoverEntries' /\ FeesAddUp' BY <1>1, SummaryStays
  <1>3. now \in 0..MaxTime /\ skew \in Int /\ MaxTime \in Nat BY PoolAssumption DEF MempoolInv, PoolInv
  <1>4. PoolInv BY DEF MempoolInv
  <1>5. CASE t \in Txids /\ Enters(t)
    <2>1. /\ DOMAIN pool' = DOMAIN pool \cup {t} /\ UNCHANGED <<now, left>>
          /\ \A u \in DOMAIN pool' : pool'[u] = IF u = t THEN now + skew ELSE pool[u]
      BY <1>5 DEF Enters
    <2>2. PoolInv'
      <3>1. \A u \in DOMAIN pool' : pool'[u] \in Int /\ pool'[u] <= (now + skew)'
        BY <1>1, <1>3, <1>4, <2>1 DEF PoolInv
      <3> QED BY <1>1, <1>4, <1>5, <2>1, <3>1 DEF PoolInv
    <2>3. ResultsInv' BY <1>1, <1>3, <2>1, ResultsStay
    <2> QED BY <1>2, <2>2, <2>3 DEF MempoolInv
  <1>6. CASE t \in Txids /\ Leaves(t)
    <2>1. /\ DOMAIN pool' = DOMAIN pool \ {t} /\ now' = now /\ left' = TRUE
          /\ \A u \in DOMAIN pool' : pool'[u] = pool[u]
      BY <1>6 DEF Leaves
    <2>2. PoolInv'
      <3>1. \A u \in DOMAIN pool' : pool'[u] \in Int /\ pool'[u] <= (now + skew)'
        BY <1>1, <1>4, <2>1 DEF PoolInv
      <3>2. left' \in BOOLEAN BY <2>1
      <3> QED BY <1>1, <1>4, <2>1, <3>1, <3>2 DEF PoolInv
    <2>3. ResultsInv' BY <1>1, <2>1 DEF MempoolInv, ResultsInv, IsEntry
    <2> QED BY <1>2, <2>2, <2>3 DEF MempoolInv
  <1>7. CASE Tick
    <2>1. now < MaxTime /\ now' = now + 1 /\ UNCHANGED <<pool, left>> BY <1>7 DEF Tick
    <2>2. PoolInv'
      <3>1. \A u \in DOMAIN pool : pool[u] \in Int /\ pool[u] <= now + 1 + skew
        BY <1>3, <1>4 DEF PoolInv
      <3> QED BY <1>1, <1>3, <1>4, <2>1, <3>1 DEF PoolInv
    <2>3. ResultsInv' BY <1>1, <1>3, <2>1, ResultsStay
    <2> QED BY <1>2, <2>2, <2>3 DEF MempoolInv
  <1>8. CASE UNCHANGED mempoolVars
    <2>1. UNCHANGED <<pool, now, left>> BY <1>8 DEF mempoolVars
    <2>2. PoolInv' BY <1>1, <1>4, <2>1 DEF PoolInv
    <2>3. ResultsInv' BY <1>1, <1>3, <2>1, ResultsStay
    <2> QED BY <1>2, <2>2, <2>3 DEF MempoolInv
  <1> QED BY <1>5, <1>6, <1>7, <1>8

\* The mempool is listed.
LEMMA ListKeepsSummary == ASSUME MempoolInv, List PROVE MempoolInv'
  <1>1. /\ results' = [t \in DOMAIN pool |-> Waiting] /\ summary' = NoSummary
        /\ left' = FALSE /\ UNCHANGED <<tx, pool, now, skew>>
    BY DEF List
  <1>2. PoolInv' BY <1>1 DEF MempoolInv, PoolInv
  <1>3. ResultsInv'
    <2>1. DOMAIN results' = DOMAIN pool /\ \A t \in DOMAIN pool : results'[t] = Waiting BY <1>1
    <2>2. DOMAIN pool \subseteq Txids BY DEF MempoolInv, PoolInv
    <2> QED BY <1>1, <2>1, <2>2, KindsDiffer DEF ResultsInv
  <1> QED BY <1>1, <1>2, <1>3 DEF MempoolInv, SummaryInv, BreakdownsCoverEntries, FeesAddUp

\* A listed transaction is answered, or its call fails.
LEMMA AnswerKeepsSummary ==
  ASSUME MempoolInv, NEW t \in Txids, AnswersEntry(t) \/ FailsEntry(t)
  PROVE  MempoolInv'
  <1>1. /\ t \in DOMAIN results /\ results[t] = Waiting /\ UNCHANGED <<tx, pool, now, skew, summary, left>>
        /\ \E r : results' = [results EXCEPT ![t] = r]
                  /\ (r \in {Null} \/ (t \in DOMAIN pool /\ r = Result(t))
                        \/ (t \notin DOMAIN pool /\ r = Error))
    BY DEF AnswersEntry, FailsEntry
  <1>2. PICK r : results' = [results EXCEPT ![t] = r]
                  /\ (r \in {Null} \/ (t \in DOMAIN pool /\ r = Result(t))
                        \/ (t \notin DOMAIN pool /\ r = Error))
    BY <1>1
  <1>3. summary = NoSummary BY <1>1 DEF MempoolInv, SummaryInv, Gathered
  <1>4. PoolInv' BY <1>1 DEF MempoolInv, PoolInv
  <1>5. PoolInv /\ ResultsInv BY DEF MempoolInv
  <1>6. t \in DOMAIN pool => IsEntry(t, Result(t)) BY <1>5 DEF PoolInv, IsEntry, Result
  <1>7. /\ DOMAIN results' = DOMAIN results /\ results'[t] = r
        /\ results' = [u \in DOMAIN results' |-> results'[u]]
        /\ \A u \in DOMAIN results \ {t} : results'[u] = results[u]
    <2>1. results = [u \in DOMAIN results |-> results[u]] BY <1>5 DEF ResultsInv
    <2> QED BY <1>1, <1>2, <2>1
  <1>8. ResultsInv'
    <2>1. \A u, q : IsEntry(u, q)' = IsEntry(u, q) BY <1>1 DEF IsEntry
    <2>2. r \in {Null, Error} \/ IsEntry(t, r) BY <1>2, <1>6
    <2>3. ~left => r # Error
      <3>1. ~left => t \in DOMAIN pool BY <1>1, <1>5 DEF ResultsInv
      <3> QED BY <1>2, <1>6, <3>1, KindsDiffer
    <2>4. \A u \in DOMAIN results' : results'[u] \in {Waiting, Null, Error} \/ IsEntry(u, results'[u])
      BY <1>5, <1>7, <2>2 DEF ResultsInv
    <2>5. ~left => \A u \in DOMAIN results' : u \in DOMAIN pool /\ results'[u] # Error
      BY <1>5, <1>7, <2>3 DEF ResultsInv
    <2>6. DOMAIN results' \subseteq Txids BY <1>5, <1>7 DEF ResultsInv
    <2> QED BY <1>1, <1>7, <2>1, <2>4, <2>5, <2>6 DEF ResultsInv, IsEntry
  <1> QED BY <1>1, <1>3, <1>4, <1>8 DEF MempoolInv, SummaryInv, BreakdownsCoverEntries, FeesAddUp

\* The summary is made.
LEMMA SummariseIsSound == ASSUME MempoolInv, Summarise PROVE MempoolInv'
  <1>1. PoolInv /\ ResultsInv BY DEF MempoolInv
  <1>2. now' \in {now, now + 1} /\ now' <= MaxTime /\ UNCHANGED <<tx, pool, skew, results, left>>
    BY DEF Summarise
  <1>3. now \in 0..MaxTime /\ skew \in Int /\ MaxTime \in Nat BY <1>1, PoolAssumption DEF PoolInv
  <1>4. PoolInv'
    <2>1. \A u \in DOMAIN pool : pool[u] \in Int /\ pool[u] <= now' + skew
      BY <1>1, <1>2, <1>3 DEF PoolInv
    <2> QED BY <1>1, <1>2, <1>3, <2>1 DEF PoolInv
  <1>5. ResultsInv' BY <1>2, <1>3, ResultsStay
  <1>6. Kept' = Kept /\ Entries' = Entries /\ Gathered' = Gathered
    BY <1>2 DEF Kept, Entries, Gathered
  <1>7. Gathered /\ summary'.all = Bucket(Kept) BY <1>1, SummaryIsSound
  <1>8. summary'.all.count = Cardinality(Kept) /\ summary'.all.totalFees = TotalFees(Kept)
    BY <1>7 DEF Bucket
  <1>9. SummaryInv' BY <1>1, <1>6, <1>7, <1>8, EntriesTyped DEF SummaryInv
  <1>10. FeesAddUp' BY <1>1, <1>2, <1>6, <1>7, <1>8, FeesOfSummary DEF FeesAddUp
  <1>11. BreakdownsCoverEntries'
    <2>1. RowsMatchLabels' BY <1>1, SummaryIsSound DEF RowsMatchLabels
    <2> QED BY <1>1, <1>2, <1>6, <2>1, SummaryIsSound DEF BreakdownsCoverEntries
  <1> QED BY <1>4, <1>5, <1>9, <1>10, <1>11 DEF MempoolInv

\* Every step keeps the invariant of the summary.
LEMMA MempoolStep == ASSUME MempoolInv, [MempoolNext]_mempoolVars PROVE MempoolInv'
  <1>1. CASE \E t \in Txids : Enters(t) \/ Leaves(t) BY <1>1, PoolKeepsSummary
  <1>2. CASE Tick \/ UNCHANGED mempoolVars BY <1>2, PoolKeepsSummary
  <1>3. CASE \E t \in Txids : AnswersEntry(t) \/ FailsEntry(t) BY <1>3, AnswerKeepsSummary
  <1> QED BY <1>1, <1>2, <1>3, ListKeepsSummary, SummariseIsSound DEF MempoolNext

\* The breakdowns of a summary count what it is about, for any mempool, any fees, sizes and
\* buckets, and any clocks.
THEOREM BreakdownsAreComplete == MempoolSpec => []BreakdownsCoverEntries
  <1>1. MempoolInv => BreakdownsCoverEntries BY DEF MempoolInv
  <1> QED BY <1>1, MempoolInitially, MempoolStep, PTL DEF MempoolSpec

\* The fees of a summary are those of the mempool it was made of, unless something left it or a
\* call failed.
THEOREM SummaryFeesAddUp == MempoolSpec => []FeesAddUp
  <1>1. MempoolInv => FeesAddUp BY DEF MempoolInv
  <1> QED BY <1>1, MempoolInitially, MempoolStep, PTL DEF MempoolSpec

\* Every variable of the summary keeps its type.
THEOREM SummaryIsTyped == MempoolSpec => []MempoolTypeOK
  <1>1. MempoolInv => MempoolTypeOK
    <2> SUFFICES ASSUME MempoolInv PROVE MempoolTypeOK OBVIOUS
    <2>1. \A t \in DOMAIN results : results[t].kind \in {"waiting", "null", "error", "entry"}
      BY DEF MempoolInv, ResultsInv, IsEntry, Waiting, Null, Error
    <2> QED BY <2>1 DEF MempoolInv, PoolInv, ResultsInv, SummaryInv, MempoolTypeOK
  <1> QED BY <1>1, MempoolInitially, MempoolStep, PTL DEF MempoolSpec

-----------------------------------------------------------------------------
(* Reachability: a walk that no other crosses is a count's own *)

\* Each probe is counted once, and nobody but a waiting count has any.
CountedInv ==
  \A c \in Counters :
    /\ count[c] + Cardinality(probes[c]) <= Cardinality(Hosts)
    /\ reached[c] <= count[c]
    /\ pc[c] # "polling" => probes[c] = {}

\* A count whose walk another request is in the middle of knows it; in memory there is none.
CrossedInv ==
  \A c \in Counters :
    /\ \A s \in Requests \ {c} : pc[c] = "walking" /\ pc[s] = "walking" => "crossed" \in met[c]
    /\ cacheBackend = "lru" => "crossed" \notin met[c]

\* While a count walks by itself, the list holds what it has entered.
WalkInv ==
  \A c \in Counters :
    pc[c] = "walking" /\ "crossed" \notin met[c] => ipList \cup At(todo[c]) = own[c]

\* A list is no shorter than a count's own, or will not be when the walk that fills it is over.
Fits(c) ==
  \/ Cardinality(own[c]) <= Cardinality(ipList)
  \/ \E d \in Counters :
       cacheBackend = "lru" /\ pc[d] = "walking" /\ Cardinality(own[c]) <= Cardinality(own[d])

\* A count that polls has its own addresses counted or under way.
PollInv ==
  \A c \in Counters :
    pc[c] = "polling" /\ "crossed" \notin met[c] =>
      /\ count[c] + Cardinality(probes[c]) = Cardinality(own[c])
      /\ "fewer" \notin met[c] => Fits(c)

ReachInv == ReachTypeOK /\ CountedInv /\ CrossedInv /\ WalkInv /\ PollInv /\ TotalIsComplete

-----------------------------------------------------------------------------
\* Sets of addresses are finite, and their sizes are ordered as they are.
LEMMA HostSets ==
  ASSUME NEW S \in SUBSET Hosts
  PROVE  /\ IsFiniteSet(S)
         /\ Cardinality(S) \in Nat
         /\ Cardinality(Hosts) \in Nat
         /\ Cardinality(S) <= Cardinality(Hosts)
         /\ Cardinality({}) = 0
         /\ \A a \in S : Cardinality(S \ {a}) = Cardinality(S) - 1
         /\ \A T \in SUBSET S : Cardinality(T) <= Cardinality(S)
  <1>1. IsFiniteSet(Hosts) BY NodesAssumption
  <1>2. IsFiniteSet(S) /\ Cardinality(S) <= Cardinality(Hosts) BY <1>1, FS_Subset
  <1>3. Cardinality(S) \in Nat /\ Cardinality(Hosts) \in Nat BY <1>1, <1>2, FS_CardinalityType
  <1>4. Cardinality({}) = 0 BY FS_EmptySet
  <1>5. \A a \in S : Cardinality(S \ {a}) = Cardinality(S) - 1 BY <1>2, FS_RemoveElement
  <1>6. \A T \in SUBSET S : Cardinality(T) <= Cardinality(S) BY <1>2, FS_Subset
  <1> QED BY <1>2, <1>3, <1>4, <1>5, <1>6

\* Where nodes are.
LEMMA NodesAreAt ==
  ASSUME NEW nodes \in SUBSET Masternodes
  PROVE  /\ At(nodes) \subseteq Hosts
         /\ \A n \in nodes : At(nodes) = At(nodes \ {n}) \cup {HostOf[n]}
  BY NodesAssumption DEF At

\* How a walk that begins meets each count.
LEMMA MeetingIs ==
  ASSUME ReachTypeOK, NEW r \in Requests, NEW least, NEW most
  PROVE  /\ Meeting(r, least, most) \in [Counters -> SUBSET {"fewer", "more", "crossed"}]
         /\ \A c \in Counters :
              LET m == Meeting(r, least, most)[c] IN
              /\ c = r => ("crossed" \in m <=> \E s \in Requests : pc[s] = "walking")
              /\ c # r /\ pc[c] = "walking" => "crossed" \in m
              /\ c # r /\ pc[c] = "polling" =>
                   /\ "crossed" \in m <=> "crossed" \in met[c]
                   /\ "fewer" \in met[c] => "fewer" \in m
                   /\ least < Cardinality(own[c]) => "fewer" \in m
              /\ c # r /\ pc[c] \notin {"walking", "polling"} => m = met[c]
  <1> DEFINE M == Meeting(r, least, most)
  <1>1. \A c \in Counters : met[c] \subseteq {"fewer", "more", "crossed"} BY DEF ReachTypeOK
  <1>2. ASSUME NEW c \in Counters, c = r
        PROVE  M[c] = {k \in {"crossed"} : \E s \in Requests : pc[s] = "walking"}
    BY <1>2 DEF Meeting
  <1>3. ASSUME NEW c \in Counters, c # r, pc[c] = "walking" PROVE M[c] = met[c] \cup {"crossed"}
    BY <1>3 DEF Meeting
  <1>4. ASSUME NEW c \in Counters, c # r, pc[c] = "polling"
        PROVE  M[c] = met[c] \cup {k \in {"fewer"} : least < Cardinality(own[c])}
                             \cup {k \in {"more"} : most > Cardinality(own[c])}
    BY <1>4 DEF Meeting
  <1>5. ASSUME NEW c \in Counters, c # r, pc[c] \notin {"walking", "polling"} PROVE M[c] = met[c]
    BY <1>5 DEF Meeting
  <1>6. M = [c \in Counters |-> M[c]] BY DEF Meeting
  <1> HIDE DEF M
  <1>7. ASSUME NEW c \in Counters
        PROVE  /\ M[c] \subseteq {"fewer", "more", "crossed"}
               /\ c = r => ("crossed" \in M[c] <=> \E s \in Requests : pc[s] = "walking")
               /\ c # r /\ pc[c] = "walking" => "crossed" \in M[c]
               /\ c # r /\ pc[c] = "polling" =>
                    /\ "crossed" \in M[c] <=> "crossed" \in met[c]
                    /\ "fewer" \in met[c] => "fewer" \in M[c]
                    /\ least < Cardinality(own[c]) => "fewer" \in M[c]
               /\ c # r /\ pc[c] \notin {"walking", "polling"} => M[c] = met[c]
    <2>1. CASE c = r BY <1>2, <2>1
    <2>2. CASE c # r /\ pc[c] = "walking" BY <1>1, <1>3, <2>2
    <2>3. CASE c # r /\ pc[c] = "polling" BY <1>1, <1>4, <2>3
    <2>4. CASE c # r /\ pc[c] \notin {"walking", "polling"} BY <1>1, <1>5, <2>4
    <2> QED BY <2>1, <2>2, <2>3, <2>4
  <1>8. M \in [Counters -> SUBSET {"fewer", "more", "crossed"}] BY <1>6, <1>7
  <1> QED BY <1>7, <1>8 DEF M

\* Nobody has asked yet.
LEMMA ReachInitially == ReachInit => ReachInv
  <1> SUFFICES ASSUME ReachInit PROVE ReachInv OBVIOUS
  <1> USE DEF ReachInit
  <1>0. Cardinality({}) = 0 /\ Cardinality(Hosts) \in Nat BY HostSets
  <1>1. ReachTypeOK BY <1>0, BackendsAssumption DEF ReachTypeOK, Requests, Tallies
  <1>2. CountedInv BY <1>0 DEF CountedInv
  <1>3. CrossedInv /\ WalkInv /\ PollInv /\ TotalIsComplete
    BY DEF CrossedInv, WalkInv, PollInv, TotalIsComplete, Requests
  <1> QED BY <1>1, <1>2, <1>3 DEF ReachInv

\* A request asks, anew, or its call is rejected: it is nowhere in its list, and what others do is left alone.
LEMMA AskKeepsInv ==
  ASSUME ReachInv, NEW r \in Requests, Ask(r) \/ NodeListFails(r)
  PROVE  ReachInv'
  <1> USE DEF ReachInv
  <1>1. /\ pc[r] \notin {"walking", "polling"}
        /\ \E p \in {"listing", "rejected"} : pc' = [pc EXCEPT ![r] = p]
        /\ UNCHANGED <<cacheBackend, ipList, todo, probes>>
    BY DEF Ask, NodeListFails
  <1>2. /\ pc'[r] \notin {"walking", "polling", "done"}
        /\ \A s \in Requests \ {r} : pc'[s] = pc[s]
        /\ Counters \subseteq Requests
    BY <1>1 DEF ReachTypeOK, Requests
  <1>3. /\ \A c \in Counters \ {r} : /\ own'[c] = own[c] /\ count'[c] = count[c]
                                     /\ reached'[c] = reached[c] /\ met'[c] = met[c]
        /\ \A c \in Counters : c = r =>
             /\ count'[c] \in {0, count[c]} /\ reached'[c] \in {0, reached[c]} /\ met'[c] \in {{}, met[c]}
             /\ count'[c] = count[c] \/ reached'[c] = 0
             /\ count'[c] = 0 => reached'[c] \in {0, count[c]} \/ count[c] = 0
    BY DEF Ask, NodeListFails
  <1>4. ReachTypeOK'
    <2>1. CASE Ask(r)
      <3>1. 0 \in Tallies BY HostSets DEF Tallies
      <3> QED BY <1>1, <2>1, <3>1 DEF ReachTypeOK, Ask
    <2>2. CASE NodeListFails(r) BY <1>1, <2>2 DEF ReachTypeOK, NodeListFails
    <2> QED BY <2>1, <2>2
  <1>5. CountedInv'
    <2> SUFFICES ASSUME NEW c \in Counters
                 PROVE  /\ count'[c] + Cardinality(probes[c]) <= Cardinality(Hosts)
                        /\ reached'[c] <= count'[c]
                        /\ pc'[c] # "polling" => probes[c] = {}
      BY <1>1 DEF CountedInv
    <2>1. count[c] \in Nat /\ reached[c] \in Nat /\ probes[c] \subseteq Hosts
      BY DEF ReachTypeOK, Tallies
    <2>2. Cardinality(probes[c]) \in Nat /\ Cardinality(Hosts) \in Nat BY <2>1, HostSets
    <2>3. count[c] + Cardinality(probes[c]) <= Cardinality(Hosts) /\ reached[c] <= count[c]
          /\ (pc[c] # "polling" => probes[c] = {})
      BY DEF CountedInv
    <2>4. CASE c = r
      <3>1. CASE Ask(r)
        <4>1. count'[c] = 0 /\ reached'[c] = 0 BY <2>4, <3>1 DEF Ask
        <4> QED BY <1>1, <2>1, <2>2, <2>3, <2>4, <4>1
      <3>2. CASE NodeListFails(r) BY <1>1, <2>3, <2>4, <3>2 DEF NodeListFails
      <3> QED BY <3>1, <3>2
    <2>5. CASE c # r BY <1>2, <1>3, <2>3, <2>5
    <2> QED BY <2>4, <2>5
  <1>6. CrossedInv' BY <1>1, <1>2, <1>3 DEF CrossedInv
  <1>7. WalkInv' BY <1>1, <1>2, <1>3 DEF WalkInv
  <1>8. TotalIsComplete' BY <1>2, <1>3 DEF TotalIsComplete
  <1>9. PollInv'
    <2>1. ASSUME NEW c \in Counters \ {r}, Fits(c) PROVE Fits(c)'
      <3>1. CASE Cardinality(own[c]) <= Cardinality(ipList) BY <1>1, <1>3, <3>1 DEF Fits
      <3>2. ASSUME NEW d \in Counters, cacheBackend = "lru", pc[d] = "walking",
                   Cardinality(own[c]) <= Cardinality(own[d])
            PROVE  Fits(c)'
        <4>1. d # r BY <1>1, <3>2
        <4> QED BY <1>1, <1>2, <1>3, <3>2, <4>1 DEF Fits
      <3> QED BY <2>1, <3>1, <3>2 DEF Fits
    <2> QED BY <1>1, <1>2, <1>3, <2>1 DEF PollInv
  <1> QED BY <1>4, <1>5, <1>6, <1>7, <1>8, <1>9

\* clearIpList and the start of a count's walk: a count that polls is compared with the new list, and
\* one that walks is crossed.
LEMMA WalksKeepsInv ==
  ASSUME ReachInv, NEW c \in Counters, NEW list \in SUBSET Masternodes, Walks(c, list)
  PROVE  ReachInv'
  <1> USE DEF ReachInv
  <1> DEFINE least == IF cacheBackend = "lru" THEN Cardinality(At(list)) ELSE 0
             most == Cardinality(At(list) \cup Coming)
  <1>1. /\ CallbackMayRun /\ pc[c] = "listing" /\ ipList' = {}
        /\ pc' = [pc EXCEPT ![c] = "walking"] /\ own' = [own EXCEPT ![c] = At(list)]
        /\ todo' = [todo EXCEPT ![c] = list] /\ met' = Meeting(c, least, most)
        /\ UNCHANGED <<cacheBackend, probes, count, reached>>
    BY DEF Walks
  <1>2. least = IF cacheBackend = "lru" THEN Cardinality(At(list)) ELSE 0 OBVIOUS
  <1> HIDE DEF least, most
  <1>3. At(list) \subseteq Hosts BY NodesAreAt
  <1>4. /\ pc'[c] = "walking" /\ own'[c] = At(list) /\ todo'[c] = list
        /\ c \in Requests /\ Counters \subseteq Requests
        /\ \A s \in Requests \ {c} : pc'[s] = pc[s] /\ todo'[s] = todo[s]
        /\ \A d \in Counters \ {c} : own'[d] = own[d]
    BY <1>1 DEF ReachTypeOK, Requests
  <1>5. /\ met' \in [Counters -> SUBSET {"fewer", "more", "crossed"}]
        /\ "crossed" \in met'[c] <=> \E s \in Requests : pc[s] = "walking"
        /\ \A d \in Counters \ {c} :
             /\ pc[d] = "walking" => "crossed" \in met'[d]
             /\ pc[d] = "polling" => /\ "crossed" \in met'[d] <=> "crossed" \in met[d]
                                     /\ "fewer" \in met[d] => "fewer" \in met'[d]
                                     /\ least < Cardinality(own[d]) => "fewer" \in met'[d]
             /\ pc[d] \notin {"walking", "polling"} => met'[d] = met[d]
    BY <1>1, <1>4, MeetingIs
  <1>6. ReachTypeOK' BY <1>1, <1>3, <1>5 DEF ReachTypeOK, Requests
  <1>7. CountedInv' BY <1>1, <1>4 DEF CountedInv
  <1>8. cacheBackend = "lru" => \A s \in Requests : pc[s] # "walking" BY <1>1 DEF CallbackMayRun
  <1>9. CrossedInv'
    <2> SUFFICES ASSUME NEW d \in Counters
                 PROVE  /\ \A s \in Requests \ {d} : pc'[d] = "walking" /\ pc'[s] = "walking" =>
                              "crossed" \in met'[d]
                        /\ cacheBackend = "lru" => "crossed" \notin met'[d]
      BY <1>1 DEF CrossedInv
    <2>1. CASE d = c BY <1>4, <1>5, <1>8, <2>1
    <2>2. CASE d # c
      <3>1. d \in Requests /\ pc'[d] = pc[d] /\ (cacheBackend = "lru" => "crossed" \notin met[d])
        BY <1>4, <2>2 DEF CrossedInv
      <3> QED BY <1>5, <1>8, <2>2, <3>1
    <2> QED BY <2>1, <2>2
  <1>10. WalkInv'
    <2> SUFFICES ASSUME NEW d \in Counters, pc'[d] = "walking", "crossed" \notin met'[d]
                 PROVE  ipList' \cup At(todo'[d]) = own'[d]
      BY DEF WalkInv, At
    <2>1. d = c
      <3>1. d # c => pc[d] = "walking" BY <1>4
      <3> QED BY <1>5, <3>1
    <2> QED BY <1>1, <1>4, <2>1
  <1>11. TotalIsComplete' BY <1>1, <1>4, <1>5 DEF TotalIsComplete
  <1>12. PollInv'
    <2> SUFFICES ASSUME NEW d \in Counters, pc'[d] = "polling", "crossed" \notin met'[d]
                 PROVE  /\ count'[d] + Cardinality(probes'[d]) = Cardinality(own'[d])
                        /\ "fewer" \notin met'[d] => Fits(d)'
      BY DEF PollInv
    <2>1. d # c /\ pc[d] = "polling" /\ own'[d] = own[d] BY <1>4
    <2>2. "crossed" \notin met[d] BY <1>5, <2>1
    <2>3. count'[d] + Cardinality(probes'[d]) = Cardinality(own'[d])
      BY <1>1, <2>1, <2>2 DEF PollInv
    <2>4. ASSUME "fewer" \notin met'[d] PROVE Fits(d)'
      <3>1. ~(least < Cardinality(own[d])) BY <1>5, <2>1, <2>4
      <3>2. own[d] \subseteq Hosts BY DEF ReachTypeOK
      <3>3. Cardinality(own[d]) \in Nat /\ Cardinality(At(list)) \in Nat /\ Cardinality({}) = 0
        BY <1>3, <3>2, HostSets
      <3>4. CASE cacheBackend = "lru"
        <4>1. Cardinality(own[d]) <= Cardinality(At(list)) BY <1>2, <3>1, <3>3, <3>4
        <4> QED BY <1>1, <1>4, <2>1, <3>4, <4>1 DEF Fits
      <3>5. CASE cacheBackend # "lru"
        <4>1. Cardinality(own[d]) <= 0 BY <1>2, <3>1, <3>3, <3>5
        <4> QED BY <1>1, <2>1, <3>3, <4>1 DEF Fits
      <3> QED BY <3>4, <3>5
    <2> QED BY <2>3, <2>4
  <1> QED BY <1>6, <1>7, <1>9, <1>10, <1>11, <1>12
\* The list of nodes begins to be walked: it clears nothing, and crosses the counts that walk.
LEMMA ViewWalksKeepsInv ==
  ASSUME ReachInv, NEW v \in Viewers, ViewWalks(v)
  PROVE  ReachInv'
  <1> USE DEF ReachInv
  <1>1. PICK list \in SUBSET Masternodes :
          /\ CallbackMayRun /\ pc[v] = "listing" /\ pc' = [pc EXCEPT ![v] = "walking"]
          /\ todo' = [todo EXCEPT ![v] = list]
          /\ met' = Meeting(v, Cardinality(ipList), Cardinality(ipList \cup At(list) \cup Coming))
          /\ UNCHANGED <<cacheBackend, ipList, own, probes, count, reached>>
    BY DEF ViewWalks
  <1> DEFINE least == Cardinality(ipList)
             most == Cardinality(ipList \cup At(list) \cup Coming)
  <1>2. met' = Meeting(v, least, most) BY <1>1
  <1>3. least = Cardinality(ipList) OBVIOUS
  <1> HIDE DEF least, most
  <1>4. /\ pc'[v] = "walking" /\ v \in Requests /\ v \notin Counters /\ Counters \subseteq Requests
        /\ \A s \in Requests \ {v} : pc'[s] = pc[s] /\ todo'[s] = todo[s]
    BY <1>1, RequestsAssumption DEF ReachTypeOK, Requests
  <1>5. /\ met' \in [Counters -> SUBSET {"fewer", "more", "crossed"}]
        /\ \A d \in Counters :
             /\ pc[d] = "walking" => "crossed" \in met'[d]
             /\ pc[d] = "polling" => /\ "crossed" \in met'[d] <=> "crossed" \in met[d]
                                     /\ "fewer" \in met[d] => "fewer" \in met'[d]
                                     /\ least < Cardinality(own[d]) => "fewer" \in met'[d]
             /\ pc[d] \notin {"walking", "polling"} => met'[d] = met[d]
    BY <1>2, <1>4, MeetingIs
  <1>6. ReachTypeOK' BY <1>1, <1>5 DEF ReachTypeOK, Requests
  <1>7. CountedInv' BY <1>1, <1>4 DEF CountedInv
  <1>8. cacheBackend = "lru" => \A s \in Requests : pc[s] # "walking" BY <1>1 DEF CallbackMayRun
  <1>9. CrossedInv'
    <2> SUFFICES ASSUME NEW d \in Counters
                 PROVE  /\ \A s \in Requests \ {d} : pc'[d] = "walking" /\ pc'[s] = "walking" =>
                              "crossed" \in met'[d]
                        /\ cacheBackend = "lru" => "crossed" \notin met'[d]
      BY <1>1 DEF CrossedInv
    <2>1. d \in Requests /\ d # v /\ pc'[d] = pc[d] /\ (cacheBackend = "lru" => "crossed" \notin met[d])
      BY <1>4 DEF CrossedInv
    <2> QED BY <1>5, <1>8, <2>1
  <1>10. WalkInv'
    <2> SUFFICES ASSUME NEW d \in Counters, pc'[d] = "walking", "crossed" \notin met'[d]
                 PROVE  ipList' \cup At(todo'[d]) = own'[d]
      BY DEF WalkInv, At
    <2> QED BY <1>4, <1>5
  <1>11. TotalIsComplete' BY <1>1, <1>4, <1>5 DEF TotalIsComplete
  <1>12. PollInv'
    <2> SUFFICES ASSUME NEW d \in Counters, pc'[d] = "polling", "crossed" \notin met'[d]
                 PROVE  /\ count'[d] + Cardinality(probes'[d]) = Cardinality(own'[d])
                        /\ "fewer" \notin met'[d] => Fits(d)'
      BY DEF PollInv
    <2>1. pc[d] = "polling" /\ "crossed" \notin met[d] BY <1>4, <1>5
    <2>2. count'[d] + Cardinality(probes'[d]) = Cardinality(own'[d]) BY <1>1, <2>1 DEF PollInv
    <2>3. ASSUME "fewer" \notin met'[d] PROVE Fits(d)'
      <3>1. ~(least < Cardinality(own[d])) BY <1>5, <2>1, <2>3
      <3>2. own[d] \subseteq Hosts /\ ipList \subseteq Hosts BY DEF ReachTypeOK
      <3>3. Cardinality(own[d]) \in Nat /\ Cardinality(ipList) \in Nat BY <3>2, HostSets
      <3> QED BY <1>1, <1>3, <3>1, <3>3 DEF Fits
    <2> QED BY <2>2, <2>3
  <1> QED BY <1>6, <1>7, <1>9, <1>10, <1>11, <1>12

\* A node is entered: the list of a count that walks by itself gets what it was to get, and no list
\* gets shorter.
LEMMA EnterKeepsInv ==
  ASSUME ReachInv, NEW r \in Requests, NEW n \in Masternodes, Enter(r, n)
  PROVE  ReachInv'
  <1> USE DEF ReachInv
  <1>1. /\ pc[r] = "walking" /\ n \in todo[r] /\ ipList' = ipList \cup {HostOf[n]}
        /\ todo' = [todo EXCEPT ![r] = @ \ {n}]
        /\ UNCHANGED <<cacheBackend, pc, own, probes, count, reached, met>>
    BY DEF Enter
  <1>2. /\ todo[r] \subseteq Masternodes /\ ipList' \subseteq Hosts /\ ipList \subseteq ipList'
        /\ todo'[r] = todo[r] \ {n} /\ (\A s \in Requests \ {r} : todo'[s] = todo[s])
        /\ Counters \subseteq Requests
    BY <1>1, NodesAssumption DEF ReachTypeOK, Requests
  <1>3. ReachTypeOK' BY <1>1, <1>2 DEF ReachTypeOK
  <1>4. CountedInv' BY <1>1 DEF CountedInv
  <1>5. CrossedInv' BY <1>1 DEF CrossedInv
  <1>6. TotalIsComplete' BY <1>1 DEF TotalIsComplete
  <1>7. WalkInv'
    <2> SUFFICES ASSUME NEW d \in Counters, pc[d] = "walking", "crossed" \notin met[d]
                 PROVE  ipList' \cup At(todo'[d]) = own[d]
      BY <1>1 DEF WalkInv, At
    <2>1. r = d BY <1>1 DEF CrossedInv
    <2>2. ipList \cup At(todo[d]) = own[d] BY DEF WalkInv
    <2>3. At(todo[r]) = At(todo[r] \ {n}) \cup {HostOf[n]} BY <1>1, <1>2, NodesAreAt
    <2>4. At(todo'[d]) = At(todo[r] \ {n}) BY <1>2, <2>1
    <2> QED BY <1>1, <2>1, <2>2, <2>3, <2>4
  <1>8. PollInv'
    <2>1. ASSUME NEW d \in Counters, Fits(d) PROVE Fits(d)'
      <3>1. Cardinality(ipList) <= Cardinality(ipList') BY <1>2, HostSets
      <3>2. own[d] \subseteq Hosts /\ ipList \subseteq Hosts BY DEF ReachTypeOK
      <3>3. Cardinality(own[d]) \in Nat /\ Cardinality(ipList) \in Nat /\ Cardinality(ipList') \in Nat
        BY <1>2, <3>2, HostSets
      <3> QED BY <1>1, <2>1, <3>1, <3>3 DEF Fits
    <2> QED BY <1>1, <2>1 DEF PollInv
  <1> QED BY <1>3, <1>4, <1>5, <1>6, <1>7, <1>8

\* A walk fails, with redis alone, where no list waits for a walk to be over.
LEMMA WalkFailsKeepsInv ==
  ASSUME ReachInv, NEW r \in Requests, WalkFails(r)
  PROVE  ReachInv'
  <1> USE DEF ReachInv
  <1>1. /\ cacheBackend = "redis" /\ pc[r] = "walking" /\ pc' = [pc EXCEPT ![r] = "rejected"]
        /\ todo' = [todo EXCEPT ![r] = {}]
        /\ UNCHANGED <<cacheBackend, ipList, own, probes, count, reached, met>>
    BY DEF WalkFails
  <1>2. /\ pc'[r] = "rejected" /\ \A s \in Requests \ {r} : pc'[s] = pc[s] /\ todo'[s] = todo[s]
        /\ Counters \subseteq Requests
    BY <1>1 DEF ReachTypeOK, Requests
  <1>3. ReachTypeOK' BY <1>1 DEF ReachTypeOK
  <1>4. CountedInv' BY <1>1, <1>2 DEF CountedInv
  <1>5. CrossedInv' BY <1>1, <1>2 DEF CrossedInv
  <1>6. WalkInv' BY <1>1, <1>2 DEF WalkInv, At
  <1>7. TotalIsComplete' BY <1>1, <1>2 DEF TotalIsComplete
  <1>8. PollInv'
    <2>1. ASSUME NEW d \in Counters, Fits(d) PROVE Fits(d)' BY <1>1, <2>1 DEF Fits
    <2> QED BY <1>1, <1>2, <2>1 DEF PollInv
  <1> QED BY <1>3, <1>4, <1>5, <1>6, <1>7, <1>8
\* A count's walk is over: if no other crossed it, what it probes and what it is compared with are its
\* own list, and so is what other counts waited for.
LEMMA CheckIpsAsyncKeepsInv ==
  ASSUME ReachInv, NEW c \in Counters, CheckIpsAsync(c)
  PROVE  ReachInv'
  <1> USE DEF ReachInv
  <1>1. /\ pc[c] = "walking" /\ todo[c] = {}
        /\ probes' = [probes EXCEPT ![c] = ipList] /\ count' = [count EXCEPT ![c] = 0]
        /\ reached' = [reached EXCEPT ![c] = 0] /\ pc' = [pc EXCEPT ![c] = "polling"]
        /\ UNCHANGED <<cacheBackend, ipList, own, todo, met>>
    BY DEF CheckIpsAsync
  <1>2. /\ pc'[c] = "polling" /\ probes'[c] = ipList /\ count'[c] = 0 /\ reached'[c] = 0
        /\ \A s \in Requests \ {c} : pc'[s] = pc[s]
        /\ \A d \in Counters \ {c} : /\ probes'[d] = probes[d] /\ count'[d] = count[d]
                                     /\ reached'[d] = reached[d]
        /\ Counters \subseteq Requests /\ c \in Requests /\ c \notin Viewers
    BY <1>1, RequestsAssumption DEF ReachTypeOK, Requests
  <1>3. ipList \subseteq Hosts /\ (\A d \in Counters : own[d] \subseteq Hosts) BY DEF ReachTypeOK
  <1>4. /\ Cardinality(ipList) \in Nat /\ Cardinality(Hosts) \in Nat
        /\ Cardinality(ipList) <= Cardinality(Hosts)
    BY <1>3, HostSets
  <1>5. ReachTypeOK'
    <2>1. 0 \in Tallies BY <1>4 DEF Tallies
    <2> QED BY <1>1, <1>2, <1>3, <2>1 DEF ReachTypeOK
  <1>6. CountedInv'
    <2> SUFFICES ASSUME NEW d \in Counters
                 PROVE  /\ count'[d] + Cardinality(probes'[d]) <= Cardinality(Hosts)
                        /\ reached'[d] <= count'[d]
                        /\ pc'[d] # "polling" => probes'[d] = {}
      BY DEF CountedInv
    <2>1. CASE d = c BY <1>2, <1>4, <2>1
    <2>2. CASE d # c BY <1>2, <2>2 DEF CountedInv
    <2> QED BY <2>1, <2>2
  <1>7. CrossedInv' BY <1>1, <1>2 DEF CrossedInv
  <1>8. WalkInv' BY <1>1, <1>2 DEF WalkInv, At
  <1>9. TotalIsComplete' BY <1>1, <1>2 DEF TotalIsComplete
  <1>10. ASSUME "crossed" \notin met[c] PROVE ipList = own[c]
    <2>1. At({}) = {} BY DEF At
    <2> QED BY <1>1, <1>10, <2>1 DEF WalkInv
  <1>11. PollInv'
    <2> SUFFICES ASSUME NEW d \in Counters, pc'[d] = "polling", "crossed" \notin met[d]
                 PROVE  /\ count'[d] + Cardinality(probes'[d]) = Cardinality(own[d])
                        /\ "fewer" \notin met[d] => Fits(d)'
      BY <1>1 DEF PollInv
    <2>1. CASE d = c BY <1>1, <1>2, <1>4, <1>10, <2>1 DEF Fits
    <2>2. CASE d # c
      <3>1. pc[d] = "polling" BY <1>2, <2>2
      <3>2. count'[d] + Cardinality(probes'[d]) = Cardinality(own[d])
        BY <1>2, <2>2, <3>1 DEF PollInv
      <3>3. ASSUME "fewer" \notin met[d] PROVE Fits(d)'
        <4>1. Fits(d) BY <3>1, <3>3 DEF PollInv
        <4>2. CASE Cardinality(own[d]) <= Cardinality(ipList) BY <1>1, <4>2 DEF Fits
        <4>3. ASSUME NEW e \in Counters, cacheBackend = "lru", pc[e] = "walking",
                     Cardinality(own[d]) <= Cardinality(own[e])
              PROVE  Fits(d)'
          <5>1. CASE e = c
            <6>1. ipList = own[c] BY <1>10, <4>3 DEF CrossedInv
            <6> QED BY <1>1, <4>3, <5>1, <6>1 DEF Fits
          <5>2. CASE e # c BY <1>1, <1>2, <4>3, <5>2 DEF Fits
          <5> QED BY <5>1, <5>2
        <4> QED BY <4>1, <4>2, <4>3 DEF Fits
      <3> QED BY <3>2, <3>3
    <2> QED BY <2>1, <2>2
  <1> QED BY <1>5, <1>6, <1>7, <1>8, <1>9, <1>11

\* The list of nodes answers, which concerns no count.
LEMMA ViewAnswersKeepsInv ==
  ASSUME ReachInv, NEW v \in Viewers, ViewAnswers(v)
  PROVE  ReachInv'
  <1> USE DEF ReachInv
  <1>1. /\ pc[v] = "walking" /\ pc' = [pc EXCEPT ![v] = "done"]
        /\ UNCHANGED <<cacheBackend, ipList, own, todo, probes, count, reached, met>>
    BY DEF ViewAnswers
  <1>2. /\ \A d \in Counters : pc'[d] = pc[d]
        /\ \A s \in Requests : pc'[s] = "walking" => pc[s] = "walking"
    BY <1>1, RequestsAssumption DEF ReachTypeOK, Requests
  <1>3. ReachTypeOK' BY <1>1 DEF ReachTypeOK, Requests
  <1>4. CountedInv' BY <1>1, <1>2 DEF CountedInv
  <1>5. CrossedInv' BY <1>1, <1>2 DEF CrossedInv
  <1>6. WalkInv' BY <1>1, <1>2 DEF WalkInv, At
  <1>7. TotalIsComplete' BY <1>1, <1>2 DEF TotalIsComplete
  <1>8. PollInv'
    <2>1. ASSUME NEW d \in Counters, Fits(d) PROVE Fits(d)' BY <1>1, <1>2, <2>1 DEF Fits
    <2> QED BY <1>1, <1>2, <2>1 DEF PollInv
  <1> QED BY <1>3, <1>4, <1>5, <1>6, <1>7, <1>8

\* A probe is answered: it moves from what is under way to what is counted.
LEMMA ProbeEndsKeepsInv ==
  ASSUME ReachInv, NEW c \in Counters, NEW a \in Hosts, ProbeEnds(c, a)
  PROVE  ReachInv'
  <1> USE DEF ReachInv
  <1>1. /\ a \in probes[c] /\ probes' = [probes EXCEPT ![c] = @ \ {a}]
        /\ count' = [count EXCEPT ![c] = @ + 1]
        /\ UNCHANGED <<cacheBackend, ipList, pc, own, todo, met>>
    BY DEF ProbeEnds
  <1>2. PICK up \in {0, 1} : reached' = [reached EXCEPT ![c] = @ + up] BY DEF ProbeEnds
  <1>3. /\ probes[c] \subseteq Hosts /\ count[c] \in Nat /\ reached[c] \in Nat /\ reached[c] <= count[c]
        /\ probes'[c] = probes[c] \ {a} /\ count'[c] = count[c] + 1 /\ reached'[c] = reached[c] + up
        /\ \A d \in Counters \ {c} : /\ probes'[d] = probes[d] /\ count'[d] = count[d]
                                     /\ reached'[d] = reached[d]
        /\ pc[c] = "polling"
    BY <1>1, <1>2 DEF ReachTypeOK, Tallies, CountedInv
  <1>4. /\ Cardinality(probes[c]) \in Nat /\ Cardinality(Hosts) \in Nat
        /\ Cardinality(probes'[c]) = Cardinality(probes[c]) - 1 /\ Cardinality(probes'[c]) \in Nat
    <2>1. probes'[c] \subseteq Hosts BY <1>3
    <2> QED BY <1>1, <1>3, <2>1, HostSets
  <1>5. count[c] + Cardinality(probes[c]) <= Cardinality(Hosts) BY DEF CountedInv
  <1>6. count'[c] + Cardinality(probes'[c]) = count[c] + Cardinality(probes[c])
    <2>1. \A i, j \in Nat : (i + 1) + (j - 1) = i + j OBVIOUS
    <2> QED BY <1>3, <1>4, <2>1
  <1>7. ReachTypeOK'
    <2>1. count'[c] \in Tallies /\ reached'[c] \in Tallies BY <1>3, <1>4, <1>5 DEF Tallies
    <2> QED BY <1>1, <1>2, <1>3, <2>1 DEF ReachTypeOK
  <1>8. CountedInv'
    <2> SUFFICES ASSUME NEW d \in Counters
                 PROVE  /\ count'[d] + Cardinality(probes'[d]) <= Cardinality(Hosts)
                        /\ reached'[d] <= count'[d]
                        /\ pc[d] # "polling" => probes'[d] = {}
      BY <1>1 DEF CountedInv
    <2>1. CASE d = c
      <3>1. reached'[c] <= count'[c] BY <1>3
      <3> QED BY <1>3, <1>5, <1>6, <2>1, <3>1
    <2>2. CASE d # c BY <1>3, <2>2 DEF CountedInv
    <2> QED BY <2>1, <2>2
  <1>9. CrossedInv' BY <1>1 DEF CrossedInv
  <1>10. WalkInv' BY <1>1 DEF WalkInv, At
  <1>11. TotalIsComplete' BY <1>1, <1>3 DEF TotalIsComplete
  <1>12. PollInv'
    <2> SUFFICES ASSUME NEW d \in Counters, pc[d] = "polling", "crossed" \notin met[d]
                 PROVE  /\ count'[d] + Cardinality(probes'[d]) = Cardinality(own[d])
                        /\ "fewer" \notin met[d] => Fits(d)'
      BY <1>1 DEF PollInv
    <2>1. count[d] + Cardinality(probes[d]) = Cardinality(own[d]) /\ ("fewer" \notin met[d] => Fits(d))
      BY DEF PollInv
    <2>2. count'[d] + Cardinality(probes'[d]) = Cardinality(own[d])
      <3>1. CASE d = c BY <1>6, <2>1, <3>1
      <3>2. CASE d # c BY <1>3, <2>1, <3>2
      <3> QED BY <3>1, <3>2
    <2>3. Fits(d) => Fits(d)' BY <1>1 DEF Fits
    <2> QED BY <2>1, <2>2, <2>3
  <1> QED BY <1>7, <1>8, <1>9, <1>10, <1>11, <1>12

\* The job of a count sees that all is back: no walk is under way in memory, so what it compares with
\* is no shorter than its own list.
LEMMA PollKeepsInv ==
  ASSUME ReachInv, NEW c \in Counters, Poll(c)
  PROVE  ReachInv'
  <1> USE DEF ReachInv
  <1>1. /\ CallbackMayRun /\ pc[c] = "polling" /\ count[c] >= Cardinality(ipList)
        /\ pc' = [pc EXCEPT ![c] = "done"] /\ probes' = [probes EXCEPT ![c] = {}]
        /\ UNCHANGED <<cacheBackend, ipList, own, todo, count, reached, met>>
    BY DEF Poll
  <1>2. /\ pc'[c] = "done" /\ \A s \in Requests \ {c} : pc'[s] = pc[s]
        /\ probes'[c] = {} /\ \A d \in Counters \ {c} : probes'[d] = probes[d]
        /\ Counters \subseteq Requests /\ c \notin Viewers
    BY <1>1, RequestsAssumption DEF ReachTypeOK, Requests
  <1>3. /\ ipList \subseteq Hosts /\ own[c] \subseteq Hosts /\ probes[c] \subseteq Hosts
        /\ count[c] \in Nat /\ reached[c] \in Nat
    BY DEF ReachTypeOK, Tallies
  <1>4. /\ Cardinality(ipList) \in Nat /\ Cardinality(own[c]) \in Nat /\ Cardinality(probes[c]) \in Nat
        /\ Cardinality({}) = 0 /\ Cardinality(Hosts) \in Nat
    BY <1>3, HostSets
  <1>5. ReachTypeOK' BY <1>1, <1>2 DEF ReachTypeOK
  <1>6. CountedInv'
    <2> SUFFICES ASSUME NEW d \in Counters
                 PROVE  /\ count[d] + Cardinality(probes'[d]) <= Cardinality(Hosts)
                        /\ reached[d] <= count[d]
                        /\ pc'[d] # "polling" => probes'[d] = {}
      BY <1>1 DEF CountedInv
    <2>1. /\ count[d] + Cardinality(probes[d]) <= Cardinality(Hosts) /\ reached[d] <= count[d]
          /\ pc[d] # "polling" => probes[d] = {}
      BY DEF CountedInv
    <2>2. CASE d = c
      <3>1. count[c] <= Cardinality(Hosts) BY <1>3, <1>4, <2>1, <2>2
      <3>2. count[c] + 0 = count[c] BY <1>3
      <3> QED BY <1>2, <1>4, <2>1, <2>2, <3>1, <3>2
    <2>3. CASE d # c BY <1>2, <2>1, <2>3
    <2> QED BY <2>2, <2>3
  <1>7. CrossedInv' BY <1>1, <1>2 DEF CrossedInv
  <1>8. WalkInv' BY <1>1, <1>2 DEF WalkInv, At
  <1>9. ASSUME "crossed" \notin met[c]
        PROVE  /\ count[c] <= Cardinality(own[c])
               /\ "fewer" \notin met[c] => count[c] = Cardinality(own[c])
    <2>1. count[c] + Cardinality(probes[c]) = Cardinality(own[c]) BY <1>1, <1>9 DEF PollInv
    <2>2. ASSUME "fewer" \notin met[c] PROVE Cardinality(own[c]) <= Cardinality(ipList)
      <3>1. Fits(c) BY <1>1, <1>9, <2>2 DEF PollInv
      <3>2. cacheBackend = "lru" => \A d \in Counters : pc[d] # "walking"
        BY <1>1, <1>2 DEF CallbackMayRun
      <3> QED BY <3>1, <3>2 DEF Fits
    <2> QED BY <1>1, <1>3, <1>4, <2>1, <2>2
  <1>10. TotalIsComplete'
    <2> SUFFICES ASSUME NEW d \in Counters, pc'[d] = "done"
                 PROVE  /\ met[d] \cap {"fewer", "crossed"} = {} => count[d] = Cardinality(own[d])
                        /\ "crossed" \notin met[d] => count[d] <= Cardinality(own[d])
                        /\ reached[d] <= count[d]
      BY <1>1 DEF TotalIsComplete
    <2>1. CASE d = c BY <1>9, <2>1 DEF CountedInv
    <2>2. CASE d # c BY <1>2, <2>2 DEF TotalIsComplete
    <2> QED BY <2>1, <2>2
  <1>11. PollInv'
    <2> SUFFICES ASSUME NEW d \in Counters, pc'[d] = "polling", "crossed" \notin met[d]
                 PROVE  /\ count[d] + Cardinality(probes'[d]) = Cardinality(own[d])
                        /\ "fewer" \notin met[d] => Fits(d)'
      BY <1>1 DEF PollInv
    <2>1. d # c /\ pc[d] = "polling" BY <1>2
    <2>2. /\ count[d] + Cardinality(probes[d]) = Cardinality(own[d])
          /\ "fewer" \notin met[d] => Fits(d)
      BY <2>1 DEF PollInv
    <2>3. Fits(d) => Fits(d)' BY <1>1, <1>2 DEF Fits
    <2> QED BY <1>2, <2>1, <2>2, <2>3
  <1> QED BY <1>5, <1>6, <1>7, <1>8, <1>10, <1>11
-----------------------------------------------------------------------------
\* Every step of a request, of its probes and of its job.
LEMMA ReachStep == ReachInv /\ [ReachNext]_reachVars => ReachInv'
  <1> SUFFICES ASSUME ReachInv, [ReachNext]_reachVars PROVE ReachInv' OBVIOUS
  <1>1. ASSUME NEW r \in Requests, Ask(r) \/ NodeListFails(r) PROVE ReachInv' BY <1>1, AskKeepsInv
  <1>2. ASSUME NEW r \in Requests, NEW n \in Masternodes, Enter(r, n) PROVE ReachInv'
    BY <1>2, EnterKeepsInv
  <1>3. ASSUME NEW r \in Requests, WalkFails(r) PROVE ReachInv' BY <1>3, WalkFailsKeepsInv
  <1>4. ASSUME NEW c \in Counters, CountIsRefused(c) \/ CountWalks(c) PROVE ReachInv'
    <2>1. \E list \in SUBSET Masternodes : Walks(c, list) BY <1>4 DEF CountIsRefused, CountWalks
    <2> QED BY <2>1, WalksKeepsInv
  <1>5. ASSUME NEW c \in Counters, CheckIpsAsync(c) PROVE ReachInv' BY <1>5, CheckIpsAsyncKeepsInv
  <1>6. ASSUME NEW c \in Counters, Poll(c) PROVE ReachInv' BY <1>6, PollKeepsInv
  <1>7. ASSUME NEW c \in Counters, NEW a \in Hosts, ProbeEnds(c, a) PROVE ReachInv'
    BY <1>7, ProbeEndsKeepsInv
  <1>8. ASSUME NEW v \in Viewers, ViewWalks(v) PROVE ReachInv' BY <1>8, ViewWalksKeepsInv
  <1>9. ASSUME NEW v \in Viewers, ViewAnswers(v) PROVE ReachInv' BY <1>9, ViewAnswersKeepsInv
  <1>10. CASE UNCHANGED reachVars
    <2> USE <1>10 DEF reachVars, ReachInv
    <2>1. ReachTypeOK' BY DEF ReachTypeOK
    <2>2. CountedInv' /\ CrossedInv' /\ TotalIsComplete' BY DEF CountedInv, CrossedInv, TotalIsComplete
    <2>3. WalkInv' BY DEF WalkInv, At
    <2>4. PollInv' BY DEF PollInv, Fits
    <2> QED BY <2>1, <2>2, <2>3, <2>4
  <1> QED BY <1>1, <1>2, <1>3, <1>4, <1>5, <1>6, <1>7, <1>8, <1>9, <1>10 DEF ReachNext

\* The inductive invariant of counts and lists.
THEOREM ReachInvHolds == ReachSpec => []ReachInv
  BY ReachInitially, ReachStep, PTL DEF ReachSpec

\* The variables keep their types with either back end; no count exceeds the number of addresses.
THEOREM ReachIsTyped == ReachSpec => []ReachTypeOK
  BY ReachInvHolds, PTL DEF ReachInv

\* With either back end, whatever lists the counts are given and however many run: a count that no
\* other walk crosses answers its own list, and all of it unless a walk left less to be compared with.
THEOREM TotalsAreComplete == ReachSpec => []TotalIsComplete
  BY ReachInvHolds, PTL DEF ReachInv

\* With either back end: while a count that no walk crossed polls, no address of its own list is lost
\* or counted twice; in memory no walk is ever crossed.
THEOREM ProbesAreAccounted == ReachSpec => []ProbesAccounted
  <1>1. ReachInv => ProbesAccounted
    <2> SUFFICES ASSUME ReachInv, NEW c \in Counters
                 PROVE  /\ pc[c] = "polling" /\ "crossed" \notin met[c] =>
                             /\ count[c] + Cardinality(probes[c]) = Cardinality(own[c])
                             /\ CallbackMayRun /\ "fewer" \notin met[c] =>
                                  Cardinality(own[c]) <= Cardinality(ipList)
                        /\ cacheBackend = "lru" => "crossed" \notin met[c]
      BY DEF ProbesAccounted
    <2>1. cacheBackend = "lru" => "crossed" \notin met[c] BY DEF ReachInv, CrossedInv
    <2>2. ASSUME pc[c] = "polling", "crossed" \notin met[c]
          PROVE  /\ count[c] + Cardinality(probes[c]) = Cardinality(own[c])
                 /\ "fewer" \notin met[c] => Fits(c)
      BY <2>2 DEF ReachInv, PollInv
    <2>3. CallbackMayRun /\ Fits(c) => Cardinality(own[c]) <= Cardinality(ipList)
      BY DEF CallbackMayRun, Fits, Requests
    <2> QED BY <2>1, <2>2, <2>3
  <1> QED BY <1>1, ReachInvHolds, PTL
===============================================================================
