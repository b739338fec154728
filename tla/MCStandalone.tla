------------------------------ MODULE MCStandalone ------------------------------
\* The components that share no state with others, for TLC: each behaviour is one of them, and
\* the others rest.
EXTENDS MempoolStats, ChainStats, CoinFigures, MinerSearch, AssetPages, AddressPages, AddressSync,
        BlockLists

CONSTANTS a1, a2

VARIABLE part

\* Rates of the two fees over the two sizes: at each maximum, below and above them.
Rates == <<2, 4>>

\* rtm.js, blockRewardFunction.
RewardTable ==
  << [after |-> 553531,   before |-> 2105657,  less |-> 10,   per |-> 10],
     [after |-> 2105657,  before |-> 5273695,  less |-> 750,  per |-> 20],
     [after |-> 5273695,  before |-> 7378633,  less |-> 3720, per |-> 10],
     [after |-> 7378633,  before |-> 8399209,  less |-> 4705, per |-> 5],
     [after |-> 8399209,  before |-> 14735285, less |-> 4945, per |-> 0],
     [after |-> 14735285, before |-> 15798385, less |-> 4946, per |-> 1],
     [after |-> 15798385, before |-> 25844304, less |-> 4995, per |-> 0] >>
Intervals == [btc |-> 210000, ltc |-> 840000, pgn |-> 2100000, pyrk |-> 2100000]
Subsidies == [btc |-> 50, ltc |-> 50, pgn |-> 5000, pyrk |-> 5000]

\* Both ends of each row, of an owling and of eras, the eras beyond the last, and the remnant.
BlockHeights ==
  UNION {{RewardTable[r].after + d, RewardTable[r].before - d} : r \in DOMAIN RewardTable, d \in 1..2}
    \cup {553532 + 21262 * n - d : n \in 1..2, d \in 0..1}
    \cup {0, 719, 720, 209999, 210000, 2105657, 7140000, 125844305}

Collaterals == (1..2) \X (0..1)
Held == [c \in Collaterals |-> 600 + 200 * c[1] + 50 * c[2]]

ChartStarts == {0, -9}
RowLimits == {-1, 2}
Paid == [h \in 0..3 |-> IF h = 0 THEN {a1} ELSE IF h = 2 THEN {a1, a2} ELSE {}]

HeightFilters == {<<0, 0>>, <<2, 4>>}
ListLengths == {-1, 2}

standaloneVars ==
  <<part, mempoolVars, chainVars, coinVars, minerVars, assetVars, addressVars, syncVars, listVars>>

Parts == {"mempool", "chain", "coins", "miner", "assets", "addresses", "sync", "lists"}

\* What rests has one state.
Init ==
  /\ part \in Parts
  /\ MempoolInit /\ (part = "mempool" \/ (skew = 0 /\ \A t \in Txids : tx[t] = [fee |-> 10, size |-> 5]))
  /\ ChainInit
  /\ CoinInit /\ (part = "coins" \/ coin = "rtm")
  /\ MinerInit /\ (part = "miner" \/ files = <<>>)
  /\ AssetInit /\ (part = "assets" \/ (supports /\ was = <<0>>))
  /\ AddressInit /\ (part = "addresses" \/ backend = "none")
  /\ SyncInit
  /\ ListInit

Next ==
  \/ /\ part = "mempool" /\ MempoolNext
     /\ UNCHANGED <<part, chainVars, coinVars, minerVars, assetVars, addressVars, syncVars, listVars>>
  \/ /\ part = "chain" /\ ChainNext
     /\ UNCHANGED <<part, mempoolVars, coinVars, minerVars, assetVars, addressVars, syncVars, listVars>>
  \/ /\ part = "coins" /\ CoinNext
     /\ UNCHANGED <<part, mempoolVars, chainVars, minerVars, assetVars, addressVars, syncVars, listVars>>
  \/ /\ part = "miner" /\ MinerNext
     /\ UNCHANGED <<part, mempoolVars, chainVars, coinVars, assetVars, addressVars, syncVars, listVars>>
  \/ /\ part = "assets" /\ AssetNext
     /\ UNCHANGED <<part, mempoolVars, chainVars, coinVars, minerVars, addressVars, syncVars, listVars>>
  \/ /\ part = "addresses" /\ AddressNext
     /\ UNCHANGED <<part, mempoolVars, chainVars, coinVars, minerVars, assetVars, syncVars, listVars>>
  \/ /\ part = "sync" /\ SyncNext
     /\ UNCHANGED <<part, mempoolVars, chainVars, coinVars, minerVars, assetVars, addressVars, listVars>>
  \/ /\ part = "lists" /\ ListNext
     /\ UNCHANGED <<part, mempoolVars, chainVars, coinVars, minerVars, assetVars, addressVars, syncVars>>

Spec == Init /\ [][Next]_standaloneVars

\* As SyncSpec has it.
FairSpec ==
  /\ Spec
  /\ \A p \in Syncs : WF_syncVars(SyncStep(p))

\* What every component's variables may hold.
TypeOK ==
  /\ MempoolTypeOK /\ ChainTypeOK /\ CoinTypeOK /\ MinerTypeOK
  /\ AssetTypeOK /\ AddressTypeOK /\ SyncTypeOK /\ ListTypeOK
===============================================================================
