------------------------------ MODULE CoinFigures ------------------------------
(***************************************************************************)
(* The fees of a block, rpcApi.getBlockByHash with the reward functions of *)
(* the coins, and the coins masternodes lock, rpcApi.totalCoinLockedByMN.  *)
(*                                                                         *)
(* Amounts are in units of 1/Owlings of a coin, in which a fraction of an  *)
(* owling is a whole number. The chain itself pays by whole owlings, as    *)
(* the comments of rtm.js have it.                                         *)
(***************************************************************************)
EXTENDS Integers, Sequences, FiniteSets, FiniteSetsExt, SequencesExt

CONSTANTS Owlings,   \* blocks between two steps of the reward
          Table,     \* the rows of blockRewardFunction in rtm.js
          Interval,  \* blocks of an era, of each coin that halves
          Subsidy,   \* coins of a block of its first era
          Heights, ClaimedFees, MaxParts, \* the blocks there may be
          Nodes,     \* the collaterals there may be, as transaction and output
          Value,     \* what a collateral holds
          Batch,     \* a hundred
          Undefined, Unknown

Halving == DOMAIN Interval
Coins == Halving \cup {"rtm"}

\* Rows follow each other above the first 719 blocks.
ASSUME TableAssumption ==
  /\ Owlings \in Nat \ {0}
  /\ \A r \in DOMAIN Table :
       /\ {Table[r].after, Table[r].before, Table[r].less, Table[r].per} \subseteq Nat
       /\ 719 <= Table[r].after /\ Table[r].after < Table[r].before
       /\ \A s \in DOMAIN Table \ {r} :
            Table[r].before <= Table[s].after \/ Table[s].before <= Table[r].after
ASSUME CoinsAssumption ==
  /\ Interval \in [Halving -> Nat \ {0}] /\ Subsidy \in [Halving -> Nat] /\ Undefined \notin Int
  /\ Heights \subseteq Nat /\ ClaimedFees \subseteq Nat /\ MaxParts \in Nat
  /\ IsFiniteSet(Nodes) /\ Value \in [Nodes -> Int] /\ Batch \in Nat \ {0}

VARIABLES coin,  \* the coin the explorer is configured for
          block, \* the block asked for: its height, the outputs of its coinbase, and the outcome
          lock   \* totalCoinLockedByMN: the list, the batch that is out, and the sum

coinVars == <<coin, block, lock>>

-----------------------------------------------------------------------------
(* Rewards *)

Eras == 34
Small == 4 * Owlings             \* below height 720
Usual == 5000 * Owlings
Remnant == (1 * Owlings) \div 1000  \* 0.001, above LastUsual
LastUsual == 125844304

\* Rows exclude both of their ends: there the reward is the usual one.
RowsOf(height) == {r \in DOMAIN Table : Table[r].after < height /\ height < Table[r].before}

TableReward(height) ==
  IF height < 720 THEN Small
  ELSE IF RowsOf(height) # {}
  THEN LET row == Table[CHOOSE r \in RowsOf(height) : TRUE] IN
       Usual - (row.less * Owlings + row.per * (height - row.after - 1))
  ELSE IF height > LastUsual THEN Remnant ELSE Usual

\* The list of eras, which ends with the thirty-fourth.
EraRewards(c) ==
  LET eras[i \in 0..(Eras - 1)] == IF i = 0 THEN Subsidy[c] * Owlings ELSE eras[i-1] \div 2 IN eras

EraReward(c, height) ==
  LET era == height \div Interval[c] IN
  IF era >= Eras THEN Undefined ELSE EraRewards(c)[era]

BlockReward(height) == IF coin = "rtm" THEN TableReward(height) ELSE EraReward(coin, height)

\* What the chain pays: the row includes its last block, owlings are whole.
ChainReward(height) ==
  LET rows == {r \in DOMAIN Table : Table[r].after < height /\ height <= Table[r].before} IN
  IF coin = "rtm" /\ rows # {}
  THEN LET row == Table[CHOOSE r \in rows : TRUE] IN
       Usual - Owlings * (row.less + row.per * ((height - row.after - 1) \div Owlings))
  ELSE IF coin # "rtm" /\ height \div Interval[coin] >= Eras THEN 0 ELSE BlockReward(height)

\* Bug: only the first output is counted.
BlockFeesOfFirst(outputs, height) == outputs[1] - BlockReward(height)

\* getBlockTotalFeesFromCoinbaseTxAndBlockHeight
BlockFees(outputs, height) ==
  SumFunctionOnSet(outputs, {n \in DOMAIN outputs : outputs[n] > 0}) - BlockReward(height)

NoBlock == [phase |-> "none"]
NoLock == [phase |-> "none"]

CoinInit == coin \in Coins /\ block = NoBlock /\ lock = NoLock

\* getblock is sent. A coinbase has a commitment of no value beside what it pays to.
GetBlock(height, fees, parts) ==
  /\ block = NoBlock
  /\ LET paid == ChainReward(height) + fees IN
     /\ paid >= parts - 1
     /\ block' = [phase |-> "block", height |-> height, claimed |-> fees, fees |-> Unknown,
                  outputs |-> [n \in 1..(parts + 1) |->
                                 IF n = 1 THEN paid - (parts - 1) ELSE IF n = parts + 1 THEN 0 ELSE 1]]
  /\ UNCHANGED <<coin, lock>>

\* An RpcError has no tx: the block resolves without figures.
BlockAnswers ==
  /\ block.phase = "block"
  /\ \/ block' = [block EXCEPT !.phase = "coinbase"]
     \/ block' = [block EXCEPT !.phase = "resolved"]
     \/ block' = [block EXCEPT !.phase = "rejected"]
  /\ UNCHANGED <<coin, lock>>

\* An error, also one that resolves, rejects; so does the exception of a reward that is undefined.
CoinbaseAnswers ==
  /\ block.phase = "coinbase"
  /\ \/ block' = [block EXCEPT !.phase = "rejected"]
     \/ /\ BlockReward(block.height) # Undefined
        /\ block' = [block EXCEPT !.phase = "resolved", !.fees = BlockFees(block.outputs, block.height)]
  /\ UNCHANGED <<coin, lock>>

-----------------------------------------------------------------------------
(* Locked coins *)

\* Takes collaterals until a batch is full; what is left over makes the last one.
NextBatch(l) ==
  LET n == Min({Batch, Len(l.rest)}) IN
  IF n = 0
  THEN [l EXCEPT !.phase = "resolved"]
  ELSE [l EXCEPT !.phase = "batch", !.outputs = SubSeq(l.rest, 1, n),
                 !.rest = SubSeq(l.rest, n + 1, Len(l.rest))]

AskLocked ==
  /\ coin \in {"pyrk", "rtm"} \* the coins with masternodes
  /\ lock = NoLock
  /\ lock' = [phase |-> "list"]
  /\ UNCHANGED <<coin, block>>

\* The count of a coin of fixed collateral is an object, which is no number; an error that
\* resolves is a list whose key is no transaction.
ListAnswers ==
  /\ lock.phase = "list"
  /\ \/ lock' = [phase |-> "rejected"]
     \/ /\ coin = "pyrk"
        /\ lock' = [phase |-> "resolved", total |-> Unknown]
     \/ /\ coin = "rtm"
        /\ \E listed \in SUBSET Nodes :
             lock' = NextBatch([phase |-> "batch", listed |-> listed, rest |-> SetToSeq(listed),
                                outputs |-> <<>>, total |-> 0])
  /\ UNCHANGED <<coin, block>>

\* Bug: outputs is not emptied, so its indexes are those of the batch before.
BatchAnswersKeep ==
  /\ lock.phase = "batch"
  /\ LET all == SetToSeq(lock.listed) IN
     lock' = NextBatch([lock EXCEPT !.total = @ + SumFunction([n \in DOMAIN lock.outputs |->
                          Value[<<lock.outputs[n][1], all[n][2]>>]])])
  /\ UNCHANGED <<coin, block>>

\* One transaction that is answered with an error rejects the batch.
BatchAnswers ==
  /\ lock.phase = "batch"
  /\ \/ lock' = [phase |-> "rejected"]
     \/ lock' = NextBatch([lock EXCEPT !.total = @ + SumFunction([n \in DOMAIN lock.outputs |->
                             Value[lock.outputs[n]]])])
  /\ UNCHANGED <<coin, block>>

CoinNext ==
  \/ \E height \in Heights, fees \in ClaimedFees, parts \in 1..MaxParts : GetBlock(height, fees, parts)
  \/ BlockAnswers \/ CoinbaseAnswers
  \/ AskLocked \/ ListAnswers \/ BatchAnswers

CoinSpec == CoinInit /\ [][CoinNext]_coinVars

-----------------------------------------------------------------------------
(* Properties *)

CoinTypeOK ==
  /\ coin \in Coins
  /\ block.phase \in {"none", "block", "coinbase", "resolved", "rejected"}
  /\ lock.phase \in {"none", "list", "batch", "resolved", "rejected"}
  /\ lock.phase = "batch" => Len(lock.outputs) \in 1..Batch

\* The fees of a block are what its coinbase claims beyond the reward, exactly for a coin that
\* halves; by the table they exceed it by less than one step, except at the height where a row
\* ends (utils.js, getBlockTotalFeesFromCoinbaseTxAndBlockHeight; rtm.js, blockRewardFunction).
FeesAreClaimed ==
  block.phase = "resolved" /\ block.fees # Unknown =>
    LET within == IF coin = "rtm" THEN RowsOf(block.height) ELSE {} IN
    /\ within = {} /\ ~(coin = "rtm" /\ \E r \in DOMAIN Table : block.height = Table[r].before) =>
         block.fees = block.claimed
    /\ \A r \in within :
         block.claimed <= block.fees /\ block.fees - block.claimed <= Table[r].per * (Owlings - 1)

\* The coins that are locked are those of every masternode of the list, each once, whatever
\* the length of the list is beside that of a batch (rpcApi.js, totalCoinLockedByMN).
LockedIsComplete ==
  lock.phase = "resolved" /\ lock.total # Unknown =>
    lock.total = SumFunctionOnSet(Value, lock.listed)
===============================================================================
