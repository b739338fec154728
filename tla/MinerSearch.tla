------------------------------ MODULE MinerSearch ------------------------------
(***************************************************************************)
(* Who mined a block: the files of known mining pools, read after the      *)
(* explorer started, and utils.getMinerFromCoinbaseTx, which goes through  *)
(* them with one index for two loops. The loop over the outputs of the     *)
(* coinbase leaves it at the last output, and the loop over the files goes *)
(* on from there.                                                          *)
(*                                                                         *)
(* A search runs to its end before anything else does. Which of several    *)
(* addresses or tags of one file is named does not matter here.            *)
(***************************************************************************)
EXTENDS Integers, Sequences, SequencesExt

CONSTANTS PayoutAddresses, CoinbaseTags,
          MaxFiles, MaxOutputs, \* bounds on the files and on the outputs of a coinbase
          NoMiner

ASSUME FilesAssumption == MaxFiles \in Nat /\ MaxOutputs \in Nat

VARIABLES files,    \* payout addresses and coinbase tags of each file
          reading,  \* whether the directory is being read
          pools,    \* global.miningPoolsConfigs
          special,  \* the payout addresses among global.specialAddresses
          coinbase, \* the transaction looked at: addresses of its outputs, tags it carries
          busy,     \* whether getMinerFromCoinbaseTx runs
          index,    \* its variable i
          miner,    \* the last search: the file that names the miner and by what, or null
          over      \* history: the files it searched

minerVars == <<files, reading, pools, special, coinbase, busy, index, miner, over>>

File == [addresses : SUBSET PayoutAddresses, tags : SUBSET CoinbaseTags]
Coinbase == [outputs : BoundedSeq(SUBSET PayoutAddresses, MaxOutputs), tags : SUBSET CoinbaseTags]
NoCoinbase == [outputs |-> <<>>, tags |-> {}]

Pays(file) == \E o \in 1..Len(coinbase.outputs) : coinbase.outputs[o] \cap file.addresses # {}
Tagged(file) == coinbase.tags \cap file.tags # {}

\* Bug: only the first output is compared.
NamedByFirst(file) ==
  IF coinbase.outputs # <<>> /\ coinbase.outputs[1] \cap file.addresses # {} THEN "address"
  ELSE IF Tagged(file) THEN "tag" ELSE "none"

\* By what a file names the miner.
Named(file) == IF Pays(file) THEN "address" ELSE IF Tagged(file) THEN "tag" ELSE "none"

\* The index after the n-th file and its i++.
After(n) == IF pools[n].addresses # {} /\ coinbase.outputs # <<>> THEN Len(coinbase.outputs) ELSE n

-----------------------------------------------------------------------------
MinerInit ==
  /\ files \in BoundedSeq(File, MaxFiles)
  /\ reading = FALSE /\ pools = <<>> /\ special = {}
  /\ coinbase = NoCoinbase /\ busy = FALSE /\ index = 0
  /\ miner = NoMiner /\ over = <<>>

\* readdir only begins; the payout addresses are taken from what is loaded by then.
LoadMiningPoolConfigs ==
  /\ ~busy /\ ~reading /\ pools = <<>>
  /\ reading' = TRUE
  /\ special' = special \cup UNION {pools[n].addresses : n \in 1..Len(pools)}
  /\ UNCHANGED <<files, pools, coinbase, busy, index, miner, over>>

DirectoryRead ==
  /\ reading /\ ~busy
  /\ reading' = FALSE
  /\ pools' \in {files, pools} \* the files, or an error that is logged
  /\ UNCHANGED <<files, special, coinbase, busy, index, miner, over>>

\* A block is shown: getMinerFromCoinbaseTx begins.
Search(tx) ==
  /\ ~busy
  /\ coinbase' = tx
  /\ busy' = TRUE
  /\ index' = 0
  /\ over' = pools
  /\ UNCHANGED <<files, reading, pools, special, miner>>

\* One pass of the outer loop.
Examine ==
  /\ busy /\ index < Len(pools)
  /\ LET by == Named(pools[index + 1]) IN
     IF by = "none"
     THEN index' = After(index + 1) /\ UNCHANGED <<busy, miner>>
     ELSE miner' = <<index + 1, by>> /\ busy' = FALSE /\ UNCHANGED index
  /\ UNCHANGED <<files, reading, pools, special, coinbase, over>>

Exhausted ==
  /\ busy /\ index >= Len(pools)
  /\ miner' = NoMiner
  /\ busy' = FALSE
  /\ UNCHANGED <<files, reading, pools, special, coinbase, index, over>>

MinerNext ==
  \/ LoadMiningPoolConfigs \/ DirectoryRead
  \/ \E tx \in Coinbase : Search(tx)
  \/ Examine \/ Exhausted

MinerSpec == MinerInit /\ [][MinerNext]_minerVars
MinerFairSpec == MinerSpec /\ WF_minerVars(Examine \/ Exhausted)

-----------------------------------------------------------------------------
(* Properties *)

MinerTypeOK ==
  /\ files \in Seq(File) /\ pools \in {<<>>, files} /\ over \in {<<>>, files}
  /\ reading \in BOOLEAN /\ busy \in BOOLEAN
  /\ special \subseteq PayoutAddresses
  /\ coinbase \in [outputs : Seq(SUBSET PayoutAddresses), tags : SUBSET CoinbaseTags]
  /\ index \in Nat
  /\ miner = NoMiner \/ (miner[1] \in 1..Len(files) /\ miner[2] \in {"address", "tag"})

Names(n) == Pays(over[n]) \/ Tagged(over[n])

\* Whether the loop over the outputs moves the index before it comes to the n-th file.
Behind(n) == coinbase.outputs # <<>> /\ \E k \in 1..(n - 1) : over[k].addresses # {}

\* The miner is the first pool whose file names it, and null if none does, whatever pools
\* are loaded, except for a file that comes after one with payout addresses
\* (utils.js, getMinerFromCoinbaseTx).
MinerIsExact ==
  ~busy /\ coinbase # NoCoinbase =>
    /\ (\A n \in 1..Len(over) : ~Names(n)) => miner = NoMiner
    /\ \A n \in 1..Len(over) :
         Names(n) /\ (\A k \in 1..(n - 1) : ~Names(k)) /\ ~Behind(n) =>
           miner = <<n, IF Pays(over[n]) THEN "address" ELSE "tag">>

\* Every search ends, with a miner or without one.
MinerSearchEnds == busy ~> ~busy
===============================================================================
