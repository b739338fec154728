\* Two files, as there are for BTC, and a coinbase of one output.
CONSTANTS
  PayoutAddresses = {m1}
  CoinbaseTags = {g1}
  MaxFiles = 2
  MaxOutputs = 1
  NoMiner = NoMiner
SPECIFICATION MinerFairSpec
PROPERTIES MinerSearchEnds
CHECK_DEADLOCK FALSE
