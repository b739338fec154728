\* Each component on its own small instance.
CONSTANTS
  \* mempool: two transactions, two buckets of each kind, a clock to 4
  Txids = {t1, t2}
  Fees = {10, 20}
  Sizes = {5, 50}
  Maxima <- Rates
  AgeBuckets = 2
  SizeBuckets = 2
  LargeSize = 20
  Tiny = 2
  Skews = {0, 1}
  MaxTime = 4
  NaN = NaN
  \* chain: up to three points, one block and two ticks
  DataPoints = {0, 1, 3}
  Starts <- ChartStarts
  MinWindow = 2
  UsualWindow = 4
  InfoAge = 1
  StatsAge = 2
  FirstTip = 5
  MaxTip = 6
  MaxClock = 2
  Unset = Unset
  \* coins: the real tables at their edges, batches of two of four collaterals
  Owlings = 21262
  Table <- RewardTable
  Interval <- Intervals
  Subsidy <- Subsidies
  Heights <- BlockHeights
  ClaimedFees = {0, 3}
  MaxParts = 2
  Nodes <- Collaterals
  Value <- Held
  Batch = 2
  Undefined = Undefined
  Unknown = Unknown
  \* miner: up to two files, coinbases of up to two outputs
  PayoutAddresses = {m1}
  CoinbaseTags = {g1}
  MaxFiles = 2
  MaxOutputs = 2
  NoMiner = NoMiner
  \* assets: two requests, the holders change once
  PageRequests = {p1, p2}
  MaxHolders = 3
  MaxChanges = 1
  PageStarts = {1}
  PageLimits <- RowLimits
  AssetError = AssetError
  NoValue = NoValue
  \* addresses: two servers that learn up to three transactions, pages of two
  Servers = {s1, s2}
  MaxTxs = 3
  Offsets = {0, 2}
  Limits = {2}
  Unanswered = Unanswered
  Absent = Absent
  \* sync: two calls, windows of two blocks, the chain grows by one
  a1 = a1
  a2 = a2
  Syncs = {x1, x2}
  Receivers <- Paid
  WindowSize = 2
  FirstHeight = 2
  MaxHeight = 3
  None = None
  \* lists: two lists one after the other, a chain that grows by one, one tick, ages of one
  ListTxs = {u1}
  FirstBest = 3
  MaxBest = 4
  LastTime = 1
  MaxLists = 2
  CountAge = 1
  PoolAge = 1
  BlockAge = 1
  Amounts = {2}
  Skips = {0, 3}
  Lengths <- ListLengths
  Filters <- HeightFilters
  Visited = {4}
SPECIFICATION FairSpec
INVARIANTS
  TypeOK BreakdownsCoverEntries FeesAddUp PointsNearCounts FeesAreClaimed
  LockedIsComplete MinerIsExact PageIsSlice ListsAreCurrent DetailsAreComplete ReceiversAreSaved
PROPERTIES SyncEnds RecordsOnlyGrow
CHECK_DEADLOCK FALSE
