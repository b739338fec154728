------------------------------- MODULE ChainStats -------------------------------
(***************************************************************************)
(* The number of transactions over the height of the chain, as the page    *)
(* tx-stats draws it: coreApi.getTxCountStats asks for windows that end at *)
(* the tip, one call each, and takes the count before each window for the  *)
(* count at the height where it begins. The tip it reckons with is the one *)
(* of getBlockchainInfo; each answer is about the tip of its own time. Both*)
(* are cached.                                                             *)
(*                                                                         *)
(* A count of transactions is written as the height it is the count of.    *)
(* Rates and labels are left out.                                          *)
(***************************************************************************)
EXTENDS Integers, Sequences, FiniteSets, FiniteSetsExt

CONSTANTS DataPoints, Starts, \* what getTxCountStats is asked for; the end is "latest"
          MinWindow,   \* 10 blocks
          UsualWindow, \* the node's own, when it is given none
          InfoAge, StatsAge, \* how long getBlockchainInfo and getChainTxStats are kept
          FirstTip, MaxTip, MaxClock, \* bounds on the chain and on the clock
          Unset

ASSUME StatsAssumption ==
  /\ DataPoints \subseteq Nat /\ Starts \subseteq Int /\ Unset \notin Int
  /\ {MinWindow, UsualWindow, MaxClock} \subseteq Nat /\ {InfoAge, StatsAge} \subseteq Nat \ {0}
  /\ FirstTip \in Nat /\ MaxTip \in Nat /\ FirstTip <= MaxTip

VARIABLES tip, clock,
          info,  \* what is kept of getBlockchainInfo
          stats, \* what is kept of getChainTxStats, by window
          chart, \* the request: what it asked for, the answers, the points it resolved with
          tips   \* history: the tip when each tick began, and when each request did

chainVars == <<tip, clock, info, stats, chart, tips>>

NoInfo == [blocks |-> 0, at |-> -InfoAge]
NoChart == [phase |-> "none"]
Pending == [kind |-> "asked"]
Invalid == [kind |-> "error"] \* an RpcError, which resolves and is kept as well

Ceiling(a, b) == -((-a) \div b)

\* The window of the i-th of the points; with one point its division is 0/0.
WindowAt(points, start, blocks, i) ==
  IF points = 1 THEN Unset
  ELSE Max({MinWindow, blocks - start - Ceiling(i * (blocks - start), points - 1) - 1})

\* The node's answer: the window may not reach the first block.
StatsOf(window) ==
  CASE window = Unset -> [kind |-> "stats", length |-> Min({UsualWindow, tip - 1}), tip |-> tip]
    [] window # Unset /\ window < tip -> [kind |-> "stats", length |-> window, tip |-> tip]
    [] OTHER -> Invalid

\* Bug: nothing grows old.
FreshStatsForever(window) == window \in DOMAIN stats

FreshStats(window) == window \in DOMAIN stats /\ clock < stats[window].at + StatsAge

-----------------------------------------------------------------------------
ChainInit ==
  /\ tip = FirstTip /\ clock = 0
  /\ info = NoInfo
  /\ stats = [w \in {} |-> 0]
  /\ chart = NoChart
  /\ tips = [began |-> [c \in 0..MaxClock |-> FirstTip], asked |-> FirstTip, askedAt |-> 0]

MineBlock ==
  /\ tip < MaxTip
  /\ tip' = tip + 1
  /\ UNCHANGED <<clock, info, stats, chart, tips>>

ClockTicks ==
  /\ clock < MaxClock
  /\ clock' = clock + 1
  /\ tips' = [tips EXCEPT !.began[clock + 1] = tip]
  /\ UNCHANGED <<tip, info, stats, chart>>

\* The windows are asked for at once: what is kept answers, the rest goes to the node.
AskWindows(points, start, blocks) ==
  LET from == IF start < 0 THEN start + blocks ELSE start
      windows == [i \in 0..(points - 1) |-> WindowAt(points, from, blocks, i)]
  IN chart' = [phase |-> "windows", blocks |-> blocks, start |-> from, windows |-> windows,
               results |-> [i \in 0..(points - 1) |->
                              IF FreshStats(windows[i]) THEN stats[windows[i]].value ELSE Pending]]

AskStats(points, start) ==
  /\ chart.phase # "windows"
  /\ tips' = [tips EXCEPT !.asked = tip, !.askedAt = clock]
  /\ \/ /\ clock < info.at + InfoAge
        /\ AskWindows(points, start, info.blocks)
        /\ UNCHANGED info
     \/ /\ clock >= info.at + InfoAge
        /\ AskWindows(points, start, tip)
        /\ info' = [blocks |-> tip, at |-> clock]
     \/ /\ clock >= info.at + InfoAge \* getblockchaininfo is rejected
        /\ chart' = [phase |-> "rejected"]
        /\ UNCHANGED info
  /\ UNCHANGED <<tip, clock, stats>>

WindowAnswers(i) ==
  /\ chart.phase = "windows" /\ i \in DOMAIN chart.results /\ chart.results[i] = Pending
  /\ LET window == chart.windows[i] IN
     /\ chart' = [chart EXCEPT !.results[i] = StatsOf(window)]
     /\ stats' = [w \in DOMAIN stats \cup {window} |->
                    IF w = window THEN [value |-> StatsOf(window), at |-> clock] ELSE stats[w]]
  /\ UNCHANGED <<tip, clock, info, tips>>

\* Promise.all rejects with the first that fails.
WindowFails(i) ==
  /\ chart.phase = "windows" /\ i \in DOMAIN chart.results /\ chart.results[i] = Pending
  /\ chart' = [phase |-> "rejected"]
  /\ UNCHANGED <<tip, clock, info, stats, tips>>

WithCounts == {i \in DOMAIN chart.results : chart.results[i].kind = "stats"}

\* Without an answer that has a count, the search for a total runs off the list and throws.
Resolve ==
  /\ chart.phase = "windows" /\ \A i \in DOMAIN chart.results : chart.results[i] # Pending
  /\ \/ WithCounts = {} /\ chart' = [phase |-> "rejected"]
     \/ /\ WithCounts # {}
        /\ chart' = [phase |-> "resolved", blocks |-> chart.blocks, start |-> chart.start,
                     regular |-> Cardinality(DOMAIN chart.results) > 1,
                     points |-> {[x |-> chart.blocks - chart.results[i].length,
                                  y |-> chart.results[i].tip - chart.results[i].length] : i \in WithCounts},
                     total |-> chart.results[Min(WithCounts)].tip]
  /\ UNCHANGED <<tip, clock, info, stats, tips>>

ChainNext ==
  \/ MineBlock \/ ClockTicks
  \/ \E points \in DataPoints, start \in Starts : AskStats(points, start)
  \/ \E i \in 0..Max(DataPoints) : WindowAnswers(i) \/ WindowFails(i)
  \/ Resolve

ChainSpec == ChainInit /\ [][ChainNext]_chainVars

-----------------------------------------------------------------------------
(* Properties *)

ChainTypeOK ==
  /\ tip \in FirstTip..MaxTip /\ clock \in 0..MaxClock
  /\ info.blocks \in 0..MaxTip /\ info.at <= clock
  /\ \A w \in DOMAIN stats : stats[w].value.kind \in {"stats", "error"} /\ stats[w].at <= clock
  /\ chart.phase \in {"none", "windows", "resolved", "rejected"}

\* The tip an answer of the given age may be about at the least, at the time of the request.
TipBefore(age) == tips.began[Max({0, tips.askedAt - age + 1})]

\* A point is the count of a height no further from its own than the chain grew while what it is
\* made of was kept or asked for: ahead of it by the age of getBlockchainInfo and the time of the
\* request, behind it by the age of getChainTxStats. Points lie within the heights asked for, up
\* to the smallest window (coreApi.js, getTxCountStats).
PointsNearCounts ==
  chart.phase = "resolved" =>
    \A p \in chart.points :
      /\ p.y - p.x <= tip - TipBefore(InfoAge)
      /\ p.x - p.y <= tips.asked - TipBefore(StatsAge)
      /\ chart.regular =>
           /\ p.x <= chart.blocks - MinWindow
           /\ p.x >= Min({chart.start + 1, chart.blocks - MinWindow})
===============================================================================
