----------------------------- MODULE AddressProofs -----------------------------
(***************************************************************************)
(* Theorems about the addresses: what the sync of balances saves, for any  *)
(* chain, windows and number of syncs; what the details of an address and  *)
(* a page of the holders of an asset show, for any servers and pages.      *)
(***************************************************************************)
EXTENDS AddressSync, AddressPages, AssetPages, DataInduction, SequenceTheorems, TLAPS

-----------------------------------------------------------------------------
(* Types of AddressSync *)

Addresses == UNION {Receivers[h] : h \in 0..MaxHeight}
Balances == 0..(MaxHeight + 1)
Wallet == [address : Addresses, balance : Balances]
WalletOrNone == Wallet \cup {None}
SyncPcs == Scanning \cup {"idle", "height", "last", "forgotten"}
SyncRecord == [pc : SyncPcs, from : Nat, end : Nat, until : Nat, todo : SUBSET Wallet,
               now : WalletOrNone, found : BOOLEAN]

SyncOK(p) ==
  /\ sync[p].pc \in Scanning \cup {"last"} => sync[p].until <= height
  /\ sync[p].pc \in Scanning => sync[p].from < sync[p].until
  /\ sync[p].pc \in Scanning \ {"recount"} =>
       sync[p].from < sync[p].end /\ sync[p].end <= sync[p].until
  /\ sync[p].pc = "write" => sync[p].now \in Wallet

SyncTypeInv ==
  /\ height \in FirstHeight..MaxHeight
  /\ syncing \in BOOLEAN
  /\ tracker \in {None} \cup 0..height
  /\ sync \in [Syncs -> SyncRecord]
  /\ \A p \in Syncs : SyncOK(p)
  /\ wallets \in Seq(Wallet)

\* A call moves, the others stay where they are.
OnlySync(p) == sync' \in [Syncs -> SyncRecord] /\ \A q \in Syncs \ {p} : sync'[q] = sync[q]

\* The height is one of the chain.
LEMMA HeightType ==
  ASSUME SyncTypeInv
  PROVE  height \in Nat /\ height <= MaxHeight /\ MaxHeight \in Nat
  BY SyncAssumption DEF SyncTypeInv

\* A balance is no more than one for each block.
LEMMA BalanceType ==
  ASSUME NEW a, NEW n \in Nat, n <= MaxHeight
  PROVE  Balance(a, n) \in Balances
  <1> DEFINE paying == {h \in 0..n : a \in Receivers[h]}
  <1>1. IsFiniteSet(0..n) /\ Cardinality(0..n) = n + 1 BY FS_Interval
  <1>2. paying \subseteq 0..n OBVIOUS
  <1> HIDE DEF paying
  <1>3. IsFiniteSet(paying) /\ Cardinality(paying) <= n + 1 BY <1>1, <1>2, FS_Subset
  <1>4. Cardinality(paying) \in Nat BY <1>3, FS_CardinalityType
  <1>5. Cardinality(paying) \in Balances BY <1>3, <1>4, SyncAssumption DEF Balances
  <1> QED BY <1>5 DEF Balance, paying

\* An address has received no less by a later block.
LEMMA BalanceGrows ==
  ASSUME NEW a, NEW m \in Int, NEW n \in Int, m <= n
  PROVE  Balance(a, m) <= Balance(a, n) /\ Balance(a, m) \in Nat /\ Balance(a, n) \in Nat
  <1> DEFINE before == {h \in 0..m : a \in Receivers[h]}
             after == {h \in 0..n : a \in Receivers[h]}
  <1>1. IsFiniteSet(0..n) BY FS_Interval
  <1>2. after \subseteq 0..n /\ before \subseteq after OBVIOUS
  <1> HIDE DEF before, after
  <1>3. IsFiniteSet(after) BY <1>1, <1>2, FS_Subset
  <1>4. IsFiniteSet(before) /\ Cardinality(before) <= Cardinality(after) BY <1>2, <1>3, FS_Subset
  <1>5. Cardinality(before) \in Nat /\ Cardinality(after) \in Nat BY <1>3, <1>4, FS_CardinalityType
  <1> QED BY <1>4, <1>5 DEF Balance, before, after

\* And no more, if no block between pays to it.
LEMMA BalanceStays ==
  ASSUME NEW a, NEW m \in Nat, NEW n \in Nat, m <= n,
         \A h \in WindowOf(m, n) : a \notin Receivers[h]
  PROVE  Balance(a, m - 1) = Balance(a, n - 1)
  <1> DEFINE before == {h \in 0..(m - 1) : a \in Receivers[h]}
             after == {h \in 0..(n - 1) : a \in Receivers[h]}
  <1>1. \A h \in 0..(n - 1) : h \in 0..(m - 1) \/ h \in WindowOf(m, n) BY DEF WindowOf
  <1>2. before = after BY <1>1
  <1> QED BY <1>2 DEF Balance

\* A call with its next window, or at its end.
LEMMA WindowedTypes ==
  ASSUME NEW s \in SyncRecord, NEW from \in Nat
  PROVE  LET w == Windowed(s, from)
         IN /\ w \in SyncRecord
            /\ \/ w.pc = "idle" /\ w = NoSync
               \/ /\ w.pc \in {"recount", "scan"} /\ w.from = from /\ w.until = s.until
                  /\ from < s.until
                  /\ w.pc = "scan" => from < w.end /\ w.end <= w.until
  <1> DEFINE pc == IF from + WindowSize > s.until THEN "recount" ELSE "scan"
             end == from + WindowSize
             w == [s EXCEPT !.from = from, !.end = end, !.pc = pc]
  <1>1. WindowSize \in Nat \ {0} BY SyncAssumption
  <1>2. s.until \in Nat BY DEF SyncRecord
  <1>3. CASE from >= s.until
    <2>1. Windowed(s, from) = NoSync BY <1>3 DEF Windowed
    <2>2. NoSync \in SyncRecord /\ NoSync.pc = "idle"
      BY DEF NoSync, SyncRecord, SyncPcs, WalletOrNone
    <2> QED BY <2>1, <2>2
  <1>4. CASE ~(from >= s.until)
    <2>1. Windowed(s, from) = w BY <1>4 DEF Windowed
    <2>2. end \in Nat /\ from < end BY <1>1
    <2>3. pc \in SyncPcs /\ pc \in {"recount", "scan"} BY DEF SyncPcs, Scanning
    <2>4. pc = "scan" => end <= s.until BY <1>1, <1>2
    <2> HIDE DEF pc, end
    <2>5. w \in SyncRecord BY <2>2, <2>3 DEF SyncRecord
    <2>6. w.pc = pc /\ w.from = from /\ w.until = s.until /\ w.end = end BY DEF SyncRecord
    <2> QED BY <1>2, <1>4, <2>1, <2>2, <2>3, <2>4, <2>5, <2>6
  <1> QED BY <1>3, <1>4

\* A call that has not begun.
LEMMA NoSyncType == NoSync \in SyncRecord /\ NoSync.pc = "idle"
  BY DEF NoSync, SyncRecord, SyncPcs, WalletOrNone

-----------------------------------------------------------------------------
(* What each step does to its call *)

\* A step that only moves on, perhaps to the database or to nowhere.
SamePart(p) ==
  /\ sync'[p].from = sync[p].from /\ sync'[p].until = sync[p].until
  /\ sync'[p].end = sync[p].end

\* The height is answered.
LEMMA HeightEffect ==
  ASSUME SyncTypeInv, NEW p \in Syncs, HeightAnswers(p)
  PROVE  OnlySync(p) /\ sync[p].pc = "height" /\ sync'[p].pc = "last" /\ sync'[p].until = height
  <1>1. height \in Nat BY HeightType
  <1>2. sync' = [sync EXCEPT ![p].pc = "last", ![p].until = height] /\ sync[p].pc = "height"
    BY DEF HeightAnswers
  <1>3. "last" \in SyncPcs BY DEF SyncPcs
  <1>4. OnlySync(p) BY <1>1, <1>2, <1>3 DEF SyncTypeInv, OnlySync, SyncRecord
  <1>5. sync'[p] = [sync[p] EXCEPT !.pc = "last", !.until = height] BY <1>2 DEF SyncTypeInv
  <1>6. sync[p] \in SyncRecord BY DEF SyncTypeInv
  <1>7. sync'[p].pc = "last" /\ sync'[p].until = height BY <1>5, <1>6 DEF SyncRecord
  <1> QED BY <1>2, <1>4, <1>7

\* The height is answered again: the window reaches the tip.
LEMMA RecountEffect ==
  ASSUME SyncTypeInv, NEW p \in Syncs, RecountAnswers(p)
  PROVE  /\ OnlySync(p) /\ sync[p].pc = "recount" /\ sync'[p].pc = "scan"
         /\ sync'[p].from = sync[p].from /\ sync'[p].until = height /\ sync'[p].end = height
  <1>1. height \in Nat BY HeightType
  <1>2. /\ sync' = [sync EXCEPT ![p].pc = "scan", ![p].until = height, ![p].end = height]
        /\ sync[p].pc = "recount"
    BY DEF RecountAnswers
  <1>3. "scan" \in SyncPcs BY DEF SyncPcs, Scanning
  <1>4. OnlySync(p) BY <1>1, <1>2, <1>3 DEF SyncTypeInv, OnlySync, SyncRecord
  <1>5. sync'[p] = [sync[p] EXCEPT !.pc = "scan", !.until = height, !.end = height]
    BY <1>2 DEF SyncTypeInv
  <1>6. sync[p] \in SyncRecord BY DEF SyncTypeInv
  <1>7. /\ sync'[p].pc = "scan" /\ sync'[p].from = sync[p].from
        /\ sync'[p].until = height /\ sync'[p].end = height
    BY <1>5, <1>6 DEF SyncRecord
  <1> QED BY <1>2, <1>4, <1>7

\* The addresses paid in the window of a call.
Paying(p) == UNION {Receivers[h] : h \in WindowOf(sync[p].from, sync[p].end)}

\* The window is answered: its addresses are to be saved.
LEMMA ScanEffect ==
  ASSUME SyncTypeInv, NEW p \in Syncs, ScanAnswers(p)
  PROVE  /\ OnlySync(p) /\ SamePart(p) /\ sync[p].pc = "scan"
         /\ sync'[p].pc = IF Paying(p) = {} THEN "findTracker" ELSE "find"
         /\ sync'[p].todo = {[address |-> a, balance |-> Balance(a, height)] : a \in Paying(p)}
  <1> DEFINE todo == {[address |-> a, balance |-> Balance(a, height)] : a \in Paying(p)}
             pc == IF Paying(p) = {} THEN "findTracker" ELSE "find"
  <1>1. height \in Nat /\ height <= MaxHeight /\ MaxHeight \in Nat BY HeightType
  <1>2. sync[p].pc = "scan" /\ sync' = [sync EXCEPT ![p].pc = pc, ![p].todo = todo]
    BY DEF ScanAnswers, Paying
  <1>3. sync[p] \in SyncRecord /\ SyncOK(p) BY DEF SyncTypeInv
  <1>4. Paying(p) \subseteq Addresses
    <2>1. sync[p].from \in Nat /\ sync[p].end \in Nat BY <1>3 DEF SyncRecord
    <2>2. sync[p].until \in Nat /\ sync[p].end <= sync[p].until /\ sync[p].until <= height
      BY <1>2, <1>3 DEF SyncRecord, SyncOK, Scanning
    <2>3. sync[p].end <= MaxHeight BY <1>1, <2>1, <2>2
    <2>4. WindowOf(sync[p].from, sync[p].end) \subseteq 0..MaxHeight
      BY <1>1, <2>1, <2>3 DEF WindowOf
    <2> QED BY <2>4 DEF Paying, Addresses
  <1>5. todo \in SUBSET Wallet BY <1>1, <1>4, BalanceType DEF Wallet
  <1>6. pc \in SyncPcs BY DEF SyncPcs, Scanning
  <1> HIDE DEF todo, pc
  <1>7. OnlySync(p) BY <1>2, <1>5, <1>6 DEF SyncTypeInv, OnlySync, SyncRecord
  <1>8. sync'[p] = [sync[p] EXCEPT !.pc = pc, !.todo = todo] BY <1>2 DEF SyncTypeInv
  <1>9. SamePart(p) /\ sync'[p].pc = pc /\ sync'[p].todo = todo
    BY <1>3, <1>8 DEF SyncRecord, SamePart
  <1> QED BY <1>2, <1>7, <1>9 DEF todo, pc

\* An address is looked up.
LEMMA FindEffect ==
  ASSUME SyncTypeInv, NEW p \in Syncs, NEW wallet \in sync[p].todo, Find(p, wallet)
  PROVE  /\ OnlySync(p) /\ SamePart(p) /\ sync[p].pc = "find" /\ sync'[p].pc = "write"
         /\ wallet \in Wallet
         /\ sync'[p].now = wallet /\ sync'[p].todo = sync[p].todo \ {wallet}
         /\ sync'[p].found = (Records(wallet.address) # {})
  <1> DEFINE todo == sync[p].todo \ {wallet}
             found == Records(wallet.address) # {}
  <1>1. /\ sync[p].pc = "find"
        /\ sync' = [sync EXCEPT ![p].pc = "write", ![p].now = wallet, ![p].todo = todo,
                                ![p].found = found]
    BY DEF Find
  <1>2. sync[p] \in SyncRecord BY DEF SyncTypeInv
  <1>3. todo \in SUBSET Wallet /\ wallet \in Wallet /\ wallet \in WalletOrNone
    BY <1>2 DEF SyncRecord, WalletOrNone
  <1>4. found \in BOOLEAN /\ "write" \in SyncPcs BY DEF SyncPcs, Scanning
  <1> HIDE DEF todo, found
  <1> DEFINE s == [sync[p] EXCEPT !.pc = "write", !.now = wallet, !.todo = todo, !.found = found]
  <1>5. s \in SyncRecord BY <1>2, <1>3, <1>4 DEF SyncRecord
  <1>6. /\ s.pc = "write" /\ s.now = wallet /\ s.todo = todo /\ s.found = found
        /\ s.from = sync[p].from /\ s.until = sync[p].until /\ s.end = sync[p].end
    BY <1>2 DEF SyncRecord
  <1>7. sync' = [sync EXCEPT ![p] = s] BY <1>1 DEF SyncTypeInv
  <1> HIDE DEF s
  <1>8. OnlySync(p) /\ sync'[p] = s BY <1>5, <1>7 DEF SyncTypeInv, OnlySync
  <1> QED BY <1>1, <1>3, <1>6, <1>8 DEF SamePart, todo, found

\* A step that leaves its call idle or forgotten.
LEMMA StopEffect ==
  ASSUME SyncTypeInv, NEW p \in Syncs,
         Begin(p) \/ HeightFails(p) \/ NodeFails(p) \/ DatabaseFails(p)
  PROVE  OnlySync(p) /\ sync'[p].pc \in {"idle", "height", "forgotten"}
  <1> DEFINE starting == [NoSync EXCEPT !.pc = "height"]
             lost == [NoSync EXCEPT !.pc = "forgotten"]
             failing == [sync[p] EXCEPT !.pc = "forgotten"]
  <1>1. sync[p] \in SyncRecord /\ sync \in [Syncs -> SyncRecord] BY DEF SyncTypeInv
  <1>2. {"idle", "height", "forgotten"} \subseteq SyncPcs BY DEF SyncPcs
  <1>3. starting \in SyncRecord /\ starting.pc = "height"
    BY <1>2, NoSyncType DEF SyncRecord
  <1>4. lost \in SyncRecord /\ lost.pc = "forgotten" BY <1>2, NoSyncType DEF SyncRecord
  <1>5. failing \in SyncRecord /\ failing.pc = "forgotten" BY <1>1, <1>2 DEF SyncRecord
  <1>6. /\ Begin(p) => sync' = [sync EXCEPT ![p] = starting]
        /\ HeightFails(p) => sync' = [sync EXCEPT ![p] = failing]
        /\ NodeFails(p) => sync' = [sync EXCEPT ![p] = NoSync]
        /\ DatabaseFails(p) => sync' = [sync EXCEPT ![p] = lost]
    BY <1>1 DEF Begin, HeightFails, NodeFails, DatabaseFails
  <1> HIDE DEF starting, lost, failing
  <1>7. \E s \in SyncRecord : /\ sync' = [sync EXCEPT ![p] = s]
                              /\ s.pc \in {"idle", "height", "forgotten"}
    BY <1>3, <1>4, <1>5, <1>6, NoSyncType
  <1> QED BY <1>1, <1>7 DEF OnlySync

\* A call enters the loop at a block below which it need not look, or it ends.
EntersLoop(p, from) ==
  \/ sync'[p].pc = "idle"
  \/ /\ sync'[p].pc \in {"recount", "scan"} /\ sync'[p].from = from
     /\ sync'[p].until = sync[p].until /\ from < sync[p].until
     /\ (sync'[p].pc = "scan" => (from < sync'[p].end /\ sync'[p].end <= sync'[p].until))

\* A call goes on to its next window.
LEMMA WindowedEffect ==
  ASSUME SyncTypeInv, NEW p \in Syncs, NEW from \in Nat,
         sync' = [sync EXCEPT ![p] = Windowed(@, from)]
  PROVE  OnlySync(p) /\ EntersLoop(p, from)
  <1>1. sync[p] \in SyncRecord /\ sync \in [Syncs -> SyncRecord] BY DEF SyncTypeInv
  <1> DEFINE w == Windowed(sync[p], from)
  <1>2. /\ w \in SyncRecord
        /\ \/ w.pc = "idle" /\ w = NoSync
           \/ /\ w.pc \in {"recount", "scan"} /\ w.from = from /\ w.until = sync[p].until
              /\ from < sync[p].until
              /\ w.pc = "scan" => from < w.end /\ w.end <= w.until
    BY <1>1, WindowedTypes
  <1>3. sync' = [sync EXCEPT ![p] = w] BY <1>1
  <1> HIDE DEF w
  <1>4. sync'[p] = w /\ OnlySync(p) BY <1>1, <1>2, <1>3 DEF OnlySync
  <1> QED BY <1>2, <1>4 DEF EntersLoop

\* The tracker is answered: the call ends, or enters the loop where the tracker is.
LEMMA LastEffect ==
  ASSUME SyncTypeInv, NEW p \in Syncs, LastAnswers(p)
  PROVE  /\ OnlySync(p) /\ sync[p].pc = "last"
         /\ syncing' \in BOOLEAN
         /\ \/ sync'[p].pc = "idle" /\ raced' = raced
            \/ /\ \E from \in Nat : EntersLoop(p, from) /\ (from = 0 \/ (tracker # None /\ from = tracker))
               /\ raced' = (raced \/ \E q \in Syncs \ {p} : sync[q].pc \in Scanning)
  <1> DEFINE racing == \E q \in Syncs \ {p} : sync[q].pc \in Scanning
  <1>1. sync[p].pc = "last" BY DEF LastAnswers
  <1>2. PICK last \in {IF tracker = None THEN 0 ELSE tracker, 0} :
          IF sync[p].until <= last
          THEN syncing' = FALSE /\ sync' = [sync EXCEPT ![p] = NoSync] /\ UNCHANGED raced
          ELSE /\ sync' = [sync EXCEPT ![p] = Windowed(@, last)]
               /\ syncing' = TRUE
               /\ raced' = (raced \/ racing)
    BY DEF LastAnswers
  <1>3. last \in Nat /\ (last = 0 \/ (tracker # None /\ last = tracker))
    <2>1. tracker \in {None} \cup 0..height BY DEF SyncTypeInv
    <2> QED BY <2>1, HeightType
  <1> HIDE DEF racing
  <1>4. CASE sync[p].until <= last
    <2>1. sync' = [sync EXCEPT ![p] = NoSync] /\ raced' = raced /\ syncing' = FALSE BY <1>2, <1>4
    <2>2. OnlySync(p) /\ sync'[p].pc = "idle"
      BY <2>1, NoSyncType DEF SyncTypeInv, OnlySync
    <2> QED BY <1>1, <2>1, <2>2
  <1>5. CASE ~(sync[p].until <= last)
    <2>1. sync' = [sync EXCEPT ![p] = Windowed(@, last)] /\ raced' = (raced \/ racing)
          /\ syncing' = TRUE
      BY <1>2, <1>5
    <2>2. OnlySync(p) /\ EntersLoop(p, last) BY <1>3, <2>1, WindowedEffect
    <2> QED BY <1>1, <1>3, <2>1, <2>2 DEF racing
  <1> QED BY <1>4, <1>5

\* The tracker is looked up.
LEMMA FindTrackerEffect ==
  ASSUME SyncTypeInv, NEW p \in Syncs, FindTracker(p)
  PROVE  /\ OnlySync(p) /\ SamePart(p) /\ sync[p].pc = "findTracker"
         /\ sync'[p].pc = "writeTracker"
  <1> DEFINE found == tracker # None
             s == [sync[p] EXCEPT !.pc = "writeTracker", !.found = found]
  <1>1. sync[p] \in SyncRecord /\ sync \in [Syncs -> SyncRecord] BY DEF SyncTypeInv
  <1>2. sync[p].pc = "findTracker" /\ sync' = [sync EXCEPT ![p] = s] BY <1>1 DEF FindTracker
  <1>3. "writeTracker" \in SyncPcs /\ found \in BOOLEAN BY DEF SyncPcs, Scanning
  <1> HIDE DEF found
  <1>4. /\ s \in SyncRecord /\ s.pc = "writeTracker" /\ s.from = sync[p].from
        /\ s.until = sync[p].until /\ s.end = sync[p].end
    BY <1>1, <1>3 DEF SyncRecord
  <1> HIDE DEF s
  <1>5. OnlySync(p) /\ sync'[p] = s BY <1>1, <1>2, <1>4 DEF OnlySync
  <1> QED BY <1>2, <1>4, <1>5 DEF SamePart

\* The tracker is written, and the next window begins.
LEMMA WriteTrackerEffect ==
  ASSUME SyncTypeInv, NEW p \in Syncs, WriteTracker(p)
  PROVE  /\ OnlySync(p) /\ sync[p].pc = "writeTracker"
         /\ tracker' = sync[p].end /\ sync[p].end \in Nat /\ EntersLoop(p, sync[p].end)
         /\ syncing' \in BOOLEAN
  <1>1. sync[p] \in SyncRecord /\ syncing \in BOOLEAN BY DEF SyncTypeInv
  <1>2. sync[p].end \in Nat BY <1>1 DEF SyncRecord
  <1>3. /\ sync[p].pc = "writeTracker" /\ tracker' = sync[p].end
        /\ sync' = [sync EXCEPT ![p] = Windowed(@, sync[p].end)]
    BY DEF WriteTracker
  <1>4. syncing' \in BOOLEAN BY <1>1 DEF WriteTracker
  <1> QED BY <1>2, <1>3, <1>4, WindowedEffect

\* The record k becomes w, and the others stay.
Replaces(k, w) ==
  /\ k \in 1..Len(wallets) /\ Len(wallets') = Len(wallets)
  /\ wallets'[k] = w
  /\ \A n \in 1..Len(wallets) \ {k} : wallets'[n] = wallets[n]

\* An address is inserted, or its record changes.
LEMMA WriteEffect ==
  ASSUME SyncTypeInv, NEW p \in Syncs, Write(p)
  PROVE  /\ OnlySync(p) /\ SamePart(p) /\ sync[p].pc = "write" /\ sync[p].now \in Wallet
         /\ sync'[p].pc = (IF sync[p].todo = {} THEN "findTracker" ELSE "find")
         /\ sync'[p].todo = sync[p].todo
         /\ wallets' \in Seq(Wallet)
         /\ ~sync[p].found => wallets' = Append(wallets, sync[p].now)
         /\ (sync[p].found /\ Records(sync[p].now.address) # {}) =>
              \E k \in Records(sync[p].now.address) : Replaces(k, sync[p].now)
  <1> DEFINE pc == IF sync[p].todo = {} THEN "findTracker" ELSE "find"
             s == [sync[p] EXCEPT !.pc = pc, !.now = None]
             wallet == sync[p].now
             first == Min(Records(wallet.address))
  <1>1. sync[p] \in SyncRecord /\ sync \in [Syncs -> SyncRecord] /\ wallets \in Seq(Wallet)
    BY DEF SyncTypeInv
  <1>2. /\ sync[p].pc = "write" /\ sync' = [sync EXCEPT ![p] = s]
        /\ sync[p].found => wallets' = [wallets EXCEPT ![first].balance = wallet.balance]
        /\ ~sync[p].found => wallets' = Append(wallets, wallet)
    BY <1>1 DEF Write
  <1>3. wallet \in Wallet BY <1>2 DEF SyncTypeInv, SyncOK
  <1>4. pc \in SyncPcs /\ None \in WalletOrNone BY DEF SyncPcs, Scanning, WalletOrNone
  <1> HIDE DEF pc
  <1>5. /\ s \in SyncRecord /\ s.pc = pc /\ s.from = sync[p].from
        /\ s.until = sync[p].until /\ s.end = sync[p].end /\ s.todo = sync[p].todo
    BY <1>1, <1>4 DEF SyncRecord
  <1> HIDE DEF s, wallet
  <1>6. OnlySync(p) /\ sync'[p] = s BY <1>1, <1>2, <1>5 DEF OnlySync
  <1> HIDE DEF first
  <1>7. ASSUME sync[p].found
        PROVE  /\ wallets' \in Seq(Wallet) /\ Len(wallets') = Len(wallets)
               /\ \A n \in 1..Len(wallets) \ {first} : wallets'[n] = wallets[n]
               /\ first \in 1..Len(wallets) =>
                    wallets'[first] = [wallets[first] EXCEPT !.balance = wallet.balance]
    <2>1. wallets' = [wallets EXCEPT ![first].balance = wallet.balance] BY <1>2, <1>7
    <2>2. DOMAIN wallets = 1..Len(wallets) /\ Len(wallets) \in Nat
          /\ \A n \in 1..Len(wallets) : wallets[n] \in Wallet
      BY <1>1
    <2>3. wallets \in [1..Len(wallets) -> Wallet] BY <1>1
    <2>4. \A w \in Wallet : [w EXCEPT !.balance = wallet.balance] \in Wallet BY <1>3 DEF Wallet
    <2>5. wallets' \in [1..Len(wallets) -> Wallet] BY <2>1, <2>3, <2>4
    <2>6. wallets' \in Seq(Wallet) /\ Len(wallets') = Len(wallets)
      BY <2>2, <2>5, SeqDef, LenProperties
    <2> QED BY <2>1, <2>3, <2>6
  <1>8. ~sync[p].found => wallets' \in Seq(Wallet) BY <1>1, <1>2, <1>3, AppendProperties
  <1>9. ASSUME sync[p].found, Records(wallet.address) # {}
        PROVE  first \in Records(wallet.address) /\ Replaces(first, wallet)
    <2>1. first \in Records(wallet.address)
      <3>1. Records(wallet.address) \subseteq Nat BY DEF Records
      <3>2. PICK k \in Records(wallet.address) : \A m \in Records(wallet.address) : k <= m
        BY <1>9, <3>1, LeastNumber
      <3> QED BY <3>2 DEF first, Min
    <2>2. first \in 1..Len(wallets) /\ wallets[first].address = wallet.address
      BY <2>1 DEF Records
    <2>3. wallets[first] \in Wallet BY <1>1, <2>2
    <2>4. [wallets[first] EXCEPT !.balance = wallet.balance] = wallet
      BY <1>3, <2>2, <2>3 DEF Wallet
    <2> QED BY <1>7, <1>9, <2>1, <2>2, <2>4 DEF Replaces
  <1> QED BY <1>2, <1>3, <1>5, <1>6, <1>7, <1>8, <1>9 DEF SamePart, pc, wallet

-----------------------------------------------------------------------------
(* Types *)

\* What a call knows of its window survives the steps of others.
LEMMA SyncStays ==
  ASSUME SyncTypeInv, NEW p \in Syncs, OnlySync(p), height' = height,
         NEW q \in Syncs, q # p
  PROVE  SyncOK(q)'
  BY DEF SyncTypeInv, SyncOK, OnlySync

\* A call that enters the loop keeps its types.
LEMMA EntersTypes ==
  ASSUME SyncTypeInv, NEW p \in Syncs, NEW from \in Nat, EntersLoop(p, from), height' = height,
         OnlySync(p), sync[p].pc \in Scanning \cup {"last"}
  PROVE  SyncOK(p)'
  <1>1. SyncOK(p) /\ height \in Nat /\ sync[p] \in SyncRecord BY HeightType DEF SyncTypeInv
  <1>2. sync[p].until <= height BY <1>1 DEF SyncOK
  <1>3. CASE sync'[p].pc = "idle" BY <1>3 DEF SyncOK, Scanning
  <1>4. CASE sync'[p].pc \in {"recount", "scan"}
    <2>1. sync'[p].from = from /\ sync'[p].until = sync[p].until /\ from < sync[p].until
          /\ (sync'[p].pc = "scan" => (from < sync'[p].end /\ sync'[p].end <= sync'[p].until))
      BY <1>4 DEF EntersLoop
    <2> QED BY <1>2, <1>4, <2>1 DEF SyncOK, Scanning
  <1> QED BY <1>3, <1>4 DEF EntersLoop

\* Every step keeps the types.
LEMMA SyncTypeStep ==
  ASSUME SyncTypeInv, [SyncNext]_syncVars
  PROVE  SyncTypeInv'
  <1> DEFINE Kept == /\ height' \in FirstHeight..MaxHeight /\ syncing' \in BOOLEAN
                     /\ tracker' \in {None} \cup 0..height' /\ wallets' \in Seq(Wallet)
  <1>1. /\ height \in FirstHeight..MaxHeight /\ syncing \in BOOLEAN /\ wallets \in Seq(Wallet)
        /\ tracker \in {None} \cup 0..height /\ height \in Nat
        /\ sync \in [Syncs -> SyncRecord] /\ \A q \in Syncs : SyncOK(q)
    BY HeightType DEF SyncTypeInv
  <1>2. ASSUME NEW p \in Syncs, OnlySync(p), SyncOK(p)', height' = height, Kept
        PROVE  SyncTypeInv'
    <2>1. \A q \in Syncs : SyncOK(q)' BY <1>2, SyncStays
    <2>2. sync' \in [Syncs -> SyncRecord] BY <1>2 DEF OnlySync
    <2> HIDE DEF SyncOK
    <2> QED BY <1>2, <2>1, <2>2 DEF SyncTypeInv
  <1>3. ASSUME NEW p \in Syncs, Begin(p) PROVE SyncTypeInv'
    <2>1. OnlySync(p) /\ SyncOK(p)' BY <1>3, StopEffect DEF SyncOK, Scanning
    <2>2. Kept /\ height' = height BY <1>1, <1>3 DEF Begin, database
    <2> QED BY <1>2, <2>1, <2>2
  <1>4. ASSUME NEW p \in Syncs, HeightAnswers(p) PROVE SyncTypeInv'
    <2>1. Kept /\ height' = height BY <1>1, <1>4 DEF HeightAnswers, database
    <2>2. OnlySync(p) /\ SyncOK(p)' BY <1>1, <1>4, <2>1, HeightEffect DEF SyncOK, Scanning
    <2> QED BY <1>2, <2>1, <2>2
  <1>5. ASSUME NEW p \in Syncs, HeightFails(p) PROVE SyncTypeInv'
    <2>1. OnlySync(p) /\ SyncOK(p)' BY <1>5, StopEffect DEF SyncOK, Scanning
    <2>2. Kept /\ height' = height BY <1>1, <1>5 DEF HeightFails, database
    <2> QED BY <1>2, <2>1, <2>2
  <1>6. ASSUME NEW p \in Syncs, LastAnswers(p) PROVE SyncTypeInv'
    <2>1. height' = height /\ wallets' = wallets /\ tracker' = tracker
      BY <1>6 DEF LastAnswers, database
    <2>2. Kept BY <1>1, <1>6, <2>1, LastEffect
    <2>3. OnlySync(p) /\ SyncOK(p)'
      <3>1. OnlySync(p) /\ sync[p].pc = "last" BY <1>6, LastEffect
      <3>2. CASE sync'[p].pc = "idle" BY <3>1, <3>2 DEF SyncOK, Scanning
      <3>3. CASE \E from \in Nat : EntersLoop(p, from) BY <2>1, <3>1, <3>3, EntersTypes
      <3> QED BY <1>6, <3>1, <3>2, <3>3, LastEffect
    <2> QED BY <1>2, <2>1, <2>2, <2>3
  <1>7. ASSUME NEW p \in Syncs, RecountAnswers(p) PROVE SyncTypeInv'
    <2>1. Kept /\ height' = height BY <1>1, <1>7 DEF RecountAnswers, database
    <2>2. OnlySync(p) /\ SyncOK(p)'
      <3>1. /\ OnlySync(p) /\ sync[p].pc = "recount" /\ sync'[p].pc = "scan"
            /\ sync'[p].from = sync[p].from /\ sync'[p].until = height /\ sync'[p].end = height
        BY <1>7, RecountEffect
      <3>2. sync[p].from < sync[p].until /\ sync[p].until <= height
        BY <1>1, <3>1 DEF SyncOK, Scanning
      <3>3. sync[p].from \in Nat /\ sync[p].until \in Nat BY <1>1 DEF SyncRecord
      <3>4. sync[p].from < height BY <1>1, <3>2, <3>3
      <3> QED BY <1>1, <2>1, <3>1, <3>4 DEF SyncOK, Scanning
    <2> QED BY <1>2, <2>1, <2>2
  <1>8. ASSUME NEW p \in Syncs, ScanAnswers(p) PROVE SyncTypeInv'
    <2>1. Kept /\ height' = height BY <1>1, <1>8 DEF ScanAnswers, database
    <2>2. OnlySync(p) /\ SyncOK(p)'
      <3>1. /\ OnlySync(p) /\ SamePart(p) /\ sync[p].pc = "scan"
            /\ sync'[p].pc \in {"findTracker", "find"}
        BY <1>8, ScanEffect
      <3> QED BY <1>1, <2>1, <3>1 DEF SyncOK, SamePart, Scanning
    <2> QED BY <1>2, <2>1, <2>2
  <1>9. ASSUME NEW p \in Syncs, NodeFails(p) PROVE SyncTypeInv'
    <2>1. OnlySync(p) /\ SyncOK(p)' BY <1>9, StopEffect DEF SyncOK, Scanning
    <2>2. Kept /\ height' = height BY <1>1, <1>9 DEF NodeFails, database
    <2> QED BY <1>2, <2>1, <2>2
  <1>10. ASSUME NEW p \in Syncs, NEW w \in sync[p].todo, Find(p, w) PROVE SyncTypeInv'
    <2>1. Kept /\ height' = height BY <1>1, <1>10 DEF Find, database
    <2>2. OnlySync(p) /\ SyncOK(p)'
      <3>1. /\ OnlySync(p) /\ SamePart(p) /\ sync[p].pc = "find" /\ sync'[p].pc = "write"
            /\ sync'[p].now \in Wallet
        BY <1>10, FindEffect
      <3> QED BY <1>1, <2>1, <3>1 DEF SyncOK, SamePart, Scanning
    <2> QED BY <1>2, <2>1, <2>2
  <1>11. ASSUME NEW p \in Syncs, Write(p) PROVE SyncTypeInv'
    <2>1. wallets' \in Seq(Wallet) BY <1>11, WriteEffect
    <2>2. Kept /\ height' = height BY <1>1, <1>11, <2>1 DEF Write
    <2>3. OnlySync(p) /\ SyncOK(p)'
      <3>1. /\ OnlySync(p) /\ SamePart(p) /\ sync[p].pc = "write"
            /\ sync'[p].pc \in {"findTracker", "find"}
        BY <1>11, WriteEffect
      <3> QED BY <1>1, <2>2, <3>1 DEF SyncOK, SamePart, Scanning
    <2> QED BY <1>2, <2>2, <2>3
  <1>12. ASSUME NEW p \in Syncs, FindTracker(p) PROVE SyncTypeInv'
    <2>1. Kept /\ height' = height BY <1>1, <1>12 DEF FindTracker, database
    <2>2. OnlySync(p) /\ SyncOK(p)'
      <3>1. /\ OnlySync(p) /\ SamePart(p) /\ sync[p].pc = "findTracker"
            /\ sync'[p].pc = "writeTracker"
        BY <1>12, FindTrackerEffect
      <3> QED BY <1>1, <2>1, <3>1 DEF SyncOK, SamePart, Scanning
    <2> QED BY <1>2, <2>1, <2>2
  <1>13. ASSUME NEW p \in Syncs, WriteTracker(p) PROVE SyncTypeInv'
    <2>1. /\ OnlySync(p) /\ sync[p].pc = "writeTracker" /\ tracker' = sync[p].end
          /\ sync[p].end \in Nat /\ EntersLoop(p, sync[p].end) /\ syncing' \in BOOLEAN
      BY <1>13, WriteTrackerEffect
    <2>2. height' = height /\ wallets' = wallets BY <1>13 DEF WriteTracker
    <2>3. sync[p].end <= height
      <3>1. sync[p].end <= sync[p].until /\ sync[p].until <= height
        BY <1>1, <2>1 DEF SyncOK, Scanning
      <3>2. sync[p].until \in Nat BY <1>1 DEF SyncRecord
      <3> QED BY <1>1, <2>1, <3>1, <3>2
    <2>4. Kept BY <1>1, <2>1, <2>2, <2>3
    <2>5. SyncOK(p)' BY <2>1, <2>2, EntersTypes DEF Scanning
    <2> QED BY <1>2, <2>1, <2>2, <2>4, <2>5
  <1>14. ASSUME NEW p \in Syncs, DatabaseFails(p) PROVE SyncTypeInv'
    <2>1. OnlySync(p) /\ SyncOK(p)' BY <1>14, StopEffect DEF SyncOK, Scanning
    <2>2. Kept /\ height' = height BY <1>1, <1>14 DEF DatabaseFails, database
    <2> QED BY <1>2, <2>1, <2>2
  <1>15. ASSUME SyncRestart PROVE SyncTypeInv'
    <2>1. \A p \in Syncs : sync'[p] = NoSync BY <1>15 DEF SyncRestart
    <2>2. sync' \in [Syncs -> SyncRecord] BY <1>15, NoSyncType DEF SyncRestart
    <2>3. \A p \in Syncs : SyncOK(p)' BY <2>1, NoSyncType DEF SyncOK, Scanning
    <2>4. Kept BY <1>1, <1>15 DEF SyncRestart, database
    <2> HIDE DEF SyncOK
    <2> QED BY <2>2, <2>3, <2>4 DEF SyncTypeInv
  <1>16. ASSUME NewBlock PROVE SyncTypeInv'
    <2>1. height' = height + 1 /\ sync' = sync /\ wallets' = wallets /\ tracker' = tracker
          /\ syncing' = syncing /\ height < MaxHeight
      BY <1>16 DEF NewBlock
    <2>2. Kept BY <1>1, <2>1, SyncAssumption
    <2>3. \A p \in Syncs : SyncOK(p)'
      <3> SUFFICES ASSUME NEW p \in Syncs PROVE SyncOK(p)' OBVIOUS
      <3>1. sync[p].until \in Nat BY <1>1 DEF SyncRecord
      <3> QED BY <1>1, <2>1, <3>1 DEF SyncOK
    <2> HIDE DEF SyncOK
    <2> QED BY <1>1, <2>1, <2>2, <2>3 DEF SyncTypeInv
  <1>17. CASE UNCHANGED syncVars
    <2>1. sync' = sync /\ height' = height /\ wallets' = wallets /\ tracker' = tracker
          /\ syncing' = syncing
      BY <1>17 DEF syncVars
    <2>2. \A p \in Syncs : SyncOK(p)' BY <1>1, <2>1 DEF SyncOK
    <2> HIDE DEF SyncOK
    <2> QED BY <1>1, <2>1, <2>2 DEF SyncTypeInv
  <1> QED BY <1>3, <1>4, <1>5, <1>6, <1>7, <1>8, <1>9, <1>10, <1>11, <1>12, <1>13, <1>14,
             <1>15, <1>16, <1>17 DEF SyncNext, SyncStep

\* Initially everything has its type.
LEMMA SyncTypeStart ==
  ASSUME SyncInit
  PROVE  SyncTypeInv
  <1>1. height = FirstHeight /\ syncing = FALSE /\ wallets = <<>> /\ tracker = None
        /\ sync = [p \in Syncs |-> NoSync]
    BY DEF SyncInit
  <1>2. sync \in [Syncs -> SyncRecord] BY <1>1, NoSyncType
  <1>3. \A p \in Syncs : SyncOK(p) BY <1>1, NoSyncType DEF SyncOK, Scanning
  <1>4. wallets \in Seq(Wallet) BY <1>1, EmptySeq
  <1>5. height \in FirstHeight..MaxHeight BY <1>1, SyncAssumption
  <1> HIDE DEF SyncOK
  <1> QED BY <1>1, <1>2, <1>3, <1>4, <1>5 DEF SyncTypeInv

-----------------------------------------------------------------------------
(* Every receiver is in the database *)

\* A call still has to save an address.
Unsaved(p, a) ==
  \/ \E w \in sync[p].todo : w.address = a
  \/ sync[p].pc = "write" /\ sync[p].now.address = a

SavedBelow(n) == \A h \in 0..(n - 1) : \A a \in Receivers[h] : Records(a) # {}

Saving(p) ==
  /\ sync[p].pc \in Scanning => SavedBelow(sync[p].from)
  /\ sync[p].pc \in {"find", "write"} =>
       \A h \in WindowOf(sync[p].from, sync[p].end) :
         \A a \in Receivers[h] : Records(a) # {} \/ Unsaved(p, a)
  /\ (sync[p].pc = "write" /\ sync[p].found) => Records(sync[p].now.address) # {}
  /\ sync[p].pc \in {"findTracker", "writeTracker"} => SavedBelow(sync[p].end)

SaveInv ==
  /\ tracker # None => SavedBelow(tracker)
  /\ \A p \in Syncs : Saving(p)

\* No step removes a record, or gives one to another address.
WalletsGrow == \A a : Records(a) \subseteq Records(a)'

\* The blocks below n, with the records a step leaves.
SavedAfter(n) == \A h \in 0..(n - 1) : \A a \in Receivers[h] : Records(a)' # {}

\* No record is lost when an address is saved.
LEMMA WriteGrows ==
  ASSUME SyncTypeInv, NEW p \in Syncs, Write(p), NEW w, w = sync[p].now,
         sync[p].found => Records(w.address) # {}
  PROVE  WalletsGrow /\ Records(w.address)' # {}
  <1>1. /\ wallets' \in Seq(Wallet) /\ w \in Wallet
        /\ ~sync[p].found => wallets' = Append(wallets, w)
        /\ sync[p].found => \E k \in Records(w.address) : Replaces(k, w)
    BY WriteEffect
  <1>2. wallets \in Seq(Wallet) BY DEF SyncTypeInv
  <1>3. CASE ~sync[p].found
    <2>1. /\ Len(wallets) \in Nat /\ Len(wallets') = Len(wallets) + 1
          /\ wallets'[Len(wallets) + 1] = w
          /\ \A n \in 1..Len(wallets) : wallets'[n] = wallets[n]
      BY <1>1, <1>2, <1>3, AppendProperties
    <2>2. WalletsGrow BY <2>1 DEF WalletsGrow, Records
    <2>3. Len(wallets) + 1 \in 1..Len(wallets') BY <2>1
    <2>4. Len(wallets) + 1 \in Records(w.address)' BY <2>1, <2>3 DEF Records
    <2> QED BY <2>2, <2>4
  <1>4. CASE sync[p].found
    <2>1. PICK k \in Records(w.address) : Replaces(k, w) BY <1>1, <1>4
    <2>2. k \in 1..Len(wallets) /\ wallets[k].address = w.address BY <2>1 DEF Records
    <2>3. /\ Len(wallets') = Len(wallets) /\ wallets'[k] = w
          /\ \A n \in 1..Len(wallets) \ {k} : wallets'[n] = wallets[n]
      BY <2>1 DEF Replaces
    <2>4. \A n \in 1..Len(wallets) : wallets'[n].address = wallets[n].address
      BY <2>2, <2>3
    <2>5. WalletsGrow BY <2>3, <2>4 DEF WalletsGrow, Records
    <2>6. k \in Records(w.address)' BY <2>2, <2>3 DEF Records
    <2> QED BY <2>5, <2>6
  <1> QED BY <1>3, <1>4

\* No record is lost when none is written.
LEMMA SameWallets == wallets' = wallets => WalletsGrow
  BY DEF WalletsGrow, Records

\* What is saved stays saved.
LEMMA SavedGrows ==
  ASSUME WalletsGrow, NEW n, SavedBelow(n)
  PROVE  SavedAfter(n)
  BY DEF SavedBelow, SavedAfter, WalletsGrow

\* What has to be shown of the call that steps.
LEMMA SavingNext ==
  ASSUME NEW p \in Syncs,
         sync'[p].pc \in Scanning => SavedAfter(sync'[p].from),
         sync'[p].pc \in {"find", "write"} =>
           \A h \in WindowOf(sync'[p].from, sync'[p].end) :
             \A a \in Receivers[h] : Records(a)' # {} \/ Unsaved(p, a)',
         (sync'[p].pc = "write" /\ sync'[p].found) =>
           \A a : a = sync'[p].now.address => Records(a)' # {},
         sync'[p].pc \in {"findTracker", "writeTracker"} => SavedAfter(sync'[p].end)
  PROVE  Saving(p)'
  BY DEF Saving, SavedBelow, SavedAfter, Records

\* What a call has saved and has to save survives the steps of others.
LEMMA SavingStays ==
  ASSUME NEW q \in Syncs, Saving(q), sync'[q] = sync[q], WalletsGrow
  PROVE  Saving(q)'
  <1>1. sync[q].pc \in Scanning => SavedAfter(sync[q].from) BY SavedGrows DEF Saving
  <1>2. sync[q].pc \in {"findTracker", "writeTracker"} => SavedAfter(sync[q].end)
    BY SavedGrows DEF Saving
  <1>3. (sync[q].pc = "write" /\ sync[q].found) =>
          \A a : a = sync[q].now.address => Records(a)' # {}
    BY DEF Saving, WalletsGrow
  <1>4. sync[q].pc \in {"find", "write"} =>
          \A h \in WindowOf(sync[q].from, sync[q].end) :
            \A a \in Receivers[h] : Records(a)' # {} \/ Unsaved(q, a)'
    BY DEF Saving, WalletsGrow, Unsaved
  <1> QED BY <1>1, <1>2, <1>3, <1>4, SavingNext

\* The tracker may be written once what lies below it is saved.
LEMMA TrackerNext ==
  ASSUME NEW n, SavedAfter(n), tracker' = n
  PROVE  SavedBelow(tracker)'
  BY DEF SavedBelow, SavedAfter

\* Every step keeps what each call has still to save.
LEMMA SaveStep ==
  ASSUME SyncTypeInv, SaveInv, [SyncNext]_syncVars
  PROVE  SaveInv'
  <1>1. /\ height \in Nat /\ sync \in [Syncs -> SyncRecord] /\ \A q \in Syncs : Saving(q)
        /\ tracker # None => SavedBelow(tracker)
    BY HeightType DEF SyncTypeInv, SaveInv
  <1>2. ASSUME NEW p \in Syncs, OnlySync(p), Saving(p)', WalletsGrow, tracker' = tracker
        PROVE  SaveInv'
    <2>1. \A q \in Syncs \ {p} : Saving(q)' BY <1>1, <1>2, SavingStays DEF OnlySync
    <2>2. tracker' # None => SavedBelow(tracker)' BY <1>1, <1>2, SavedGrows, TrackerNext
    <2> HIDE DEF Saving, SavedBelow
    <2> QED BY <1>2, <2>1, <2>2 DEF SaveInv
  <1>3. ASSUME NEW p \in Syncs, OnlySync(p), sync'[p].pc \in {"idle", "height", "last", "forgotten"},
               wallets' = wallets, tracker' = tracker
        PROVE  SaveInv'
    <2>1. Saving(p)' BY <1>3 DEF Saving, Scanning
    <2> QED BY <1>2, <1>3, <2>1, SameWallets
  <1>4. ASSUME NEW p \in Syncs, Begin(p) \/ HeightFails(p) \/ NodeFails(p) \/ DatabaseFails(p)
        PROVE  SaveInv'
    <2>1. OnlySync(p) /\ sync'[p].pc \in {"idle", "height", "forgotten"} BY <1>4, StopEffect
    <2>2. wallets' = wallets /\ tracker' = tracker
      BY <1>4 DEF Begin, HeightFails, NodeFails, DatabaseFails, database
    <2> QED BY <1>3, <2>1, <2>2
  <1>5. ASSUME NEW p \in Syncs, HeightAnswers(p) PROVE SaveInv'
    <2>1. OnlySync(p) /\ sync'[p].pc = "last" BY <1>5, HeightEffect
    <2>2. wallets' = wallets /\ tracker' = tracker BY <1>5 DEF HeightAnswers, database
    <2> QED BY <1>3, <2>1, <2>2
  <1>6. ASSUME NEW p \in Syncs, LastAnswers(p) PROVE SaveInv'
    <2>1. OnlySync(p) BY <1>6, LastEffect
    <2>2. wallets' = wallets /\ tracker' = tracker BY <1>6 DEF LastAnswers, database
    <2>3. CASE sync'[p].pc = "idle" BY <1>3, <2>1, <2>2, <2>3
    <2>4. CASE \E from \in Nat : EntersLoop(p, from) /\ (from = 0 \/ (tracker # None /\ from = tracker))
      <3>1. PICK from \in Nat : EntersLoop(p, from) /\ (from = 0 \/ (tracker # None /\ from = tracker))
        BY <2>4
      <3>2. SavedBelow(from)
        <4>1. SavedBelow(0) BY DEF SavedBelow
        <4> QED BY <1>1, <3>1, <4>1
      <3>3. SavedAfter(from) BY <2>2, <3>2, SavedGrows, SameWallets
      <3>4. sync'[p].pc = "idle" \/ (sync'[p].pc \in {"recount", "scan"} /\ sync'[p].from = from)
        BY <3>1 DEF EntersLoop
      <3>5. Saving(p)' BY <3>3, <3>4, SavingNext DEF Scanning
      <3> QED BY <1>2, <2>1, <2>2, <3>5, SameWallets
    <2> QED BY <1>6, <2>3, <2>4, LastEffect
  <1>7. ASSUME NEW p \in Syncs, RecountAnswers(p) PROVE SaveInv'
    <2>1. OnlySync(p) /\ sync[p].pc = "recount" /\ sync'[p].pc = "scan"
          /\ sync'[p].from = sync[p].from
      BY <1>7, RecountEffect
    <2>2. wallets' = wallets /\ tracker' = tracker BY <1>7 DEF RecountAnswers, database
    <2>3. SavedBelow(sync[p].from) BY <1>1, <2>1 DEF Saving, Scanning
    <2>4. SavedAfter(sync[p].from) BY <2>2, <2>3, SavedGrows, SameWallets
    <2>5. Saving(p)' BY <2>1, <2>4, SavingNext DEF Scanning
    <2> QED BY <1>2, <2>1, <2>2, <2>5, SameWallets
  <1>8. ASSUME NEW p \in Syncs, ScanAnswers(p) PROVE SaveInv'
    <2> DEFINE from == sync[p].from
               end == sync[p].end
    <2>1. /\ OnlySync(p) /\ SamePart(p) /\ sync[p].pc = "scan"
          /\ sync'[p].pc = IF Paying(p) = {} THEN "findTracker" ELSE "find"
          /\ sync'[p].todo = {[address |-> a, balance |-> Balance(a, height)] : a \in Paying(p)}
      BY <1>8, ScanEffect
    <2>2. wallets' = wallets /\ tracker' = tracker BY <1>8 DEF ScanAnswers, database
    <2>3. SavedBelow(from) /\ from \in Nat /\ end \in Nat
      BY <1>1, <2>1 DEF Saving, Scanning, SyncRecord
    <2>4. sync'[p].from = from /\ sync'[p].end = end BY <2>1 DEF SamePart
    <2>5. \A h \in WindowOf(from, end) : \A a \in Receivers[h] : a \in Paying(p) BY DEF Paying
    <2>6. \A a \in Paying(p) : Unsaved(p, a)'
      <3> SUFFICES ASSUME NEW a \in Paying(p) PROVE Unsaved(p, a)' OBVIOUS
      <3>1. [address |-> a, balance |-> Balance(a, height)] \in sync'[p].todo BY <2>1
      <3> QED BY <3>1 DEF Unsaved
    <2>7. SavedAfter(from) BY <2>2, <2>3, SavedGrows, SameWallets
    <2>8. Paying(p) = {} => SavedAfter(end)
      <3> SUFFICES ASSUME Paying(p) = {}, NEW h \in 0..(end - 1), NEW a \in Receivers[h]
                   PROVE  Records(a)' # {}
        BY DEF SavedAfter
      <3>1. h \notin WindowOf(from, end) BY <2>5
      <3>2. h \in 0..(from - 1) BY <2>3, <3>1 DEF WindowOf
      <3> QED BY <2>7, <3>2 DEF SavedAfter
    <2> HIDE DEF from, end
    <2>9. Saving(p)'
      BY <2>1, <2>4, <2>5, <2>6, <2>7, <2>8, SavingNext DEF Scanning
    <2> QED BY <1>2, <2>1, <2>2, <2>9, SameWallets
  <1>9. ASSUME NEW p \in Syncs, NEW w \in sync[p].todo, Find(p, w) PROVE SaveInv'
    <2>1. /\ OnlySync(p) /\ SamePart(p) /\ sync[p].pc = "find" /\ sync'[p].pc = "write"
          /\ sync'[p].now = w /\ sync'[p].todo = sync[p].todo \ {w}
          /\ sync'[p].found = (Records(w.address) # {})
      BY <1>9, FindEffect
    <2>2. wallets' = wallets /\ tracker' = tracker BY <1>9 DEF Find, database
    <2>3. \A a : Records(a)' = Records(a) BY <2>2 DEF Records
    <2>4. \A a : Unsaved(p, a) => Unsaved(p, a)' BY <2>1 DEF Unsaved
    <2>5. SavedAfter(sync[p].from) BY <1>1, <2>1, <2>2, SavedGrows, SameWallets DEF Saving, Scanning
    <2>6. \A h \in WindowOf(sync[p].from, sync[p].end) :
            \A a \in Receivers[h] : Records(a)' # {} \/ Unsaved(p, a)'
      BY <1>1, <2>1, <2>3, <2>4 DEF Saving
    <2>7. Saving(p)'
      BY <2>1, <2>3, <2>5, <2>6, SavingNext DEF SamePart, Scanning
    <2> QED BY <1>2, <2>1, <2>2, <2>7, SameWallets
  <1>10. ASSUME NEW p \in Syncs, Write(p) PROVE SaveInv'
    <2> DEFINE from == sync[p].from
               end == sync[p].end
    <2>1. /\ OnlySync(p) /\ SamePart(p) /\ sync[p].pc = "write" /\ sync[p].now \in Wallet
          /\ sync'[p].pc = (IF sync[p].todo = {} THEN "findTracker" ELSE "find")
          /\ sync'[p].todo = sync[p].todo
      BY <1>10, WriteEffect
    <2>2. tracker' = tracker BY <1>10 DEF Write
    <2>3. /\ SavedBelow(from) /\ from \in Nat /\ end \in Nat
          /\ \A h \in WindowOf(from, end) :
               \A a \in Receivers[h] : Records(a) # {} \/ Unsaved(p, a)
          /\ sync[p].found => Records(sync[p].now.address) # {}
      BY <1>1, <2>1 DEF Saving, Scanning, SyncRecord
    <2>4. WalletsGrow /\ \A a : a = sync[p].now.address => Records(a)' # {}
      <3> SUFFICES ASSUME NEW w, w = sync[p].now PROVE WalletsGrow /\ Records(w.address)' # {}
        OBVIOUS
      <3>1. sync[p].found => Records(w.address) # {} BY <2>3
      <3> QED BY <1>10, <3>1, WriteGrows
    <2>5. \A a : Unsaved(p, a) => (Records(a)' # {} \/ \E w \in sync[p].todo : w.address = a)
      BY <2>4 DEF Unsaved
    <2>6. \A h \in WindowOf(from, end) :
            \A a \in Receivers[h] : Records(a)' # {} \/ \E w \in sync[p].todo : w.address = a
      BY <2>3, <2>4, <2>5 DEF WalletsGrow
    <2>7. SavedAfter(from) BY <2>3, <2>4, SavedGrows
    <2>8. sync[p].todo = {} => SavedAfter(end)
      <3> SUFFICES ASSUME sync[p].todo = {}, NEW h \in 0..(end - 1), NEW a \in Receivers[h]
                   PROVE  Records(a)' # {}
        BY DEF SavedAfter
      <3>1. CASE h \in WindowOf(from, end) BY <2>6, <3>1
      <3>2. CASE h \in 0..(from - 1) BY <2>7, <3>2 DEF SavedAfter
      <3> QED BY <2>3, <3>1, <3>2 DEF WindowOf
    <2>9. sync'[p].from = from /\ sync'[p].end = end BY <2>1 DEF SamePart
    <2>10. \A a : (\E w \in sync[p].todo : w.address = a) => Unsaved(p, a)'
      BY <2>1 DEF Unsaved
    <2> HIDE DEF from, end
    <2>11. Saving(p)'
      BY <2>1, <2>6, <2>7, <2>8, <2>9, <2>10, SavingNext DEF Scanning
    <2> QED BY <1>2, <2>1, <2>2, <2>4, <2>11
  <1>11. ASSUME NEW p \in Syncs, FindTracker(p) PROVE SaveInv'
    <2>1. OnlySync(p) /\ SamePart(p) /\ sync[p].pc = "findTracker" /\ sync'[p].pc = "writeTracker"
      BY <1>11, FindTrackerEffect
    <2>2. wallets' = wallets /\ tracker' = tracker BY <1>11 DEF FindTracker, database
    <2>3. SavedBelow(sync[p].from) /\ SavedBelow(sync[p].end)
      BY <1>1, <2>1 DEF Saving, Scanning
    <2>4. SavedAfter(sync[p].from) /\ SavedAfter(sync[p].end)
      BY <2>2, <2>3, SavedGrows, SameWallets
    <2>5. Saving(p)' BY <2>1, <2>4, SavingNext DEF SamePart, Scanning
    <2> QED BY <1>2, <2>1, <2>2, <2>5, SameWallets
  <1>12. ASSUME NEW p \in Syncs, WriteTracker(p) PROVE SaveInv'
    <2>1. /\ OnlySync(p) /\ sync[p].pc = "writeTracker" /\ tracker' = sync[p].end
          /\ EntersLoop(p, sync[p].end)
      BY <1>12, WriteTrackerEffect
    <2>2. wallets' = wallets BY <1>12 DEF WriteTracker
    <2> DEFINE end == sync[p].end
    <2>3. SavedBelow(end) BY <1>1, <2>1 DEF Saving
    <2>4. SavedAfter(end) BY <2>2, <2>3, SavedGrows, SameWallets
    <2>5. sync'[p].pc = "idle" \/ (sync'[p].pc \in {"recount", "scan"} /\ sync'[p].from = end)
      BY <2>1 DEF EntersLoop
    <2>6. tracker' = end BY <2>1
    <2> HIDE DEF end
    <2>7. Saving(p)' BY <2>4, <2>5, SavingNext DEF Scanning
    <2>8. \A q \in Syncs \ {p} : Saving(q)'
      BY <1>1, <2>1, <2>2, SavingStays, SameWallets DEF OnlySync
    <2>9. SavedBelow(tracker)' BY <2>4, <2>6, TrackerNext
    <2> HIDE DEF Saving, SavedBelow
    <2> QED BY <2>7, <2>8, <2>9 DEF SaveInv
  <1>13. CASE SyncRestart
    <2>1. \A p \in Syncs : sync'[p] = NoSync BY <1>13 DEF SyncRestart
    <2>2. \A p \in Syncs : Saving(p)' BY <2>1, NoSyncType DEF Saving, Scanning
    <2>3. wallets' = wallets /\ tracker' = tracker BY <1>13 DEF SyncRestart, database
    <2>4. tracker' # None => SavedBelow(tracker)' BY <1>1, <2>3 DEF SavedBelow, Records
    <2> HIDE DEF Saving, SavedBelow
    <2> QED BY <2>2, <2>4 DEF SaveInv
  <1>14. CASE NewBlock \/ UNCHANGED syncVars
    <2>1. sync' = sync /\ wallets' = wallets /\ tracker' = tracker
      BY <1>14 DEF NewBlock, syncVars
    <2>2. \A p \in Syncs : Saving(p)' BY <1>1, <2>1, SavingStays, SameWallets
    <2>3. tracker' # None => SavedBelow(tracker)' BY <1>1, <2>1 DEF SavedBelow, Records
    <2> HIDE DEF Saving, SavedBelow
    <2> QED BY <2>2, <2>3 DEF SaveInv
  <1> QED BY <1>4, <1>5, <1>6, <1>7, <1>8, <1>9, <1>10, <1>11, <1>12, <1>13, <1>14
          DEF SyncNext, SyncStep

-----------------------------------------------------------------------------
(* While no two syncs met, every record is alone and has what the tracker says *)

\* A wallet has what its address received below a block.
Reaches(w, n) == w.balance >= Balance(w.address, n - 1)
AllReach(n) == \A i \in 1..Len(wallets) : Reaches(wallets[i], n)

ToSave(p) == sync[p].todo \cup (IF sync[p].pc = "write" THEN {sync[p].now} ELSE {})

Counting(p) ==
  /\ sync[p].pc \in {"recount", "scan"} => AllReach(sync[p].from)
  /\ sync[p].pc \in {"find", "write"} =>
       /\ \A i \in 1..Len(wallets) :
            Reaches(wallets[i], sync[p].end) \/ Unsaved(p, wallets[i].address)
       /\ \A w \in ToSave(p) :
            Reaches(w, sync[p].end) /\ (tracker # None => Reaches(w, tracker))
  /\ sync[p].pc = "write" => sync[p].found = (Records(sync[p].now.address) # {})
  /\ sync[p].pc \in {"findTracker", "writeTracker"} => AllReach(sync[p].end)

Alone == \A p, q \in Syncs : (sync[p].pc \in Scanning /\ sync[q].pc \in Scanning) => p = q
Distinct == \A m, n \in 1..Len(wallets) : wallets[m].address = wallets[n].address => m = n

CountInv ==
  ~raced =>
    /\ Alone /\ Distinct
    /\ tracker # None => AllReach(tracker)
    /\ \A p \in Syncs : Counting(p)

\* The same, of the wallets a step leaves.
AllReachAfter(n) == \A i \in 1..Len(wallets') : Reaches(wallets'[i], n)

\* What has to be shown of the call that steps.
LEMMA CountingNext ==
  ASSUME NEW p \in Syncs,
         sync'[p].pc \in {"recount", "scan"} => AllReachAfter(sync'[p].from),
         sync'[p].pc \in {"find", "write"} =>
           /\ \A i \in 1..Len(wallets') :
                Reaches(wallets'[i], sync'[p].end)
                \/ \A a : a = wallets'[i].address => Unsaved(p, a)'
           /\ \A w \in ToSave(p)' :
                Reaches(w, sync'[p].end) /\ (tracker' # None => Reaches(w, tracker')),
         sync'[p].pc = "write" =>
           \A a : a = sync'[p].now.address => (sync'[p].found = (Records(a)' # {})),
         sync'[p].pc \in {"findTracker", "writeTracker"} => AllReachAfter(sync'[p].end)
  PROVE  Counting(p)'
  BY DEF Counting, AllReach, AllReachAfter, Reaches, Unsaved, Records, ToSave

\* Records that stay have what they had.
LEMMA AllReachNext ==
  ASSUME NEW n, AllReach(n), wallets' = wallets
  PROVE  AllReachAfter(n)
  BY DEF AllReach, AllReachAfter

\* The tracker may be written once every record has what is below it.
LEMMA TrackerReached ==
  ASSUME NEW n, AllReachAfter(n), tracker' = n
  PROVE  AllReach(tracker)'
  BY DEF AllReach, AllReachAfter, Reaches

\* Nothing is received below the first block.
LEMMA NothingBelow ==
  ASSUME SyncTypeInv
  PROVE  AllReach(0)
  <1> SUFFICES ASSUME NEW i \in 1..Len(wallets)
               PROVE  wallets[i].balance >= Balance(wallets[i].address, 0 - 1)
    BY DEF AllReach, Reaches
  <1>1. wallets[i] \in Wallet BY DEF SyncTypeInv
  <1>2. wallets[i].balance \in Nat BY <1>1, SyncAssumption DEF Wallet, Balances
  <1>3. {h \in 0..(0 - 1) : wallets[i].address \in Receivers[h]} = {} OBVIOUS
  <1>4. Balance(wallets[i].address, 0 - 1) = 0 BY <1>3, FS_EmptySet DEF Balance
  <1> QED BY <1>2, <1>4

\* A wallet that has what was received below n has it below every earlier block.
LEMMA ReachesLess ==
  ASSUME NEW w \in Wallet, NEW m \in Int, NEW n \in Int, m <= n, Reaches(w, n)
  PROVE  Reaches(w, m)
  <1>1. Balance(w.address, m - 1) <= Balance(w.address, n - 1)
        /\ Balance(w.address, m - 1) \in Nat /\ Balance(w.address, n - 1) \in Nat
    BY BalanceGrows
  <1>2. w.balance \in Nat BY SyncAssumption DEF Wallet, Balances
  <1> QED BY <1>1, <1>2 DEF Reaches

\* What the node answers at the tip reaches every block up to the tip.
LEMMA TipReaches ==
  ASSUME NEW a, NEW n \in Nat, NEW m \in Nat, m <= n
  PROVE  Reaches([address |-> a, balance |-> Balance(a, n)], m)
  BY BalanceGrows DEF Reaches

\* A call that does not scan counts nothing.
LEMMA CountingIdle ==
  ASSUME NEW p \in Syncs, sync'[p].pc \notin Scanning
  PROVE  Counting(p)'
  BY CountingNext DEF Scanning

\* A step of p that keeps the database keeps what the others count.
LEMMA CountStep ==
  ASSUME SyncTypeInv, CountInv, NEW p \in Syncs, OnlySync(p), raced' = raced,
         wallets' = wallets, tracker' = tracker,
         sync'[p].pc \in Scanning => sync[p].pc \in Scanning,
         ~raced => Counting(p)'
  PROVE  CountInv'
  <1> SUFFICES ASSUME ~raced PROVE CountInv' BY DEF CountInv
  <1>1. Alone /\ Distinct /\ (tracker # None => AllReach(tracker))
        /\ \A q \in Syncs : Counting(q)
    BY DEF CountInv
  <1>2. Alone' BY <1>1 DEF Alone, OnlySync
  <1>3. Distinct' BY <1>1 DEF Distinct
  <1>4. tracker' # None => AllReach(tracker)' BY <1>1 DEF AllReach
  <1>5. ASSUME NEW q \in Syncs \ {p} PROVE Counting(q)'
    <2>1. sync'[q] = sync[q] /\ Counting(q) BY <1>1 DEF OnlySync
    <2> QED BY <2>1 DEF Counting, AllReach, ToSave, Unsaved, Records, Reaches
  <1> HIDE DEF Alone, Distinct, AllReach, Counting
  <1> QED BY <1>2, <1>3, <1>4, <1>5 DEF CountInv

\* While one call scans, no other does, so that nothing of theirs can be disturbed.
LEMMA AloneStep ==
  ASSUME Alone, NEW p \in Syncs, OnlySync(p), sync[p].pc \in Scanning, NEW q \in Syncs \ {p}
  PROVE  sync[q].pc \notin Scanning /\ Counting(q)'
  <1>1. sync[q].pc \notin Scanning BY DEF Alone
  <1>2. sync'[q].pc \notin Scanning BY <1>1 DEF OnlySync
  <1> QED BY <1>1, <1>2, CountingIdle

\* A call that begins behind the tracker.
LEMMA LastCounts ==
  ASSUME SyncTypeInv, CountInv, NEW p \in Syncs, LastAnswers(p)
  PROVE  CountInv'
  <1>1. OnlySync(p) /\ sync[p].pc = "last" BY LastEffect
  <1>2. wallets' = wallets /\ tracker' = tracker BY DEF LastAnswers, database
  <1>3. CASE sync'[p].pc = "idle" /\ raced' = raced
    BY <1>1, <1>2, <1>3, CountingIdle, CountStep DEF Scanning
  <1>4. ASSUME NEW from \in Nat, EntersLoop(p, from), from = 0 \/ (tracker # None /\ from = tracker),
               raced' = (raced \/ \E q \in Syncs \ {p} : sync[q].pc \in Scanning)
        PROVE  CountInv'
    <2> SUFFICES ASSUME ~raced' PROVE CountInv' BY DEF CountInv
    <2>1. ~raced /\ \A q \in Syncs \ {p} : sync[q].pc \notin Scanning BY <1>4
    <2>2. Alone /\ Distinct /\ (tracker # None => AllReach(tracker)) BY <2>1 DEF CountInv
    <2>3. \A q \in Syncs \ {p} : sync'[q].pc \notin Scanning BY <1>1, <2>1 DEF OnlySync
    <2>4. Alone' BY <2>3 DEF Alone
    <2>5. Distinct' BY <1>2, <2>2 DEF Distinct
    <2>6. tracker' # None => AllReach(tracker)' BY <1>2, <2>2 DEF AllReach
    <2>7. AllReach(from) BY <1>4, <2>2, NothingBelow
    <2>8. AllReachAfter(from) BY <1>2, <2>7, AllReachNext
    <2>9. sync'[p].pc = "idle" \/ (sync'[p].pc \in {"recount", "scan"} /\ sync'[p].from = from)
      BY <1>4 DEF EntersLoop
    <2>10. Counting(p)' BY <2>8, <2>9, CountingNext
    <2>11. \A q \in Syncs \ {p} : Counting(q)' BY <2>3, CountingIdle
    <2> HIDE DEF Alone, Distinct, AllReach, Counting
    <2> QED BY <2>4, <2>5, <2>6, <2>10, <2>11 DEF CountInv
  <1> QED BY <1>3, <1>4, LastEffect

\* The balances of a window are up to its end.
LEMMA ScanCounts ==
  ASSUME SyncTypeInv, CountInv, NEW p \in Syncs, ScanAnswers(p)
  PROVE  CountInv'
  <1> DEFINE from == sync[p].from
             end == sync[p].end
  <1>1. /\ OnlySync(p) /\ SamePart(p) /\ sync[p].pc = "scan"
        /\ sync'[p].pc = IF Paying(p) = {} THEN "findTracker" ELSE "find"
        /\ sync'[p].todo = {[address |-> a, balance |-> Balance(a, height)] : a \in Paying(p)}
    BY ScanEffect
  <1>2. wallets' = wallets /\ tracker' = tracker /\ raced' = raced
    BY DEF ScanAnswers, database, syncHistory
  <1>3. /\ from \in Nat /\ end \in Nat /\ from <= end /\ end <= height /\ height \in Nat
        /\ tracker \in {None} \cup 0..height
    <2>1. sync[p] \in SyncRecord /\ SyncOK(p) /\ tracker \in {None} \cup 0..height
          /\ height \in Nat
      BY HeightType DEF SyncTypeInv
    <2>2. from \in Nat /\ end \in Nat /\ sync[p].until \in Nat BY <2>1 DEF SyncRecord
    <2>3. from < end /\ end <= sync[p].until /\ sync[p].until <= height
      BY <1>1, <2>1 DEF SyncOK, Scanning
    <2> QED BY <2>1, <2>2, <2>3
  <1>4. ASSUME ~raced PROVE Counting(p)'
    <2>1. AllReach(from) BY <1>1, <1>4 DEF CountInv, Counting
    <2>2. ASSUME NEW i \in 1..Len(wallets)
          PROVE  Reaches(wallets[i], end) \/ wallets[i].address \in Paying(p)
      <3>1. wallets[i] \in Wallet BY DEF SyncTypeInv
      <3>2. CASE wallets[i].address \notin Paying(p)
        <4>1. \A h \in WindowOf(from, end) : wallets[i].address \notin Receivers[h]
          BY <3>2 DEF Paying
        <4>2. Balance(wallets[i].address, from - 1) = Balance(wallets[i].address, end - 1)
          BY <1>3, <4>1, BalanceStays
        <4> QED BY <2>1, <4>2 DEF AllReach, Reaches
      <3> QED BY <3>2
    <2>3. \A a \in Paying(p) : Unsaved(p, a)'
      <3> SUFFICES ASSUME NEW a \in Paying(p) PROVE Unsaved(p, a)' OBVIOUS
      <3>1. [address |-> a, balance |-> Balance(a, height)] \in sync'[p].todo BY <1>1
      <3> QED BY <3>1 DEF Unsaved
    <2>4. \A w \in sync'[p].todo : Reaches(w, end) /\ (tracker # None => Reaches(w, tracker))
      <3> SUFFICES ASSUME NEW a \in Paying(p),
                          NEW w, w = [address |-> a, balance |-> Balance(a, height)]
                   PROVE  Reaches(w, end) /\ (tracker # None => Reaches(w, tracker))
        BY <1>1
      <3>1. Reaches(w, end) BY <1>3, TipReaches
      <3>2. tracker # None => Reaches(w, tracker) BY <1>3, TipReaches
      <3> QED BY <3>1, <3>2
    <2>5. sync'[p].end = end /\ sync'[p].from = from BY <1>1 DEF SamePart
    <2> HIDE DEF from, end
    <2>6. sync'[p].pc = "find" => ToSave(p)' = sync'[p].todo BY DEF ToSave
    <2>7. Paying(p) = {} => AllReachAfter(end) BY <1>2, <2>2 DEF AllReachAfter
    <2>8. \A i \in 1..Len(wallets') :
            Reaches(wallets'[i], end) \/ \A a : a = wallets'[i].address => Unsaved(p, a)'
      BY <1>2, <2>2, <2>3
    <2> QED BY <1>1, <1>2, <2>4, <2>5, <2>6, <2>7, <2>8, CountingNext
  <1> QED BY <1>1, <1>2, <1>4, CountStep DEF Scanning

\* While no other call saves, what is found is there when it is written.
LEMMA FindCounts ==
  ASSUME SyncTypeInv, CountInv, NEW p \in Syncs, NEW w \in sync[p].todo, Find(p, w)
  PROVE  CountInv'
  <1>1. /\ OnlySync(p) /\ SamePart(p) /\ sync[p].pc = "find" /\ sync'[p].pc = "write"
        /\ sync'[p].now = w /\ sync'[p].todo = sync[p].todo \ {w}
        /\ sync'[p].found = (Records(w.address) # {})
    BY FindEffect
  <1>2. wallets' = wallets /\ tracker' = tracker /\ raced' = raced
    BY DEF Find, database, syncHistory
  <1>3. ASSUME ~raced PROVE Counting(p)'
    <2>1. /\ \A i \in 1..Len(wallets) :
               Reaches(wallets[i], sync[p].end) \/ Unsaved(p, wallets[i].address)
          /\ \A v \in ToSave(p) :
               Reaches(v, sync[p].end) /\ (tracker # None => Reaches(v, tracker))
      BY <1>1, <1>3 DEF CountInv, Counting
    <2>2. ToSave(p)' = sync[p].todo BY <1>1 DEF ToSave
    <2>3. ToSave(p) = sync[p].todo BY <1>1 DEF ToSave
    <2>4. \A a : Unsaved(p, a) => Unsaved(p, a)' BY <1>1 DEF Unsaved
    <2>5. \A a : Records(a)' = Records(a) BY <1>2 DEF Records
    <2>6. sync'[p].end = sync[p].end BY <1>1 DEF SamePart
    <2>7. \A i \in 1..Len(wallets') :
            Reaches(wallets'[i], sync'[p].end)
            \/ \A a : a = wallets'[i].address => Unsaved(p, a)'
      BY <1>2, <2>1, <2>4, <2>6
    <2>8. \A v \in ToSave(p)' :
            Reaches(v, sync'[p].end) /\ (tracker' # None => Reaches(v, tracker'))
      BY <1>2, <2>1, <2>2, <2>3, <2>6
    <2>9. \A a : a = sync'[p].now.address => (sync'[p].found = (Records(a)' # {}))
      BY <1>1, <2>5
    <2> QED BY <1>1, <2>7, <2>8, <2>9, CountingNext
  <1> QED BY <1>1, <1>2, <1>3, CountStep DEF Scanning

\* While no two syncs met, a write leaves one record of its address, the one it wrote.
LEMMA WriteLeaves ==
  ASSUME SyncTypeInv, NEW p \in Syncs, Write(p), Distinct,
         sync[p].found = (Records(sync[p].now.address) # {})
  PROVE  /\ Distinct'
         /\ \A i \in 1..Len(wallets') :
              \/ wallets'[i] = sync[p].now
              \/ /\ i \in 1..Len(wallets) /\ wallets'[i] = wallets[i]
                 /\ wallets[i].address # sync[p].now.address
  <1> DEFINE w == sync[p].now
  <1>1. /\ wallets' \in Seq(Wallet) /\ w \in Wallet
        /\ ~sync[p].found => wallets' = Append(wallets, w)
        /\ sync[p].found => \E k \in Records(w.address) : Replaces(k, w)
    BY WriteEffect
  <1>2. wallets \in Seq(Wallet) BY DEF SyncTypeInv
  <1>3. sync[p].found = (Records(w.address) # {}) OBVIOUS
  <1> HIDE DEF w
  <1>4. CASE ~sync[p].found
    <2>1. /\ Len(wallets) \in Nat /\ Len(wallets') = Len(wallets) + 1
          /\ wallets'[Len(wallets) + 1] = w
          /\ \A n \in 1..Len(wallets) : wallets'[n] = wallets[n]
      BY <1>1, <1>2, <1>4, AppendProperties
    <2>2. \A n \in 1..Len(wallets) : wallets[n].address # w.address
      BY <1>3, <1>4 DEF Records
    <2>3. \A i \in 1..Len(wallets') : i = Len(wallets) + 1 \/ i \in 1..Len(wallets) BY <2>1
    <2>4. Distinct' BY <2>1, <2>2, <2>3 DEF Distinct
    <2> QED BY <2>1, <2>2, <2>3, <2>4 DEF w
  <1>5. CASE sync[p].found
    <2>1. PICK k \in Records(w.address) : Replaces(k, w) BY <1>1, <1>5
    <2>2. k \in 1..Len(wallets) /\ wallets[k].address = w.address BY <2>1 DEF Records
    <2>3. /\ Len(wallets') = Len(wallets) /\ wallets'[k] = w
          /\ \A n \in 1..Len(wallets) \ {k} : wallets'[n] = wallets[n]
      BY <2>1 DEF Replaces
    <2>4. \A n \in 1..Len(wallets) : wallets'[n].address = wallets[n].address
      BY <2>2, <2>3
    <2>5. Distinct' BY <2>3, <2>4 DEF Distinct
    <2>6. \A n \in 1..Len(wallets) \ {k} : wallets[n].address # w.address
      BY <2>2 DEF Distinct
    <2> QED BY <2>3, <2>5, <2>6 DEF w
  <1> QED BY <1>4, <1>5

\* A record that is written is alone.
LEMMA WriteCounts ==
  ASSUME SyncTypeInv, CountInv, NEW p \in Syncs, Write(p)
  PROVE  CountInv'
  <1>1. /\ OnlySync(p) /\ SamePart(p) /\ sync[p].pc = "write" /\ sync[p].now \in Wallet
        /\ sync'[p].pc = (IF sync[p].todo = {} THEN "findTracker" ELSE "find")
        /\ sync'[p].todo = sync[p].todo
    BY WriteEffect
  <1>2. tracker' = tracker /\ raced' = raced BY DEF Write, syncHistory
  <1> SUFFICES ASSUME ~raced PROVE CountInv' BY <1>2 DEF CountInv
  <1> DEFINE w == sync[p].now
             end == sync[p].end
  <1>3. Alone /\ Distinct /\ (tracker # None => AllReach(tracker)) /\ Counting(p)
    BY DEF CountInv
  <1>4. /\ \A i \in 1..Len(wallets) : Reaches(wallets[i], end) \/ Unsaved(p, wallets[i].address)
        /\ \A v \in ToSave(p) : Reaches(v, end) /\ (tracker # None => Reaches(v, tracker))
        /\ sync[p].found = (Records(w.address) # {})
    BY <1>1, <1>3 DEF Counting
  <1>5. Distinct' /\ \A i \in 1..Len(wallets') :
                       \/ wallets'[i] = w
                       \/ /\ i \in 1..Len(wallets) /\ wallets'[i] = wallets[i]
                          /\ wallets[i].address # w.address
    BY <1>3, <1>4, WriteLeaves
  <1>6. ToSave(p) = sync[p].todo \cup {w} BY <1>1 DEF ToSave
  <1>7. \A i \in 1..Len(wallets') :
          Reaches(wallets'[i], end) \/ \E v \in sync[p].todo : v.address = wallets'[i].address
    BY <1>4, <1>5, <1>6 DEF Unsaved
  <1>8. tracker # None => AllReachAfter(tracker)
    BY <1>3, <1>4, <1>5, <1>6 DEF AllReach, AllReachAfter
  <1>9. tracker' # None => AllReach(tracker)' BY <1>2, <1>8, TrackerReached
  <1>10. sync'[p].end = end BY <1>1 DEF SamePart
  <1>11. sync[p].todo = {} => AllReachAfter(end) BY <1>7 DEF AllReachAfter
  <1>12. \A a : (\E v \in sync[p].todo : v.address = a) => Unsaved(p, a)'
    BY <1>1 DEF Unsaved
  <1>13. ToSave(p)' = sync[p].todo BY <1>1 DEF ToSave
  <1> HIDE DEF w, end
  <1>14. Counting(p)'
    <2>1. \A i \in 1..Len(wallets') :
            Reaches(wallets'[i], end) \/ \A a : a = wallets'[i].address => Unsaved(p, a)'
      BY <1>7, <1>12
    <2>2. \A v \in ToSave(p)' : Reaches(v, end) /\ (tracker' # None => Reaches(v, tracker'))
      BY <1>2, <1>4, <1>6, <1>13
    <2>3. sync'[p].pc \in {"find", "findTracker"} /\ (sync'[p].pc = "findTracker" => AllReachAfter(end))
      BY <1>1, <1>11
    <2> QED BY <1>10, <2>1, <2>2, <2>3, CountingNext
  <1>15. \A q \in Syncs \ {p} : Counting(q)' BY <1>1, <1>3, AloneStep DEF Scanning
  <1>16. Alone' BY <1>1, <1>3 DEF Alone, OnlySync, Scanning
  <1> HIDE DEF Alone, Distinct, AllReach, Counting
  <1> QED BY <1>5, <1>9, <1>14, <1>15, <1>16 DEF CountInv

\* The tracker is written once the window is saved.
LEMMA WriteTrackerCounts ==
  ASSUME SyncTypeInv, CountInv, NEW p \in Syncs, WriteTracker(p)
  PROVE  CountInv'
  <1> DEFINE end == sync[p].end
  <1>1. /\ OnlySync(p) /\ sync[p].pc = "writeTracker" /\ tracker' = end /\ EntersLoop(p, end)
    BY WriteTrackerEffect
  <1>2. wallets' = wallets /\ raced' = raced BY DEF WriteTracker, syncHistory
  <1> SUFFICES ASSUME ~raced PROVE CountInv' BY <1>2 DEF CountInv
  <1>3. Alone /\ Distinct /\ Counting(p) BY DEF CountInv
  <1>4. AllReach(end) BY <1>1, <1>3 DEF Counting
  <1>5. sync'[p].pc = "idle" \/ (sync'[p].pc \in {"recount", "scan"} /\ sync'[p].from = end)
    BY <1>1 DEF EntersLoop
  <1> HIDE DEF end
  <1>6. AllReachAfter(end) BY <1>2, <1>4, AllReachNext
  <1>7. AllReach(tracker)' BY <1>1, <1>6, TrackerReached
  <1>8. Counting(p)' BY <1>5, <1>6, CountingNext
  <1>9. \A q \in Syncs \ {p} : Counting(q)' BY <1>1, <1>3, AloneStep DEF Scanning
  <1>10. Alone' BY <1>1, <1>3 DEF Alone, OnlySync, Scanning
  <1>11. Distinct' BY <1>2, <1>3 DEF Distinct
  <1> HIDE DEF Alone, Distinct, AllReach, Counting
  <1> QED BY <1>7, <1>8, <1>9, <1>10, <1>11 DEF CountInv

\* Every step keeps the records alone and up to the tracker.
LEMMA CountsStep ==
  ASSUME SyncTypeInv, CountInv, [SyncNext]_syncVars
  PROVE  CountInv'
  <1>1. ASSUME NEW p \in Syncs, Begin(p) \/ HeightFails(p) \/ NodeFails(p) \/ DatabaseFails(p)
        PROVE  CountInv'
    <2>1. OnlySync(p) /\ sync'[p].pc \in {"idle", "height", "forgotten"} BY <1>1, StopEffect
    <2>2. wallets' = wallets /\ tracker' = tracker /\ raced' = raced
      BY <1>1 DEF Begin, HeightFails, NodeFails, DatabaseFails, database, syncHistory
    <2>3. sync'[p].pc \notin Scanning BY <2>1 DEF Scanning
    <2> QED BY <2>1, <2>2, <2>3, CountingIdle, CountStep
  <1>2. ASSUME NEW p \in Syncs, HeightAnswers(p) PROVE CountInv'
    <2>1. OnlySync(p) /\ sync'[p].pc = "last" BY <1>2, HeightEffect
    <2>2. wallets' = wallets /\ tracker' = tracker /\ raced' = raced
      BY <1>2 DEF HeightAnswers, database, syncHistory
    <2>3. sync'[p].pc \notin Scanning BY <2>1 DEF Scanning
    <2> QED BY <2>1, <2>2, <2>3, CountingIdle, CountStep
  <1>3. ASSUME NEW p \in Syncs, RecountAnswers(p) PROVE CountInv'
    <2>1. OnlySync(p) /\ sync[p].pc = "recount" /\ sync'[p].pc = "scan"
          /\ sync'[p].from = sync[p].from
      BY <1>3, RecountEffect
    <2>2. wallets' = wallets /\ tracker' = tracker /\ raced' = raced
      BY <1>3 DEF RecountAnswers, database, syncHistory
    <2>3. ASSUME ~raced PROVE Counting(p)'
      <3>1. AllReach(sync[p].from) BY <2>1, <2>3 DEF CountInv, Counting
      <3>2. AllReachAfter(sync[p].from) BY <2>2, <3>1, AllReachNext
      <3> QED BY <2>1, <3>2, CountingNext
    <2> QED BY <2>1, <2>2, <2>3, CountStep DEF Scanning
  <1>4. ASSUME NEW p \in Syncs, FindTracker(p) PROVE CountInv'
    <2>1. OnlySync(p) /\ SamePart(p) /\ sync[p].pc = "findTracker" /\ sync'[p].pc = "writeTracker"
      BY <1>4, FindTrackerEffect
    <2>2. wallets' = wallets /\ tracker' = tracker /\ raced' = raced
      BY <1>4 DEF FindTracker, database, syncHistory
    <2>3. ASSUME ~raced PROVE Counting(p)'
      <3>1. AllReach(sync[p].end) BY <2>1, <2>3 DEF CountInv, Counting
      <3>2. AllReachAfter(sync[p].end) BY <2>2, <3>1, AllReachNext
      <3> QED BY <2>1, <3>2, CountingNext DEF SamePart
    <2> QED BY <2>1, <2>2, <2>3, CountStep DEF Scanning
  <1>5. ASSUME SyncRestart PROVE CountInv'
    <2> SUFFICES ASSUME ~raced PROVE CountInv' BY <1>5 DEF SyncRestart, CountInv
    <2>1. wallets' = wallets /\ tracker' = tracker /\ \A p \in Syncs : sync'[p] = NoSync
      BY <1>5 DEF SyncRestart, database
    <2>2. \A p \in Syncs : sync'[p].pc \notin Scanning BY <2>1, NoSyncType DEF Scanning
    <2>3. \A p \in Syncs : Counting(p)' BY <2>2, CountingIdle
    <2>4. Alone' BY <2>2 DEF Alone
    <2>5. Distinct' BY <2>1 DEF Distinct, CountInv
    <2>6. tracker' # None => AllReach(tracker)' BY <2>1 DEF CountInv, AllReach
    <2> HIDE DEF Alone, Distinct, AllReach, Counting
    <2> QED BY <2>3, <2>4, <2>5, <2>6 DEF CountInv
  <1>6. CASE NewBlock \/ UNCHANGED syncVars
    <2>1. sync' = sync /\ wallets' = wallets /\ tracker' = tracker /\ raced' = raced
      BY <1>6 DEF NewBlock, syncVars, syncHistory
    <2> SUFFICES ASSUME ~raced PROVE CountInv' BY <2>1 DEF CountInv
    <2>2. Alone' BY <2>1 DEF Alone, CountInv
    <2>3. Distinct' BY <2>1 DEF Distinct, CountInv
    <2>4. tracker' # None => AllReach(tracker)' BY <2>1 DEF CountInv, AllReach
    <2>5. ASSUME NEW q \in Syncs PROVE Counting(q)'
      <3>1. Counting(q) BY DEF CountInv
      <3> QED BY <2>1, <3>1 DEF Counting, AllReach, ToSave, Unsaved, Records, Reaches
    <2> HIDE DEF Alone, Distinct, AllReach, Counting
    <2> QED BY <2>2, <2>3, <2>4, <2>5 DEF CountInv
  <1> QED BY <1>1, <1>2, <1>3, <1>4, <1>5, <1>6, LastCounts, ScanCounts, FindCounts, WriteCounts,
             WriteTrackerCounts DEF SyncNext, SyncStep

-----------------------------------------------------------------------------
(* No balance is replaced by an older one *)

\* What is to be saved is a balance of the chain, unless two syncs met as recent as any record of
\* its address.
Newest(v) ==
  /\ v.balance <= Balance(v.address, height)
  /\ ~raced => \A n \in 1..Len(wallets) :
                 wallets[n].address = v.address => wallets[n].balance <= v.balance

Saved(p) ==
  sync[p].pc \in {"find", "write"} =>
    \A v \in ToSave(p) : Newest(v) /\ \A w \in ToSave(p) : w.address = v.address => w = v

GrowInv ==
  /\ \A n \in 1..Len(wallets) : wallets[n].balance <= Balance(wallets[n].address, height)
  /\ \A p \in Syncs : Saved(p)

\* What a step may do to the records.
RecordsGrown ==
  \A n \in 1..Len(wallets) :
    /\ n <= Len(wallets') /\ wallets'[n].address = wallets[n].address
    /\ raced' \/ wallets'[n].balance >= wallets[n].balance

\* A balance of the chain is one of every longer chain.
LEMMA StillPaid ==
  ASSUME NEW w \in Wallet, NEW m \in Int, NEW n \in Int, m <= n, w.balance <= Balance(w.address, m)
  PROVE  w.balance <= Balance(w.address, n)
  <1>1. Balance(w.address, m) <= Balance(w.address, n)
        /\ Balance(w.address, m) \in Nat /\ Balance(w.address, n) \in Nat
    BY BalanceGrows
  <1>2. w.balance \in Nat BY SyncAssumption DEF Wallet, Balances
  <1> QED BY <1>1, <1>2

\* The balance of a record is a number.
LEMMA BalanceKnown ==
  ASSUME SyncTypeInv, NEW n \in 1..Len(wallets)
  PROVE  wallets[n] \in Wallet /\ wallets[n].balance \in Nat
  <1>1. wallets[n] \in Wallet BY DEF SyncTypeInv
  <1> QED BY <1>1, SyncAssumption DEF Wallet, Balances

\* A step that writes no record, and finds no wallet to save, leaves them all as recent.
LEMMA GrowStays ==
  ASSUME SyncTypeInv, SyncTypeInv', GrowInv, wallets' = wallets, height <= height',
         raced => raced',
         \A q \in Syncs : sync'[q].pc \in {"find", "write"} =>
           sync[q].pc \in {"find", "write"} /\ ToSave(q)' \subseteq ToSave(q)
  PROVE  GrowInv'
  <1>1. height \in Int /\ height' \in Int BY SyncAssumption DEF SyncTypeInv
  <1>2. ASSUME NEW n \in 1..Len(wallets)
        PROVE  wallets[n].balance <= Balance(wallets[n].address, height')
    <2>1. wallets[n] \in Wallet BY DEF SyncTypeInv
    <2>2. wallets[n].balance <= Balance(wallets[n].address, height) BY DEF GrowInv
    <2> QED BY <1>1, <2>1, <2>2, StillPaid
  <1>3. ASSUME NEW q \in Syncs PROVE Saved(q)'
    <2> SUFFICES ASSUME sync'[q].pc \in {"find", "write"}, NEW v \in ToSave(q)'
                 PROVE  Newest(v)' /\ \A w \in ToSave(q)' : w.address = v.address => w = v
      BY DEF Saved
    <2>1. /\ v \in ToSave(q) /\ ToSave(q)' \subseteq ToSave(q)
          /\ sync[q].pc \in {"find", "write"}
      OBVIOUS
    <2>2. Newest(v) /\ \A w \in ToSave(q) : w.address = v.address => w = v
      BY <2>1 DEF GrowInv, Saved
    <2>3. v \in Wallet
      <3>1. sync[q] \in SyncRecord /\ SyncOK(q) BY DEF SyncTypeInv
      <3> QED BY <2>1, <3>1 DEF ToSave, SyncRecord, SyncOK
    <2>4. v.balance <= Balance(v.address, height') BY <1>1, <2>2, <2>3, StillPaid DEF Newest
    <2> QED BY <2>1, <2>2, <2>4 DEF Newest
  <1> QED BY <1>2, <1>3 DEF GrowInv

\* What the node answers is at the tip.
LEMMA ScanGrows ==
  ASSUME SyncTypeInv, GrowInv, NEW p \in Syncs, ScanAnswers(p)
  PROVE  GrowInv'
  <1>1. /\ OnlySync(p) /\ sync[p].pc = "scan"
        /\ sync'[p].pc = IF Paying(p) = {} THEN "findTracker" ELSE "find"
        /\ sync'[p].todo = {[address |-> a, balance |-> Balance(a, height)] : a \in Paying(p)}
    BY ScanEffect
  <1>2. wallets' = wallets /\ height' = height /\ raced' = raced
    BY DEF ScanAnswers, database, syncHistory
  <1>3. \A n \in 1..Len(wallets) : wallets[n].balance <= Balance(wallets[n].address, height)
    BY DEF GrowInv
  <1>4. Saved(p)'
    <2> SUFFICES ASSUME sync'[p].pc = "find", NEW v \in ToSave(p)'
                 PROVE  Newest(v)' /\ \A w \in ToSave(p)' : w.address = v.address => w = v
      BY <1>1 DEF Saved
    <2>1. ToSave(p)' = {[address |-> a, balance |-> Balance(a, height)] : a \in Paying(p)}
      BY <1>1 DEF ToSave
    <2>2. \A w \in ToSave(p)' : w = [address |-> w.address, balance |-> Balance(w.address, height)]
      BY <2>1
    <2>3. v.balance = Balance(v.address, height) BY <2>2
    <2>4. Balance(v.address, height) \in Nat
      BY HeightType, BalanceGrows
    <2>5. Newest(v)' BY <1>2, <1>3, <2>3, <2>4 DEF Newest
    <2>6. \A w \in ToSave(p)' : w.address = v.address => w = v BY <2>2
    <2> QED BY <2>5, <2>6
  <1>5. ASSUME NEW q \in Syncs \ {p} PROVE Saved(q)'
    <2>1. Saved(q) /\ sync'[q] = sync[q] BY <1>1 DEF GrowInv, OnlySync
    <2> QED BY <1>2, <2>1 DEF Saved, ToSave, Newest
  <1>6. \A n \in 1..Len(wallets') : wallets'[n].balance <= Balance(wallets'[n].address, height')
    BY <1>2, <1>3
  <1> HIDE DEF Saved
  <1> QED BY <1>4, <1>5, <1>6 DEF GrowInv

\* A write keeps the records before it, all but the one it writes.
LEMMA WriteKeeps ==
  ASSUME SyncTypeInv, NEW p \in Syncs, Write(p),
         sync[p].found => Records(sync[p].now.address) # {}
  PROVE  /\ \A n \in 1..Len(wallets') :
              wallets'[n] = sync[p].now \/ (n \in 1..Len(wallets) /\ wallets'[n] = wallets[n])
         /\ \A n \in 1..Len(wallets) :
              /\ n <= Len(wallets')
              /\ \/ wallets'[n] = wallets[n]
                 \/ wallets'[n] = sync[p].now /\ wallets[n].address = sync[p].now.address
  <1> DEFINE w == sync[p].now
  <1>1. /\ w \in Wallet
        /\ ~sync[p].found => wallets' = Append(wallets, w)
        /\ sync[p].found => \E k \in Records(w.address) : Replaces(k, w)
    BY WriteEffect
  <1>2. wallets \in Seq(Wallet) /\ Len(wallets) \in Nat BY DEF SyncTypeInv
  <1> HIDE DEF w
  <1>3. CASE ~sync[p].found
    <2>1. /\ Len(wallets') = Len(wallets) + 1
          /\ wallets'[Len(wallets) + 1] = w
          /\ \A n \in 1..Len(wallets) : wallets'[n] = wallets[n]
      BY <1>1, <1>2, <1>3, AppendProperties
    <2>2. \A n \in 1..Len(wallets') : n = Len(wallets) + 1 \/ n \in 1..Len(wallets) BY <1>2, <2>1
    <2>3. \A n \in 1..Len(wallets) : n <= Len(wallets') BY <1>2, <2>1
    <2> QED BY <2>1, <2>2, <2>3 DEF w
  <1>4. CASE sync[p].found
    <2>1. PICK k \in Records(w.address) : Replaces(k, w) BY <1>1, <1>4
    <2>2. k \in 1..Len(wallets) /\ wallets[k].address = w.address BY <2>1 DEF Records
    <2>3. /\ Len(wallets') = Len(wallets) /\ wallets'[k] = w
          /\ \A n \in 1..Len(wallets) \ {k} : wallets'[n] = wallets[n]
      BY <2>1 DEF Replaces
    <2>4. \A n \in 1..Len(wallets) : n <= Len(wallets') BY <1>2, <2>3
    <2> QED BY <2>2, <2>3, <2>4 DEF w
  <1> QED BY <1>3, <1>4

\* A write replaces no balance by an older one.
LEMMA WriteGrowsRecords ==
  ASSUME SyncTypeInv, SaveInv, CountInv, GrowInv, NEW p \in Syncs, Write(p)
  PROVE  RecordsGrown /\ GrowInv'
  <1> DEFINE w == sync[p].now
  <1>1. /\ OnlySync(p) /\ sync[p].pc = "write" /\ w \in Wallet
        /\ sync'[p].pc \in {"find", "findTracker"}
        /\ sync'[p].todo = sync[p].todo
    BY WriteEffect
  <1>2. height' = height /\ raced' = raced BY DEF Write, syncHistory
  <1>3. sync[p].found => Records(w.address) # {} BY <1>1 DEF SaveInv, Saving
  <1>4. ToSave(p) = sync[p].todo \cup {w} /\ ToSave(p)' = sync[p].todo BY <1>1 DEF ToSave
  <1>5. /\ \A v \in ToSave(p) : Newest(v) /\ \A u \in ToSave(p) : u.address = v.address => u = v
        /\ \A n \in 1..Len(wallets) : wallets[n].balance <= Balance(wallets[n].address, height)
    BY <1>1 DEF GrowInv, Saved
  <1>6. /\ \A n \in 1..Len(wallets') :
             wallets'[n] = w \/ (n \in 1..Len(wallets) /\ wallets'[n] = wallets[n])
        /\ \A n \in 1..Len(wallets) :
             /\ n <= Len(wallets')
             /\ wallets'[n] = wallets[n] \/ (wallets'[n] = w /\ wallets[n].address = w.address)
    BY <1>3, WriteKeeps
  <1>7. /\ w.balance \in Nat
        /\ \A n \in 1..Len(wallets) : wallets[n].balance \in Nat
    <2>1. w.balance \in Nat BY <1>1, SyncAssumption DEF Wallet, Balances
    <2> QED BY <2>1, BalanceKnown
  <1>8. Newest(w) BY <1>4, <1>5
  <1> HIDE DEF w
  <1>9. RecordsGrown
    <2> SUFFICES ASSUME NEW n \in 1..Len(wallets)
                 PROVE  /\ n <= Len(wallets') /\ wallets'[n].address = wallets[n].address
                        /\ raced' \/ wallets'[n].balance >= wallets[n].balance
      BY DEF RecordsGrown
    <2>1. n <= Len(wallets') /\ wallets'[n].address = wallets[n].address BY <1>6
    <2>2. ASSUME ~raced PROVE wallets'[n].balance >= wallets[n].balance
      <3>1. wallets[n].address = w.address => wallets[n].balance <= w.balance
        BY <1>8, <2>2 DEF Newest
      <3> QED BY <1>6, <1>7, <3>1
    <2> QED BY <1>2, <2>1, <2>2
  <1>10. \A n \in 1..Len(wallets') : wallets'[n].balance <= Balance(wallets'[n].address, height')
    BY <1>2, <1>5, <1>6, <1>8 DEF Newest
  <1>11. Saved(p)'
    <2> SUFFICES ASSUME NEW v \in ToSave(p)'
                 PROVE  Newest(v)' /\ \A u \in ToSave(p)' : u.address = v.address => u = v
      BY DEF Saved
    <2>1. v \in ToSave(p) /\ Newest(v) /\ \A u \in ToSave(p) : u.address = v.address => u = v
      BY <1>4, <1>5
    <2>2. ASSUME ~raced, NEW n \in 1..Len(wallets'), wallets'[n].address = v.address
          PROVE  wallets'[n].balance <= v.balance
      <3>1. CASE wallets'[n] = w
        <4>1. w = v BY <1>4, <2>1, <2>2, <3>1
        <4> QED BY <1>7, <3>1, <4>1
      <3>2. CASE n \in 1..Len(wallets) /\ wallets'[n] = wallets[n]
        BY <2>1, <2>2, <3>2 DEF Newest
      <3> QED BY <1>6, <3>1, <3>2
    <2>3. v.balance <= Balance(v.address, height') BY <1>2, <2>1 DEF Newest
    <2> QED BY <1>2, <1>4, <2>1, <2>2, <2>3 DEF Newest
  <1>12. ASSUME NEW q \in Syncs \ {p} PROVE Saved(q)'
    <2>1. Saved(q) /\ sync'[q] = sync[q] BY <1>1 DEF GrowInv, OnlySync
    <2>2. ToSave(q)' = ToSave(q) BY <2>1 DEF ToSave
    <2>3. ~raced => sync[q].pc \notin {"find", "write"}
      BY <1>1 DEF CountInv, Alone, Scanning
    <2> QED BY <1>2, <2>1, <2>2, <2>3 DEF Saved, Newest
  <1> HIDE DEF Saved
  <1> QED BY <1>9, <1>10, <1>11, <1>12 DEF GrowInv

\* Every step keeps the records as recent as they were.
LEMMA GrowStep ==
  ASSUME SyncTypeInv, SyncTypeInv', SaveInv, CountInv, GrowInv, [SyncNext]_syncVars
  PROVE  RecordsGrown /\ GrowInv'
  <1> DEFINE Less(q) == sync'[q].pc \in {"find", "write"} =>
               sync[q].pc \in {"find", "write"} /\ ToSave(q)' \subseteq ToSave(q)
  <1>1. wallets' = wallets => RecordsGrown
    <2>1. \A n \in 1..Len(wallets) : wallets[n].balance \in Nat BY BalanceKnown
    <2>2. Len(wallets) \in Nat BY DEF SyncTypeInv
    <2> QED BY <2>1, <2>2 DEF RecordsGrown
  <1>2. height \in Int BY SyncAssumption DEF SyncTypeInv
  <1>3. \A q \in Syncs : sync'[q] = sync[q] => Less(q) BY DEF ToSave
  <1>4. ASSUME NEW p \in Syncs, OnlySync(p), Less(p), wallets' = wallets, height' = height,
               raced => raced'
        PROVE  RecordsGrown /\ GrowInv'
    <2>1. \A q \in Syncs : Less(q) BY <1>3, <1>4 DEF OnlySync
    <2> QED BY <1>1, <1>2, <1>4, <2>1, GrowStays
  <1>5. ASSUME NEW p \in Syncs, Begin(p) \/ HeightFails(p) \/ NodeFails(p) \/ DatabaseFails(p)
        PROVE  RecordsGrown /\ GrowInv'
    <2>1. OnlySync(p) /\ sync'[p].pc \in {"idle", "height", "forgotten"} BY <1>5, StopEffect
    <2>2. wallets' = wallets /\ height' = height /\ raced' = raced
      BY <1>5 DEF Begin, HeightFails, NodeFails, DatabaseFails, database, syncHistory
    <2> QED BY <1>4, <2>1, <2>2
  <1>6. ASSUME NEW p \in Syncs, HeightAnswers(p) \/ RecountAnswers(p) \/ FindTracker(p)
        PROVE  RecordsGrown /\ GrowInv'
    <2>1. OnlySync(p) /\ sync'[p].pc \in {"last", "scan", "writeTracker"}
      BY <1>6, HeightEffect, RecountEffect, FindTrackerEffect
    <2>2. wallets' = wallets /\ height' = height /\ raced' = raced
      BY <1>6 DEF HeightAnswers, RecountAnswers, FindTracker, database, syncHistory
    <2> QED BY <1>4, <2>1, <2>2
  <1>7. ASSUME NEW p \in Syncs, LastAnswers(p) PROVE RecordsGrown /\ GrowInv'
    <2>1. OnlySync(p) /\ sync'[p].pc \in {"idle", "recount", "scan"} /\ (raced => raced')
      BY <1>7, LastEffect DEF EntersLoop
    <2>2. wallets' = wallets /\ height' = height BY <1>7 DEF LastAnswers, database
    <2> QED BY <1>4, <2>1, <2>2
  <1>8. ASSUME NEW p \in Syncs, WriteTracker(p) PROVE RecordsGrown /\ GrowInv'
    <2>1. OnlySync(p) /\ sync'[p].pc \in {"idle", "recount", "scan"}
      BY <1>8, WriteTrackerEffect DEF EntersLoop
    <2>2. wallets' = wallets /\ height' = height /\ raced' = raced
      BY <1>8 DEF WriteTracker, syncHistory
    <2> QED BY <1>4, <2>1, <2>2
  <1>9. ASSUME NEW p \in Syncs, NEW wallet \in sync[p].todo, Find(p, wallet)
        PROVE  RecordsGrown /\ GrowInv'
    <2>1. /\ OnlySync(p) /\ sync[p].pc = "find" /\ sync'[p].pc = "write"
          /\ sync'[p].now = wallet /\ sync'[p].todo = sync[p].todo \ {wallet}
      BY <1>9, FindEffect
    <2>2. wallets' = wallets /\ height' = height /\ raced' = raced
      BY <1>9 DEF Find, database, syncHistory
    <2>3. ToSave(p)' = sync[p].todo /\ ToSave(p) = sync[p].todo BY <2>1 DEF ToSave
    <2> QED BY <1>4, <2>1, <2>2, <2>3
  <1>10. ASSUME NEW p \in Syncs, ScanAnswers(p) PROVE RecordsGrown /\ GrowInv'
    <2>1. wallets' = wallets BY <1>10 DEF ScanAnswers, database
    <2> QED BY <1>1, <1>10, <2>1, ScanGrows
  <1>11. ASSUME SyncRestart PROVE RecordsGrown /\ GrowInv'
    <2>1. /\ wallets' = wallets /\ height' = height /\ raced' = raced
          /\ \A q \in Syncs : sync'[q] = NoSync
      BY <1>11 DEF SyncRestart, database
    <2>2. \A q \in Syncs : Less(q) BY <2>1, NoSyncType
    <2> QED BY <1>1, <1>2, <2>1, <2>2, GrowStays
  <1>12. ASSUME NewBlock \/ UNCHANGED syncVars PROVE RecordsGrown /\ GrowInv'
    <2>1. sync' = sync /\ wallets' = wallets /\ height <= height' /\ raced' = raced
      BY <1>2, <1>12 DEF NewBlock, syncVars, syncHistory
    <2>2. \A q \in Syncs : Less(q) BY <1>3, <2>1
    <2> QED BY <1>1, <2>1, <2>2, GrowStays
  <1> HIDE DEF Less
  <1> QED BY <1>5, <1>6, <1>7, <1>8, <1>9, <1>10, <1>11, <1>12, WriteGrowsRecords
          DEF SyncNext, SyncStep

-----------------------------------------------------------------------------
(* The flag is not left behind *)

\* The flag is set only while some call scans, unless one never came back: what SyncEnds rests on.
FlagHasOwner == syncing /\ ~hung => \E p \in Syncs : sync[p].pc \in Scanning

\* Every step leaves the flag to a call that scans.
LEMMA OwnerStep ==
  ASSUME SyncTypeInv, FlagHasOwner, [SyncNext]_syncVars
  PROVE  FlagHasOwner'
  <1>1. ASSUME NEW p \in Syncs, OnlySync(p), syncing' = syncing, hung' = hung,
               sync[p].pc \in Scanning => sync'[p].pc \in Scanning
        PROVE  FlagHasOwner'
    BY <1>1 DEF FlagHasOwner, OnlySync
  <1>2. ASSUME NEW p \in Syncs, Begin(p) \/ NodeFails(p) \/ DatabaseFails(p)
        PROVE  FlagHasOwner'
    BY <1>2 DEF FlagHasOwner, Begin, NodeFails, DatabaseFails, syncHistory
  <1>3. ASSUME NEW p \in Syncs, HeightAnswers(p) \/ HeightFails(p) PROVE FlagHasOwner'
    <2>1. OnlySync(p) /\ sync[p].pc = "height"
      BY <1>3, HeightEffect, StopEffect DEF HeightFails
    <2>2. syncing' = syncing /\ hung' = hung
      BY <1>3 DEF HeightAnswers, HeightFails, syncHistory
    <2> QED BY <1>1, <2>1, <2>2 DEF Scanning
  <1>4. ASSUME NEW p \in Syncs, LastAnswers(p) PROVE FlagHasOwner'
    <2>1. sync \in [Syncs -> SyncRecord] BY DEF SyncTypeInv
    <2>2. PICK last : IF sync[p].until <= last
                      THEN syncing' = FALSE
                      ELSE sync' = [sync EXCEPT ![p] = Windowed(@, last)]
                           /\ last \in {IF tracker = None THEN 0 ELSE tracker, 0}
      BY <1>4 DEF LastAnswers
    <2>3. CASE sync[p].until <= last BY <2>2, <2>3 DEF FlagHasOwner
    <2>4. CASE ~(sync[p].until <= last)
      <3>1. last \in Nat
        <4>1. tracker \in {None} \cup 0..height BY DEF SyncTypeInv
        <4> QED BY <2>2, <2>4, <4>1, HeightType
      <3>2. sync[p] \in SyncRecord /\ sync[p].until \in Nat BY <2>1 DEF SyncRecord
      <3>3. ~(last >= sync[p].until) BY <2>4, <3>1, <3>2
      <3>4. sync'[p] = Windowed(sync[p], last) BY <2>1, <2>2, <2>4
      <3>5. sync'[p].pc \in {"recount", "scan"}
        BY <3>2, <3>3, <3>4 DEF Windowed, SyncRecord
      <3> QED BY <3>5 DEF FlagHasOwner, Scanning
    <2> QED BY <2>3, <2>4
  <1>5. ASSUME NEW p \in Syncs, RecountAnswers(p) \/ ScanAnswers(p) \/ FindTracker(p) \/ Write(p)
        PROVE  FlagHasOwner'
    <2>1. OnlySync(p) /\ sync'[p].pc \in Scanning
      BY <1>5, RecountEffect, ScanEffect, FindTrackerEffect, WriteEffect DEF Scanning
    <2>2. syncing' = syncing /\ hung' = hung
      BY <1>5 DEF RecountAnswers, ScanAnswers, FindTracker, Write, syncHistory
    <2> QED BY <1>1, <2>1, <2>2
  <1>6. ASSUME NEW p \in Syncs, NEW wallet \in sync[p].todo, Find(p, wallet) PROVE FlagHasOwner'
    <2>1. OnlySync(p) /\ sync'[p].pc \in Scanning BY <1>6, FindEffect DEF Scanning
    <2>2. syncing' = syncing /\ hung' = hung BY <1>6 DEF Find, syncHistory
    <2> QED BY <1>1, <2>1, <2>2
  <1>7. ASSUME NEW p \in Syncs, WriteTracker(p) PROVE FlagHasOwner'
    <2>1. OnlySync(p) /\ sync'[p].pc \in {"idle", "recount", "scan"}
      BY <1>7, WriteTrackerEffect DEF EntersLoop
    <2>2. syncing' => sync'[p].pc # "idle" BY <1>7 DEF WriteTracker
    <2> QED BY <2>1, <2>2 DEF FlagHasOwner, Scanning
  <1>8. ASSUME SyncRestart PROVE FlagHasOwner' BY <1>8 DEF SyncRestart, FlagHasOwner
  <1>9. ASSUME NewBlock \/ UNCHANGED syncVars PROVE FlagHasOwner'
    BY <1>9 DEF NewBlock, syncVars, syncHistory, FlagHasOwner
  <1> QED BY <1>2, <1>3, <1>4, <1>5, <1>6, <1>7, <1>8, <1>9 DEF SyncNext, SyncStep

\* No call has begun.
LEMMA SavesInitially == SyncInit => SaveInv /\ CountInv
  <1> SUFFICES ASSUME SyncInit PROVE SaveInv /\ CountInv OBVIOUS
  <1>1. wallets = <<>> /\ tracker = None /\ \A p \in Syncs : sync[p] = NoSync BY DEF SyncInit
  <1>2. SaveInv BY <1>1, NoSyncType DEF SaveInv, Saving, Scanning
  <1>3. CountInv BY <1>1, NoSyncType DEF CountInv, Counting, Scanning, Alone, Distinct
  <1> QED BY <1>2, <1>3

-----------------------------------------------------------------------------
(* Theorems of AddressSync *)

\* The shapes of the flag, of each call and of the database (sync.js, syncAddressBalance), the
\* balances within what the chain has paid.
THEOREM SyncsAreTyped == SyncSpec => []SyncTypeOK
  <1>1. SyncInit => SyncTypeInv BY SyncTypeStart
  <1>2. SyncTypeInv /\ [SyncNext]_syncVars => SyncTypeInv' BY SyncTypeStep
  <1>3. SyncTypeInv => SyncTypeOK
    <2> SUFFICES ASSUME SyncTypeInv PROVE SyncTypeOK OBVIOUS
    <2>1. height \in FirstHeight..MaxHeight /\ syncing \in BOOLEAN BY DEF SyncTypeInv
    <2>2. tracker \in {None} \cup 0..MaxHeight BY HeightType DEF SyncTypeInv
    <2>3. \A p \in Syncs : sync[p].pc \in Scanning \cup {"idle", "height", "last", "forgotten"}
      BY DEF SyncTypeInv, SyncRecord, SyncPcs
    <2>4. \A n \in 1..Len(wallets) : wallets[n].balance \in 0..(MaxHeight + 1)
      <3> SUFFICES ASSUME NEW n \in 1..Len(wallets)
                   PROVE  wallets[n].balance \in 0..(MaxHeight + 1)
        OBVIOUS
      <3>1. wallets[n] \in Wallet BY DEF SyncTypeInv
      <3> QED BY <3>1 DEF Wallet, Balances
    <2> QED BY <2>1, <2>2, <2>3, <2>4 DEF SyncTypeOK
  <1> QED BY <1>1, <1>2, <1>3, PTL DEF SyncSpec

\* Every address a block below the tracker paid to is in the database, whatever failed and in
\* whatever order syncs met; while no two met, once, with what it had received below the tracker at
\* the least (sync.js, syncAddressBalance; mongodb.js, saveWallets).
THEOREM SavesMissNothing == SyncSpec => []ReceiversAreSaved
  <1> DEFINE IInv == SyncTypeInv /\ SaveInv /\ CountInv
  <1>1. SyncInit => IInv BY SyncTypeStart, SavesInitially
  <1>2. IInv /\ [SyncNext]_syncVars => IInv' BY SyncTypeStep, SaveStep, CountsStep
  <1>3. IInv => ReceiversAreSaved
    <2> SUFFICES ASSUME IInv, tracker # None,
                        NEW h \in 0..(tracker - 1), NEW a \in Receivers[h]
                 PROVE  /\ Records(a) # {}
                        /\ ~raced => /\ Cardinality(Records(a)) = 1
                                     /\ \A n \in Records(a) :
                                          wallets[n].balance >= Balance(a, tracker - 1)
      BY DEF ReceiversAreSaved
    <2>1. Records(a) # {} BY DEF SaveInv, SavedBelow
    <2>2. ASSUME ~raced PROVE Cardinality(Records(a)) = 1
      <3>1. Distinct BY <2>2 DEF CountInv
      <3>2. PICK n : n \in Records(a) BY <2>1
      <3>3. \A m \in Records(a) : m = n BY <3>1, <3>2 DEF Records, Distinct
      <3>4. Records(a) = {n} BY <3>2, <3>3
      <3> QED BY <3>4, FS_Singleton
    <2>3. ASSUME ~raced, NEW n \in Records(a)
          PROVE  wallets[n].balance >= Balance(a, tracker - 1)
      <3>1. AllReach(tracker) BY <2>3 DEF CountInv
      <3>2. n \in 1..Len(wallets) /\ wallets[n].address = a BY <2>3 DEF Records
      <3> QED BY <3>1, <3>2 DEF AllReach, Reaches
    <2> QED BY <2>1, <2>2, <2>3
  <1> QED BY <1>1, <1>2, <1>3, PTL DEF SyncSpec

\* A record stays that of its address, and unless two syncs met its balance is never replaced by an
\* older one, whatever is scanned again (sync.js, syncAddressBalance; mongodb.js, genericSaveUpdate).
THEOREM RecordsGrow == SyncSpec => RecordsOnlyGrow
  <1> DEFINE IInv == SyncTypeInv /\ SaveInv /\ CountInv /\ GrowInv
  <1>1. SyncInit => IInv
    <2> SUFFICES ASSUME SyncInit PROVE IInv OBVIOUS
    <2>1. wallets = <<>> /\ \A p \in Syncs : sync[p] = NoSync BY DEF SyncInit
    <2>2. GrowInv BY <2>1, NoSyncType DEF GrowInv, Saved
    <2> QED BY <2>2, SyncTypeStart, SavesInitially
  <1>2. IInv /\ [SyncNext]_syncVars => IInv' BY SyncTypeStep, SaveStep, CountsStep, GrowStep
  <1>3. IInv /\ IInv' /\ [SyncNext]_syncVars => [RecordsGrown]_syncVars BY GrowStep
  <1>4. RecordsOnlyGrow <=> [][RecordsGrown]_syncVars BY DEF RecordsOnlyGrow, RecordsGrown
  <1> QED BY <1>1, <1>2, <1>3, <1>4, PTL DEF SyncSpec

\* Nobody is kept from a sync by a flag that no call will clear: while it is set a call scans, unless
\* one was never answered by the database (sync.js, syncing).
THEOREM FlagIsOwned == SyncSpec => []FlagHasOwner
  <1>1. SyncInit => FlagHasOwner BY DEF SyncInit, FlagHasOwner
  <1> QED BY <1>1, SyncTypeStart, SyncTypeStep, OwnerStep, PTL DEF SyncSpec

-----------------------------------------------------------------------------
(* AddressPages: what a page is *)

Txs == 1..MaxTxs

\* A page that is full.
LEMMA SmallerOf ==
  ASSUME NEW limit \in Nat, NEW rest \in Int, limit <= rest
  PROVE  Max({0, Min({limit, rest})}) = limit
  <1> DEFINE least == Min({limit, rest})
  <1>1. least = limit BY DEF Min
  <1> HIDE DEF least
  <1>2. Max({0, least}) = limit BY <1>1 DEF Max
  <1> QED BY <1>2 DEF least

\* A full page of rows of a history that did not move is, reversed, the page from the oldest on.
LEMMA AscendingIsPart ==
  ASSUME NEW n \in Nat, NEW offset \in Nat, NEW limit \in Nat \ {0}, offset + limit <= n,
         request.total = n, request.offset = offset, request.limit = limit
  PROVE  Ascending(n) = Part(n, "asc", offset, limit)
  <1> DEFINE from == n - limit - offset
             rows == Part(n, "desc", from, limit)
  <1>1. from \in Nat OBVIOUS
  <1>2. Ascending(n) = Reversed(rows)
    <2>1. ~(from < 0) /\ ~(limit <= 0) BY <1>1
    <2> QED BY <2>1 DEF Ascending
  <1>3. Max({0, Min({limit, n - from})}) = limit BY <1>1, SmallerOf
  <1>4. Max({0, Min({limit, n - offset})}) = limit BY SmallerOf
  <1>5. rows = [k \in 1..limit |-> n - from - k + 1] BY <1>3 DEF Part
  <1>6. Part(n, "asc", offset, limit) = [k \in 1..limit |-> offset + k] BY <1>4 DEF Part
  <1>7. Len(rows) = limit
    <2>1. \A k \in 1..limit : n - from - k + 1 \in Int BY <1>1
    <2>2. rows \in [1..limit -> Int] BY <1>5, <2>1
    <2>3. rows \in Seq(Int) BY <2>2, SeqDef
    <2>4. rows \in [1..Len(rows) -> Int] /\ Len(rows) \in Nat BY <2>3, LenProperties
    <2> HIDE DEF rows
    <2> QED BY <2>2, <2>4
  <1> HIDE DEF rows
  <1>8. Reversed(rows) = [k \in 1..limit |-> rows[limit + 1 - k]] BY <1>7 DEF Reversed
  <1>9. \A k \in 1..limit : rows[limit + 1 - k] = offset + k
    <2> SUFFICES ASSUME NEW k \in 1..limit PROVE rows[limit + 1 - k] = offset + k OBVIOUS
    <2>1. limit + 1 - k \in 1..limit OBVIOUS
    <2>2. rows[limit + 1 - k] = n - from - (limit + 1 - k) + 1 BY <1>5, <2>1
    <2> QED BY <2>2
  <1> QED BY <1>2, <1>6, <1>8, <1>9

-----------------------------------------------------------------------------
(* The request while it waits *)

OpenRequest ==
  [phase : {"total", "rows"}, sort : {"asc", "desc"}, offset : Nat, limit : Nat \ {0},
   asked : Seq(Servers), total : Txs \cup {Absent}, least : [Servers -> Txs],
   answers : [Calls -> Seq(Txs \cup {Unanswered})], failed : [Calls -> BOOLEAN]]

\* An answer is a history its server had since the request.
AnswersWithin ==
  \A c \in Calls :
    /\ Len(request.answers[c]) = Len(request.asked)
    /\ \A n \in 1..Len(request.asked) :
         request.answers[c][n] # Unanswered =>
           /\ request.least[request.asked[n]] <= request.answers[c][n]
           /\ request.answers[c][n] <= known[request.asked[n]]

\* Only the oldest first of blockchain.com need the total.
TotalInv ==
  /\ (request.phase = "total" \/ request.total # Absent) =>
       backend = "blockchain.com" /\ request.sort = "asc"
  /\ (request.phase = "rows" /\ request.total = Absent /\ backend = "blockchain.com") =>
       request.sort = "desc"

OpenInv ==
  /\ request \in OpenRequest
  /\ TotalInv /\ AnswersWithin
  /\ \A s \in Servers : request.least[s] <= known[s]
  /\ \A c \in Calls : ~request.failed[c] => Len(request.asked) # 0

ServersInv ==
  /\ backend \in Backends /\ known \in [Servers -> Txs] /\ clients \in Seq(Servers)
  /\ \A m, n \in 1..Len(clients) : clients[m] = clients[n] => m = n

RequestInv ==
  /\ request.phase \in {"none", "total", "rows", "answered", "rejected"}
  /\ request.phase \in {"total", "rows"} => OpenInv
  /\ DetailsAreComplete

\* Servers only learn.
LEMMA ServersStep ==
  ASSUME ServersInv, [AddressNext]_addressVars
  PROVE  ServersInv' /\ backend' = backend /\ \A s \in Servers : known[s] <= known'[s]
  <1>1. ASSUME NEW s \in Servers, Learns(s)
        PROVE  ServersInv' /\ backend' = backend /\ \A q \in Servers : known[q] <= known'[q]
    BY <1>1, AddressAssumption DEF Learns, ServersInv, Txs
  <1>2. ASSUME NEW s \in Servers, Connects(s)
        PROVE  ServersInv' /\ backend' = backend /\ \A q \in Servers : known[q] <= known'[q]
    <2>1. clients' = Append(clients, s) /\ backend' = backend /\ known' = known
          /\ \A n \in DOMAIN clients : clients[n] # s
      BY <1>2 DEF Connects
    <2>2. clients \in Seq(Servers) /\ Len(clients) \in Nat /\ DOMAIN clients = 1..Len(clients)
      BY DEF ServersInv
    <2>3. /\ clients' \in Seq(Servers) /\ Len(clients') = Len(clients) + 1
          /\ clients'[Len(clients) + 1] = s
          /\ \A n \in 1..Len(clients) : clients'[n] = clients[n]
      BY <2>1, <2>2, AppendProperties
    <2>4. \A m, n \in 1..Len(clients') : clients'[m] = clients'[n] => m = n
      BY <2>1, <2>2, <2>3 DEF ServersInv
    <2>5. \A q \in Servers : known[q] <= known'[q] BY <2>1, AddressAssumption DEF ServersInv, Txs
    <2> QED BY <2>1, <2>3, <2>4, <2>5 DEF ServersInv
  <1>3. CASE UNCHANGED <<backend, known, clients>>
    <2>1. \A q \in Servers : known[q] <= known'[q] BY <1>3, AddressAssumption DEF ServersInv, Txs
    <2> QED BY <1>3, <2>1 DEF ServersInv
  <1> QED BY <1>1, <1>2, <1>3 DEF AddressNext, GetAddressDetails, ServerAnswers, ServerFails,
             ElectrumDetails, DaemonDetails, TotalAnswers, ServiceAnswers, ServiceFails, NotConfigured,
             addressVars

\* What was answered stays as it was, and an open request waits while servers learn.
LEMMA WaitingStep ==
  ASSUME ServersInv, RequestInv, request' = request, backend' = backend,
         known' \in [Servers -> Txs], \A s \in Servers : known[s] <= known'[s]
  PROVE  RequestInv'
  <1>1. request.phase \in {"total", "rows"} => OpenInv'
    <2> SUFFICES ASSUME OpenInv PROVE OpenInv' BY DEF RequestInv
    <2>1. request \in OpenRequest /\ TotalInv /\ AnswersWithin BY DEF OpenInv
    <2>2. /\ request.asked \in Seq(Servers) /\ request.least \in [Servers -> Txs]
          /\ request.answers \in [Calls -> Seq(Txs \cup {Unanswered})]
          /\ known \in [Servers -> Txs]
      BY <2>1 DEF OpenRequest, ServersInv
    <2>3. TotalInv' BY <2>1 DEF TotalInv
    <2>4. AnswersWithin'
      <3> SUFFICES ASSUME NEW c \in Calls, NEW n \in 1..Len(request.asked),
                          request.answers[c][n] # Unanswered
                   PROVE  /\ request.least[request.asked[n]] <= request.answers[c][n]
                          /\ request.answers[c][n] <= known'[request.asked[n]]
        BY <2>1 DEF AnswersWithin
      <3>1. request.asked[n] \in Servers BY <2>2, ElementOfSeq
      <3>2. /\ request.least[request.asked[n]] <= request.answers[c][n]
            /\ request.answers[c][n] <= known[request.asked[n]]
            /\ Len(request.answers[c]) = Len(request.asked)
        BY <2>1 DEF AnswersWithin
      <3>3. request.answers[c][n] \in Txs \cup {Unanswered} BY <2>2, <3>2, ElementOfSeq
      <3>4. request.answers[c][n] \in Txs BY <3>3
      <3>5. known[request.asked[n]] \in Txs /\ known'[request.asked[n]] \in Txs
        BY <2>2, <3>1
      <3>6. known[request.asked[n]] <= known'[request.asked[n]] BY <3>1
      <3> QED BY <3>2, <3>4, <3>5, <3>6, AddressAssumption DEF Txs
    <2>5. \A s \in Servers : request.least[s] <= known'[s]
      <3> SUFFICES ASSUME NEW s \in Servers PROVE request.least[s] <= known'[s] OBVIOUS
      <3>1. request.least[s] <= known[s] /\ known[s] <= known'[s] BY DEF OpenInv
      <3>2. request.least[s] \in Txs /\ known[s] \in Txs /\ known'[s] \in Txs BY <2>2
      <3> QED BY <3>1, <3>2, AddressAssumption DEF Txs
    <2> QED BY <2>1, <2>3, <2>4, <2>5 DEF OpenInv
  <1>2. DetailsAreComplete' BY DEF RequestInv, DetailsAreComplete, Steady
  <1> HIDE DEF OpenInv, DetailsAreComplete
  <1> QED BY <1>1, <1>2 DEF RequestInv

\* A web service is a server.
LEMMA ServiceType == Service \in Servers
  BY AddressAssumption DEF Service

\* A step to an open request answers nothing yet.
LEMMA OpenStep ==
  ASSUME request'.phase \in {"total", "rows"}, OpenInv'
  PROVE  RequestInv'
  <1>1. DetailsAreComplete' BY DEF DetailsAreComplete
  <1> HIDE DEF OpenInv, DetailsAreComplete
  <1> QED BY <1>1 DEF RequestInv

\* An address is asked for.
LEMMA AskStep ==
  ASSUME ServersInv, RequestInv, NEW sort \in {"asc", "desc"}, NEW offset \in Offsets,
         NEW limit \in Limits, GetAddressDetails(sort, offset, limit)
  PROVE  RequestInv'
  <1> DEFINE none == [n \in DOMAIN Asked |-> Unanswered]
             phase == IF backend = "blockchain.com" /\ sort = "asc" THEN "total" ELSE "rows"
             failed == [c \in Calls |-> Asked = <<>>]
             answers == [c \in Calls |-> none]
  <1>1. /\ known' = known /\ backend' = backend
        /\ request' = [phase |-> phase, sort |-> sort, offset |-> offset, limit |-> limit,
                       asked |-> Asked, total |-> Absent, least |-> known,
                       answers |-> answers, failed |-> failed]
    BY DEF GetAddressDetails
  <1>2. Asked \in Seq(Servers) /\ known \in [Servers -> Txs]
    <2>1. <<Service>> \in Seq(Servers) BY ServiceType
    <2> QED BY <2>1 DEF ServersInv, Asked
  <1>3. none \in Seq(Txs \cup {Unanswered}) /\ Len(none) = Len(Asked)
        /\ \A n \in 1..Len(Asked) : none[n] = Unanswered
    <2>1. DOMAIN Asked = 1..Len(Asked) /\ Len(Asked) \in Nat BY <1>2
    <2>2. none \in [1..Len(Asked) -> Txs \cup {Unanswered}] BY <2>1
    <2>3. none \in Seq(Txs \cup {Unanswered}) BY <2>1, <2>2, SeqDef
    <2>4. none \in [1..Len(none) -> Txs \cup {Unanswered}] /\ Len(none) \in Nat
      BY <2>3, LenProperties
    <2>5. \A n \in 1..Len(Asked) : none[n] = Unanswered BY <2>1
    <2> HIDE DEF none
    <2> QED BY <2>1, <2>2, <2>3, <2>4, <2>5
  <1>4. phase \in {"total", "rows"} /\ failed \in [Calls -> BOOLEAN] OBVIOUS
  <1>5. answers \in [Calls -> Seq(Txs \cup {Unanswered})] /\ \A c \in Calls : answers[c] = none
    BY <1>3
  <1>6. offset \in Nat /\ limit \in Nat \ {0} BY AddressAssumption
  <1>7. \A c \in Calls : ~failed[c] => Len(Asked) # 0 BY <1>2, EmptySeq
  <1>8. phase = "total" => backend = "blockchain.com" /\ sort = "asc" OBVIOUS
  <1>9. (phase = "rows" /\ backend = "blockchain.com") => sort = "desc" OBVIOUS
  <1> HIDE DEF none, phase, failed, answers
  <1>10. request' \in OpenRequest BY <1>1, <1>2, <1>4, <1>5, <1>6 DEF OpenRequest
  <1>11. TotalInv' BY <1>1, <1>8, <1>9 DEF TotalInv
  <1>12. AnswersWithin' BY <1>1, <1>3, <1>5 DEF AnswersWithin
  <1>13. \A s \in Servers : request'.least[s] <= known'[s]
    BY <1>1, <1>2, AddressAssumption DEF Txs
  <1>14. \A c \in Calls : ~request'.failed[c] => Len(request'.asked) # 0 BY <1>1, <1>7
  <1>15. OpenInv' BY <1>10, <1>11, <1>12, <1>13, <1>14 DEF OpenInv
  <1> QED BY <1>1, <1>4, <1>15, OpenStep

\* A server answers with the history it has.
LEMMA AnswerStep ==
  ASSUME ServersInv, RequestInv, NEW c \in Calls, NEW n \in Int, ServerAnswers(c, n)
  PROVE  RequestInv'
  <1> DEFINE answer == known[request.asked[n]]
             given == [request.answers[c] EXCEPT ![n] = answer]
             answers == [request.answers EXCEPT ![c] = given]
  <1>1. /\ known' = known /\ backend' = backend /\ request.phase = "rows"
        /\ n \in DOMAIN request.asked
        /\ request' = [request EXCEPT !.answers[c][n] = answer]
    BY DEF ServerAnswers
  <1>2. OpenInv BY <1>1 DEF RequestInv
  <1>3. request \in OpenRequest /\ TotalInv /\ AnswersWithin BY <1>2 DEF OpenInv
  <1>4. /\ request.asked \in Seq(Servers) /\ request.least \in [Servers -> Txs]
        /\ request.answers \in [Calls -> Seq(Txs \cup {Unanswered})]
        /\ known \in [Servers -> Txs]
    BY <1>3 DEF OpenRequest, ServersInv
  <1>5. n \in 1..Len(request.asked) /\ request.asked[n] \in Servers BY <1>1, <1>4, ElementOfSeq
  <1>6. answer \in Txs /\ request.least[request.asked[n]] <= answer BY <1>2, <1>4, <1>5 DEF OpenInv
  <1>7. Len(request.answers[c]) = Len(request.asked) BY <1>3 DEF AnswersWithin
  <1>8. request.answers[c] \in Seq(Txs \cup {Unanswered}) BY <1>4
  <1> HIDE DEF answer
  <1>9. /\ given \in Seq(Txs \cup {Unanswered}) /\ Len(given) = Len(request.asked)
        /\ \A m \in 1..Len(request.asked) : given[m] = IF m = n THEN answer ELSE request.answers[c][m]
    BY <1>5, <1>6, <1>7, <1>8, ExceptSeq
  <1>10. request' = [request EXCEPT !.answers = answers] BY <1>1
  <1> HIDE DEF given
  <1>11. answers \in [Calls -> Seq(Txs \cup {Unanswered})] /\ answers[c] = given
         /\ \A d \in Calls \ {c} : answers[d] = request.answers[d]
    BY <1>4, <1>9
  <1> HIDE DEF answers
  <1>12. request' \in OpenRequest BY <1>3, <1>10, <1>11 DEF OpenRequest
  <1>13. /\ request'.phase = "rows" /\ request'.asked = request.asked
         /\ request'.least = request.least /\ request'.answers = answers
         /\ request'.total = request.total /\ request'.sort = request.sort
         /\ request'.failed = request.failed
    BY <1>1, <1>3, <1>10 DEF OpenRequest
  <1>14. TotalInv' BY <1>1, <1>3, <1>13 DEF TotalInv
  <1>15. AnswersWithin'
    <2> SUFFICES ASSUME NEW d \in Calls
                 PROVE  /\ Len(answers[d]) = Len(request.asked)
                        /\ \A m \in 1..Len(request.asked) :
                             answers[d][m] # Unanswered =>
                               /\ request.least[request.asked[m]] <= answers[d][m]
                               /\ answers[d][m] <= known[request.asked[m]]
      BY <1>1, <1>13 DEF AnswersWithin
    <2>1. CASE d # c BY <1>3, <1>11, <2>1 DEF AnswersWithin
    <2>2. CASE d = c
      <3>1. answer <= answer BY <1>6, AddressAssumption DEF Txs
      <3>2. answer <= known[request.asked[n]] BY <3>1 DEF answer
      <3> QED BY <1>3, <1>6, <1>9, <1>11, <2>2, <3>2 DEF AnswersWithin
    <2> QED BY <2>1, <2>2
  <1>16. OpenInv' BY <1>1, <1>2, <1>12, <1>13, <1>14, <1>15 DEF OpenInv
  <1> QED BY <1>13, <1>16, OpenStep

\* A call fails.
LEMMA FailStep ==
  ASSUME ServersInv, RequestInv, NEW c \in Calls, NEW n \in Int, ServerFails(c, n)
  PROVE  RequestInv'
  <1> DEFINE failed == [request.failed EXCEPT ![c] = TRUE]
  <1>1. /\ known' = known /\ backend' = backend /\ request.phase = "rows"
        /\ request' = [request EXCEPT !.failed = failed]
    BY DEF ServerFails
  <1>2. OpenInv BY <1>1 DEF RequestInv
  <1>3. request \in OpenRequest /\ TotalInv /\ AnswersWithin BY <1>2 DEF OpenInv
  <1>4. request.failed \in [Calls -> BOOLEAN] BY <1>3 DEF OpenRequest
  <1>5. failed \in [Calls -> BOOLEAN] /\ \A d \in Calls : ~failed[d] => ~request.failed[d]
    BY <1>4
  <1> HIDE DEF failed
  <1>6. request' \in OpenRequest BY <1>1, <1>3, <1>5 DEF OpenRequest
  <1>7. /\ request'.phase = "rows" /\ request'.asked = request.asked
        /\ request'.least = request.least /\ request'.answers = request.answers
        /\ request'.total = request.total /\ request'.sort = request.sort
        /\ request'.failed = failed
    BY <1>1, <1>3 DEF OpenRequest
  <1>8. TotalInv' BY <1>1, <1>3, <1>7 DEF TotalInv
  <1>9. AnswersWithin' BY <1>1, <1>3, <1>7 DEF AnswersWithin
  <1>10. OpenInv' BY <1>1, <1>2, <1>5, <1>6, <1>7, <1>8, <1>9 DEF OpenInv
  <1> QED BY <1>7, <1>10, OpenStep

\* The total comes first where a page depends on it.
LEMMA TotalStep ==
  ASSUME ServersInv, RequestInv, TotalAnswers
  PROVE  RequestInv'
  <1> DEFINE total == known[Service]
  <1>1. /\ known' = known /\ backend' = backend /\ request.phase = "total"
        /\ request' = [request EXCEPT !.phase = "rows", !.total = total]
    BY DEF TotalAnswers
  <1>2. OpenInv BY <1>1 DEF RequestInv
  <1>3. request \in OpenRequest /\ TotalInv /\ AnswersWithin BY <1>2 DEF OpenInv
  <1>4. total \in Txs BY ServiceType DEF ServersInv
  <1>5. total # Absent BY <1>4, AddressAssumption DEF Txs
  <1> HIDE DEF total
  <1>6. request' \in OpenRequest BY <1>1, <1>3, <1>4 DEF OpenRequest
  <1>7. /\ request'.phase = "rows" /\ request'.asked = request.asked
        /\ request'.least = request.least /\ request'.answers = request.answers
        /\ request'.total = total /\ request'.sort = request.sort
        /\ request'.failed = request.failed
    BY <1>1, <1>3 DEF OpenRequest
  <1>8. TotalInv' BY <1>1, <1>3, <1>5, <1>7 DEF TotalInv
  <1>9. AnswersWithin' BY <1>1, <1>3, <1>7 DEF AnswersWithin
  <1>10. OpenInv' BY <1>1, <1>2, <1>6, <1>7, <1>8, <1>9 DEF OpenInv
  <1> QED BY <1>7, <1>10, OpenStep

\* What an outcome has to be for DetailsAreComplete.
LEMMA OutcomeStep ==
  ASSUME ServersInv, OpenInv, NEW txids, NEW count, NEW balance, NEW errors,
         request' = Outcome(txids, count, balance, errors), backend' = backend,
         errors = {} =>
           /\ count # Absent /\ (balance = Absent => backend = "daemonRPC")
           /\ \A n \in {count, balance} \ {Absent} : \E s \in Servers : n \in request.least[s]..known[s]
           /\ (request.total # Absent =>
                 request.offset + request.limit <= request.total /\ count = request.total) =>
              txids = Part(count, IF backend \in {"blockchair.com", "blockcypher.com"} THEN "desc"
                                  ELSE request.sort, request.offset, request.limit)
  PROVE  RequestInv'
  <1>1. /\ request'.phase = "answered" /\ request'.sort = request.sort
        /\ request'.offset = request.offset /\ request'.limit = request.limit
        /\ request'.least = request.least /\ request'.most = known
        /\ request'.total = request.total /\ request'.txids = txids /\ request'.count = count
        /\ request'.balance = balance /\ request'.errors = errors
    BY DEF Outcome
  <1>2. DetailsAreComplete' BY <1>1 DEF DetailsAreComplete, Steady
  <1> HIDE DEF DetailsAreComplete
  <1> QED BY <1>1, <1>2 DEF RequestInv

\* A call that did not fail has the answer of the first server, which is of a history it had.
LEMMA FirstResultIs ==
  ASSUME ServersInv, OpenInv, \A c \in Calls : Settled(c), NEW c \in Calls
  PROVE  /\ request.failed[c] => FirstResult(c) = Absent
         /\ ~request.failed[c] => FirstResult(c) \in Nat
         /\ FirstResult(c) # Absent => \E s \in Servers : FirstResult(c) \in request.least[s]..known[s]
  <1>1. request \in OpenRequest /\ AnswersWithin BY DEF OpenInv
  <1>2. /\ request.asked \in Seq(Servers) /\ request.least \in [Servers -> Txs]
        /\ request.answers \in [Calls -> Seq(Txs \cup {Unanswered})]
        /\ known \in [Servers -> Txs]
    BY <1>1 DEF OpenRequest, ServersInv
  <1>3. CASE request.failed[c] BY <1>3 DEF FirstResult
  <1>4. CASE ~request.failed[c]
    <2>1. Len(request.asked) # 0 /\ Len(request.asked) \in Nat BY <1>2, <1>4 DEF OpenInv
    <2>2. FirstResult(c) = request.answers[c][1] BY <1>4 DEF FirstResult, Compared
    <2>3. 1 \in 1..Len(request.asked) /\ 1 \in DOMAIN request.asked BY <1>2, <2>1
    <2>4. request.answers[c][1] # Unanswered BY <1>4, <2>3 DEF Settled
    <2>5. request.answers[c] \in Seq(Txs \cup {Unanswered})
          /\ Len(request.answers[c]) = Len(request.asked)
      BY <1>1, <1>2 DEF AnswersWithin
    <2>6. request.answers[c][1] \in Txs BY <2>3, <2>4, <2>5, ElementOfSeq
    <2>7. /\ request.least[request.asked[1]] <= request.answers[c][1]
          /\ request.answers[c][1] <= known[request.asked[1]]
      BY <1>1, <2>3, <2>4 DEF AnswersWithin
    <2>8. request.asked[1] \in Servers BY <1>2, <2>3, ElementOfSeq
    <2>9. request.least[request.asked[1]] \in Txs /\ known[request.asked[1]] \in Txs
      BY <1>2, <2>8
    <2>10. FirstResult(c) \in request.least[request.asked[1]]..known[request.asked[1]]
      BY <2>2, <2>6, <2>7, <2>9, AddressAssumption DEF Txs
    <2>11. FirstResult(c) \in Nat BY <2>2, <2>6, AddressAssumption DEF Txs
    <2> QED BY <1>4, <2>8, <2>10, <2>11
  <1> QED BY <1>3, <1>4

\* The answers of the ElectrumX servers are there.
LEMMA ElectrumStep ==
  ASSUME ServersInv, RequestInv, ElectrumDetails
  PROVE  RequestInv'
  <1> DEFINE count == FirstResult("history")
             balance == FirstResult("balance")
             errors == {c \in Calls : request.failed[c]}
             txids == IF count = Absent THEN Absent
                      ELSE Part(count, request.sort, request.offset, request.limit)
  <1>1. /\ request' = Outcome(txids, count, balance, errors) /\ backend' = backend
        /\ backend = "electrumx" /\ request.phase = "rows" /\ \A c \in Calls : Settled(c)
    BY DEF ElectrumDetails
  <1>2. OpenInv BY <1>1 DEF RequestInv
  <1>3. "history" \in Calls /\ "balance" \in Calls BY DEF Calls
  <1>4. ASSUME errors = {}
        PROVE  /\ balance # Absent /\ count # Absent
               /\ \A n \in {count, balance} \ {Absent} : \E s \in Servers : n \in request.least[s]..known[s]
               /\ txids = Part(count, request.sort, request.offset, request.limit)
    <2>1. ~request.failed["history"] /\ ~request.failed["balance"] BY <1>3, <1>4
    <2>2. count \in Nat /\ balance \in Nat BY <1>1, <1>2, <1>3, <2>1, FirstResultIs
    <2>3. count # Absent /\ balance # Absent BY <2>2, AddressAssumption
    <2>4. /\ \E s \in Servers : count \in request.least[s]..known[s]
          /\ \E s \in Servers : balance \in request.least[s]..known[s]
      BY <1>1, <1>2, <1>3, <2>3, FirstResultIs
    <2> QED BY <2>3, <2>4
  <1> HIDE DEF count, balance, errors, txids
  <1> QED BY <1>1, <1>2, <1>4, OutcomeStep

\* The answers of the node are there, or its refusals.
LEMMA DaemonStep ==
  ASSUME ServersInv, RequestInv, DaemonDetails
  PROVE  RequestInv'
  <1> DEFINE count == FirstResult("history")
             balance == FirstResult("balance")
             txids == Part(count, request.sort, request.offset, request.limit)
             none == {}
  <1>1. /\ request' = IF count = Absent THEN [phase |-> "rejected"]
                      ELSE Outcome(txids, count, balance, none)
        /\ backend' = backend /\ backend = "daemonRPC" /\ request.phase = "rows"
        /\ \A c \in Calls : Settled(c)
    BY DEF DaemonDetails
  <1>2. OpenInv BY <1>1 DEF RequestInv
  <1>3. "history" \in Calls /\ "balance" \in Calls BY DEF Calls
  <1>4. \A n \in {count, balance} \ {Absent} : \E s \in Servers : n \in request.least[s]..known[s]
    BY <1>1, <1>2, <1>3, FirstResultIs
  <1>5. txids = Part(count, request.sort, request.offset, request.limit) OBVIOUS
  <1> HIDE DEF count, balance, txids, none
  <1>6. CASE count = Absent
    <2>1. request'.phase = "rejected" BY <1>1, <1>6
    <2> QED BY <2>1 DEF RequestInv, DetailsAreComplete
  <1>7. CASE count # Absent
    <2>1. request' = Outcome(txids, count, balance, none) BY <1>1, <1>7
    <2> QED BY <1>1, <1>2, <1>4, <1>5, <1>7, <2>1, OutcomeStep
  <1> QED BY <1>6, <1>7

\* The answer of a web service is there.
LEMMA ServiceStep ==
  ASSUME ServersInv, RequestInv, ServiceAnswers
  PROVE  RequestInv'
  <1> DEFINE n == known[Service]
             txids == IF request.total # Absent THEN Ascending(n)
                      ELSE Part(n, "desc", request.offset, request.limit)
             sort == IF backend \in {"blockchair.com", "blockcypher.com"} THEN "desc"
                     ELSE request.sort
  <1>1. /\ request' = Outcome(txids, n, n, {}) /\ backend' = backend
        /\ backend \in {"blockchain.com", "blockchair.com", "blockcypher.com"}
        /\ request.phase = "rows"
    BY DEF ServiceAnswers, OfService
  <1>2. OpenInv BY <1>1 DEF RequestInv
  <1>3. request \in OpenRequest /\ TotalInv BY <1>2 DEF OpenInv
  <1>4. n \in Txs /\ request.least[Service] \in Txs /\ request.least[Service] <= n
    BY <1>2, <1>3, ServiceType DEF ServersInv, OpenInv, OpenRequest
  <1>5. n \in Nat /\ n # Absent BY <1>4, AddressAssumption DEF Txs
  <1>6. n \in request.least[Service]..known[Service] BY <1>4, AddressAssumption DEF Txs
  <1>7. \E s \in Servers : n \in request.least[s]..known[s] BY <1>6, ServiceType
  <1>8. request.offset \in Nat /\ request.limit \in Nat \ {0} BY <1>3 DEF OpenRequest
  <1>9. ASSUME request.total # Absent => request.offset + request.limit <= request.total
                                          /\ n = request.total
        PROVE  txids = Part(n, sort, request.offset, request.limit)
    <2>1. CASE request.total # Absent
      <3>1. backend = "blockchain.com" /\ request.sort = "asc" BY <2>1, <1>3 DEF TotalInv
      <3>2. Ascending(n) = Part(n, "asc", request.offset, request.limit)
        BY <1>5, <1>8, <1>9, <2>1, AscendingIsPart
      <3> QED BY <2>1, <3>1, <3>2
    <2>2. CASE request.total = Absent
      <3>1. sort = "desc" BY <1>1, <1>3, <2>2 DEF TotalInv
      <3> QED BY <2>2, <3>1
    <2> QED BY <2>1, <2>2
  <1> HIDE DEF n, txids
  <1> QED BY <1>1, <1>2, <1>5, <1>7, <1>9, OutcomeStep

\* Initially nothing is asked for.
LEMMA AddressStart ==
  ASSUME AddressInit
  PROVE  ServersInv /\ RequestInv
  <1>1. backend \in Backends /\ known = [s \in Servers |-> 1] /\ clients = <<>>
        /\ request.phase = "none"
    BY DEF AddressInit, NoRequest
  <1>2. known \in [Servers -> Txs] BY <1>1, AddressAssumption DEF Txs
  <1>3. clients \in Seq(Servers) /\ Len(clients) = 0 BY <1>1, EmptySeq
  <1>4. ServersInv BY <1>1, <1>2, <1>3 DEF ServersInv
  <1> QED BY <1>1, <1>4 DEF RequestInv, DetailsAreComplete

\* Every step keeps the invariant of the details.
LEMMA AddressStep ==
  ASSUME ServersInv, RequestInv, [AddressNext]_addressVars
  PROVE  ServersInv' /\ RequestInv'
  <1>1. ServersInv' /\ backend' = backend /\ \A s \in Servers : known[s] <= known'[s]
    BY ServersStep
  <1>2. known' \in [Servers -> Txs] BY <1>1 DEF ServersInv
  <1>3. CASE request' = request BY <1>1, <1>2, <1>3, WaitingStep
  <1>4. ASSUME ServiceFails \/ NotConfigured PROVE RequestInv'
    <2>1. CASE ServiceFails
      <3>1. request'.phase = "rejected" BY <2>1 DEF ServiceFails
      <3> QED BY <3>1 DEF RequestInv, DetailsAreComplete
    <2>2. CASE NotConfigured
      <3> DEFINE errors == {"not configured"}
      <3>1. request' = Outcome(Absent, Absent, Absent, errors) BY <2>2 DEF NotConfigured
      <3>2. errors # {} OBVIOUS
      <3> HIDE DEF errors
      <3>3. request'.phase = "answered" /\ request'.errors = errors BY <3>1 DEF Outcome
      <3> QED BY <3>2, <3>3 DEF RequestInv, DetailsAreComplete
    <2> QED BY <1>4, <2>1, <2>2
  <1>5. ASSUME NEW s \in Servers, Learns(s) \/ Connects(s) PROVE RequestInv'
    BY <1>3, <1>5 DEF Learns, Connects
  <1>6. ASSUME NEW c \in Calls, NEW n \in 1..Cardinality(Servers),
               ServerAnswers(c, n) \/ ServerFails(c, n)
        PROVE  RequestInv'
    BY <1>6, AnswerStep, FailStep
  <1>7. UNCHANGED addressVars => request' = request BY DEF addressVars
  <1> QED BY <1>1, <1>3, <1>4, <1>5, <1>6, <1>7, AskStep, ElectrumStep, DaemonStep, TotalStep, ServiceStep
          DEF AddressNext

\* The shapes of the servers and of a request; no server is connected to twice
\* (electrumAddressApi.js, connectToServers).
THEOREM AddressesAreTyped == AddressSpec => []AddressTypeOK
  <1> DEFINE IInv == ServersInv /\ RequestInv
  <1>1. AddressInit => IInv BY AddressStart
  <1>2. IInv /\ [AddressNext]_addressVars => IInv' BY AddressStep
  <1>3. IInv => AddressTypeOK
    <2> SUFFICES ASSUME ServersInv, RequestInv PROVE AddressTypeOK OBVIOUS
    <2>1. clients \in Seq(Servers) /\ \A m, n \in 1..Len(clients) : clients[m] = clients[n] => m = n
      BY DEF ServersInv
    <2>2. Len(clients) <= Cardinality(Servers)
      <3>1. Len(clients) \in Nat /\ clients \in [1..Len(clients) -> Servers] BY <2>1
      <3>2. IsFiniteSet(1..Len(clients)) /\ Cardinality(1..Len(clients)) = Len(clients)
        <4>1. IsFiniteSet(1..Len(clients)) BY <3>1, FS_Interval
        <4>2. Cardinality(1..Len(clients)) = IF 1 > Len(clients) THEN 0 ELSE Len(clients) - 1 + 1
          BY <3>1, FS_Interval
        <4> QED BY <3>1, <4>1, <4>2
      <3>3. clients \in Injection(1..Len(clients), Servers)
        BY <2>1, <3>1 DEF Injection, IsInjective
      <3>4. Cardinality(1..Len(clients)) <= Cardinality(Servers)
        BY <3>2, <3>3, AddressAssumption, FS_Injection
      <3> QED BY <3>2, <3>4
    <2>3. backend \in Backends /\ known \in [Servers -> 1..MaxTxs] BY DEF ServersInv, Txs
    <2>4. request.phase \in {"none", "total", "rows", "answered", "rejected"} BY DEF RequestInv
    <2> QED BY <2>1, <2>2, <2>3, <2>4 DEF AddressTypeOK
  <1> QED BY <1>1, <1>2, <1>3, PTL DEF AddressSpec

\* Details without an error have a balance, unless the node refused it, and are the page asked for of a
\* history some server had, however many servers there are and however much they disagree (getAddressDetails).
THEOREM DetailsArePages == AddressSpec => []DetailsAreComplete
  <1> DEFINE IInv == ServersInv /\ RequestInv
  <1>1. AddressInit => IInv BY AddressStart
  <1>2. IInv /\ [AddressNext]_addressVars => IInv' BY AddressStep
  <1>3. IInv => DetailsAreComplete BY DEF RequestInv
  <1> QED BY <1>1, <1>2, <1>3, PTL DEF AddressSpec

-----------------------------------------------------------------------------
(* AssetPages: a node that counts, asked without a refusal or a restart, is known to count before *)
(* the first total comes back, so that every page that follows a total is asked for as a page.    *)

Totals == 0..MaxHolders \cup {NoValue, AssetError}

Phases == {"idle", "count", "probe", "fallback", "list", "rows", "answered", "rejected", "forgotten"}

Page == [phase : Phases, start : Nat, limit : Int, paged : BOOLEAN, since : Nat, total : Totals, rows : Totals]

\* How many holders there have been since the kept count was read.
HadSince(n) == {was[i] : i \in n..Len(was)}

PageTypeInv ==
  /\ supports \in BOOLEAN /\ doubt \in BOOLEAN
  /\ was \in Seq(0..MaxHolders) /\ readAt \in 1..Len(was)
  /\ flag \in {"undefined", "0", "1"}
  /\ kept \in {NoValue, AssetError} \cup HadSince(readAt)
  /\ page \in [PageRequests -> Page]

\* What PageIsSlice says of one page that was answered.
Right(p) ==
  p.phase = "answered" /\ p.total # AssetError =>
    /\ p.total \in Had(p)
    /\ p.rows # AssetError =>
         p.rows \in {Slice(p.start, p.limit, n) : n \in Had(p)}
                      \cup (IF supports /\ ~doubt THEN {} ELSE Had(p))

\* A page whose rows are asked for has a total, and is asked for as a page of a node that
\* counts; before, it went no way that is for nodes that do not.
Paging(p) ==
  /\ p.since \in 1..Len(was)
  /\ p.phase = "rows" => p.total \in Had(p)
  /\ supports /\ ~doubt =>
       /\ p.phase \notin {"fallback", "list"}
       /\ p.phase = "count" => flag = "1"
       /\ p.phase = "rows" => p.paged

\* The flag of a node that counts is set before a total is kept.
FlagInv == supports /\ ~doubt => flag # "0" /\ (kept # NoValue => flag = "1")

AssetInv == PageTypeInv /\ FlagInv /\ \A r \in PageRequests : Right(page[r]) /\ Paging(page[r])

-----------------------------------------------------------------------------
\* There are some holders, and a page saw them if it saw anything.
LEMMA HoldersThereAre ==
  ASSUME PageTypeInv
  PROVE  /\ Len(was) \in Nat /\ Len(was) >= 1 /\ Holders \in 0..MaxHolders /\ Holders \in Nat
         /\ \A n \in 1..Len(was) : Holders \in HadSince(n) /\ HadSince(n) \subseteq 0..MaxHolders
         /\ AssetError \notin 0..MaxHolders /\ AssetError \notin Nat
  <1>1. was \in Seq(0..MaxHolders) /\ readAt \in 1..Len(was) BY DEF PageTypeInv
  <1>2. Len(was) \in Nat /\ Len(was) >= 1 BY <1>1
  <1>3. \A i \in 1..Len(was) : was[i] \in 0..MaxHolders
    <2>1. \A S : \A s \in Seq(S) : \A i \in 1..Len(s) : s[i] \in S OBVIOUS
    <2> QED BY <1>1, <2>1
  <1>4. Holders \in 0..MaxHolders BY <1>2, <1>3 DEF Holders
  <1>5. AssetError \notin 0..MaxHolders /\ AssetError \notin Nat BY PagesAssumption
  <1>6. ASSUME NEW n \in 1..Len(was) PROVE Holders \in HadSince(n) /\ HadSince(n) \subseteq 0..MaxHolders
    <2>1. Len(was) \in n..Len(was) BY <1>2
    <2>2. \A i \in n..Len(was) : i \in 1..Len(was) BY <1>2
    <2> QED BY <1>3, <2>1, <2>2 DEF Holders, HadSince
  <1> QED BY <1>2, <1>4, <1>5, <1>6, PagesAssumption

\* Of no holders a page holds none.
LEMMA SliceOfNone ==
  ASSUME NEW start \in Nat, NEW limit \in Int
  PROVE  Slice(start, limit, 0) = 0
  <1> DEFINE least == Min({limit, 0 - start})
  <1>1. least \in {limit, 0 - start} /\ least <= 0 - start BY DEF Min
  <1>2. least \in Int /\ least <= 0 BY <1>1
  <1>3. Max({0, least}) = 0 BY <1>2 DEF Max
  <1> QED BY <1>3 DEF Slice

\* With a total a page is answered, or its rows are asked for the way the flag says.
LEMMA TotalledIsRight ==
  ASSUME PageTypeInv, NEW asked \in Page, asked.since \in 1..Len(was),
         NEW total \in {AssetError} \cup HadSince(asked.since), NEW counts
  PROVE  LET p == Totalled(asked, total, counts) IN
         /\ p \in Page /\ Right(p) /\ p.phase \in {"rows", "answered"} /\ p.since = asked.since
         /\ p.phase = "rows" => p.total \in Had(p) /\ p.paged = (counts = "1")
  <1> DEFINE p == Totalled(asked, total, counts)
             limit == IF asked.limit < 0 /\ total # AssetError THEN total ELSE asked.limit
  <1>1. /\ AssetError \notin 0..MaxHolders /\ AssetError \notin Nat
        /\ HadSince(asked.since) \subseteq 0..MaxHolders
    BY HoldersThereAre
  <1>2. total \in {AssetError} \cup 0..MaxHolders BY <1>1
  <1>3. limit \in Int BY <1>2, PagesAssumption DEF Page
  <1>4. total \in Totals /\ 0 \in Totals /\ "rows" \in Phases /\ "answered" \in Phases
    BY <1>2, PagesAssumption DEF Totals, Phases
  <1>5. CASE total # AssetError /\ total > 0
    <2>1. p = [asked EXCEPT !.phase = "rows", !.total = total, !.limit = limit, !.paged = (counts = "1")]
      BY <1>5 DEF Totalled
    <2> HIDE DEF p, limit
    <2>2. (counts = "1") \in BOOLEAN OBVIOUS
    <2>3. p \in Page BY <1>3, <1>4, <2>1, <2>2 DEF Page
    <2>4. /\ p.phase = "rows" /\ p.total = total /\ p.paged = (counts = "1") /\ p.since = asked.since
      BY <2>1 DEF Page
    <2>5. total \in Had(p) BY <1>5, <2>4 DEF Had, HadSince
    <2> QED BY <2>3, <2>4, <2>5 DEF Right, p
  <1>6. CASE ~(total # AssetError /\ total > 0)
    <2>1. p = [asked EXCEPT !.phase = "answered", !.total = total, !.rows = 0, !.limit = limit]
      BY <1>6 DEF Totalled
    <2> HIDE DEF p, limit
    <2>2. p \in Page BY <1>3, <1>4, <2>1 DEF Page
    <2>3. p.phase = "answered" /\ p.total = total /\ p.rows = 0 /\ p.since = asked.since
      BY <2>1 DEF Page
    <2>4. p.start \in Nat /\ p.limit \in Int BY <2>2 DEF Page
    <2>5. ASSUME total # AssetError PROVE Right(p)
      <3>1. total = 0 BY <1>2, <1>6, <2>5
      <3>2. 0 \in Had(p) BY <2>3, <2>5, <3>1 DEF Had, HadSince
      <3>3. Slice(p.start, p.limit, 0) = 0 BY <2>4, SliceOfNone
      <3> QED BY <2>3, <3>1, <3>2, <3>3 DEF Right
    <2>6. Right(p) BY <2>3, <2>5 DEF Right
    <2> QED BY <2>2, <2>3, <2>6 DEF p
  <1> QED BY <1>5, <1>6

\* A page that is not asked for.
LEMMA IdleIsPage == Idle \in Page
  <1>1. NoValue \in Totals BY DEF Totals
  <1>2. "idle" \in Phases BY DEF Phases
  <1> QED BY <1>1, <1>2 DEF Idle, Page

\* Initially nothing is asked for.
LEMMA AssetInitially == AssetInit => AssetInv
  <1> SUFFICES ASSUME AssetInit PROVE AssetInv OBVIOUS
  <1>1. Idle \in Page BY IdleIsPage
  <1>2. was \in Seq(0..MaxHolders) /\ Len(was) = 1 /\ readAt = 1
    <2>1. PICK n \in 0..MaxHolders : was = <<n>> BY DEF AssetInit
    <2>2. <<n>> \in Seq(0..MaxHolders) /\ Len(<<n>>) = 1 OBVIOUS
    <2> QED BY <2>1, <2>2 DEF AssetInit
  <1>3. page \in [PageRequests -> Page] BY <1>1 DEF AssetInit
  <1>4. PageTypeInv
    <2>1. supports \in BOOLEAN /\ doubt \in BOOLEAN /\ flag = "undefined" /\ kept = NoValue BY DEF AssetInit
    <2> QED BY <1>2, <1>3, <2>1 DEF PageTypeInv
  <1>5. FlagInv BY DEF AssetInit, FlagInv
  <1>6. Idle.phase = "idle" /\ Idle.since = 1 BY DEF Idle
  <1>7. \A r \in PageRequests : page[r] = Idle BY DEF AssetInit
  <1>8. Right(Idle) /\ Paging(Idle) BY <1>2, <1>6 DEF Right, Paging
  <1>9. \A r \in PageRequests : Right(page[r]) /\ Paging(page[r]) BY <1>7, <1>8
  <1> QED BY <1>4, <1>5, <1>9 DEF AssetInv

\* What a page saw stays seen when the holders change.
LEMMA HadGrows ==
  ASSUME PageTypeInv, NEW p \in Page, p.since \in 1..Len(was),
         \/ was' = was
         \/ \E n \in 0..MaxHolders : was' = Append(was, n)
  PROVE  /\ Had(p) \subseteq Had(p)' /\ Len(was) <= Len(was)' /\ was' \in Seq(0..MaxHolders)
         /\ \A n \in 1..Len(was) : HadSince(n) \subseteq HadSince(n)'
  <1>1. was \in Seq(0..MaxHolders) BY DEF PageTypeInv
  <1>2. CASE was' = was BY <1>1, <1>2 DEF Had, HadSince
  <1>3. ASSUME NEW n \in 0..MaxHolders, was' = Append(was, n)
        PROVE  /\ Len(was)' = Len(was) + 1 /\ was' \in Seq(0..MaxHolders)
               /\ \A i \in 1..Len(was) : was'[i] = was[i]
    BY <1>1, <1>3
  <1>4. CASE \E n \in 0..MaxHolders : was' = Append(was, n)
    <2>1. /\ Len(was)' = Len(was) + 1 /\ was' \in Seq(0..MaxHolders)
          /\ \A i \in 1..Len(was) : was'[i] = was[i]
      BY <1>3, <1>4
    <2>2. Len(was) \in Nat BY <1>1
    <2>3. \A n \in 1..Len(was) : \A i \in n..Len(was) : i \in 1..Len(was) /\ i \in n..Len(was)'
      BY <2>1, <2>2
    <2>4. \A n \in 1..Len(was) : HadSince(n) \subseteq HadSince(n)' BY <2>1, <2>3 DEF HadSince
    <2> QED BY <2>1, <2>2, <2>4 DEF Had, HadSince
  <1> QED BY <1>2, <1>4

\* A page that is right stays right while the node and what is in doubt stay as they are.
LEMMA StaysRight ==
  ASSUME PageTypeInv, NEW p \in Page, p.since \in 1..Len(was), UNCHANGED <<supports, doubt>>, Right(p),
         \/ was' = was
         \/ \E n \in 0..MaxHolders : was' = Append(was, n)
  PROVE  Right(p)'
  <1>1. Had(p) \subseteq Had(p)' BY HadGrows
  <1>2. {Slice(p.start, p.limit, n) : n \in Had(p)} \subseteq {Slice(p.start, p.limit, n) : n \in Had(p)'}
    BY <1>1
  <1>3. (IF supports /\ ~doubt THEN {} ELSE Had(p))
          \subseteq (IF supports /\ ~doubt THEN {} ELSE Had(p)')
    BY <1>1
  <1> HIDE DEF Had
  <1> QED BY <1>1, <1>2, <1>3 DEF Right, Slice

\* A page stays right and on its way while the node and the holders stay as they are.
LEMMA StaysOnItsWay ==
  ASSUME NEW p, UNCHANGED <<supports, was>>, doubt \in BOOLEAN, doubt' \in BOOLEAN, doubt => doubt',
         supports \in BOOLEAN, supports /\ ~doubt' /\ flag = "1" => flag' = "1", Right(p), Paging(p)
  PROVE  Right(p)' /\ Paging(p)'
  <1>1. Had(p)' = Had(p) BY DEF Had
  <1>2. Right(p)' BY <1>1 DEF Right, Slice
  <1>3. Paging(p)' BY <1>1 DEF Paging
  <1> QED BY <1>2, <1>3

\* A step that changes one page, to one that is right, preserves the invariant if the flag and
\* what is kept stay in order and the flag that was found out is not lost.
LEMMA OnePageSteps ==
  ASSUME AssetInv, NEW r \in PageRequests, NEW p \in Page,
         page' = [page EXCEPT ![r] = p],
         UNCHANGED <<supports, was>>,
         doubt' \in BOOLEAN, doubt => doubt',
         flag' \in {"undefined", "0", "1"},
         readAt' \in 1..Len(was), kept' \in {NoValue, AssetError} \cup HadSince(readAt'),
         FlagInv', supports /\ ~doubt' /\ flag = "1" => flag' = "1",
         Right(p)', Paging(p)'
  PROVE  AssetInv'
  <1>1. PageTypeInv' BY DEF AssetInv, PageTypeInv, HadSince
  <1>2. ASSUME NEW q \in PageRequests
        PROVE  Right(page[q])' /\ Paging(page[q])'
    <2>1. CASE q = r
      <3>1. page'[q] = p BY <2>1 DEF AssetInv, PageTypeInv
      <3> QED BY <3>1 DEF Right, Paging, Slice, Had
    <2>2. CASE q # r
      <3>1. PICK old : old = page[q] OBVIOUS
      <3>2. page'[q] = old BY <2>2, <3>1 DEF AssetInv, PageTypeInv
      <3>3. Right(old) /\ Paging(old) /\ doubt \in BOOLEAN /\ supports \in BOOLEAN
        BY <3>1 DEF AssetInv, PageTypeInv
      <3>4. Right(old)' /\ Paging(old)' BY <3>3, StaysOnItsWay
      <3> QED BY <3>2, <3>4 DEF Right, Paging, Slice, Had
    <2> QED BY <2>1, <2>2
  <1> QED BY <1>1, <1>2 DEF AssetInv

\* A total that is found while the flag says what the node does.
LEMMA TotalSteps ==
  ASSUME AssetInv, NEW r \in PageRequests, NEW total \in {AssetError, Holders},
         GotTotal(r, total), UNCHANGED <<supports, was, doubt>>,
         flag' \in {"undefined", "0", "1"}, supports /\ ~doubt => flag' = "1"
  PROVE  AssetInv'
  <1>1. PageTypeInv /\ page[r] \in Page BY DEF AssetInv, PageTypeInv
  <1>2. page[r].since \in 1..Len(was) BY DEF AssetInv, Paging
  <1>3. /\ Len(was) \in 1..Len(was)
        /\ total \in {AssetError} \cup HadSince(page[r].since)
        /\ total \in {AssetError} \cup HadSince(Len(was))
    BY <1>1, <1>2, HoldersThereAre
  <1>4. PICK p : p = Totalled(page[r], total, flag') OBVIOUS
  <1>5. page' = [page EXCEPT ![r] = p] /\ kept' = total /\ readAt' = Len(was) BY <1>4 DEF GotTotal
  <1>6. /\ p \in Page /\ Right(p) /\ p.phase \in {"rows", "answered"} /\ p.since = page[r].since
        /\ p.phase = "rows" => p.total \in Had(p) /\ p.paged = (flag' = "1")
    BY <1>1, <1>2, <1>3, <1>4, TotalledIsRight
  <1>7. FlagInv' BY <1>5 DEF FlagInv
  <1>8. Right(p)' BY <1>1, <1>2, <1>6, StaysRight
  <1>9. Had(p) \subseteq Had(p)' BY <1>1, <1>2, <1>6, HadGrows
  <1>10. Paging(p)' BY <1>2, <1>6, <1>9 DEF Paging
  <1>11. /\ doubt' \in BOOLEAN /\ readAt' \in 1..Len(was)
         /\ kept' \in {NoValue, AssetError} \cup HadSince(readAt')
    BY <1>1, <1>3, <1>5 DEF PageTypeInv
  <1> QED BY <1>5, <1>6, <1>7, <1>8, <1>10, <1>11, OnePageSteps

\* A page that is given up, or goes on to the whole list of a node that does not count.
LEMMA PhaseSteps ==
  ASSUME AssetInv, NEW r \in PageRequests, NEW phase \in {"fallback", "rejected", "forgotten"},
         page' = [page EXCEPT ![r].phase = phase],
         UNCHANGED <<supports, was, flag, kept, readAt>>, doubt' \in BOOLEAN, doubt => doubt',
         phase = "fallback" /\ supports => doubt'
  PROVE  AssetInv'
  <1>1. page[r] \in Page BY DEF AssetInv, PageTypeInv
  <1>2. PICK p : p = [page[r] EXCEPT !.phase = phase] OBVIOUS
  <1>3. phase \in Phases BY DEF Phases
  <1>4. p \in Page /\ p.phase = phase /\ p.since = page[r].since BY <1>1, <1>2, <1>3 DEF Page
  <1>5. page' = [page EXCEPT ![r] = p] BY <1>2 DEF AssetInv, PageTypeInv
  <1>6. Right(p)' BY <1>4 DEF Right
  <1>7. Paging(p)' BY <1>4 DEF Paging, AssetInv
  <1>8. FlagInv' BY DEF AssetInv, FlagInv
  <1>9. /\ flag' \in {"undefined", "0", "1"} /\ readAt' \in 1..Len(was)
        /\ kept' \in {NoValue, AssetError} \cup HadSince(readAt')
    BY DEF AssetInv, PageTypeInv
  <1> QED BY <1>4, <1>5, <1>6, <1>7, <1>8, <1>9, OnePageSteps

\* A page that is answered with rows, of the holders there are or an error.
LEMMA RowsSteps ==
  ASSUME AssetInv, NEW r \in PageRequests, page[r].phase = "rows", NEW rows \in Totals,
         page' = [page EXCEPT ![r].phase = "answered", ![r].rows = rows],
         UNCHANGED <<supports, was, flag, kept, readAt, doubt>>,
         rows # AssetError =>
           rows \in {Slice(page[r].start, page[r].limit, n) : n \in Had(page[r])}
                      \cup (IF supports /\ ~doubt THEN {} ELSE Had(page[r]))
  PROVE  AssetInv'
  <1>1. page[r] \in Page /\ Paging(page[r]) BY DEF AssetInv, PageTypeInv
  <1>2. PICK p : p = [page[r] EXCEPT !.phase = "answered", !.rows = rows] OBVIOUS
  <1>3. "answered" \in Phases BY DEF Phases
  <1>4. /\ p \in Page /\ p.phase = "answered" /\ p.rows = rows
        /\ p.total = page[r].total /\ p.start = page[r].start /\ p.limit = page[r].limit
        /\ p.since = page[r].since
    BY <1>1, <1>2, <1>3 DEF Page
  <1>5. page' = [page EXCEPT ![r] = p] BY <1>2 DEF AssetInv, PageTypeInv
  <1>6. Had(p) = Had(page[r]) BY <1>4 DEF Had
  <1>7. Right(p) /\ p.since \in 1..Len(was)
    <2>1. {Slice(p.start, p.limit, n) : n \in Had(p)}
            = {Slice(page[r].start, page[r].limit, n) : n \in Had(page[r])}
      BY <1>4, <1>6
    <2>2. p.total \in Had(p) /\ p.since \in 1..Len(was) BY <1>1, <1>4, <1>6 DEF Paging
    <2> QED BY <1>4, <1>6, <2>1, <2>2 DEF Right
  <1>8. Right(p)' BY <1>4, <1>7, StaysRight DEF AssetInv
  <1>9. Paging(p)' BY <1>4, <1>7 DEF Paging
  <1>10. FlagInv' BY DEF AssetInv, FlagInv
  <1>11. /\ flag' \in {"undefined", "0", "1"} /\ doubt' \in BOOLEAN /\ readAt' \in 1..Len(was)
         /\ kept' \in {NoValue, AssetError} \cup HadSince(readAt')
    BY DEF AssetInv, PageTypeInv
  <1> QED BY <1>4, <1>5, <1>8, <1>9, <1>10, <1>11, OnePageSteps

\* What a node lists of a page is no more than the holders.
LEMMA SliceIsWithin ==
  ASSUME NEW start \in Nat, NEW limit \in Int, NEW n \in Nat
  PROVE  Slice(start, limit, n) \in 0..n
  <1> DEFINE least == Min({limit, n - start})
  <1>1. \E x \in {limit, n - start} : \A y \in {limit, n - start} : x <= y
    <2>1. CASE limit <= n - start BY <2>1
    <2>2. CASE n - start <= limit BY <2>2
    <2> QED BY <2>1, <2>2
  <1>2. least \in Int /\ least <= n
    <2>1. least \in {limit, n - start} /\ least <= n - start BY <1>1 DEF Min
    <2> QED BY <2>1
  <1> HIDE DEF least
  <1>3. \E x \in {0, least} : \A y \in {0, least} : x >= y
    <2>1. CASE least <= 0 BY <1>2, <2>1
    <2>2. CASE least >= 0 BY <1>2, <2>2
    <2> QED BY <1>2, <2>1, <2>2
  <1>4. Max({0, least}) \in {0, least} /\ Max({0, least}) >= 0 BY <1>2, <1>3 DEF Max
  <1>5. Max({0, least}) \in 0..n BY <1>2, <1>4
  <1> QED BY <1>5 DEF Slice, least

\* A page that is asked for: its total is known, or counted the way the flag says.
LEMMA AskSteps ==
  ASSUME AssetInv, NEW r \in PageRequests, NEW start \in PageStarts, NEW limit \in PageLimits,
         AskPage(r, start, limit)
  PROVE  AssetInv'
  <1> DEFINE since == IF kept \in {NoValue, 0} THEN Len(was) ELSE readAt
             asked == [Idle EXCEPT !.start = start, !.limit = limit, !.since = since]
  <1>1. PageTypeInv /\ FlagInv BY DEF AssetInv
  <1>2. start \in Nat /\ limit \in Int BY PagesAssumption
  <1>3. asked \in Page /\ asked.phase = "idle" /\ asked.since = since /\ since \in 1..Len(was)
    <2>1. since \in 1..Len(was) BY <1>1, HoldersThereAre DEF PageTypeInv
    <2>2. since \in Nat BY <1>1, <2>1, HoldersThereAre
    <2> HIDE DEF since
    <2>3. asked \in Page /\ asked.phase = "idle" /\ asked.since = since
      BY <1>2, <2>2, IdleIsPage DEF Page, Idle
    <2> QED BY <2>1, <2>3
  <1>4. UNCHANGED <<supports, was, flag, kept, readAt, doubt>> BY DEF AskPage
  <1>5. FlagInv' BY <1>1, <1>4 DEF FlagInv
  <1>6. /\ flag' \in {"undefined", "0", "1"} /\ doubt' \in BOOLEAN /\ readAt' \in 1..Len(was)
        /\ kept' \in {NoValue, AssetError} \cup HadSince(readAt')
    BY <1>1, <1>4 DEF PageTypeInv
  <1> SUFFICES ASSUME NEW p \in Page, page' = [page EXCEPT ![r] = p],
                      Right(p), p.phase # "fallback", p.since \in 1..Len(was),
                      p.phase = "rows" => p.total \in Had(p) /\ (supports /\ ~doubt => p.paged),
                      p.phase = "list" => flag = "0",
                      p.phase = "count" => flag = "1"
               PROVE  AssetInv'
    <2>1. CASE kept \notin {NoValue, 0}
      <3>1. PICK p : p = Totalled(asked, kept, flag) OBVIOUS
      <3>2. page' = [page EXCEPT ![r] = p] BY <2>1, <3>1 DEF AskPage
      <3>3. since = readAt /\ kept \in {AssetError} \cup HadSince(since) BY <1>1, <2>1 DEF PageTypeInv
      <3> HIDE DEF asked, since
      <3>4. /\ p \in Page /\ Right(p) /\ p.phase \in {"rows", "answered"} /\ p.since = asked.since
            /\ p.phase = "rows" => p.total \in Had(p) /\ p.paged = (flag = "1")
        BY <1>1, <1>3, <3>1, <3>3, TotalledIsRight
      <3>5. supports /\ ~doubt => flag = "1" BY <1>1, <2>1 DEF FlagInv
      <3> QED BY <1>3, <3>2, <3>4, <3>5
    <2>2. ASSUME kept \in {NoValue, 0}, NEW phase \in {"count", "list", "probe"},
                 page' = [page EXCEPT ![r] = [asked EXCEPT !.phase = phase]],
                 phase = "list" => flag = "0", phase = "count" => flag = "1"
          PROVE  AssetInv'
      <3>1. PICK p : p = [asked EXCEPT !.phase = phase] OBVIOUS
      <3> HIDE DEF asked, since
      <3>2. phase \in Phases BY <2>2 DEF Phases
      <3>3. p \in Page /\ p.phase = phase /\ p.since = since BY <1>3, <3>1, <3>2 DEF Page
      <3>4. Right(p) BY <2>2, <3>3 DEF Right
      <3> QED BY <1>3, <2>2, <3>1, <3>3, <3>4
    <2>3. CASE kept \in {NoValue, 0}
      <3>1. flag \in {"undefined", "0", "1"} BY <1>1 DEF PageTypeInv
      <3>2. CASE flag = "1"
        <4>1. page' = [page EXCEPT ![r] = [asked EXCEPT !.phase = "count"]] BY <2>3, <3>2 DEF AskPage
        <4> HIDE DEF asked, since
        <4> QED BY <2>2, <2>3, <3>2, <4>1
      <3>3. CASE flag = "0"
        <4>1. page' = [page EXCEPT ![r] = [asked EXCEPT !.phase = "list"]] BY <2>3, <3>3 DEF AskPage
        <4> HIDE DEF asked, since
        <4> QED BY <2>2, <2>3, <3>3, <4>1
      <3>4. CASE flag = "undefined"
        <4>1. page' = [page EXCEPT ![r] = [asked EXCEPT !.phase = "probe"]] BY <2>3, <3>4 DEF AskPage
        <4> HIDE DEF asked, since
        <4> QED BY <2>2, <2>3, <4>1
      <3> QED BY <3>1, <3>2, <3>3, <3>4
    <2> QED BY <2>1, <2>3
  <1>7. Right(p)' BY <1>1, <1>4, StaysRight
  <1>8. Had(p) = Had(p)' BY <1>4 DEF Had
  <1>9. Paging(p)' BY <1>1, <1>4, <1>8 DEF Paging, FlagInv
  <1> QED BY <1>4, <1>5, <1>6, <1>7, <1>9, OnePageSteps

\* Every step preserves the invariant.
LEMMA AssetSteps == AssetInv /\ [AssetNext]_assetVars => AssetInv'
  <1> SUFFICES ASSUME AssetInv, [AssetNext]_assetVars PROVE AssetInv' OBVIOUS
  <1>1. PageTypeInv /\ FlagInv /\ \A r \in PageRequests : page[r] \in Page /\ Paging(page[r])
    BY DEF AssetInv, PageTypeInv
  <1>2. ASSUME NEW r \in PageRequests, NEW start \in PageStarts, NEW limit \in PageLimits,
               AskPage(r, start, limit)
        PROVE  AssetInv'
    BY <1>2, AskSteps
  <1>3. ASSUME NEW r \in PageRequests, CountAnswers(r) PROVE AssetInv'
    <2>1. supports /\ ~doubt => flag' = "1" BY <1>1, <1>3 DEF CountAnswers, Paging
    <2>2. flag' \in {"undefined", "0", "1"} BY <1>1, <1>3 DEF CountAnswers, PageTypeInv
    <2>3. UNCHANGED <<supports, was, doubt>> BY <1>3 DEF CountAnswers
    <2>4. CASE GotTotal(r, Holders) BY <2>1, <2>2, <2>3, <2>4, TotalSteps
    <2>5. CASE GotTotal(r, AssetError) BY <2>1, <2>2, <2>3, <2>5, TotalSteps
    <2> QED BY <1>3, <2>4, <2>5 DEF CountAnswers
  <1>4. ASSUME NEW r \in PageRequests, ProbeAnswers(r) PROVE AssetInv'
    BY <1>4, TotalSteps DEF ProbeAnswers
  <1>5. ASSUME NEW r \in PageRequests, ProbeRefused(r) PROVE AssetInv'
    <2>1. doubt' \in BOOLEAN /\ (doubt => doubt') /\ (supports => doubt')
      BY <1>1, <1>5 DEF ProbeRefused, PageTypeInv
    <2> QED BY <1>5, <2>1, PhaseSteps DEF ProbeRefused
  <1>6. ASSUME NEW r \in PageRequests, HoldersAnswer(r) PROVE AssetInv'
    <2>1. flag' \in {"undefined", "0", "1"} BY <1>1, <1>6 DEF HoldersAnswer, PageTypeInv
    <2>2. supports /\ ~doubt => flag' = "1" BY <1>1, <1>6 DEF HoldersAnswer, Paging
    <2> QED BY <1>6, <2>1, <2>2, TotalSteps DEF HoldersAnswer
  <1>7. ASSUME NEW r \in PageRequests, HoldersFail(r) PROVE AssetInv'
    <2>1. doubt' \in BOOLEAN BY <1>1, <1>7 DEF HoldersFail, PageTypeInv
    <2> QED BY <1>7, <2>1, PhaseSteps DEF HoldersFail
  <1>8. ASSUME NEW r \in PageRequests, RowsAnswer(r) PROVE AssetInv'
    <2>1. PICK rows : rows = IF ~page[r].paged THEN Holders
                             ELSE IF supports THEN Slice(page[r].start, page[r].limit, Holders)
                             ELSE AssetError
      OBVIOUS
    <2>2. page' = [page EXCEPT ![r].phase = "answered", ![r].rows = rows] BY <1>8, <2>1 DEF RowsAnswer
    <2>3. Holders \in 0..MaxHolders /\ Holders \in Nat /\ Holders \in Had(page[r])
      BY <1>1, HoldersThereAre DEF Paging, Had, HadSince
    <2>4. page[r].start \in Nat /\ page[r].limit \in Int BY <1>1 DEF Page
    <2>5. Slice(page[r].start, page[r].limit, Holders) \in 0..Holders BY <2>3, <2>4, SliceIsWithin
    <2>6. rows \in Totals BY <2>1, <2>3, <2>5, PagesAssumption DEF Totals
    <2>7. supports /\ ~doubt => page[r].paged BY <1>1, <1>8 DEF RowsAnswer, Paging
    <2>8. rows # AssetError =>
            rows \in {Slice(page[r].start, page[r].limit, n) : n \in Had(page[r])}
                       \cup (IF supports /\ ~doubt THEN {} ELSE Had(page[r]))
      BY <2>1, <2>3, <2>7
    <2> QED BY <1>8, <2>2, <2>6, <2>8, RowsSteps DEF RowsAnswer
  <1>9. ASSUME NEW r \in PageRequests, RowsRefused(r) PROVE AssetInv'
    <2>1. AssetError \in Totals BY DEF Totals
    <2> QED BY <1>9, <2>1, RowsSteps DEF RowsRefused
  <1>10. ASSUME NEW r \in PageRequests, CallFails(r) PROVE AssetInv'
    <2>1. doubt' \in BOOLEAN BY <1>1, <1>10 DEF CallFails, PageTypeInv
    <2> QED BY <1>10, <2>1, PhaseSteps DEF CallFails
  <1>11. CASE CountExpires
    <2>1. PageTypeInv' BY <1>1, <1>11 DEF CountExpires, PageTypeInv, HadSince
    <2>2. FlagInv' BY <1>1, <1>11 DEF CountExpires, FlagInv
    <2>3. ASSUME NEW r \in PageRequests PROVE Right(page[r])' /\ Paging(page[r])'
      <3>1. PICK p : p = page[r] OBVIOUS
      <3>2. page'[r] = p /\ Right(p) /\ Paging(p) BY <1>11, <3>1 DEF CountExpires, AssetInv
      <3>3. Right(p)' /\ Paging(p)' BY <1>1, <1>11, <3>2, StaysOnItsWay DEF CountExpires, PageTypeInv
      <3> QED BY <3>2, <3>3 DEF Right, Paging, Slice, Had
    <2> QED BY <2>1, <2>2, <2>3 DEF AssetInv
  <1>12. CASE AssetRestart
    <2>1. PageTypeInv' BY <1>1, <1>12, IdleIsPage DEF AssetRestart, PageTypeInv, HadSince
    <2>2. FlagInv' BY <1>12 DEF AssetRestart, FlagInv
    <2>3. 1 \in 1..Len(was) BY <1>1, HoldersThereAre
    <2>4. \A r \in PageRequests : page'[r].phase = "idle" /\ page'[r].since = 1
      BY <1>12 DEF AssetRestart, Idle
    <2>5. Len(was)' = Len(was) BY <1>12 DEF AssetRestart
    <2>6. \A r \in PageRequests : Right(page[r])' /\ Paging(page[r])'
      BY <2>3, <2>4, <2>5 DEF Right, Paging
    <2> QED BY <2>1, <2>2, <2>6 DEF AssetInv
  <1>13. CASE UNCHANGED assetVars
    <2>1. UNCHANGED <<supports, was, flag, kept, readAt, page, doubt>> BY <1>13 DEF assetVars
    <2>2. PageTypeInv' BY <1>1, <2>1 DEF PageTypeInv, HadSince
    <2>3. FlagInv' BY <1>1, <2>1 DEF FlagInv
    <2>4. ASSUME NEW r \in PageRequests PROVE Right(page[r])' /\ Paging(page[r])'
      <3>1. PICK p : p = page[r] OBVIOUS
      <3>2. page'[r] = p /\ Right(p) /\ Paging(p) BY <2>1, <3>1 DEF AssetInv
      <3>3. Right(p)' /\ Paging(p)' BY <1>1, <2>1, <3>2, StaysOnItsWay DEF PageTypeInv
      <3> QED BY <3>2, <3>3 DEF Right, Paging, Slice, Had
    <2> QED BY <2>2, <2>3, <2>4 DEF AssetInv
  <1>14. CASE HoldersChange
    <2>1. /\ \E n \in 0..MaxHolders : was' = Append(was, n)
          /\ UNCHANGED <<supports, flag, kept, readAt, page, doubt>>
      BY <1>14 DEF HoldersChange
    <2>2. \A r \in PageRequests : page[r].since \in 1..Len(was) /\ Right(page[r]) BY DEF AssetInv, Paging
    <2>3. ASSUME NEW p \in Page, p.since \in 1..Len(was)
          PROVE  /\ Had(p) \subseteq Had(p)' /\ Len(was) <= Len(was)' /\ was' \in Seq(0..MaxHolders)
                 /\ \A n \in 1..Len(was) : HadSince(n) \subseteq HadSince(n)'
      BY <1>1, <2>1, <2>3, HadGrows
    <2>4. /\ was' \in Seq(0..MaxHolders) /\ Len(was) <= Len(was)'
          /\ \A n \in 1..Len(was) : HadSince(n) \subseteq HadSince(n)'
      <3>1. PICK p : p = Idle OBVIOUS
      <3>2. p \in Page /\ p.since = 1 BY <3>1, IdleIsPage DEF Idle
      <3>3. 1 \in 1..Len(was) BY <1>1, HoldersThereAre
      <3> QED BY <2>3, <3>2, <3>3
    <2>5. readAt' \in 1..Len(was)' /\ kept' \in {NoValue, AssetError} \cup HadSince(readAt)'
      <3>1. readAt \in 1..Len(was) /\ kept \in {NoValue, AssetError} \cup HadSince(readAt)
        BY <1>1 DEF PageTypeInv
      <3>2. Len(was) \in Nat /\ Len(was)' \in Nat BY <1>1, <2>4 DEF PageTypeInv
      <3> QED BY <2>1, <2>4, <3>1, <3>2
    <2>6. PageTypeInv' BY <1>1, <2>1, <2>4, <2>5 DEF PageTypeInv
    <2>7. FlagInv' BY <1>1, <2>1 DEF FlagInv
    <2>8. ASSUME NEW r \in PageRequests PROVE Right(page[r])' /\ Paging(page[r])'
      <3>1. PICK p : p = page[r] OBVIOUS
      <3>2. p \in Page /\ p.since \in 1..Len(was) /\ Right(p) /\ Paging(p) /\ page'[r] = p
        BY <1>1, <2>1, <2>2, <3>1
      <3>3. Right(p)' BY <1>1, <2>1, <3>2, StaysRight
      <3>4. Had(p) \subseteq Had(p)' BY <2>3, <3>2
      <3>5. Len(was) \in Nat /\ Len(was)' \in Nat BY <1>1, <2>4 DEF PageTypeInv
      <3>6. Paging(p)' BY <2>1, <2>4, <3>2, <3>4, <3>5 DEF Paging
      <3> QED BY <3>2, <3>3, <3>6 DEF Right, Paging, Slice, Had
    <2> QED BY <2>6, <2>7, <2>8 DEF AssetInv
  <1> QED
    BY <1>2, <1>3, <1>4, <1>5, <1>6, <1>7, <1>8, <1>9, <1>10, <1>11, <1>12, <1>13, <1>14 DEF AssetNext

\* A page holds the rows it was asked for of a node that counts, whoever found that out first,
\* unless a probe was refused or the process restarted; its total and its rows are of the holders
\* there have been since it was asked for, or since the kept count was read (rpcApi.js, getTotalAssetAddresses; restfulRouter.js, getAssetAddresses).
THEOREM PagesAreSlices == AssetSpec => []PageIsSlice
  <1>1. AssetInv => PageIsSlice BY DEF AssetInv, Right, PageIsSlice
  <1> QED BY <1>1, AssetInitially, AssetSteps, PTL DEF AssetSpec

\* Every variable of the asset pages keeps its type; no total and no page exceeds the holders there
\* may be.
THEOREM AssetPagesAreTyped == AssetSpec => []AssetTypeOK
  <1>1. ASSUME AssetInv PROVE AssetTypeOK
    <2>1. \A r \in PageRequests : page[r] \in Page BY <1>1 DEF AssetInv, PageTypeInv
    <2>2. \A p \in Page : p.phase \in Phases /\ p.total \in Totals /\ p.rows \in Totals BY DEF Page
    <2>3. PageTypeInv BY <1>1 DEF AssetInv
    <2>4. kept \in {NoValue, AssetError} \cup 0..MaxHolders BY <2>3, HoldersThereAre DEF PageTypeInv
    <2>5. \A r \in PageRequests : page[r].since \in 1..Len(was) BY <1>1 DEF AssetInv, Paging
    <2> QED BY <2>1, <2>2, <2>3, <2>4, <2>5 DEF AssetTypeOK, PageTypeInv, Phases, Totals
  <1> QED BY <1>1, AssetInitially, AssetSteps, PTL DEF AssetSpec
===============================================================================
