------------------------------ MODULE AddressSync ------------------------------
(***************************************************************************)
(* The addresses and balances BlockchainSync keeps in a database: each new *)
(* block starts a sync, which scans the blocks since the last one window   *)
(* by window, saves every address an output paid to with its balance at    *)
(* the tip, and then how far it came. app.js does not create it at present.*)
(*                                                                         *)
(* The flag syncing is tested when a sync begins, and set two answers      *)
(* later. A database call that fails never calls back. Blocks below the    *)
(* tip do not change here, and addresses only receive. The batches of one  *)
(* window are one answer of the node.                                      *)
(***************************************************************************)
EXTENDS Integers, Sequences, FiniteSets, FiniteSetsExt

CONSTANTS Syncs,     \* calls of syncAddressBalance that may be under way
          Receivers, \* the addresses each block pays to, from the first block on
          WindowSize,    \* 500 blocks
          FirstHeight, MaxHeight, \* bounds on the chain
          None

ASSUME SyncAssumption ==
  /\ WindowSize \in Nat \ {0}
  /\ FirstHeight \in Nat /\ MaxHeight \in Nat /\ FirstHeight <= MaxHeight
  /\ DOMAIN Receivers = 0..MaxHeight

VARIABLES height,  \* of the chain
          syncing, \* BlockchainSync.syncing
          sync,    \* each call: where it is, its window, what it has to save
          wallets, \* the collection of addresses, as it was inserted
          tracker, \* the block of the record of type "block", if there is one
          raced, hung \* history: two syncs met, a call never came back

syncVars == <<height, syncing, sync, wallets, tracker, raced, hung>>
syncHistory == <<raced, hung>>
database == <<wallets, tracker>>

NoSync == [pc |-> "idle", from |-> 0, end |-> 0, until |-> 0, todo |-> {}, now |-> None, found |-> FALSE]
Scanning == {"recount", "scan", "find", "write", "findTracker", "writeTracker"}

Balance(a, upTo) == Cardinality({h \in 0..upTo : a \in Receivers[h]})
Records(a) == {n \in 1..Len(wallets) : wallets[n].address = a}

SyncInit ==
  /\ height = FirstHeight /\ syncing = FALSE
  /\ sync = [p \in Syncs |-> NoSync]
  /\ wallets = <<>> /\ tracker = None
  /\ raced = FALSE /\ hung = FALSE

NewBlock ==
  /\ height < MaxHeight
  /\ height' = height + 1
  /\ UNCHANGED <<syncing, sync, wallets, tracker, syncHistory>>

\* A block has arrived, or the explorer started; while syncing the call resolves at once.
Begin(p) ==
  /\ sync[p].pc = "idle" /\ ~syncing
  /\ sync' = [sync EXCEPT ![p] = [NoSync EXCEPT !.pc = "height"]]
  /\ UNCHANGED <<height, syncing, database, syncHistory>>

HeightAnswers(p) ==
  /\ sync[p].pc = "height"
  /\ sync' = [sync EXCEPT ![p].pc = "last", ![p].until = height]
  /\ UNCHANGED <<height, syncing, database, syncHistory>>

\* getBlockCount has no catch.
HeightFails(p) ==
  /\ sync[p].pc = "height"
  /\ sync' = [sync EXCEPT ![p].pc = "forgotten"]
  /\ UNCHANGED <<height, syncing, database, syncHistory>>

\* The head of the loop: the last window is up to the height of its own time.
Windowed(s, from) ==
  IF from >= s.until THEN NoSync
  ELSE [s EXCEPT !.from = from, !.end = from + WindowSize,
                 !.pc = IF from + WindowSize > s.until THEN "recount" ELSE "scan"]

\* The last block is read; an error of the database reads as none, and the scan begins at 0.
LastAnswers(p) ==
  /\ sync[p].pc = "last"
  /\ \E last \in {IF tracker = None THEN 0 ELSE tracker, 0} :
       IF sync[p].until <= last
       THEN syncing' = FALSE /\ sync' = [sync EXCEPT ![p] = NoSync] /\ UNCHANGED raced
       ELSE /\ sync' = [sync EXCEPT ![p] = Windowed(@, last)]
            /\ syncing' = TRUE
            /\ raced' = (raced \/ \E q \in Syncs \ {p} : sync[q].pc \in Scanning)
  /\ UNCHANGED <<height, database, hung>>

RecountAnswers(p) ==
  /\ sync[p].pc = "recount"
  /\ sync' = [sync EXCEPT ![p].pc = "scan", ![p].until = height, ![p].end = height]
  /\ UNCHANGED <<height, syncing, database, syncHistory>>

\* The blocks of a window.
WindowOf(from, end) == from..(end - 1)

\* Bug: the balances are those at the end of the window.
ScanAnswersAsOf(p) ==
  /\ sync[p].pc = "scan"
  /\ LET paid == UNION {Receivers[h] : h \in WindowOf(sync[p].from, sync[p].end)} IN
     sync' = [sync EXCEPT ![p].pc = IF paid = {} THEN "findTracker" ELSE "find",
                ![p].todo = {[address |-> a, balance |-> Balance(a, sync[p].end - 1)] : a \in paid}]
  /\ UNCHANGED <<height, syncing, database, syncHistory>>

\* The addresses of the window and their balances; one error in a batch rejects it.
ScanAnswers(p) ==
  /\ sync[p].pc = "scan"
  /\ LET paid == UNION {Receivers[h] : h \in WindowOf(sync[p].from, sync[p].end)} IN
     sync' = [sync EXCEPT ![p].pc = IF paid = {} THEN "findTracker" ELSE "find",
                ![p].todo = {[address |-> a, balance |-> Balance(a, height)] : a \in paid}]
  /\ UNCHANGED <<height, syncing, database, syncHistory>>

\* The error is caught, and the flag cleared.
NodeFails(p) ==
  /\ sync[p].pc \in {"recount", "scan"}
  /\ sync' = [sync EXCEPT ![p] = NoSync]
  /\ syncing' = FALSE
  /\ UNCHANGED <<height, database, syncHistory>>

\* genericSaveUpdate: looks for the record, and then inserts or updates.
Find(p, wallet) ==
  /\ sync[p].pc = "find" /\ wallet \in sync[p].todo
  /\ sync' = [sync EXCEPT ![p].pc = "write", ![p].now = wallet, ![p].todo = @ \ {wallet},
                          ![p].found = Records(wallet.address) # {}]
  /\ UNCHANGED <<height, syncing, database, syncHistory>>

Write(p) ==
  /\ sync[p].pc = "write"
  /\ LET wallet == sync[p].now IN
     wallets' = IF sync[p].found
                THEN [wallets EXCEPT ![Min(Records(wallet.address))].balance = wallet.balance]
                ELSE Append(wallets, wallet)
  /\ sync' = [sync EXCEPT ![p].pc = IF sync[p].todo = {} THEN "findTracker" ELSE "find", ![p].now = None]
  /\ UNCHANGED <<height, syncing, tracker, syncHistory>>

\* Bug: how far the sync came is what it set out for.
FindTrackerUntil(p) ==
  /\ sync[p].pc = "findTracker"
  /\ sync' = [sync EXCEPT ![p].pc = "writeTracker", ![p].found = tracker # None, ![p].end = sync[p].until]
  /\ UNCHANGED <<height, syncing, database, syncHistory>>

FindTracker(p) ==
  /\ sync[p].pc = "findTracker"
  /\ sync' = [sync EXCEPT ![p].pc = "writeTracker", ![p].found = tracker # None]
  /\ UNCHANGED <<height, syncing, database, syncHistory>>

\* Bug: the flag is left to the next sync.
WriteTrackerKeepsFlag(p) ==
  /\ sync[p].pc = "writeTracker" /\ (sync[p].found \/ tracker = None)
  /\ tracker' = sync[p].end
  /\ sync' = [sync EXCEPT ![p] = Windowed(@, sync[p].end)]
  /\ UNCHANGED <<height, syncing, wallets, syncHistory>>

\* Records of one type are unique: a second insert is an error.
WriteTracker(p) ==
  /\ sync[p].pc = "writeTracker" /\ (sync[p].found \/ tracker = None)
  /\ tracker' = sync[p].end
  /\ sync' = [sync EXCEPT ![p] = Windowed(@, sync[p].end)]
  /\ syncing' = (syncing /\ sync'[p].pc # "idle")
  /\ UNCHANGED <<height, wallets, syncHistory>>

\* save, updateOne and query call back only when they succeed.
DatabaseFails(p) ==
  /\ sync[p].pc \in {"find", "write", "findTracker", "writeTracker"}
  /\ sync' = [sync EXCEPT ![p] = [NoSync EXCEPT !.pc = "forgotten"]]
  /\ hung' = TRUE
  /\ UNCHANGED <<height, syncing, database, raced>>

SyncRestart ==
  /\ syncing' = FALSE
  /\ sync' = [p \in Syncs |-> NoSync]
  /\ hung' = FALSE
  /\ UNCHANGED <<height, database, raced>>

SyncStep(p) ==
  \/ HeightAnswers(p) \/ HeightFails(p) \/ LastAnswers(p) \/ RecountAnswers(p)
  \/ ScanAnswers(p) \/ NodeFails(p)
  \/ \E wallet \in sync[p].todo : Find(p, wallet)
  \/ Write(p) \/ FindTracker(p) \/ WriteTracker(p) \/ DatabaseFails(p)

SyncNext == NewBlock \/ (\E p \in Syncs : Begin(p) \/ SyncStep(p)) \/ SyncRestart

\* The node and the database answer every call, or fail it.
SyncSpec == SyncInit /\ [][SyncNext]_syncVars /\ \A p \in Syncs : WF_syncVars(SyncStep(p))

-----------------------------------------------------------------------------
(* Properties *)

SyncTypeOK ==
  /\ height \in FirstHeight..MaxHeight /\ syncing \in BOOLEAN
  /\ tracker \in {None} \cup 0..MaxHeight
  /\ \A p \in Syncs : sync[p].pc \in Scanning \cup {"idle", "height", "last", "forgotten"}
  /\ \A n \in 1..Len(wallets) : wallets[n].balance \in 0..(MaxHeight + 1)

\* Every address a block below the tracker paid to is in the database, whatever failed, and in
\* whatever order syncs met. Unless two syncs met it is there once, with what it had received
\* below the tracker at the least, restarts in between two writes included (sync.js,
\* syncAddressBalance; mongodb.js, saveWallets).
ReceiversAreSaved ==
  tracker # None =>
    \A a \in UNION {Receivers[h] : h \in 0..(tracker - 1)} :
      /\ Records(a) # {}
      /\ ~raced => /\ Cardinality(Records(a)) = 1
                  /\ \A n \in Records(a) : wallets[n].balance >= Balance(a, tracker - 1)

\* A record stays that of its address, and unless two syncs met its balance is never replaced by an
\* older one: not by a window that is scanned again, nor by what a restart interrupted (sync.js,
\* syncAddressBalance; mongodb.js, genericSaveUpdate).
RecordsOnlyGrow ==
  [][\A n \in 1..Len(wallets) :
       /\ n <= Len(wallets') /\ wallets'[n].address = wallets[n].address
       /\ raced' \/ wallets'[n].balance >= wallets[n].balance]_syncVars

\* The flag is cleared again, unless a call of the database never came back; then no sync ever
\* begins again until the explorer restarts (sync.js, syncing).
SyncEnds == syncing ~> (~syncing \/ hung)
===============================================================================
