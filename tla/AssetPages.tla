------------------------------- MODULE AssetPages -------------------------------
(***************************************************************************)
(* The pages of an asset's holders: RestfulRouter.getAssetAddresses over   *)
(* the count and the rows of rpcApi.js. Some nodes count and page, others  *)
(* answer such a call with an error; HAS_COUNT_MAP remembers which, and is *)
(* found out by whoever asks first. It is lost in a restart, while a count *)
(* that redis keeps is not. The holders change while a count is kept, and  *)
(* between the count and the rows of a page.                               *)
(*                                                                         *)
(* A page that was answered is kept as well, and read again as it was;     *)
(* that, and the text of addresses and balances, is left out.              *)
(***************************************************************************)
EXTENDS Integers, Sequences, FiniteSets, FiniteSetsExt

CONSTANTS PageRequests,
          MaxHolders,      \* bound on the number of holders
          MaxChanges,      \* bound on how often it changes
          PageStarts, PageLimits, \* what a page is asked for
          AssetError, NoValue

ASSUME PagesAssumption ==
  /\ MaxHolders \in Nat /\ MaxChanges \in Nat /\ PageStarts \subseteq Nat /\ PageLimits \subseteq Int
  /\ AssetError \notin Nat /\ NoValue \notin Nat

VARIABLES supports, \* whether the node counts and pages
          was,      \* how many addresses have held the asset, the last is how many do
          flag,     \* HAS_COUNT_MAP.listaddressesbyasset
          kept,     \* the count in assetsCache
          readAt,   \* history: the place in was when the kept count was read
          page,     \* each request: where it is, what it asked for and got, the oldest place it saw
          doubt     \* history: a probe was refused by a node that counts, or the process restarted

assetVars == <<supports, was, flag, kept, readAt, page, doubt>>

Holders == was[Len(was)]

Idle ==
  [phase |-> "idle", start |-> 0, limit |-> 0, paged |-> FALSE, since |-> 1, total |-> NoValue, rows |-> NoValue]

\* What the node lists of a page of n holders.
Slice(start, limit, n) == Max({0, Min({limit, n - start})})

AssetInit ==
  /\ supports \in BOOLEAN /\ was \in {<<n>> : n \in 0..MaxHolders}
  /\ flag = "undefined" /\ kept = NoValue /\ readAt = 1 /\ doubt = FALSE
  /\ page = [r \in PageRequests |-> Idle]

\* getAssetAddresses goes on with the total: none for an error, which is greater than nothing.
Totalled(asked, total, counts) ==
  LET limit == IF asked.limit < 0 /\ total # AssetError THEN total ELSE asked.limit IN
  IF total # AssetError /\ total > 0
  THEN [asked EXCEPT !.phase = "rows", !.total = total, !.limit = limit, !.paged = (counts = "1")]
  ELSE [asked EXCEPT !.phase = "answered", !.total = total, !.rows = 0, !.limit = limit]

\* A count that is kept answers, unless it is 0.
AskPage(r, start, limit) ==
  LET asked == [Idle EXCEPT !.start = start, !.limit = limit,
                            !.since = IF kept \in {NoValue, 0} THEN Len(was) ELSE readAt] IN
  /\ page[r].phase = "idle"
  /\ page' = [page EXCEPT ![r] =
       CASE kept \notin {NoValue, 0} -> Totalled(asked, kept, flag)
         [] kept \in {NoValue, 0} /\ flag = "1" -> [asked EXCEPT !.phase = "count"]
         [] kept \in {NoValue, 0} /\ flag = "0" -> [asked EXCEPT !.phase = "list"]
         [] OTHER -> [asked EXCEPT !.phase = "probe"]]
  /\ UNCHANGED <<supports, was, flag, kept, readAt, doubt>>

\* Resolves the count, an error as well, and keeps it.
GotTotal(r, total) ==
  /\ kept' = total /\ readAt' = Len(was)
  /\ page' = [page EXCEPT ![r] = Totalled(@, total, flag')]

CountAnswers(r) ==
  /\ page[r].phase = "count"
  /\ UNCHANGED <<supports, was, flag, doubt>>
  /\ GotTotal(r, Holders) \/ GotTotal(r, AssetError)

\* Bug: the answer is used and the flag stays undefined.
ProbeAnswersUnnoted(r) ==
  /\ page[r].phase = "probe" /\ supports
  /\ UNCHANGED <<supports, was, flag, doubt>>
  /\ GotTotal(r, Holders)

\* The first count: the node counts.
ProbeAnswers(r) ==
  /\ page[r].phase = "probe" /\ supports
  /\ flag' = "1"
  /\ UNCHANGED <<supports, was, doubt>>
  /\ GotTotal(r, Holders)

\* The node does not count, or refuses for another reason; the whole list is asked for.
ProbeRefused(r) ==
  /\ page[r].phase = "probe"
  /\ doubt' = (doubt \/ supports)
  /\ page' = [page EXCEPT ![r].phase = "fallback"]
  /\ UNCHANGED <<supports, was, flag, kept, readAt>>

\* The list is counted here; it shows that the node does not count if it was asked for after a probe.
HoldersAnswer(r) ==
  /\ page[r].phase \in {"fallback", "list"}
  /\ flag' = IF page[r].phase = "fallback" THEN "0" ELSE flag
  /\ UNCHANGED <<supports, was, doubt>>
  /\ GotTotal(r, Holders)

\* An error of the node rejects, a call that is rejected leaves countRPC waiting for ever.
HoldersFail(r) ==
  /\ page[r].phase \in {"fallback", "list"}
  /\ \E phase \in {"rejected", "forgotten"} : page' = [page EXCEPT ![r].phase = phase]
  /\ UNCHANGED <<supports, was, flag, kept, readAt, doubt>>

RowsAnswer(r) ==
  /\ page[r].phase = "rows"
  /\ page' = [page EXCEPT ![r].phase = "answered",
                ![r].rows = IF ~page[r].paged THEN Holders
                            ELSE IF supports THEN Slice(page[r].start, page[r].limit, Holders)
                            ELSE AssetError]
  /\ UNCHANGED <<supports, was, flag, kept, readAt, doubt>>

\* The keys of an error are taken for addresses.
RowsRefused(r) ==
  /\ page[r].phase = "rows"
  /\ page' = [page EXCEPT ![r].phase = "answered", ![r].rows = AssetError]
  /\ UNCHANGED <<supports, was, flag, kept, readAt, doubt>>

CallFails(r) ==
  /\ page[r].phase \in {"count", "probe", "rows"}
  /\ page' = [page EXCEPT ![r].phase = "rejected"]
  /\ UNCHANGED <<supports, was, flag, kept, readAt, doubt>>

\* The chain moves on.
HoldersChange ==
  /\ Len(was) <= MaxChanges
  /\ \E n \in 0..MaxHolders : was' = Append(was, n)
  /\ UNCHANGED <<supports, flag, kept, readAt, page, doubt>>

\* The count grows old, or is evicted.
CountExpires ==
  /\ kept # NoValue
  /\ kept' = NoValue
  /\ UNCHANGED <<supports, was, flag, readAt, page, doubt>>

\* redis keeps the count; an in-memory cache is lost as well.
AssetRestart ==
  /\ flag' = "undefined"
  /\ kept' \in {kept, NoValue}
  /\ page' = [r \in PageRequests |-> Idle]
  /\ doubt' = TRUE
  /\ UNCHANGED <<supports, was, readAt>>

AssetNext ==
  \/ \E r \in PageRequests :
       \/ \E start \in PageStarts, limit \in PageLimits : AskPage(r, start, limit)
       \/ CountAnswers(r) \/ ProbeAnswers(r) \/ ProbeRefused(r) \/ HoldersAnswer(r) \/ HoldersFail(r)
       \/ RowsAnswer(r) \/ RowsRefused(r) \/ CallFails(r)
  \/ HoldersChange \/ CountExpires \/ AssetRestart

AssetSpec == AssetInit /\ [][AssetNext]_assetVars

-----------------------------------------------------------------------------
(* Properties *)

AssetTypeOK ==
  /\ supports \in BOOLEAN /\ was \in Seq(0..MaxHolders) /\ doubt \in BOOLEAN
  /\ readAt \in 1..Len(was)
  /\ flag \in {"undefined", "0", "1"}
  /\ kept \in {NoValue, AssetError} \cup 0..MaxHolders
  /\ \A r \in PageRequests :
       /\ page[r].phase \in {"idle", "count", "probe", "fallback", "list", "rows", "answered",
                             "rejected", "forgotten"}
       /\ page[r].since \in 1..Len(was)
       /\ page[r].total \in {NoValue, AssetError} \cup 0..MaxHolders
       /\ page[r].rows \in {NoValue, AssetError} \cup 0..MaxHolders

\* How many holders there have been since the page was asked for, or since the count it was given
\* was read.
Had(p) == {was[n] : n \in p.since..Len(was)}

\* A page holds the rows it was asked for of a node that counts, whoever found that out first,
\* unless a probe was refused or the process restarted; otherwise it may hold all of them. Its
\* total and its rows are of the holders there have been since it was asked for, or since the kept
\* count was read: not always of the same ones. Errors of the node excepted (rpcApi.js,
\* getTotalAssetAddresses and getAssetAddresses; restfulRouter.js, getAssetAddresses).
PageIsSlice ==
  \A r \in PageRequests :
    page[r].phase = "answered" /\ page[r].total # AssetError =>
      /\ page[r].total \in Had(page[r])
      /\ page[r].rows # AssetError =>
           page[r].rows \in {Slice(page[r].start, page[r].limit, n) : n \in Had(page[r])}
                              \cup (IF supports /\ ~doubt THEN {} ELSE Had(page[r]))
===============================================================================
