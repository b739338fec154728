----------------------------- MODULE MempoolStats -----------------------------
(***************************************************************************)
(* The mempool summary: rpcApi.getRawMempool lists the mempool and then    *)
(* asks for each transaction, coreApi.getMempoolStats sums up what it got. *)
(* The node's mempool goes on changing meanwhile.                          *)
(*                                                                         *)
(* An answer to getmempoolentry is resolved also when it is an RpcError,   *)
(* which has no fee, size or time: sums it enters are NaN, and an index    *)
(* made of it counts in no bucket.                                         *)
(*                                                                         *)
(* Fees are in satoshi; rates and shares are compared without division.    *)
(* Averages, labels and the order of ages and sizes are left out.          *)
(***************************************************************************)
EXTENDS Integers, FiniteSets, Sequences, FiniteSetsExt, Functions

CONSTANTS Txids, Fees, Sizes, \* the transactions there may be
          Maxima,      \* feeSatoshiPerByteBucketMaxima
          AgeBuckets, SizeBuckets, \* a hundred each
          LargeSize,   \* 2000 bytes
          Tiny,        \* below 1/Tiny, a millionth, a number prints with an exponent
          Skews,       \* how far the node's clock may be ahead
          MaxTime,     \* bound on the clock
          NaN

ASSUME MaximaAssumption ==
  /\ Maxima \in Seq(Nat \ {0}) /\ Maxima # <<>>
  /\ \A i, j \in 1..Len(Maxima) : i < j => Maxima[i] < Maxima[j]
ASSUME BucketsAssumption == {AgeBuckets, SizeBuckets, LargeSize, Tiny} \subseteq Nat \ {0}
ASSUME PoolAssumption ==
  /\ IsFiniteSet(Txids) /\ Fees \subseteq Nat /\ Sizes \subseteq Nat
  /\ Skews \subseteq Int /\ MaxTime \in Nat /\ NaN \notin Int

VARIABLES tx,      \* fee and size of each transaction
          pool,    \* when, by the node's clock, each transaction of the mempool entered it
          now, skew, \* the clock of the explorer, and how far the node's is ahead
          results, \* what each listed transaction was answered with
          summary, \* what getMempoolStats resolved with, and when
          left     \* history: whether a transaction left the mempool after the list

mempoolVars == <<tx, pool, now, skew, results, summary, left>>

Waiting == [kind |-> "waiting"]
Null == [kind |-> "null"]
Error == [kind |-> "error"]
NoSummary == [at |-> NaN]

Result(t) == [kind |-> "entry", fee |-> tx[t].fee, size |-> tx[t].size, time |-> pool[t]]

-----------------------------------------------------------------------------
(* getMempoolStats *)

\* finalResult leaves out what was resolved with null.
Kept == {t \in DOMAIN results : results[t] # Null}
Entries == {t \in Kept : results[t].kind = "entry"}

TotalFees(S) ==
  IF S \subseteq Entries THEN SumFunction([t \in S |-> results[t].fee]) ELSE NaN
TotalBytes(S) ==
  IF S \subseteq Entries THEN SumFunction([t \in S |-> results[t].size]) ELSE NaN

\* The first maximum above the rate; NaN is below none.
FeeBucket(t) ==
  LET above == {i \in 1..Len(Maxima) : t \in Entries /\ Maxima[i] * results[t].size > results[t].fee}
  IN IF above = {} THEN Len(Maxima) + 1 ELSE Min(above)

\* What is larger counts in the last bucket.
SizeIndex(t) ==
  IF t \in Entries
  THEN Min({SizeBuckets - 1, (results[t].size * SizeBuckets) \div LargeSize})
  ELSE NaN

\* parseInt(n / d) reads the text of the number: of 5e-7 it reads 5.
Parsed(n, d) ==
  IF n > 0 /\ n * Tiny < d THEN 1..9
  ELSE IF n < 0 /\ -n * Tiny < d THEN -9..-1
  ELSE IF n < 0 THEN {-((-n) \div d)} ELSE {n \div d}

Age(t, at) == at - results[t].time
MaxAge(at) == Max({0} \cup {Age(t, at) : t \in Entries})

\* Bug: the oldest transaction is beyond the last bucket.
AgeIndexesOpen(t, at, oldest) ==
  IF t \in Entries /\ oldest > 0 THEN Parsed(Age(t, at) * AgeBuckets, oldest) ELSE {NaN}

\* Where the age counts: nowhere if nothing is older than now.
AgeIndexes(t, at, oldest) ==
  IF t \in Entries /\ oldest > 0
  THEN {Min({AgeBuckets - 1, i}) : i \in Parsed(Age(t, at) * AgeBuckets, oldest)}
  ELSE {NaN}

Bucket(S) == [count |-> Cardinality(S), totalFees |-> TotalFees(S), totalBytes |-> TotalBytes(S)]

-----------------------------------------------------------------------------
MempoolInit ==
  /\ tx \in [Txids -> [fee : Fees, size : Sizes]]
  /\ skew \in Skews
  /\ pool = [t \in {} |-> 0]
  /\ now = 0
  /\ results = [t \in {} |-> Null]
  /\ summary = NoSummary
  /\ left = FALSE

Enters(t) ==
  /\ t \notin DOMAIN pool
  /\ pool' = [u \in DOMAIN pool \cup {t} |-> IF u = t THEN now + skew ELSE pool[u]]
  /\ UNCHANGED <<tx, now, skew, results, summary, left>>

\* Mined, replaced or expired.
Leaves(t) ==
  /\ t \in DOMAIN pool
  /\ pool' = [u \in DOMAIN pool \ {t} |-> pool[u]]
  /\ left' = TRUE
  /\ UNCHANGED <<tx, now, skew, results, summary>>

Tick ==
  /\ now < MaxTime
  /\ now' = now + 1
  /\ UNCHANGED <<tx, pool, skew, results, summary, left>>

\* Bug: the first answer will do.
GatheredAny == results = [t \in {} |-> Null] \/ \E t \in DOMAIN results : results[t] # Waiting

\* Promise.all over the entries.
Gathered == \A t \in DOMAIN results : results[t] # Waiting

\* What was kept is too old: getrawmempool is asked again.
List ==
  /\ Gathered
  /\ results' = [t \in DOMAIN pool |-> Waiting]
  /\ summary' = NoSummary
  /\ left' = FALSE
  /\ UNCHANGED <<tx, pool, now, skew>>

AnswersEntry(t) ==
  /\ t \in DOMAIN results /\ results[t] = Waiting
  /\ results' = [results EXCEPT ![t] = IF t \in DOMAIN pool THEN Result(t) ELSE Error]
  /\ UNCHANGED <<tx, pool, now, skew, summary, left>>

\* Bug: resolve() instead of resolve(null).
FailsEntryUndefined(t) ==
  /\ t \in DOMAIN results /\ results[t] = Waiting
  /\ results' = [results EXCEPT ![t] = [kind |-> "undefined"]]
  /\ UNCHANGED <<tx, pool, now, skew, summary, left>>

\* The call is rejected: the transaction is left out.
FailsEntry(t) ==
  /\ t \in DOMAIN results /\ results[t] = Waiting
  /\ results' = [results EXCEPT ![t] = Null]
  /\ UNCHANGED <<tx, pool, now, skew, summary, left>>

\* Two passes over what was gathered, each by the clock of its own time.
Summarise ==
  /\ Gathered
  /\ now' \in {now, now + 1} /\ now' <= MaxTime
  /\ LET ages(t) == AgeIndexes(t, now', MaxAge(now)) IN
     \E index \in [Kept -> UNION {ages(t) : t \in Kept}] :
       /\ \A t \in Kept : index[t] \in ages(t)
       /\ summary' =
            [at |-> now,
             all |-> Bucket(Kept),
             fees |-> [i \in 1..(Len(Maxima) + 1) |-> Bucket({t \in Kept : FeeBucket(t) = i})],
             ages |-> [i \in 0..(AgeBuckets - 1) |-> Cardinality({t \in Kept : index[t] = i})],
             sizes |-> [i \in 0..(SizeBuckets - 1) |-> Cardinality({t \in Kept : SizeIndex(t) = i})]]
  /\ UNCHANGED <<tx, pool, skew, results, left>>

MempoolNext ==
  \/ \E t \in Txids : Enters(t) \/ Leaves(t) \/ AnswersEntry(t) \/ FailsEntry(t)
  \/ Tick \/ List \/ Summarise

MempoolSpec == MempoolInit /\ [][MempoolNext]_mempoolVars

-----------------------------------------------------------------------------
(* Properties *)

MempoolTypeOK ==
  /\ tx \in [Txids -> [fee : Fees, size : Sizes]]
  /\ DOMAIN pool \subseteq Txids /\ DOMAIN results \subseteq Txids
  /\ now \in 0..MaxTime /\ skew \in Skews /\ left \in BOOLEAN
  /\ \A t \in DOMAIN results : results[t].kind \in {"waiting", "null", "error", "entry"}
  /\ summary # NoSummary => summary.all.count \in 0..Cardinality(Txids)

\* The average rate of a row is within the range its label gives (mempool-summary.pug).
RowsMatchLabels ==
  \A i \in DOMAIN summary.fees :
    LET row == summary.fees[i] IN
    row.count > 0 /\ row.totalFees # NaN =>
      /\ i > 1 => Maxima[i - 1] * row.totalBytes <= row.totalFees
      /\ i <= Len(Maxima) => row.totalFees < Maxima[i] * row.totalBytes

\* Every transaction of the summary is in one bucket of each breakdown: of fees without
\* exception and where the label of the row says, of sizes unless it left the mempool before its
\* turn, of ages if moreover the node's clock is not ahead and some transaction is older than the
\* summary (coreApi.js, the three histograms of getMempoolStats).
BreakdownsCoverEntries ==
  summary # NoSummary =>
    /\ SumFunction([i \in DOMAIN summary.fees |-> summary.fees[i].count]) = summary.all.count
    /\ RowsMatchLabels
    /\ SumFunction(summary.sizes) = Cardinality(Entries)
    /\ skew = 0 /\ (\E t \in Entries : results[t].time < summary.at) =>
         SumFunction(summary.ages) = Cardinality(Entries)

\* The fees of a summary are the fees of what the mempool held, and are a number, if no
\* transaction left it meanwhile and no call failed (rpcApi.js, getRawMempool).
FeesAddUp ==
  summary # NoSummary /\ ~left /\ Kept = DOMAIN results =>
    summary.all.totalFees = SumFunction([t \in DOMAIN results |-> tx[t].fee])
===============================================================================
