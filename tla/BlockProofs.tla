------------------------------ MODULE BlockProofs ------------------------------
(***************************************************************************)
(* Theorems about the pages of a block, for every chain, page size, number *)
(* of requests and cache.                                                  *)
(***************************************************************************)
EXTENDS BlockPages, DataInduction, SequenceTheorems, TLAPS

-----------------------------------------------------------------------------
(* Lists of txids *)

\* The transactions of one page, in the order of the block.
LEMMA OwnTxidsSlice ==
  ASSUME NEW b \in Blocks, NEW offset \in Nat
  PROVE  LET own == OwnTxids(b, offset)
         IN /\ own \in Seq(Txs)
            /\ Len(own) <= Limit
            /\ \A i \in 1..Len(own) : own[i] = Tx[b][offset + i] /\ offset + i \in 1..Len(Tx[b])
            /\ offset = 0 => Len(own) > 0
  <1> DEFINE last == IF offset + Limit < Len(Tx[b]) THEN offset + Limit ELSE Len(Tx[b])
             own == SubSeq(Tx[b], offset + 1, last)
  <1>1. Tx[b] \in Seq(Txs) /\ Tx[b] # <<>> /\ Limit \in Nat \ {0} BY ConstantsAssumption
  <1>2. Len(Tx[b]) \in Nat \ {0} BY <1>1
  <1>3. /\ last \in Int /\ offset + 1 \in Int /\ last <= Len(Tx[b]) /\ last <= offset + Limit
        /\ offset = 0 => last >= 1
    BY <1>1, <1>2
  <1> HIDE DEF last
  <1>4. \A i \in (offset + 1)..last : Tx[b][i] \in Txs BY <1>1, <1>3
  <1>5. /\ own \in Seq(Txs)
        /\ Len(own) = IF offset + 1 <= last THEN last - (offset + 1) + 1 ELSE 0
        /\ \A i \in 1..(last - (offset + 1) + 1) : own[i] = Tx[b][(offset + 1) + i - 1]
    BY <1>3, <1>4, SubSeqProperties
  <1> HIDE DEF own
  <1>6. Len(own) <= Limit /\ (offset = 0 => Len(own) > 0) BY <1>1, <1>3, <1>5
  <1>7. ASSUME NEW i \in 1..Len(own)
        PROVE  own[i] = Tx[b][offset + i] /\ offset + i \in 1..Len(Tx[b])
    <2>1. i \in 1..(last - (offset + 1) + 1) /\ (offset + 1) + i - 1 = offset + i BY <1>3, <1>5
    <2> QED BY <1>3, <1>5, <2>1
  <1>8. OwnTxids(b, offset) = own BY DEF OwnTxids, own, last
  <1> QED BY <1>5, <1>6, <1>7, <1>8

\* The list fetched for a page: its first entry is the coinbase, which no other entry is.
LEMMA PageTxidsList ==
  ASSUME NEW b \in Blocks, NEW offset \in Nat
  PROVE  LET list == PageTxids(b, offset)
             own == OwnTxids(b, offset)
         IN /\ list \in Seq(Txs)
            /\ Len(list) > 0
            /\ list[1] = Tx[b][1]
            /\ \A i \in 2..Len(list) : list[i] # Tx[b][1]
            /\ offset = 0 => list = own
            /\ offset > 0 => /\ Len(list) = Len(own) + 1
                             /\ \A i \in 1..Len(own) : list[i + 1] = own[i]
  <1> DEFINE own == OwnTxids(b, offset)
             list == PageTxids(b, offset)
  <1>1. /\ own \in Seq(Txs) /\ (offset = 0 => Len(own) > 0)
        /\ \A i \in 1..Len(own) : own[i] = Tx[b][offset + i] /\ offset + i \in 1..Len(Tx[b])
    BY OwnTxidsSlice
  <1>2. /\ Tx[b] \in Seq(Txs) /\ Tx[b][1] \in Txs
        /\ \A i \in 2..Len(Tx[b]) : Tx[b][i] # Tx[b][1]
    BY ConstantsAssumption
  <1>3. CASE offset = 0
    <2>1. list = own
      <3>1. list = <<>> \o own BY <1>3 DEF PageTxids
      <3> QED BY <1>1, <3>1, ConcatEmptySeq
    <2>2. \A i \in 1..Len(own) : own[i] = Tx[b][i] /\ i \in 1..Len(Tx[b]) BY <1>1, <1>3
    <2> HIDE DEF own, list
    <2>3. list[1] = Tx[b][1] /\ \A i \in 2..Len(list) : list[i] # Tx[b][1]
      BY <1>1, <1>2, <1>3, <2>1, <2>2
    <2> QED BY <1>1, <1>3, <2>1, <2>3 DEF own, list
  <1>4. CASE offset # 0
    <2>1. list = <<Tx[b][1]>> \o own BY <1>4 DEF PageTxids
    <2> HIDE DEF own, list
    <2>2. list \in Seq(Txs) /\ Len(list) = Len(own) + 1 /\ list[1] = Tx[b][1] BY <1>1, <1>2, <2>1
    <2>3. \A i \in 1..Len(own) : list[i + 1] = own[i] BY <1>1, <1>2, <2>1
    <2>4. ASSUME NEW i \in 2..Len(list) PROVE list[i] # Tx[b][1]
      <3>1. Len(own) \in Nat /\ i \in Int /\ i >= 2 /\ i <= Len(own) + 1 BY <1>1, <2>2
      <3>2. i - 1 \in 1..Len(own) /\ (i - 1) + 1 = i BY <3>1
      <3>3. list[i] = Tx[b][offset + (i - 1)] /\ offset + (i - 1) \in 1..Len(Tx[b])
        BY <1>1, <2>3, <3>2
      <3> QED BY <1>2, <1>4, <3>1, <3>3
    <2> QED BY <1>1, <1>4, <2>2, <2>3, <2>4 DEF own, list
  <1> QED BY <1>3, <1>4

\* The transactions that are spent are asked for, all of them.
LEMMA VinTxidsHold ==
  ASSUME NEW page \in Seq(Txs)
  PROVE  /\ VinTxids(page) \in Seq(Txs)
         /\ \A t \in ToSet(page) : ToSet(Vin[t]) \subseteq ToSet(VinTxids(page))
  <1> DEFINE spent == [i \in 1..Len(page) |-> Vin[page[i]]]
  <1>1. Len(page) \in Nat /\ \A i \in 1..Len(page) : page[i] \in Txs OBVIOUS
  <1>2. \A i \in 1..Len(page) : Vin[page[i]] \in Seq(Txs) BY <1>1, ConstantsAssumption
  <1>3. spent \in Seq(Seq(Txs)) /\ Len(spent) = Len(page) BY <1>1, <1>2
  <1>4. \A i \in 1..Len(page) : spent[i] = Vin[page[i]] OBVIOUS
  <1>5. VinTxids(page) = FlattenSeq(spent) BY DEF VinTxids
  <1>6. \A t \in ToSet(page) : \E i \in 1..Len(page) : t = page[i] BY DEF ToSet
  <1> HIDE DEF spent
  <1>7. /\ FlattenSeq(spent) \in Seq(Txs)
        /\ \A i \in 1..Len(spent) : ToSet(spent[i]) \subseteq ToSet(FlattenSeq(spent))
    BY <1>3, FlattenHolds
  <1> QED BY <1>3, <1>4, <1>5, <1>6, <1>7

-----------------------------------------------------------------------------
(* Types *)

PcStates == {"idle", "looking", "missed", "sent", "got", "done", "rejected", "lost"}
Stages == {"page", "inputs"}
BlockOrNone == Blocks \cup {None}
Request == [pc : PcStates, stage : Stages, block : BlockOrNone, offset : Nat, list : Seq(Txs),
            got : Nat, transactions : Nat, shown : Seq(Txs), found : SUBSET Txs]

\* What is kept for a list is an array, or a copy of one.
KeptTypes == IF backend = "redis" THEN Seq(Txs) ELSE 1..Len(heap)

RequestInv(c) ==
  /\ req[c].pc # "idle" =>
       /\ <<req[c].block, req[c].offset>> \in Pages
       /\ req[c].stage = "page" => req[c].list = PageTxids(req[c].block, req[c].offset)
       /\ req[c].offset > 0 => "later" \in seen
  /\ req[c].pc = "got" => req[c].got \in 1..Len(heap)
  /\ req[c].stage = "inputs" => req[c].pc # "idle" /\ req[c].transactions \in 1..Len(heap)
  /\ req[c].pc = "done" => req[c].stage = "inputs"

TypeInv ==
  /\ backend \in Backends
  /\ heap \in Seq(Seq(Txs))
  /\ result \in 0..Len(heap)
  /\ \A key \in DOMAIN txCache : key \in Seq(Txs) /\ txCache[key] \in KeptTypes
  /\ coinbase \in [BlockObjects -> Txs \cup {None}]
  /\ opened \in 0..MaxPages
  /\ req \in [Callers -> Request]
  /\ \A c \in Callers : RequestInv(c)
  /\ seen \subseteq {"later", "overlap"}

-----------------------------------------------------------------------------
(* What each step does to the arrays and to the requests *)

\* An array is added behind the others.
Added(array) ==
  /\ heap' \in Seq(Seq(Txs))
  /\ Len(heap') = Len(heap) + 1
  /\ \A a \in 1..Len(heap) : heap'[a] = heap[a]
  /\ heap'[Len(heap) + 1] = array

\* One array changes.
Written(which, array) ==
  /\ heap' \in Seq(Seq(Txs))
  /\ Len(heap') = Len(heap)
  /\ \A a \in 1..Len(heap) : heap'[a] = IF a = which THEN array ELSE heap[a]

OnlyOf(c) == req' \in [Callers -> Request] /\ \A d \in Callers \ {c} : req'[d] = req[d]
SamePage(c) == req'[c].block = req[c].block /\ req'[c].offset = req[c].offset
SameList(c) ==
  /\ SamePage(c)
  /\ req'[c].stage = req[c].stage
  /\ req'[c].list = req[c].list
  /\ req'[c].transactions = req[c].transactions

\* What Append does to the arrays.
LEMMA AddedByAppend ==
  ASSUME heap \in Seq(Seq(Txs)), NEW array \in Seq(Txs), heap' = Append(heap, array)
  PROVE  Added(array)
  <1> DEFINE S == Seq(Txs)
  <1>1. heap \in Seq(S) /\ array \in S OBVIOUS
  <1> HIDE DEF S
  <1>2. heap' \in Seq(S) /\ Len(heap') = Len(heap) + 1 /\ heap'[Len(heap) + 1] = array
        /\ \A a \in 1..Len(heap) : heap'[a] = heap[a]
    BY <1>1, AppendProperties
  <1> QED BY <1>2 DEF Added, S

\* What an EXCEPT does to the arrays.
LEMMA WrittenByExcept ==
  ASSUME heap \in Seq(Seq(Txs)), NEW which \in 1..Len(heap), NEW array \in Seq(Txs),
         heap' = [heap EXCEPT ![which] = array]
  PROVE  Written(which, array)
  <1> DEFINE S == Seq(Txs)
  <1>1. heap \in Seq(S) /\ array \in S OBVIOUS
  <1> HIDE DEF S
  <1>2. heap' \in Seq(S) /\ Len(heap') = Len(heap)
        /\ \A a \in 1..Len(heap) : heap'[a] = IF a = which THEN array ELSE heap[a]
    BY <1>1
  <1> QED BY <1>2 DEF Written, S

\* A request before it begins.
LEMMA IdleRequest == Idle \in Request
  <1>1. <<>> \in Seq(Txs) /\ None \in BlockOrNone BY EmptySeq DEF BlockOrNone
  <1>2. "idle" \in PcStates /\ "page" \in Stages BY DEF PcStates, Stages
  <1>3. {} \in SUBSET Txs /\ 0 \in Nat OBVIOUS
  <1> QED BY <1>1, <1>2, <1>3 DEF Idle, Request

\* A request for a page begins.
LEMMA OpenEffect ==
  ASSUME TypeInv, NEW c \in Callers, NEW page \in Pages, Open(c, page[1], page[2])
  PROVE  /\ OnlyOf(c)
         /\ page[1] \in Blocks /\ page[2] \in Nat /\ page = <<page[1], page[2]>>
         /\ req'[c].pc = "looking" /\ req'[c].stage = "page"
         /\ req'[c].block = page[1] /\ req'[c].offset = page[2]
         /\ req'[c].list = PageTxids(page[1], page[2])
  <1>1. page \in Blocks \X Nat BY ConstantsAssumption
  <1>2. page[1] \in Blocks /\ page[2] \in Nat /\ page = <<page[1], page[2]>> BY <1>1
  <1> DEFINE list == PageTxids(page[1], page[2])
             r == [Idle EXCEPT !.pc = "looking", !.block = page[1], !.offset = page[2],
                               !.list = list]
  <1>3. list \in Seq(Txs) BY <1>2, PageTxidsList
  <1>4. req' = [req EXCEPT ![c] = r] BY DEF Open
  <1> HIDE DEF list
  <1>5. page[1] \in BlockOrNone BY <1>2 DEF BlockOrNone
  <1>6. Idle \in Request BY IdleRequest
  <1>7. r \in Request BY <1>2, <1>3, <1>5, <1>6 DEF Request, PcStates, Stages
  <1>8. r.pc = "looking" /\ r.stage = "page" /\ r.block = page[1] /\ r.offset = page[2]
        /\ r.list = list
    BY <1>6 DEF Request, Idle
  <1> HIDE DEF r
  <1>9. OnlyOf(c) /\ req'[c] = r BY <1>4, <1>7 DEF TypeInv, OnlyOf
  <1> QED BY <1>2, <1>8, <1>9 DEF list

\* The list is in the cache: the array that is kept, or a copy of it.
LEMMA HitEffect ==
  ASSUME TypeInv, NEW c \in Callers, Hit(c)
  PROVE  /\ OnlyOf(c) /\ SameList(c)
         /\ req[c].pc = "looking" /\ req'[c].pc = "got"
         /\ req[c].list \in DOMAIN txCache
         /\ IF backend = "redis"
              THEN Added(txCache[req[c].list]) /\ req'[c].got = Len(heap) + 1
              ELSE heap' = heap /\ req'[c].got = txCache[req[c].list]
  <1> DEFINE got == IF backend = "redis" THEN Len(heap) + 1 ELSE txCache[req[c].list]
  <1>1. req' = [req EXCEPT ![c].pc = "got", ![c].got = got] BY DEF Hit
  <1>2. req[c].list \in DOMAIN txCache /\ req[c].pc = "looking" BY DEF Hit
  <1>3. txCache[req[c].list] \in KeptTypes BY <1>2 DEF TypeInv
  <1>4. Len(heap) \in Nat BY DEF TypeInv
  <1>5. got \in Nat BY <1>3, <1>4 DEF KeptTypes
  <1> HIDE DEF got
  <1>6. "got" \in PcStates BY DEF PcStates
  <1>7. OnlyOf(c) BY <1>1, <1>5, <1>6 DEF TypeInv, OnlyOf, Request
  <1>8. req'[c] = [req[c] EXCEPT !.pc = "got", !.got = got] BY <1>1 DEF TypeInv
  <1>9. req[c] \in Request BY DEF TypeInv
  <1>10. SameList(c) /\ req'[c].pc = "got" /\ req'[c].got = got
    BY <1>8, <1>9 DEF SameList, SamePage, Request
  <1>11. CASE backend = "redis"
    <2>1. txCache[req[c].list] \in Seq(Txs) BY <1>3, <1>11 DEF KeptTypes
    <2>2. heap' = Append(heap, txCache[req[c].list]) BY <1>11 DEF Hit
    <2>3. Added(txCache[req[c].list]) BY <2>1, <2>2, AddedByAppend DEF TypeInv
    <2> QED BY <1>2, <1>7, <1>10, <1>11, <2>3 DEF got
  <1>12. CASE backend # "redis"
    <2>1. heap' = heap BY <1>12 DEF Hit
    <2> QED BY <1>2, <1>7, <1>10, <1>12, <2>1 DEF got
  <1> QED BY <1>11, <1>12

\* A batch goes out: the result is a new array from now on.
LEMMA SendEffect ==
  ASSUME TypeInv, NEW c \in Callers, Send(c)
  PROVE  /\ OnlyOf(c) /\ SameList(c)
         /\ req[c].pc = "missed"
         /\ Added(<<>>)
         /\ result' = Len(heap) + 1
         /\ seen' = seen \cup Overlap(c)
         /\ \/ /\ req[c].list = <<>> /\ req'[c].pc = "got" /\ req'[c].got = Len(heap) + 1
               /\ DOMAIN txCache' = DOMAIN txCache \cup {<<>>}
               /\ \A key \in DOMAIN txCache' :
                    txCache'[key] = IF key # <<>> THEN txCache[key]
                                    ELSE IF backend = "redis" THEN <<>> ELSE Len(heap) + 1
            \/ req[c].list # <<>> /\ req'[c].pc = "sent" /\ txCache' = txCache
  <1>1. /\ heap' = Append(heap, <<>>) /\ result' = Len(heap) + 1 /\ seen' = seen \cup Overlap(c)
        /\ req[c].pc = "missed"
    BY DEF Send, Resolve
  <1>2. Added(<<>>) BY <1>1, EmptySeq, AddedByAppend DEF TypeInv
  <1>3. Len(heap) \in Nat BY DEF TypeInv
  <1>4. "got" \in PcStates /\ "sent" \in PcStates BY DEF PcStates
  <1>5. req[c] \in Request BY DEF TypeInv
  <1>6. CASE req[c].list = <<>>
    <2>1. req' = [req EXCEPT ![c].pc = "got", ![c].got = Len(heap) + 1] BY <1>6 DEF Send, Resolve
    <2> DEFINE got == Len(heap) + 1
    <2>2. got \in Nat /\ got = Len(heap) + 1 BY <1>3
    <2> HIDE DEF got
    <2>3. req' = [req EXCEPT ![c].pc = "got", ![c].got = got] BY <2>1, <2>2
    <2>4. OnlyOf(c) BY <1>4, <2>2, <2>3 DEF TypeInv, OnlyOf, Request
    <2>5. req'[c] = [req[c] EXCEPT !.pc = "got", !.got = got] BY <2>3 DEF TypeInv
    <2>6. SameList(c) /\ req'[c].pc = "got" /\ req'[c].got = got
      BY <1>5, <2>5 DEF SameList, SamePage, Request
    <2>7. Append(heap, <<>>)[Len(heap) + 1] = <<>> BY <1>1, <1>2 DEF Added
    <2>8. txCache' = [key \in DOMAIN txCache \cup {<<>>} |->
                        IF key # <<>> THEN txCache[key]
                        ELSE IF backend = "redis" THEN <<>> ELSE Len(heap) + 1]
      BY <1>6, <2>7 DEF Send, Resolve
    <2> QED BY <1>1, <1>2, <1>6, <2>2, <2>4, <2>6, <2>8
  <1>7. CASE req[c].list # <<>>
    <2>1. req' = [req EXCEPT ![c].pc = "sent"] /\ txCache' = txCache BY <1>7 DEF Send
    <2>2. OnlyOf(c) BY <1>4, <2>1 DEF TypeInv, OnlyOf, Request
    <2>3. req'[c] = [req[c] EXCEPT !.pc = "sent"] BY <2>1 DEF TypeInv
    <2>4. SameList(c) /\ req'[c].pc = "sent" BY <1>5, <2>3 DEF SameList, SamePage, Request
    <2> QED BY <1>1, <1>2, <1>7, <2>1, <2>2, <2>4
  <1> QED BY <1>6, <1>7

\* A batch is answered: its transactions are behind those of the result.
LEMMA AnswerEffect ==
  ASSUME TypeInv, NEW c \in Callers, Answer(c)
  PROVE  LET array == heap[result] \o req[c].list
         IN /\ OnlyOf(c) /\ SameList(c)
            /\ req[c].pc = "sent" /\ req'[c].pc = "got" /\ req'[c].got = result
            /\ result \in 1..Len(heap)
            /\ array \in Seq(Txs)
            /\ Written(result, array)
            /\ DOMAIN txCache' = DOMAIN txCache \cup {req[c].list}
            /\ \A key \in DOMAIN txCache' :
                 txCache'[key] = IF key # req[c].list THEN txCache[key]
                                 ELSE IF backend = "redis" THEN array ELSE result
  <1> DEFINE array == heap[result] \o req[c].list
             arrays == [heap EXCEPT ![result] = array]
  <1>1. req[c].pc = "sent" /\ result # 0 BY DEF Answer
  <1>2. result \in 1..Len(heap) /\ result \in Nat BY <1>1 DEF TypeInv
  <1>3. req[c] \in Request BY DEF TypeInv
  <1>4. heap[result] \in Seq(Txs)
    <2> DEFINE S == Seq(Txs)
    <2>1. heap \in Seq(S) BY DEF TypeInv
    <2> HIDE DEF S
    <2>2. heap[result] \in S BY <1>2, <2>1
    <2> QED BY <2>2 DEF S
  <1>5. req[c].list \in Seq(Txs) BY <1>3 DEF Request
  <1>6. array \in Seq(Txs) BY <1>4, <1>5
  <1>7. Resolve(c, arrays, result) BY DEF Answer
  <1>8. heap' = arrays BY <1>7 DEF Resolve
  <1> HIDE DEF array
  <1>9. Written(result, array) BY <1>2, <1>6, <1>8, WrittenByExcept DEF TypeInv
  <1>10. arrays[result] = array BY <1>2, <1>8, <1>9 DEF Written
  <1> HIDE DEF arrays
  <1>11. req' = [req EXCEPT ![c].pc = "got", ![c].got = result] BY <1>7 DEF Resolve
  <1>12. "got" \in PcStates BY DEF PcStates
  <1>13. OnlyOf(c) BY <1>2, <1>11, <1>12 DEF TypeInv, OnlyOf, Request
  <1>14. req'[c] = [req[c] EXCEPT !.pc = "got", !.got = result] BY <1>11 DEF TypeInv
  <1>15. SameList(c) /\ req'[c].pc = "got" /\ req'[c].got = result
    BY <1>3, <1>14 DEF SameList, SamePage, Request
  <1>16. txCache' = [key \in DOMAIN txCache \cup {req[c].list} |->
                       IF key # req[c].list THEN txCache[key]
                       ELSE IF backend = "redis" THEN array ELSE result]
    BY <1>7, <1>10 DEF Resolve
  <1> QED BY <1>1, <1>2, <1>6, <1>9, <1>13, <1>15, <1>16 DEF array

\* A step that changes nothing but where a request is.
LEMMA PcEffect ==
  ASSUME TypeInv, NEW c \in Callers, NEW pc \in PcStates, req' = [req EXCEPT ![c].pc = pc]
  PROVE  OnlyOf(c) /\ SameList(c) /\ req'[c].pc = pc
  <1>1. OnlyOf(c) BY DEF TypeInv, OnlyOf, Request
  <1>2. req'[c] = [req[c] EXCEPT !.pc = pc] BY DEF TypeInv
  <1>3. req[c] \in Request BY DEF TypeInv
  <1>4. SameList(c) /\ req'[c].pc = pc BY <1>2, <1>3 DEF SameList, SamePage, Request
  <1> QED BY <1>1, <1>4

\* What an array holds is a list of transactions.
LEMMA ArrayTypes ==
  ASSUME heap \in Seq(Seq(Txs)), NEW a \in 1..Len(heap)
  PROVE  heap[a] \in Seq(Txs)
  <1> DEFINE S == Seq(Txs)
  <1>1. heap \in Seq(S) OBVIOUS
  <1> HIDE DEF S
  <1>2. heap[a] \in S BY <1>1
  <1> QED BY <1>2 DEF S

\* The transactions of a page, once the coinbase of a later one is dropped.
PageOf(array, offset) == IF offset > 0 /\ array # <<>> THEN Tail(array) ELSE array

\* The page of an array holds transactions.
LEMMA ShownTypes ==
  ASSUME NEW array \in Seq(Txs), NEW offset
  PROVE  PageOf(array, offset) \in Seq(Txs)
  BY HeadTailProperties DEF PageOf

\* The page is shown, and what its inputs spend is asked for.
LEMMA ShowPageEffect ==
  ASSUME TypeInv, NEW c \in Callers, ShowPage(c)
  PROVE  LET array == req[c].got
             page == PageOf(heap[array], req[c].offset)
         IN /\ OnlyOf(c) /\ SamePage(c)
            /\ req[c].pc = "got" /\ req[c].stage = "page"
            /\ req'[c].pc = "looking" /\ req'[c].stage = "inputs"
            /\ req'[c].transactions = array /\ req'[c].list = VinTxids(page)
            /\ array \in 1..Len(heap) /\ heap[array] \in Seq(Txs) /\ page \in Seq(Txs)
            /\ Written(array, page)
            /\ coinbase' = IF Len(heap[array]) = Len(req[c].list)
                             THEN [coinbase EXCEPT ![BlockObject(c)] = First(heap[array])]
                             ELSE coinbase
  <1> DEFINE array == req[c].got
             page == PageOf(heap[array], req[c].offset)
             list == VinTxids(page)
  <1>1. req[c].pc = "got" /\ req[c].stage = "page" BY DEF ShowPage
  <1>2. array \in 1..Len(heap) /\ array \in Nat
    <2>1. RequestInv(c) /\ Len(heap) \in Nat BY DEF TypeInv
    <2> QED BY <1>1, <2>1 DEF RequestInv
  <1>3. heap[array] \in Seq(Txs) BY <1>2, ArrayTypes DEF TypeInv
  <1>4. page \in Seq(Txs) BY <1>3, ShownTypes
  <1>5. list \in Seq(Txs) BY <1>4, VinTxidsHold
  <1>6. /\ heap' = [heap EXCEPT ![array] = page]
        /\ req' = [req EXCEPT ![c].pc = "looking", ![c].stage = "inputs",
                              ![c].transactions = array, ![c].list = list]
        /\ coinbase' = IF Len(heap[array]) = Len(req[c].list)
                         THEN [coinbase EXCEPT ![BlockObject(c)] = First(heap[array])]
                         ELSE coinbase
    BY DEF ShowPage, PageOf
  <1>7. req[c] \in Request BY DEF TypeInv
  <1>8. "looking" \in PcStates /\ "inputs" \in Stages BY DEF PcStates, Stages
  <1> HIDE DEF page, list, array
  <1>9. Written(array, page) BY <1>2, <1>4, <1>6, WrittenByExcept DEF TypeInv
  <1> DEFINE r == [req[c] EXCEPT !.pc = "looking", !.stage = "inputs",
                                 !.transactions = array, !.list = list]
  <1>10. r \in Request BY <1>2, <1>5, <1>7, <1>8 DEF Request
  <1>11. /\ r.pc = "looking" /\ r.stage = "inputs" /\ r.transactions = array /\ r.list = list
         /\ r.block = req[c].block /\ r.offset = req[c].offset
    BY <1>7 DEF Request
  <1>12. req' = [req EXCEPT ![c] = r] BY <1>6 DEF TypeInv
  <1> HIDE DEF r
  <1>13. OnlyOf(c) /\ req'[c] = r BY <1>10, <1>12 DEF TypeInv, OnlyOf
  <1>14. /\ SamePage(c) /\ req'[c].pc = "looking" /\ req'[c].stage = "inputs"
         /\ req'[c].transactions = array /\ req'[c].list = list
    BY <1>11, <1>13 DEF SamePage
  <1> QED BY <1>1, <1>2, <1>3, <1>4, <1>6, <1>9, <1>13, <1>14 DEF page, list, array

\* A page is rendered with what was found of its inputs.
LEMMA RenderEffect ==
  ASSUME TypeInv, NEW c \in Callers, Render(c)
  PROVE  LET page == heap[req[c].transactions]
         IN /\ OnlyOf(c) /\ SameList(c)
            /\ req[c].pc = "got" /\ req[c].stage = "inputs"
            /\ req'[c].pc \in {"lost", "done"}
            /\ req'[c].shown = page /\ req'[c].found = ToSet(heap[req[c].got])
  <1> DEFINE page == heap[req[c].transactions]
             found == ToSet(heap[req[c].got])
             pc == IF page = <<>> THEN "lost" ELSE "done"
  <1>1. req[c].pc = "got" /\ req[c].stage = "inputs" BY DEF Render
  <1>2. page \in Seq(Txs) /\ heap[req[c].got] \in Seq(Txs)
    BY <1>1, ArrayTypes DEF TypeInv, RequestInv
  <1>3. found \in SUBSET Txs BY <1>2 DEF ToSet
  <1>4. req' = [req EXCEPT ![c].pc = pc, ![c].shown = page, ![c].found = found] BY DEF Render
  <1>5. pc \in PcStates /\ pc \in {"lost", "done"} BY DEF PcStates
  <1>6. req[c] \in Request BY DEF TypeInv
  <1> HIDE DEF page, found, pc
  <1>7. OnlyOf(c) BY <1>2, <1>3, <1>4, <1>5 DEF TypeInv, OnlyOf, Request
  <1>8. req'[c] = [req[c] EXCEPT !.pc = pc, !.shown = page, !.found = found] BY <1>4 DEF TypeInv
  <1>9. SameList(c) /\ req'[c].pc = pc /\ req'[c].shown = page /\ req'[c].found = found
    BY <1>6, <1>8 DEF SameList, SamePage, Request
  <1> QED BY <1>1, <1>5, <1>7, <1>9 DEF page, found

-----------------------------------------------------------------------------
(* The type invariant *)

\* Initially everything has its type.
LEMMA TypeInvInit == Init => TypeInv
  <1> SUFFICES ASSUME Init PROVE TypeInv OBVIOUS
  <1> USE ConstantsAssumption
  <1>1. heap \in Seq(Seq(Txs)) /\ Len(heap) = 0 BY EmptySeq DEF Init
  <1>2. req \in [Callers -> Request] BY IdleRequest DEF Init
  <1>3. \A c \in Callers : RequestInv(c) BY DEF Init, Idle, RequestInv
  <1>4. DOMAIN txCache = {} BY DEF Init
  <1>5. coinbase \in [BlockObjects -> Txs \cup {None}] BY DEF Init
  <1> QED BY <1>1, <1>2, <1>3, <1>4, <1>5 DEF Init, TypeInv

\* The requests that do not move keep what holds of them: arrays never go away.
LEMMA OthersKept ==
  ASSUME TypeInv, NEW c \in Callers, OnlyOf(c), Len(heap') >= Len(heap), Len(heap') \in Nat,
         seen \subseteq seen', RequestInv(c)'
  PROVE  \A d \in Callers : RequestInv(d)'
  <1> SUFFICES ASSUME NEW d \in Callers, d # c PROVE RequestInv(d)' OBVIOUS
  <1>1. req'[d] = req[d] BY DEF OnlyOf
  <1>2. RequestInv(d) BY DEF TypeInv
  <1>3. \A a : a \in 1..Len(heap) => a \in 1..Len(heap') BY DEF TypeInv
  <1> QED BY <1>1, <1>2, <1>3 DEF RequestInv

\* References stay references while arrays are added or change.
LEMMA GrownOrWritten ==
  ASSUME heap \in Seq(Seq(Txs)),
         (\E array : Added(array)) \/ (\E which, array : Written(which, array)) \/ heap' = heap
  PROVE  /\ heap' \in Seq(Seq(Txs)) /\ Len(heap') >= Len(heap) /\ Len(heap') \in Nat
         /\ 1..Len(heap) \subseteq 1..Len(heap')
  <1>1. Len(heap) \in Nat OBVIOUS
  <1> QED BY <1>1 DEF Added, Written

\* What is kept for other lists stays what it is.
LEMMA KeptGrows ==
  ASSUME backend' = backend, 1..Len(heap) \subseteq 1..Len(heap')
  PROVE  KeptTypes \subseteq KeptTypes'
  BY DEF KeptTypes

\* Every step keeps the types.
LEMMA TypeInvNext == TypeInv /\ [Next]_vars => TypeInv'
  <1> SUFFICES ASSUME TypeInv, [Next]_vars PROVE TypeInv' OBVIOUS
  <1> USE ConstantsAssumption
  <1>1. CASE Clobber
    <2>1. 0 \in 0..Len(heap) /\ \A c \in Callers : RequestInv(c)' = RequestInv(c)
      BY <1>1 DEF Clobber, TypeInv, RequestInv
    <2> QED BY <1>1, <2>1 DEF Clobber, TypeInv, KeptTypes
  <1>2. ASSUME NEW c \in Callers, NEW page \in Pages, Open(c, page[1], page[2]) PROVE TypeInv'
    <2>1. /\ OnlyOf(c) /\ req'[c].pc = "looking" /\ req'[c].stage = "page"
          /\ page[1] \in Blocks /\ page[2] \in Nat /\ page = <<page[1], page[2]>>
          /\ req'[c].block = page[1] /\ req'[c].offset = page[2]
          /\ req'[c].list = PageTxids(page[1], page[2])
      BY <1>2, OpenEffect
    <2>2. /\ opened < MaxPages /\ opened' = opened + 1
          /\ coinbase' = IF backend = "redis" THEN [coinbase EXCEPT ![c] = None] ELSE coinbase
          /\ seen' = IF page[2] > 0 THEN seen \cup {"later"} ELSE seen
          /\ UNCHANGED <<backend, heap, result, txCache>>
      BY <1>2 DEF Open
    <2>3. RequestInv(c)' BY <2>1, <2>2 DEF RequestInv
    <2>4. seen \subseteq seen' /\ seen' \subseteq {"later", "overlap"} BY <2>2 DEF TypeInv
    <2>5. \A d \in Callers : RequestInv(d)'
      <3>1. Len(heap') >= Len(heap) /\ Len(heap') \in Nat BY <2>2 DEF TypeInv
      <3> QED BY <2>1, <2>3, <2>4, <3>1, OthersKept
    <2>6. coinbase' \in [BlockObjects -> Txs \cup {None}] BY <2>2 DEF TypeInv
    <2>7. opened' \in 0..MaxPages BY <2>2 DEF TypeInv
    <2>8. KeptTypes' = KeptTypes BY <2>2 DEF KeptTypes
    <2> QED BY <2>1, <2>2, <2>4, <2>5, <2>6, <2>7, <2>8 DEF TypeInv, OnlyOf
  <1>3. ASSUME NEW c \in Callers, Hit(c) PROVE TypeInv'
    <2>1. /\ OnlyOf(c) /\ SameList(c)
          /\ req[c].pc = "looking" /\ req'[c].pc = "got" /\ req[c].list \in DOMAIN txCache
          /\ IF backend = "redis"
               THEN Added(txCache[req[c].list]) /\ req'[c].got = Len(heap) + 1
               ELSE heap' = heap /\ req'[c].got = txCache[req[c].list]
      BY <1>3, HitEffect
    <2>2. UNCHANGED <<backend, result, txCache, coinbase, opened, seen>> BY <1>3 DEF Hit
    <2>3. /\ heap' \in Seq(Seq(Txs)) /\ Len(heap') >= Len(heap) /\ Len(heap') \in Nat
          /\ 1..Len(heap) \subseteq 1..Len(heap')
      BY <2>1, GrownOrWritten DEF TypeInv
    <2>4. req'[c].got \in 1..Len(heap')
      <3>1. CASE backend = "redis" BY <2>1, <2>3, <3>1 DEF Added
      <3>2. CASE backend # "redis" BY <2>1, <3>2 DEF TypeInv, KeptTypes
      <3> QED BY <3>1, <3>2
    <2>5. RequestInv(c) BY DEF TypeInv
    <2>6. RequestInv(c)' BY <2>1, <2>2, <2>3, <2>4, <2>5 DEF RequestInv, SameList, SamePage
    <2>7. \A d \in Callers : RequestInv(d)' BY <2>1, <2>2, <2>3, <2>6, OthersKept
    <2>8. KeptTypes \subseteq KeptTypes' BY <2>2, <2>3, KeptGrows
    <2>9. result' \in 0..Len(heap') BY <2>2, <2>3 DEF TypeInv
    <2> QED BY <2>1, <2>2, <2>3, <2>7, <2>8, <2>9 DEF TypeInv, OnlyOf
  <1>4. ASSUME NEW c \in Callers, Miss(c) \/ Reject(c) PROVE TypeInv'
    <2>1. UNCHANGED <<backend, heap, result, txCache, coinbase, opened, seen>>
      BY <1>4 DEF Miss, Reject
    <2>2. PICK pc \in {"missed", "rejected"} : req' = [req EXCEPT ![c].pc = pc]
      BY <1>4 DEF Miss, Reject
    <2>3. pc \in PcStates BY DEF PcStates
    <2>4. OnlyOf(c) /\ SameList(c) /\ req'[c].pc = pc BY <2>2, <2>3, PcEffect
    <2>5. RequestInv(c) /\ req[c].pc # "idle" BY <1>4 DEF TypeInv, Miss, Reject
    <2>6. RequestInv(c)' BY <2>1, <2>4, <2>5 DEF RequestInv, SameList, SamePage
    <2>7. \A d \in Callers : RequestInv(d)'
      <3>1. Len(heap') >= Len(heap) /\ Len(heap') \in Nat BY <2>1 DEF TypeInv
      <3> QED BY <2>1, <2>4, <2>6, <3>1, OthersKept
    <2>8. KeptTypes' = KeptTypes BY <2>1 DEF KeptTypes
    <2> QED BY <2>1, <2>4, <2>7, <2>8 DEF TypeInv, OnlyOf
  <1>5. ASSUME NEW c \in Callers, Send(c) PROVE TypeInv'
    <2>1. /\ OnlyOf(c) /\ SameList(c) /\ req[c].pc = "missed"
          /\ Added(<<>>) /\ result' = Len(heap) + 1
          /\ seen' = seen \cup Overlap(c)
          /\ \/ /\ req[c].list = <<>> /\ req'[c].pc = "got" /\ req'[c].got = Len(heap) + 1
                /\ DOMAIN txCache' = DOMAIN txCache \cup {<<>>}
                /\ \A key \in DOMAIN txCache' :
                     txCache'[key] = IF key # <<>> THEN txCache[key]
                                     ELSE IF backend = "redis" THEN <<>> ELSE Len(heap) + 1
             \/ req[c].list # <<>> /\ req'[c].pc = "sent" /\ txCache' = txCache
      BY <1>5, SendEffect
    <2>2. UNCHANGED <<backend, coinbase, opened>> BY <1>5 DEF Send
    <2>3. /\ heap' \in Seq(Seq(Txs)) /\ Len(heap') >= Len(heap) /\ Len(heap') \in Nat
          /\ 1..Len(heap) \subseteq 1..Len(heap')
      BY <2>1, GrownOrWritten DEF TypeInv
    <2>4. Len(heap) + 1 \in 1..Len(heap') BY <2>1, <2>3 DEF Added, TypeInv
    <2>5. RequestInv(c) BY DEF TypeInv
    <2>6. seen \subseteq seen' /\ seen' \subseteq {"later", "overlap"}
      BY <2>1 DEF Overlap, TypeInv
    <2>7. RequestInv(c)'
      BY <2>1, <2>2, <2>3, <2>4, <2>5, <2>6 DEF RequestInv, SameList, SamePage
    <2>8. \A d \in Callers : RequestInv(d)' BY <2>1, <2>3, <2>6, <2>7, OthersKept
    <2>9. KeptTypes \subseteq KeptTypes' BY <2>2, <2>3, KeptGrows
    <2>10. \A key \in DOMAIN txCache' : key \in Seq(Txs) /\ txCache'[key] \in KeptTypes'
      <3>1. CASE txCache' = txCache BY <2>9, <3>1 DEF TypeInv
      <3>2. CASE txCache' # txCache
        <4> SUFFICES ASSUME NEW key \in DOMAIN txCache'
                     PROVE  key \in Seq(Txs) /\ txCache'[key] \in KeptTypes'
          OBVIOUS
        <4>1. CASE key = <<>>
          <5>1. txCache'[key] = IF backend = "redis" THEN <<>> ELSE Len(heap) + 1
            BY <2>1, <3>2, <4>1
          <5> QED BY <2>2, <2>4, <4>1, <5>1, EmptySeq DEF KeptTypes
        <4>2. CASE key # <<>> BY <2>1, <2>9, <3>2, <4>2 DEF TypeInv
        <4> QED BY <4>1, <4>2
      <3> QED BY <3>1, <3>2
    <2>11. result' \in 0..Len(heap') BY <2>1, <2>3, <2>4
    <2> QED BY <2>1, <2>2, <2>3, <2>6, <2>8, <2>10, <2>11 DEF TypeInv, OnlyOf
  <1>6. ASSUME NEW c \in Callers, Answer(c) PROVE TypeInv'
    <2> DEFINE array == heap[result] \o req[c].list
    <2>1. /\ OnlyOf(c) /\ SameList(c)
          /\ req[c].pc = "sent" /\ req'[c].pc = "got" /\ req'[c].got = result
          /\ result \in 1..Len(heap) /\ array \in Seq(Txs)
          /\ Written(result, array)
          /\ DOMAIN txCache' = DOMAIN txCache \cup {req[c].list}
          /\ \A key \in DOMAIN txCache' :
               txCache'[key] = IF key # req[c].list THEN txCache[key]
                               ELSE IF backend = "redis" THEN array ELSE result
      BY <1>6, AnswerEffect
    <2> HIDE DEF array
    <2>2. UNCHANGED <<backend, result, coinbase, opened, seen>> BY <1>6 DEF Answer
    <2>3. /\ heap' \in Seq(Seq(Txs)) /\ Len(heap') >= Len(heap) /\ Len(heap') \in Nat
          /\ 1..Len(heap) \subseteq 1..Len(heap')
      BY <2>1, GrownOrWritten DEF TypeInv
    <2>4. RequestInv(c) BY DEF TypeInv
    <2>5. RequestInv(c)' BY <2>1, <2>2, <2>3, <2>4 DEF RequestInv, SameList, SamePage
    <2>6. \A d \in Callers : RequestInv(d)' BY <2>1, <2>2, <2>3, <2>5, OthersKept
    <2>7. KeptTypes \subseteq KeptTypes' BY <2>2, <2>3, KeptGrows
    <2>8. req[c].list \in Seq(Txs) BY DEF TypeInv, Request
    <2>9. \A key \in DOMAIN txCache' : key \in Seq(Txs) /\ txCache'[key] \in KeptTypes'
      <3> SUFFICES ASSUME NEW key \in DOMAIN txCache'
                   PROVE  key \in Seq(Txs) /\ txCache'[key] \in KeptTypes'
        OBVIOUS
      <3>1. CASE key = req[c].list
        <4>1. txCache'[key] = IF backend = "redis" THEN array ELSE result BY <2>1, <3>1
        <4> QED BY <2>1, <2>2, <2>3, <2>8, <3>1, <4>1 DEF KeptTypes
      <3>2. CASE key # req[c].list BY <2>1, <2>7, <3>2 DEF TypeInv
      <3> QED BY <3>1, <3>2
    <2>10. result' \in 0..Len(heap') BY <2>2, <2>3 DEF TypeInv
    <2> QED BY <2>1, <2>2, <2>3, <2>6, <2>9, <2>10 DEF TypeInv, OnlyOf
  <1>7. ASSUME NEW c \in Callers, ShowPage(c) PROVE TypeInv'
    <2> DEFINE array == req[c].got
               page == PageOf(heap[array], req[c].offset)
    <2>1. /\ OnlyOf(c) /\ SamePage(c)
          /\ req[c].pc = "got" /\ req[c].stage = "page"
          /\ req'[c].pc = "looking" /\ req'[c].stage = "inputs" /\ req'[c].transactions = array
          /\ array \in 1..Len(heap) /\ heap[array] \in Seq(Txs)
          /\ Written(array, page)
          /\ coinbase' = IF Len(heap[array]) = Len(req[c].list)
                           THEN [coinbase EXCEPT ![BlockObject(c)] = First(heap[array])]
                           ELSE coinbase
      BY <1>7, ShowPageEffect
    <2> HIDE DEF array, page
    <2>2. UNCHANGED <<backend, result, txCache, opened, seen>> BY <1>7 DEF ShowPage
    <2>3. /\ heap' \in Seq(Seq(Txs)) /\ Len(heap') >= Len(heap) /\ Len(heap') \in Nat
          /\ 1..Len(heap) \subseteq 1..Len(heap')
      BY <2>1, GrownOrWritten DEF TypeInv
    <2>4. RequestInv(c) BY DEF TypeInv
    <2>5. RequestInv(c)' BY <2>1, <2>2, <2>3, <2>4 DEF RequestInv, SamePage
    <2>6. \A d \in Callers : RequestInv(d)' BY <2>1, <2>2, <2>3, <2>5, OthersKept
    <2>7. KeptTypes \subseteq KeptTypes' BY <2>2, <2>3, KeptGrows
    <2>8. First(heap[array]) \in Txs \cup {None} BY <2>1 DEF First
    <2>9. coinbase' \in [BlockObjects -> Txs \cup {None}] BY <2>1, <2>8 DEF TypeInv
    <2>10. result' \in 0..Len(heap') BY <2>2, <2>3 DEF TypeInv
    <2> QED BY <2>1, <2>2, <2>3, <2>6, <2>7, <2>9, <2>10 DEF TypeInv, OnlyOf
  <1>8. ASSUME NEW c \in Callers, Render(c) PROVE TypeInv'
    <2>1. /\ OnlyOf(c) /\ SameList(c) /\ req[c].pc = "got" /\ req[c].stage = "inputs"
          /\ req'[c].pc \in {"lost", "done"}
      BY <1>8, RenderEffect
    <2>2. UNCHANGED <<backend, heap, result, txCache, coinbase, opened, seen>>
      BY <1>8 DEF Render
    <2>3. RequestInv(c) BY DEF TypeInv
    <2>4. RequestInv(c)' BY <2>1, <2>2, <2>3 DEF RequestInv, SameList, SamePage
    <2>5. \A d \in Callers : RequestInv(d)'
      <3>1. Len(heap') >= Len(heap) /\ Len(heap') \in Nat BY <2>2 DEF TypeInv
      <3> QED BY <2>1, <2>2, <2>4, <3>1, OthersKept
    <2>6. KeptTypes' = KeptTypes BY <2>2 DEF KeptTypes
    <2> QED BY <2>1, <2>2, <2>5, <2>6 DEF TypeInv, OnlyOf
  <1>9. CASE UNCHANGED vars
    <2>1. \A c \in Callers : RequestInv(c)' = RequestInv(c) BY <1>9 DEF RequestInv, vars
    <2> QED BY <1>9, <2>1 DEF TypeInv, KeptTypes, vars
  <1> QED BY <1>1, <1>2, <1>3, <1>4, <1>5, <1>6, <1>7, <1>8, <1>9 DEF Next

\* The backend, the arrays and the requests have their types, and a request that
\* has an array has one there is: getRawTransactions and its callers hand on
\* what they were given.
THEOREM PagesAreTyped == Spec => []TypeOK
  <1>1. TypeInv => TypeOK
    <2> SUFFICES ASSUME TypeInv PROVE TypeOK OBVIOUS
    <2>1. \A c \in Callers : req[c] \in Request /\ RequestInv(c) BY DEF TypeInv
    <2>2. \A key \in DOMAIN txCache :
            txCache[key] \in IF backend = "redis" THEN Seq(Txs) ELSE 1..Len(heap)
      BY DEF TypeInv, KeptTypes
    <2>3. \A c \in Callers :
       /\ req[c].pc \in {"idle", "looking", "missed", "sent", "got", "done", "rejected", "lost"}
       /\ req[c].stage \in {"page", "inputs"}
       /\ req[c].list \in Seq(Txs)
       /\ req[c].shown \in Seq(Txs)
       /\ req[c].found \subseteq Txs
      BY <2>1 DEF Request, PcStates, Stages
    <2>4. \A c \in Callers :
       /\ req[c].pc # "idle" => <<req[c].block, req[c].offset>> \in Pages
       /\ req[c].pc = "got" => req[c].got \in 1..Len(heap)
       /\ req[c].stage = "inputs" => req[c].transactions \in 1..Len(heap)
      BY <2>1 DEF RequestInv
    <2> QED BY <2>2, <2>3, <2>4 DEF TypeInv, TypeOK
  <1> QED BY <1>1, TypeInvInit, TypeInvNext, PTL DEF Spec

-----------------------------------------------------------------------------
(* One batch at a time *)

Alone == "overlap" \notin seen

\* A request holds on to an array: the one it was just given, or the one of its page.
Holds(c, a) ==
  \/ req[c].pc = "got" /\ req[c].got = a
  \/ req[c].stage = "inputs" /\ req[c].transactions = a

Unused(a) ==
  /\ \A d \in Callers : ~Holds(d, a)
  /\ backend # "redis" => \A key \in DOMAIN txCache : txCache[key] # a

\* While no batches overlap, the batch under way fills an array of its own.
FreshInv ==
  Alone =>
    \A c \in Callers : req[c].pc = "sent" =>
      /\ \A d \in Callers : req[d].pc = "sent" => d = c
      /\ result # 0 => heap[result] = <<>> /\ Unused(result)

\* What is held or kept is an array there is.
LEMMA HeldExists ==
  ASSUME TypeInv, NEW c \in Callers, NEW a, Holds(c, a)
  PROVE  a \in 1..Len(heap) /\ Len(heap) \in Nat
  <1>1. RequestInv(c) /\ Len(heap) \in Nat BY DEF TypeInv
  <1> QED BY <1>1 DEF RequestInv, Holds

\* What a request that moved holds afterwards.
LEMMA HeldOfOthers ==
  ASSUME NEW c \in Callers, OnlyOf(c), NEW d \in Callers, d # c, NEW a
  PROVE  Holds(d, a)' = Holds(d, a)
  BY DEF OnlyOf, Holds

\* A step that sends nothing and leaves the array under way alone.
LEMMA FreshKept ==
  ASSUME FreshInv, seen \subseteq seen', backend' = backend, txCache' = txCache,
         result' \in {0, result},
         \A d \in Callers : req'[d].pc = "sent" => req[d].pc = "sent",
         result # 0 /\ Unused(result) => heap'[result] = heap[result],
         \A d \in Callers : Holds(d, result)' => Holds(d, result)
  PROVE  FreshInv'
  <1> SUFFICES ASSUME Alone', NEW c \in Callers, req'[c].pc = "sent"
               PROVE  /\ \A d \in Callers : req'[d].pc = "sent" => d = c
                      /\ result' # 0 => heap'[result'] = <<>> /\ Unused(result)'
    BY DEF FreshInv
  <1>1. Alone BY DEF Alone
  <1>2. /\ \A d \in Callers : req[d].pc = "sent" => d = c
        /\ result # 0 => heap[result] = <<>> /\ Unused(result)
    BY <1>1 DEF FreshInv
  <1>3. ASSUME result' # 0 PROVE heap'[result'] = <<>> /\ Unused(result)'
    <2>1. result' = result /\ result # 0 BY <1>3
    <2>2. heap'[result] = <<>> /\ Unused(result) BY <1>2, <2>1
    <2>3. \A d \in Callers : ~Holds(d, result)' BY <2>2 DEF Unused
    <2>4. backend # "redis" => \A key \in DOMAIN txCache : txCache[key] # result
      BY <2>2 DEF Unused
    <2>5. Unused(result)' BY <2>1, <2>3, <2>4 DEF Unused
    <2> QED BY <2>1, <2>2, <2>5
  <1> QED BY <1>2, <1>3

\* Every step keeps the batch under way in an array of its own.
LEMMA FreshInvNext == TypeInv /\ FreshInv /\ [Next]_vars => FreshInv'
  <1> SUFFICES ASSUME TypeInv, FreshInv, [Next]_vars PROVE FreshInv' OBVIOUS
  <1>1. CASE Clobber
    <2>1. /\ UNCHANGED <<seen, backend, txCache, heap, req>> /\ result' = 0 BY <1>1 DEF Clobber
    <2>2. \A d \in Callers : Holds(d, result)' => Holds(d, result)
      <3>1. \A d \in Callers : ~Holds(d, 0)
        <4> SUFFICES ASSUME NEW d \in Callers, Holds(d, 0) PROVE FALSE OBVIOUS
        <4>1. 0 \in 1..Len(heap) /\ Len(heap) \in Nat BY HeldExists
        <4> QED BY <4>1
      <3> QED BY <2>1, <3>1 DEF Holds
    <2> QED BY <2>1, <2>2, FreshKept
  <1>2. ASSUME NEW c \in Callers, NEW page \in Pages, Open(c, page[1], page[2]) PROVE FreshInv'
    <2>1. OnlyOf(c) /\ req'[c].pc = "looking" /\ req'[c].stage = "page" BY <1>2, OpenEffect
    <2>2. UNCHANGED <<backend, heap, result, txCache>> /\ seen \subseteq seen' BY <1>2 DEF Open
    <2>3. \A d \in Callers : req'[d].pc = "sent" => req[d].pc = "sent" BY <2>1 DEF OnlyOf
    <2>4. \A d \in Callers : Holds(d, result)' => Holds(d, result)
      BY <2>1, <2>2 DEF OnlyOf, Holds
    <2> QED BY <2>2, <2>3, <2>4, FreshKept
  <1>3. ASSUME NEW c \in Callers, Hit(c) PROVE FreshInv'
    <2>1. /\ OnlyOf(c) /\ SameList(c) /\ req[c].pc = "looking" /\ req'[c].pc = "got"
          /\ req[c].list \in DOMAIN txCache
          /\ IF backend = "redis"
               THEN Added(txCache[req[c].list]) /\ req'[c].got = Len(heap) + 1
               ELSE heap' = heap /\ req'[c].got = txCache[req[c].list]
      BY <1>3, HitEffect
    <2>2. UNCHANGED <<backend, result, txCache, coinbase, opened, seen>> BY <1>3 DEF Hit
    <2>3. result \in 0..Len(heap) /\ Len(heap) \in Nat BY DEF TypeInv
    <2>4. ASSUME NEW d \in Callers, req'[d].pc = "sent" PROVE d # c /\ req[d].pc = "sent"
      BY <2>1, <2>4 DEF OnlyOf
    <2> SUFFICES ASSUME Alone', NEW e \in Callers, req'[e].pc = "sent"
                 PROVE  /\ \A d \in Callers : req'[d].pc = "sent" => d = e
                        /\ result' # 0 => heap'[result'] = <<>> /\ Unused(result)'
      BY DEF FreshInv
    <2>5. /\ \A d \in Callers : req[d].pc = "sent" => d = e
          /\ result # 0 => heap[result] = <<>> /\ Unused(result)
      BY <2>2, <2>4 DEF FreshInv, Alone
    <2>6. ASSUME result # 0 PROVE heap'[result'] = <<>> /\ Unused(result)'
      <3>1. heap'[result] = <<>> BY <2>1, <2>3, <2>5, <2>6 DEF Added
      <3>2. req'[c].got # result
        <4>1. CASE backend = "redis" BY <2>1, <2>3, <4>1
        <4>2. CASE backend # "redis" BY <2>1, <2>5, <2>6, <4>2 DEF Unused
        <4> QED BY <4>1, <4>2
      <3>3. ~Holds(c, result)'
        BY <2>1, <2>2, <2>5, <2>6, <3>2 DEF Holds, Unused, SameList
      <3>4. \A d \in Callers : ~Holds(d, result)'
        BY <2>1, <2>2, <2>5, <2>6, <3>3 DEF Unused, OnlyOf, Holds
      <3> QED BY <2>2, <2>5, <2>6, <3>1, <3>4 DEF Unused
    <2> QED BY <2>2, <2>4, <2>5, <2>6
  <1>4. ASSUME NEW c \in Callers, Miss(c) \/ Reject(c) PROVE FreshInv'
    <2>1. UNCHANGED <<backend, heap, result, txCache, coinbase, opened, seen>>
      BY <1>4 DEF Miss, Reject
    <2>2. PICK pc \in {"missed", "rejected"} : req' = [req EXCEPT ![c].pc = pc]
      BY <1>4 DEF Miss, Reject
    <2>3. OnlyOf(c) /\ SameList(c) /\ req'[c].pc = pc BY <2>2, PcEffect DEF PcStates
    <2>4. \A d \in Callers : req'[d].pc = "sent" => req[d].pc = "sent" BY <2>3 DEF OnlyOf
    <2>5. \A d \in Callers : Holds(d, result)' => Holds(d, result)
      BY <2>1, <2>3 DEF OnlyOf, Holds, SameList
    <2> QED BY <2>1, <2>4, <2>5, FreshKept
  <1>5. ASSUME NEW c \in Callers, Send(c) PROVE FreshInv'
    <2>1. /\ OnlyOf(c) /\ SameList(c) /\ req[c].pc = "missed"
          /\ Added(<<>>) /\ result' = Len(heap) + 1
          /\ seen' = seen \cup Overlap(c)
          /\ req'[c].pc = "got" \/ (req'[c].pc = "sent" /\ txCache' = txCache)
      BY <1>5, SendEffect
    <2>2. backend' = backend BY <1>5 DEF Send
    <2> SUFFICES ASSUME Alone', NEW e \in Callers, req'[e].pc = "sent"
                 PROVE  /\ \A d \in Callers : req'[d].pc = "sent" => d = e
                        /\ heap'[result'] = <<>> /\ Unused(result)'
      BY DEF FreshInv
    <2>3. \A d \in Callers \ {c} : req'[d].pc # "sent"
      BY <2>1 DEF Alone, Overlap, OnlyOf
    <2>4. e = c /\ txCache' = txCache /\ req'[c].pc = "sent" BY <2>1, <2>3
    <2>5. heap'[Len(heap) + 1] = <<>> BY <2>1 DEF Added
    <2> DEFINE new == Len(heap) + 1
    <2>6. \A d \in Callers : ~Holds(d, new)
      <3> SUFFICES ASSUME NEW d \in Callers, Holds(d, new) PROVE FALSE OBVIOUS
      <3>1. new \in 1..Len(heap) /\ Len(heap) \in Nat BY HeldExists
      <3> QED BY <3>1
    <2>7. backend # "redis" => \A key \in DOMAIN txCache : txCache[key] # new
      BY DEF TypeInv, KeptTypes
    <2> HIDE DEF new
    <2>8. \A d \in Callers : ~(req'[d].pc = "got" /\ req'[d].got = new)
                             /\ ~(req'[d].stage = "inputs" /\ req'[d].transactions = new)
      BY <2>1, <2>4, <2>6 DEF OnlyOf, Holds, SameList
    <2>9. result' = new /\ heap'[new] = <<>> BY <2>1, <2>5 DEF new
    <2>10. Unused(result)' BY <2>2, <2>4, <2>7, <2>8, <2>9 DEF Unused, Holds
    <2> QED BY <2>3, <2>4, <2>9, <2>10
  <1>6. ASSUME NEW c \in Callers, Answer(c) PROVE FreshInv'
    <2>1. OnlyOf(c) /\ req[c].pc = "sent" /\ req'[c].pc = "got" BY <1>6, AnswerEffect
    <2>2. seen' = seen BY <1>6 DEF Answer
    <2>3. Alone' => \A d \in Callers : req'[d].pc # "sent"
      BY <2>1, <2>2 DEF FreshInv, Alone, OnlyOf
    <2> QED BY <2>3 DEF FreshInv
  <1>7. ASSUME NEW c \in Callers, ShowPage(c) PROVE FreshInv'
    <2> DEFINE array == req[c].got
               page == PageOf(heap[array], req[c].offset)
    <2>1. /\ OnlyOf(c) /\ req[c].pc = "got"
          /\ req'[c].pc = "looking" /\ req'[c].stage = "inputs" /\ req'[c].transactions = array
          /\ Written(array, page)
      BY <1>7, ShowPageEffect
    <2> HIDE DEF page
    <2>2. UNCHANGED <<backend, result, txCache, opened, seen>> BY <1>7 DEF ShowPage
    <2>3. \A d \in Callers : req'[d].pc = "sent" => req[d].pc = "sent" BY <2>1 DEF OnlyOf
    <2>4. \A d \in Callers : Holds(d, result)' => Holds(d, result)
      BY <2>1, <2>2 DEF OnlyOf, Holds
    <2>5. ASSUME result # 0, Unused(result) PROVE heap'[result] = heap[result]
      <3>1. result # array BY <2>1, <2>5 DEF Unused, Holds
      <3>2. result \in 1..Len(heap) BY <2>5 DEF TypeInv
      <3> QED BY <2>1, <3>1, <3>2 DEF Written
    <2> QED BY <2>2, <2>3, <2>4, <2>5, FreshKept
  <1>8. ASSUME NEW c \in Callers, Render(c) PROVE FreshInv'
    <2>1. OnlyOf(c) /\ SameList(c) /\ req'[c].pc \in {"lost", "done"} BY <1>8, RenderEffect
    <2>2. UNCHANGED <<backend, heap, result, txCache, coinbase, opened, seen>>
      BY <1>8 DEF Render
    <2>3. \A d \in Callers : req'[d].pc = "sent" => req[d].pc = "sent" BY <2>1 DEF OnlyOf
    <2>4. \A d \in Callers : Holds(d, result)' => Holds(d, result)
      BY <2>1, <2>2 DEF OnlyOf, Holds, SameList
    <2> QED BY <2>2, <2>3, <2>4, FreshKept
  <1>9. CASE UNCHANGED vars
    BY <1>9 DEF FreshInv, Alone, Unused, Holds, vars
  <1> QED BY <1>1, <1>2, <1>3, <1>4, <1>5, <1>6, <1>7, <1>8, <1>9 DEF Next

-----------------------------------------------------------------------------
(* Without overlapping batches an array holds the end of its list *)

EndOf(array, list) ==
  /\ Len(array) <= Len(list)
  /\ \A i \in 1..Len(array) : array[i] = list[Len(list) - Len(array) + i]

\* What may be shown of a page of a block.
Fits(array, b, offset) ==
  /\ Len(array) <= Limit
  /\ offset > 0 => \A i \in 1..Len(array) : array[i] # Tx[b][1]

\* What is left of an end is an end.
LEMMA TailOfEnd ==
  ASSUME NEW array \in Seq(Txs), array # <<>>
  PROVE  /\ \A list \in Seq(Txs) : EndOf(array, list) => EndOf(Tail(array), list)
         /\ \A b, offset : Fits(array, b, offset) => Fits(Tail(array), b, offset)
  <1> DEFINE rest == Tail(array)
  <1>1. /\ Len(rest) = Len(array) - 1 /\ Len(array) \in Nat \ {0}
        /\ \A i \in 1..Len(rest) : rest[i] = array[i + 1] /\ i + 1 \in 1..Len(array)
    <2>1. Len(array) \in Nat \ {0} OBVIOUS
    <2> QED BY <2>1, HeadTailProperties
  <1> HIDE DEF rest
  <1>2. ASSUME NEW list \in Seq(Txs), EndOf(array, list) PROVE EndOf(rest, list)
    <2>1. Len(list) \in Nat OBVIOUS
    <2>2. \A i \in 1..Len(rest) : Len(list) - Len(array) + (i + 1) = Len(list) - Len(rest) + i
      BY <1>1, <2>1
    <2>3. \A i \in 1..Len(rest) : rest[i] = list[Len(list) - Len(array) + (i + 1)]
      BY <1>1, <1>2 DEF EndOf
    <2> QED BY <1>1, <1>2, <2>1, <2>2, <2>3 DEF EndOf
  <1>3. ASSUME NEW b, NEW offset, Fits(array, b, offset) PROVE Fits(rest, b, offset)
    <2>1. Limit \in Nat BY ConstantsAssumption
    <2> QED BY <1>1, <1>3, <2>1 DEF Fits
  <1> QED BY <1>2, <1>3 DEF rest

\* What is left of the list of a page fits, once it is shown.
LEMMA EndFits ==
  ASSUME NEW b \in Blocks, NEW offset \in Nat, NEW array \in Seq(Txs),
         EndOf(array, PageTxids(b, offset))
  PROVE  Fits(PageOf(array, offset), b, offset)
  <1> DEFINE list == PageTxids(b, offset)
             own == OwnTxids(b, offset)
  <1>1. /\ list \in Seq(Txs) /\ Len(list) > 0
        /\ \A i \in 2..Len(list) : list[i] # Tx[b][1]
        /\ offset = 0 => list = own
        /\ offset > 0 => Len(list) = Len(own) + 1
    BY PageTxidsList
  <1>2. own \in Seq(Txs) /\ Len(own) <= Limit /\ Limit \in Nat
    BY OwnTxidsSlice, ConstantsAssumption
  <1>3. EndOf(array, list) OBVIOUS
  <1> HIDE DEF list, own
  <1>4. Len(array) \in Nat /\ Len(list) \in Nat /\ Len(own) \in Nat BY <1>1, <1>2
  <1>5. CASE offset = 0 BY <1>1, <1>2, <1>3, <1>4, <1>5 DEF EndOf, Fits, PageOf
  <1>6. CASE offset # 0 /\ array = <<>> BY <1>2, <1>6 DEF Fits, PageOf
  <1>7. CASE offset # 0 /\ array # <<>>
    <2> DEFINE rest == Tail(array)
    <2>1. PageOf(array, offset) = rest BY <1>7 DEF PageOf
    <2>2. Len(rest) = Len(array) - 1 /\ \A i \in 1..Len(rest) : rest[i] = array[i + 1]
      BY <1>7, HeadTailProperties
    <2> HIDE DEF rest
    <2>3. Len(rest) <= Limit BY <1>1, <1>2, <1>3, <1>4, <1>7, <2>2 DEF EndOf
    <2>4. ASSUME NEW i \in 1..Len(rest) PROVE rest[i] # Tx[b][1]
      <3>1. i + 1 \in 1..Len(array) /\ Len(array) <= Len(list) BY <1>3, <1>4, <2>2 DEF EndOf
      <3>2. Len(list) - Len(array) + (i + 1) \in 2..Len(list) BY <1>4, <2>2, <3>1
      <3>3. rest[i] = list[Len(list) - Len(array) + (i + 1)] BY <1>3, <2>2, <3>1 DEF EndOf
      <3> QED BY <1>1, <3>2, <3>3
    <2> QED BY <2>1, <2>3, <2>4 DEF Fits
  <1> QED BY <1>5, <1>6, <1>7

EndInv(c) ==
  /\ req[c].pc = "got" => EndOf(heap[req[c].got], req[c].list)
  /\ req[c].stage = "inputs" => Fits(heap[req[c].transactions], req[c].block, req[c].offset)
  /\ req[c].pc = "done" => Fits(req[c].shown, req[c].block, req[c].offset)

\* What the cache has for a list.
KeptArray(key) == IF backend = "redis" THEN txCache[key] ELSE heap[txCache[key]]

SuffixInv ==
  Alone =>
    /\ \A key \in DOMAIN txCache : EndOf(KeptArray(key), key)
    /\ \A c \in Callers : EndInv(c)

\* The array stays as it is, or loses the first transaction.
Shrinks(a) == heap'[a] = heap[a] \/ (heap[a] # <<>> /\ heap'[a] = Tail(heap[a]))

\* Arrays that lose their first transaction stay ends of their lists.
LEMMA ShrinksKeep ==
  ASSUME heap \in Seq(Seq(Txs)), NEW a \in 1..Len(heap), Shrinks(a)
  PROVE  /\ \A list \in Seq(Txs) : EndOf(heap[a], list) => EndOf(heap'[a], list)
         /\ \A b, offset : Fits(heap[a], b, offset) => Fits(heap'[a], b, offset)
  <1>1. heap[a] \in Seq(Txs) BY ArrayTypes
  <1>2. CASE heap'[a] = heap[a] BY <1>2
  <1>3. CASE heap[a] # <<>> /\ heap'[a] = Tail(heap[a]) BY <1>1, <1>3, TailOfEnd
  <1> QED BY <1>2, <1>3 DEF Shrinks

\* Requests that do not move.
LEMMA EndOfOthers ==
  ASSUME TypeInv, NEW d \in Callers, EndInv(d), req'[d] = req[d],
         \A a \in 1..Len(heap) : Holds(d, a) => Shrinks(a)
  PROVE  EndInv(d)'
  <1>1. req[d].list \in Seq(Txs) /\ RequestInv(d) /\ heap \in Seq(Seq(Txs))
    BY DEF TypeInv, Request
  <1>2. ASSUME req[d].pc = "got" PROVE EndOf(heap'[req[d].got], req[d].list)
    <2>1. req[d].got \in 1..Len(heap) /\ Holds(d, req[d].got)
      BY <1>1, <1>2 DEF RequestInv, Holds
    <2> QED BY <1>1, <1>2, <2>1, ShrinksKeep DEF EndInv
  <1>3. ASSUME req[d].stage = "inputs"
        PROVE  Fits(heap'[req[d].transactions], req[d].block, req[d].offset)
    <2>1. req[d].transactions \in 1..Len(heap) /\ Holds(d, req[d].transactions)
      BY <1>1, <1>3 DEF RequestInv, Holds
    <2> QED BY <1>1, <1>3, <2>1, ShrinksKeep DEF EndInv
  <1> QED BY <1>2, <1>3 DEF EndInv

\* What the cache gives for a list is an end of it.
LEMMA EndOfKept ==
  ASSUME TypeInv, NEW key \in DOMAIN txCache, EndOf(KeptArray(key), key), backend' = backend,
         txCache'[key] = txCache[key], backend # "redis" => Shrinks(txCache[key])
  PROVE  EndOf(KeptArray(key)', key)
  <1>1. CASE backend = "redis" BY <1>1 DEF KeptArray
  <1>2. CASE backend # "redis"
    <2>1. txCache[key] \in 1..Len(heap) /\ key \in Seq(Txs) /\ heap \in Seq(Seq(Txs))
      BY <1>2 DEF TypeInv, KeptTypes
    <2>2. EndOf(heap[txCache[key]], key) BY <1>2 DEF KeptArray
    <2>3. EndOf(heap'[txCache[key]], key) BY <1>2, <2>1, <2>2, ShrinksKeep
    <2>4. KeptArray(key)' = heap'[txCache[key]] BY <1>2 DEF KeptArray
    <2> QED BY <2>3, <2>4
  <1> QED BY <1>1, <1>2

\* A list is an end of itself.
LEMMA EndOfItself == \A list \in Seq(Txs) : EndOf(list, list) BY DEF EndOf

\* Every step keeps the arrays ends of their lists while no batches overlap.
LEMMA SuffixInvNext == TypeInv /\ FreshInv /\ SuffixInv /\ [Next]_vars => SuffixInv'
  <1> SUFFICES ASSUME TypeInv, FreshInv, SuffixInv, [Next]_vars, Alone'
               PROVE  /\ \A key \in DOMAIN txCache' : EndOf(KeptArray(key)', key)
                      /\ \A c \in Callers : EndInv(c)'
    BY DEF SuffixInv
  <1>1. CASE Clobber
    <2>1. UNCHANGED <<backend, heap, txCache, coinbase, opened, req, seen>> BY <1>1 DEF Clobber
    <2> QED BY <2>1 DEF SuffixInv, KeptArray, EndInv, Alone
  <1>2. ASSUME NEW c \in Callers, NEW page \in Pages, Open(c, page[1], page[2])
        PROVE  /\ \A key \in DOMAIN txCache' : EndOf(KeptArray(key)', key)
               /\ \A d \in Callers : EndInv(d)'
    <2>1. OnlyOf(c) /\ req'[c].pc = "looking" /\ req'[c].stage = "page" BY <1>2, OpenEffect
    <2>2. UNCHANGED <<backend, heap, result, txCache>> /\ seen \subseteq seen' BY <1>2 DEF Open
    <2>3. Alone BY <2>2 DEF Alone
    <2>4. EndInv(c)' BY <2>1 DEF EndInv
    <2>5. \A d \in Callers : EndInv(d)'
      BY <2>1, <2>2, <2>3, <2>4, EndOfOthers DEF OnlyOf, SuffixInv, Shrinks
    <2>6. \A key \in DOMAIN txCache' : EndOf(KeptArray(key)', key)
      BY <2>2, <2>3 DEF SuffixInv, KeptArray
    <2> QED BY <2>5, <2>6
  <1>3. ASSUME NEW c \in Callers, Hit(c)
        PROVE  /\ \A key \in DOMAIN txCache' : EndOf(KeptArray(key)', key)
               /\ \A d \in Callers : EndInv(d)'
    <2>1. /\ OnlyOf(c) /\ SameList(c) /\ req[c].pc = "looking" /\ req'[c].pc = "got"
          /\ req[c].list \in DOMAIN txCache
          /\ IF backend = "redis"
               THEN Added(txCache[req[c].list]) /\ req'[c].got = Len(heap) + 1
               ELSE heap' = heap /\ req'[c].got = txCache[req[c].list]
      BY <1>3, HitEffect
    <2>2. UNCHANGED <<backend, result, txCache, coinbase, opened, seen>> BY <1>3 DEF Hit
    <2>3. Alone BY <2>2 DEF Alone
    <2>4. \A a \in 1..Len(heap) : heap'[a] = heap[a] BY <2>1 DEF Added
    <2>5. EndOf(KeptArray(req[c].list), req[c].list) BY <2>1, <2>3 DEF SuffixInv
    <2>6. heap'[req'[c].got] = KeptArray(req[c].list) BY <2>1 DEF Added, KeptArray
    <2>7. EndInv(c)'
      <3>1. EndOf(heap'[req'[c].got], req'[c].list) BY <2>1, <2>5, <2>6 DEF SameList
      <3>2. ASSUME req'[c].stage = "inputs"
            PROVE  Fits(heap'[req'[c].transactions], req'[c].block, req'[c].offset)
        <4>1. req[c].stage = "inputs" /\ RequestInv(c) /\ EndInv(c)
          BY <2>1, <2>3, <3>2 DEF SameList, TypeInv, SuffixInv
        <4> QED BY <2>1, <2>4, <4>1 DEF RequestInv, EndInv, SameList, SamePage
      <3> QED BY <2>1, <3>1, <3>2 DEF EndInv
    <2>8. \A d \in Callers : EndInv(d)'
      BY <2>1, <2>3, <2>4, <2>7, EndOfOthers DEF OnlyOf, SuffixInv, Shrinks
    <2>9. \A key \in DOMAIN txCache : backend # "redis" => Shrinks(txCache[key])
      BY <2>4 DEF Shrinks, TypeInv, KeptTypes
    <2>10. \A key \in DOMAIN txCache' : EndOf(KeptArray(key)', key)
      BY <2>2, <2>3, <2>9, EndOfKept DEF SuffixInv
    <2> QED BY <2>8, <2>10
  <1>4. ASSUME NEW c \in Callers, Miss(c) \/ Reject(c)
        PROVE  /\ \A key \in DOMAIN txCache' : EndOf(KeptArray(key)', key)
               /\ \A d \in Callers : EndInv(d)'
    <2>1. UNCHANGED <<backend, heap, result, txCache, coinbase, opened, seen>>
      BY <1>4 DEF Miss, Reject
    <2>2. PICK pc \in {"missed", "rejected"} : req' = [req EXCEPT ![c].pc = pc]
      BY <1>4 DEF Miss, Reject
    <2>3. OnlyOf(c) /\ SameList(c) /\ req'[c].pc = pc BY <2>2, PcEffect DEF PcStates
    <2>4. Alone BY <2>1 DEF Alone
    <2>5. EndInv(c)' BY <2>1, <2>3, <2>4 DEF SuffixInv, EndInv, SameList, SamePage
    <2>6. \A d \in Callers : EndInv(d)'
      BY <2>1, <2>3, <2>4, <2>5, EndOfOthers DEF OnlyOf, SuffixInv, Shrinks
    <2> QED BY <2>1, <2>4, <2>6 DEF SuffixInv, KeptArray
  <1>5. ASSUME NEW c \in Callers, Send(c)
        PROVE  /\ \A key \in DOMAIN txCache' : EndOf(KeptArray(key)', key)
               /\ \A d \in Callers : EndInv(d)'
    <2>1. /\ OnlyOf(c) /\ SameList(c) /\ req[c].pc = "missed"
          /\ Added(<<>>) /\ result' = Len(heap) + 1
          /\ seen' = seen \cup Overlap(c)
          /\ \/ /\ req[c].list = <<>> /\ req'[c].pc = "got" /\ req'[c].got = Len(heap) + 1
                /\ DOMAIN txCache' = DOMAIN txCache \cup {<<>>}
                /\ \A key \in DOMAIN txCache' :
                     txCache'[key] = IF key # <<>> THEN txCache[key]
                                     ELSE IF backend = "redis" THEN <<>> ELSE Len(heap) + 1
             \/ req[c].list # <<>> /\ req'[c].pc = "sent" /\ txCache' = txCache
      BY <1>5, SendEffect
    <2>2. UNCHANGED <<backend, coinbase, opened>> BY <1>5 DEF Send
    <2>3. Alone BY <2>1 DEF Alone
    <2>4. \A a \in 1..Len(heap) : heap'[a] = heap[a] BY <2>1 DEF Added
    <2>5. EndOf(<<>>, <<>>) BY EndOfItself, EmptySeq
    <2>6. heap'[Len(heap) + 1] = <<>> BY <2>1 DEF Added
    <2>7. EndInv(c)'
      <3>1. ASSUME req'[c].pc = "got" PROVE EndOf(heap'[req'[c].got], req'[c].list)
        <4>1. req'[c].got = Len(heap) + 1 /\ req'[c].list = <<>> BY <2>1, <3>1 DEF SameList
        <4> QED BY <2>5, <2>6, <4>1
      <3>2. ASSUME req'[c].stage = "inputs"
            PROVE  Fits(heap'[req'[c].transactions], req'[c].block, req'[c].offset)
        <4>1. req[c].stage = "inputs" /\ RequestInv(c) /\ EndInv(c)
          BY <2>1, <2>3, <3>2 DEF SameList, TypeInv, SuffixInv
        <4> QED BY <2>1, <2>4, <4>1 DEF RequestInv, EndInv, SameList, SamePage
      <3>3. req'[c].pc # "done" BY <2>1
      <3> QED BY <3>1, <3>2, <3>3 DEF EndInv
    <2>8. \A d \in Callers : EndInv(d)'
      BY <2>1, <2>3, <2>4, <2>7, EndOfOthers DEF OnlyOf, SuffixInv, Shrinks
    <2>9. \A key \in DOMAIN txCache : backend # "redis" => Shrinks(txCache[key])
      BY <2>4 DEF Shrinks, TypeInv, KeptTypes
    <2>10. ASSUME NEW key \in DOMAIN txCache' PROVE EndOf(KeptArray(key)', key)
      <3>1. CASE key \in DOMAIN txCache /\ txCache'[key] = txCache[key]
        BY <2>2, <2>3, <2>9, <3>1, EndOfKept DEF SuffixInv
      <3>2. CASE ~(key \in DOMAIN txCache /\ txCache'[key] = txCache[key])
        <4>1. key = <<>> /\ txCache'[key] = IF backend = "redis" THEN <<>> ELSE Len(heap) + 1
          BY <2>1, <3>2
        <4>2. KeptArray(key)' = <<>> BY <2>2, <2>6, <4>1 DEF KeptArray
        <4> QED BY <2>5, <4>1, <4>2
      <3> QED BY <3>1, <3>2
    <2> QED BY <2>8, <2>10
  <1>6. ASSUME NEW c \in Callers, Answer(c)
        PROVE  /\ \A key \in DOMAIN txCache' : EndOf(KeptArray(key)', key)
               /\ \A d \in Callers : EndInv(d)'
    <2> DEFINE array == heap[result] \o req[c].list
    <2>1. /\ OnlyOf(c) /\ SameList(c)
          /\ req[c].pc = "sent" /\ req'[c].pc = "got" /\ req'[c].got = result
          /\ result \in 1..Len(heap)
          /\ Written(result, array)
          /\ DOMAIN txCache' = DOMAIN txCache \cup {req[c].list}
          /\ \A key \in DOMAIN txCache' :
               txCache'[key] = IF key # req[c].list THEN txCache[key]
                               ELSE IF backend = "redis" THEN array ELSE result
      BY <1>6, AnswerEffect
    <2>2. UNCHANGED <<backend, result, coinbase, opened, seen>> BY <1>6 DEF Answer
    <2>3. Alone BY <2>2 DEF Alone
    <2>4. heap[result] = <<>> /\ Unused(result) BY <2>1, <2>3 DEF FreshInv
    <2>5. req[c].list \in Seq(Txs) BY DEF TypeInv, Request
    <2>6. array = req[c].list BY <2>4, <2>5, ConcatEmptySeq
    <2> HIDE DEF array
    <2>7. EndOf(array, req[c].list) BY <2>5, <2>6, EndOfItself
    <2>8. heap'[result] = array BY <2>1 DEF Written
    <2>9. \A a \in 1..Len(heap) : a # result => heap'[a] = heap[a] BY <2>1 DEF Written
    <2>10. EndInv(c)'
      <3>1. EndOf(heap'[req'[c].got], req'[c].list) BY <2>1, <2>7, <2>8 DEF SameList
      <3>2. ASSUME req'[c].stage = "inputs"
            PROVE  Fits(heap'[req'[c].transactions], req'[c].block, req'[c].offset)
        <4>1. req[c].stage = "inputs" /\ RequestInv(c) /\ EndInv(c)
          BY <2>1, <2>3, <3>2 DEF SameList, TypeInv, SuffixInv
        <4>2. req[c].transactions # result BY <2>4, <4>1 DEF Unused, Holds
        <4> QED BY <2>1, <2>9, <4>1, <4>2 DEF RequestInv, EndInv, SameList, SamePage
      <3> QED BY <2>1, <3>1, <3>2 DEF EndInv
    <2>11. ASSUME NEW d \in Callers, d # c PROVE EndInv(d)'
      <3>1. \A a \in 1..Len(heap) : Holds(d, a) => Shrinks(a)
        BY <2>4, <2>9 DEF Unused, Holds, Shrinks
      <3>2. EndInv(d) /\ req'[d] = req[d] BY <2>1, <2>3, <2>11 DEF SuffixInv, OnlyOf
      <3> QED BY <3>1, <3>2, EndOfOthers
    <2>12. ASSUME NEW key \in DOMAIN txCache' PROVE EndOf(KeptArray(key)', key)
      <3>1. CASE key = req[c].list
        <4>1. txCache'[key] = IF backend = "redis" THEN array ELSE result BY <2>1, <3>1
        <4>2. KeptArray(key)' = array BY <2>2, <2>8, <4>1 DEF KeptArray
        <4> QED BY <2>7, <3>1, <4>2
      <3>2. CASE key # req[c].list
        <4>1. key \in DOMAIN txCache /\ txCache'[key] = txCache[key] BY <2>1, <3>2
        <4>2. backend # "redis" => Shrinks(txCache[key])
          BY <2>4, <2>9, <4>1 DEF Shrinks, TypeInv, KeptTypes, Unused
        <4> QED BY <2>2, <2>3, <4>1, <4>2, EndOfKept DEF SuffixInv
      <3> QED BY <3>1, <3>2
    <2> QED BY <2>10, <2>11, <2>12
  <1>7. ASSUME NEW c \in Callers, ShowPage(c)
        PROVE  /\ \A key \in DOMAIN txCache' : EndOf(KeptArray(key)', key)
               /\ \A d \in Callers : EndInv(d)'
    <2> DEFINE array == req[c].got
               page == PageOf(heap[array], req[c].offset)
    <2>1. /\ OnlyOf(c) /\ SamePage(c)
          /\ req[c].pc = "got" /\ req[c].stage = "page"
          /\ req'[c].pc = "looking" /\ req'[c].stage = "inputs" /\ req'[c].transactions = array
          /\ array \in 1..Len(heap) /\ heap[array] \in Seq(Txs)
          /\ Written(array, page)
      BY <1>7, ShowPageEffect
    <2>2. UNCHANGED <<backend, result, txCache, opened, seen>> BY <1>7 DEF ShowPage
    <2>3. Alone BY <2>2 DEF Alone
    <2>4. \A a \in 1..Len(heap) : Shrinks(a) BY <2>1 DEF Written, Shrinks, PageOf
    <2>5. Fits(page, req[c].block, req[c].offset)
      <3>1. /\ req[c].block \in Blocks /\ req[c].offset \in Nat
            /\ req[c].list = PageTxids(req[c].block, req[c].offset)
        BY <2>1, ConstantsAssumption DEF TypeInv, RequestInv
      <3>2. EndOf(heap[array], req[c].list) BY <2>1, <2>3 DEF SuffixInv, EndInv
      <3> QED BY <2>1, <3>1, <3>2, EndFits
    <2>6. EndInv(c)'
      <3>1. heap'[array] = page BY <2>1 DEF Written
      <3> HIDE DEF page
      <3> QED BY <2>1, <2>5, <3>1 DEF EndInv, SamePage
    <2>7. \A d \in Callers : EndInv(d)'
      BY <2>1, <2>3, <2>4, <2>6, EndOfOthers DEF OnlyOf, SuffixInv
    <2>8. \A key \in DOMAIN txCache : backend # "redis" => Shrinks(txCache[key])
      BY <2>4 DEF TypeInv, KeptTypes
    <2>9. \A key \in DOMAIN txCache' : EndOf(KeptArray(key)', key)
      BY <2>2, <2>3, <2>8, EndOfKept DEF SuffixInv
    <2> QED BY <2>7, <2>9
  <1>8. ASSUME NEW c \in Callers, Render(c)
        PROVE  /\ \A key \in DOMAIN txCache' : EndOf(KeptArray(key)', key)
               /\ \A d \in Callers : EndInv(d)'
    <2>1. /\ OnlyOf(c) /\ SameList(c) /\ req[c].stage = "inputs"
          /\ req'[c].pc \in {"lost", "done"}
          /\ req'[c].shown = heap[req[c].transactions]
      BY <1>8, RenderEffect
    <2>2. UNCHANGED <<backend, heap, result, txCache, coinbase, opened, seen>>
      BY <1>8 DEF Render
    <2>3. Alone BY <2>2 DEF Alone
    <2>4. EndInv(c)' BY <2>1, <2>2, <2>3 DEF SuffixInv, EndInv, SameList, SamePage
    <2>5. \A d \in Callers : EndInv(d)'
      BY <2>1, <2>2, <2>3, <2>4, EndOfOthers DEF OnlyOf, SuffixInv, Shrinks
    <2> QED BY <2>2, <2>3, <2>5 DEF SuffixInv, KeptArray
  <1>9. CASE UNCHANGED vars BY <1>9 DEF SuffixInv, Alone, KeptArray, EndInv, vars
  <1> QED BY <1>1, <1>2, <1>3, <1>4, <1>5, <1>6, <1>7, <1>8, <1>9 DEF Next

\* If no two batches overlapped, a later page does not show the coinbase that was
\* fetched with it, and no page shows more transactions than the limit, however
\* often the cached array of a page is visited and shifted.
THEOREM PagesAreExact == Spec => []PageIsExact
  <1>1. Init => FreshInv /\ SuffixInv
    <2>1. Init => DOMAIN txCache = {} BY DEF Init
    <2> QED BY <2>1 DEF Init, Idle, FreshInv, SuffixInv, EndInv
  <1>2. TypeInv /\ SuffixInv => PageIsExact
    <2> SUFFICES ASSUME TypeInv, SuffixInv, NEW c \in Callers, Rendered(c), Alone
                 PROVE  /\ req[c].offset > 0 => Tx[req[c].block][1] \notin ToSet(req[c].shown)
                        /\ Len(req[c].shown) <= Limit
      BY DEF PageIsExact, Alone
    <2>1. Fits(req[c].shown, req[c].block, req[c].offset) BY DEF SuffixInv, EndInv, Rendered
    <2>2. DOMAIN req[c].shown = 1..Len(req[c].shown) BY DEF TypeInv, Request
    <2> QED BY <2>1, <2>2 DEF Fits, ToSet
  <1> QED BY <1>1, <1>2, TypeInvInit, TypeInvNext, FreshInvNext, SuffixInvNext, PTL DEF Spec

-----------------------------------------------------------------------------
(* Copies that no other request has: redis, without overlapping batches *)

Copying == Alone /\ backend = "redis"

Own(c) == OwnTxids(req[c].block, req[c].offset)

CopyOf(c) ==
  /\ req[c].pc = "got" => heap[req[c].got] = req[c].list
  /\ req[c].stage = "inputs" =>
       heap[req[c].transactions] = Own(c) /\ req[c].list = VinTxids(Own(c))
  /\ req[c].pc = "done" => req[c].shown = Own(c) /\ req[c].found = ToSet(req[c].list)

CopyInv ==
  Copying =>
    /\ \A c, d \in Callers : c # d => \A a : ~(Holds(c, a) /\ Holds(d, a))
    /\ \A key \in DOMAIN txCache : txCache[key] = key
    /\ \A c \in Callers : CopyOf(c)

\* A page without the coinbase fetched for the miner is the page.
LEMMA ShownOwn ==
  ASSUME NEW b \in Blocks, NEW offset \in Nat
  PROVE  PageOf(PageTxids(b, offset), offset) = OwnTxids(b, offset)
  <1> DEFINE list == PageTxids(b, offset)
             own == OwnTxids(b, offset)
  <1>1. /\ list \in Seq(Txs) /\ Len(list) > 0
        /\ offset = 0 => list = own
        /\ offset > 0 => Len(list) = Len(own) + 1 /\ \A i \in 1..Len(own) : list[i + 1] = own[i]
    BY PageTxidsList
  <1>2. own \in Seq(Txs) BY OwnTxidsSlice
  <1> HIDE DEF list, own
  <1>3. CASE offset = 0 BY <1>1, <1>3 DEF PageOf, list, own
  <1>4. CASE offset # 0
    <2>1. list # <<>> BY <1>1
    <2> DEFINE rest == Tail(list)
    <2>2. /\ rest \in Seq(Txs) /\ Len(rest) = Len(list) - 1
          /\ \A i \in 1..Len(rest) : rest[i] = list[i + 1]
      BY <1>1, <2>1, HeadTailProperties
    <2> HIDE DEF rest
    <2>3. Len(rest) = Len(own) /\ \A i \in 1..Len(own) : rest[i] = own[i]
      BY <1>1, <1>2, <1>4, <2>2
    <2>4. rest = own BY <1>2, <2>2, <2>3, SeqEqual
    <2> QED BY <1>4, <2>1, <2>4 DEF PageOf, rest, list, own
  <1> QED BY <1>3, <1>4

\* A request keeps its copy while another one moves.
LEMMA CopyOfOthers ==
  ASSUME TypeInv, NEW d \in Callers, CopyOf(d), req'[d] = req[d],
         \A a \in 1..Len(heap) : Holds(d, a) => heap'[a] = heap[a]
  PROVE  CopyOf(d)'
  <1>1. RequestInv(d) BY DEF TypeInv
  <1>2. Own(d)' = Own(d) BY DEF Own
  <1>3. req[d].pc = "got" => heap'[req[d].got] = heap[req[d].got]
    BY <1>1 DEF RequestInv, Holds
  <1>4. req[d].stage = "inputs" => heap'[req[d].transactions] = heap[req[d].transactions]
    BY <1>1 DEF RequestInv, Holds
  <1> QED BY <1>2, <1>3, <1>4 DEF CopyOf

\* A request that moved holds nothing another holds, if what is new is nobody's.
LEMMA ApartKept ==
  ASSUME NEW c \in Callers, OnlyOf(c),
         \A d, e \in Callers : d # e => \A a : ~(Holds(d, a) /\ Holds(e, a)),
         \A a : Holds(c, a)' => Holds(c, a) \/ \A d \in Callers : ~Holds(d, a)
  PROVE  \A d, e \in Callers : d # e => \A a : ~(Holds(d, a)' /\ Holds(e, a)')
  <1> SUFFICES ASSUME NEW d \in Callers, NEW e \in Callers, d # e, NEW a,
                      Holds(d, a)', Holds(e, a)'
               PROVE  FALSE
    OBVIOUS
  <1>1. \A f \in Callers : f # c => Holds(f, a)' = Holds(f, a) BY HeldOfOthers
  <1>2. CASE d = c BY <1>1, <1>2
  <1>3. CASE e = c BY <1>1, <1>3
  <1>4. CASE d # c /\ e # c BY <1>1, <1>4
  <1> QED BY <1>2, <1>3, <1>4

\* Every step keeps the copies whole.
LEMMA CopyInvNext == TypeInv /\ FreshInv /\ CopyInv /\ [Next]_vars => CopyInv'
  <1> SUFFICES ASSUME TypeInv, FreshInv, CopyInv, [Next]_vars, Copying'
               PROVE  /\ \A d, e \in Callers :
                           d # e => \A a : ~(Holds(d, a)' /\ Holds(e, a)')
                      /\ \A key \in DOMAIN txCache' : txCache'[key] = key
                      /\ \A d \in Callers : CopyOf(d)'
    BY DEF CopyInv
  <1> DEFINE Apart == \A d, e \in Callers : d # e => \A a : ~(Holds(d, a)' /\ Holds(e, a)')
             Copies == \A d \in Callers : CopyOf(d)'
             Keys == \A key \in DOMAIN txCache' : txCache'[key] = key
  <1> SUFFICES Apart /\ Keys /\ Copies OBVIOUS
  <1>1. CASE Clobber
    <2>1. UNCHANGED <<backend, heap, txCache, coinbase, opened, req, seen>> BY <1>1 DEF Clobber
    <2> QED BY <2>1 DEF CopyInv, CopyOf, Own, Holds, Copying, Alone
  <1>2. ASSUME NEW c \in Callers, NEW page \in Pages, Open(c, page[1], page[2])
        PROVE  Apart /\ Keys /\ Copies
    <2>1. OnlyOf(c) /\ req'[c].pc = "looking" /\ req'[c].stage = "page" BY <1>2, OpenEffect
    <2>2. UNCHANGED <<backend, heap, result, txCache>> /\ seen \subseteq seen' BY <1>2 DEF Open
    <2>3. Copying BY <2>2 DEF Copying, Alone
    <2>4. CopyOf(c)' BY <2>1 DEF CopyOf
    <2>5. Copies BY <2>1, <2>2, <2>3, <2>4, CopyOfOthers DEF OnlyOf, CopyInv
    <2>6. Apart
      <3>1. \A a : ~Holds(c, a)' BY <2>1 DEF Holds
      <3> HIDE DEF Apart
      <3>2. Apart BY <2>1, <2>3, <3>1, ApartKept DEF CopyInv, Apart
      <3> QED BY <3>2
    <2> QED BY <2>2, <2>3, <2>5, <2>6 DEF CopyInv
  <1>3. ASSUME NEW c \in Callers, Hit(c) PROVE Apart /\ Keys /\ Copies
    <2>1. /\ OnlyOf(c) /\ SameList(c) /\ req[c].pc = "looking" /\ req'[c].pc = "got"
          /\ req[c].list \in DOMAIN txCache
          /\ backend = "redis" =>
               Added(txCache[req[c].list]) /\ req'[c].got = Len(heap) + 1
      BY <1>3, HitEffect
    <2>2. UNCHANGED <<backend, result, txCache, coinbase, opened, seen>> BY <1>3 DEF Hit
    <2>3. Copying /\ backend = "redis" BY <2>2 DEF Copying, Alone
    <2>4. \A a \in 1..Len(heap) : heap'[a] = heap[a] BY <2>1, <2>3 DEF Added
    <2>5. txCache[req[c].list] = req[c].list BY <2>1, <2>3 DEF CopyInv
    <2>6. heap'[req'[c].got] = req[c].list BY <2>1, <2>3, <2>5 DEF Added
    <2>7. CopyOf(c)'
      <3>1. CopyOf(c) /\ RequestInv(c) BY <2>3 DEF CopyInv, TypeInv
      <3>2. Own(c)' = Own(c) BY <2>1 DEF Own, SameList, SamePage
      <3>3. req[c].stage = "inputs" => heap'[req[c].transactions] = heap[req[c].transactions]
        BY <2>4, <3>1 DEF RequestInv
      <3> QED BY <2>1, <2>6, <3>1, <3>2, <3>3 DEF CopyOf, SameList
    <2>8. Copies BY <2>1, <2>3, <2>4, <2>7, CopyOfOthers DEF OnlyOf, CopyInv
    <2>9. Apart
      <3>1. ASSUME NEW a, Holds(c, a)'
            PROVE  Holds(c, a) \/ \A d \in Callers : ~Holds(d, a)
        <4>1. CASE a = Len(heap) + 1
          <5>1. \A d \in Callers : Holds(d, a) => a \in 1..Len(heap) /\ Len(heap) \in Nat
            BY HeldExists
          <5> QED BY <4>1, <5>1
        <4>2. CASE a # Len(heap) + 1
          BY <2>1, <2>3, <3>1, <4>2 DEF Holds, SameList
        <4> QED BY <4>1, <4>2
      <3> HIDE DEF Apart
      <3>2. Apart BY <2>1, <2>3, <3>1, ApartKept DEF CopyInv, Apart
      <3> QED BY <3>2
    <2> QED BY <2>2, <2>3, <2>8, <2>9 DEF CopyInv
  <1>4. ASSUME NEW c \in Callers, Miss(c) \/ Reject(c) PROVE Apart /\ Keys /\ Copies
    <2>1. UNCHANGED <<backend, heap, result, txCache, coinbase, opened, seen>>
      BY <1>4 DEF Miss, Reject
    <2>2. PICK pc \in {"missed", "rejected"} : req' = [req EXCEPT ![c].pc = pc]
      BY <1>4 DEF Miss, Reject
    <2>3. OnlyOf(c) /\ SameList(c) /\ req'[c].pc = pc BY <2>2, PcEffect DEF PcStates
    <2>4. Copying BY <2>1 DEF Copying, Alone
    <2>5. CopyOf(c)'
      <3>1. CopyOf(c) BY <2>4 DEF CopyInv
      <3>2. Own(c)' = Own(c) BY <2>3 DEF Own, SameList, SamePage
      <3> QED BY <2>1, <2>3, <3>1, <3>2 DEF CopyOf, SameList
    <2>6. Copies BY <2>1, <2>3, <2>4, <2>5, CopyOfOthers DEF OnlyOf, CopyInv
    <2>7. Apart
      <3>1. \A a : Holds(c, a)' => Holds(c, a) BY <2>3 DEF Holds, SameList
      <3> HIDE DEF Apart
      <3>2. Apart BY <2>3, <2>4, <3>1, ApartKept DEF CopyInv, Apart
      <3> QED BY <3>2
    <2> QED BY <2>1, <2>4, <2>6, <2>7 DEF CopyInv
  <1>5. ASSUME NEW c \in Callers, Send(c) PROVE Apart /\ Keys /\ Copies
    <2>1. /\ OnlyOf(c) /\ SameList(c) /\ req[c].pc = "missed"
          /\ Added(<<>>) /\ result' = Len(heap) + 1
          /\ seen' = seen \cup Overlap(c)
          /\ \/ /\ req[c].list = <<>> /\ req'[c].pc = "got" /\ req'[c].got = Len(heap) + 1
                /\ DOMAIN txCache' = DOMAIN txCache \cup {<<>>}
                /\ \A key \in DOMAIN txCache' :
                     txCache'[key] = IF key # <<>> THEN txCache[key]
                                     ELSE IF backend = "redis" THEN <<>> ELSE Len(heap) + 1
             \/ req[c].list # <<>> /\ req'[c].pc = "sent" /\ txCache' = txCache
      BY <1>5, SendEffect
    <2>2. UNCHANGED <<backend, coinbase, opened>> BY <1>5 DEF Send
    <2>3. Copying /\ backend = "redis" BY <2>1, <2>2 DEF Copying, Alone
    <2>4. \A a \in 1..Len(heap) : heap'[a] = heap[a] BY <2>1 DEF Added
    <2>5. heap'[Len(heap) + 1] = <<>> BY <2>1 DEF Added
    <2>6. CopyOf(c)'
      <3>1. CopyOf(c) /\ RequestInv(c) BY <2>3 DEF CopyInv, TypeInv
      <3>2. Own(c)' = Own(c) BY <2>1 DEF Own, SameList, SamePage
      <3>3. req[c].stage = "inputs" => heap'[req[c].transactions] = heap[req[c].transactions]
        BY <2>4, <3>1 DEF RequestInv
      <3>4. req'[c].pc = "got" => heap'[req'[c].got] = req[c].list BY <2>1, <2>5
      <3>5. req'[c].pc # "done" BY <2>1
      <3> QED BY <2>1, <3>1, <3>2, <3>3, <3>4, <3>5 DEF CopyOf, SameList
    <2>7. Copies BY <2>1, <2>3, <2>4, <2>6, CopyOfOthers DEF OnlyOf, CopyInv
    <2>8. Apart
      <3>1. ASSUME NEW a, Holds(c, a)'
            PROVE  Holds(c, a) \/ \A d \in Callers : ~Holds(d, a)
        <4>1. CASE a = Len(heap) + 1
          <5>1. \A d \in Callers : Holds(d, a) => a \in 1..Len(heap) /\ Len(heap) \in Nat
            BY HeldExists
          <5> QED BY <4>1, <5>1
        <4>2. CASE a # Len(heap) + 1
          BY <2>1, <3>1, <4>2 DEF Holds, SameList
        <4> QED BY <4>1, <4>2
      <3> HIDE DEF Apart
      <3>2. Apart BY <2>1, <2>3, <3>1, ApartKept DEF CopyInv, Apart
      <3> QED BY <3>2
    <2>9. Keys BY <2>1, <2>3 DEF CopyInv
    <2> QED BY <2>7, <2>8, <2>9
  <1>6. ASSUME NEW c \in Callers, Answer(c) PROVE Apart /\ Keys /\ Copies
    <2> DEFINE array == heap[result] \o req[c].list
    <2>1. /\ OnlyOf(c) /\ SameList(c)
          /\ req[c].pc = "sent" /\ req'[c].pc = "got" /\ req'[c].got = result
          /\ result \in 1..Len(heap)
          /\ Written(result, array)
          /\ DOMAIN txCache' = DOMAIN txCache \cup {req[c].list}
          /\ \A key \in DOMAIN txCache' :
               txCache'[key] = IF key # req[c].list THEN txCache[key]
                               ELSE IF backend = "redis" THEN array ELSE result
      BY <1>6, AnswerEffect
    <2>2. UNCHANGED <<backend, result, coinbase, opened, seen>> BY <1>6 DEF Answer
    <2>3. Copying /\ backend = "redis" /\ Alone BY <2>2 DEF Copying, Alone
    <2>4. heap[result] = <<>> /\ Unused(result) BY <2>1, <2>3 DEF FreshInv
    <2>5. array = req[c].list
      <3>1. req[c].list \in Seq(Txs) BY DEF TypeInv, Request
      <3> QED BY <2>4, <3>1, ConcatEmptySeq
    <2> HIDE DEF array
    <2>6. heap'[result] = req[c].list BY <2>1, <2>5 DEF Written
    <2>7. \A a \in 1..Len(heap) : a # result => heap'[a] = heap[a] BY <2>1 DEF Written
    <2>8. CopyOf(c)'
      <3>1. CopyOf(c) /\ RequestInv(c) BY <2>3 DEF CopyInv, TypeInv
      <3>2. Own(c)' = Own(c) BY <2>1 DEF Own, SameList, SamePage
      <3>3. req[c].stage = "inputs" => heap'[req[c].transactions] = heap[req[c].transactions]
        BY <2>4, <2>7, <3>1 DEF RequestInv, Unused, Holds
      <3> QED BY <2>1, <2>6, <3>1, <3>2, <3>3 DEF CopyOf, SameList
    <2>9. ASSUME NEW d \in Callers, d # c PROVE CopyOf(d)'
      <3>1. \A a \in 1..Len(heap) : Holds(d, a) => heap'[a] = heap[a]
        BY <2>4, <2>7 DEF Unused
      <3>2. CopyOf(d) /\ req'[d] = req[d] BY <2>1, <2>3, <2>9 DEF CopyInv, OnlyOf
      <3> QED BY <3>1, <3>2, CopyOfOthers
    <2>10. Apart
      <3>1. \A a : Holds(c, a)' => Holds(c, a) \/ a = result BY <2>1 DEF Holds, SameList
      <3>2. \A d \in Callers : ~Holds(d, result) BY <2>4 DEF Unused
      <3>3. \A a : Holds(c, a)' => Holds(c, a) \/ \A d \in Callers : ~Holds(d, a)
        BY <3>1, <3>2
      <3> HIDE DEF Apart
      <3>4. Apart BY <2>1, <2>3, <3>3, ApartKept DEF CopyInv, Apart
      <3> QED BY <3>4
    <2>11. Keys BY <2>1, <2>3, <2>5 DEF CopyInv
    <2> QED BY <2>8, <2>9, <2>10, <2>11
  <1>7. ASSUME NEW c \in Callers, ShowPage(c) PROVE Apart /\ Keys /\ Copies
    <2> DEFINE array == req[c].got
               page == PageOf(heap[array], req[c].offset)
    <2>1. /\ OnlyOf(c) /\ SamePage(c)
          /\ req[c].pc = "got" /\ req[c].stage = "page"
          /\ req'[c].pc = "looking" /\ req'[c].stage = "inputs" /\ req'[c].transactions = array
          /\ req'[c].list = VinTxids(page)
          /\ array \in 1..Len(heap)
          /\ Written(array, page)
      BY <1>7, ShowPageEffect
    <2>2. UNCHANGED <<backend, result, txCache, opened, seen>> BY <1>7 DEF ShowPage
    <2>3. Copying BY <2>2 DEF Copying, Alone
    <2>4. page = Own(c)
      <3>1. /\ req[c].block \in Blocks /\ req[c].offset \in Nat
            /\ req[c].list = PageTxids(req[c].block, req[c].offset)
        BY <2>1, ConstantsAssumption DEF TypeInv, RequestInv
      <3>2. heap[array] = req[c].list BY <2>1, <2>3 DEF CopyInv, CopyOf
      <3> QED BY <3>1, <3>2, ShownOwn DEF Own
    <2>5. CopyOf(c)'
      <3>1. heap'[array] = Own(c) /\ Own(c)' = Own(c) /\ req'[c].list = VinTxids(Own(c))
        BY <2>1, <2>4 DEF Written, Own, SamePage
      <3> HIDE DEF page
      <3> QED BY <2>1, <3>1 DEF CopyOf
    <2>6. ASSUME NEW d \in Callers, d # c PROVE CopyOf(d)'
      <3>1. Holds(c, array) BY <2>1 DEF Holds
      <3>2. ~Holds(d, array) BY <2>3, <2>6, <3>1 DEF CopyInv
      <3>3. \A a \in 1..Len(heap) : Holds(d, a) => heap'[a] = heap[a]
        BY <2>1, <3>2 DEF Written
      <3>4. CopyOf(d) /\ req'[d] = req[d] BY <2>1, <2>3, <2>6 DEF CopyInv, OnlyOf
      <3> QED BY <3>3, <3>4, CopyOfOthers
    <2>7. Apart
      <3>1. \A a : Holds(c, a)' => Holds(c, a) BY <2>1 DEF Holds
      <3> HIDE DEF Apart
      <3>2. Apart BY <2>1, <2>3, <3>1, ApartKept DEF CopyInv, Apart
      <3> QED BY <3>2
    <2> QED BY <2>2, <2>3, <2>5, <2>6, <2>7 DEF CopyInv
  <1>8. ASSUME NEW c \in Callers, Render(c) PROVE Apart /\ Keys /\ Copies
    <2>1. /\ OnlyOf(c) /\ SameList(c) /\ req[c].pc = "got" /\ req[c].stage = "inputs"
          /\ req'[c].pc \in {"lost", "done"}
          /\ req'[c].shown = heap[req[c].transactions]
          /\ req'[c].found = ToSet(heap[req[c].got])
      BY <1>8, RenderEffect
    <2>2. UNCHANGED <<backend, heap, result, txCache, coinbase, opened, seen>>
      BY <1>8 DEF Render
    <2>3. Copying BY <2>2 DEF Copying, Alone
    <2>4. CopyOf(c)'
      <3>1. CopyOf(c) BY <2>3 DEF CopyInv
      <3>2. Own(c)' = Own(c) BY <2>1 DEF Own, SameList, SamePage
      <3> QED BY <2>1, <2>2, <3>1, <3>2 DEF CopyOf, SameList
    <2>5. Copies BY <2>1, <2>2, <2>3, <2>4, CopyOfOthers DEF OnlyOf, CopyInv
    <2>6. Apart
      <3>1. \A a : Holds(c, a)' => Holds(c, a) BY <2>1 DEF Holds, SameList
      <3> HIDE DEF Apart
      <3>2. Apart BY <2>1, <2>3, <3>1, ApartKept DEF CopyInv, Apart
      <3> QED BY <3>2
    <2> QED BY <2>2, <2>3, <2>5, <2>6 DEF CopyInv
  <1>9. CASE UNCHANGED vars
    BY <1>9 DEF CopyInv, CopyOf, Own, Holds, Copying, Alone, vars
  <1> QED BY <1>1, <1>2, <1>3, <1>4, <1>5, <1>6, <1>7, <1>8, <1>9 DEF Next

-----------------------------------------------------------------------------
(* Arrays only grow while no later page is opened *)

NoLater == "later" \notin seen

\* The list is in the array, in one piece.
Covers(array, list) ==
  \E k \in 0..(Len(array) - Len(list)) : \A i \in 1..Len(list) : array[k + i] = list[i]

CoverOf(c) ==
  /\ req[c].pc = "got" => Covers(heap[req[c].got], req[c].list)
  /\ req[c].stage = "inputs" =>
       /\ ToSet(Own(c)) \subseteq ToSet(heap[req[c].transactions])
       /\ \A t \in ToSet(Own(c)) : ToSet(Vin[t]) \subseteq ToSet(req[c].list)
  /\ req[c].pc = "done" =>
       ToSet(Own(c)) \subseteq ToSet(req[c].shown) /\ ToSet(req[c].list) \subseteq req[c].found

CoverInv ==
  NoLater =>
    /\ \A key \in DOMAIN txCache : Covers(KeptArray(key), key)
    /\ \A c \in Callers : CoverOf(c)

\* What is covered is there.
LEMMA CoversHolds ==
  ASSUME NEW array \in Seq(Txs), NEW list \in Seq(Txs), Covers(array, list)
  PROVE  /\ ToSet(list) \subseteq ToSet(array)
         /\ Len(array) = Len(list) => \A i \in 1..Len(list) : array[i] = list[i]
  <1>1. PICK k \in 0..(Len(array) - Len(list)) : \A i \in 1..Len(list) : array[k + i] = list[i]
    BY DEF Covers
  <1>2. /\ Len(array) \in Nat /\ Len(list) \in Nat
        /\ DOMAIN array = 1..Len(array) /\ DOMAIN list = 1..Len(list)
    OBVIOUS
  <1>3. \A i \in 1..Len(list) : k + i \in 1..Len(array) BY <1>1, <1>2
  <1>4. ToSet(list) \subseteq ToSet(array)
    <2> SUFFICES ASSUME NEW i \in 1..Len(list) PROVE list[i] \in ToSet(array)
      BY <1>2 DEF ToSet
    <2>1. k + i \in DOMAIN array /\ array[k + i] = list[i] BY <1>1, <1>2, <1>3
    <2> QED BY <2>1 DEF ToSet
  <1>5. ASSUME Len(array) = Len(list), NEW i \in 1..Len(list) PROVE array[i] = list[i]
    <2>1. k = 0 BY <1>1, <1>2, <1>5
    <2>2. array[0 + i] = list[i] BY <1>1, <2>1
    <2> QED BY <2>2
  <1> QED BY <1>4, <1>5

\* What is covered stays so when something is pushed.
LEMMA CoversGrown ==
  ASSUME NEW array \in Seq(Txs), NEW more \in Seq(Txs)
  PROVE  /\ \A list \in Seq(Txs) : Covers(array, list) => Covers(array \o more, list)
         /\ Covers(array \o more, more)
         /\ ToSet(array) \subseteq ToSet(array \o more)
  <1> DEFINE longer == array \o more
  <1>1. /\ Len(array) \in Nat /\ Len(more) \in Nat /\ Len(longer) = Len(array) + Len(more)
        /\ \A i \in 1..Len(array) : longer[i] = array[i]
        /\ \A i \in 1..Len(more) : longer[Len(array) + i] = more[i]
    OBVIOUS
  <1>2. ToSet(array) \subseteq ToSet(longer) BY ConcatHolds
  <1> HIDE DEF longer
  <1>3. ASSUME NEW list \in Seq(Txs), Covers(array, list) PROVE Covers(longer, list)
    <2>1. PICK k \in 0..(Len(array) - Len(list)) :
            \A i \in 1..Len(list) : array[k + i] = list[i]
      BY <1>3 DEF Covers
    <2>2. Len(list) \in Nat OBVIOUS
    <2>3. k \in 0..(Len(longer) - Len(list)) BY <1>1, <2>1, <2>2
    <2>4. \A i \in 1..Len(list) : k + i \in 1..Len(array) BY <1>1, <2>1, <2>2
    <2>5. \A i \in 1..Len(list) : longer[k + i] = list[i] BY <1>1, <2>1, <2>4
    <2> QED BY <2>3, <2>5 DEF Covers
  <1>4. Covers(longer, more)
    <2>1. Len(array) \in 0..(Len(longer) - Len(more)) BY <1>1
    <2> QED BY <1>1, <2>1 DEF Covers
  <1> QED BY <1>2, <1>3, <1>4 DEF longer

\* A list covers itself.
LEMMA CoversItself == \A list \in Seq(Txs) : Covers(list, list)
  <1> SUFFICES ASSUME NEW list \in Seq(Txs) PROVE Covers(list, list) OBVIOUS
  <1>1. 0 \in 0..(Len(list) - Len(list)) /\ \A i \in 1..Len(list) : list[0 + i] = list[i] OBVIOUS
  <1> QED BY <1>1 DEF Covers

\* The array stays as it is, or something is pushed.
Grows(a) == heap'[a] = heap[a] \/ \E more \in Seq(Txs) : heap'[a] = heap[a] \o more

\* Every array that covers a list does so when it has grown.
LEMMA GrowsKeep ==
  ASSUME heap \in Seq(Seq(Txs)), NEW a \in 1..Len(heap), Grows(a)
  PROVE  /\ \A list \in Seq(Txs) : Covers(heap[a], list) => Covers(heap'[a], list)
         /\ ToSet(heap[a]) \subseteq ToSet(heap'[a])
  <1>1. heap[a] \in Seq(Txs) BY ArrayTypes
  <1>2. CASE heap'[a] = heap[a] BY <1>2
  <1>3. CASE \E more \in Seq(Txs) : heap'[a] = heap[a] \o more
    <2>1. PICK more \in Seq(Txs) : heap'[a] = heap[a] \o more BY <1>3
    <2> QED BY <1>1, <2>1, CoversGrown
  <1> QED BY <1>2, <1>3 DEF Grows

\* What a request has stays covered while another one moves.
LEMMA CoverOfOthers ==
  ASSUME TypeInv, NEW d \in Callers, CoverOf(d), req'[d] = req[d],
         \A a \in 1..Len(heap) : Grows(a)
  PROVE  CoverOf(d)'
  <1>1. RequestInv(d) /\ req[d].list \in Seq(Txs) /\ heap \in Seq(Seq(Txs))
    BY DEF TypeInv, Request
  <1>2. Own(d)' = Own(d) BY DEF Own
  <1>3. ASSUME req[d].pc = "got" PROVE Covers(heap'[req[d].got], req[d].list)
    <2>1. req[d].got \in 1..Len(heap) /\ Covers(heap[req[d].got], req[d].list)
      BY <1>1, <1>3 DEF RequestInv, CoverOf
    <2> QED BY <1>1, <2>1, GrowsKeep
  <1>4. ASSUME req[d].stage = "inputs"
        PROVE  ToSet(Own(d)) \subseteq ToSet(heap'[req[d].transactions])
    <2>1. /\ req[d].transactions \in 1..Len(heap)
          /\ ToSet(Own(d)) \subseteq ToSet(heap[req[d].transactions])
      BY <1>1, <1>4 DEF RequestInv, CoverOf
    <2>2. ToSet(heap[req[d].transactions]) \subseteq ToSet(heap'[req[d].transactions])
      BY <1>1, <2>1, GrowsKeep
    <2> QED BY <2>1, <2>2
  <1> QED BY <1>2, <1>3, <1>4 DEF CoverOf

\* What the cache gives for a list covers it.
LEMMA CoverOfKept ==
  ASSUME TypeInv, NEW key \in DOMAIN txCache, Covers(KeptArray(key), key), backend' = backend,
         txCache'[key] = txCache[key], \A a \in 1..Len(heap) : Grows(a)
  PROVE  Covers(KeptArray(key)', key)
  <1>1. CASE backend = "redis" BY <1>1 DEF KeptArray
  <1>2. CASE backend # "redis"
    <2>1. txCache[key] \in 1..Len(heap) /\ key \in Seq(Txs) /\ heap \in Seq(Seq(Txs))
      BY <1>2 DEF TypeInv, KeptTypes
    <2>2. Covers(heap[txCache[key]], key) BY <1>2 DEF KeptArray
    <2>3. Covers(heap'[txCache[key]], key) BY <2>1, <2>2, GrowsKeep
    <2>4. KeptArray(key)' = heap'[txCache[key]] BY <1>2 DEF KeptArray
    <2> QED BY <2>3, <2>4
  <1> QED BY <1>1, <1>2

\* A request whose page stays: what it holds besides the new array only grew.
LEMMA CoverOfMoved ==
  ASSUME TypeInv, NEW c \in Callers, CoverOf(c), SameList(c), req'[c].pc # "done",
         req'[c].pc = "got" => Covers(heap'[req'[c].got], req[c].list),
         \A a \in 1..Len(heap) : Grows(a)
  PROVE  CoverOf(c)'
  <1>1. RequestInv(c) /\ heap \in Seq(Seq(Txs)) BY DEF TypeInv
  <1>2. Own(c)' = Own(c) BY DEF Own, SameList, SamePage
  <1>3. ASSUME req[c].stage = "inputs"
        PROVE  ToSet(Own(c)) \subseteq ToSet(heap'[req[c].transactions])
    <2>1. /\ req[c].transactions \in 1..Len(heap)
          /\ ToSet(Own(c)) \subseteq ToSet(heap[req[c].transactions])
      BY <1>1, <1>3 DEF RequestInv, CoverOf
    <2>2. ToSet(heap[req[c].transactions]) \subseteq ToSet(heap'[req[c].transactions])
      BY <1>1, <2>1, GrowsKeep
    <2> QED BY <2>1, <2>2
  <1> QED BY <1>2, <1>3 DEF CoverOf, SameList

\* Every step keeps the lists covered.
LEMMA CoverInvNext == TypeInv /\ CoverInv /\ [Next]_vars => CoverInv'
  <1> SUFFICES ASSUME TypeInv, CoverInv, [Next]_vars, NoLater'
               PROVE  /\ \A key \in DOMAIN txCache' : Covers(KeptArray(key)', key)
                      /\ \A d \in Callers : CoverOf(d)'
    BY DEF CoverInv
  <1> DEFINE Covered == \A d \in Callers : CoverOf(d)'
             Keys == \A key \in DOMAIN txCache' : Covers(KeptArray(key)', key)
  <1> SUFFICES Keys /\ Covered OBVIOUS
  <1>1. CASE Clobber
    <2>1. UNCHANGED <<backend, heap, txCache, coinbase, opened, req, seen>> BY <1>1 DEF Clobber
    <2> QED BY <2>1 DEF CoverInv, CoverOf, Own, KeptArray, NoLater
  <1>2. ASSUME NEW c \in Callers, NEW page \in Pages, Open(c, page[1], page[2])
        PROVE  Keys /\ Covered
    <2>1. OnlyOf(c) /\ req'[c].pc = "looking" /\ req'[c].stage = "page" BY <1>2, OpenEffect
    <2>2. UNCHANGED <<backend, heap, result, txCache>> /\ seen \subseteq seen' BY <1>2 DEF Open
    <2>3. NoLater BY <2>2 DEF NoLater
    <2>4. CoverOf(c)' BY <2>1 DEF CoverOf
    <2>5. Covered BY <2>1, <2>2, <2>3, <2>4, CoverOfOthers DEF OnlyOf, CoverInv, Grows
    <2> QED BY <2>2, <2>3, <2>5 DEF CoverInv, KeptArray
  <1>3. ASSUME NEW c \in Callers, Hit(c) PROVE Keys /\ Covered
    <2>1. /\ OnlyOf(c) /\ SameList(c) /\ req[c].pc = "looking" /\ req'[c].pc = "got"
          /\ req[c].list \in DOMAIN txCache
          /\ IF backend = "redis"
               THEN Added(txCache[req[c].list]) /\ req'[c].got = Len(heap) + 1
               ELSE heap' = heap /\ req'[c].got = txCache[req[c].list]
      BY <1>3, HitEffect
    <2>2. UNCHANGED <<backend, result, txCache, coinbase, opened, seen>> BY <1>3 DEF Hit
    <2>3. NoLater BY <2>2 DEF NoLater
    <2>4. \A a \in 1..Len(heap) : Grows(a) BY <2>1 DEF Added, Grows
    <2>5. Covers(KeptArray(req[c].list), req[c].list) BY <2>1, <2>3 DEF CoverInv
    <2>6. heap'[req'[c].got] = KeptArray(req[c].list) BY <2>1 DEF Added, KeptArray
    <2>7. CoverOf(c)' BY <2>1, <2>3, <2>4, <2>5, <2>6, CoverOfMoved DEF CoverInv
    <2>8. Covered BY <2>1, <2>3, <2>4, <2>7, CoverOfOthers DEF OnlyOf, CoverInv
    <2>9. Keys BY <2>2, <2>3, <2>4, CoverOfKept DEF CoverInv
    <2> QED BY <2>8, <2>9
  <1>4. ASSUME NEW c \in Callers, Miss(c) \/ Reject(c) PROVE Keys /\ Covered
    <2>1. UNCHANGED <<backend, heap, result, txCache, coinbase, opened, seen>>
      BY <1>4 DEF Miss, Reject
    <2>2. PICK pc \in {"missed", "rejected"} : req' = [req EXCEPT ![c].pc = pc]
      BY <1>4 DEF Miss, Reject
    <2>3. OnlyOf(c) /\ SameList(c) /\ req'[c].pc = pc BY <2>2, PcEffect DEF PcStates
    <2>4. NoLater BY <2>1 DEF NoLater
    <2>5. \A a \in 1..Len(heap) : Grows(a) BY <2>1 DEF Grows
    <2>6. CoverOf(c)' BY <2>2, <2>3, <2>4, <2>5, CoverOfMoved DEF CoverInv
    <2>7. Covered BY <2>3, <2>4, <2>5, <2>6, CoverOfOthers DEF OnlyOf, CoverInv
    <2> QED BY <2>1, <2>4, <2>7 DEF CoverInv, KeptArray
  <1>5. ASSUME NEW c \in Callers, Send(c) PROVE Keys /\ Covered
    <2>1. /\ OnlyOf(c) /\ SameList(c) /\ req[c].pc = "missed"
          /\ Added(<<>>) /\ result' = Len(heap) + 1
          /\ seen' = seen \cup Overlap(c)
          /\ \/ /\ req[c].list = <<>> /\ req'[c].pc = "got" /\ req'[c].got = Len(heap) + 1
                /\ DOMAIN txCache' = DOMAIN txCache \cup {<<>>}
                /\ \A key \in DOMAIN txCache' :
                     txCache'[key] = IF key # <<>> THEN txCache[key]
                                     ELSE IF backend = "redis" THEN <<>> ELSE Len(heap) + 1
             \/ req[c].list # <<>> /\ req'[c].pc = "sent" /\ txCache' = txCache
      BY <1>5, SendEffect
    <2>2. UNCHANGED <<backend, coinbase, opened>> BY <1>5 DEF Send
    <2>3. NoLater BY <2>1 DEF NoLater
    <2>4. \A a \in 1..Len(heap) : Grows(a) BY <2>1 DEF Added, Grows
    <2>5. heap'[Len(heap) + 1] = <<>> BY <2>1 DEF Added
    <2>6. Covers(<<>>, <<>>) BY CoversItself, EmptySeq
    <2>7. CoverOf(c)'
      <3>1. req'[c].pc = "got" => Covers(heap'[req'[c].got], req[c].list) BY <2>1, <2>5, <2>6
      <3> QED BY <2>1, <2>3, <2>4, <3>1, CoverOfMoved DEF CoverInv
    <2>8. Covered BY <2>1, <2>3, <2>4, <2>7, CoverOfOthers DEF OnlyOf, CoverInv
    <2>9. ASSUME NEW key \in DOMAIN txCache' PROVE Covers(KeptArray(key)', key)
      <3>1. CASE key \in DOMAIN txCache /\ txCache'[key] = txCache[key]
        BY <2>2, <2>3, <2>4, <3>1, CoverOfKept DEF CoverInv
      <3>2. CASE ~(key \in DOMAIN txCache /\ txCache'[key] = txCache[key])
        <4>1. key = <<>> /\ txCache'[key] = IF backend = "redis" THEN <<>> ELSE Len(heap) + 1
          BY <2>1, <3>2
        <4>2. KeptArray(key)' = <<>> BY <2>2, <2>5, <4>1 DEF KeptArray
        <4> QED BY <2>6, <4>1, <4>2
      <3> QED BY <3>1, <3>2
    <2> QED BY <2>8, <2>9
  <1>6. ASSUME NEW c \in Callers, Answer(c) PROVE Keys /\ Covered
    <2> DEFINE array == heap[result] \o req[c].list
    <2>1. /\ OnlyOf(c) /\ SameList(c)
          /\ req[c].pc = "sent" /\ req'[c].pc = "got" /\ req'[c].got = result
          /\ result \in 1..Len(heap)
          /\ Written(result, array)
          /\ DOMAIN txCache' = DOMAIN txCache \cup {req[c].list}
          /\ \A key \in DOMAIN txCache' :
               txCache'[key] = IF key # req[c].list THEN txCache[key]
                               ELSE IF backend = "redis" THEN array ELSE result
      BY <1>6, AnswerEffect
    <2>2. UNCHANGED <<backend, result, coinbase, opened, seen>> BY <1>6 DEF Answer
    <2>3. NoLater BY <2>2 DEF NoLater
    <2>4. req[c].list \in Seq(Txs) /\ heap[result] \in Seq(Txs)
      <3>1. req[c].list \in Seq(Txs) BY DEF TypeInv, Request
      <3> QED BY <2>1, <3>1, ArrayTypes DEF TypeInv
    <2>5. Covers(array, req[c].list) BY <2>4, CoversGrown
    <2>6. \A a \in 1..Len(heap) : Grows(a) BY <2>1, <2>4 DEF Written, Grows
    <2> HIDE DEF array
    <2>7. heap'[result] = array BY <2>1 DEF Written
    <2>8. CoverOf(c)' BY <2>1, <2>3, <2>5, <2>6, <2>7, CoverOfMoved DEF CoverInv
    <2>9. Covered BY <2>1, <2>3, <2>6, <2>8, CoverOfOthers DEF OnlyOf, CoverInv
    <2>10. ASSUME NEW key \in DOMAIN txCache' PROVE Covers(KeptArray(key)', key)
      <3>1. CASE key = req[c].list
        <4>1. txCache'[key] = IF backend = "redis" THEN array ELSE result BY <2>1, <3>1
        <4>2. KeptArray(key)' = array BY <2>2, <2>7, <4>1 DEF KeptArray
        <4> QED BY <2>5, <3>1, <4>2
      <3>2. CASE key # req[c].list
        <4>1. key \in DOMAIN txCache /\ txCache'[key] = txCache[key] BY <2>1, <3>2
        <4> QED BY <2>2, <2>3, <2>6, <4>1, CoverOfKept DEF CoverInv
      <3> QED BY <3>1, <3>2
    <2> QED BY <2>9, <2>10
  <1>7. ASSUME NEW c \in Callers, ShowPage(c) PROVE Keys /\ Covered
    <2> DEFINE array == req[c].got
               page == PageOf(heap[array], req[c].offset)
    <2>1. /\ OnlyOf(c) /\ SamePage(c)
          /\ req[c].pc = "got" /\ req[c].stage = "page"
          /\ req'[c].pc = "looking" /\ req'[c].stage = "inputs" /\ req'[c].transactions = array
          /\ req'[c].list = VinTxids(page)
          /\ array \in 1..Len(heap) /\ heap[array] \in Seq(Txs)
          /\ Written(array, page)
      BY <1>7, ShowPageEffect
    <2>2. UNCHANGED <<backend, result, txCache, opened, seen>> BY <1>7 DEF ShowPage
    <2>3. NoLater BY <2>2 DEF NoLater
    <2>4. /\ req[c].block \in Blocks /\ req[c].offset = 0
          /\ req[c].list = PageTxids(req[c].block, req[c].offset)
      <3>1. RequestInv(c) BY DEF TypeInv
      <3>2. req[c].block \in Blocks /\ req[c].offset \in Nat
        BY <2>1, <3>1, ConstantsAssumption DEF RequestInv
      <3> QED BY <2>1, <2>3, <3>1, <3>2 DEF RequestInv, NoLater
    <2>5. page = heap[array] BY <2>4 DEF PageOf
    <2>6. req[c].list = Own(c) /\ Own(c) \in Seq(Txs)
      <3>1. PageTxids(req[c].block, 0) = OwnTxids(req[c].block, 0) BY <2>4, PageTxidsList
      <3>2. OwnTxids(req[c].block, 0) \in Seq(Txs) BY <2>4, OwnTxidsSlice
      <3> QED BY <2>4, <3>1, <3>2 DEF Own
    <2>7. ToSet(Own(c)) \subseteq ToSet(heap[array])
      <3>1. Covers(heap[array], Own(c)) BY <2>1, <2>3, <2>6 DEF CoverInv, CoverOf
      <3> QED BY <2>1, <2>6, <3>1, CoversHolds
    <2>8. \A t \in ToSet(Own(c)) : ToSet(Vin[t]) \subseteq ToSet(req'[c].list)
      <3>1. \A t \in ToSet(heap[array]) : ToSet(Vin[t]) \subseteq ToSet(VinTxids(heap[array]))
        BY <2>1, VinTxidsHold
      <3>2. req'[c].list = VinTxids(heap[array]) BY <2>1, <2>5
      <3> HIDE DEF array
      <3> QED BY <2>7, <3>1, <3>2
    <2>9. \A a \in 1..Len(heap) : heap'[a] = heap[a] BY <2>1, <2>5 DEF Written
    <2>10. CoverOf(c)'
      <3>1. Own(c)' = Own(c) BY <2>1 DEF Own, SamePage
      <3> QED BY <2>1, <2>7, <2>8, <2>9, <3>1 DEF CoverOf
    <2>11. \A a \in 1..Len(heap) : Grows(a) BY <2>9 DEF Grows
    <2>12. Covered BY <2>1, <2>3, <2>10, <2>11, CoverOfOthers DEF OnlyOf, CoverInv
    <2>13. Keys BY <2>2, <2>3, <2>11, CoverOfKept DEF CoverInv
    <2> QED BY <2>12, <2>13
  <1>8. ASSUME NEW c \in Callers, Render(c) PROVE Keys /\ Covered
    <2>1. /\ OnlyOf(c) /\ SameList(c) /\ req[c].pc = "got" /\ req[c].stage = "inputs"
          /\ req'[c].pc \in {"lost", "done"}
          /\ req'[c].shown = heap[req[c].transactions]
          /\ req'[c].found = ToSet(heap[req[c].got])
      BY <1>8, RenderEffect
    <2>2. UNCHANGED <<backend, heap, result, txCache, coinbase, opened, seen>>
      BY <1>8 DEF Render
    <2>3. NoLater BY <2>2 DEF NoLater
    <2>4. CoverOf(c)'
      <3>1. CoverOf(c) /\ RequestInv(c) BY <2>3 DEF CoverInv, TypeInv
      <3>2. Own(c)' = Own(c) BY <2>1 DEF Own, SameList, SamePage
      <3>3. ToSet(req[c].list) \subseteq ToSet(heap[req[c].got])
        <4>1. req[c].list \in Seq(Txs) BY DEF TypeInv, Request
        <4>2. heap[req[c].got] \in Seq(Txs) BY <2>1, <3>1, ArrayTypes DEF RequestInv, TypeInv
        <4>3. Covers(heap[req[c].got], req[c].list) BY <2>1, <3>1 DEF CoverOf
        <4> QED BY <4>1, <4>2, <4>3, CoversHolds
      <3> QED BY <2>1, <2>2, <3>1, <3>2, <3>3 DEF CoverOf, SameList
    <2>5. Covered BY <2>1, <2>2, <2>3, <2>4, CoverOfOthers DEF OnlyOf, CoverInv, Grows
    <2> QED BY <2>2, <2>3, <2>5 DEF CoverInv, KeptArray
  <1>9. CASE UNCHANGED vars BY <1>9 DEF CoverInv, CoverOf, Own, KeptArray, NoLater, vars
  <1> QED BY <1>1, <1>2, <1>3, <1>4, <1>5, <1>6, <1>7, <1>8, <1>9 DEF Next

-----------------------------------------------------------------------------
(* The coinbase of the block objects *)

CoinbaseInv ==
  NothingTaken =>
    IF backend = "redis"
      THEN \A c \in Callers :
             req[c].pc # "idle" => coinbase[c] \in {None, Tx[req[c].block][1]}
      ELSE \A b \in Blocks : coinbase[b] \in {None, Tx[b][1]}

\* What was taken stays taken.
LEMMA TakenStays ==
  ASSUME seen \subseteq seen', backend' = backend, NothingTaken'
  PROVE  NothingTaken
  BY DEF NothingTaken

\* The array of a page that is as long as its list begins with the coinbase.
LEMMA FirstIsCoinbase ==
  ASSUME TypeInv, CopyInv, CoverInv, NothingTaken, NEW c \in Callers,
         req[c].pc = "got", req[c].stage = "page",
         Len(heap[req[c].got]) = Len(req[c].list)
  PROVE  First(heap[req[c].got]) = Tx[req[c].block][1]
  <1> DEFINE array == heap[req[c].got]
             list == req[c].list
  <1>1. RequestInv(c) BY DEF TypeInv
  <1>2. /\ req[c].block \in Blocks /\ req[c].offset \in Nat
        /\ list = PageTxids(req[c].block, req[c].offset)
    BY <1>1, ConstantsAssumption DEF RequestInv
  <1>3. list \in Seq(Txs) /\ Len(list) > 0 /\ list[1] = Tx[req[c].block][1]
    BY <1>2, PageTxidsList
  <1>4. array \in Seq(Txs) BY <1>1, ArrayTypes DEF RequestInv, TypeInv
  <1>5. Len(array) = Len(list) OBVIOUS
  <1>6. CASE NoLater
    <2>1. Covers(array, list) BY <1>6 DEF CoverInv, CoverOf
    <2> HIDE DEF array, list
    <2>2. \A i \in 1..Len(list) : array[i] = list[i] BY <1>3, <1>4, <1>5, <2>1, CoversHolds
    <2>3. array[1] = list[1] /\ array # <<>> BY <1>3, <1>4, <1>5, <2>2
    <2> QED BY <1>3, <2>3 DEF First, array, list
  <1>7. CASE Copying
    <2>1. array = list BY <1>7 DEF CopyInv, CopyOf
    <2> QED BY <1>3, <2>1 DEF First
  <1> QED BY <1>6, <1>7 DEF NothingTaken, NoLater, Copying, Alone

\* Every step keeps the coinbases of the block objects.
LEMMA CoinbaseInvNext ==
  TypeInv /\ CopyInv /\ CoverInv /\ CoinbaseInv /\ [Next]_vars => CoinbaseInv'
  <1> SUFFICES ASSUME TypeInv, CopyInv, CoverInv, CoinbaseInv, [Next]_vars, NothingTaken'
               PROVE  IF backend' = "redis"
                        THEN \A c \in Callers : req'[c].pc # "idle" =>
                               coinbase'[c] \in {None, Tx[req'[c].block][1]}
                        ELSE \A b \in Blocks : coinbase'[b] \in {None, Tx[b][1]}
    BY DEF CoinbaseInv
  <1> DEFINE Goal == IF backend' = "redis"
                       THEN \A c \in Callers : req'[c].pc # "idle" =>
                              coinbase'[c] \in {None, Tx[req'[c].block][1]}
                       ELSE \A b \in Blocks : coinbase'[b] \in {None, Tx[b][1]}
  <1> SUFFICES Goal OBVIOUS
  <1>1. CASE Clobber
    <2>1. UNCHANGED <<backend, heap, txCache, coinbase, opened, req, seen>> BY <1>1 DEF Clobber
    <2> QED BY <2>1 DEF CoinbaseInv, NothingTaken
  <1>2. ASSUME NEW c \in Callers, NEW page \in Pages, Open(c, page[1], page[2]) PROVE Goal
    <2>1. OnlyOf(c) BY <1>2, OpenEffect
    <2>2. /\ backend' = backend /\ seen \subseteq seen'
          /\ coinbase' = IF backend = "redis" THEN [coinbase EXCEPT ![c] = None] ELSE coinbase
      BY <1>2 DEF Open
    <2>3. NothingTaken BY <2>2, TakenStays
    <2>4. CASE backend = "redis"
      <3>1. coinbase'[c] = None /\ \A d \in Callers : d # c => coinbase'[d] = coinbase[d]
        BY <2>2, <2>4 DEF TypeInv, BlockObjects
      <3> QED BY <2>1, <2>2, <2>3, <2>4, <3>1 DEF CoinbaseInv, OnlyOf
    <2>5. CASE backend # "redis" BY <2>2, <2>3, <2>5 DEF CoinbaseInv
    <2> QED BY <2>4, <2>5
  <1>3. ASSUME NEW c \in Callers,
               Hit(c) \/ Miss(c) \/ Send(c) \/ Answer(c) \/ Reject(c) \/ Render(c)
        PROVE  Goal
    <2>1. OnlyOf(c) /\ SamePage(c) /\ req[c].pc # "idle"
      <3>1. CASE Hit(c) BY <3>1, HitEffect DEF SameList
      <3>2. CASE Miss(c) \/ Reject(c)
        <4>1. PICK pc \in {"missed", "rejected"} : req' = [req EXCEPT ![c].pc = pc]
          BY <3>2 DEF Miss, Reject
        <4> QED BY <3>2, <4>1, PcEffect DEF PcStates, SameList, Miss, Reject
      <3>3. CASE Send(c) BY <3>3, SendEffect DEF SameList
      <3>4. CASE Answer(c) BY <3>4, AnswerEffect DEF SameList
      <3>5. CASE Render(c) BY <3>5, RenderEffect DEF SameList
      <3> QED BY <1>3, <3>1, <3>2, <3>3, <3>4, <3>5
    <2>2. backend' = backend /\ coinbase' = coinbase /\ seen \subseteq seen'
      BY <1>3 DEF Hit, Miss, Send, Answer, Reject, Render
    <2>3. NothingTaken BY <2>2, TakenStays
    <2>4. \A d \in Callers : req'[d].pc # "idle" =>
            req[d].pc # "idle" /\ req'[d].block = req[d].block
      BY <2>1 DEF OnlyOf, SamePage
    <2> QED BY <2>2, <2>3, <2>4 DEF CoinbaseInv
  <1>4. ASSUME NEW c \in Callers, ShowPage(c) PROVE Goal
    <2> DEFINE array == heap[req[c].got]
    <2>1. /\ OnlyOf(c) /\ SamePage(c) /\ req[c].pc = "got" /\ req[c].stage = "page"
          /\ coinbase' = IF Len(array) = Len(req[c].list)
                           THEN [coinbase EXCEPT ![BlockObject(c)] = First(array)]
                           ELSE coinbase
      BY <1>4, ShowPageEffect
    <2>2. backend' = backend /\ seen' = seen BY <1>4 DEF ShowPage
    <2>3. NothingTaken BY <2>2, TakenStays
    <2>4. Len(array) = Len(req[c].list) => First(array) = Tx[req[c].block][1]
      BY <2>1, <2>3, FirstIsCoinbase
    <2> HIDE DEF array
    <2>5. \A d \in Callers : req'[d].pc # "idle" =>
            req[d].pc # "idle" /\ req'[d].block = req[d].block
      BY <2>1 DEF OnlyOf, SamePage
    <2>6. coinbase \in [BlockObjects -> Txs \cup {None}] BY DEF TypeInv
    <2>7. CASE backend = "redis"
      <3>1. BlockObject(c) = c BY <2>7 DEF BlockObject
      <3>2. \A d \in Callers : coinbase'[d] = coinbase[d]
                               \/ (d = c /\ coinbase'[d] = Tx[req[c].block][1])
        BY <2>1, <2>4, <2>6, <3>1 DEF BlockObjects
      <3> QED BY <2>2, <2>3, <2>5, <2>7, <3>2 DEF CoinbaseInv
    <2>8. CASE backend # "redis"
      <3>1. BlockObject(c) = req[c].block BY <2>8 DEF BlockObject
      <3>2. \A b \in Blocks : coinbase'[b] = coinbase[b]
                              \/ (b = req[c].block /\ coinbase'[b] = Tx[b][1])
        BY <2>1, <2>4, <2>6, <3>1 DEF BlockObjects
      <3> QED BY <2>2, <2>3, <2>8, <3>2 DEF CoinbaseInv
    <2> QED BY <2>7, <2>8
  <1>5. CASE UNCHANGED vars BY <1>5 DEF CoinbaseInv, NothingTaken, vars
  <1> QED BY <1>1, <1>2, <1>3, <1>4, <1>5 DEF Next

-----------------------------------------------------------------------------
(* What requests show that nobody takes from *)

PagesInv == TypeInv /\ FreshInv /\ CopyInv /\ CoverInv /\ CoinbaseInv

\* The invariants hold together.
LEMMA PagesInvHolds == Spec => []PagesInv
  <1>1. Init => PagesInv
    <2>1. Init => TypeInv BY TypeInvInit
    <2>2. Init => DOMAIN txCache = {} BY DEF Init
    <2>3. Init => FreshInv BY DEF Init, Idle, FreshInv
    <2>4. Init => CopyInv BY <2>2 DEF Init, Idle, CopyInv, CopyOf, Holds
    <2>5. Init => CoverInv BY <2>2 DEF Init, Idle, CoverInv, CoverOf
    <2>6. Init => CoinbaseInv BY DEF Init, Idle, CoinbaseInv, BlockObjects
    <2> QED BY <2>1, <2>3, <2>4, <2>5, <2>6 DEF PagesInv
  <1>2. PagesInv /\ [Next]_vars => PagesInv'
    BY TypeInvNext, FreshInvNext, CopyInvNext, CoverInvNext, CoinbaseInvNext DEF PagesInv
  <1> QED BY <1>1, <1>2, PTL DEF Spec

\* As long as nobody takes transactions from the arrays of others, the coinbase of a
\* block object, from which its miner and fees are computed, is unset or the first
\* transaction of that very block, whatever other batches push into the shared result.
THEOREM CoinbasesAreFirst == Spec => []CoinbaseIsFirst
  <1>1. PagesInv => CoinbaseIsFirst
    <2> SUFFICES ASSUME PagesInv, NEW c \in Callers, req[c].pc # "idle", NothingTaken
                 PROVE  coinbase[BlockObject(c)] \in {None, Tx[req[c].block][1]}
      BY DEF CoinbaseIsFirst
    <2>1. req[c].block \in Blocks BY ConstantsAssumption DEF PagesInv, TypeInv, RequestInv
    <2> QED BY <2>1 DEF PagesInv, CoinbaseInv, BlockObject
  <1> QED BY <1>1, PagesInvHolds, PTL

\* A rendered request, in either of the situations in which nothing is taken.
LEMMA RenderedPage ==
  ASSUME PagesInv, NEW c \in Callers, Rendered(c), NothingTaken
  PROVE  /\ ToSet(Own(c)) \subseteq ToSet(req[c].shown)
         /\ \A t \in ToSet(Own(c)) : ToSet(Vin[t]) \subseteq req[c].found
  <1>1. req[c].pc = "done" /\ req[c].stage = "inputs"
    BY DEF Rendered, PagesInv, TypeInv, RequestInv
  <1>2. Own(c) \in Seq(Txs)
    <2>1. req[c].block \in Blocks /\ req[c].offset \in Nat
      BY <1>1, ConstantsAssumption DEF PagesInv, TypeInv, RequestInv
    <2> QED BY <2>1, OwnTxidsSlice DEF Own
  <1>3. CASE NoLater
    <2>1. CoverOf(c) BY <1>3 DEF PagesInv, CoverInv
    <2>2. /\ ToSet(Own(c)) \subseteq ToSet(req[c].shown)
          /\ ToSet(req[c].list) \subseteq req[c].found
          /\ \A t \in ToSet(Own(c)) : ToSet(Vin[t]) \subseteq ToSet(req[c].list)
      BY <1>1, <2>1 DEF CoverOf
    <2> QED BY <2>2
  <1>4. CASE Copying
    <2>1. CopyOf(c) BY <1>4 DEF PagesInv, CopyInv
    <2>2. /\ req[c].shown = Own(c) /\ req[c].found = ToSet(req[c].list)
          /\ req[c].list = VinTxids(Own(c))
      BY <1>1, <2>1 DEF CopyOf
    <2>3. \A t \in ToSet(Own(c)) : ToSet(Vin[t]) \subseteq ToSet(VinTxids(Own(c)))
      BY <1>2, VinTxidsHold
    <2> QED BY <2>2, <2>3
  <1> QED BY <1>3, <1>4 DEF NothingTaken, NoLater, Copying, Alone

\* As long as nobody takes from the arrays of others, a rendered page shows every
\* transaction of its part of the block.
THEOREM PagesMissNothing == Spec => []PageMissesNothing
  <1>1. PagesInv => PageMissesNothing BY RenderedPage DEF PageMissesNothing, Own
  <1> QED BY <1>1, PagesInvHolds, PTL

\* And every transaction of that part has all the transactions its inputs spend
\* beside it, so its fee can be computed.
THEOREM PagesHaveTheirInputs == Spec => []InputsComplete
  <1>1. PagesInv => InputsComplete BY RenderedPage DEF InputsComplete, Own
  <1> QED BY <1>1, PagesInvHolds, PTL
===============================================================================
