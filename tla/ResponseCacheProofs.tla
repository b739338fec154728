------------------------- MODULE ResponseCacheProofs -------------------------
(***************************************************************************)
(* Theorems about ResponseCache, for every set of callers and calls, every *)
(* nesting of caches and all ages.                                         *)
(*                                                                         *)
(* The invariant bounds the age of every answer where it is kept: in the   *)
(* store until it expires, under way by MaxFetch, or by when a reply of    *)
(* redis has come, in the hands of a caller by the Bound of the call it    *)
(* answers.  The chain of calls a caller is in follows Inner, so that the  *)
(* bounds add up on the way back.                                          *)
(***************************************************************************)
EXTENDS ResponseCache, SequenceTheorems, TLAPS

\* An entry is kept under the key of its call, and expires before it is too
\* old for that call.
StoreInv ==
  \A k \in Keys :
    store[k] # Nothing =>
      /\ store[k] \in Entries
      /\ KeyOf(store[k].answer.call) = k
      /\ store[k].expires + Transit(mode)
           <= store[k].answer.readAt + Bound[mode][store[k].answer.call]

\* The call around another is the one that fetches with it.
PathInv ==
  \A c \in Callers :
    /\ \A i \in 1..(Len(path[c]) - 1) : Inner[path[c][i]] = path[c][i + 1]
    /\ pc[c] \in {"looking", "replied", "fetching", "answered", "returning"} => path[c] # <<>>
    /\ pc[c] \in {"fetching", "answered"} => Inner[Top(path[c])] = NoCall
    /\ pc[c] = "done" => Len(path[c]) = 1

\* What a caller has in hand answers the call it is in, and is fresh enough.
HandInv ==
  \A c \in Callers :
    /\ pc[c] \in {"replied", "answered", "returning", "done"} =>
         val[c] \in Answers /\ val[c].call = Top(path[c])
    /\ pc[c] = "answered" => now <= val[c].readAt + MaxFetch
    /\ pc[c] = "replied" =>
         /\ now <= sent[c] + Transit(mode)
         /\ sent[c] + Transit(mode) <= val[c].readAt + Bound[mode][val[c].call]
    /\ pc[c] = "returning" => now <= val[c].readAt + Bound[mode][val[c].call]

\* The part of the type invariant that is inductive on its own.
Types ==
  /\ mode \in Modes
  /\ now \in 0..MaxTime
  /\ store \in [Keys -> Entries \cup {Nothing}]
  /\ pc \in [Callers -> PCs]
  /\ path \in [Callers -> Seq(Calls)]
  /\ val \in [Callers -> Answers \cup {Nothing}]
  /\ sent \in [Callers -> 0..MaxTime]

IInv == Types /\ StoreInv /\ PathInv /\ HandInv

-----------------------------------------------------------------------------
\* A key names one call.
LEMMA KeysAreInjective ==
  ASSUME NEW a \in Calls, NEW b \in Calls, KeyOf(a) = KeyOf(b)
  PROVE  a = b
BY CallsAssumption DEF KeyOf

\* The last call of a path is one of the calls.
LEMMA TopIsCall ==
  ASSUME NEW s \in Seq(Calls), s # <<>>
  PROVE  Top(s) \in Calls /\ Len(s) \in 1..Len(s) /\ Len(s) \in Nat
<1>1. Len(s) \in Nat /\ Len(s) # 0
  BY EmptySeq, LenProperties
<1> QED
  BY <1>1, ElementOfSeq DEF Top

\* Ages, nested and not, with the back end there is.
LEMMA Bounds ==
  ASSUME mode \in Modes, NEW call \in Calls
  PROVE  /\ Bound[mode][call] \in Nat /\ Age[call] \in Nat /\ MaxFetch \in Nat
         /\ Transit(mode) \in Nat
         /\ Inner[call] = NoCall =>
              Bound[mode][call] = Age[call] + 2 * Transit(mode) + MaxFetch
         /\ Inner[call] # NoCall =>
              /\ Inner[call] \in Calls
              /\ Bound[mode][Inner[call]] \in Nat
              /\ Bound[mode][call] = Age[call] + 2 * Transit(mode) + Bound[mode][Inner[call]]
<1>1. Transit(mode) \in Nat
  BY TimeAssumption DEF Transit
<1>2. Bound[mode][call] \in Nat /\ \A other \in Calls : Bound[mode][other] \in Nat
  BY BoundAssumption
<1> QED
  BY <1>1, <1>2, BoundAssumption, TimeAssumption, InnerAssumption

\* Storing an answer that is fresh enough keeps the store fresh enough.
LEMMA StoreKeepsInv ==
  ASSUME Types, StoreInv, NEW answer \in Answers, mode' = mode,
         now + Age[answer.call] + 2 * Transit(mode) <= answer.readAt + Bound[mode][answer.call],
         Store(answer)
  PROVE  store' \in [Keys -> Entries \cup {Nothing}] /\ StoreInv'
<1> DEFINE k == KeyOf(answer.call)
           limit == answer.readAt + Bound[mode][answer.call]
<1>1. answer.call \in Calls /\ k \in Keys /\ mode \in Modes
  BY DEF Answers, Keys, Types
<1>2. /\ now + Age[answer.call] \in Nat /\ Age[answer.call] \in Nat /\ now \in Nat
      /\ Transit(mode) \in Nat /\ limit \in Nat
  BY <1>1, Bounds, TimeAssumption DEF Types, Answers
<1>4. ASSUME NEW delay \in 0..Transit(mode),
             store' = [store EXCEPT ![k] = Entry(answer, Age[answer.call], delay)]
      PROVE  store' \in [Keys -> Entries \cup {Nothing}] /\ StoreInv'
  <2> DEFINE e == Entry(answer, Age[answer.call], delay)
  <2>0. e.answer = answer /\ e.expires = now + delay + Age[answer.call]
    BY DEF Entry
  <2>a. e \in Entries /\ e.expires + Transit(mode) <= limit
    <3>1. /\ now + delay + Age[answer.call] \in Nat
          /\ now + delay + Age[answer.call] + Transit(mode) <= limit
      BY <1>2
    <3> QED
      BY <2>0, <3>1 DEF Entries, Entry
  <2> HIDE DEF e
  <2>1. store' \in [Keys -> Entries \cup {Nothing}]
    BY <1>1, <2>a, <1>4 DEF Types, e
  <2>2. ASSUME NEW j \in Keys, store'[j] # Nothing
        PROVE  /\ store'[j] \in Entries
               /\ KeyOf(store'[j].answer.call) = j
               /\ store'[j].expires + Transit(mode)
                    <= store'[j].answer.readAt + Bound[mode][store'[j].answer.call]
    <3>1. CASE j = k
      <4>1. store'[j] = e
        BY <3>1, <1>1, <1>4 DEF Types, e
      <4> QED
        BY <4>1, <3>1, <2>0, <2>a
    <3>2. CASE j # k
      <4>1. store'[j] = store[j]
        BY <3>2, <1>4 DEF Types
      <4> QED
        BY <4>1, <2>2 DEF StoreInv
    <3> QED
      BY <3>1, <3>2
  <2> QED
    BY <2>1, <2>2 DEF StoreInv
<1>5. CASE UNCHANGED store
  BY <1>5 DEF StoreInv, Types
<1> QED
  BY <1>4, <1>5 DEF Store

-----------------------------------------------------------------------------
LEMMA InitEstablishesInv == Init => IInv
<1> SUFFICES ASSUME Init PROVE IInv
  OBVIOUS
<1> USE DEF Init
<1>1. Types
  BY TimeAssumption DEF Types, PCs
<1>2. StoreInv /\ PathInv /\ HandInv
  BY DEF StoreInv, PathInv, HandInv
<1> QED
  BY <1>1, <1>2 DEF IInv

LEMMA AskKeepsInv ==
  ASSUME IInv, NEW c \in Callers, NEW call \in Calls, Ask(c, call)
  PROVE  IInv'
<1> USE DEF IInv
<1>1. /\ path' = [path EXCEPT ![c] = <<call>>]
      /\ pc' \in [Callers -> PCs]
      /\ pc'[c] \in {"rejected", "looking"}
      /\ \A d \in Callers \ {c} : pc'[d] = pc[d] /\ val'[d] = val[d] /\ path'[d] = path[d]
      /\ val' = [val EXCEPT ![c] = Nothing]
      /\ UNCHANGED <<mode, now, store, sent>>
  BY DEF Ask, Types, PCs
<1>2. <<call>> \in Seq(Calls) /\ Len(<<call>>) = 1 /\ path'[c] = <<call>> /\ <<call>> # <<>>
  BY <1>1 DEF Types
<1>3. Types'
  BY <1>1, <1>2 DEF Types
<1>4. StoreInv'
  BY <1>1 DEF StoreInv
<1>5. PathInv'
  BY <1>1, <1>2 DEF PathInv
<1>6. HandInv'
  <2>1. sent' = sent /\ mode' = mode /\ now' = now
    BY <1>1
  <2> QED
    BY <1>1, <2>1 DEF HandInv
<1> QED
  BY <1>3, <1>4, <1>5, <1>6

\* Starting a fetch extends the chain of calls.
LEMMA FetchKeepsInv ==
  ASSUME IInv, NEW c \in Callers, pc[c] = "looking", FetchFor(c),
         UNCHANGED <<mode, now, store, val, sent>>
  PROVE  IInv'
<1> USE DEF IInv
<1> DEFINE top == Top(path[c])
<1>1. /\ path[c] \in Seq(Calls) /\ path[c] # <<>>
      /\ top \in Calls
      /\ Len(path[c]) \in Nat /\ Len(path[c]) # 0
      /\ top = path[c][Len(path[c])]
  BY TopIsCall DEF Types, PathInv, Top
<1>2. CASE Inner[top] = NoCall
  <2>1. pc' = [pc EXCEPT ![c] = "fetching"] /\ path' = path
    BY <1>2 DEF FetchFor
  <2>2. Types'
    BY <2>1 DEF Types, PCs
  <2>3. StoreInv'
    BY DEF StoreInv
  <2>4. PathInv'
    BY <2>1, <1>1, <1>2 DEF PathInv, Types
  <2>5. HandInv'
    BY <2>1 DEF HandInv, Types
  <2> QED
    BY <2>2, <2>3, <2>4, <2>5
<1>3. CASE Inner[top] # NoCall
  <2>1. pc' = pc /\ path' = [path EXCEPT ![c] = Append(@, Inner[top])]
    BY <1>3 DEF FetchFor
  <2>2. Inner[top] \in Calls
    BY <1>1, <1>3, InnerAssumption
  <2>0. path'[c] = Append(path[c], Inner[top])
    BY <2>1 DEF Types
  <2> HIDE DEF top
  <2>3. /\ path'[c] \in Seq(Calls) /\ path'[c] # <<>>
        /\ Len(path'[c]) = Len(path[c]) + 1
        /\ \A i \in 1..Len(path[c]) : path'[c][i] = path[c][i]
        /\ path'[c][Len(path[c]) + 1] = Inner[top]
    BY <2>0, <2>2, <1>1, AppendProperties
  <2>4. Types'
    BY <2>1, <2>3 DEF Types
  <2>5. StoreInv'
    BY DEF StoreInv
  <2>6. PathInv'
    <3>1. \A i \in 1..(Len(path'[c]) - 1) : Inner[path'[c][i]] = path'[c][i + 1]
      <4>1. ASSUME NEW i \in 1..(Len(path'[c]) - 1)
            PROVE  Inner[path'[c][i]] = path'[c][i + 1]
        <5>1. CASE i = Len(path[c])
          BY <5>1, <2>3, <1>1
        <5>2. CASE i < Len(path[c])
          <6>1. i \in 1..(Len(path[c]) - 1) /\ i + 1 \in 1..Len(path[c]) /\ i \in 1..Len(path[c])
            BY <5>2, <2>3, <1>1
          <6> QED
            BY <6>1, <2>3 DEF PathInv
        <5> QED
          BY <5>1, <5>2, <2>3, <1>1
      <4> QED
        BY <4>1
    <3>2. \A d \in Callers \ {c} : path'[d] = path[d]
      BY <2>1 DEF Types
    <3> QED
      BY <3>1, <3>2, <2>1, <2>3 DEF PathInv
  <2>7. HandInv'
    BY <2>1 DEF HandInv, Types
  <2> QED
    BY <2>4, <2>5, <2>6, <2>7
<1> QED
  BY <1>2, <1>3

\* A hit hands out an entry that has not expired.
LEMMA LookUpKeepsInv ==
  ASSUME IInv, NEW c \in Callers, LookUp(c)
  PROVE  IInv'
<1> USE DEF IInv
<1> DEFINE k == KeyOf(Top(path[c]))
           e == store[k]
           to == IF mode = "redis" THEN "replied" ELSE "returning"
           at == IF mode = "redis" THEN now ELSE sent[c]
<1>1. pc[c] = "looking" /\ UNCHANGED <<mode, now, store>>
  BY DEF LookUp
<1>2. /\ path[c] \in Seq(Calls) /\ path[c] # <<>>
      /\ Top(path[c]) \in Calls
      /\ k \in Keys
  BY <1>1, TopIsCall DEF Types, PathInv, Keys
<1>3. CASE /\ Hit(e)
           /\ val' = [val EXCEPT ![c] = [e.answer EXCEPT !.stored = TRUE]]
           /\ pc' = [pc EXCEPT ![c] = to]
           /\ sent' = [sent EXCEPT ![c] = at]
           /\ UNCHANGED path
  <2>1. /\ e \in Entries
        /\ KeyOf(e.answer.call) = k
        /\ e.expires + Transit(mode) <= e.answer.readAt + Bound[mode][e.answer.call]
        /\ now <= e.expires
    BY <1>2, <1>3 DEF Hit, Fresh, StoreInv
  <2>2. /\ e.answer \in Answers /\ e.answer.call \in Calls
        /\ e.expires \in Nat /\ e.answer.readAt \in 0..MaxTime
    BY <2>1 DEF Entries, Answers
  <2>3. e.answer.call = Top(path[c])
    BY <2>1, <2>2, <1>2, KeysAreInjective
  <2>4. /\ val'[c] = [e.answer EXCEPT !.stored = TRUE]
        /\ val'[c] \in Answers
        /\ val'[c].call = e.answer.call
        /\ val'[c].readAt = e.answer.readAt
    BY <1>3, <2>2 DEF Answers, Types
  <2>5. /\ now + Transit(mode) <= val'[c].readAt + Bound[mode][val'[c].call]
        /\ now <= val'[c].readAt + Bound[mode][val'[c].call]
        /\ now <= now + Transit(mode)
    <3>1. /\ Transit(mode) \in Nat /\ Bound[mode][e.answer.call] \in Nat /\ now \in Nat
          /\ e.answer.readAt \in Nat
      BY <2>2, Bounds, TimeAssumption DEF Types
    <3> QED
      BY <2>1, <2>2, <2>4, <3>1
  <2>6. Types'
    BY <1>1, <1>3, <2>4 DEF Types, PCs
  <2>7. StoreInv'
    BY <1>1 DEF StoreInv
  <2>8. PathInv'
    BY <1>2, <1>3 DEF PathInv, Types
  <2>9. HandInv'
    <3>1. \A d \in Callers \ {c} :
            pc'[d] = pc[d] /\ val'[d] = val[d] /\ sent'[d] = sent[d] /\ path'[d] = path[d]
      BY <1>3 DEF Types
    <3>2. /\ (pc'[c] = "replied" /\ sent'[c] = now) \/ pc'[c] = "returning"
          /\ path'[c] = path[c]
      BY <1>3 DEF Types
    <3> HIDE DEF e, k, to, at
    <3> QED
      BY <1>1, <2>3, <2>4, <2>5, <3>1, <3>2 DEF HandInv
  <2> QED
    BY <2>6, <2>7, <2>8, <2>9
<1>4. CASE FetchFor(c) /\ UNCHANGED <<val, sent>>
  BY <1>1, <1>4, FetchKeepsInv
<1> QED
  BY <1>3, <1>4 DEF LookUp

\* A reply of redis comes while it may still be used.
LEMMA ReplyKeepsInv ==
  ASSUME IInv, NEW c \in Callers, ReplyComes(c)
  PROVE  IInv'
<1> USE DEF IInv
<1>1. /\ pc[c] = "replied"
      /\ pc' = [pc EXCEPT ![c] = "returning"]
      /\ sent' = [sent EXCEPT ![c] = 0]
      /\ UNCHANGED <<mode, now, store, path, val>>
  BY DEF ReplyComes
<1>2. now <= val[c].readAt + Bound[mode][val[c].call]
  <2>1. /\ now <= sent[c] + Transit(mode)
        /\ sent[c] + Transit(mode) <= val[c].readAt + Bound[mode][val[c].call]
        /\ val[c].call \in Calls /\ val[c].readAt \in 0..MaxTime
    BY <1>1 DEF HandInv, Answers
  <2>2. /\ now \in Nat /\ sent[c] \in Nat /\ Transit(mode) \in Nat
        /\ Bound[mode][val[c].call] \in Nat
    BY <2>1, Bounds, TimeAssumption DEF Types
  <2>3. val[c].readAt \in Nat
    BY <2>1, TimeAssumption
  <2> QED
    BY <2>1, <2>2, <2>3
<1>3. Types'
  BY <1>1, TimeAssumption DEF Types, PCs
<1>4. StoreInv' /\ PathInv'
  BY <1>1 DEF StoreInv, PathInv, Types
<1>5. HandInv'
  BY <1>1, <1>2 DEF HandInv, Types
<1> QED
  BY <1>3, <1>4, <1>5

LEMMA NodeAnswersKeepsInv ==
  ASSUME IInv, NEW c \in Callers, NodeAnswers(c)
  PROVE  IInv'
<1> USE DEF IInv
<1> DEFINE call == Top(path[c])
<1>1. /\ pc[c] = "fetching"
      /\ pc' = [pc EXCEPT ![c] = "answered"]
      /\ UNCHANGED <<mode, now, store, path, sent>>
  BY DEF NodeAnswers
<1>2. /\ path[c] \in Seq(Calls) /\ path[c] # <<>>
      /\ call \in Calls
      /\ Inner[call] = NoCall
  BY <1>1, TopIsCall DEF Types, PathInv
<1>3. PICK kind \in KindsOf[call] :
        val' = [val EXCEPT ![c] = [call |-> call, kind |-> kind,
                                   readAt |-> now, stored |-> FALSE]]
  BY DEF NodeAnswers
<1>4. /\ val'[c] \in Answers
      /\ val'[c].call = call
      /\ val'[c].readAt = now
  BY <1>2, <1>3, KindsAssumption DEF Answers, Types
<1>5. Types'
  BY <1>1, <1>3, <1>4 DEF Types, PCs
<1>6. StoreInv'
  BY <1>1 DEF StoreInv
<1>7. PathInv'
  BY <1>1, <1>2 DEF PathInv, Types
<1>8. now <= now + MaxFetch
  BY TimeAssumption DEF Types
<1>9. HandInv'
  BY <1>1, <1>3, <1>4, <1>8 DEF HandInv, Types
<1> QED
  BY <1>5, <1>6, <1>7, <1>9

\* A fetched answer is as old as its way back.
LEMMA CompleteKeepsInv ==
  ASSUME IInv, NEW c \in Callers, Complete(c)
  PROVE  IInv'
<1> USE DEF IInv
<1>1. /\ pc[c] = "answered"
      /\ Store(val[c])
      /\ pc' = [pc EXCEPT ![c] = "returning"]
      /\ UNCHANGED <<mode, now, path, val, sent>>
  BY DEF Complete
<1>2. /\ val[c] \in Answers /\ val[c].call \in Calls
      /\ val[c].readAt \in 0..MaxTime
      /\ val[c].call = Top(path[c])
      /\ Inner[val[c].call] = NoCall
      /\ now <= val[c].readAt + MaxFetch
  BY <1>1 DEF HandInv, PathInv, Answers
<1>3. /\ now + Age[val[c].call] + 2 * Transit(mode) <= val[c].readAt + Bound[mode][val[c].call]
      /\ now <= val[c].readAt + Bound[mode][val[c].call]
  BY <1>2, Bounds, TimeAssumption DEF Types
<1>4. store' \in [Keys -> Entries \cup {Nothing}] /\ StoreInv'
  BY <1>1, <1>2, <1>3, StoreKeepsInv
<1>5. Types'
  BY <1>1, <1>4 DEF Types, PCs
<1>6. PathInv'
  BY <1>1 DEF PathInv, Types
<1>7. HandInv'
  BY <1>1, <1>2, <1>3 DEF HandInv, Types
<1> QED
  BY <1>4, <1>5, <1>6, <1>7

LEMMA FetchFailsKeepsInv ==
  ASSUME IInv, NEW c \in Callers, FetchFails(c)
  PROVE  IInv'
<1> USE DEF IInv
<1>1. /\ pc' = [pc EXCEPT ![c] = "rejected"]
      /\ val' = [val EXCEPT ![c] = Nothing]
      /\ UNCHANGED <<mode, now, store, path, sent>>
  BY DEF FetchFails
<1>2. Types'
  BY <1>1 DEF Types, PCs
<1>3. StoreInv'
  BY <1>1 DEF StoreInv
<1>4. PathInv'
  BY <1>1 DEF PathInv, Types
<1>5. HandInv'
  BY <1>1 DEF HandInv, Types
<1> QED
  BY <1>2, <1>3, <1>4, <1>5

\* The answer of a call inherits the age of the inner one.
LEMMA ReturnKeepsInv ==
  ASSUME IInv, NEW c \in Callers, ReturnToCaller(c) \/ ReturnToCall(c)
  PROVE  IInv'
<1> USE DEF IInv
<1>1. /\ pc[c] = "returning"
      /\ path[c] \in Seq(Calls) /\ path[c] # <<>>
      /\ Len(path[c]) \in Nat
      /\ val[c] \in Answers /\ val[c].call \in Calls
      /\ val[c].readAt \in 0..MaxTime
      /\ val[c].call = Top(path[c])
      /\ now <= val[c].readAt + Bound[mode][val[c].call]
  BY LenProperties DEF ReturnToCaller, ReturnToCall, Types, PathInv, HandInv, Answers
<1>2. CASE ReturnToCaller(c)
  <2>1. /\ pc' = [pc EXCEPT ![c] = "done"] /\ Len(path[c]) = 1
        /\ UNCHANGED <<mode, now, store, path, val, sent>>
    BY <1>2 DEF ReturnToCaller
  <2>2. Types'
    BY <2>1 DEF Types, PCs
  <2>3. StoreInv'
    BY <2>1 DEF StoreInv
  <2>4. PathInv' /\ HandInv'
    BY <1>1, <2>1 DEF PathInv, HandInv, Types
  <2> QED
    BY <2>2, <2>3, <2>4
<1>3. CASE ReturnToCall(c)
  <2> DEFINE n == Len(path[c])
             rest == Pop(path[c])
             outer == Top(rest)
  <2>1. /\ n > 1
        /\ path' = [path EXCEPT ![c] = rest]
        /\ UNCHANGED <<mode, now, pc, sent>>
    BY <1>3 DEF ReturnToCall
  <2>2. /\ \A i \in 1..(n - 1) : path[c][i] \in Calls
        /\ n - 1 \in Int /\ 1 \in Int
    BY <1>1, ElementOfSeq
  <2>3. /\ rest \in Seq(Calls)
        /\ Len(rest) = n - 1
        /\ \A i \in 1..(n - 1) : rest[i] = path[c][i]
    BY <1>1, <2>1, <2>2, SubSeqProperties DEF Pop
  <2>4. /\ rest # <<>> /\ outer \in Calls
        /\ outer = path[c][n - 1]
        /\ Inner[outer] = Top(path[c])
    <3>1. rest # <<>>
      BY <1>1, <2>1, <2>3, EmptySeq
    <3>2. outer = path[c][n - 1]
      BY <1>1, <2>1, <2>3 DEF Top
    <3>3. Inner[path[c][n - 1]] = path[c][n]
      BY <1>1, <2>1 DEF PathInv
    <3> QED
      BY <3>1, <3>2, <3>3, <2>1, <2>2, <1>1 DEF Top
  <2>5. /\ Inner[outer] = val[c].call /\ Inner[outer] # NoCall
        /\ Bound[mode][outer] = Age[outer] + 2 * Transit(mode) + Bound[mode][val[c].call]
        /\ Age[outer] \in Nat /\ Transit(mode) \in Nat
        /\ Bound[mode][val[c].call] \in Nat
    BY <1>1, <2>4, Bounds, NoCallAssumption DEF Types
  <2>6. PICK kind \in KindsOf[outer] :
          /\ val' = [val EXCEPT ![c] = [call |-> outer, kind |-> kind,
                                        readAt |-> val[c].readAt, stored |-> FALSE]]
          /\ Store([call |-> outer, kind |-> kind,
                    readAt |-> val[c].readAt, stored |-> FALSE])
    BY <1>3 DEF ReturnToCall
  <2> DEFINE answer == [call |-> outer, kind |-> kind,
                        readAt |-> val[c].readAt, stored |-> FALSE]
  <2>7. /\ answer \in Answers /\ answer.call = outer
        /\ answer.readAt = val[c].readAt
    BY <1>1, <2>4, KindsAssumption DEF Answers
  <2>8. /\ now + Age[outer] + 2 * Transit(mode) <= val[c].readAt + Bound[mode][outer]
        /\ now <= val[c].readAt + Bound[mode][outer]
    BY <1>1, <2>5, TimeAssumption DEF Types
  <2>9. store' \in [Keys -> Entries \cup {Nothing}] /\ StoreInv'
    <3>1. now + Age[answer.call] + 2 * Transit(mode) <= answer.readAt + Bound[mode][answer.call]
      BY <2>7, <2>8
    <3>2. Store(answer)
      BY <2>6
    <3> HIDE DEF answer
    <3> QED
      BY <2>1, <2>7, <3>1, <3>2, StoreKeepsInv
  <2>10. val'[c] = answer /\ path'[c] = rest /\ pc'[c] = "returning"
    BY <1>1, <2>1, <2>6 DEF Types
  <2>11. Types'
    BY <2>1, <2>3, <2>6, <2>7, <2>9 DEF Types
  <2>12. PathInv'
    <3>1. \A i \in 1..(Len(rest) - 1) : Inner[rest[i]] = rest[i + 1]
      BY <1>1, <2>1, <2>3 DEF PathInv
    <3>2. \A d \in Callers \ {c} : path'[d] = path[d]
      BY <2>1 DEF Types
    <3> HIDE DEF rest, n, outer
    <3> QED
      BY <3>1, <3>2, <2>1, <2>4, <2>10 DEF PathInv
  <2>13. HandInv'
    <3>1. \A d \in Callers \ {c} : path'[d] = path[d] /\ val'[d] = val[d]
      BY <2>1, <2>6 DEF Types
    <3>2. /\ val'[c] \in Answers /\ val'[c].call = Top(path'[c])
          /\ now <= val'[c].readAt + Bound[mode][val'[c].call]
      BY <2>7, <2>8, <2>10
    <3>3. pc' = pc /\ now' = now /\ mode' = mode /\ sent' = sent
      BY <2>1
    <3> HIDE DEF rest, n, outer, answer
    <3> QED
      BY <3>1, <3>2, <3>3, <1>1 DEF HandInv
  <2> QED
    BY <2>9, <2>11, <2>12, <2>13
<1> QED
  BY <1>2, <1>3

LEMMA LoseKeepsInv ==
  ASSUME IInv, NEW k \in Keys, Lose(k)
  PROVE  IInv'
<1> USE DEF IInv
<1>1. /\ store' = [store EXCEPT ![k] = Nothing]
      /\ UNCHANGED <<mode, now, pc, path, val, sent>>
  BY DEF Lose
<1>2. Types'
  BY <1>1 DEF Types
<1>3. StoreInv'
  BY <1>1 DEF StoreInv, Types
<1>4. PathInv' /\ HandInv'
  BY <1>1 DEF PathInv, HandInv
<1> QED
  BY <1>2, <1>3, <1>4

\* The clock moves only while no answer is in a caller's hands and none is
\* under way for longer than MaxFetch, or a reply than it may take.
LEMMA TickKeepsInv ==
  ASSUME IInv, Tick
  PROVE  IInv'
<1> USE DEF IInv
<1>1. /\ now' = now + 1 /\ now < MaxTime
      /\ \A c \in Callers :
           /\ pc[c] # "returning"
           /\ pc[c] = "answered" => now < val[c].readAt + MaxFetch
           /\ pc[c] = "replied" => now < sent[c] + Transit(mode)
      /\ UNCHANGED <<mode, store, pc, path, val, sent>>
  BY DEF Tick, Microtask
<1>2. Types'
  BY <1>1, TimeAssumption DEF Types
<1>3. StoreInv' /\ PathInv'
  BY <1>1 DEF StoreInv, PathInv
<1>4. HandInv'
  <2>1. ASSUME NEW c \in Callers, pc[c] = "answered"
        PROVE  now + 1 <= val[c].readAt + MaxFetch
    <3>1. val[c].readAt \in 0..MaxTime
      BY <2>1 DEF HandInv, Answers
    <3> QED
      BY <3>1, <2>1, <1>1, TimeAssumption DEF Types
  <2>2. ASSUME NEW c \in Callers, pc[c] = "replied"
        PROVE  now + 1 <= sent[c] + Transit(mode)
    <3>1. sent[c] \in Nat /\ Transit(mode) \in Nat /\ now \in Nat
      BY TimeAssumption DEF Types, Transit
    <3> QED
      BY <3>1, <2>2, <1>1
  <2> QED
    BY <2>1, <2>2, <1>1 DEF HandInv
<1> QED
  BY <1>2, <1>3, <1>4

LEMMA NextKeepsInv == IInv /\ [Next]_vars => IInv'
<1> SUFFICES ASSUME IInv, [Next]_vars PROVE IInv'
  OBVIOUS
<1>1. CASE Tick
  BY <1>1, TickKeepsInv
<1>2. ASSUME NEW k \in Keys, Lose(k) PROVE IInv'
  BY <1>2, LoseKeepsInv
<1>3. ASSUME NEW c \in Callers, NEW call \in Calls, Ask(c, call) PROVE IInv'
  BY <1>3, AskKeepsInv
<1>4. ASSUME NEW c \in Callers, LookUp(c) PROVE IInv'
  BY <1>4, LookUpKeepsInv
<1>11. ASSUME NEW c \in Callers, ReplyComes(c) PROVE IInv'
  BY <1>11, ReplyKeepsInv
<1>5. ASSUME NEW c \in Callers, RedisFails(c) PROVE IInv'
  BY <1>5, FetchKeepsInv DEF RedisFails
<1>6. ASSUME NEW c \in Callers, NodeAnswers(c) PROVE IInv'
  BY <1>6, NodeAnswersKeepsInv
<1>7. ASSUME NEW c \in Callers, Complete(c) PROVE IInv'
  BY <1>7, CompleteKeepsInv
<1>8. ASSUME NEW c \in Callers, FetchFails(c) PROVE IInv'
  BY <1>8, FetchFailsKeepsInv
<1>9. ASSUME NEW c \in Callers, ReturnToCaller(c) \/ ReturnToCall(c) PROVE IInv'
  BY <1>9, ReturnKeepsInv
<1>10. CASE UNCHANGED vars
  BY <1>10 DEF vars, IInv, Types, StoreInv, PathInv, HandInv
<1> QED
  BY <1>1, <1>2, <1>3, <1>4, <1>5, <1>6, <1>7, <1>8, <1>9, <1>10, <1>11 DEF Next

-----------------------------------------------------------------------------
\* The inductive invariant holds in every reachable state of the cache.
THEOREM InvariantHolds == Spec => []IInv
BY InitEstablishesInv, NextKeepsInv, PTL DEF Spec

\* Variables keep their types: a caller past its lookup is in some call and
\* has an answer in hand from the moment the node gave one.
THEOREM TypeCorrect == Spec => []TypeOK
<1>1. IInv => TypeOK
  <2> SUFFICES ASSUME IInv PROVE TypeOK
    OBVIOUS
  <2>1. ASSUME NEW c \in Callers, pc[c] = "done"
        PROVE  path[c] # <<>>
    <3>1. Len(path[c]) = 1
      BY <2>1 DEF IInv, PathInv
    <3>2. Len(<<>>) = 0
      BY EmptySeq
    <3> QED
      BY <3>1, <3>2
  <2> QED
    BY <2>1 DEF IInv, Types, PathInv, HandInv, TypeOK, PCs
<1> QED
  BY <1>1, InvariantHolds, PTL

\* A delivered answer is never older than the ages of the caches it came
\* through, the time of one RPC and, with redis, of a SET and a GET for each
\* of them, for every nesting and every age.
THEOREM StalenessIsBounded == Spec => BoundedStaleness
<1>1. IInv /\ [Next]_vars =>
        \A c \in Callers :
          pc[c] # "done" /\ pc'[c] = "done" => now <= val[c].readAt + Bound[mode][val[c].call]
  <2> SUFFICES ASSUME IInv, [Next]_vars, NEW c \in Callers,
                      pc[c] # "done", pc'[c] = "done"
               PROVE  now <= val[c].readAt + Bound[mode][val[c].call]
    OBVIOUS
  <2>1. pc[c] = "returning"
    BY DEF IInv, Types, PCs, Next, vars, Tick, Lose, Ask, LookUp, ReplyComes, FetchFor, RedisFails,
           NodeAnswers, Complete, FetchFails, ReturnToCaller, ReturnToCall
  <2> QED
    BY <2>1 DEF IInv, HandInv
<1> QED
  BY <1>1, InvariantHolds, PTL DEF Spec, BoundedStaleness

\* The call around the one a caller is in.
LEMMA OuterIsCall ==
  ASSUME Types, NEW c \in Callers, Len(path[c]) > 1
  PROVE  /\ Pop(path[c]) \in Seq(Calls) /\ Pop(path[c]) # <<>>
         /\ Pop(path[c])[1] = path[c][1]
         /\ Top(Pop(path[c])) \in Calls
<1> DEFINE n == Len(path[c])
<1>1. path[c] \in Seq(Calls) /\ n \in Nat /\ n - 1 \in Int /\ 1 \in Int
  BY LenProperties DEF Types
<1>2. \A i \in 1..(n - 1) : path[c][i] \in Calls
  BY <1>1, ElementOfSeq
<1>3. /\ Pop(path[c]) \in Seq(Calls) /\ Len(Pop(path[c])) = n - 1
      /\ \A i \in 1..(n - 1) : Pop(path[c])[i] = path[c][i]
  BY <1>1, <1>2, SubSeqProperties DEF Pop
<1>4. Pop(path[c]) # <<>>
  BY <1>1, <1>3, EmptySeq
<1> QED
  BY <1>1, <1>3, <1>4, TopIsCall

-----------------------------------------------------------------------------
\* What conditions refuse.

\* What may come out of the store.
Reusable(answer) == Accepts(answer) /\ answer.kind # "falsy"

HasAnswer(c) == pc[c] \in {"replied", "answered", "returning", "done"}

\* Entries were accepted, and a stored answer in hand was a hit.
RefusedInv ==
  /\ \A k \in Keys : store[k] # Nothing => Accepts(store[k].answer)
  /\ \A c \in Callers : HasAnswer(c) /\ val[c].stored => Reusable(val[c])

\* A set keeps only what the condition of its call accepts.
LEMMA StoreIsAccepted ==
  ASSUME Types, RefusedInv, NEW answer \in Answers, Store(answer)
  PROVE  \A k \in Keys : store'[k] # Nothing => Accepts(store'[k].answer)
<1>1. store \in [Keys -> Entries \cup {Nothing}]
  BY DEF Types
<1>2. \A k \in Keys : store[k] # Nothing => Accepts(store[k].answer)
  BY DEF RefusedInv
<1>3. CASE UNCHANGED store
  BY <1>2, <1>3
<1>4. ASSUME Accepts(answer), NEW delay \in 0..Transit(mode),
             store' = [store EXCEPT ![KeyOf(answer.call)] = Entry(answer, Age[answer.call], delay)]
      PROVE  \A k \in Keys : store'[k] # Nothing => Accepts(store'[k].answer)
  <2> SUFFICES ASSUME NEW k \in Keys, store'[k] # Nothing PROVE Accepts(store'[k].answer)
    OBVIOUS
  <2>1. CASE k = KeyOf(answer.call)
    <3>1. store'[k].answer = answer
      BY <1>1, <1>4, <2>1 DEF Entry
    <3> QED
      BY <1>4, <3>1
  <2>2. CASE k # KeyOf(answer.call)
    <3>1. store'[k] = store[k]
      BY <1>1, <1>4, <2>2
    <3> QED
      BY <1>2, <3>1
  <2> QED
    BY <2>1, <2>2
<1> QED
  BY <1>3, <1>4 DEF Store

\* Every step keeps what was refused out of the store and out of hand.
LEMMA NextKeepsRefused == IInv /\ RefusedInv /\ [Next]_vars => RefusedInv'
<1> SUFFICES ASSUME IInv, RefusedInv, [Next]_vars PROVE RefusedInv'
  OBVIOUS
<1> USE DEF IInv
<1>a. /\ Types /\ pc \in [Callers -> PCs] /\ val \in [Callers -> Answers \cup {Nothing}]
      /\ store \in [Keys -> Entries \cup {Nothing}]
  BY DEF Types
<1>b. \A c \in Callers : HasAnswer(c) /\ val[c].stored => Reusable(val[c])
  BY DEF RefusedInv
<1>c. \A k \in Keys : store[k] # Nothing => Accepts(store[k].answer)
  BY DEF RefusedInv
<1>1. CASE Tick \/ UNCHANGED vars
  BY <1>1 DEF Tick, vars, RefusedInv, HasAnswer, Reusable, Accepts
<1>2. ASSUME NEW k \in Keys, Lose(k) PROVE RefusedInv'
  BY <1>a, <1>2 DEF Lose, RefusedInv, HasAnswer, Reusable, Accepts
<1>3. ASSUME NEW c \in Callers, NEW call \in Calls, Ask(c, call) PROVE RefusedInv'
  BY <1>a, <1>3 DEF Ask, RefusedInv, HasAnswer, Reusable, Accepts
<1>4. ASSUME NEW c \in Callers, LookUp(c) PROVE RefusedInv'
  <2> DEFINE e == store[KeyOf(Top(path[c]))]
  <2>1. UNCHANGED store /\ pc[c] = "looking"
    BY <1>4 DEF LookUp
  <2>2. CASE /\ Hit(e)
             /\ val' = [val EXCEPT ![c] = [e.answer EXCEPT !.stored = TRUE]]
             /\ pc' = [pc EXCEPT ![c] = IF mode = "redis" THEN "replied" ELSE "returning"]
    <3>1. path[c] \in Seq(Calls) /\ path[c] # <<>>
      BY <2>1 DEF Types, PathInv
    <3>2. KeyOf(Top(path[c])) \in Keys
      BY <3>1, TopIsCall DEF Keys
    <3>3. e # Nothing /\ e \in Entries /\ e.answer.kind # "falsy" /\ Accepts(e.answer)
      BY <1>a, <1>c, <2>2, <3>2 DEF Hit, Fresh
    <3> HIDE DEF e
    <3>4. e.answer \in Answers
      BY <3>3 DEF Entries
    <3>5. /\ val'[c].kind = e.answer.kind /\ val'[c].call = e.answer.call
      BY <1>a, <2>2, <3>4 DEF Answers
    <3>6. Reusable(val'[c])
      BY <3>3, <3>5 DEF Reusable, Accepts
    <3>7. \A d \in Callers \ {c} : pc'[d] = pc[d] /\ val'[d] = val[d]
      BY <1>a, <2>2
    <3> QED
      BY <1>b, <1>c, <2>1, <3>6, <3>7 DEF RefusedInv, HasAnswer, Reusable, Accepts
  <2>3. CASE FetchFor(c) /\ UNCHANGED val
    <3>1. \A d \in Callers : pc'[d] # pc[d] => pc'[d] = "fetching"
      BY <1>a, <2>3 DEF FetchFor
    <3> QED
      BY <1>b, <1>c, <2>1, <2>3, <3>1 DEF RefusedInv, HasAnswer, Reusable, Accepts
  <2> QED
    BY <1>4, <2>2, <2>3 DEF LookUp
<1>11. ASSUME NEW c \in Callers, ReplyComes(c) PROVE RefusedInv'
  <2>1. \A d \in Callers : HasAnswer(d)' => HasAnswer(d)
    BY <1>a, <1>11 DEF ReplyComes, HasAnswer
  <2> QED
    BY <1>b, <1>c, <1>11, <2>1 DEF ReplyComes, RefusedInv, Reusable, Accepts
<1>5. ASSUME NEW c \in Callers, RedisFails(c) PROVE RefusedInv'
  <2>1. \A d \in Callers : pc'[d] # pc[d] => pc'[d] = "fetching"
    BY <1>a, <1>5 DEF RedisFails, FetchFor
  <2> QED
    BY <1>b, <1>c, <1>5, <2>1 DEF RedisFails, RefusedInv, HasAnswer, Reusable, Accepts
<1>6. ASSUME NEW c \in Callers, NodeAnswers(c) PROVE RefusedInv'
  <2>1. PICK kind \in KindsOf[Top(path[c])] :
          val' = [val EXCEPT ![c] = [call |-> Top(path[c]), kind |-> kind,
                                     readAt |-> now, stored |-> FALSE]]
    BY <1>6 DEF NodeAnswers
  <2>2. val'[c].stored = FALSE
    BY <1>a, <2>1
  <2>3. \A d \in Callers \ {c} : pc'[d] = pc[d] /\ val'[d] = val[d]
    BY <1>a, <1>6, <2>1 DEF NodeAnswers
  <2> QED
    BY <1>b, <1>c, <1>6, <2>2, <2>3 DEF NodeAnswers, RefusedInv, HasAnswer, Reusable, Accepts
<1>7. ASSUME NEW c \in Callers, Complete(c) PROVE RefusedInv'
  <2>1. val[c] \in Answers /\ HasAnswer(c) /\ UNCHANGED val
    BY <1>7 DEF Complete, HandInv, HasAnswer
  <2>2. \A k \in Keys : store'[k] # Nothing => Accepts(store'[k].answer)
    BY <1>7, <2>1, StoreIsAccepted DEF Complete
  <2>3. \A d \in Callers : HasAnswer(d)' => HasAnswer(d)
    BY <1>a, <1>7, <2>1 DEF Complete, HasAnswer
  <2> QED
    BY <1>b, <2>1, <2>2, <2>3 DEF RefusedInv, Reusable, Accepts
<1>8. ASSUME NEW c \in Callers, FetchFails(c) PROVE RefusedInv'
  BY <1>a, <1>8 DEF FetchFails, RefusedInv, HasAnswer, Reusable, Accepts
<1>9. ASSUME NEW c \in Callers, ReturnToCaller(c) PROVE RefusedInv'
  <2>1. \A d \in Callers : HasAnswer(d)' => HasAnswer(d)
    BY <1>a, <1>9 DEF ReturnToCaller, HasAnswer
  <2> QED
    BY <1>b, <1>c, <1>9, <2>1 DEF ReturnToCaller, RefusedInv, Reusable, Accepts
<1>10. ASSUME NEW c \in Callers, ReturnToCall(c) PROVE RefusedInv'
  <2> DEFINE outer == Top(Pop(path[c]))
  <2>1. PICK kind \in KindsOf[outer] :
          LET answer == [call |-> outer, kind |-> kind, readAt |-> val[c].readAt, stored |-> FALSE]
          IN val' = [val EXCEPT ![c] = answer] /\ Store(answer)
    BY <1>10 DEF ReturnToCall
  <2>2. pc[c] = "returning" /\ path[c] \in Seq(Calls) /\ Len(path[c]) > 1
        /\ val[c] \in Answers /\ UNCHANGED pc
    BY <1>10 DEF ReturnToCall, Types, HandInv
  <2>4. outer \in Calls
    BY <2>2, OuterIsCall
  <2> HIDE DEF outer
  <2>5. [call |-> outer, kind |-> kind, readAt |-> val[c].readAt, stored |-> FALSE] \in Answers
    BY <2>1, <2>2, <2>4, KindsAssumption DEF Answers
  <2>6. \A k \in Keys : store'[k] # Nothing => Accepts(store'[k].answer)
    BY <2>1, <2>5, StoreIsAccepted
  <2>7. val'[c].stored = FALSE /\ \A d \in Callers \ {c} : val'[d] = val[d]
    BY <1>a, <2>1
  <2> QED
    BY <1>b, <2>2, <2>6, <2>7 DEF RefusedInv, HasAnswer, Reusable, Accepts
<1> QED
  BY <1>1, <1>2, <1>3, <1>4, <1>5, <1>6, <1>7, <1>8, <1>9, <1>10, <1>11 DEF Next

\* No null, no falsy answer and no transaction its condition refused ever
\* comes out of a cache, however misses overlap and entries are lost.
THEOREM RefusedIsNotReused == Spec => []NothingRefusedIsReused
<1>1. Init => RefusedInv
  BY DEF Init, RefusedInv, HasAnswer
<1>2. IInv /\ RefusedInv => NothingRefusedIsReused
  <2> SUFFICES ASSUME IInv, RefusedInv, NEW c \in Callers, pc[c] = "done", val[c].stored
               PROVE  /\ val[c].kind \notin {"null", "falsy"}
                      /\ val[c].call \in Conditional => val[c].kind = "plain"
    BY DEF NothingRefusedIsReused
  <2>1. Reusable(val[c])
    BY DEF RefusedInv, HasAnswer
  <2>2. val[c].kind \in Kinds
    BY DEF IInv, HandInv, Answers
  <2> QED
    BY <2>1, <2>2 DEF Reusable, Accepts, Kinds
<1> QED
  BY <1>1, <1>2, NextKeepsRefused, InvariantHolds, PTL DEF Spec

\* With a cache, in memory or in redis, a call is rejected only by its
\* fetch: neither a failing look-up nor a lost entry rejects it.
THEOREM CacheFailsNoCall ==
  ASSUME "none" \notin Modes
  PROVE  Spec => RejectedOnlyByFetch
<1>1. IInv /\ [Next]_vars =>
        \A c \in Callers :
          pc'[c] = "rejected" /\ pc[c] # "rejected" => pc[c] \in {"fetching", "answered"}
  <2> SUFFICES ASSUME IInv, [Next]_vars, NEW c \in Callers,
                      pc'[c] = "rejected", pc[c] # "rejected"
               PROVE  pc[c] \in {"fetching", "answered"}
    OBVIOUS
  <2>1. mode # "none" /\ pc \in [Callers -> PCs]
    BY DEF IInv, Types
  <2>2. PICK d \in Callers : FetchFails(d)
    BY <2>1 DEF Next, vars, Tick, Lose, Ask, LookUp, ReplyComes, RedisFails, FetchFor,
                NodeAnswers, Complete, ReturnToCaller, ReturnToCall
  <2> QED
    BY <2>1, <2>2 DEF FetchFails
<1> QED
  BY <1>1, InvariantHolds, PTL DEF RejectedOnlyByFetch, Spec
-----------------------------------------------------------------------------
\* ResponseCache implements FreshAnswers.

\* What the node has said: of the call, and not in the future.
Given(answer, time) == answer.kind \in KindsOf[answer.call] /\ answer.readAt <= time

GivenInv ==
  /\ \A k \in Keys : store[k] # Nothing => Given(store[k].answer, now)
  /\ \A c \in Callers : HasAnswer(c) => Given(val[c], now)

\* A set keeps only what the node has said.
LEMMA StoreIsGiven ==
  ASSUME Types, GivenInv, NEW answer \in Answers, Given(answer, now), Store(answer)
  PROVE  \A k \in Keys : store'[k] # Nothing => Given(store'[k].answer, now)
<1>1. store \in [Keys -> Entries \cup {Nothing}]
  BY DEF Types
<1>2. \A k \in Keys : store[k] # Nothing => Given(store[k].answer, now)
  BY DEF GivenInv
<1>3. CASE UNCHANGED store
  BY <1>2, <1>3 DEF Given
<1>4. ASSUME NEW delay \in 0..Transit(mode),
             store' = [store EXCEPT ![KeyOf(answer.call)] = Entry(answer, Age[answer.call], delay)]
      PROVE  \A k \in Keys : store'[k] # Nothing => Given(store'[k].answer, now)
  <2> SUFFICES ASSUME NEW k \in Keys, store'[k] # Nothing PROVE Given(store'[k].answer, now)
    OBVIOUS
  <2>1. CASE k = KeyOf(answer.call)
    <3>1. store'[k].answer = answer
      BY <1>1, <1>4, <2>1 DEF Entry
    <3> QED
      BY <3>1 DEF Given
  <2>2. CASE k # KeyOf(answer.call)
    <3>1. store'[k] = store[k]
      BY <1>1, <1>4, <2>2
    <3> QED
      BY <1>2, <2>2, <3>1 DEF Given
  <2> QED
    BY <2>1, <2>2
<1> QED
  BY <1>3, <1>4 DEF Store

\* What was said of a call stays said as time goes on.
LEMMA GivenLasts ==
  ASSUME Types, Types', now <= now', NEW answer \in Answers, Given(answer, now)
  PROVE  Given(answer, now')
BY TimeAssumption DEF Given, Types, Answers

\* Steps that leave the store alone and give nobody an answer.
LEMMA QuietKeepsGiven ==
  ASSUME IInv, IInv', GivenInv, now <= now',
         \A k \in Keys : store'[k] # Nothing => store'[k] = store[k],
         \A c \in Callers : HasAnswer(c)' => HasAnswer(c) /\ val'[c] = val[c]
  PROVE  GivenInv'
<1>1. Types /\ Types'
  BY DEF IInv
<1>2. ASSUME NEW k \in Keys, store'[k] # Nothing PROVE Given(store'[k].answer, now')
  <2>1. store[k] # Nothing /\ store'[k] = store[k] /\ Given(store[k].answer, now)
    BY <1>2 DEF GivenInv
  <2>2. store[k].answer \in Answers
    BY <1>1, <2>1 DEF Types, Entries
  <2> QED
    BY <1>1, <2>1, <2>2, GivenLasts
<1>3. ASSUME NEW c \in Callers, HasAnswer(c)' PROVE Given(val'[c], now')
  <2>1. HasAnswer(c) /\ val'[c] = val[c] /\ Given(val[c], now)
    BY <1>3 DEF GivenInv
  <2>2. val[c] \in Answers
    BY <2>1 DEF IInv, HandInv, HasAnswer
  <2> QED
    BY <1>1, <2>1, <2>2, GivenLasts
<1> QED
  BY <1>2, <1>3 DEF GivenInv

\* Steps that put what the node has said in one caller's hands.
LEMMA HandOverKeepsGiven ==
  ASSUME GivenInv, NEW c \in Callers, now' = now, Given(val'[c], now),
         \A k \in Keys : store'[k] # Nothing => Given(store'[k].answer, now),
         \A d \in Callers \ {c} : HasAnswer(d)' => HasAnswer(d) /\ val'[d] = val[d]
  PROVE  GivenInv'
<1>1. ASSUME NEW d \in Callers, HasAnswer(d)' PROVE Given(val'[d], now)
  BY <1>1 DEF GivenInv
<1> QED
  BY <1>1 DEF GivenInv

\* Every step keeps what is in the store and in hand what the node said.
LEMMA NextKeepsGiven == IInv /\ IInv' /\ GivenInv /\ [Next]_vars => GivenInv'
<1> SUFFICES ASSUME IInv, IInv', GivenInv, [Next]_vars PROVE GivenInv'
  OBVIOUS
<1>a. /\ Types /\ now \in Nat /\ pc \in [Callers -> PCs]
      /\ val \in [Callers -> Answers \cup {Nothing}]
      /\ store \in [Keys -> Entries \cup {Nothing}]
  BY TimeAssumption DEF IInv, Types
<1>b. \A d \in Callers : HasAnswer(d) => Given(val[d], now)
  BY DEF GivenInv
<1>c. \A k \in Keys : store[k] # Nothing => Given(store[k].answer, now)
  BY DEF GivenInv
<1>1. CASE Tick \/ UNCHANGED vars
  <2>1. now <= now' /\ store' = store /\ pc' = pc /\ val' = val
    BY <1>1, <1>a DEF Tick, vars
  <2> QED
    BY <2>1, QuietKeepsGiven DEF HasAnswer
<1>2. ASSUME NEW k \in Keys, Lose(k) PROVE GivenInv'
  <2>1. /\ now <= now' /\ pc' = pc /\ val' = val
        /\ \A j \in Keys : store'[j] # Nothing => store'[j] = store[j]
    BY <1>2, <1>a DEF Lose
  <2> QED
    BY <2>1, QuietKeepsGiven DEF HasAnswer
<1>3. ASSUME NEW c \in Callers,
             \/ \E call \in Calls : Ask(c, call)
             \/ RedisFails(c) \/ FetchFails(c) \/ ReturnToCaller(c) \/ ReplyComes(c)
             \/ LookUp(c) /\ FetchFor(c) /\ UNCHANGED val
      PROVE  GivenInv'
  <2>1. now' = now /\ store' = store
    BY <1>3 DEF Ask, RedisFails, FetchFails, ReturnToCaller, ReplyComes, LookUp
  <2>2. \A d \in Callers \ {c} : pc'[d] = pc[d] /\ val'[d] = val[d]
    BY <1>3, <1>a DEF Ask, RedisFails, FetchFails, ReturnToCaller, ReplyComes, FetchFor
  <2>3. HasAnswer(c)' => HasAnswer(c) /\ val'[c] = val[c]
    BY <1>3, <1>a DEF Ask, RedisFails, FetchFails, ReturnToCaller, ReplyComes, LookUp, FetchFor,
                      HasAnswer
  <2> QED
    BY <1>a, <2>1, <2>2, <2>3, QuietKeepsGiven DEF HasAnswer
<1>4. ASSUME NEW c \in Callers, LookUp(c) PROVE GivenInv'
  <2> DEFINE e == store[KeyOf(Top(path[c]))]
  <2>1. CASE /\ Hit(e)
             /\ val' = [val EXCEPT ![c] = [e.answer EXCEPT !.stored = TRUE]]
             /\ pc' = [pc EXCEPT ![c] = IF mode = "redis" THEN "replied" ELSE "returning"]
    <3>1. now' = now /\ store' = store /\ pc[c] = "looking"
      BY <1>4 DEF LookUp
    <3>2. path[c] \in Seq(Calls) /\ path[c] # <<>>
      BY <3>1 DEF IInv, Types, PathInv
    <3>3. KeyOf(Top(path[c])) \in Keys
      BY <3>2, TopIsCall DEF Keys
    <3>4. e # Nothing /\ e \in Entries /\ Given(e.answer, now)
      BY <1>a, <1>c, <2>1, <3>3 DEF Hit, Fresh
    <3> HIDE DEF e
    <3>5. e.answer \in Answers
      BY <3>4 DEF Entries
    <3>6. /\ val'[c].kind = e.answer.kind /\ val'[c].call = e.answer.call
          /\ val'[c].readAt = e.answer.readAt
      BY <1>a, <2>1, <3>5 DEF Answers
    <3>7. Given(val'[c], now)
      BY <3>4, <3>6 DEF Given
    <3>8. \A d \in Callers \ {c} : pc'[d] = pc[d] /\ val'[d] = val[d]
      BY <1>a, <2>1
    <3> QED
      BY <1>c, <3>1, <3>7, <3>8, HandOverKeepsGiven DEF HasAnswer
  <2>2. CASE FetchFor(c) /\ UNCHANGED val
    BY <1>3, <1>4, <2>2
  <2> QED
    BY <1>4, <2>1, <2>2 DEF LookUp
<1>5. ASSUME NEW c \in Callers, NodeAnswers(c) PROVE GivenInv'
  <2>1. PICK kind \in KindsOf[Top(path[c])] :
          val' = [val EXCEPT ![c] = [call |-> Top(path[c]), kind |-> kind,
                                     readAt |-> now, stored |-> FALSE]]
    BY <1>5 DEF NodeAnswers
  <2>2. now' = now /\ store' = store /\ pc' = [pc EXCEPT ![c] = "answered"]
    BY <1>5 DEF NodeAnswers
  <2>3. Given(val'[c], now)
    BY <1>a, <2>1 DEF Given
  <2>4. \A d \in Callers \ {c} : pc'[d] = pc[d] /\ val'[d] = val[d]
    BY <1>a, <2>1, <2>2
  <2> QED
    BY <1>c, <2>2, <2>3, <2>4, HandOverKeepsGiven DEF HasAnswer
<1>6. ASSUME NEW c \in Callers, Complete(c) PROVE GivenInv'
  <2>1. /\ val[c] \in Answers /\ HasAnswer(c) /\ Given(val[c], now)
        /\ now' = now /\ val' = val /\ pc' = [pc EXCEPT ![c] = "returning"]
    BY <1>6, <1>b DEF Complete, IInv, HandInv, HasAnswer
  <2>2. \A k \in Keys : store'[k] # Nothing => Given(store'[k].answer, now)
    BY <1>6, <1>a, <2>1, StoreIsGiven DEF Complete
  <2>3. \A d \in Callers \ {c} : HasAnswer(d)' => HasAnswer(d) /\ val'[d] = val[d]
    BY <1>a, <2>1 DEF HasAnswer
  <2> QED
    BY <2>1, <2>2, <2>3, HandOverKeepsGiven
<1>7. ASSUME NEW c \in Callers, ReturnToCall(c) PROVE GivenInv'
  <2> DEFINE outer == Top(Pop(path[c]))
  <2>1. PICK kind \in KindsOf[outer] :
          LET answer == [call |-> outer, kind |-> kind, readAt |-> val[c].readAt, stored |-> FALSE]
          IN val' = [val EXCEPT ![c] = answer] /\ Store(answer)
    BY <1>7 DEF ReturnToCall
  <2>2. pc[c] = "returning" /\ val[c] \in Answers /\ UNCHANGED pc /\ now' = now
    BY <1>7 DEF ReturnToCall, IInv, HandInv
  <2>3. outer \in Calls
    BY <1>7, OuterIsCall DEF ReturnToCall, IInv
  <2> HIDE DEF outer
  <2>4. [call |-> outer, kind |-> kind, readAt |-> val[c].readAt, stored |-> FALSE] \in Answers
    BY <2>1, <2>2, <2>3, KindsAssumption DEF Answers
  <2>5. val[c].readAt <= now
    BY <1>b, <2>2 DEF HasAnswer, Given
  <2>6. Given([call |-> outer, kind |-> kind, readAt |-> val[c].readAt, stored |-> FALSE], now)
    BY <2>1, <2>5 DEF Given
  <2>7. \A k \in Keys : store'[k] # Nothing => Given(store'[k].answer, now)
    BY <1>a, <2>1, <2>4, <2>6, StoreIsGiven
  <2>8. Given(val'[c], now) /\ \A d \in Callers \ {c} : val'[d] = val[d]
    BY <1>a, <2>1, <2>6
  <2> QED
    BY <2>2, <2>7, <2>8, HandOverKeepsGiven DEF HasAnswer
<1> QED
  BY <1>1, <1>2, <1>3, <1>4, <1>5, <1>6, <1>7 DEF Next

-----------------------------------------------------------------------------
\* What the callers see of a state.
Asked == [c \in Callers |-> IF path[c] = <<>> THEN NoCall ELSE path[c][1]]
States == [c \in Callers |-> StateOf[pc[c]]]
Handed == [c \in Callers |-> IF pc[c] = "done" THEN val[c] ELSE Nothing]

\* The names of StateOf, place by place.
LEMMA StatesOf ==
  /\ StateOf["looking"] = "waiting" /\ StateOf["replied"] = "waiting"
  /\ StateOf["returning"] = "waiting"
  /\ StateOf["fetching"] = "atNode" /\ StateOf["answered"] = "atNode"
  /\ StateOf["idle"] = "idle" /\ StateOf["done"] = "done" /\ StateOf["rejected"] = "rejected"
BY DEF StateOf, PCs

\* Another nesting is not seen: the first call of the chain stays.
LEMMA NestingIsUnseen ==
  ASSUME Types, NEW c \in Callers, NEW s \in Seq(Calls), path' = [path EXCEPT ![c] = s],
         path[c] # <<>>, s # <<>>, s[1] = path[c][1]
  PROVE  Asked' = Asked
<1>1. path'[c] = s /\ \A d \in Callers \ {c} : path'[d] = path[d]
  BY DEF Types
<1>2. ASSUME NEW d \in Callers
      PROVE  (IF path'[d] = <<>> THEN NoCall ELSE path'[d][1])
             = (IF path[d] = <<>> THEN NoCall ELSE path[d][1])
  BY <1>1
<1> QED
  BY <1>2 DEF Asked

\* A caller that is not done before or after has nothing to show for it.
LEMMA NothingIsHanded ==
  ASSUME NEW c \in Callers, pc[c] # "done", pc'[c] # "done",
         \A d \in Callers \ {c} : pc'[d] = pc[d] /\ val'[d] = val[d]
  PROVE  Handed' = Handed
<1>1. ASSUME NEW d \in Callers
      PROVE  (IF pc'[d] = "done" THEN val'[d] ELSE Nothing)
             = (IF pc[d] = "done" THEN val[d] ELSE Nothing)
  OBVIOUS
<1> QED
  BY <1>1 DEF Handed

\* One caller moves, for all to see.
LEMMA StateMoves ==
  ASSUME Types, NEW c \in Callers, NEW to \in PCs, pc' = [pc EXCEPT ![c] = to]
  PROVE  States' = [States EXCEPT ![c] = StateOf[to]] /\ States[c] = StateOf[pc[c]]
<1>1. /\ States' = [d \in Callers |-> StateOf[pc'[d]]]
      /\ [States EXCEPT ![c] = StateOf[to]] =
           [d \in Callers |-> IF d = c THEN StateOf[to] ELSE StateOf[pc[d]]]
      /\ States[c] = StateOf[pc[c]]
  BY DEF States
<1>2. ASSUME NEW d \in Callers
      PROVE  StateOf[pc'[d]] = IF d = c THEN StateOf[to] ELSE StateOf[pc[d]]
  BY DEF Types
<1> QED
  BY <1>1, <1>2

\* One caller moves, and nobody sees a difference.
LEMMA StateStays ==
  ASSUME Types, NEW c \in Callers, NEW to \in PCs, pc' = [pc EXCEPT ![c] = to],
         StateOf[to] = StateOf[pc[c]]
  PROVE  States' = States
<1>1. ASSUME NEW d \in Callers PROVE StateOf[pc'[d]] = StateOf[pc[d]]
  BY DEF Types
<1> QED
  BY <1>1 DEF States

\* A call that fetches asks the node, or goes one call deeper unseen.
LEMMA FetchRefines ==
  ASSUME IInv, NEW c \in Callers, pc[c] = "looking", FetchFor(c), UNCHANGED <<now, val>>
  PROVE  Service!AskNode(c) \/ UNCHANGED Service!vars
<1>1. Types /\ path[c] \in Seq(Calls) /\ path[c] # <<>> /\ pc \in [Callers -> PCs]
  BY DEF IInv, Types, PathInv
<1>2. CASE Inner[Top(path[c])] = NoCall
  <2>1. pc' = [pc EXCEPT ![c] = "fetching"] /\ path' = path
    BY <1>2 DEF FetchFor
  <2>2. States' = [States EXCEPT ![c] = "atNode"] /\ States[c] = "waiting"
    <3>1. States' = [States EXCEPT ![c] = StateOf["fetching"]] /\ States[c] = StateOf[pc[c]]
      BY <1>1, <2>1, StateMoves DEF PCs
    <3> QED
      BY <3>1, StatesOf
  <2>3. Asked' = Asked
    BY <2>1 DEF Asked
  <2>4. Handed' = Handed
    BY <1>1, <2>1, NothingIsHanded
  <2> QED
    BY <2>2, <2>3, <2>4 DEF Service!AskNode, Service!Goes, Asked, States, Handed
<1>3. CASE Inner[Top(path[c])] # NoCall
  <2>1. pc' = pc /\ path' = [path EXCEPT ![c] = Append(@, Inner[Top(path[c])])]
    BY <1>3 DEF FetchFor
  <2>2. Inner[Top(path[c])] \in Calls
    BY <1>1, <1>3, TopIsCall, InnerAssumption
  <2>3. Len(path[c]) \in Nat /\ Len(path[c]) # 0
    BY <1>1, EmptySeq, LenProperties
  <2>4. /\ Append(path[c], Inner[Top(path[c])]) \in Seq(Calls)
        /\ Append(path[c], Inner[Top(path[c])]) # <<>>
        /\ Append(path[c], Inner[Top(path[c])])[1] = path[c][1]
    BY <1>1, <2>2, <2>3, AppendProperties
  <2>5. Asked' = Asked
    BY <1>1, <2>1, <2>4, NestingIsUnseen
  <2>6. States' = States /\ Handed' = Handed
    BY <2>1 DEF States, Handed
  <2> QED
    BY <2>5, <2>6 DEF Service!vars, Asked, States, Handed
<1> QED
  BY <1>2, <1>3

\* A call is made.
LEMMA AskRefines ==
  ASSUME IInv, "none" \notin Modes, NEW c \in Callers, NEW call \in Calls, Ask(c, call)
  PROVE  Service!Ask(c)
<1>1. Types /\ pc \in [Callers -> PCs] /\ mode # "none"
  BY DEF IInv, Types
<1>2. /\ pc' = [pc EXCEPT ![c] = "looking"] /\ path' = [path EXCEPT ![c] = <<call>>]
      /\ val' = [val EXCEPT ![c] = Nothing] /\ now' = now
      /\ pc[c] \in {"idle", "done", "rejected"}
  BY <1>1 DEF Ask
<1>3. States' = [States EXCEPT ![c] = "waiting"] /\ States[c] \in {"idle", "done", "rejected"}
  <2>1. States' = [States EXCEPT ![c] = StateOf["looking"]] /\ States[c] = StateOf[pc[c]]
    BY <1>1, <1>2, StateMoves DEF PCs
  <2> QED
    BY <1>2, <2>1, StatesOf
<1>4. Asked' = [Asked EXCEPT ![c] = call]
  <2>1. path'[c] = <<call>> /\ \A d \in Callers \ {c} : path'[d] = path[d]
    BY <1>1, <1>2 DEF Types
  <2>2. ASSUME NEW d \in Callers
        PROVE  (IF path'[d] = <<>> THEN NoCall ELSE path'[d][1])
               = (IF d = c THEN call ELSE IF path[d] = <<>> THEN NoCall ELSE path[d][1])
    BY <2>1
  <2> QED
    BY <2>2 DEF Asked
<1>5. Handed' = [Handed EXCEPT ![c] = Nothing]
  <2>1. ASSUME NEW d \in Callers
        PROVE  (IF pc'[d] = "done" THEN val'[d] ELSE Nothing)
               = (IF d = c THEN Nothing ELSE IF pc[d] = "done" THEN val[d] ELSE Nothing)
    BY <1>1, <1>2 DEF Types
  <2> QED
    BY <2>1 DEF Handed
<1> QED
  BY <1>2, <1>3, <1>4, <1>5 DEF Service!Ask, Asked, States, Handed

\* A caller is given what it asked for, in time.
LEMMA ReturnRefines ==
  ASSUME IInv, RefusedInv, GivenInv, NEW c \in Callers, ReturnToCaller(c)
  PROVE  Service!Give(c)
<1>1. /\ Types /\ pc \in [Callers -> PCs] /\ pc[c] = "returning" /\ Len(path[c]) = 1
      /\ pc' = [pc EXCEPT ![c] = "done"] /\ now' = now /\ path' = path /\ val' = val
  BY DEF IInv, Types, ReturnToCaller
<1>2. /\ val[c] \in Answers /\ val[c].call = path[c][1] /\ path[c] # <<>>
      /\ now <= val[c].readAt + Bound[mode][val[c].call]
      /\ Given(val[c], now)
      /\ val[c].stored => Reusable(val[c])
  BY <1>1 DEF IInv, HandInv, PathInv, RefusedInv, GivenInv, HasAnswer, Top
<1>3. /\ val[c].call \in Calls /\ val[c].readAt \in 0..now
      /\ val[c].kind \in Kinds /\ val[c].stored \in BOOLEAN
      /\ val[c] = [call |-> val[c].call, kind |-> val[c].kind,
                   readAt |-> val[c].readAt, stored |-> val[c].stored]
  BY <1>1, <1>2, TimeAssumption DEF Answers, Given, Types
<1>4. Asked[c] = val[c].call
  BY <1>2 DEF Asked
<1>5. States' = [States EXCEPT ![c] = "done"] /\ States[c] = "waiting"
  <2>1. States' = [States EXCEPT ![c] = StateOf["done"]] /\ States[c] = StateOf[pc[c]]
    BY <1>1, StateMoves DEF PCs
  <2> QED
    BY <1>1, <2>1, StatesOf
<1>6. Handed' = [Handed EXCEPT ![c] = val[c]]
  <2>1. ASSUME NEW d \in Callers
        PROVE  (IF pc'[d] = "done" THEN val'[d] ELSE Nothing)
               = (IF d = c THEN val[c] ELSE IF pc[d] = "done" THEN val[d] ELSE Nothing)
    BY <1>1
  <2> QED
    BY <2>1 DEF Handed
<1>7. Asked' = Asked
  BY <1>1 DEF Asked
<1>8. val[c].stored => val[c].kind \in MayComeAgain(val[c].call)
  BY <1>2, <1>3 DEF Reusable, Accepts, MayComeAgain, Kinds
<1>9. val[c].kind \in KindsOf[val[c].call]
  BY <1>2 DEF Given
<1>10. val[c].readAt \in Service!Timely(val[c].call)
  <2>1. Bound[mode][val[c].call] <= BoundOfAny[val[c].call]
    BY <1>1, <1>3, BoundOfAnyAssumption DEF Types
  <2>2. now \in Nat /\ Bound[mode][val[c].call] \in Nat /\ BoundOfAny[val[c].call] \in Nat
    BY <1>1, <1>3, Bounds, BoundOfAnyAssumption, TimeAssumption DEF Types
  <2>3. now <= val[c].readAt + BoundOfAny[val[c].call]
    BY <1>2, <1>3, <2>1, <2>2
  <2> QED
    BY <1>3, <2>3 DEF Service!Timely
<1>11. \E time \in Service!Timely(Asked[c]), kind \in KindsOf[Asked[c]], again \in BOOLEAN :
         /\ again => kind \in [call \in Calls |-> MayComeAgain(call)][Asked[c]]
         /\ Handed' = [Handed EXCEPT ![c] = [call |-> Asked[c], kind |-> kind,
                                             readAt |-> time, stored |-> again]]
  BY <1>3, <1>4, <1>6, <1>8, <1>9, <1>10
<1> QED
  BY <1>1, <1>5, <1>7, <1>11 DEF Service!Give, Asked, States, Handed

\* The other steps of a caller: only that the node has answered, or has not,
\* is seen.
LEMMA OtherStepsRefine ==
  ASSUME IInv, NEW c \in Callers,
         NodeAnswers(c) \/ Complete(c) \/ FetchFails(c) \/ ReturnToCall(c)
  PROVE  Service!NodeAnswers(c) \/ Service!Reject(c) \/ UNCHANGED Service!vars
<1>1. Types /\ pc \in [Callers -> PCs] /\ val \in [Callers -> Answers \cup {Nothing}] /\ now' = now
  BY DEF IInv, Types, NodeAnswers, Complete, FetchFails, ReturnToCall
<1>2. CASE NodeAnswers(c)
  <2>1. /\ pc[c] = "fetching" /\ pc' = [pc EXCEPT ![c] = "answered"] /\ path' = path
        /\ \A d \in Callers \ {c} : val'[d] = val[d]
    BY <1>1, <1>2 DEF NodeAnswers
  <2>2. States' = States
    BY <1>1, <2>1, StateStays, StatesOf DEF PCs
  <2>3. Handed' = Handed
    BY <1>1, <2>1, NothingIsHanded
  <2>4. Asked' = Asked
    BY <2>1 DEF Asked
  <2> QED
    BY <1>1, <2>2, <2>3, <2>4 DEF Service!vars, Asked, States, Handed
<1>3. CASE Complete(c) \/ FetchFails(c)
  <2>1. PICK to \in {"returning", "rejected"} :
          /\ pc' = [pc EXCEPT ![c] = to] /\ path' = path
          /\ pc[c] \in {"fetching", "answered"}
          /\ \A d \in Callers \ {c} : val'[d] = val[d]
    BY <1>1, <1>3 DEF Complete, FetchFails
  <2>2. States' = [States EXCEPT ![c] = StateOf[to]] /\ States[c] = "atNode"
    <3>1. to \in PCs
      BY DEF PCs
    <3>2. States' = [States EXCEPT ![c] = StateOf[to]] /\ States[c] = StateOf[pc[c]]
      BY <1>1, <2>1, <3>1, StateMoves
    <3> QED
      BY <2>1, <3>2, StatesOf
  <2>3. Handed' = Handed
    BY <1>1, <2>1, NothingIsHanded
  <2>4. Asked' = Asked
    BY <2>1 DEF Asked
  <2>5. StateOf[to] = "waiting" \/ StateOf[to] = "rejected"
    BY StatesOf
  <2> QED
    BY <1>1, <2>2, <2>3, <2>4, <2>5
       DEF Service!NodeAnswers, Service!Reject, Service!Goes, Asked, States, Handed
<1>4. CASE ReturnToCall(c)
  <2>1. /\ pc[c] = "returning" /\ pc' = pc /\ Len(path[c]) > 1
        /\ path' = [path EXCEPT ![c] = Pop(@)]
        /\ \A d \in Callers \ {c} : val'[d] = val[d]
    BY <1>1, <1>4 DEF ReturnToCall
  <2>2. path[c] # <<>>
    BY <2>1, EmptySeq
  <2>3. Asked' = Asked
    BY <1>1, <2>1, <2>2, OuterIsCall, NestingIsUnseen
  <2>4. Handed' = Handed /\ States' = States
    BY <2>1, NothingIsHanded DEF States
  <2> QED
    BY <1>1, <2>3, <2>4 DEF Service!vars, Asked, States, Handed
<1> QED
  BY <1>2, <1>3, <1>4

\* Every step of the cache is a step of FreshAnswers, or is not seen.
LEMMA StepRefines ==
  ASSUME IInv, RefusedInv, GivenInv, "none" \notin Modes, [Next]_vars
  PROVE  [Service!Next]_(Service!vars)
<1>1. CASE Tick
  <2>1. Asked' = Asked /\ States' = States /\ Handed' = Handed /\ now' = now + 1
    BY <1>1 DEF Tick, Asked, States, Handed
  <2> QED
    BY <2>1 DEF Service!Next, Service!Tick, Asked, States, Handed
<1>2. CASE UNCHANGED vars \/ \E k \in Keys : Lose(k)
  <2>1. Asked' = Asked /\ States' = States /\ Handed' = Handed /\ now' = now
    BY <1>2 DEF vars, Lose, Asked, States, Handed
  <2> QED
    BY <2>1 DEF Service!vars, Asked, States, Handed
<1>3. ASSUME NEW c \in Callers, NEW call \in Calls, Ask(c, call)
      PROVE  [Service!Next]_(Service!vars)
  BY <1>3, AskRefines DEF Service!Next
<1>4. ASSUME NEW c \in Callers, LookUp(c) \/ RedisFails(c)
      PROVE  [Service!Next]_(Service!vars)
  <2>1. /\ Types /\ pc \in [Callers -> PCs] /\ val \in [Callers -> Answers \cup {Nothing}]
        /\ now' = now /\ pc[c] = "looking"
    BY <1>4 DEF IInv, Types, LookUp, RedisFails
  <2>2. CASE FetchFor(c) /\ UNCHANGED val
    BY <2>1, <2>2, FetchRefines DEF Service!Next
  <2>3. CASE /\ \E to \in {"replied", "returning"} : pc' = [pc EXCEPT ![c] = to]
             /\ path' = path
             /\ \A d \in Callers \ {c} : val'[d] = val[d]
    <3>0. PICK to \in {"replied", "returning"} : pc' = [pc EXCEPT ![c] = to]
      BY <2>3
    <3>1. States' = States
      BY <2>1, <3>0, StateStays, StatesOf DEF PCs
    <3>2. Handed' = Handed
      BY <2>1, <2>3, <3>0, NothingIsHanded
    <3>3. Asked' = Asked
      BY <2>3 DEF Asked
    <3> QED
      BY <2>1, <3>1, <3>2, <3>3 DEF Service!vars, Asked, States, Handed
  <2> QED
    BY <1>4, <2>1, <2>2, <2>3 DEF LookUp, RedisFails
<1>7. ASSUME NEW c \in Callers, ReplyComes(c)
      PROVE  [Service!Next]_(Service!vars)
  <2>1. /\ Types /\ pc \in [Callers -> PCs] /\ pc[c] = "replied" /\ now' = now
        /\ pc' = [pc EXCEPT ![c] = "returning"] /\ path' = path /\ val' = val
    BY <1>7 DEF IInv, Types, ReplyComes
  <2>2. States' = States
    BY <2>1, StateStays, StatesOf DEF PCs
  <2>3. Handed' = Handed /\ Asked' = Asked
    BY <2>1, NothingIsHanded DEF Asked
  <2> QED
    BY <2>1, <2>2, <2>3 DEF Service!vars, Asked, States, Handed
<1>5. ASSUME NEW c \in Callers, ReturnToCaller(c)
      PROVE  [Service!Next]_(Service!vars)
  BY <1>5, ReturnRefines DEF Service!Next
<1>6. ASSUME NEW c \in Callers, NodeAnswers(c) \/ Complete(c) \/ FetchFails(c) \/ ReturnToCall(c)
      PROVE  [Service!Next]_(Service!vars)
  BY <1>6, OtherStepsRefine DEF Service!Next
<1> QED
  BY <1>1, <1>2, <1>3, <1>4, <1>5, <1>6, <1>7 DEF Next

\* To its callers the cache is FreshAnswers: each is given, once, what the
\* node said of its own call no longer ago than the Bound of that call, for
\* any callers, any nesting of calls and any ages, however misses overlap,
\* gets fail and entries are lost.
THEOREM CacheImplementsFreshAnswers ==
  ASSUME "none" \notin Modes
  PROVE  Spec => ImplementsFreshAnswers
<1>1. Init => Service!Init
  <2> SUFFICES ASSUME Init PROVE Service!Init
    OBVIOUS
  <2>1. Asked = [c \in Callers |-> NoCall] /\ Handed = [c \in Callers |-> Nothing]
    BY DEF Init, Asked, Handed
  <2>2. States = [c \in Callers |-> "idle"]
    BY StatesOf DEF Init, States
  <2> QED
    BY <2>1, <2>2 DEF Init, Service!Init, Asked, States, Handed
<1>2. Init => RefusedInv /\ GivenInv
  BY DEF Init, RefusedInv, GivenInv, HasAnswer
<1>3. IInv /\ RefusedInv /\ GivenInv /\ [Next]_vars => [Service!Next]_(Service!vars)
  BY StepRefines
<1> QED
  BY <1>1, <1>2, <1>3, NextKeepsRefused, NextKeepsGiven, InvariantHolds, PTL
     DEF Spec, ImplementsFreshAnswers, Service!Spec
=============================================================================
