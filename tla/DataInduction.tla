----------------------------- MODULE DataInduction -----------------------------
(***************************************************************************)
(* Induction over numbers and over finite sets as facts about sets, and    *)
(* what follows for the operators of the community modules that are        *)
(* recursive functions: joined sequences and sums.                         *)
(***************************************************************************)
EXTENDS Integers, Sequences, FiniteSets, SequencesExt, FiniteSetTheorems, TLAPS

\* A set of numbers that is not empty has a least one.
LEMMA LeastNumber ==
  ASSUME NEW T \in SUBSET Nat, T # {}
  PROVE  \E n \in T : \A m \in T : n <= m
  <1> DEFINE Below == {0..n : n \in T}
  <1>1. Below \subseteq FiniteSubsetsOf(Nat)
    <2> SUFFICES ASSUME NEW n \in T PROVE 0..n \in FiniteSubsetsOf(Nat) OBVIOUS
    <2>1. IsFiniteSet(0..n) BY FS_Interval
    <2> QED BY <2>1 DEF FiniteSubsetsOf
  <1>2. Below # {} OBVIOUS
  <1>3. PICK x \in Below : \A y \in Below : <<y, x>> \notin StrictSubsetOrdering(Nat)
    BY <1>1, <1>2, FS_StrictSubsetOrderingWellFounded, WFMin
  <1>4. PICK n \in T : x = 0..n BY <1>3
  <1>5. ASSUME NEW m \in T, m < n PROVE FALSE
    <2>1. 0..m \subseteq 0..n /\ 0..m # 0..n BY <1>5
    <2>2. <<0..m, 0..n>> \in StrictSubsetOrdering(Nat) BY <2>1 DEF StrictSubsetOrdering
    <2> QED BY <1>3, <1>4, <2>2
  <1> QED BY <1>5

\* What holds of 0, and of a number if of the one before, holds of all: T is the set of those.
LEMMA NumberInduction ==
  ASSUME NEW T, 0 \in T, \A n \in Nat : n \in T => n + 1 \in T
  PROVE  Nat \subseteq T
  <1> DEFINE U == {n \in Nat : n \notin T}
  <1> SUFFICES ASSUME U # {} PROVE FALSE OBVIOUS
  <1>1. PICK n \in U : \A m \in U : n <= m BY LeastNumber
  <1>2. n - 1 \in Nat /\ n - 1 \notin U BY <1>1
  <1> QED BY <1>1, <1>2

-----------------------------------------------------------------------------
(* FlattenSeq *)

\* Two sequences, one behind the other, hold what both hold.
LEMMA ConcatHolds ==
  ASSUME NEW S, NEW s \in Seq(S), NEW t \in Seq(S)
  PROVE  ToSet(s \o t) = ToSet(s) \cup ToSet(t)
  <1> DEFINE u == s \o t
  <1>1. /\ DOMAIN s = 1..Len(s) /\ DOMAIN t = 1..Len(t) /\ DOMAIN u = 1..Len(u)
        /\ Len(s) \in Nat /\ Len(t) \in Nat /\ Len(u) = Len(s) + Len(t)
    OBVIOUS
  <1>2. \A i \in 1..Len(s) : u[i] = s[i] OBVIOUS
  <1>3. \A i \in 1..Len(t) : u[i + Len(s)] = t[i] OBVIOUS
  <1> HIDE DEF u
  <1>4. \A i \in DOMAIN s : s[i] \in ToSet(u) BY <1>1, <1>2 DEF ToSet
  <1>5. ASSUME NEW i \in DOMAIN t PROVE t[i] \in ToSet(u)
    <2>1. i + Len(s) \in DOMAIN u /\ u[i + Len(s)] = t[i] BY <1>1, <1>3
    <2> QED BY <2>1 DEF ToSet
  <1>6. ASSUME NEW i \in DOMAIN u PROVE u[i] \in ToSet(s) \cup ToSet(t)
    <2>1. CASE i \in DOMAIN s BY <1>1, <1>2, <2>1 DEF ToSet
    <2>2. CASE i \notin DOMAIN s
      <3>1. i - Len(s) \in DOMAIN t /\ i - Len(s) + Len(s) = i BY <1>1, <2>2
      <3>2. u[i] = t[i - Len(s)] BY <1>1, <1>3, <3>1
      <3> QED BY <3>1, <3>2 DEF ToSet
    <2> QED BY <2>1, <2>2
  <1>7. ToSet(u) = ToSet(s) \cup ToSet(t) BY <1>4, <1>5, <1>6 DEF ToSet
  <1> QED BY <1>7 DEF u

\* The sequences up to the n-th joined, as FlattenSeq defines them.
Joins(f, seqs, n) == f = [i \in 1..n |-> IF i = 1 THEN seqs[i] ELSE f[i-1] \o seqs[i]]

\* One step of the join.
LEMMA JoinsStep ==
  ASSUME NEW f, NEW seqs, NEW n \in Nat, Joins(f, seqs, n), NEW i \in 1..n
  PROVE  f[i] = IF i = 1 THEN seqs[i] ELSE f[i-1] \o seqs[i]
  <1> DEFINE g == [j \in 1..n |-> IF j = 1 THEN seqs[j] ELSE f[j-1] \o seqs[j]]
  <1>1. g[i] = IF i = 1 THEN seqs[i] ELSE f[i-1] \o seqs[i] OBVIOUS
  <1>2. f = g BY DEF Joins
  <1> HIDE DEF g
  <1> QED BY <1>1, <1>2

\* There is a function that is what the recursive definition says.
LEMMA JoinsExist ==
  ASSUME NEW seqs, NEW n \in Nat \ {0}
  PROVE  \E f : Joins(f, seqs, n)
  <1> DEFINE T == {m \in Nat : m = 0 \/ \E f : Joins(f, seqs, m)}
  <1>1. 0 \in T OBVIOUS
  <1>2. ASSUME NEW m \in Nat, m \in T PROVE m + 1 \in T
    <2>1. CASE m = 0
      <3> DEFINE g == [i \in 1..1 |-> seqs[i]]
      <3>1. Joins(g, seqs, 1) BY DEF Joins
      <3> QED BY <2>1, <3>1
    <2>2. CASE m # 0
      <3>1. PICK f : Joins(f, seqs, m) BY <1>2, <2>2
      <3> DEFINE g == [i \in 1..(m + 1) |-> IF i = m + 1 THEN f[m] \o seqs[m + 1] ELSE f[i]]
      <3>2. ASSUME NEW i \in 1..(m + 1)
            PROVE  g[i] = IF i = 1 THEN seqs[i] ELSE g[i-1] \o seqs[i]
        <4>1. CASE i = m + 1
          <5>1. m \in 1..(m + 1) /\ m # m + 1 /\ m + 1 # 1 /\ i - 1 = m BY <2>2, <4>1
          <5>2. m + 1 \in 1..(m + 1) OBVIOUS
          <5>3. \A j \in 1..(m + 1) : g[j] = IF j = m + 1 THEN f[m] \o seqs[m + 1] ELSE f[j]
            OBVIOUS
          <5> HIDE DEF g
          <5>4. g[m] = f[m] /\ g[m + 1] = f[m] \o seqs[m + 1] BY <5>1, <5>2, <5>3
          <5> QED BY <4>1, <5>1, <5>4
        <4>2. CASE i # m + 1
          <5>1. i \in 1..m BY <4>2
          <5>2. g[i] = f[i] /\ (i # 1 => g[i-1] = f[i-1]) BY <4>2, <5>1
          <5>3. f[i] = IF i = 1 THEN seqs[i] ELSE f[i-1] \o seqs[i] BY <3>1, <5>1 DEF Joins
          <5> QED BY <5>2, <5>3
        <4> QED BY <4>1, <4>2
      <3>3. Joins(g, seqs, m + 1) BY <3>2 DEF Joins
      <3> QED BY <3>3
    <2> QED BY <2>1, <2>2
  <1> HIDE DEF T
  <1>3. n \in T BY <1>1, <1>2, NumberInduction
  <1> QED BY <1>3 DEF T

\* What FlattenSeq returns.
LEMMA FlattenJoins ==
  ASSUME NEW seqs, Len(seqs) \in Nat \ {0}
  PROVE  \E f : Joins(f, seqs, Len(seqs)) /\ FlattenSeq(seqs) = f[Len(seqs)]
  <1> DEFINE flatten[i \in 1..Len(seqs)] == IF i = 1 THEN seqs[i] ELSE flatten[i-1] \o seqs[i]
  <1>1. flatten = [i \in 1..Len(seqs) |-> IF i = 1 THEN seqs[i] ELSE flatten[i-1] \o seqs[i]]
    <2> SUFFICES \E f : f = [i \in 1..Len(seqs) |-> IF i = 1 THEN seqs[i] ELSE f[i-1] \o seqs[i]]
      OBVIOUS
    <2> QED BY JoinsExist DEF Joins
  <1>2. FlattenSeq(seqs) = flatten[Len(seqs)] BY DEF FlattenSeq
  <1> HIDE DEF flatten
  <1> QED BY <1>1, <1>2 DEF Joins

\* Joined sequences of S are a sequence of S that holds what each of them holds.
LEMMA FlattenHolds ==
  ASSUME NEW S, NEW seqs \in Seq(Seq(S))
  PROVE  /\ FlattenSeq(seqs) \in Seq(S)
         /\ \A i \in 1..Len(seqs) : ToSet(seqs[i]) \subseteq ToSet(FlattenSeq(seqs))
  <1>1. CASE Len(seqs) = 0 BY <1>1 DEF FlattenSeq
  <1>2. CASE Len(seqs) # 0
    <2>1. PICK f : Joins(f, seqs, Len(seqs)) /\ FlattenSeq(seqs) = f[Len(seqs)]
      BY <1>2, FlattenJoins
    <2> DEFINE Good(n) == f[n] \in Seq(S) /\ \A i \in 1..n : ToSet(seqs[i]) \subseteq ToSet(f[n])
               T == {n \in Nat : n \in 1..Len(seqs) => Good(n)}
    <2>2. ASSUME NEW n \in Nat, n \in T PROVE n + 1 \in T
      <3> SUFFICES ASSUME n + 1 \in 1..Len(seqs) PROVE Good(n + 1) OBVIOUS
      <3>1. seqs[n + 1] \in Seq(S) OBVIOUS
      <3>2. CASE n = 0
        <4>1. f[1] = seqs[1] BY <2>1, <3>2 DEF Joins
        <4> QED BY <3>1, <3>2, <4>1
      <3>3. CASE n # 0
        <4>1. f[n + 1] = f[n] \o seqs[n + 1]
          <5>1. n + 1 # 1 /\ n + 1 - 1 = n BY <3>3
          <5>2. f[n + 1] = IF n + 1 = 1 THEN seqs[n + 1] ELSE f[n + 1 - 1] \o seqs[n + 1]
            BY <2>1, JoinsStep
          <5> QED BY <5>1, <5>2
        <4>2. n \in 1..Len(seqs) /\ Good(n) BY <2>2, <3>3
        <4>3. f[n + 1] \in Seq(S) BY <3>1, <4>1, <4>2
        <4>4. ToSet(f[n]) \subseteq ToSet(f[n + 1]) /\ ToSet(seqs[n + 1]) \subseteq ToSet(f[n + 1])
          BY <3>1, <4>1, <4>2, ConcatHolds
        <4>5. ASSUME NEW i \in 1..(n + 1) PROVE ToSet(seqs[i]) \subseteq ToSet(f[n + 1])
          <5>1. i \in 1..n \/ i = n + 1 OBVIOUS
          <5> QED BY <4>2, <4>4, <5>1
        <4> QED BY <4>3, <4>5
      <3> QED BY <3>2, <3>3
    <2>3. 0 \in T OBVIOUS
    <2> HIDE DEF T
    <2>4. Len(seqs) \in T BY <2>2, <2>3, NumberInduction
    <2> QED BY <1>2, <2>1, <2>4 DEF T
  <1> QED BY <1>1, <1>2

-----------------------------------------------------------------------------
(* Finite sets and sums over them *)

\* What holds of the empty set, and of a set with an element more, holds of every finite set: U
\* is the set of those.
LEMMA FiniteInduction ==
  ASSUME NEW S, IsFiniteSet(S), NEW U, {} \in U,
         \A T \in SUBSET S : \A x \in S \ T : T \in U => T \cup {x} \in U
  PROVE  S \in U
  <1> DEFINE N == {n \in Nat : \A T \in SUBSET S : Cardinality(T) = n => T \in U}
  <1>1. \A T \in SUBSET S : IsFiniteSet(T) /\ Cardinality(T) \in Nat
    BY FS_Subset, FS_CardinalityType
  <1>2. 0 \in N BY <1>1, FS_EmptySet
  <1>3. ASSUME NEW n \in Nat, n \in N PROVE n + 1 \in N
    <2> SUFFICES ASSUME NEW T \in SUBSET S, Cardinality(T) = n + 1 PROVE T \in U OBVIOUS
    <2>1. T # {}
      <3>1. Cardinality(T) # 0 OBVIOUS
      <3> QED BY <3>1, FS_EmptySet
    <2>2. PICK x \in T : TRUE BY <2>1
    <2>3. Cardinality(T \ {x}) = n
      <3>1. Cardinality(T \ {x}) = Cardinality(T) - 1 BY <1>1, FS_RemoveElement
      <3> QED BY <3>1
    <2>4. T \ {x} \in U BY <1>3, <2>3
    <2>5. T = (T \ {x}) \cup {x} OBVIOUS
    <2> QED BY <2>4, <2>5
  <1> HIDE DEF N
  <1>4. Cardinality(S) \in N BY <1>1, <1>2, <1>3, NumberInduction
  <1> QED BY <1>1, <1>4 DEF N

\* A finite set of numbers has a largest.
LEMMA LargestIs ==
  ASSUME NEW S \in SUBSET Int, IsFiniteSet(S), S # {}
  PROVE  Max(S) \in S /\ \A x \in S : x <= Max(S)
  <1> DEFINE U == {T \in SUBSET S : T # {} => \E m \in T : \A x \in T : x <= m}
  <1>1. {} \in U OBVIOUS
  <1>2. ASSUME NEW T \in SUBSET S, NEW y \in S \ T, T \in U PROVE T \cup {y} \in U
    <2>1. CASE T = {} BY <2>1
    <2>2. CASE T # {}
      <3>1. PICK m \in T : \A x \in T : x <= m BY <1>2, <2>2
      <3>2. CASE y <= m BY <3>1, <3>2
      <3>3. CASE ~(y <= m)
        <4>1. \A x \in T \cup {y} : x <= y BY <3>1, <3>3
        <4> QED BY <4>1
      <3> QED BY <3>2, <3>3
    <2> QED BY <2>1, <2>2
  <1> HIDE DEF U
  <1>3. S \in U BY <1>1, <1>2, FiniteInduction
  <1>4. \E m \in S : \A x \in S : x <= m BY <1>3 DEF U
  <1> QED BY <1>4 DEF Max

\* What the elements of a finite set are mapped to is finite.
LEMMA FiniteImage ==
  ASSUME NEW f, NEW S, IsFiniteSet(S)
  PROVE  IsFiniteSet({f[x] : x \in S})
  <1> DEFINE U == {T \in SUBSET S : IsFiniteSet({f[x] : x \in T})}
  <1>1. {} \in U
    <2>1. {f[x] : x \in {}} = {} OBVIOUS
    <2> QED BY <2>1, FS_EmptySet
  <1>2. ASSUME NEW T \in SUBSET S, NEW y \in S \ T, T \in U PROVE T \cup {y} \in U
    <2>1. {f[x] : x \in T \cup {y}} = {f[x] : x \in T} \cup {f[y]} OBVIOUS
    <2>2. IsFiniteSet({f[x] : x \in T} \cup {f[y]}) BY <1>2, FS_AddElement
    <2> QED BY <2>1, <2>2
  <1> HIDE DEF U
  <1>3. S \in U BY <1>1, <1>2, FiniteInduction
  <1> QED BY <1>3 DEF U

\* sum gives the sum of f over every subset of S, whichever element is added last.
SumsOf(sum, f, S) ==
  /\ sum \in [SUBSET S -> Int]
  /\ sum[{}] = 0
  /\ \A s \in SUBSET S : \A x \in s : sum[s] = f[x] + sum[s \ {x}]

\* There is such a function.
LEMMA SumsExist ==
  ASSUME NEW f, NEW S, IsFiniteSet(S), \A x \in S : f[x] \in Int
  PROVE  \E sum : SumsOf(sum, f, S)
  <1> DEFINE U == {T \in SUBSET S : \E sum : SumsOf(sum, f, T)}
  <1>1. {} \in U
    <2> DEFINE g == [s \in SUBSET {} |-> 0]
    <2>1. SumsOf(g, f, {}) BY DEF SumsOf
    <2> QED BY <2>1
  <1>2. ASSUME NEW T \in SUBSET S, NEW a \in S \ T, T \in U PROVE T \cup {a} \in U
    <2>1. PICK sum : SumsOf(sum, f, T) BY <1>2
    <2> DEFINE g == [s \in SUBSET (T \cup {a}) |->
                       IF a \in s THEN f[a] + sum[s \ {a}] ELSE sum[s]]
    <2>2. \A s \in SUBSET T : sum[s] \in Int BY <2>1 DEF SumsOf
    <2>3. \A s \in SUBSET (T \cup {a}) : s \ {a} \in SUBSET T OBVIOUS
    <2>4. g \in [SUBSET (T \cup {a}) -> Int]
      <3> SUFFICES ASSUME NEW s \in SUBSET (T \cup {a})
                   PROVE  (IF a \in s THEN f[a] + sum[s \ {a}] ELSE sum[s]) \in Int
        OBVIOUS
      <3>1. CASE a \in s BY <2>2, <2>3, <3>1
      <3>2. CASE a \notin s
        <4>1. s \in SUBSET T BY <3>2
        <4> QED BY <2>2, <3>2, <4>1
      <3> QED BY <3>1, <3>2
    <2>5. g[{}] = 0 BY <2>1 DEF SumsOf
    <2>6. ASSUME NEW s \in SUBSET (T \cup {a}), NEW x \in s PROVE g[s] = f[x] + g[s \ {x}]
      <3>0. f[a] \in Int /\ f[x] \in Int OBVIOUS
      <3>1. CASE x = a
        <4>1. g[s] = f[a] + sum[s \ {a}] BY <3>1
        <4>2. g[s \ {x}] = sum[s \ {a}] BY <3>1
        <4> QED BY <3>1, <4>1, <4>2
      <3>2. CASE x # a /\ a \in s
        <4>1. g[s] = f[a] + sum[s \ {a}] BY <3>2
        <4>2. g[s \ {x}] = f[a] + sum[(s \ {x}) \ {a}] BY <3>2
        <4>3. s \ {a} \in SUBSET T /\ x \in s \ {a} BY <3>2
        <4>4. sum[s \ {a}] = f[x] + sum[(s \ {a}) \ {x}] BY <2>1, <4>3 DEF SumsOf
        <4>5. (s \ {a}) \ {x} = (s \ {x}) \ {a} OBVIOUS
        <4>6. sum[(s \ {x}) \ {a}] \in Int
          <5>1. (s \ {x}) \ {a} \in SUBSET T OBVIOUS
          <5> QED BY <2>2, <5>1
        <4>7. sum[s \ {a}] = f[x] + sum[(s \ {x}) \ {a}] BY <4>4, <4>5
        <4> DEFINE z == sum[(s \ {x}) \ {a}]
        <4>8. f[a] + (f[x] + z) = f[x] + (f[a] + z)
          <5>1. z \in Int BY <4>6
          <5> HIDE DEF z
          <5> QED BY <3>0, <5>1
        <4> HIDE DEF g
        <4> QED BY <4>1, <4>2, <4>7, <4>8
      <3>3. CASE x # a /\ a \notin s
        <4>1. s \in SUBSET T BY <3>3
        <4>2. sum[s] = f[x] + sum[s \ {x}] BY <2>1, <4>1 DEF SumsOf
        <4>3. g[s] = sum[s] /\ g[s \ {x}] = sum[s \ {x}] BY <3>3
        <4> QED BY <4>2, <4>3
      <3> QED BY <3>1, <3>2, <3>3
    <2> HIDE DEF g
    <2>7. SumsOf(g, f, T \cup {a}) BY <2>4, <2>5, <2>6 DEF SumsOf
    <2> QED BY <2>7
  <1> HIDE DEF U
  <1>3. S \in U BY <1>1, <1>2, FiniteInduction
  <1> QED BY <1>3 DEF U

\* The sums of the subsets of S, as the community modules define them.
Recursion(iter, f, S) ==
  iter = [s \in SUBSET S |-> IF s = {} THEN 0
                             ELSE f[CHOOSE x \in s : TRUE] + iter[s \ {CHOOSE x \in s : TRUE}]]

\* If there are such, SumFunctionOnSet is one of them.
LEMMA SumIsRecursive ==
  ASSUME NEW f, NEW S, \E g : Recursion(g, f, S)
  PROVE  \E iter : Recursion(iter, f, S) /\ SumFunctionOnSet(f, S) = iter[S]
  <1> DEFINE iter[s \in SUBSET S] ==
               IF s = {} THEN 0
               ELSE LET x == CHOOSE x \in s : TRUE IN f[x] + iter[s \ {x}]
  <1>1. iter = [s \in SUBSET S |-> IF s = {} THEN 0
                  ELSE LET x == CHOOSE x \in s : TRUE IN f[x] + iter[s \ {x}]]
    <2> SUFFICES \E g : g = [s \in SUBSET S |-> IF s = {} THEN 0
                  ELSE LET x == CHOOSE x \in s : TRUE IN f[x] + g[s \ {x}]]
      OBVIOUS
    <2> QED BY DEF Recursion
  <1>2. SumFunctionOnSet(f, S) = iter[S]
    BY DEF SumFunctionOnSet, FoldFunctionOnSet, MapThenFoldSet
  <1> HIDE DEF iter
  <1> QED BY <1>1, <1>2 DEF Recursion

\* SumFunctionOnSet gives that sum, in whatever order it takes the elements.
LEMMA SumIs ==
  ASSUME NEW f, NEW S, IsFiniteSet(S), NEW sum, SumsOf(sum, f, S)
  PROVE  SumFunctionOnSet(f, S) = sum[S]
  <1>1. Recursion(sum, f, S)
    <2>1. sum = [s \in SUBSET S |-> sum[s]] BY DEF SumsOf
    <2>2. ASSUME NEW s \in SUBSET S
          PROVE  sum[s] = IF s = {} THEN 0
                          ELSE f[CHOOSE x \in s : TRUE] + sum[s \ {CHOOSE x \in s : TRUE}]
      <3>1. CASE s = {} BY <3>1 DEF SumsOf
      <3>2. CASE s # {}
        <4>1. (CHOOSE x \in s : TRUE) \in s BY <3>2
        <4> QED BY <3>2, <4>1 DEF SumsOf
      <3> QED BY <3>1, <3>2
    <2> QED BY <2>1, <2>2 DEF Recursion
  <1>2. PICK iter : Recursion(iter, f, S) /\ SumFunctionOnSet(f, S) = iter[S]
    BY <1>1, SumIsRecursive
  <1> DEFINE N == {n \in Nat : \A T \in SUBSET S : Cardinality(T) = n => iter[T] = sum[T]}
  <1>3. \A T \in SUBSET S : IsFiniteSet(T) /\ Cardinality(T) \in Nat
    BY FS_Subset, FS_CardinalityType
  <1>5. 0 \in N
    <2> SUFFICES ASSUME NEW T \in SUBSET S, Cardinality(T) = 0 PROVE iter[T] = sum[T] OBVIOUS
    <2>1. T = {} BY <1>3, FS_EmptySet
    <2>2. iter[{}] = 0
      <3>1. {} \in SUBSET S OBVIOUS
      <3> QED BY <1>2, <3>1 DEF Recursion
    <2> QED BY <2>1, <2>2 DEF SumsOf
  <1>6. ASSUME NEW n \in Nat, n \in N PROVE n + 1 \in N
    <2> SUFFICES ASSUME NEW T \in SUBSET S, Cardinality(T) = n + 1 PROVE iter[T] = sum[T] OBVIOUS
    <2> DEFINE x == CHOOSE x \in T : TRUE
    <2>1. T # {}
      <3>1. Cardinality(T) # 0 OBVIOUS
      <3> QED BY <3>1, FS_EmptySet
    <2>2. x \in T BY <2>1
    <2>3. Cardinality(T \ {x}) = n
      <3>1. Cardinality(T \ {x}) = Cardinality(T) - 1 BY <1>3, <2>2, FS_RemoveElement
      <3> QED BY <3>1
    <2>4. iter[T \ {x}] = sum[T \ {x}] BY <1>6, <2>3
    <2>5. iter[T] = f[x] + iter[T \ {x}] BY <1>2, <2>1 DEF Recursion
    <2>6. sum[T] = f[x] + sum[T \ {x}] BY <2>2 DEF SumsOf
    <2> HIDE DEF x
    <2> QED BY <2>4, <2>5, <2>6
  <1> HIDE DEF N
  <1>7. Cardinality(S) \in N BY <1>3, <1>5, <1>6, NumberInduction
  <1>8. iter[S] = sum[S] BY <1>3, <1>7 DEF N
  <1> QED BY <1>2, <1>8

\* The sum over nothing is 0, and an element of a set can be taken out of a sum over it.
LEMMA SumLaws ==
  ASSUME NEW f, NEW S, IsFiniteSet(S), \A x \in S : f[x] \in Int
  PROVE  /\ SumFunctionOnSet(f, {}) = 0
         /\ \A T \in SUBSET S :
              /\ SumFunctionOnSet(f, T) \in Int
              /\ \A x \in T : SumFunctionOnSet(f, T) = f[x] + SumFunctionOnSet(f, T \ {x})
  <1>1. PICK sum : SumsOf(sum, f, S) BY SumsExist
  <1>2. ASSUME NEW T \in SUBSET S PROVE SumFunctionOnSet(f, T) = sum[T]
    <2> DEFINE part == [s \in SUBSET T |-> sum[s]]
    <2>1. SUBSET T \subseteq SUBSET S OBVIOUS
    <2>2. SumsOf(part, f, T)
      <3>1. part \in [SUBSET T -> Int] BY <1>1, <2>1 DEF SumsOf
      <3>2. part[{}] = 0 BY <1>1 DEF SumsOf
      <3>3. ASSUME NEW s \in SUBSET T, NEW x \in s PROVE part[s] = f[x] + part[s \ {x}]
        <4>1. part[s] = sum[s] /\ part[s \ {x}] = sum[s \ {x}] OBVIOUS
        <4>2. s \in SUBSET S OBVIOUS
        <4> HIDE DEF part
        <4> QED BY <1>1, <4>1, <4>2 DEF SumsOf
      <3> HIDE DEF part
      <3> QED BY <3>1, <3>2, <3>3 DEF SumsOf
    <2>3. IsFiniteSet(T) BY FS_Subset
    <2>4. part[T] = sum[T] OBVIOUS
    <2> HIDE DEF part
    <2> QED BY <2>2, <2>3, <2>4, SumIs
  <1>3. ASSUME NEW T \in SUBSET S
        PROVE  /\ SumFunctionOnSet(f, T) \in Int
               /\ \A x \in T : SumFunctionOnSet(f, T) = f[x] + SumFunctionOnSet(f, T \ {x})
    <2>1. sum[T] \in Int BY <1>1 DEF SumsOf
    <2>2. ASSUME NEW x \in T PROVE SumFunctionOnSet(f, T) = f[x] + SumFunctionOnSet(f, T \ {x})
      <3>1. T \ {x} \in SUBSET S OBVIOUS
      <3>2. sum[T] = f[x] + sum[T \ {x}] BY <1>1 DEF SumsOf
      <3> QED BY <1>2, <3>1, <3>2
    <2> QED BY <1>2, <2>1, <2>2
  <1>4. SumFunctionOnSet(f, {}) = 0 BY <1>1, <1>2 DEF SumsOf
  <1> QED BY <1>3, <1>4

\* Sums of what agrees agree.
LEMMA SumsAgree ==
  ASSUME NEW f, NEW g, NEW S, IsFiniteSet(S), \A x \in S : f[x] \in Int /\ f[x] = g[x]
  PROVE  SumFunctionOnSet(f, S) = SumFunctionOnSet(g, S)
  <1> DEFINE U == {T \in SUBSET S : SumFunctionOnSet(f, T) = SumFunctionOnSet(g, T)}
  <1>1. {} \in U BY SumLaws
  <1>2. ASSUME NEW T \in SUBSET S, NEW x \in S \ T, T \in U PROVE T \cup {x} \in U
    <2>1. x \in T \cup {x} /\ T \cup {x} \in SUBSET S /\ (T \cup {x}) \ {x} = T OBVIOUS
    <2>2. SumFunctionOnSet(f, T \cup {x}) = f[x] + SumFunctionOnSet(f, T) BY <2>1, SumLaws
    <2>3. SumFunctionOnSet(g, T \cup {x}) = g[x] + SumFunctionOnSet(g, T) BY <2>1, SumLaws
    <2> QED BY <1>2, <2>2, <2>3
  <1> HIDE DEF U
  <1>3. S \in U BY <1>1, <1>2, FiniteInduction
  <1> QED BY <1>3 DEF U

\* What bounds every term bounds the sum.
LEMMA SumsCompare ==
  ASSUME NEW f, NEW g, NEW S, IsFiniteSet(S), NEW c \in Int,
         \A x \in S : f[x] \in Int /\ g[x] \in Int
  PROVE  /\ (\A x \in S : c * g[x] <= f[x]) =>
              c * SumFunctionOnSet(g, S) <= SumFunctionOnSet(f, S)
         /\ S # {} /\ (\A x \in S : f[x] < c * g[x]) =>
              SumFunctionOnSet(f, S) < c * SumFunctionOnSet(g, S)
  <1> DEFINE F(T) == SumFunctionOnSet(f, T)
             G(T) == SumFunctionOnSet(g, T)
             U == {T \in SUBSET S :
                     /\ (\A x \in S : c * g[x] <= f[x]) => c * G(T) <= F(T)
                     /\ T # {} /\ (\A x \in S : f[x] < c * g[x]) => F(T) < c * G(T)}
  <1>1. F({}) = 0 /\ G({}) = 0 BY SumLaws
  <1>2. {} \in U BY <1>1
  <1>3. ASSUME NEW T \in SUBSET S, NEW x \in S \ T, T \in U PROVE T \cup {x} \in U
    <2>1. x \in T \cup {x} /\ T \cup {x} \in SUBSET S /\ (T \cup {x}) \ {x} = T OBVIOUS
    <2>2. F(T \cup {x}) = f[x] + F(T) /\ F(T) \in Int BY <2>1, SumLaws
    <2>3. G(T \cup {x}) = g[x] + G(T) /\ G(T) \in Int BY <2>1, SumLaws
    <2>4. f[x] \in Int /\ g[x] \in Int OBVIOUS
    <2> HIDE DEF F, G
    <2>5. c * G(T \cup {x}) = c * g[x] + c * G(T) BY <2>3, <2>4
    <2>6. c * g[x] \in Int /\ c * G(T) \in Int BY <2>3, <2>4
    <2>7. ASSUME \A y \in S : c * g[y] <= f[y] PROVE c * G(T \cup {x}) <= F(T \cup {x})
      <3>1. c * G(T) <= F(T) BY <1>3, <2>7
      <3>2. c * g[x] <= f[x] BY <2>7
      <3> QED BY <2>2, <2>4, <2>5, <2>6, <3>1, <3>2
    <2>8. ASSUME \A y \in S : f[y] < c * g[y] PROVE F(T \cup {x}) < c * G(T \cup {x})
      <3>1. F(T) <= c * G(T)
        <4>1. CASE T = {}
          <5>1. c * 0 = 0 OBVIOUS
          <5> QED BY <1>1, <4>1, <5>1
        <4>2. CASE T # {} BY <1>3, <2>2, <2>6, <2>8, <4>2
        <4> QED BY <4>1, <4>2
      <3>2. f[x] < c * g[x] BY <2>8
      <3> QED BY <2>2, <2>4, <2>5, <2>6, <3>1, <3>2
    <2> QED BY <2>7, <2>8
  <1> HIDE DEF U
  <1>4. S \in U BY <1>2, <1>3, FiniteInduction
  <1> QED BY <1>1, <1>4 DEF U

\* Two sets without a common element, together and apart.
LEMMA SumsJoin ==
  ASSUME NEW f, NEW S, IsFiniteSet(S), \A x \in S : f[x] \in Int,
         NEW A \in SUBSET S, NEW B \in SUBSET S, A \cap B = {}
  PROVE  SumFunctionOnSet(f, A \cup B) = SumFunctionOnSet(f, A) + SumFunctionOnSet(f, B)
  <1> DEFINE F(T) == SumFunctionOnSet(f, T)
             U == {T \in SUBSET B : F(A \cup T) = F(A) + F(T)}
  <1>1. \A T \in SUBSET S : F(T) \in Int /\ \A x \in T : F(T) = f[x] + F(T \ {x}) BY SumLaws
  <1>2. F({}) = 0 BY SumLaws
  <1> HIDE DEF F
  <1>3. {} \in U
    <2>1. A \cup {} = A OBVIOUS
    <2> QED BY <1>1, <1>2, <2>1
  <1>4. ASSUME NEW T \in SUBSET B, NEW x \in B \ T, T \in U PROVE T \cup {x} \in U
    <2>1. /\ (A \cup (T \cup {x})) \ {x} = A \cup T /\ (T \cup {x}) \ {x} = T
          /\ A \cup (T \cup {x}) \in SUBSET S /\ T \cup {x} \in SUBSET S
          /\ A \cup T \in SUBSET S /\ T \in SUBSET S
      OBVIOUS
    <2>2. F(A \cup (T \cup {x})) = f[x] + F(A \cup T) BY <1>1, <2>1
    <2>3. F(T \cup {x}) = f[x] + F(T) BY <1>1, <2>1
    <2>4. F(A \cup T) = F(A) + F(T) BY <1>4
    <2>5. F(A) \in Int /\ F(T) \in Int /\ f[x] \in Int BY <1>1, <2>1
    <2>6. f[x] + (F(A) + F(T)) = F(A) + (f[x] + F(T)) BY <2>5
    <2> QED BY <2>1, <2>2, <2>3, <2>4, <2>6
  <1> HIDE DEF U
  <1>5. IsFiniteSet(B) BY FS_Subset
  <1>6. B \in U BY <1>3, <1>4, <1>5, FiniteInduction
  <1> QED BY <1>6 DEF F, U

\* A sum does not depend on how its terms are numbered.
LEMMA SumsRenumber ==
  ASSUME NEW f, NEW D, NEW b, IsFiniteSet(D), \A d \in D : f[b[d]] \in Int,
         \A d, e \in D : b[d] = b[e] => d = e
  PROVE  SumFunctionOnSet([d \in D |-> f[b[d]]], D) = SumFunctionOnSet(f, {b[d] : d \in D})
  <1> DEFINE g == [d \in D |-> f[b[d]]]
             Image(T) == {b[d] : d \in T}
             U == {T \in SUBSET D : SumFunctionOnSet(g, T) = SumFunctionOnSet(f, Image(T))}
  <1>1. \A x \in Image(D) : f[x] \in Int OBVIOUS
  <1>2. \A d \in D : g[d] = f[b[d]] /\ g[d] \in Int OBVIOUS
  <1>3. IsFiniteSet(Image(D))
    <2> DEFINE h == [d \in D |-> b[d]]
    <2>1. h \in Surjection(D, Image(D)) BY DEF Surjection
    <2> HIDE DEF h
    <2> QED BY <2>1, FS_Surjection
  <1> HIDE DEF g
  <1>4. {} \in U
    <2>1. Image({}) = {} OBVIOUS
    <2> QED BY <1>1, <1>2, <1>3, <2>1, SumLaws
  <1>5. ASSUME NEW T \in SUBSET D, NEW x \in D \ T, T \in U PROVE T \cup {x} \in U
    <2>1. x \in T \cup {x} /\ T \cup {x} \in SUBSET D /\ (T \cup {x}) \ {x} = T OBVIOUS
    <2>2. /\ Image(T \cup {x}) \ {b[x]} = Image(T) /\ b[x] \in Image(T \cup {x})
          /\ Image(T \cup {x}) \in SUBSET Image(D)
      OBVIOUS
    <2>3. SumFunctionOnSet(g, T \cup {x}) = g[x] + SumFunctionOnSet(g, T)
      BY <1>2, <2>1, SumLaws
    <2> HIDE DEF Image
    <2>4. SumFunctionOnSet(f, Image(T \cup {x})) = f[b[x]] + SumFunctionOnSet(f, Image(T))
      <3> DEFINE whole == Image(T \cup {x})
      <3>1. b[x] \in whole /\ whole \in SUBSET Image(D) /\ whole \ {b[x]} = Image(T) BY <2>2
      <3> HIDE DEF whole
      <3>2. SumFunctionOnSet(f, whole) = f[b[x]] + SumFunctionOnSet(f, whole \ {b[x]})
        BY <1>1, <1>3, <3>1, SumLaws
      <3> QED BY <3>1, <3>2 DEF whole
    <2> QED BY <1>2, <1>5, <2>1, <2>3, <2>4
  <1> HIDE DEF U
  <1>6. D \in U BY <1>4, <1>5, FiniteInduction
  <1> QED BY <1>6 DEF U, g

\* What is in one bucket each is as much as the buckets count.
LEMMA SumsCount ==
  ASSUME NEW K, NEW B, IsFiniteSet(K), IsFiniteSet(B), NEW index, \A t \in K : index[t] \in B
  PROVE  SumFunctionOnSet([i \in B |-> Cardinality({t \in K : index[t] = i})], B) = Cardinality(K)
  <1> DEFINE In(T, i) == {t \in T : index[t] = i}
             c(T) == [i \in B |-> Cardinality(In(T, i))]
             U == {T \in SUBSET K : SumFunctionOnSet(c(T), B) = Cardinality(T)}
  <1>1. \A T \in SUBSET K : IsFiniteSet(T) BY FS_Subset
  <1>2. \A T \in SUBSET K : \A i \in B :
          IsFiniteSet(In(T, i)) /\ Cardinality(In(T, i)) \in Int /\ c(T)[i] = Cardinality(In(T, i))
    <2> SUFFICES ASSUME NEW T \in SUBSET K, NEW i \in B
                 PROVE  IsFiniteSet(In(T, i)) /\ Cardinality(In(T, i)) \in Int
      OBVIOUS
    <2>1. IsFiniteSet(In(T, i)) BY FS_Subset
    <2> QED BY <2>1, FS_CardinalityType
  <1> HIDE DEF c
  <1>3. {} \in U
    <2> DEFINE zero(S) == SumFunctionOnSet(c({}), S)
               V == {S \in SUBSET B : zero(S) = 0}
    <2>1. \A i \in B : c({})[i] = 0
      <3>1. \A i \in B : In({}, i) = {} OBVIOUS
      <3> QED BY <1>2, <3>1, FS_EmptySet
    <2>2. {} \in V BY <2>1, SumLaws
    <2>3. ASSUME NEW S \in SUBSET B, NEW x \in B \ S, S \in V PROVE S \cup {x} \in V
      <3>1. x \in S \cup {x} /\ S \cup {x} \in SUBSET B /\ (S \cup {x}) \ {x} = S OBVIOUS
      <3>2. zero(S \cup {x}) = c({})[x] + zero(S) BY <2>1, <3>1, SumLaws
      <3> QED BY <2>1, <2>3, <3>2
    <2> HIDE DEF V
    <2>4. B \in V BY <2>2, <2>3, FiniteInduction
    <2> QED BY <2>4, FS_EmptySet DEF V
  <1>4. ASSUME NEW T \in SUBSET K, NEW x \in K \ T, T \in U PROVE T \cup {x} \in U
    <2> DEFINE j == index[x]
               new == c(T \cup {x})
               old == c(T)
    <2>1. j \in B /\ T \cup {x} \in SUBSET K OBVIOUS
    <2>2. In(T \cup {x}, j) = In(T, j) \cup {x} /\ x \notin In(T, j) OBVIOUS
    <2>3. \A i \in B \ {j} : In(T \cup {x}, i) = In(T, i) OBVIOUS
    <2> HIDE DEF In, j
    <2>4. new[j] = old[j] + 1
      <3>1. /\ new[j] = Cardinality(In(T \cup {x}, j)) /\ old[j] = Cardinality(In(T, j))
            /\ IsFiniteSet(In(T, j))
        BY <1>2, <2>1
      <3>2. Cardinality(In(T, j) \cup {x}) = Cardinality(In(T, j)) + 1
        BY <2>2, <3>1, FS_AddElement
      <3> QED BY <2>2, <3>1, <3>2
    <2>5. \A i \in B \ {j} : new[i] = old[i] BY <1>2, <2>1, <2>3
    <2>6. \A i \in B : new[i] \in Int /\ old[i] \in Int BY <1>2, <2>1
    <2> HIDE DEF new, old
    <2>7. SumFunctionOnSet(new, B) = new[j] + SumFunctionOnSet(new, B \ {j})
      BY <2>1, <2>6, SumLaws
    <2>8. SumFunctionOnSet(old, B) = old[j] + SumFunctionOnSet(old, B \ {j})
      BY <2>1, <2>6, SumLaws
    <2>9. SumFunctionOnSet(new, B \ {j}) = SumFunctionOnSet(old, B \ {j})
      <3>1. IsFiniteSet(B \ {j}) BY FS_RemoveElement
      <3> QED BY <2>5, <2>6, <3>1, SumsAgree
    <2>10. Cardinality(T \cup {x}) = Cardinality(T) + 1 BY <1>1, FS_AddElement
    <2>11. SumFunctionOnSet(old, B \ {j}) \in Int BY <2>6, SumLaws
    <2>12. SumFunctionOnSet(new, B) = SumFunctionOnSet(old, B) + 1
      BY <2>1, <2>4, <2>6, <2>7, <2>8, <2>9, <2>11
    <2> QED BY <1>4, <2>1, <2>10, <2>12 DEF new, old
  <1> HIDE DEF U
  <1>5. K \in U BY <1>3, <1>4, FiniteInduction
  <1> QED BY <1>5 DEF U, c
===============================================================================
