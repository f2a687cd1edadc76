---------------------------- MODULE QueueLemmas ----------------------------
(***************************************************************************)
(* Facts about the std::list queues of both books, written as sequences,    *)
(* and about sums of quantities: the aggregate of a level, the volumes, the  *)
(* lots of the ledger.                                                       *)
(***************************************************************************)
EXTENDS Integers, Selection, SequencesExt, SequenceTheorems, FiniteSetTheorems, WellFoundedInduction, TLAPS

\* Unlinking the i-th node of a list closes the gap and keeps the order.
LEMMA RemoveAtProperties ==
  ASSUME NEW S, NEW s \in Seq(S), NEW i \in 1..Len(s)
  PROVE  /\ RemoveAt(s, i) \in Seq(S)
         /\ Len(RemoveAt(s, i)) = Len(s) - 1
         /\ \A j \in 1..(Len(s) - 1) :
              RemoveAt(s, i)[j] = IF j < i THEN s[j] ELSE s[j + 1]
<1> DEFINE left == SubSeq(s, 1, i - 1)
           right == SubSeq(s, i + 1, Len(s))
<1>1. /\ left \in Seq(S) /\ Len(left) = i - 1
      /\ \A j \in 1..(i - 1) : left[j] = s[j]
  <2>1. \A j \in 1..(i - 1) : s[j] \in S
    BY ElementOfSeq
  <2> QED BY <2>1, SubSeqProperties
<1>2. /\ right \in Seq(S) /\ Len(right) = Len(s) - i
      /\ \A j \in 1..(Len(s) - i) : right[j] = s[i + j]
  <2>1. \A j \in (i + 1)..Len(s) : s[j] \in S
    BY ElementOfSeq
  <2>2. Len(s) \in Nat /\ i + 1 \in Int
    OBVIOUS
  <2>3. /\ right \in Seq(S)
        /\ Len(right) = IF i + 1 <= Len(s) THEN Len(s) - (i + 1) + 1 ELSE 0
        /\ \A j \in 1..(Len(s) - (i + 1) + 1) : right[j] = s[(i + 1) + j - 1]
    BY <2>1, <2>2, SubSeqProperties
  <2> QED BY <2>3
<1> HIDE DEF left, right
<1>3. RemoveAt(s, i) = left \o right
  BY DEF RemoveAt, left, right
<1>4. /\ left \o right \in Seq(S)
      /\ Len(left \o right) = Len(left) + Len(right)
      /\ \A j \in 1..(Len(left) + Len(right)) :
           (left \o right)[j] = IF j <= Len(left) THEN left[j] ELSE right[j - Len(left)]
  BY <1>1, <1>2, ConcatProperties
<1>5. ASSUME NEW j \in 1..(Len(s) - 1)
      PROVE  RemoveAt(s, i)[j] = IF j < i THEN s[j] ELSE s[j + 1]
  <2>1. CASE j < i
    BY <2>1, <1>1, <1>2, <1>3, <1>4
  <2>2. CASE j >= i
    <3> DEFINE k == j - (i - 1)
    <3>1. k \in 1..(Len(s) - i) /\ i + k = j + 1
      BY <2>2
    <3>2. (left \o right)[j] = right[k]
      BY <2>2, <1>1, <1>2, <1>4
    <3>3. right[k] = s[i + k]
      BY <3>1, <1>2
    <3> HIDE DEF k
    <3>4. s[i + k] = s[j + 1]
      BY <3>1
    <3>5. ~(j < i)
      BY <2>2
    <3> QED BY <3>2, <3>3, <3>4, <3>5, <1>3
  <2> QED BY <2>1, <2>2
<1> QED BY <1>1, <1>2, <1>3, <1>4, <1>5

----------------------------------------------------------------------------
(* Induction *)

\* Induction over the naturals, for a set of them.
LEMMA SetInduction ==
  ASSUME NEW T, 0 \in T, \A n \in Nat : n \in T => n + 1 \in T
  PROVE  Nat \subseteq T
<1> DEFINE R == OpToRel(<, Nat)
           B == Nat \ T
<1>1. IsWellFoundedOn(R, Nat)
  BY NatLessThanWellFounded
<1>2. SUFFICES ASSUME B # {} PROVE FALSE
  OBVIOUS
<1>3. PICK m \in B : \A k \in B : ~ (<<k, m>> \in R)
  <2> HIDE DEF R
  <2>1. B \subseteq Nat
    OBVIOUS
  <2> HIDE DEF B
  <2> QED BY <1>1, <1>2, <2>1, WFMin
<1>4. m \in Nat /\ m # 0 /\ m - 1 \in Nat /\ m - 1 < m
  OBVIOUS
<1>5. <<m - 1, m>> \in R
  BY <1>4 DEF OpToRel
<1>6. m - 1 \in T
  BY <1>3, <1>4, <1>5
<1>7. (m - 1) + 1 \in T
  BY <1>4, <1>6
<1> QED BY <1>4, <1>7

----------------------------------------------------------------------------
(* The iteration that SumFunctionOnSet is defined by *)

Chosen(s) == CHOOSE x \in s : TRUE

LEMMA ChosenIn == ASSUME NEW s, s # {} PROVE Chosen(s) \in s
BY DEF Chosen

\* it adds the values of f over every set of a family F that is closed under
\* taking a chosen element away.
Adds(it, f, F) ==
  /\ DOMAIN it = F
  /\ \A s \in F : it[s] = IF s = {} THEN 0 ELSE f[Chosen(s)] + it[s \ {Chosen(s)}]

UpTo(D, n) == {s \in SUBSET D : Cardinality(s) <= n}

\* What is added over sets of up to n elements is added over sets of one more.
LEMMA AddsMore ==
  ASSUME NEW D, IsFiniteSet(D), NEW f, NEW n \in Nat, NEW it, Adds(it, f, UpTo(D, n))
  PROVE  \E jt : Adds(jt, f, UpTo(D, n + 1))
<1> DEFINE jt == [s \in UpTo(D, n + 1) |-> IF s \in UpTo(D, n) THEN it[s]
                    ELSE f[Chosen(s)] + it[s \ {Chosen(s)}]]
<1>1. DOMAIN jt = UpTo(D, n + 1)
  OBVIOUS
<1>2. ASSUME NEW s \in UpTo(D, n + 1)
      PROVE  jt[s] = IF s = {} THEN 0 ELSE f[Chosen(s)] + jt[s \ {Chosen(s)}]
  <2>1. s \in SUBSET D /\ IsFiniteSet(s) /\ Cardinality(s) \in Nat /\ Cardinality(s) <= n + 1
    BY <1>2, FS_Subset, FS_CardinalityType DEF UpTo
  <2>2. CASE s = {}
    <3>1. Cardinality({}) = 0 /\ s \in UpTo(D, n)
      BY <2>1, <2>2, FS_EmptySet DEF UpTo
    <3> QED BY <2>2, <3>1 DEF Adds
  <2>3. CASE s # {}
    <3> DEFINE t == s \ {Chosen(s)}
    <3>1. Chosen(s) \in s
      BY <2>3, ChosenIn
    <3>2. Cardinality(t) = Cardinality(s) - 1
      BY <2>1, <3>1, FS_RemoveElement
    <3>3. t \in UpTo(D, n) /\ t \in UpTo(D, n + 1)
      BY <2>1, <3>2 DEF UpTo
    <3>4. jt[t] = it[t]
      BY <3>3
    <3>5. CASE s \in UpTo(D, n)
      <4>1. jt[s] = it[s]
        BY <1>2, <3>5
      <4>2. it[s] = f[Chosen(s)] + it[t]
        BY <2>3, <3>5 DEF Adds
      <4> QED BY <2>3, <3>4, <4>1, <4>2
    <3>6. CASE s \notin UpTo(D, n)
      <4>1. jt[s] = f[Chosen(s)] + it[t]
        BY <1>2, <3>6
      <4> QED BY <2>3, <3>4, <4>1
    <3> QED BY <3>5, <3>6
  <2> QED BY <2>2, <2>3
<1>3. Adds(jt, f, UpTo(D, n + 1))
  <2> HIDE DEF jt
  <2> QED BY <1>1, <1>2 DEF Adds
<1> QED BY <1>3

\* There is such an iteration for every finite set.
LEMMA AddsExists ==
  ASSUME NEW D, IsFiniteSet(D), NEW f
  PROVE  \E it : Adds(it, f, SUBSET D)
<1> DEFINE T == {n \in Nat : \E it : Adds(it, f, UpTo(D, n))}
<1>1. 0 \in T
  <2> DEFINE it == [s \in UpTo(D, 0) |-> 0]
  <2>1. \A s \in UpTo(D, 0) : s = {}
    BY FS_Subset, FS_CardinalityType, FS_EmptySet DEF UpTo
  <2>2. Adds(it, f, UpTo(D, 0))
    BY <2>1 DEF Adds
  <2> QED BY <2>2
<1>2. \A n \in Nat : n \in T => n + 1 \in T
  BY AddsMore
<1> HIDE DEF T
<1>3. Cardinality(D) \in T
  BY <1>1, <1>2, SetInduction, FS_CardinalityType
<1>4. UpTo(D, Cardinality(D)) = SUBSET D
  BY FS_Subset DEF UpTo
<1> QED BY <1>3, <1>4 DEF T

\* What it adds over every subset of D.
Totals(it, f, D) == Adds(it, f, SUBSET D)

LEMMA SumIsAdded ==
  ASSUME NEW f, IsFiniteSet(DOMAIN f)
  PROVE  \E it : Totals(it, f, DOMAIN f) /\ SumFunction(f) = it[DOMAIN f]
<1> DEFINE S == DOMAIN f
           Rec(it) == it = [s \in SUBSET S |-> IF s = {} THEN 0
                              ELSE LET x == CHOOSE x \in s : TRUE IN f[x] + it[s \ {x}]]
           g == CHOOSE it : Rec(it)
<1>1. PICK it : Adds(it, f, SUBSET S)
  BY AddsExists
<1> DEFINE jt == [s \in SUBSET S |-> it[s]]
<1>2. Adds(jt, f, SUBSET S)
  BY <1>1, ChosenIn DEF Adds
<1>3. Rec(jt)
  <2>1. \A s \in SUBSET S : jt[s] = IF s = {} THEN 0 ELSE f[Chosen(s)] + jt[s \ {Chosen(s)}]
    BY <1>2 DEF Adds
  <2> QED BY <2>1 DEF Chosen
<1>4. Rec(g)
  BY <1>3
<1>5. Adds(g, f, SUBSET S)
  BY <1>4 DEF Adds, Chosen
<1>6. SumFunction(f) = g[S]
  BY DEF SumFunction, SumFunctionOnSet, FoldFunctionOnSet, MapThenFoldSet
<1> HIDE DEF g
<1> QED BY <1>5, <1>6 DEF Totals

\* Any element may be the one added last.
AnyLast(it, f, D) ==
  \A s \in SUBSET D : it[s] \in Int /\ \A x \in s : it[s] = f[x] + it[s \ {x}]

LEMMA AddsAny ==
  ASSUME NEW D, IsFiniteSet(D), NEW f, \A x \in D : f[x] \in Int,
         NEW it, Totals(it, f, D)
  PROVE  AnyLast(it, f, D)
<1> DEFINE LastTaken(s) == it[s] \in Int /\ \A x \in s : it[s] = f[x] + it[s \ {x}]
           T == {n \in Nat : \A s \in SUBSET D : Cardinality(s) <= n => LastTaken(s)}
<1>0. \A s \in SUBSET D : IsFiniteSet(s) /\ Cardinality(s) \in Nat
  BY FS_Subset, FS_CardinalityType
<1>1. 0 \in T
  <2> SUFFICES ASSUME NEW s \in SUBSET D, Cardinality(s) <= 0 PROVE LastTaken(s)
    OBVIOUS
  <2>1. s = {}
    BY <1>0, FS_EmptySet
  <2>2. it[s] = 0
    BY <2>1 DEF Totals, Adds
  <2> QED BY <2>1, <2>2
<1>2. ASSUME NEW n \in Nat, n \in T PROVE n + 1 \in T
  <2> SUFFICES ASSUME NEW s \in SUBSET D, Cardinality(s) <= n + 1 PROVE LastTaken(s)
    OBVIOUS
  <2>1. \A t \in SUBSET D : Cardinality(t) <= n => LastTaken(t)
    BY <1>2
  <2>2. CASE s = {}
    <3>1. it[s] = 0
      BY <2>2 DEF Totals, Adds
    <3> QED BY <2>2, <3>1
  <2>3. CASE s # {}
    <3> DEFINE c == Chosen(s)
               t == s \ {c}
    <3>1. c \in s
      BY <2>3, ChosenIn
    <3>2. \A x \in s : /\ s \ {x} \in SUBSET D /\ Cardinality(s \ {x}) <= n
      BY <1>0, FS_RemoveElement
    <3> HIDE DEF LastTaken, c
    <3>3. it[s] = f[c] + it[t]
      BY <2>3 DEF Totals, Adds, c
    <3>4. \A x \in s : LastTaken(s \ {x})
      BY <2>1, <3>2
    <3>5. it[s] \in Int
      <4>1. f[c] \in Int /\ it[t] \in Int
        BY <3>1, <3>4 DEF LastTaken
      <4> QED BY <3>3, <4>1
    <3>6. ASSUME NEW x \in s PROVE it[s] = f[x] + it[s \ {x}]
      <4>1. CASE x = c
        BY <3>3, <4>1
      <4>2. CASE x # c
        <5> DEFINE u == s \ {x}
                   v == t \ {x}
        <5>1. x \in t /\ c \in u /\ v = u \ {c}
          BY <3>1, <4>2
        <5>2. it[t] = f[x] + it[v]
          BY <3>1, <3>4, <5>1 DEF LastTaken
        <5>3. it[u] = f[c] + it[v] /\ it[u] \in Int
          BY <3>4, <5>1 DEF LastTaken
        <5>4. it[v] \in Int
          <6>1. v \in SUBSET D
            OBVIOUS
          <6>2. Cardinality(v) <= n
            BY <1>0, <3>1, <3>2, <5>1, FS_Subset
          <6> QED BY <2>1, <6>1, <6>2 DEF LastTaken
        <5>5. f[x] \in Int /\ f[c] \in Int
          BY <3>1
        <5> QED BY <3>3, <5>2, <5>3, <5>4, <5>5
      <4> QED BY <4>1, <4>2
    <3> QED BY <3>5, <3>6 DEF LastTaken
  <2> QED BY <2>2, <2>3
<1> HIDE DEF T
<1>3. Cardinality(D) \in T
  BY <1>0, <1>1, <1>2, SetInduction
<1> QED BY <1>0, <1>3, FS_Subset DEF T, AnyLast

\* Where two functions agree, so does what is added.
LEMMA AddsSame ==
  ASSUME NEW D, IsFiniteSet(D), NEW f, NEW it, Totals(it, f, D),
         NEW E, NEW g, NEW jt, Totals(jt, g, E), \A x \in E : x \in D /\ f[x] = g[x]
  PROVE  it[E] = jt[E]
<1> DEFINE T == {n \in Nat : \A s \in SUBSET E : Cardinality(s) <= n => it[s] = jt[s]}
<1>0. \A s \in SUBSET E : IsFiniteSet(s) /\ Cardinality(s) \in Nat
  BY FS_Subset, FS_CardinalityType
<1>1. 0 \in T
  <2> SUFFICES ASSUME NEW s \in SUBSET E, Cardinality(s) <= 0 PROVE it[s] = jt[s]
    OBVIOUS
  <2>1. s = {}
    BY <1>0, FS_EmptySet
  <2> QED BY <2>1 DEF Totals, Adds
<1>2. ASSUME NEW n \in Nat, n \in T PROVE n + 1 \in T
  <2> SUFFICES ASSUME NEW s \in SUBSET E, Cardinality(s) <= n + 1 PROVE it[s] = jt[s]
    OBVIOUS
  <2>1. CASE s = {}
    BY <2>1 DEF Totals, Adds
  <2>2. CASE s # {}
    <3> DEFINE t == s \ {Chosen(s)}
    <3>1. Chosen(s) \in s
      BY <2>2, ChosenIn
    <3>2. t \in SUBSET E /\ Cardinality(t) <= n
      BY <1>0, <3>1, FS_RemoveElement
    <3>3. it[t] = jt[t]
      BY <1>2, <3>2
    <3>4. it[s] = f[Chosen(s)] + it[t] /\ jt[s] = g[Chosen(s)] + jt[t]
      BY <2>2 DEF Totals, Adds
    <3> QED BY <3>1, <3>3, <3>4
  <2> QED BY <2>1, <2>2
<1> HIDE DEF T
<1>3. Cardinality(E) \in T
  BY <1>0, <1>1, <1>2, SetInduction
<1> QED BY <1>0, <1>3 DEF T

----------------------------------------------------------------------------
(* Sums *)

\* A function whose values can be added.
Addable(f, D) == IsFiniteSet(D) /\ DOMAIN f = D /\ \A x \in D : f[x] \in Int

LEMMA AddableTotals ==
  ASSUME NEW f, NEW D, Addable(f, D)
  PROVE  \E it : Totals(it, f, D) /\ SumFunction(f) = it[D] /\ AnyLast(it, f, D)
<1>1. IsFiniteSet(D) /\ DOMAIN f = D /\ \A x \in D : f[x] \in Int
  BY DEF Addable
<1>2. PICK it : Totals(it, f, D) /\ SumFunction(f) = it[D]
  BY <1>1, SumIsAdded
<1> QED BY <1>1, <1>2, AddsAny

LEMMA SumEmpty == ASSUME NEW f, DOMAIN f = {} PROVE SumFunction(f) = 0
<1>1. PICK it : Totals(it, f, {}) /\ SumFunction(f) = it[{}]
  BY SumIsAdded, FS_EmptySet
<1> QED BY <1>1 DEF Totals, Adds

LEMMA SumInt ==
  ASSUME NEW f, NEW D, Addable(f, D)
  PROVE  SumFunction(f) \in Int
BY AddableTotals DEF AnyLast

\* One more value is added.
LEMMA SumMore ==
  ASSUME NEW f, NEW D, Addable(f, D), NEW g, NEW E, Addable(g, E),
         NEW x, x \notin D, \A y : y \in E <=> y \in D \/ y = x, \A y \in D : g[y] = f[y]
  PROVE  SumFunction(g) = SumFunction(f) + g[x]
<1>1. PICK it : Totals(it, f, D) /\ SumFunction(f) = it[D]
  BY AddableTotals
<1>2. PICK jt : Totals(jt, g, E) /\ SumFunction(g) = jt[E] /\ AnyLast(jt, g, E)
  BY AddableTotals
<1>3. jt[E] = g[x] + jt[D] /\ jt[D] \in Int
  <2> DEFINE C == E \ {x}
  <2>1. C = D
    OBVIOUS
  <2>2. jt[E] = g[x] + jt[C] /\ jt[C] \in Int
    BY <1>2 DEF AnyLast
  <2> HIDE DEF C
  <2> QED BY <2>1, <2>2
<1>4. IsFiniteSet(E) /\ g[x] \in Int
  BY DEF Addable
<1>5. jt[D] = it[D]
  BY <1>1, <1>2, <1>4, AddsSame
<1>6. SumFunction(g) = g[x] + SumFunction(f) /\ SumFunction(f) \in Int
  BY <1>1, <1>2, <1>3, <1>5
<1> QED BY <1>4, <1>6

\* Equal values give equal sums.
LEMMA SumSame ==
  ASSUME NEW f, NEW D, Addable(f, D), NEW g, Addable(g, D), \A y \in D : g[y] = f[y]
  PROVE  SumFunction(g) = SumFunction(f)
<1>1. PICK it : Totals(it, f, D) /\ SumFunction(f) = it[D]
  BY AddableTotals
<1>2. PICK jt : Totals(jt, g, D) /\ SumFunction(g) = jt[D]
  BY AddableTotals
<1>3. jt[D] = it[D]
  BY <1>1, <1>2, AddsSame DEF Addable
<1> QED BY <1>1, <1>2, <1>3

\* One value changes.
LEMMA SumChange ==
  ASSUME NEW f, NEW D, Addable(f, D), NEW g, Addable(g, D), NEW x \in D,
         \A y \in D \ {x} : g[y] = f[y]
  PROVE  SumFunction(g) = SumFunction(f) + g[x] - f[x]
<1> DEFINE C == D \ {x}
           h == [y \in C |-> f[y]]
<1>1. Addable(h, C)
  BY FS_RemoveElement DEF Addable
<1>2. /\ \A y : y \in D <=> y \in C \/ y = x
      /\ x \notin C /\ \A y \in C : h[y] = f[y] /\ h[y] = g[y]
  OBVIOUS
<1> HIDE DEF C, h
<1>3. SumFunction(f) = SumFunction(h) + f[x]
  BY <1>1, <1>2, SumMore
<1>4. SumFunction(g) = SumFunction(h) + g[x]
  BY <1>1, <1>2, SumMore
<1>5. SumFunction(h) \in Int /\ f[x] \in Int /\ g[x] \in Int
  BY <1>1, SumInt DEF Addable
<1> QED BY <1>3, <1>4, <1>5

\* A sum of naturals is a natural, and no less than any of them.
LEMMA SumNat ==
  ASSUME NEW f, NEW D, Addable(f, D), \A x \in D : f[x] \in Nat
  PROVE  SumFunction(f) \in Nat /\ \A x \in D : f[x] <= SumFunction(f)
<1>1. PICK it : SumFunction(f) = it[D] /\ AnyLast(it, f, D) /\ Totals(it, f, D)
  BY AddableTotals
<1> DEFINE T == {n \in Nat : \A s \in SUBSET D : Cardinality(s) <= n => it[s] \in Nat}
<1>0. IsFiniteSet(D) /\ \A s \in SUBSET D : IsFiniteSet(s) /\ Cardinality(s) \in Nat
  BY FS_Subset, FS_CardinalityType DEF Addable
<1>5. it[{}] \in Nat
  <2>1. {} \in SUBSET D
    OBVIOUS
  <2> QED BY <1>1, <2>1 DEF Totals, Adds
<1>2. 0 \in T
  <2> SUFFICES ASSUME NEW s \in SUBSET D, Cardinality(s) <= 0 PROVE it[s] \in Nat
    OBVIOUS
  <2>1. s = {}
    BY <1>0, FS_EmptySet
  <2> QED BY <2>1, <1>5
<1>3. ASSUME NEW n \in Nat, n \in T PROVE n + 1 \in T
  <2> SUFFICES ASSUME NEW s \in SUBSET D, Cardinality(s) <= n + 1 PROVE it[s] \in Nat
    OBVIOUS
  <2>1. CASE s = {}
    BY <2>1, <1>5
  <2>2. CASE s # {}
    <3>1. PICK x \in s : TRUE
      BY <2>2
    <3>2. Cardinality(s \ {x}) <= n /\ s \ {x} \in SUBSET D
      BY <1>0, FS_RemoveElement
    <3>3. it[s \ {x}] \in Nat
      BY <1>3, <3>2
    <3>4. it[s] = f[x] + it[s \ {x}] /\ f[x] \in Nat
      BY <1>1, <3>1 DEF AnyLast
    <3> QED BY <3>3, <3>4
  <2> QED BY <2>1, <2>2
<1>4. Nat \subseteq T
  <2> HIDE DEF T
  <2> QED BY <1>2, <1>3, SetInduction
<1>7. \A s \in SUBSET D : it[s] \in Nat
  BY <1>0, <1>4
<1>6. ASSUME NEW x \in D PROVE f[x] <= it[D]
  <2>1. it[D] = f[x] + it[D \ {x}] /\ it[D \ {x}] \in Nat
    BY <1>1, <1>7 DEF AnyLast
  <2> QED BY <2>1
<1> QED BY <1>1, <1>7, <1>6

\* Values that are 0 add nothing.
LEMMA SumWithoutZeros ==
  ASSUME NEW f, NEW D, Addable(f, D), NEW g, NEW E, Addable(g, E),
         NEW x, x \notin E, \A y : y \in D <=> y \in E \/ y = x, \A y \in E : g[y] = f[y],
         f[x] = 0
  PROVE  SumFunction(g) = SumFunction(f)
<1>1. SumFunction(f) = SumFunction(g) + f[x]
  BY SumMore
<1> QED BY <1>1, SumInt

\* The values of a list, one of them taken out and the gap closed.
LEMMA SumUnlinked ==
  ASSUME NEW n \in Nat, NEW i \in 1..n, NEW f, Addable(f, 1..n),
         NEW g, Addable(g, 1..(n - 1)),
         \A j \in 1..(n - 1) : g[j] = IF j < i THEN f[j] ELSE f[j + 1]
  PROVE  SumFunction(g) = SumFunction(f) - f[i]
<1> DEFINE Short == 1..(n - 1)
           Out(k) == [j \in Short |-> IF j < k THEN f[j] ELSE f[j + 1]]
           T == {m \in Nat : m < n => SumFunction(Out(n - m)) = SumFunction(f) - f[n - m]}
<1>0. \A j \in 1..n : f[j] \in Int
  BY DEF Addable
<1>1. \A k \in 1..n : Addable(Out(k), Short)
  <2> TAKE k \in 1..n
  <2>1. IsFiniteSet(Short)
    BY FS_Interval
  <2>2. \A j \in Short : j \in 1..n /\ j + 1 \in 1..n
    OBVIOUS
  <2> QED BY <2>1, <2>2, <1>0 DEF Addable
<1>2. 0 \in T
  <2>1. /\ n \notin Short /\ \A y : y \in 1..n <=> y \in Short \/ y = n
        /\ \A y \in Short : f[y] = Out(n)[y]
    OBVIOUS
  <2>2. Addable(Out(n), Short)
    BY <1>1
  <2> HIDE DEF Short, Out
  <2>3. SumFunction(f) = SumFunction(Out(n)) + f[n]
    BY <2>1, <2>2, SumMore
  <2>4. n - 0 = n /\ SumFunction(Out(n)) \in Int /\ f[n] \in Int
    BY <2>2, <1>0, SumInt
  <2> QED BY <2>3, <2>4
<1>3. ASSUME NEW m \in Nat, m \in T PROVE m + 1 \in T
  <2> SUFFICES ASSUME m + 1 < n
               PROVE  SumFunction(Out(n - (m + 1))) = SumFunction(f) - f[n - (m + 1)]
    OBVIOUS
  <2> DEFINE k == n - (m + 1)
  <2>1. k \in 1..(n - 1) /\ k + 1 = n - m /\ k \in 1..n /\ k + 1 \in 1..n /\ m < n /\ k \in Short
    OBVIOUS
  <2>2. SumFunction(Out(k + 1)) = SumFunction(f) - f[k + 1]
    BY <1>3, <2>1
  <2>3. /\ Out(k)[k] = f[k + 1] /\ Out(k + 1)[k] = f[k]
        /\ \A y \in Short \ {k} : Out(k)[y] = Out(k + 1)[y]
    BY <2>1
  <2>4. Addable(Out(k), Short) /\ Addable(Out(k + 1), Short)
    BY <1>1, <2>1
  <2> DEFINE here == Out(k)
             next == Out(k + 1)
  <2> HIDE DEF k, Short, Out
  <2>5. SumFunction(here) = SumFunction(next) + here[k] - next[k]
    <3>1. /\ Addable(here, Short) /\ Addable(next, Short) /\ k \in Short
          /\ \A y \in Short \ {k} : here[y] = next[y]
      BY <2>1, <2>3, <2>4
    <3> HIDE DEF here, next
    <3> QED BY <3>1, SumChange
  <2>6. SumFunction(Out(k)) \in Int /\ SumFunction(f) \in Int /\ f[k] \in Int /\ f[k + 1] \in Int
    BY <2>1, <2>4, <1>0, SumInt
  <2>7. SumFunction(Out(k)) = SumFunction(f) - f[k]
    BY <2>2, <2>3, <2>5, <2>6
  <2> QED BY <2>7 DEF k
<1>4. n - i \in T
  <2> HIDE DEF T
  <2>1. n - i \in Nat
    OBVIOUS
  <2> QED BY <1>2, <1>3, <2>1, SetInduction
<1>5. SumFunction(Out(i)) = SumFunction(f) - f[i]
  <2>1. n - i < n /\ n - (n - i) = i
    OBVIOUS
  <2> QED BY <1>4, <2>1
<1>6. Addable(Out(i), Short) /\ \A j \in Short : g[j] = Out(i)[j]
  BY <1>1
<1>7. SumFunction(g) = SumFunction(Out(i))
  <2> HIDE DEF Out
  <2> QED BY <1>6, SumSame
<1> QED BY <1>5, <1>7

\* A sum is linear in its values.
LEMMA SumLinear ==
  ASSUME NEW D, NEW f, Addable(f, D), NEW g, Addable(g, D), NEW h, Addable(h, D), NEW k \in Int,
         \A x \in D : h[x] = f[x] + k * g[x]
  PROVE  SumFunction(h) = SumFunction(f) + k * SumFunction(g)
<1>1. PICK it : SumFunction(f) = it[D] /\ AnyLast(it, f, D) /\ Totals(it, f, D)
  BY AddableTotals
<1>2. PICK jt : SumFunction(g) = jt[D] /\ AnyLast(jt, g, D) /\ Totals(jt, g, D)
  BY AddableTotals
<1>3. PICK kt : SumFunction(h) = kt[D] /\ AnyLast(kt, h, D) /\ Totals(kt, h, D)
  BY AddableTotals
<1> DEFINE T == {n \in Nat : \A s \in SUBSET D : Cardinality(s) <= n => kt[s] = it[s] + k * jt[s]}
<1>0. IsFiniteSet(D) /\ \A s \in SUBSET D : IsFiniteSet(s) /\ Cardinality(s) \in Nat
  BY FS_Subset, FS_CardinalityType DEF Addable
<1>4. 0 \in T
  <2> SUFFICES ASSUME NEW s \in SUBSET D, Cardinality(s) <= 0 PROVE kt[s] = it[s] + k * jt[s]
    OBVIOUS
  <2>1. s = {}
    BY <1>0, FS_EmptySet
  <2>2. it[s] = 0 /\ jt[s] = 0 /\ kt[s] = 0
    BY <1>1, <1>2, <1>3, <2>1 DEF Totals, Adds
  <2> QED BY <2>2
<1>5. ASSUME NEW n \in Nat, n \in T PROVE n + 1 \in T
  <2> SUFFICES ASSUME NEW s \in SUBSET D, Cardinality(s) <= n + 1
               PROVE  kt[s] = it[s] + k * jt[s]
    OBVIOUS
  <2>1. CASE s = {}
    <3>1. it[s] = 0 /\ jt[s] = 0 /\ kt[s] = 0
      BY <1>1, <1>2, <1>3, <2>1 DEF Totals, Adds
    <3> QED BY <3>1
  <2>2. CASE s # {}
    <3>1. PICK x \in s : TRUE
      BY <2>2
    <3> DEFINE r == s \ {x}
    <3>2. Cardinality(r) <= n /\ r \in SUBSET D
      BY <1>0, <3>1, FS_RemoveElement
    <3>3. kt[r] = it[r] + k * jt[r] /\ it[r] \in Int /\ jt[r] \in Int
      BY <1>1, <1>2, <1>5, <3>2 DEF AnyLast
    <3>4. it[s] = f[x] + it[r] /\ jt[s] = g[x] + jt[r] /\ kt[s] = h[x] + kt[r]
      BY <1>1, <1>2, <1>3, <3>1 DEF AnyLast
    <3>5. f[x] \in Int /\ g[x] \in Int /\ h[x] = f[x] + k * g[x]
      BY <3>1 DEF Addable
    <3> HIDE DEF r
    <3>6. \A a, b \in Int : k * (a + b) = k * a + k * b
      OBVIOUS
    <3>7. k * (g[x] + jt[r]) = k * g[x] + k * jt[r]
      BY <3>3, <3>5, <3>6
    <3>8. k * g[x] \in Int /\ k * jt[r] \in Int
      BY <3>3, <3>5
    <3> QED BY <3>3, <3>4, <3>5, <3>7, <3>8
  <2> QED BY <2>1, <2>2
<1>6. Nat \subseteq T
  <2> HIDE DEF T
  <2> QED BY <1>4, <1>5, SetInduction
<1>7. kt[D] = it[D] + k * jt[D]
  BY <1>0, <1>6
<1> QED BY <1>1, <1>2, <1>3, <1>7

\* Zeros add up to nothing.
LEMMA SumZero ==
  ASSUME NEW f, NEW D, Addable(f, D), \A x \in D : f[x] = 0
  PROVE  SumFunction(f) = 0
<1>1. SumFunction(f) \in Int
  BY SumInt
<1>2. \A x \in D : f[x] = f[x] + 1 * f[x]
  OBVIOUS
<1>3. SumFunction(f) = SumFunction(f) + 1 * SumFunction(f)
  BY <1>2, SumLinear
<1>4. \A t \in Int : t = t + 1 * t => t = 0
  OBVIOUS
<1> QED BY ONLY <1>1, <1>3, <1>4

\* Smaller values add up to no more.
LEMMA SumAtMost ==
  ASSUME NEW D, NEW f, Addable(f, D), NEW g, Addable(g, D), \A x \in D : f[x] <= g[x]
  PROVE  SumFunction(f) <= SumFunction(g)
<1> DEFINE h == [x \in D |-> g[x] - f[x]]
<1>1. \A x \in D : f[x] \in Int /\ g[x] \in Int /\ g[x] - f[x] \in Nat
  BY DEF Addable
<1>2. /\ Addable(h, D) /\ \A x \in D : h[x] \in Nat
      /\ \A x \in D : g[x] = h[x] + 1 * f[x]
  BY <1>1 DEF Addable
<1> HIDE DEF h
<1>3. SumFunction(g) = SumFunction(h) + 1 * SumFunction(f)
  BY <1>2, SumLinear
<1>4. SumFunction(h) \in Nat /\ SumFunction(f) \in Int
  BY <1>2, SumNat, SumInt
<1>5. \A a \in Nat, b \in Int : b <= a + 1 * b
  OBVIOUS
<1> QED BY ONLY <1>3, <1>4, <1>5

\* Values that are positive on S alone, and never above q, add up to no more than q for
\* each member of S.
LEMMA SumCapped ==
  ASSUME NEW D, NEW f, Addable(f, D), NEW q \in Nat, NEW S \in SUBSET D,
         \A x \in D : f[x] <= IF x \in S THEN q ELSE 0
  PROVE  SumFunction(f) <= Cardinality(S) * q
<1>1. PICK it : SumFunction(f) = it[D] /\ AnyLast(it, f, D) /\ Totals(it, f, D)
  BY AddableTotals
<1> DEFINE cap(s) == Cardinality(s \cap S) * q
           T == {n \in Nat : \A s \in SUBSET D : Cardinality(s) <= n => it[s] <= cap(s)}
<1>0. /\ IsFiniteSet(D) /\ \A s \in SUBSET D : IsFiniteSet(s) /\ Cardinality(s) \in Nat
      /\ \A s : IsFiniteSet(s \cap S) /\ Cardinality(s \cap S) \in Nat
  <2>1. IsFiniteSet(D) /\ \A s \in SUBSET D : IsFiniteSet(s) /\ Cardinality(s) \in Nat
    BY FS_Subset, FS_CardinalityType DEF Addable
  <2>2. \A s : s \cap S \in SUBSET D
    OBVIOUS
  <2> QED BY <2>1, <2>2
<1>2. it[{}] <= cap({})
  <2>1. {} \in SUBSET D /\ {} \cap S = {} /\ Cardinality({}) = 0
    BY FS_EmptySet
  <2>2. it[{}] = 0
    BY <1>1, <2>1 DEF Totals, Adds
  <2>3. cap({}) = 0 * q
    BY <2>1
  <2> HIDE DEF cap
  <2> QED BY <2>2, <2>3
<1>3. 0 \in T
  <2> SUFFICES ASSUME NEW s \in SUBSET D, Cardinality(s) <= 0 PROVE it[s] <= cap(s)
    OBVIOUS
  <2>1. s = {}
    BY <1>0, FS_EmptySet
  <2> QED BY <2>1, <1>2
<1>4. ASSUME NEW n \in Nat, n \in T PROVE n + 1 \in T
  <2> SUFFICES ASSUME NEW s \in SUBSET D, Cardinality(s) <= n + 1 PROVE it[s] <= cap(s)
    OBVIOUS
  <2>1. CASE s = {}
    BY <2>1, <1>2
  <2>2. CASE s # {}
    <3>1. PICK x \in s : TRUE
      BY <2>2
    <3> DEFINE r == s \ {x}
               c == Cardinality(r \cap S)
    <3>2. Cardinality(r) <= n /\ r \in SUBSET D
      BY <1>0, <3>1, FS_RemoveElement
    <3>3. it[r] <= c * q /\ it[r] \in Int /\ c \in Nat
      BY <1>0, <1>1, <1>4, <3>2 DEF AnyLast
    <3>4. it[s] = f[x] + it[r] /\ f[x] \in Int
      BY <1>1, <3>1 DEF AnyLast, Addable
    <3>5. CASE x \in S
      <4>1. f[x] <= q
        BY <3>1, <3>5
      <4>2. s \cap S = (r \cap S) \cup {x} /\ x \notin r \cap S
        BY <3>1, <3>5
      <4>3. Cardinality(s \cap S) = c + 1
        <5> DEFINE before == r \cap S
                   after == s \cap S
        <5>1. IsFiniteSet(before) /\ after = before \cup {x} /\ x \notin before
          BY <1>0, <4>2
        <5> HIDE DEF before, after
        <5>2. Cardinality(after) = Cardinality(before) + 1
          BY <5>1, FS_AddElement
        <5> QED BY <5>2 DEF before, after
      <4> HIDE DEF c, r
      <4>4. \A k \in Nat : (k + 1) * q = k * q + q /\ k * q \in Int
        OBVIOUS
      <4>5. cap(s) = c * q + q /\ c * q \in Int
        BY <3>3, <4>3, <4>4
      <4> HIDE DEF cap
      <4> QED BY <3>3, <3>4, <4>1, <4>5
    <3>6. CASE x \notin S
      <4>1. f[x] <= 0
        BY <3>1, <3>6
      <4>2. s \cap S = r \cap S
        BY <3>1, <3>6
      <4>3. cap(s) = c * q
        BY <4>2
      <4> HIDE DEF cap, c, r
      <4>4. \A k \in Nat : k * q \in Int
        OBVIOUS
      <4>5. c * q \in Int
        BY <3>3, <4>4
      <4> QED BY <3>3, <3>4, <4>1, <4>3, <4>5
    <3> QED BY <3>5, <3>6
  <2> QED BY <2>1, <2>2
<1>5. Nat \subseteq T
  <2> HIDE DEF T
  <2> QED BY <1>3, <1>4, SetInduction
<1>6. it[D] <= cap(D)
  BY <1>0, <1>5
<1>7. D \cap S = S
  OBVIOUS
<1> QED BY <1>1, <1>6, <1>7

\* The values of a list, and of its last element.
LEMMA SumLast ==
  ASSUME NEW n \in Nat, n # 0, NEW f, Addable(f, 1..n), NEW g, Addable(g, 1..(n - 1)),
         \A j \in 1..(n - 1) : g[j] = f[j]
  PROVE  SumFunction(f) = SumFunction(g) + f[n]
<1> DEFINE D == 1..(n - 1)
           E == 1..n
<1>1. n \notin D /\ (\A y : y \in E <=> y \in D \/ y = n) /\ Addable(g, D) /\ Addable(f, E)
  OBVIOUS
<1>2. \A y \in D : f[y] = g[y]
  OBVIOUS
<1> HIDE DEF D, E
<1> QED BY <1>1, <1>2, SumMore

----------------------------------------------------------------------------
(* What is kept of a list *)

\* f[n] is what is kept of the first n elements.
Keeps(f, list, kept) ==
  /\ DOMAIN f = 0..Len(list) /\ f[0] = <<>>
  /\ \A n \in 1..Len(list) :
       f[n] = IF n \in kept THEN Append(f[n - 1], list[n]) ELSE f[n - 1]

LEMMA SelectKeeps ==
  ASSUME NEW S, NEW list \in Seq(S), NEW kept
  PROVE  Keeps(SelectUpTo(list, kept), list, kept)
<1> DEFINE N == Len(list)
           Next(g, n) == IF n \in kept THEN Append(g[n - 1], list[n]) ELSE g[n - 1]
           From(g, m) == g[0] = <<>> /\ \A n \in 1..m : g[n] = Next(g, n)
           T == {m \in Nat : \E g : DOMAIN g = Nat /\ From(g, m)}
<1>0. N \in Nat
  OBVIOUS
<1>1. 0 \in T
  <2>1. From([n \in Nat |-> <<>>], 0)
    OBVIOUS
  <2> QED BY <2>1
<1>2. ASSUME NEW m \in Nat, m \in T PROVE m + 1 \in T
  <2>1. PICK g : DOMAIN g = Nat /\ From(g, m)
    BY <1>2
  <2> DEFINE h == [n \in Nat |-> IF n = m + 1 THEN Next(g, n) ELSE g[n]]
  <2>2. h[0] = <<>>
    BY <2>1
  <2>3. ASSUME NEW n \in 1..(m + 1) PROVE h[n] = Next(h, n)
    <3>1. n - 1 \in Nat /\ n - 1 # m + 1 /\ n \in Nat
      OBVIOUS
    <3>2. h[n - 1] = g[n - 1]
      BY <3>1
    <3>3. CASE n = m + 1
      BY <3>2, <3>3
    <3>4. CASE n # m + 1
      <4>1. n \in 1..m /\ h[n] = g[n]
        BY <3>4
      <4> QED BY <2>1, <3>2, <4>1
    <3> QED BY <3>3, <3>4
  <2>4. DOMAIN h = Nat
    OBVIOUS
  <2> HIDE DEF h, Next
  <2> QED BY <2>2, <2>3, <2>4
<1>3. N \in T
  <2> HIDE DEF T
  <2> QED BY <1>0, <1>1, <1>2, SetInduction
<1>4. PICK g : DOMAIN g = Nat /\ From(g, N)
  BY <1>3
<1> DEFINE Rec(f) == f = [n \in 0..Len(list) |-> IF n = 0 THEN <<>>
                            ELSE IF n \in kept THEN Append(f[n - 1], list[n]) ELSE f[n - 1]]
           f == [n \in 0..N |-> g[n]]
           c == CHOOSE e : Rec(e)
<1>5. Rec(f)
  <2>1. \A n \in 1..N : n - 1 \in 0..N /\ n \in 0..N
    BY <1>0
  <2>2. \A n \in 1..N : f[n] = IF n \in kept THEN Append(f[n - 1], list[n]) ELSE f[n - 1]
    BY <1>4, <2>1
  <2>3. f[0] = <<>>
    BY <1>0, <1>4
  <2>4. \A n \in 0..N : n # 0 => n \in 1..N
    BY <1>0
  <2> HIDE DEF f
  <2>5. \A n \in 0..N : f[n] = IF n = 0 THEN <<>>
                               ELSE IF n \in kept THEN Append(f[n - 1], list[n]) ELSE f[n - 1]
    BY <2>2, <2>3, <2>4
  <2>6. DOMAIN f = 0..N /\ f = [n \in 0..N |-> f[n]]
    BY DEF f
  <2> QED BY <2>5, <2>6
<1>6. Rec(c)
  BY <1>5
<1>7. SelectUpTo(list, kept) = c
  BY DEF SelectUpTo
<1>8. Keeps(c, list, kept)
  <2>1. 0 \in 0..N /\ \A n \in 1..N : n \in 0..N /\ n # 0
    BY <1>0
  <2> HIDE DEF c
  <2>2. DOMAIN c = 0..N
    BY <1>6
  <2>3. c[0] = <<>>
    BY <1>6, <2>1
  <2>4. \A n \in 1..N : c[n] = IF n \in kept THEN Append(c[n - 1], list[n]) ELSE c[n - 1]
    BY <1>6, <2>1
  <2> QED BY <2>2, <2>3, <2>4 DEF Keeps
<1> QED BY <1>7, <1>8

LEMMA SelectProperties ==
  ASSUME NEW S, NEW list \in Seq(S), NEW kept
  PROVE  /\ SelectAt(list, kept) \in Seq(S)
         /\ \A j \in 1..Len(SelectAt(list, kept)) :
              \E i \in 1..Len(list) : i \in kept /\ SelectAt(list, kept)[j] = list[i]
<1> DEFINE f == SelectUpTo(list, kept)
           N == Len(list)
           Good(s) == /\ s \in Seq(S)
                      /\ \A j \in 1..Len(s) : \E i \in 1..N : i \in kept /\ s[j] = list[i]
           T == {n \in Nat : n <= N => Good(f[n])}
<1>0. N \in Nat /\ Keeps(f, list, kept)
  BY SelectKeeps
<1> HIDE DEF f
<1>1. 0 \in T
  <2>1. f[0] = <<>>
    BY <1>0 DEF Keeps
  <2>2. Good(<<>>)
    OBVIOUS
  <2> HIDE DEF Good
  <2> QED BY <2>1, <2>2
<1>2. ASSUME NEW n \in Nat, n \in T PROVE n + 1 \in T
  <2> SUFFICES ASSUME n + 1 <= N PROVE Good(f[n + 1])
    OBVIOUS
  <2> DEFINE m == n + 1
  <2>1. m \in 1..N /\ m - 1 = n /\ list[m] \in S
    BY <1>0, ElementOfSeq
  <2>2. Good(f[n])
    BY <1>0, <1>2
  <2>3. f[m] = IF m \in kept THEN Append(f[n], list[m]) ELSE f[n]
    BY <1>0, <2>1 DEF Keeps
  <2> HIDE DEF m
  <2>4. CASE m \in kept
    <3> DEFINE s == f[n]
               x == list[m]
    <3>1. s \in Seq(S) /\ x \in S
      BY <2>1, <2>2
    <3> HIDE DEF s
    <3>2. /\ Append(s, x) \in Seq(S) /\ Len(Append(s, x)) = Len(s) + 1 /\ Len(s) \in Nat
          /\ \A j \in 1..Len(s) : Append(s, x)[j] = s[j]
          /\ Append(s, x)[Len(s) + 1] = x
      BY <3>1
    <3>3. ASSUME NEW j \in 1..Len(Append(s, x))
          PROVE  \E i \in 1..N : i \in kept /\ Append(s, x)[j] = list[i]
      <4>1. CASE j = Len(s) + 1
        BY <2>1, <2>4, <3>2, <4>1
      <4>2. CASE j # Len(s) + 1
        <5>1. j \in 1..Len(s)
          BY <3>2, <4>2
        <5>2. \E i \in 1..N : i \in kept /\ s[j] = list[i]
          BY <2>2, <5>1 DEF s
        <5> QED BY <3>2, <5>1, <5>2
      <4> QED BY <4>1, <4>2
    <3>4. f[m] = Append(s, x)
      BY <2>3, <2>4 DEF s
    <3>5. Good(Append(s, x))
      BY <3>2, <3>3
    <3> HIDE DEF Good, x
    <3> QED BY <3>4, <3>5 DEF m
  <2>5. CASE m \notin kept
    BY <2>2, <2>3, <2>5 DEF m
  <2> QED BY <2>4, <2>5
<1>3. N \in T
  <2> HIDE DEF T
  <2> QED BY <1>0, <1>1, <1>2, SetInduction
<1>4. Good(f[N])
  BY <1>0, <1>3
<1> QED BY <1>4 DEF SelectAt, f

\* The weight of a list, w[x] for each element x.
Weight(w, s) == SumFunction([j \in 1..Len(s) |-> w[s[j]]])
WeightUpTo(w, s, n) == SumFunction([j \in 1..n |-> w[s[j]]])

LEMMA WeightAddable ==
  ASSUME NEW S, NEW w \in [S -> Int], NEW s \in Seq(S), NEW n \in Nat, n <= Len(s)
  PROVE  /\ Addable([j \in 1..n |-> w[s[j]]], 1..n) /\ WeightUpTo(w, s, n) \in Int
         /\ Weight(w, s) \in Int
<1>1. ASSUME NEW m \in Nat, m <= Len(s)
      PROVE  Addable([j \in 1..m |-> w[s[j]]], 1..m)
  <2>1. \A j \in 1..m : j \in 1..Len(s) /\ s[j] \in S
    BY <1>1, ElementOfSeq
  <2>2. \A j \in 1..m : w[s[j]] \in Int
    BY <2>1
  <2>3. IsFiniteSet(1..m)
    BY FS_Interval
  <2> QED BY <2>2, <2>3 DEF Addable
<1>2. Len(s) \in Nat /\ Len(s) <= Len(s)
  OBVIOUS
<1>3. \A m \in Nat : m <= Len(s) => WeightUpTo(w, s, m) \in Int
  <2> TAKE m \in Nat
  <2> DEFINE f == [j \in 1..m |-> w[s[j]]]
             D == 1..m
  <2> HAVE m <= Len(s)
  <2>1. Addable(f, D)
    BY <1>1
  <2> HIDE DEF f, D
  <2>2. SumFunction(f) \in Int
    BY <2>1, SumInt
  <2> QED BY <2>2 DEF f, WeightUpTo
<1>4. Weight(w, s) = WeightUpTo(w, s, Len(s))
  BY DEF Weight, WeightUpTo
<1> QED BY <1>1, <1>2, <1>3, <1>4

LEMMA WeightNext ==
  ASSUME NEW S, NEW w \in [S -> Int], NEW s \in Seq(S), NEW n \in Nat, n + 1 <= Len(s)
  PROVE  WeightUpTo(w, s, n + 1) = WeightUpTo(w, s, n) + w[s[n + 1]]
<1> DEFINE m == n + 1
           f == [j \in 1..m |-> w[s[j]]]
           g == [j \in 1..(m - 1) |-> w[s[j]]]
<1>1. m \in Nat /\ m - 1 \in Nat /\ m # 0 /\ m - 1 = n /\ m - 1 <= Len(s) /\ m <= Len(s)
  OBVIOUS
<1>2. Addable(f, 1..m) /\ Addable(g, 1..(m - 1))
  <2> HIDE DEF m
  <2> QED BY <1>1, WeightAddable
<1>3. f[m] = w[s[m]] /\ \A j \in 1..(m - 1) : g[j] = f[j]
  OBVIOUS
<1>4. WeightUpTo(w, s, m) = SumFunction(f) /\ WeightUpTo(w, s, m - 1) = SumFunction(g)
  BY DEF WeightUpTo
<1> HIDE DEF m, f, g
<1>5. SumFunction(f) = SumFunction(g) + f[m]
  BY <1>1, <1>2, <1>3, SumLast
<1>6. WeightUpTo(w, s, m) = WeightUpTo(w, s, n) + w[s[m]]
  BY <1>1, <1>3, <1>4, <1>5
<1> QED BY <1>6 DEF m

LEMMA WeightAppend ==
  ASSUME NEW S, NEW w \in [S -> Int], NEW s \in Seq(S), NEW x \in S
  PROVE  Weight(w, Append(s, x)) = Weight(w, s) + w[x]
<1> DEFINE t == Append(s, x)
           n == Len(s)
<1>1. /\ t \in Seq(S) /\ Len(t) = n + 1 /\ n \in Nat
      /\ t[n + 1] = x /\ \A j \in 1..n : t[j] = s[j]
  OBVIOUS
<1> HIDE DEF t
<1>2. WeightUpTo(w, t, n + 1) = WeightUpTo(w, t, n) + w[x]
  BY <1>1, WeightNext
<1>3. Weight(w, t) = WeightUpTo(w, t, n + 1)
  BY <1>1 DEF Weight, WeightUpTo
<1>4. WeightUpTo(w, t, n) = Weight(w, s)
  <2>1. [j \in 1..n |-> w[t[j]]] = [j \in 1..n |-> w[s[j]]]
    BY <1>1
  <2> QED BY <2>1 DEF Weight, WeightUpTo
<1> QED BY <1>2, <1>3, <1>4 DEF t

\* What is left out of a list weighs nothing: the weight stays.
LEMMA SelectWeight ==
  ASSUME NEW S, NEW list \in Seq(S), NEW kept, NEW w \in [S -> Int],
         \A i \in 1..Len(list) : i \notin kept => w[list[i]] = 0
  PROVE  Weight(w, SelectAt(list, kept)) = Weight(w, list)
<1> DEFINE f == SelectUpTo(list, kept)
           N == Len(list)
           Good(n) == f[n] \in Seq(S) /\ Weight(w, f[n]) = WeightUpTo(w, list, n)
           T == {n \in Nat : n <= N => Good(n)}
<1>0. N \in Nat /\ Keeps(f, list, kept)
  BY SelectKeeps
<1> HIDE DEF f
<1>1. 0 \in T
  <2>1. f[0] = <<>> /\ Len(<<>>) = 0 /\ <<>> \in Seq(S)
    BY <1>0 DEF Keeps
  <2>2. Weight(w, <<>>) = 0
    <3>1. DOMAIN [j \in 1..Len(<<>>) |-> w[<<>>[j]]] = {}
      OBVIOUS
    <3> QED BY <3>1, SumEmpty DEF Weight
  <2>3. WeightUpTo(w, list, 0) = 0
    <3>1. DOMAIN [j \in 1..0 |-> w[list[j]]] = {}
      OBVIOUS
    <3> QED BY <3>1, SumEmpty DEF WeightUpTo
  <2> QED BY <2>1, <2>2, <2>3
<1>2. ASSUME NEW n \in Nat, n \in T PROVE n + 1 \in T
  <2> SUFFICES ASSUME n + 1 <= N PROVE Good(n + 1)
    OBVIOUS
  <2> DEFINE m == n + 1
  <2>1. m \in 1..N /\ m - 1 = n /\ list[m] \in S
    BY <1>0, ElementOfSeq
  <2>2. Good(n)
    BY <1>0, <1>2
  <2>3. f[m] = IF m \in kept THEN Append(f[n], list[m]) ELSE f[n]
    BY <1>0, <2>1 DEF Keeps
  <2>4. WeightUpTo(w, list, m) = WeightUpTo(w, list, n) + w[list[m]]
    BY WeightNext
  <2>5. CASE m \in kept
    <3>1. f[m] = Append(f[n], list[m])
      BY <2>3, <2>5
    <3>2. f[n] \in Seq(S) /\ Weight(w, f[n]) = WeightUpTo(w, list, n)
      BY <2>2
    <3> HIDE DEF m
    <3>3. Append(f[n], list[m]) \in Seq(S)
      BY <2>1, <3>2
    <3>4. Weight(w, Append(f[n], list[m])) = Weight(w, f[n]) + w[list[m]]
      BY <2>1, <3>2, WeightAppend
    <3>5. Good(m)
      BY <2>4, <3>1, <3>2, <3>3, <3>4
    <3> QED BY <3>5 DEF m
  <2>6. CASE m \notin kept
    <3>1. w[list[m]] = 0 /\ f[m] = f[n]
      BY <2>1, <2>3, <2>6
    <3>0. n <= Len(list)
      BY <1>0
    <3>2. WeightUpTo(w, list, n) \in Int
      BY <3>0, WeightAddable
    <3> HIDE DEF m
    <3>3. WeightUpTo(w, list, m) = WeightUpTo(w, list, n)
      BY <2>4, <3>1, <3>2
    <3>4. Good(m)
      BY <2>2, <3>1, <3>3
    <3> QED BY <3>4 DEF m
  <2> QED BY <2>5, <2>6
<1>3. N \in T
  <2> HIDE DEF T
  <2> QED BY <1>0, <1>1, <1>2, SetInduction
<1>4. Good(N)
  BY <1>0, <1>3
<1> QED BY <1>4 DEF SelectAt, f, Weight, WeightUpTo
=============================================================================
