----------------------------- MODULE FiniteLemmas -----------------------------
(***************************************************************************)
(* Finite sets: in a strict total order every rank is somebody's, and so   *)
(* there is a first and a last (the order is a set of pairs, and a rank    *)
(* the number of the elements before); from the first, induction; and from *)
(* induction, what the sum of a function over a finite set is, which       *)
(* MapThenSumSet defines by recursion over its subsets.                    *)
(***************************************************************************)
EXTENDS Integers, FiniteSets, FiniteSetsExt, FiniteSetTheorems, TLAPS

IsStrictOrder(R, S) ==
    /\ \A a, b \in S : a # b => <<a, b>> \in R \/ <<b, a>> \in R
    /\ \A a, b, c \in S : <<a, b>> \in R /\ <<b, c>> \in R => <<a, c>> \in R
    /\ \A a \in S : <<a, a>> \notin R

Earlier(R, S, a) == {b \in S : <<b, a>> \in R}

\* Who is earlier has fewer before him.
LEMMA EarlierHasFewer ==
    ASSUME NEW S, IsFiniteSet(S), NEW R, IsStrictOrder(R, S),
           NEW a \in S, NEW b \in S, <<a, b>> \in R
    PROVE  /\ IsFiniteSet(Earlier(R, S, a)) /\ IsFiniteSet(Earlier(R, S, b))
           /\ Cardinality(Earlier(R, S, a)) < Cardinality(Earlier(R, S, b))
<1>1. Earlier(R, S, a) \subseteq Earlier(R, S, b) \ {a}
  BY DEF Earlier, IsStrictOrder
<1>2. /\ IsFiniteSet(Earlier(R, S, a)) /\ IsFiniteSet(Earlier(R, S, b))
      /\ Cardinality(Earlier(R, S, a)) \in Nat
      /\ Cardinality(Earlier(R, S, b)) \in Nat
  BY FS_Subset, FS_CardinalityType DEF Earlier
<1>3. a \in Earlier(R, S, b)
  BY DEF Earlier
<1>4. /\ IsFiniteSet(Earlier(R, S, b) \ {a})
      /\ Cardinality(Earlier(R, S, b) \ {a}) = Cardinality(Earlier(R, S, b)) - 1
  BY <1>2, <1>3, FS_RemoveElement
<1>5. Cardinality(Earlier(R, S, a)) <= Cardinality(Earlier(R, S, b) \ {a})
  BY <1>1, <1>4, FS_Subset
<1> QED
  BY <1>2, <1>4, <1>5

\* Every rank from 0 to the size of the set, less one, is somebody's.
LEMMA RankIsOnto ==
    ASSUME NEW S, IsFiniteSet(S), NEW R, IsStrictOrder(R, S),
           NEW k \in 0..(Cardinality(S) - 1)
    PROVE  \E a \in S : Cardinality(Earlier(R, S, a)) = k
<1> DEFINE n == Cardinality(S)
           T == 0..(n - 1)
           rank == [a \in S |-> Cardinality(Earlier(R, S, a))]
<1>1. n \in Nat /\ IsFiniteSet(T) /\ Cardinality(T) = n
  BY FS_CardinalityType, FS_Interval
<1>2. ASSUME NEW a \in S PROVE rank[a] \in T
  <2>1. Earlier(R, S, a) \subseteq S \ {a}
    BY DEF Earlier, IsStrictOrder
  <2>2. IsFiniteSet(S \ {a}) /\ Cardinality(S \ {a}) = n - 1
    BY FS_RemoveElement
  <2>3. /\ IsFiniteSet(Earlier(R, S, a))
        /\ Cardinality(Earlier(R, S, a)) <= n - 1
    BY <2>1, <2>2, FS_Subset
  <2>4. Cardinality(Earlier(R, S, a)) \in Nat
    BY <2>3, FS_CardinalityType
  <2> QED
    BY <1>1, <2>3, <2>4
<1>3. ASSUME NEW a \in S, NEW b \in S, rank[a] = rank[b] PROVE a = b
  <2>1. <<a, b>> \notin R /\ <<b, a>> \notin R
    <3>1. ASSUME NEW c \in S, NEW d \in S, <<c, d>> \in R
          PROVE  rank[c] # rank[d]
      <4>1. Cardinality(Earlier(R, S, c)) < Cardinality(Earlier(R, S, d))
        BY <3>1, EarlierHasFewer
      <4>2. rank[c] \in Int /\ rank[d] \in Int
        BY <1>2
      <4> QED
        BY <4>1, <4>2
    <3> QED
      BY <3>1, <1>3
  <2> QED
    BY <2>1 DEF IsStrictOrder
<1>4. rank \in Injection(S, T)
  BY <1>2, <1>3 DEF Injection, IsInjective
<1>5. rank \in Surjection(S, T)
  <2> HIDE DEF rank, T, n
  <2> QED
    BY <1>1, <1>4, FS_Injection DEF n
<1> QED
  BY <1>5 DEF Surjection

\* Somebody has nobody before him.
LEMMA FirstExists ==
    ASSUME NEW S, IsFiniteSet(S), S # {}, NEW R, IsStrictOrder(R, S)
    PROVE  \E a \in S : \A b \in S : <<b, a>> \notin R
<1>1. Cardinality(S) \in Nat /\ Cardinality(S) # 0
  BY FS_CardinalityType, FS_EmptySet
<1>2. 0 \in 0..(Cardinality(S) - 1)
  BY <1>1
<1>3. PICK a \in S : Cardinality(Earlier(R, S, a)) = 0
  BY <1>2, RankIsOnto
<1>4. IsFiniteSet(Earlier(R, S, a))
  BY FS_Subset DEF Earlier
<1>5. Earlier(R, S, a) = {}
  BY <1>3, <1>4, FS_EmptySet
<1> QED
  BY <1>5 DEF Earlier

\* A finite set of natural numbers has a greatest one.
LEMMA GreatestExists ==
    ASSUME NEW S, IsFiniteSet(S), S \subseteq Nat, S # {}
    PROVE  \E a \in S : \A b \in S : b <= a
<1> DEFINE R == {p \in S \X S : p[1] > p[2]}
<1>1. IsStrictOrder(R, S)
  BY DEF IsStrictOrder
<1>2. PICK a \in S : \A b \in S : <<b, a>> \notin R
  <2> HIDE DEF R
  <2> QED
    BY <1>1, FirstExists
<1>3. ASSUME NEW b \in S PROVE b <= a
  <2>1. ~(b > a)
    BY <1>2
  <2> QED
    BY <2>1
<1> QED
  BY <1>3

\* The values of a function on a finite set: finitely many, and as many when no two
\* arguments have the same.
LEMMA ImageIsFinite ==
    ASSUME NEW S, IsFiniteSet(S), NEW f
    PROVE  /\ IsFiniteSet({f[x] : x \in S})
           /\ (\A x, y \in S : f[x] = f[y] => x = y)
                 => Cardinality({f[x] : x \in S}) = Cardinality(S)
<1> DEFINE T == {f[x] : x \in S}
           g == [x \in S |-> f[x]]
<1>1. g \in Surjection(S, T)
  BY DEF Surjection
<1>2. IsFiniteSet(T)
  <2> HIDE DEF T, g
  <2> QED
    BY <1>1, FS_Surjection
<1>3. ASSUME \A x, y \in S : f[x] = f[y] => x = y PROVE Cardinality(T) = Cardinality(S)
  <2>1. g \in Injection(S, T)
    BY <1>3 DEF Injection, IsInjective
  <2> HIDE DEF T, g
  <2> QED
    BY <1>1, <2>1, FS_Surjection
<1> QED
  BY <1>2, <1>3

\* The lesser of two numbers.
LEMMA LeastOfTwo == ASSUME NEW a \in Int, NEW b \in Int
                    PROVE  Min({a, b}) = IF a <= b THEN a ELSE b
<1>1. \E x \in {a, b} : \A y \in {a, b} : x <= y
  OBVIOUS
<1>2. Min({a, b}) \in {a, b} /\ \A y \in {a, b} : Min({a, b}) <= y
  BY <1>1 DEF Min
<1> QED
  BY <1>2

-----------------------------------------------------------------------------
(* Lists in an order that may tie. *)

IsWeakOrder(W, S) ==
    /\ \A a \in S : <<a, a>> \notin W
    /\ \A a, b, c \in S : <<a, b>> \in W /\ <<b, c>> \in W => <<a, c>> \in W
    /\ \A a, b, c \in S : <<a, c>> \in W => <<a, b>> \in W \/ <<b, c>> \in W

\* A list of all elements, each once.
ListsAll(S, s) ==
    /\ s \in [1..Cardinality(S) -> S]
    /\ \A i, j \in 1..Cardinality(S) : i # j => s[i] # s[j]

\* A list of the elements of a finite set leaves none out.
LEMMA ListHasAll ==
    ASSUME NEW S, IsFiniteSet(S), NEW s, ListsAll(S, s)
    PROVE  \A x \in S : \E i \in 1..Cardinality(S) : s[i] = x
<1> DEFINE n == Cardinality(S)
<1>1. n \in Nat /\ IsFiniteSet(1..n) /\ Cardinality(1..n) = n
  BY FS_CardinalityType, FS_Interval
<1>2. s \in Injection(1..n, S)
  BY DEF ListsAll, Injection, IsInjective
<1>3. s \in Surjection(1..n, S)
  <2> HIDE DEF n
  <2> QED
    BY <1>1, <1>2, FS_Injection DEF n
<1> QED
  BY <1>3 DEF Surjection

\* In a strict order there is a list from the first to the last.
LEMMA StrictListExists ==
    ASSUME NEW S, IsFiniteSet(S), NEW R, IsStrictOrder(R, S)
    PROVE  \E s : /\ ListsAll(S, s)
                  /\ \A i, j \in 1..Cardinality(S) : <<s[i], s[j]>> \in R => i < j
<1> DEFINE n == Cardinality(S)
           Rank(a) == Cardinality(Earlier(R, S, a))
           s == [i \in 1..n |-> CHOOSE a \in S : Rank(a) = i - 1]
<1>1. n \in Nat
  BY FS_CardinalityType
<1>2. ASSUME NEW i \in 1..n PROVE s[i] \in S /\ Rank(s[i]) = i - 1
  <2>1. i - 1 \in 0..(n - 1)
    BY <1>1
  <2>2. \E a \in S : Rank(a) = i - 1
    BY <2>1, RankIsOnto
  <2> HIDE DEF Rank
  <2> QED
    BY <2>2
<1> HIDE DEF s
<1>3. ASSUME NEW i \in 1..n, NEW j \in 1..n, i # j PROVE s[i] # s[j]
  <2> HIDE DEF Rank
  <2> QED
    BY <1>1, <1>2, <1>3
<1>4. ASSUME NEW i \in 1..n, NEW j \in 1..n, <<s[i], s[j]>> \in R PROVE i < j
  <2>1. Rank(s[i]) < Rank(s[j])
    BY <1>2, <1>4, EarlierHasFewer
  <2> HIDE DEF Rank
  <2> QED
    BY <1>1, <1>2, <2>1
<1>5. s \in [1..n -> S]
  <2>1. \A i \in 1..n : s[i] \in S
    BY <1>2
  <2> QED
    BY <2>1 DEF s
<1> QED
  BY <1>3, <1>4, <1>5 DEF ListsAll

\* In a weak one there is, too: what ties comes in some order.
LEMMA WeakListExists ==
    ASSUME NEW S, IsFiniteSet(S), NEW W, IsWeakOrder(W, S)
    PROVE  \E s : /\ ListsAll(S, s)
                  /\ \A i, j \in 1..Cardinality(S) : <<s[i], s[j]>> \in W => i < j
<1>1. Cardinality(S) \in Nat /\ ExistsBijection(1..Cardinality(S), S)
  BY FS_CardinalityType
<1>2. PICK f : f \in Bijection(1..Cardinality(S), S)
  BY <1>1 DEF ExistsBijection
<1>3. PICK at : /\ \A a \in S : at[a] \in Nat
                /\ \A a, b \in S : at[a] = at[b] => a = b
  <2>1. /\ \A a \in S : \E i \in 1..Cardinality(S) : f[i] = a
        /\ f \in [1..Cardinality(S) -> S]
    BY <1>2 DEF Bijection, Surjection, Injection
  <2> DEFINE at == [a \in S |-> CHOOSE i \in 1..Cardinality(S) : f[i] = a]
  <2>2. \A a \in S : at[a] \in 1..Cardinality(S) /\ f[at[a]] = a
    BY <2>1
  <2>3. \A a \in S : at[a] \in Nat
    BY <1>1, <2>2
  <2>4. \A a, b \in S : at[a] = at[b] => a = b
    BY <2>2
  <2> QED
    BY <2>3, <2>4
<1> DEFINE R == {p \in S \X S : \/ p \in W
                                \/ <<p[2], p[1]>> \notin W /\ at[p[1]] < at[p[2]]}
<1>4. ASSUME NEW a \in S, NEW b \in S
      PROVE  <<a, b>> \in R <=> <<a, b>> \in W \/ (<<b, a>> \notin W /\ at[a] < at[b])
  OBVIOUS
<1>5. IsStrictOrder(R, S)
  <2> HIDE DEF R
  <2>1. ASSUME NEW a \in S, NEW b \in S, a # b PROVE <<a, b>> \in R \/ <<b, a>> \in R
    <3>1. at[a] < at[b] \/ at[b] < at[a]
      BY <1>3, <2>1
    <3> QED
      BY <1>4, <3>1
  <2>2. ASSUME NEW a \in S, NEW b \in S, NEW c \in S, <<a, b>> \in R, <<b, c>> \in R
        PROVE  <<a, c>> \in R
    <3>1. CASE <<a, c>> \in W
      BY <1>4, <3>1
    <3>2. CASE <<a, c>> \notin W
      <4>1. <<c, a>> \notin W
        BY <1>4, <2>2, <3>2 DEF IsWeakOrder
      <4>2. <<a, b>> \notin W /\ <<b, c>> \notin W
        BY <1>4, <2>2, <3>2, <4>1 DEF IsWeakOrder
      <4>3. at[a] < at[b] /\ at[b] < at[c]
        BY <1>4, <2>2, <4>2
      <4>4. at[a] < at[c]
        BY <1>3, <4>3
      <4> QED
        BY <1>4, <4>1, <4>4
    <3> QED
      BY <3>1, <3>2
  <2>3. ASSUME NEW a \in S PROVE <<a, a>> \notin R
    BY <1>3, <1>4 DEF IsWeakOrder
  <2> QED
    BY <2>1, <2>2, <2>3 DEF IsStrictOrder
<1>6. PICK s : /\ ListsAll(S, s)
               /\ \A i, j \in 1..Cardinality(S) : <<s[i], s[j]>> \in R => i < j
  <2> HIDE DEF R
  <2> QED
    BY <1>5, StrictListExists
<1>7. ASSUME NEW i \in 1..Cardinality(S), NEW j \in 1..Cardinality(S), <<s[i], s[j]>> \in W
      PROVE  i < j
  <2>1. s[i] \in S /\ s[j] \in S
    BY <1>6 DEF ListsAll
  <2> HIDE DEF R
  <2> QED
    BY <1>4, <1>6, <1>7, <2>1
<1> HIDE DEF R
<1> QED
  BY <1>6, <1>7

-----------------------------------------------------------------------------
(* Induction, and sums. *)

\* A set of natural numbers that holds 0 and the successors of its elements holds all.
LEMMA AllNumbers ==
    ASSUME NEW P, 0 \in P, \A n \in Nat : n \in P => n + 1 \in P, NEW m \in Nat
    PROVE  m \in P
<1> SUFFICES ASSUME m \notin P PROVE FALSE
  OBVIOUS
<1> DEFINE T == {n \in 0..m : n \notin P}
           R == {p \in T \X T : p[1] < p[2]}
<1>1. IsFiniteSet(T) /\ m \in T
  <2>1. IsFiniteSet(0..m)
    BY FS_Interval
  <2> QED
    BY <2>1, FS_Subset
<1>2. IsStrictOrder(R, T)
  BY DEF IsStrictOrder
<1>3. PICK n \in T : \A k \in T : <<k, n>> \notin R
  <2> HIDE DEF R, T
  <2> QED
    BY <1>1, <1>2, FirstExists
<1>4. n # 0 /\ n - 1 \in 0..m /\ n - 1 \notin T
  <2>1. n # 0 /\ n - 1 \in 0..m
    OBVIOUS
  <2>2. n - 1 \in T => <<n - 1, n>> \in R
    BY <2>1
  <2> QED
    BY <1>3, <2>1, <2>2
<1> QED
  BY <1>4

-----------------------------------------------------------------------------
(* The sum of a function over a finite set. *)

Total(g, S) == MapThenSumSet(LAMBDA x : g[x], S)

Some(s) == CHOOSE x \in s : TRUE
Unfolds(h, g, S) ==
    h = [s \in SUBSET S |-> IF s = {} THEN 0 ELSE g[Some(s)] + h[s \ {Some(s)}]]

LEMMA TotalIs ==
    ASSUME NEW g, NEW S
    PROVE  Total(g, S) = (CHOOSE h : Unfolds(h, g, S))[S]
BY DEF Total, MapThenSumSet, MapThenFoldSet, Unfolds, Some

LEMMA SomeIsIn == ASSUME NEW s, s # {} PROVE Some(s) \in s
BY DEF Some

\* Two unfoldings agree where both say something.
LEMMA UnfoldsOnce ==
    ASSUME NEW g, NEW S, IsFiniteSet(S), NEW T, S \subseteq T, NEW h, NEW k,
           Unfolds(h, g, S), Unfolds(k, g, T)
    PROVE  \A s \in SUBSET S : h[s] = k[s]
<1> DEFINE P == {n \in Nat : \A s \in SUBSET S : Cardinality(s) = n => h[s] = k[s]}
<1>1. ASSUME NEW s \in SUBSET S
      PROVE  /\ IsFiniteSet(s) /\ Cardinality(s) \in Nat
             /\ h[s] = IF s = {} THEN 0 ELSE g[Some(s)] + h[s \ {Some(s)}]
             /\ k[s] = IF s = {} THEN 0 ELSE g[Some(s)] + k[s \ {Some(s)}]
  BY FS_Subset, FS_CardinalityType DEF Unfolds
<1>2. 0 \in P
  <2>1. ASSUME NEW s \in SUBSET S, Cardinality(s) = 0 PROVE h[s] = k[s]
    <3>1. s = {}
      BY <1>1, <2>1, FS_EmptySet
    <3> QED
      BY <1>1, <3>1
  <2> QED
    BY <2>1
<1>3. ASSUME NEW n \in Nat, n \in P PROVE n + 1 \in P
  <2>1. ASSUME NEW s \in SUBSET S, Cardinality(s) = n + 1 PROVE h[s] = k[s]
    <3>1. s # {}
      BY <2>1, FS_EmptySet
    <3>2. Some(s) \in s
      BY <3>1, SomeIsIn
    <3>3. Cardinality(s \ {Some(s)}) = n
      <4>1. IsFiniteSet(s)
        BY <1>1
      <4>2. Cardinality(s \ {Some(s)}) = Cardinality(s) - 1
        BY <3>2, <4>1, FS_RemoveElement
      <4> QED
        BY <2>1, <4>2
    <3>4. h[s \ {Some(s)}] = k[s \ {Some(s)}]
      BY <1>3, <3>3
    <3> QED
      BY <1>1, <3>1, <3>4
  <2> QED
    BY <2>1
<1> HIDE DEF P
<1>4. \A n \in Nat : n \in P
  BY <1>2, <1>3, AllNumbers
<1> QED
  BY <1>1, <1>4 DEF P

\* A finite set has an unfolding.
LEMMA UnfoldsExists ==
    ASSUME NEW g, NEW S, IsFiniteSet(S)
    PROVE  \E h : Unfolds(h, g, S)
<1> DEFINE P == {n \in Nat : \A s \in SUBSET S : Cardinality(s) <= n => \E h : Unfolds(h, g, s)}
           H(s) == (CHOOSE h : Unfolds(h, g, s))[s]
           Build(s) == [r \in SUBSET s |-> IF r = {} THEN 0
                                           ELSE g[Some(r)] + H(r \ {Some(r)})]
<1>1. ASSUME NEW s \in SUBSET S PROVE IsFiniteSet(s) /\ Cardinality(s) \in Nat
  BY FS_Subset, FS_CardinalityType
<1>2. ASSUME NEW s, NEW h, Unfolds(h, g, s), IsFiniteSet(s), NEW r \in SUBSET s,
             \E f : Unfolds(f, g, r)
      PROVE  h[r] = H(r)
  <2>1. PICK f : f = (CHOOSE e : Unfolds(e, g, r)) /\ Unfolds(f, g, r)
    BY <1>2
  <2>2. IsFiniteSet(r)
    BY <1>2, FS_Subset
  <2>3. \A t \in SUBSET r : f[t] = h[t]
    BY <1>2, <2>1, <2>2, UnfoldsOnce
  <2> QED
    BY <2>1, <2>3
<1>3. ASSUME NEW s \in SUBSET S,
             \A r \in SUBSET s : r # s => \E f : Unfolds(f, g, r)
      PROVE  Unfolds(Build(s), g, s)
  <2>1. ASSUME NEW r \in SUBSET s
        PROVE  Build(s)[r] = IF r = {} THEN 0 ELSE g[Some(r)] + Build(s)[r \ {Some(r)}]
    <3>1. CASE r = {}
      BY <3>1
    <3>2. CASE r # {}
      <4> DEFINE q == r \ {Some(r)}
      <4>1. Some(r) \in r /\ q \in SUBSET s /\ q # s
        BY <3>2, SomeIsIn
      <4>2. PICK f : Unfolds(f, g, q)
        BY <1>3, <4>1
      <4>3. H(q) = f[q]
        <5>1. IsFiniteSet(q)
          BY <1>1, <4>1, FS_Subset
        <5> QED
          BY <1>2, <4>2, <5>1
      <4>4. f[q] = IF q = {} THEN 0 ELSE g[Some(q)] + f[q \ {Some(q)}]
        BY <4>2 DEF Unfolds
      <4>5. q # {} => f[q \ {Some(q)}] = H(q \ {Some(q)})
        <5> SUFFICES ASSUME q # {} PROVE f[q \ {Some(q)}] = H(q \ {Some(q)})
          OBVIOUS
        <5>1. Some(q) \in q
          BY SomeIsIn
        <5>2. q \ {Some(q)} \in SUBSET s /\ q \ {Some(q)} # s /\ q \ {Some(q)} \in SUBSET q
          BY <4>1, <5>1
        <5>3. \E e : Unfolds(e, g, q \ {Some(q)})
          BY <1>3, <5>2
        <5>4. IsFiniteSet(q)
          BY <1>1, <4>1, FS_Subset
        <5> HIDE DEF q, H
        <5> QED
          BY <1>2, <4>2, <5>2, <5>3, <5>4
      <4>6. Build(s)[q] = IF q = {} THEN 0 ELSE g[Some(q)] + H(q \ {Some(q)})
        BY <4>1
      <4>7. Build(s)[r] = g[Some(r)] + H(q)
        BY <3>2
      <4> HIDE DEF q, H, Build
      <4> QED
        BY <3>2, <4>3, <4>4, <4>5, <4>6, <4>7 DEF q
    <3> QED
      BY <3>1, <3>2
  <2>2. Build(s) = [r \in SUBSET s |-> Build(s)[r]]
    OBVIOUS
  <2> HIDE DEF Build
  <2> QED
    BY <2>1, <2>2 DEF Unfolds
<1>4. 0 \in P
  <2>1. ASSUME NEW s \in SUBSET S, Cardinality(s) <= 0 PROVE \E h : Unfolds(h, g, s)
    <3>1. s = {}
      BY <1>1, <2>1, FS_EmptySet
    <3> HIDE DEF Build
    <3> QED
      BY <1>3, <3>1
  <2> QED
    BY <2>1
<1>5. ASSUME NEW n \in Nat, n \in P PROVE n + 1 \in P
  <2>1. ASSUME NEW s \in SUBSET S, Cardinality(s) <= n + 1 PROVE \E h : Unfolds(h, g, s)
    <3>1. ASSUME NEW r \in SUBSET s, r # s PROVE \E f : Unfolds(f, g, r)
      <4>1. PICK x \in s : x \notin r
        BY <3>1
      <4>2. /\ IsFiniteSet(s \ {x}) /\ Cardinality(s \ {x}) = Cardinality(s) - 1
            /\ r \subseteq s \ {x}
        BY <1>1, <4>1, FS_RemoveElement
      <4>3. Cardinality(r) <= Cardinality(s \ {x})
        BY <4>2, FS_Subset
      <4>4. r \in SUBSET S /\ Cardinality(r) <= n
        BY <1>1, <2>1, <4>2, <4>3
      <4> QED
        BY <1>5, <4>4
    <3> HIDE DEF Build
    <3> QED
      BY <1>3, <3>1
  <2> QED
    BY <2>1
<1> HIDE DEF P
<1>6. \A n \in Nat : n \in P
  BY <1>4, <1>5, AllNumbers
<1> QED
  BY <1>1, <1>6 DEF P

\* The sum over a finite set is what one element adds to the sum over the others.
LEMMA TotalOfNone == ASSUME NEW g PROVE Total(g, {}) = 0
<1>1. IsFiniteSet({})
  BY FS_EmptySet
<1>2. PICK h : h = (CHOOSE e : Unfolds(e, g, {})) /\ Unfolds(h, g, {})
  BY <1>1, UnfoldsExists
<1>3. h[{}] = 0
  BY <1>2 DEF Unfolds
<1> QED
  BY <1>2, <1>3, TotalIs

LEMMA TotalOfSome ==
    ASSUME NEW g, NEW S, IsFiniteSet(S), S # {}
    PROVE  Total(g, S) = g[Some(S)] + Total(g, S \ {Some(S)})
<1> DEFINE T == S \ {Some(S)}
<1>1. PICK h : h = (CHOOSE e : Unfolds(e, g, S)) /\ Unfolds(h, g, S)
  BY UnfoldsExists
<1>2. IsFiniteSet(T) /\ T \in SUBSET S
  BY FS_Subset
<1>3. PICK k : k = (CHOOSE e : Unfolds(e, g, T)) /\ Unfolds(k, g, T)
  BY <1>2, UnfoldsExists
<1>4. \A s \in SUBSET T : k[s] = h[s]
  BY <1>1, <1>2, <1>3, UnfoldsOnce
<1>5. h[S] = g[Some(S)] + h[T]
  BY <1>1 DEF Unfolds
<1>6. Total(g, S) = h[S] /\ Total(g, T) = k[T]
  BY <1>1, <1>3, TotalIs
<1> QED
  BY <1>4, <1>5, <1>6

\* ... whichever element that is.
LEMMA TotalStep ==
    ASSUME NEW S, IsFiniteSet(S), NEW g \in [S -> Int]
    PROVE  \A s \in SUBSET S : /\ Total(g, s) \in Int
                               /\ \A x \in s : Total(g, s) = g[x] + Total(g, s \ {x})
<1> DEFINE Holds(s) == /\ Total(g, s) \in Int
                       /\ \A x \in s : Total(g, s) = g[x] + Total(g, s \ {x})
           P == {n \in Nat : \A s \in SUBSET S : Cardinality(s) <= n => Holds(s)}
<1>1. ASSUME NEW s \in SUBSET S PROVE IsFiniteSet(s) /\ Cardinality(s) \in Nat
  BY FS_Subset, FS_CardinalityType
<1>2. 0 \in P
  <2>1. ASSUME NEW s \in SUBSET S, Cardinality(s) <= 0 PROVE Holds(s)
    <3>1. s = {}
      BY <1>1, <2>1, FS_EmptySet
    <3> QED
      BY <3>1, TotalOfNone
  <2> QED
    BY <2>1
<1>3. ASSUME NEW n \in Nat, n \in P PROVE n + 1 \in P
  <2>1. ASSUME NEW s \in SUBSET S, Cardinality(s) <= n + 1, s # {} PROVE Holds(s)
    <3> DEFINE y == Some(s)
    <3>1. y \in s
      BY <2>1, SomeIsIn
    <3>2. \A x \in s : /\ IsFiniteSet(s \ {x}) /\ s \ {x} \in SUBSET S
                       /\ Cardinality(s \ {x}) <= n
      <4>1. TAKE x \in s
      <4>2. IsFiniteSet(s)
        BY <1>1
      <4>3. IsFiniteSet(s \ {x}) /\ Cardinality(s \ {x}) = Cardinality(s) - 1
        BY <4>2, FS_RemoveElement
      <4> QED
        BY <1>1, <2>1, <4>3
    <3>3. \A x \in s : Holds(s \ {x})
      BY <1>3, <3>2
    <3>4. Total(g, s) = g[y] + Total(g, s \ {y})
      BY <1>1, <2>1, TotalOfSome
    <3>5. Total(g, s) \in Int
      <4>1. g[y] \in Int
        BY <3>1
      <4> QED
        BY <3>1, <3>3, <3>4, <4>1
    <3>6. ASSUME NEW x \in s, x # y PROVE Total(g, s) = g[x] + Total(g, s \ {x})
      <4>1. x \in s \ {y} /\ y \in s \ {x} /\ (s \ {y}) \ {x} = (s \ {x}) \ {y}
        BY <3>1, <3>6
      <4>2. /\ Total(g, s \ {y}) = g[x] + Total(g, (s \ {y}) \ {x})
            /\ Total(g, s \ {x}) = g[y] + Total(g, (s \ {x}) \ {y})
        BY <3>1, <3>3, <4>1
      <4>3. Total(g, (s \ {y}) \ {x}) \in Int
        <5>1. /\ (s \ {y}) \ {x} \in SUBSET S
              /\ Cardinality((s \ {y}) \ {x}) <= n
          <6>1. IsFiniteSet(s \ {y}) /\ Cardinality(s \ {y}) <= n /\ Cardinality(s \ {y}) \in Nat
            BY <3>1, <3>2, FS_CardinalityType
          <6>2. Cardinality((s \ {y}) \ {x}) = Cardinality(s \ {y}) - 1
            BY <4>1, <6>1, FS_RemoveElement
          <6> QED
            BY <6>1, <6>2
        <5> QED
          BY <1>3, <5>1
      <4>4. g[x] \in Int /\ g[y] \in Int
        BY <3>1
      <4>5. Total(g, (s \ {y}) \ {x}) = Total(g, (s \ {x}) \ {y})
        BY <4>1
      <4> HIDE DEF y
      <4>6. \A a, b, n1, n2, n3, n4 \in Int :
               n1 = a + n2 /\ n2 = b + n3 /\ n4 = a + n3 => n1 = b + n4
        OBVIOUS
      <4>7. Total(g, s \ {y}) \in Int /\ Total(g, s \ {x}) \in Int
        BY <4>2, <4>3, <4>4, <4>5
      <4>8. Total(g, s \ {x}) = g[y] + Total(g, (s \ {y}) \ {x})
        BY <4>2, <4>5
      <4> QED
        BY <3>4, <3>5, <4>2, <4>3, <4>4, <4>6, <4>7, <4>8
    <3> QED
      BY <3>4, <3>5, <3>6
  <2>2. Holds({})
    BY TotalOfNone
  <2> HIDE DEF Holds
  <2> QED
    BY <2>1, <2>2
<1> HIDE DEF P
<1>4. \A n \in Nat : n \in P
  BY <1>2, <1>3, AllNumbers
<1> QED
  BY <1>1, <1>4 DEF P

LEMMA TotalWithout ==
    ASSUME NEW S, IsFiniteSet(S), NEW g, g \in [S -> Int], NEW s \in SUBSET S, NEW x \in s
    PROVE  Total(g, s) = g[x] + Total(g, s \ {x})
BY TotalStep

\* A sum of naturals is one, and as much as any part of it.
LEMMA TotalOfNaturals ==
    ASSUME NEW S, IsFiniteSet(S), NEW g \in [S -> Nat]
    PROVE  \A s \in SUBSET S : /\ Total(g, s) \in Nat
                               /\ \A x \in s : g[x] <= Total(g, s)
<1> DEFINE P == {n \in Nat : \A s \in SUBSET S : Cardinality(s) = n => Total(g, s) \in Nat}
<1>1. ASSUME NEW s \in SUBSET S PROVE IsFiniteSet(s) /\ Cardinality(s) \in Nat
  BY FS_Subset, FS_CardinalityType
<1>2. g \in [S -> Int]
  OBVIOUS
<1>3. 0 \in P
  <2>1. ASSUME NEW s \in SUBSET S, Cardinality(s) = 0 PROVE Total(g, s) \in Nat
    <3>1. s = {}
      BY <1>1, <2>1, FS_EmptySet
    <3> QED
      BY <3>1, TotalOfNone
  <2> QED
    BY <2>1
<1>4. ASSUME NEW n \in Nat, n \in P PROVE n + 1 \in P
  <2>1. ASSUME NEW s \in SUBSET S, Cardinality(s) = n + 1 PROVE Total(g, s) \in Nat
    <3>1. PICK x : x \in s
      BY <2>1, FS_EmptySet
    <3>2. Cardinality(s \ {x}) = n
      <4>1. IsFiniteSet(s)
        BY <1>1
      <4>2. Cardinality(s \ {x}) = Cardinality(s) - 1
        BY <3>1, <4>1, FS_RemoveElement
      <4> QED
        BY <2>1, <4>2
    <3>3. Total(g, s \ {x}) \in Nat /\ g[x] \in Nat
      BY <1>4, <3>1, <3>2
    <3>4. Total(g, s) = g[x] + Total(g, s \ {x})
      BY <1>2, <3>1, TotalStep
    <3> QED
      BY <3>3, <3>4
  <2> QED
    BY <2>1
<1> HIDE DEF P
<1>5. \A n \in Nat : n \in P
  BY <1>3, <1>4, AllNumbers
<1>6. \A s \in SUBSET S : Total(g, s) \in Nat
  BY <1>1, <1>5 DEF P
<1>7. ASSUME NEW s \in SUBSET S, NEW x \in s PROVE g[x] <= Total(g, s)
  <2>1. Total(g, s) = g[x] + Total(g, s \ {x})
    BY <1>2, TotalStep
  <2>2. Total(g, s \ {x}) \in Nat /\ g[x] \in Nat
    BY <1>6
  <2> QED
    BY <2>1, <2>2
<1> QED
  BY <1>6, <1>7

CountsBy(c, K, A, key) == \A k \in K : c[k] = Cardinality({a \in A : key[a] = k})

\* Counting a finite set key by key counts it: the sizes of what falls to the keys of K
\* add up to the size of what falls to K.
LEMMA TotalOfFibres ==
    ASSUME NEW A, IsFiniteSet(A), NEW D, IsFiniteSet(D), NEW key, NEW K \in SUBSET D,
           NEW c \in [D -> Int], CountsBy(c, K, A, key)
    PROVE  Total(c, K) = Cardinality({a \in A : key[a] \in K})
<1> DEFINE Of(s) == {a \in A : key[a] \in s}
           P == {n \in Nat : \A s \in SUBSET K : Cardinality(s) = n =>
                                Total(c, s) = Cardinality(Of(s))}
<1>1. ASSUME NEW s \in SUBSET K PROVE IsFiniteSet(s) /\ Cardinality(s) \in Nat
  BY FS_Subset, FS_CardinalityType
<1>2. ASSUME NEW s PROVE IsFiniteSet(Of(s)) /\ Cardinality(Of(s)) \in Nat
  BY FS_Subset, FS_CardinalityType
<1>3. ASSUME NEW s \in SUBSET K, NEW x \in s
      PROVE  Total(c, s) = c[x] + Total(c, s \ {x})
  BY TotalWithout
<1>4. 0 \in P
  <2>1. ASSUME NEW s \in SUBSET K, Cardinality(s) = 0 PROVE Total(c, s) = Cardinality(Of(s))
    <3>1. s = {}
      BY <1>1, <2>1, FS_EmptySet
    <3>2. Of(s) = {}
      BY <3>1
    <3> QED
      BY <3>1, <3>2, TotalOfNone, FS_EmptySet
  <2> QED
    BY <2>1
<1>5. ASSUME NEW n \in Nat, n \in P PROVE n + 1 \in P
  <2>1. ASSUME NEW s \in SUBSET K, Cardinality(s) = n + 1
        PROVE  Total(c, s) = Cardinality(Of(s))
    <3>0. s # {}
      <4>1. Cardinality({}) = 0
        BY FS_EmptySet
      <4> QED
        BY <2>1, <4>1
    <3>1. PICK x : x \in s
      BY <3>0
    <3> DEFINE B == Of(s \ {x})
               E == {a \in A : key[a] = x}
    <3>2. Cardinality(s \ {x}) = n
      <4>1. IsFiniteSet(s)
        BY <1>1
      <4>2. Cardinality(s \ {x}) = Cardinality(s) - 1
        BY <3>1, <4>1, FS_RemoveElement
      <4> QED
        BY <2>1, <4>2
    <3>3. Total(c, s \ {x}) = Cardinality(B)
      BY <1>5, <3>2
    <3>4. Total(c, s) = Cardinality(E) + Total(c, s \ {x})
      <4>1. c[x] = Cardinality(E)
        BY <3>1 DEF CountsBy
      <4>2. Total(c, s) = c[x] + Total(c, s \ {x})
        BY <1>3, <3>1
      <4> QED
        BY <4>1, <4>2
    <3>5. IsFiniteSet(B) /\ IsFiniteSet(E)
      BY FS_Subset
    <3>6. B \cup E = Of(s) /\ B \cap E = {}
      BY <3>1
    <3>7. Cardinality(B \cup E) = Cardinality(B) + Cardinality(E)
      <4> HIDE DEF B, E
      <4>1. Cardinality(B \cup E) = Cardinality(B) + Cardinality(E) - Cardinality(B \cap E)
        BY <3>5, FS_Union
      <4>2. Cardinality(B) \in Nat /\ Cardinality(E) \in Nat /\ Cardinality(B \cap E) = 0
        BY <3>5, <3>6, FS_CardinalityType, FS_EmptySet
      <4> QED
        BY <4>1, <4>2
    <3>8. Cardinality(B) \in Nat /\ Cardinality(E) \in Nat
      BY <3>5, FS_CardinalityType
    <3>9. Cardinality(Of(s)) = Cardinality(B) + Cardinality(E)
      <4> HIDE DEF B, E
      <4> QED
        BY <3>6, <3>7
    <3>10. Total(c, s) = Cardinality(E) + Cardinality(B)
      <4> HIDE DEF B, E
      <4> QED
        BY <3>3, <3>4
    <3> HIDE DEF B, E, Of, P
    <3> QED
      BY <3>8, <3>9, <3>10
  <2> QED
    BY <2>1
<1> HIDE DEF P
<1>6. \A n \in Nat : n \in P
  BY <1>4, <1>5, AllNumbers
<1> QED
  BY <1>1, <1>6 DEF P
=============================================================================
