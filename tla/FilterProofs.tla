---------------------------- MODULE FilterProofs ----------------------------
(***************************************************************************)
(* Facts about sequences and recursions that the other proofs share: what  *)
(* Only retains, eviction queues without repetition, recursions over 0..n  *)
(* and their results.  Every induction is by least counterexample.         *)
(***************************************************************************)
EXTENDS Filters, SequencesExt, Integers, WellFoundedInduction, NaturalsInduction,
        FiniteSetTheorems, FunctionTheorems, TLAPS

Less == {pair \in Nat \X Nat : pair[1] < pair[2]}

\* The order of the naturals is well-founded.
LEMMA LessWellFounded == IsWellFoundedOn(Less, Nat)
BY NatLessThanWellFounded, Zenon DEF OpToRel, Less

\* A non-empty set of naturals has a least element.
LEMMA LeastOf ==
    ASSUME NEW T \in SUBSET Nat, T # {}
    PROVE  \E x \in T : \A y \in T : x <= y
<1>1. PICK x \in T : \A y \in T : ~(<<y, x>> \in Less)
  BY LessWellFounded, WFMin
<1>2. ASSUME NEW y \in T PROVE x <= y
  <2>1. <<y, x>> \in Nat \X Nat
    OBVIOUS
  <2> QED
    BY <1>1, <2>1 DEF Less
<1> QED
  BY <1>2

\* Max is the greatest of a non-empty bounded set of naturals.
LEMMA GreatestOf ==
    ASSUME NEW k \in Nat, NEW T \in SUBSET (0..k), T # {}
    PROVE  Max(T) \in T /\ \A y \in T : Max(T) >= y
<1> DEFINE Below == {i \in 0..k : k - i \in T}
<1>1. Below \in SUBSET Nat /\ Below # {}
  <2>1. PICK t \in T : TRUE
    OBVIOUS
  <2>2. k - t \in 0..k /\ k - (k - t) = t
    OBVIOUS
  <2>3. k - t \in Below
    BY <2>2
  <2>4. Below \in SUBSET Nat
    OBVIOUS
  <2> HIDE DEF Below
  <2> QED
    BY <2>3, <2>4
<1> HIDE DEF Below
<1>2. PICK x \in Below : \A y \in Below : x <= y
  BY <1>1, LeastOf
<1>3. k - x \in T /\ x \in 0..k
  BY <1>2 DEF Below
<1>4. ASSUME NEW y \in T PROVE k - x >= y
  <2>1. k - y \in 0..k /\ k - (k - y) = y
    OBVIOUS
  <2>2. k - y \in Below
    BY <2>1 DEF Below
  <2> QED
    BY <1>2, <1>3, <2>2
<1> QED
  BY <1>3, <1>4 DEF Max

\* A set that holds 0, and with a number below n the next one, holds 0..n.
LEMMA UpTo ==
    ASSUME NEW n \in Nat, NEW T, 0 \in T, \A i \in 0..n : i \in T /\ i < n => i + 1 \in T
    PROVE  \A i \in 0..n : i \in T
<1> DEFINE Missed == {i \in 0..n : i \notin T}
<1> SUFFICES ASSUME Missed # {} PROVE FALSE
  OBVIOUS
<1>0. Missed \in SUBSET Nat
  OBVIOUS
<1> HIDE DEF Missed
<1>1. PICK x \in Missed : \A y \in Missed : x <= y
  BY <1>0, LeastOf
<1> USE DEF Missed
<1>2. x # 0 /\ x - 1 \in 0..n /\ x - 1 < n
  BY <1>1
<1>3. x - 1 \in T
  BY <1>1, <1>2
<1> QED
  BY <1>1, <1>2, <1>3

\* f starts at x and takes the step F at every place of 1..n.
Unfolds(f, n, V, x, F) ==
    f \in [0..n -> V] /\ f[0] = x /\ \A i \in 1..n : f[i] = F[<<i, f[i - 1]>>]

\* A recursion over 0..n whose steps stay in V defines a function.
LEMMA RecursionExists ==
    ASSUME NEW n \in Nat, NEW V, NEW x \in V, NEW F \in [(1..n) \X V -> V]
    PROVE  \E f : Unfolds(f, n, V, x, F)
<1> DEFINE Runs(f, m) == f[0] = x /\ \A i \in 1..m : f[i] = F[<<i, f[i - 1]>>]
<1> DEFINE T == {m \in 0..n : \E f \in [0..m -> V] : Runs(f, m)}
<1>1. 0 \in T
  <2> DEFINE f == [i \in 0..0 |-> x]
  <2>1. f \in [0..0 -> V] /\ Runs(f, 0)
    OBVIOUS
  <2>2. \E g \in [0..0 -> V] : Runs(g, 0)
    BY <2>1
  <2> QED
    BY <2>2
<1>2. ASSUME NEW m \in 0..n, m \in T, m < n PROVE m + 1 \in T
  <2>1. PICK f \in [0..m -> V] : Runs(f, m)
    BY <1>2
  <2>2. m + 1 \in 1..n /\ m \in 0..m /\ f[m] \in V
    BY <1>2
  <2>3. F[<<m + 1, f[m]>>] \in V
    BY <2>2
  <2> DEFINE g == [i \in 0..(m + 1) |-> IF i = m + 1 THEN F[<<m + 1, f[m]>>] ELSE f[i]]
  <2>4. g \in [0..(m + 1) -> V]
    BY <2>3
  <2>5. g[0] = x
    BY <2>1
  <2>6. ASSUME NEW i \in 1..(m + 1) PROVE g[i] = F[<<i, g[i - 1]>>]
    <3>1. CASE i = m + 1
      <4>1. i - 1 = m /\ i - 1 \in 0..(m + 1) /\ i - 1 # m + 1
        BY <3>1
      <4>2. g[i] = F[<<m + 1, f[m]>>]
        BY <3>1
      <4>3. g[i - 1] = f[m]
        BY <4>1
      <4>4. F[<<i, g[i - 1]>>] = F[<<m + 1, f[m]>>]
        BY <3>1, <4>3
      <4> QED
        BY <4>2, <4>4
    <3>2. CASE i # m + 1
      <4>1. i \in 1..m /\ i - 1 \in 0..m /\ g[i] = f[i] /\ g[i - 1] = f[i - 1]
        BY <3>2
      <4> QED
        BY <2>1, <4>1
    <3> QED
      BY <3>1, <3>2
  <2> HIDE DEF g
  <2>7. \E h \in [0..(m + 1) -> V] : Runs(h, m + 1)
    BY <2>4, <2>5, <2>6
  <2> QED
    BY <2>2, <2>7
<1> HIDE DEF T
<1>3. n \in T
  BY <1>1, <1>2, UpTo
<1> QED
  BY <1>3 DEF T, Unfolds

\* A set of subsets that holds a set whenever it holds its proper subsets
\* holds them all.
LEMMA SubsetInduction ==
    ASSUME NEW S, IsFiniteSet(S), NEW G,
           \A T \in SUBSET S : (\A U \in SUBSET T : U # T => U \in G) => T \in G
    PROVE  \A T \in SUBSET S : T \in G
<1> DEFINE Missed == {n \in Nat : \E T \in SUBSET S : T \notin G /\ Cardinality(T) = n}
<1>1. SUFFICES ASSUME NEW T0 \in SUBSET S, T0 \notin G PROVE FALSE
  OBVIOUS
<1>2. Cardinality(T0) \in Missed /\ Missed \in SUBSET Nat
  <2>1. IsFiniteSet(T0)
    BY FS_Subset
  <2>2. Cardinality(T0) \in Nat
    BY <2>1, FS_CardinalityType
  <2> QED
    BY <1>1, <2>2
<1> HIDE DEF Missed
<1>3. PICK n \in Missed : \A k \in Missed : n <= k
  BY <1>2, LeastOf
<1>4. PICK T \in SUBSET S : T \notin G /\ Cardinality(T) = n
  BY <1>3 DEF Missed
<1>5. ASSUME NEW U \in SUBSET T, U # T PROVE U \in G
  <2>1. IsFiniteSet(T)
    BY FS_Subset
  <2>2. IsFiniteSet(U) /\ Cardinality(U) <= Cardinality(T) /\ Cardinality(U) # Cardinality(T)
    BY <1>5, <2>1, FS_Subset
  <2>3. Cardinality(U) \in Nat /\ Cardinality(T) \in Nat
    BY <2>1, <2>2, FS_CardinalityType
  <2>4. Cardinality(U) \notin Missed
    BY <1>3, <1>4, <2>2, <2>3
  <2> QED
    BY <2>3, <2>4 DEF Missed
<1> QED
  BY <1>4, <1>5

\* One more element: what is retained of s[1..i] from what is of s[1..i-1].
Grown(s, S, i, before) == IF s[i] \in S THEN Append(before, s[i]) ELSE before

\* f holds what is retained of every prefix of s up to length n.
Retains(f, s, S, n) ==
    f = [i \in 0..n |-> IF i = 0 THEN <<>> ELSE Grown(s, S, i, f[i - 1])]

\* The recursion of Only defines a function.
LEMMA RetainsExists ==
    ASSUME NEW s, NEW S, NEW n \in Nat
    PROVE  \E f : Retains(f, s, S, n)
<1> DEFINE T == {m \in 0..n : \E f : Retains(f, s, S, m)}
<1>1. 0 \in T
  <2> DEFINE f == [i \in 0..0 |-> <<>>]
  <2>1. f = [i \in 0..0 |-> IF i = 0 THEN <<>> ELSE Grown(s, S, i, f[i - 1])]
    OBVIOUS
  <2> HIDE DEF f
  <2>2. Retains(f, s, S, 0)
    BY <2>1 DEF Retains
  <2>3. \E g : Retains(g, s, S, 0)
    BY <2>2
  <2> QED
    BY <2>3
<1>2. ASSUME NEW m \in 0..n, m \in T, m < n PROVE m + 1 \in T
  <2>1. PICK f : Retains(f, s, S, m)
    BY <1>2
  <2> DEFINE g == [i \in 0..(m + 1) |-> IF i = m + 1 THEN Grown(s, S, m + 1, f[m]) ELSE f[i]]
  <2>2. ASSUME NEW i \in 0..(m + 1)
        PROVE  g[i] = IF i = 0 THEN <<>> ELSE Grown(s, S, i, g[i - 1])
    <3>1. CASE i = m + 1
      BY <3>1
    <3>2. CASE i # m + 1
      <4>1. i \in 0..m /\ g[i] = f[i] /\ (i # 0 => g[i - 1] = f[i - 1])
        BY <3>2
      <4>2. f[i] = IF i = 0 THEN <<>> ELSE Grown(s, S, i, f[i - 1])
        BY <4>1, <2>1 DEF Retains
      <4> QED
        BY <4>1, <4>2
    <3> QED
      BY <3>1, <3>2
  <2>3. g = [i \in 0..(m + 1) |-> IF i = 0 THEN <<>> ELSE Grown(s, S, i, g[i - 1])]
    BY <2>2
  <2> HIDE DEF g
  <2>4. \E k : Retains(k, s, S, m + 1)
    BY <2>3 DEF Retains
  <2>5. m + 1 \in 0..n
    BY <1>2
  <2> QED
    BY <2>4, <2>5
<1> HIDE DEF T
<1>3. n \in T
  BY <1>1, <1>2, UpTo
<1> QED
  BY <1>3 DEF T

\* h leads from the places of `kept` to the places in s[1..n] of the elements of S.
Places(h, kept, s, S, n) ==
    /\ Len(kept) <= n /\ h \in [1..Len(kept) -> 1..n]
    /\ \A j \in 1..Len(kept) : kept[j] = s[h[j]] /\ s[h[j]] \in S
    /\ \A j, k \in 1..Len(kept) : j < k => h[j] < h[k]
    /\ \A i \in 1..n : s[i] \in S => \E j \in 1..Len(kept) : h[j] = i

\* Only retains the elements of S at increasing places, and all of them.
LEMMA OnlyPlaces ==
    ASSUME NEW V, NEW s \in Seq(V), NEW S
    PROVE  /\ Only(s, S) \in Seq(V)
           /\ \E h : Places(h, Only(s, S), s, S, Len(s))
<1> DEFINE f == CHOOSE f : Retains(f, s, S, Len(s))
<1>1. Retains(f, s, S, Len(s))
  BY RetainsExists
<1>2. Only(s, S) = f[Len(s)]
  BY Zenon DEF Only, Retains, Grown
<1> HIDE DEF f
<1> DEFINE T == {m \in 0..Len(s) : f[m] \in Seq(V) /\ \E h : Places(h, f[m], s, S, m)}
<1>3. 0 \in T
  <2>1. f[0] = <<>>
    BY <1>1 DEF Retains
  <2>2. Places(<<>>, <<>>, s, S, 0)
    BY DEF Places
  <2>3. f[0] \in Seq(V) /\ \E h : Places(h, f[0], s, S, 0)
    BY <2>1, <2>2
  <2>4. 0 \in 0..Len(s)
    OBVIOUS
  <2> QED
    BY <2>3, <2>4
<1>4. ASSUME NEW m \in 0..Len(s), m \in T, m < Len(s) PROVE m + 1 \in T
  <2>1. PICK h : Places(h, f[m], s, S, m)
    BY <1>4
  <2>2. f[m] \in Seq(V) /\ s[m + 1] \in V
    BY <1>4
  <2>3. m + 1 \in 0..Len(s) /\ m + 1 # 0 /\ (m + 1) - 1 = m
    BY <1>4
  <2>6. f[m + 1] = Grown(s, S, m + 1, f[m])
    BY <1>1, <2>3 DEF Retains
  <2>4. CASE s[m + 1] \notin S
    <3>1. Places(h, f[m], s, S, m + 1)
      BY <2>1, <2>2, <2>4 DEF Places
    <3>2. f[m + 1] = f[m]
      BY <2>4, <2>6 DEF Grown
    <3>3. \E k : Places(k, f[m + 1], s, S, m + 1)
      BY <3>1, <3>2
    <3> QED
      BY <3>2, <3>3, <2>2, <2>3
  <2>5. CASE s[m + 1] \in S
    <3> DEFINE kept == Append(f[m], s[m + 1])
    <3> DEFINE g == [j \in 1..Len(kept) |-> IF j = Len(kept) THEN m + 1 ELSE h[j]]
    <3>1. kept \in Seq(V) /\ Len(kept) = Len(f[m]) + 1 /\ kept[Len(kept)] = s[m + 1]
          /\ \A j \in 1..Len(f[m]) : kept[j] = f[m][j]
      BY <2>2
    <3> HIDE DEF kept
    <3>2. Len(f[m]) \in Nat /\ DOMAIN g = 1..(Len(f[m]) + 1) /\ g[Len(f[m]) + 1] = m + 1
      BY <2>2, <3>1
    <3>3. ASSUME NEW j \in 1..Len(f[m]) PROVE g[j] = h[j] /\ h[j] \in 1..m
      <4>1. j \in 1..Len(kept) /\ j # Len(kept)
        BY <3>1, <3>2
      <4>2. h[j] \in 1..m
        BY <2>1 DEF Places
      <4> QED
        BY <4>1, <4>2
    <3>4. \A j \in 1..(Len(f[m]) + 1) : j = Len(f[m]) + 1 \/ j \in 1..Len(f[m])
      BY <3>2
    <3>9. g = [j \in 1..Len(kept) |-> g[j]]
      OBVIOUS
    <3> HIDE DEF g
    <3>5. g \in [1..Len(kept) -> 1..(m + 1)]
      <4>1. \A j \in 1..Len(kept) : g[j] \in 1..(m + 1)
        BY <3>1, <3>2, <3>3, <3>4
      <4> QED
        BY <4>1, <3>9
    <3>10. \A j \in 1..Len(kept) : kept[j] = s[g[j]] /\ s[g[j]] \in S
      BY <2>1, <2>5, <3>1, <3>2, <3>3, <3>4 DEF Places
    <3>11. ASSUME NEW j \in 1..Len(kept), NEW k \in 1..Len(kept), j < k PROVE g[j] < g[k]
      <4>1. j \in 1..Len(f[m])
        BY <3>11, <3>1, <3>2
      <4>2. CASE k \in 1..Len(f[m])
        BY <4>1, <4>2, <3>3, <3>11, <2>1 DEF Places
      <4>3. CASE k = Len(f[m]) + 1
        BY <4>1, <4>3, <3>2, <3>3
      <4> QED
        BY <4>2, <4>3, <3>1, <3>4
    <3>12. ASSUME NEW i \in 1..(m + 1), s[i] \in S PROVE \E j \in 1..Len(kept) : g[j] = i
      <4>1. CASE i = m + 1
        BY <4>1, <3>1, <3>2
      <4>2. CASE i # m + 1
        <5>1. PICK j \in 1..Len(f[m]) : h[j] = i
          BY <4>2, <3>12, <2>1 DEF Places
        <5> QED
          BY <5>1, <3>1, <3>2, <3>3
      <4> QED
        BY <4>1, <4>2
    <3>6. Places(g, kept, s, S, m + 1)
      BY <2>1, <3>1, <3>5, <3>10, <3>11, <3>12 DEF Places
    <3>7. f[m + 1] = kept
      BY <2>5, <2>6 DEF Grown, kept
    <3>8. \E k : Places(k, f[m + 1], s, S, m + 1)
      BY <3>6, <3>7
    <3> QED
      BY <3>1, <3>7, <3>8, <2>3
  <2> QED
    BY <2>4, <2>5
<1> HIDE DEF T
<1>5. Len(s) \in Nat /\ Len(s) \in 0..Len(s)
  OBVIOUS
<1>6. Len(s) \in T
  BY <1>3, <1>4, <1>5, UpTo
<1> QED
  BY <1>2, <1>6 DEF T

-----------------------------------------------------------------------------
\* What Only retains: the elements in S, none of them more often than before.
LEMMA OnlyRetains ==
    ASSUME NEW V, NEW s \in Seq(V), NEW S
    PROVE  /\ Only(s, S) \in Seq(V)
           /\ Len(Only(s, S)) <= Len(s)
           /\ ToSet(Only(s, S)) = ToSet(s) \cap S
           /\ IsInjective(s) => IsInjective(Only(s, S))
<1> DEFINE kept == Only(s, S)
<1>1. kept \in Seq(V)
  BY OnlyPlaces
<1>2. PICK h : Places(h, kept, s, S, Len(s))
  BY OnlyPlaces
<1> HIDE DEF kept
<1>3. ToSet(kept) \subseteq ToSet(s) \cap S
  BY <1>1, <1>2 DEF Places, ToSet
<1>4. ToSet(s) \cap S \subseteq ToSet(kept)
  BY <1>1, <1>2 DEF Places, ToSet
<1>5. ASSUME IsInjective(s), NEW i \in 1..Len(kept), NEW j \in 1..Len(kept), kept[i] = kept[j]
      PROVE  i = j
  <2>0. h[i] \in DOMAIN s /\ h[j] \in DOMAIN s /\ s[h[i]] = s[h[j]]
    BY <1>2, <1>5 DEF Places
  <2>1. h[i] = h[j]
    BY <1>5, <2>0 DEF IsInjective
  <2>2. ~(i < j) /\ ~(j < i)
    BY <1>2, <2>1 DEF Places
  <2> QED
    BY <1>1, <2>2
<1> QED
  BY <1>1, <1>2, <1>3, <1>4, <1>5 DEF kept, Places, IsInjective

\* A sequence without repetition has as many elements as places.
LEMMA DistinctCardinality ==
    ASSUME NEW V, NEW s \in Seq(V), IsInjective(s)
    PROVE  IsFiniteSet(ToSet(s)) /\ Cardinality(ToSet(s)) = Len(s)
<1>1. s \in Bijection(1..Len(s), ToSet(s))
  BY DEF Bijection, Injection, Surjection, IsInjective, ToSet
<1>2. ExistsBijection(1..Len(s), ToSet(s))
  BY <1>1 DEF ExistsBijection
<1>3. IsFiniteSet(1..Len(s)) /\ Cardinality(1..Len(s)) = Len(s)
  <2>1. 1 \in Int /\ Len(s) \in Int /\ Len(s) >= 0
    OBVIOUS
  <2>2. IsFiniteSet(1..Len(s))
        /\ Cardinality(1..Len(s)) = IF 1 > Len(s) THEN 0 ELSE Len(s) - 1 + 1
    BY <2>1, FS_Interval
  <2> QED
    BY <2>1, <2>2
<1> QED
  BY <1>2, <1>3, FS_Bijection

\* Appending a new element, and removing the first.
LEMMA DistinctEnds ==
    ASSUME NEW V, NEW s \in Seq(V), IsInjective(s)
    PROVE  /\ \A v \in V : v \notin ToSet(s) => IsInjective(Append(s, v))
           /\ \A v \in V : ToSet(Append(s, v)) = ToSet(s) \cup {v}
           /\ s # <<>> => IsInjective(Tail(s)) /\ ToSet(Tail(s)) = ToSet(s) \ {Head(s)}
<1>1. ASSUME NEW v \in V PROVE ToSet(Append(s, v)) = ToSet(s) \cup {v}
  <2> DEFINE longer == Append(s, v)
  <2>1. longer \in Seq(V) /\ Len(longer) = Len(s) + 1 /\ longer[Len(s) + 1] = v
        /\ \A i \in 1..Len(s) : longer[i] = s[i]
    OBVIOUS
  <2> HIDE DEF longer
  <2>2. \A i \in 1..Len(longer) : i = Len(s) + 1 \/ i \in 1..Len(s)
    BY <2>1
  <2>3. ToSet(longer) = ToSet(s) \cup {v}
    BY <2>1, <2>2 DEF ToSet
  <2> QED
    BY <2>3 DEF longer
<1>2. ASSUME NEW v \in V, v \notin ToSet(s) PROVE IsInjective(Append(s, v))
  BY <1>2 DEF IsInjective, ToSet
<1>3. ASSUME s # <<>> PROVE IsInjective(Tail(s))
  BY <1>3 DEF IsInjective
<1>4. ASSUME s # <<>> PROVE ToSet(Tail(s)) = ToSet(s) \ {Head(s)}
  <2> DEFINE rest == Tail(s)
  <2>1. rest \in Seq(V) /\ Len(rest) = Len(s) - 1 /\ Len(s) >= 1 /\ Head(s) = s[1]
        /\ \A i \in 1..(Len(s) - 1) : rest[i] = s[i + 1]
    BY <1>4
  <2> HIDE DEF rest
  <2>2. ASSUME NEW i \in 2..Len(s) PROVE s[i] \in ToSet(rest)
    <3>1. i - 1 \in 1..Len(rest) /\ rest[i - 1] = s[(i - 1) + 1]
      BY <2>1
    <3> QED
      BY <2>1, <3>1 DEF ToSet
  <2>3. \A i \in 1..Len(s) : i = 1 \/ i \in 2..Len(s)
    OBVIOUS
  <2>4. ToSet(s) \ {Head(s)} \subseteq ToSet(rest)
    BY <2>1, <2>2, <2>3 DEF ToSet
  <2>5. ToSet(rest) \subseteq ToSet(s) \ {Head(s)}
    BY <2>1 DEF ToSet, IsInjective
  <2> QED
    BY <2>4, <2>5 DEF rest
<1> QED
  BY <1>1, <1>2, <1>3, <1>4

\* Taking off the first k elements of a sequence without repetition.
LEMMA DistinctPrefix ==
    ASSUME NEW V, NEW s \in Seq(V), IsInjective(s), NEW k \in 0..Len(s)
    PROVE  /\ SubSeq(s, k + 1, Len(s)) \in Seq(V) /\ IsInjective(SubSeq(s, k + 1, Len(s)))
           /\ Len(SubSeq(s, k + 1, Len(s))) = Len(s) - k
           /\ \A i \in 1..(Len(s) - k) : SubSeq(s, k + 1, Len(s))[i] = s[i + k]
           /\ ToSet(SubSeq(s, k + 1, Len(s))) = ToSet(s) \ ToSet(SubSeq(s, 1, k))
           /\ ToSet(SubSeq(s, 1, k)) = {s[i] : i \in 1..k}
           /\ ToSet(SubSeq(s, 1, k)) \subseteq ToSet(s)
<1> DEFINE rest == SubSeq(s, k + 1, Len(s)) gone == SubSeq(s, 1, k)
<1>0. Len(s) \in Nat /\ k \in Nat /\ k <= Len(s)
  OBVIOUS
<1>1. /\ rest \in Seq(V) /\ Len(rest) = Len(s) - k
      /\ \A i \in 1..(Len(s) - k) : rest[i] = s[i + k]
  BY <1>0
<1>2. gone \in Seq(V) /\ Len(gone) = k /\ \A i \in 1..k : gone[i] = s[i]
  BY <1>0
<1> HIDE DEF rest, gone
<1>3. IsInjective(rest)
  <2> SUFFICES ASSUME NEW i \in 1..(Len(s) - k), NEW j \in 1..(Len(s) - k), rest[i] = rest[j]
               PROVE  i = j
    BY <1>1 DEF IsInjective
  <2>1. i + k \in DOMAIN s /\ j + k \in DOMAIN s /\ s[i + k] = s[j + k]
    BY <1>0, <1>1
  <2>2. i + k = j + k
    BY <2>1 DEF IsInjective
  <2> QED
    BY <1>0, <2>2
<1>4. ToSet(gone) = {s[i] : i \in 1..k}
  BY <1>0, <1>2 DEF ToSet
<1>5. ToSet(gone) \subseteq ToSet(s)
  BY <1>0, <1>4 DEF ToSet
<1>6. ToSet(rest) \subseteq ToSet(s) \ ToSet(gone)
  <2> SUFFICES ASSUME NEW i \in 1..(Len(s) - k) PROVE rest[i] \in ToSet(s) \ ToSet(gone)
    BY <1>1 DEF ToSet
  <2>1. i + k \in 1..Len(s) /\ rest[i] = s[i + k] /\ \A j \in 1..k : j \in 1..Len(s) /\ j # i + k
    BY <1>0, <1>1
  <2>2. \A j \in 1..k : s[j] # s[i + k]
    BY <2>1 DEF IsInjective
  <2> QED
    BY <1>4, <2>1, <2>2 DEF ToSet
<1>7. ToSet(s) \ ToSet(gone) \subseteq ToSet(rest)
  <2> SUFFICES ASSUME NEW i \in 1..Len(s), s[i] \notin ToSet(gone) PROVE s[i] \in ToSet(rest)
    BY DEF ToSet
  <2>1. i \notin 1..k
    BY <1>4
  <2>2. i - k \in 1..(Len(s) - k) /\ (i - k) + k = i
    BY <1>0, <2>1
  <2>3. rest[i - k] = s[i]
    BY <1>1, <2>2
  <2> QED
    BY <1>1, <2>2, <2>3 DEF ToSet
<1> QED
  BY <1>1, <1>3, <1>4, <1>5, <1>6, <1>7 DEF rest, gone

-----------------------------------------------------------------------------
\* f holds the concatenation of every prefix of s.
Flattens(f, s) == f = [i \in 1..Len(s) |-> IF i = 1 THEN s[i] ELSE f[i - 1] \o s[i]]

\* Concatenating sequences over W gives a sequence over W.
LEMMA FlattenType ==
    ASSUME NEW W, NEW s \in Seq(Seq(W))
    PROVE  FlattenSeq(s) \in Seq(W)
<1> DEFINE n == Len(s)
           V == Seq(W)
           Step(x, i) == IF i = 1 THEN s[i] ELSE x \o s[i]
           F == [pair \in (1..n) \X V |-> Step(pair[2], pair[1])]
<1>0. n \in Nat
  OBVIOUS
<1>1. \A i \in 1..n : s[i] \in V
  OBVIOUS
<1>2. <<>> \in V
  OBVIOUS
<1>3. CASE n = 0
  BY <1>2, <1>3 DEF FlattenSeq
<1>4. CASE n # 0
  <2>1. ASSUME NEW x \in V, NEW i \in 1..n PROVE Step(x, i) \in V
    BY <1>1
  <2> HIDE DEF Step, V
  <2>2. F \in [(1..n) \X V -> V]
    BY <2>1
  <2>3. ASSUME NEW x \in V, NEW i \in 1..n PROVE F[<<i, x>>] = Step(x, i)
    OBVIOUS
  <2> HIDE DEF F, n
  <2>4. \E f : Unfolds(f, n, V, <<>>, F)
    BY <1>0, <1>2, <2>2, RecursionExists
  <2>5. PICK f : Unfolds(f, n, V, <<>>, F)
    BY <2>4
  <2>6. f \in [0..n -> V] /\ \A i \in 1..n : f[i] = F[<<i, f[i - 1]>>]
    BY <2>5 DEF Unfolds
  <2>7. ASSUME NEW i \in 1..n PROVE f[i] = Step(f[i - 1], i)
    <3>1. i - 1 \in 0..n
      BY <1>0
    <3>2. f[i - 1] \in V
      BY <2>6, <3>1
    <3> QED BY <2>3, <2>6, <3>2
  <2> DEFINE g == [i \in 1..n |-> f[i]]
  <2>8. ASSUME NEW i \in 1..n PROVE g[i] = IF i = 1 THEN s[i] ELSE g[i - 1] \o s[i]
    <3>1. CASE i = 1
      BY <2>7, <3>1 DEF Step
    <3>2. CASE i # 1
      <4>1. i - 1 \in 1..n
        BY <1>0, <3>2
      <4> QED BY <2>7, <3>2, <4>1 DEF Step
    <3> QED BY <3>1, <3>2
  <2>9. Flattens(g, s)
    <3>1. g = [i \in 1..n |-> IF i = 1 THEN s[i] ELSE g[i - 1] \o s[i]]
      BY <2>8
    <3> HIDE DEF g
    <3> QED BY <3>1 DEF Flattens, n
  <2> DEFINE h == CHOOSE h : Flattens(h, s)
  <2>10. Flattens(h, s)
    BY <2>9
  <2>11. FlattenSeq(s) = IF Len(s) = 0 THEN s ELSE h[Len(s)]
    BY Zenon DEF FlattenSeq, Flattens
  <2> HIDE DEF h, g
  <2>12. h = [i \in 1..n |-> IF i = 1 THEN s[i] ELSE h[i - 1] \o s[i]]
    BY <2>10 DEF Flattens, n
  <2> DEFINE T == {i \in 0..n : i = 0 \/ h[i] \in V}
  <2>13. 0 \in T
    BY <1>0
  <2>14. ASSUME NEW i \in 0..n, i \in T, i < n PROVE i + 1 \in T
    <3>1. i + 1 \in 1..n /\ i + 1 \in 0..n /\ (i + 1) - 1 = i /\ s[i + 1] \in V
      BY <1>0, <1>1, <2>14
    <3>2. h[i + 1] = IF i + 1 = 1 THEN s[i + 1] ELSE h[i] \o s[i + 1]
      BY <2>12, <3>1
    <3>3. h[i + 1] \in V
      <4>1. CASE i = 0
        BY <3>1, <3>2, <4>1
      <4>2. CASE i # 0
        <5>1. i + 1 # 1
          BY <1>0, <4>2
        <5>2. h[i] \in V
          BY <2>14, <4>2
        <5>3. h[i + 1] = h[i] \o s[i + 1]
          BY <3>2, <5>1
        <5> QED BY <3>1, <5>2, <5>3 DEF V
      <4> QED BY <4>1, <4>2
    <3> QED BY <3>1, <3>3
  <2> HIDE DEF T
  <2>15. \A i \in 0..n : i \in T /\ i < n => i + 1 \in T
    BY <2>14
  <2>16. \A i \in 0..n : i \in T
    BY <1>0, <2>13, <2>15, UpTo
  <2>17. n \in T
    BY <1>0, <2>16
  <2>18. h[n] \in V
    BY <1>4, <2>17 DEF T
  <2> QED BY <1>4, <2>11, <2>18 DEF n, V
<1> QED
  BY <1>3, <1>4
-----------------------------------------------------------------------------
(* Folds *)

\* f is the recursion of a fold over the subsets of S: pick[T] goes first.
Recurses(f, S, pick, x, F) ==
    f = [T \in SUBSET S |-> IF T = {} THEN x ELSE F[<<pick[T], f[T \ {pick[T]}]>>]]

\* A recursion over the subsets of a finite set whose steps stay in V defines a
\* function: as many rounds as S has elements, from anything, settle it.
LEMMA SetRecursion ==
    ASSUME NEW S, IsFiniteSet(S), NEW V, NEW x \in V, NEW F \in [S \X V -> V],
           NEW pick, \A T \in SUBSET S : T # {} => pick[T] \in T
    PROVE  \E f \in [SUBSET S -> V] : Recurses(f, S, pick, x, F)
<1> DEFINE n == Cardinality(S)
           W == [SUBSET S -> V]
           Round(g) == [T \in SUBSET S |-> IF T = {} THEN x ELSE F[<<pick[T], g[T \ {pick[T]}]>>]]
           start == [T \in SUBSET S |-> x]
           R == [pair \in (1..(n + 1)) \X W |-> Round(pair[2])]
<1>1. n \in Nat
  BY FS_CardinalityType
<1>2. start \in W
  OBVIOUS
<1>3. ASSUME NEW g \in W PROVE Round(g) \in W
  <2>1. ASSUME NEW T \in SUBSET S, T # {} PROVE F[<<pick[T], g[T \ {pick[T]}]>>] \in V
    <3>1. pick[T] \in S /\ T \ {pick[T]} \in SUBSET S
      BY <2>1
    <3>2. g[T \ {pick[T]}] \in V
      BY <3>1
    <3> QED
      BY <3>1, <3>2
  <2> QED
    BY <2>1
<1>4. R \in [(1..(n + 1)) \X W -> W]
  BY <1>3
<1>5. ASSUME NEW g \in W, NEW i \in 1..(n + 1) PROVE R[<<i, g>>] = Round(g)
  OBVIOUS
<1> HIDE DEF R, n, start, W
<1>6. n + 1 \in Nat
  BY <1>1
<1>7. PICK r : Unfolds(r, n + 1, W, start, R)
  BY <1>2, <1>4, <1>6, RecursionExists
<1>8. /\ \A i \in 0..(n + 1) : r[i] \in W
      /\ \A i \in 0..n : r[i + 1] = Round(r[i])
  <2>1. \A i \in 0..(n + 1) : r[i] \in W
    BY <1>7 DEF Unfolds
  <2>2. ASSUME NEW i \in 0..n PROVE r[i + 1] = Round(r[i])
    <3>1. i + 1 \in 1..(n + 1) /\ (i + 1) - 1 = i /\ i \in 0..(n + 1)
      BY <1>1
    <3>2. r[i + 1] = R[<<i + 1, r[i]>>]
      BY <1>7, <3>1 DEF Unfolds
    <3> QED
      BY <1>5, <2>1, <3>1, <3>2
  <2> QED
    BY <2>1, <2>2
<1> DEFINE Settled(i) == \A T \in SUBSET S : Cardinality(T) <= i => r[i + 1][T] = r[i][T]
           G == {i \in 0..n : Settled(i)}
<1>9. ASSUME NEW i \in 0..n, NEW T \in SUBSET S
      PROVE  r[i + 1][T] = IF T = {} THEN x ELSE F[<<pick[T], r[i][T \ {pick[T]}]>>]
  <2>1. r[i + 1] = Round(r[i])
    BY <1>8
  <2> QED
    BY <2>1
<1>10. ASSUME NEW T \in SUBSET S
       PROVE  /\ IsFiniteSet(T) /\ Cardinality(T) \in Nat /\ Cardinality(T) <= n
              /\ T # {} => /\ T \ {pick[T]} \in SUBSET S
                           /\ Cardinality(T \ {pick[T]}) = Cardinality(T) - 1
  <2>1. IsFiniteSet(T) /\ Cardinality(T) \in Nat /\ Cardinality(T) <= n
    BY FS_Subset, FS_CardinalityType DEF n
  <2>2. ASSUME T # {} PROVE Cardinality(T \ {pick[T]}) = Cardinality(T) - 1
    <3>1. pick[T] \in T
      BY <2>2
    <3> QED
      BY <2>1, <3>1, FS_RemoveElement
  <2> QED
    BY <2>1, <2>2
<1>11. 0 \in G
  <2>1. ASSUME NEW T \in SUBSET S, Cardinality(T) <= 0 PROVE r[0 + 1][T] = r[0][T]
    <3>4. Cardinality(T) \in Nat /\ IsFiniteSet(T)
      BY <1>10, Zenon
    <3>0. Cardinality(T) = 0
      BY <2>1, <3>4
    <3>1. T = {}
      BY <3>0, <3>4, FS_EmptySet
    <3>2. r[0] = start
      BY <1>7 DEF Unfolds
    <3>5. 0 \in 0..n
      BY <1>1
    <3>3. r[0 + 1][T] = x
      BY <1>9, <3>1, <3>5, Zenon
    <3> QED
      BY <3>2, <3>3 DEF start
  <2> QED
    BY <1>1, <2>1
<1>12. ASSUME NEW i \in 0..n, i \in G, i < n PROVE i + 1 \in G
  <2>1. i + 1 \in 0..n
    BY <1>1, <1>12
  <2>2. ASSUME NEW T \in SUBSET S, Cardinality(T) <= i + 1
        PROVE  r[(i + 1) + 1][T] = r[i + 1][T]
    <3>1. CASE T = {}
      BY <1>9, <2>1, <3>1
    <3>2. CASE T # {}
      <4>0. /\ Cardinality(T) \in Nat /\ T \ {pick[T]} \in SUBSET S
            /\ Cardinality(T \ {pick[T]}) = Cardinality(T) - 1
        BY <1>10, <3>2, Zenon
      <4>1. Cardinality(T \ {pick[T]}) <= i
        BY <2>2, <4>0
      <4>2. r[i + 1][T \ {pick[T]}] = r[i][T \ {pick[T]}]
        BY <1>12, <4>0, <4>1
      <4>3. r[(i + 1) + 1][T] = F[<<pick[T], r[i + 1][T \ {pick[T]}]>>]
        BY <1>9, <2>1, <3>2, Zenon
      <4>4. r[i + 1][T] = F[<<pick[T], r[i][T \ {pick[T]}]>>]
        BY <1>9, <3>2, Zenon
      <4> QED
        BY <4>2, <4>3, <4>4
    <3> QED
      BY <3>1, <3>2
  <2> QED
    BY <2>1, <2>2
<1> HIDE DEF G
<1>13. n \in G
  BY <1>1, <1>11, <1>12, UpTo
<1>14. \A T \in SUBSET S : r[n + 1][T] = r[n][T]
  BY <1>10, <1>13 DEF G
<1>15. n \in 0..n /\ n \in 0..(n + 1) /\ n + 1 \in 0..(n + 1)
  BY <1>1
<1>16. r[n] \in W /\ \A T \in SUBSET S :
            r[n][T] = IF T = {} THEN x ELSE F[<<pick[T], r[n][T \ {pick[T]}]>>]
  BY <1>8, <1>9, <1>14, <1>15
<1>17. r[n] = [T \in SUBSET S |-> IF T = {} THEN x ELSE F[<<pick[T], r[n][T \ {pick[T]}]>>]]
  BY <1>16 DEF W
<1> QED
  BY <1>16, <1>17 DEF Recurses, W

\* The last of the first k numbers.
LEMMA LastOfFirst ==
    ASSUME NEW k \in Nat \ {0}
    PROVE  Max(1..k) = k /\ (1..k) \ {k} = 1..(k - 1)
<1>1. 1..k \in SUBSET (0..k) /\ 1..k # {} /\ k \in 1..k
  OBVIOUS
<1>2. Max(1..k) \in 1..k /\ Max(1..k) >= k
  BY <1>1, GreatestOf
<1> QED
  BY <1>2

\* f folds F over the numbers up to n, the last one first.
FoldsOver(f, n, V, x, F) ==
    /\ f[{}] = x
    /\ \A T \in SUBSET (1..n) :
            T # {} /\ f[T \ {Max(T)}] \in V => f[T] = F[<<Max(T), f[T \ {Max(T)}]>>]

\* The values of f for the first 0 to n numbers, each from the one before.
Stepwise(f, n, V, x, F) ==
    /\ f[1..0] = x
    /\ \A i \in 1..n : f[1..(i - 1)] \in V /\ f[1..i] = F[<<i, f[1..(i - 1)]>>]

\* A fold over a sequence takes its elements one after the other, and what every
\* step preserves, its result has.
LEMMA FoldSteps ==
    ASSUME NEW n \in Nat, NEW V, NEW x \in V, NEW F \in [(1..n) \X V -> V],
           NEW f, FoldsOver(f, n, V, x, F)
    PROVE  f[1..n] \in V /\ Stepwise(f, n, V, x, F)
<1> DEFINE G == {i \in 0..n : f[1..i] \in V}
<1>1. f[1..0] = x
  <2>1. 1..0 = {}
    OBVIOUS
  <2> QED
    BY <2>1 DEF FoldsOver
<1>2. ASSUME NEW i \in 1..n, f[1..(i - 1)] \in V
      PROVE  f[1..i] = F[<<i, f[1..(i - 1)]>>] /\ f[1..i] \in V
  <2>1. Max(1..i) = i /\ (1..i) \ {i} = 1..(i - 1) /\ 1..i \in SUBSET (1..n) /\ 1..i # {}
    BY LastOfFirst
  <2>2. f[1..i] = F[<<i, f[1..(i - 1)]>>]
    BY <1>2, <2>1 DEF FoldsOver
  <2> QED
    BY <1>2, <2>2
<1>3. 0 \in G
  BY <1>1
<1>4. ASSUME NEW i \in 0..n, i \in G, i < n PROVE i + 1 \in G
  <2>1. i + 1 \in 1..n /\ (i + 1) - 1 = i /\ i + 1 \in 0..n
    BY <1>4
  <2> QED
    BY <1>2, <1>4, <2>1
<1> HIDE DEF G
<1>5. \A i \in 0..n : i \in G
  BY <1>3, <1>4, UpTo
<1>6. \A i \in 0..n : f[1..i] \in V
  BY <1>5 DEF G
<1>7. ASSUME NEW i \in 1..n PROVE f[1..(i - 1)] \in V /\ f[1..i] = F[<<i, f[1..(i - 1)]>>]
  <2>1. i - 1 \in 0..n
    OBVIOUS
  <2> QED
    BY <1>2, <1>6, <2>1
<1> QED
  BY <1>1, <1>6, <1>7 DEF Stepwise

\* The greatest of some numbers is one of them.
LEMMA GreatestIn ==
    ASSUME NEW n \in Nat, NEW T \in SUBSET (1..n), T # {}
    PROVE  Max(T) \in T
<1>1. T \in SUBSET (0..n)
  OBVIOUS
<1> QED
  BY <1>1, GreatestOf

\* h is the recursion of a fold over n elements.
FoldFn(h, n, V, x, F) ==
    /\ h \in [SUBSET (1..n) -> V]
    /\ \A T \in SUBSET (1..n) : h[T] = IF T = {} THEN x ELSE F[<<Max(T), h[T \ {Max(T)}]>>]

\* The recursion of a fold over a sequence whose steps stay in V.
LEMMA FoldExists ==
    ASSUME NEW n \in Nat, NEW V, NEW x \in V, NEW F \in [(1..n) \X V -> V]
    PROVE  \E h : FoldFn(h, n, V, x, F)
<1> DEFINE pick == [T \in SUBSET (1..n) |-> Max(T)]
<1>1. ASSUME NEW T \in SUBSET (1..n), T # {} PROVE Max(T) \in T /\ pick[T] = Max(T)
  BY <1>1, GreatestIn
<1>2. IsFiniteSet(1..n)
  BY FS_Interval
<1>3. \A T \in SUBSET (1..n) : T # {} => pick[T] \in T
  BY <1>1, Zenon
<1> HIDE DEF pick
<1>4. PICK h \in [SUBSET (1..n) -> V] : Recurses(h, 1..n, pick, x, F)
  BY <1>2, <1>3, SetRecursion
<1>5. ASSUME NEW T \in SUBSET (1..n)
      PROVE  h[T] = IF T = {} THEN x ELSE F[<<Max(T), h[T \ {Max(T)}]>>]
  <2>1. h[T] = IF T = {} THEN x ELSE F[<<pick[T], h[T \ {pick[T]}]>>]
    BY <1>4 DEF Recurses
  <2> QED
    BY <1>1, <2>1
<1> QED
  BY <1>4, <1>5 DEF FoldFn

-----------------------------------------------------------------------------
(* Sequences that rise *)

\* q rises by `key`, a number for every element.
Rising(q, key) == \A i, j \in DOMAIN q : i < j => key[q[i]] < key[q[j]]

\* A rising sequence has no element twice.
LEMMA RisingInjective ==
    ASSUME NEW V, NEW key \in [V -> Nat], NEW q \in Seq(V), Rising(q, key)
    PROVE  IsInjective(q)
<1> SUFFICES ASSUME NEW i \in DOMAIN q, NEW j \in DOMAIN q, q[i] = q[j] PROVE i = j
  BY DEF IsInjective
<1>1. i \in Nat /\ j \in Nat /\ key[q[i]] \in Nat
  OBVIOUS
<1>2. ~(i < j) /\ ~(j < i)
  BY <1>1 DEF Rising
<1> QED
  BY <1>1, <1>2

\* A sequence that rises is determined by its elements.
LEMMA RisingUnique ==
    ASSUME NEW V, NEW key \in [V -> Nat], NEW p \in Seq(V), NEW q \in Seq(V),
           Rising(p, key), Rising(q, key), ToSet(p) = ToSet(q)
    PROVE  p = q
<1>1. Len(p) = Len(q)
  <2>1. IsInjective(p) /\ IsInjective(q)
    BY RisingInjective
  <2> QED
    BY <2>1, DistinctCardinality
<1> DEFINE Differ == {i \in 1..Len(p) : p[i] # q[i]}
<1>2. CASE Differ = {}
  BY <1>1, <1>2
<1>3. CASE Differ # {}
  <2>1. PICK i \in Differ : \A j \in Differ : i <= j
    <3>1. Differ \in SUBSET Nat
      OBVIOUS
    <3> QED
      BY <1>3, <3>1, LeastOf
  <2>2. i \in 1..Len(p) /\ p[i] # q[i] /\ p[i] \in V /\ q[i] \in V /\ i \in DOMAIN q /\ i \in DOMAIN p
    BY <1>1
  <2>3. \A j \in 1..Len(p) : j < i => p[j] = q[j]
    BY <2>1, <2>2
  <2>4. PICK j \in DOMAIN q : p[i] = q[j]
    BY <2>2 DEF ToSet
  <2>5. PICK k \in DOMAIN p : q[i] = p[k]
    BY <2>2 DEF ToSet
  <2>6. j \in Nat /\ k \in Nat /\ i \in Nat /\ key[p[i]] \in Nat /\ key[q[i]] \in Nat
    BY <2>2
  <2>7. ~(j < i)
    <3>1. SUFFICES ASSUME j < i PROVE FALSE
      OBVIOUS
    <3>2. q[j] = p[j] /\ j \in DOMAIN p
      BY <1>1, <2>3, <3>1
    <3>3. key[p[j]] < key[p[i]]
      BY <2>2, <3>1, <3>2 DEF Rising
    <3> QED
      BY <2>4, <2>6, <3>2, <3>3
  <2>8. ~(k < i)
    <3>1. SUFFICES ASSUME k < i PROVE FALSE
      OBVIOUS
    <3>2. q[k] = p[k] /\ k \in DOMAIN q
      BY <1>1, <2>3, <3>1
    <3>3. key[q[k]] < key[q[i]]
      BY <2>2, <3>1, <3>2 DEF Rising
    <3> QED
      BY <2>5, <2>6, <3>2, <3>3
  <2>9. j # i /\ k # i
    BY <2>2, <2>4, <2>5
  <2>10. i < j /\ i < k
    BY <2>6, <2>7, <2>8, <2>9
  <2>11. key[q[i]] < key[q[j]]
    BY <2>2, <2>10 DEF Rising
  <2>12. key[p[i]] < key[p[k]]
    BY <2>2, <2>10 DEF Rising
  <2> QED
    BY <2>4, <2>5, <2>6, <2>11, <2>12
<1> QED
  BY <1>2, <1>3

LEMMA RisingOnly ==
    ASSUME NEW V, NEW key \in [V -> Nat], NEW q \in Seq(V), Rising(q, key), NEW S
    PROVE  Only(q, S) \in Seq(V) /\ Rising(Only(q, S), key)
<1> DEFINE kept == Only(q, S)
<1>1. kept \in Seq(V)
  BY OnlyPlaces
<1>2. PICK h : Places(h, kept, q, S, Len(q))
  BY OnlyPlaces
<1> HIDE DEF kept
<1>3. ASSUME NEW i \in DOMAIN kept, NEW j \in DOMAIN kept, i < j PROVE key[kept[i]] < key[kept[j]]
  <2>0. i \in 1..Len(kept) /\ j \in 1..Len(kept) /\ DOMAIN q = 1..Len(q)
    BY <1>1
  <2>1. h[i] \in DOMAIN q /\ h[j] \in DOMAIN q /\ h[i] < h[j] /\ kept[i] = q[h[i]] /\ kept[j] = q[h[j]]
    BY <1>2, <1>3, <2>0 DEF Places
  <2> QED
    BY <2>1 DEF Rising
<1>4. Rising(kept, key)
  BY <1>3 DEF Rising
<1> QED
  BY <1>1, <1>4 DEF kept

\* Appending what is above everything.
LEMMA RisingAppend ==
    ASSUME NEW V, NEW key \in [V -> Nat], NEW q \in Seq(V), Rising(q, key), NEW v \in V,
           \A i \in DOMAIN q : key[q[i]] < key[v]
    PROVE  /\ Append(q, v) \in Seq(V) /\ Rising(Append(q, v), key)
           /\ ToSet(Append(q, v)) = ToSet(q) \cup {v}
<1> DEFINE longer == Append(q, v)
<1>1. longer \in Seq(V) /\ Len(longer) = Len(q) + 1 /\ longer[Len(q) + 1] = v
      /\ \A i \in 1..Len(q) : longer[i] = q[i]
  OBVIOUS
<1>2. DOMAIN longer = 1..(Len(q) + 1) /\ DOMAIN q = 1..Len(q)
  OBVIOUS
<1> HIDE DEF longer
<1>3. ASSUME NEW i \in DOMAIN longer, NEW j \in DOMAIN longer, i < j
      PROVE  key[longer[i]] < key[longer[j]]
  <2>1. i \in 1..Len(q)
    BY <1>2, <1>3
  <2>2. j \in 1..Len(q) \/ j = Len(q) + 1
    BY <1>2
  <2> QED
    BY <1>1, <1>2, <1>3, <2>1, <2>2 DEF Rising
<1>4. ToSet(longer) = ToSet(q) \cup {v}
  <2>1. ASSUME NEW x \in ToSet(longer) PROVE x \in ToSet(q) \cup {v}
    <3>1. PICK i \in 1..(Len(q) + 1) : x = longer[i]
      BY <1>2 DEF ToSet
    <3>2. i \in 1..Len(q) \/ i = Len(q) + 1
      OBVIOUS
    <3> QED
      BY <1>1, <3>1, <3>2 DEF ToSet
  <2>2. ASSUME NEW x \in ToSet(q) PROVE x \in ToSet(longer)
    <3>1. PICK i \in 1..Len(q) : x = q[i]
      BY <1>2 DEF ToSet
    <3>2. x = longer[i] /\ i \in 1..(Len(q) + 1)
      BY <1>1, <3>1
    <3> QED
      BY <1>2, <3>2 DEF ToSet
  <2>3. v \in ToSet(longer)
    BY <1>1, <1>2 DEF ToSet
  <2> QED
    BY <2>1, <2>2, <2>3
<1>5. Rising(longer, key)
  BY <1>3 DEF Rising
<1> QED
  BY <1>1, <1>4, <1>5 DEF longer

\* Leaving out one place.
LEMMA RemoveAtPlaces ==
    ASSUME NEW V, NEW q \in Seq(V), NEW m \in 1..Len(q)
    PROVE  /\ RemoveAt(q, m) \in Seq(V) /\ Len(RemoveAt(q, m)) = Len(q) - 1
           /\ \A i \in 1..(Len(q) - 1) : RemoveAt(q, m)[i] = IF i < m THEN q[i] ELSE q[i + 1]
<1> DEFINE a == SubSeq(q, 1, m - 1)
           b == SubSeq(q, m + 1, Len(q))
<1>1. a \in Seq(V) /\ Len(a) = m - 1 /\ \A i \in 1..(m - 1) : a[i] = q[i]
  OBVIOUS
<1>2. b \in Seq(V) /\ Len(b) = Len(q) - m /\ \A i \in 1..(Len(q) - m) : b[i] = q[m + i]
  <2>1. CASE m = Len(q)
    BY <2>1
  <2>2. CASE m # Len(q)
    BY <2>2
  <2> QED
    BY <2>1, <2>2
<1>3. RemoveAt(q, m) = a \o b
  BY DEF RemoveAt
<1> HIDE DEF a, b
<1>4. a \o b \in Seq(V) /\ Len(a \o b) = Len(q) - 1
  <2>0. a \in Seq(V) /\ b \in Seq(V)
    BY <1>1, <1>2
  <2>1. Len(a \o b) = Len(a) + Len(b)
    BY <2>0
  <2>2. a \o b \in Seq(V)
    BY <2>0
  <2>3. (m - 1) + (Len(q) - m) = Len(q) - 1
    OBVIOUS
  <2> QED
    BY <1>1, <1>2, <2>1, <2>2, <2>3
<1>5. ASSUME NEW i \in 1..(Len(q) - 1) PROVE (a \o b)[i] = IF i < m THEN q[i] ELSE q[i + 1]
  <2>1. CASE i < m
    BY <1>1, <1>2, <2>1
  <2>2. CASE ~(i < m)
    <3>1. (a \o b)[i] = b[i - (m - 1)] /\ i - (m - 1) \in 1..(Len(q) - m)
      BY <1>1, <1>2, <2>2
    <3>2. m + (i - (m - 1)) = i + 1
      OBVIOUS
    <3> QED
      BY <1>2, <2>2, <3>1, <3>2
  <2> QED
    BY <2>1, <2>2
<1> QED
  BY <1>3, <1>4, <1>5

LEMMA RisingRemove ==
    ASSUME NEW V, NEW key \in [V -> Nat], NEW q \in Seq(V), Rising(q, key), NEW m \in 1..Len(q)
    PROVE  /\ RemoveAt(q, m) \in Seq(V) /\ Rising(RemoveAt(q, m), key)
           /\ ToSet(RemoveAt(q, m)) = ToSet(q) \ {q[m]}
<1> DEFINE r == RemoveAt(q, m)
           at(i) == IF i < m THEN i ELSE i + 1
<1>1. /\ r \in Seq(V) /\ Len(r) = Len(q) - 1
      /\ \A i \in 1..(Len(q) - 1) : r[i] = IF i < m THEN q[i] ELSE q[i + 1]
  BY RemoveAtPlaces
<1> HIDE DEF r
<1>2. DOMAIN r = 1..(Len(q) - 1) /\ DOMAIN q = 1..Len(q)
  BY <1>1
<1>3. ASSUME NEW i \in DOMAIN r PROVE r[i] = q[at(i)] /\ at(i) \in DOMAIN q /\ at(i) # m
  <2>1. i \in 1..(Len(q) - 1) /\ r[i] = IF i < m THEN q[i] ELSE q[i + 1]
    BY <1>1, <1>2
  <2>2. CASE i < m
    BY <1>2, <2>1, <2>2
  <2>3. CASE ~(i < m)
    BY <1>2, <2>1, <2>3
  <2> QED
    BY <2>2, <2>3
<1>4. ASSUME NEW i \in DOMAIN r, NEW j \in DOMAIN r, i < j PROVE key[r[i]] < key[r[j]]
  <2>1. at(i) < at(j)
    BY <1>2, <1>4
  <2> QED
    BY <1>3, <2>1 DEF Rising
<1>5. IsInjective(q)
  BY RisingInjective
<1>6. ASSUME NEW x \in ToSet(r) PROVE x \in ToSet(q) \ {q[m]}
  <2>1. PICK i \in DOMAIN r : x = r[i]
    BY DEF ToSet
  <2>2. x = q[at(i)] /\ at(i) \in DOMAIN q /\ at(i) # m
    BY <1>3, <2>1
  <2> QED
    BY <1>2, <1>5, <2>2 DEF ToSet, IsInjective
<1>7. ASSUME NEW x \in ToSet(q) \ {q[m]} PROVE x \in ToSet(r)
  <2>1. PICK i \in DOMAIN q : x = q[i]
    BY DEF ToSet
  <2>2. i # m
    BY <1>7, <2>1
  <2>3. CASE i < m
    <3>1. i \in DOMAIN r /\ r[i] = x
      BY <1>1, <1>2, <2>1, <2>3
    <3> QED
      BY <3>1 DEF ToSet
  <2>4. CASE i > m
    <3>1. i - 1 \in 1..(Len(q) - 1) /\ ~(i - 1 < m) /\ (i - 1) + 1 = i
      BY <1>2, <2>4
    <3>2. r[i - 1] = q[(i - 1) + 1]
      BY <1>1, <3>1
    <3>3. i - 1 \in DOMAIN r /\ r[i - 1] = x
      BY <1>2, <2>1, <3>1, <3>2
    <3> QED
      BY <3>3 DEF ToSet
  <2> QED
    BY <1>2, <2>2, <2>3, <2>4
<1>8. Rising(r, key) /\ ToSet(r) = ToSet(q) \ {q[m]}
  BY <1>4, <1>6, <1>7 DEF Rising
<1> QED
  BY <1>1, <1>8 DEF r

LEMMA RisingTail ==
    ASSUME NEW V, NEW key \in [V -> Nat], NEW q \in Seq(V), Rising(q, key), q # <<>>
    PROVE  /\ Tail(q) \in Seq(V) /\ Rising(Tail(q), key)
           /\ ToSet(Tail(q)) = ToSet(q) \ {q[1]}
<1>1. IsInjective(q) /\ Head(q) = q[1]
  BY RisingInjective
<1>2. ToSet(Tail(q)) = ToSet(q) \ {q[1]}
  BY <1>1, DistinctEnds
<1>3. Rising(Tail(q), key)
  <2> DEFINE rest == Tail(q)
  <2>1. \A i \in DOMAIN rest : i \in Nat /\ i + 1 \in DOMAIN q /\ rest[i] = q[i + 1]
    OBVIOUS
  <2> HIDE DEF rest
  <2>2. ASSUME NEW i \in DOMAIN rest, NEW j \in DOMAIN rest, i < j
        PROVE  key[rest[i]] < key[rest[j]]
    <3>1. i + 1 < j + 1
      BY <2>1, <2>2
    <3> QED
      BY <2>1, <3>1 DEF Rising
  <2>3. Rising(rest, key)
    BY <2>2 DEF Rising
  <2> QED
    BY <2>3 DEF rest
<1> QED
  BY <1>2, <1>3

LEMMA NumberedIsSeq ==
    ASSUME NEW V, NEW n \in Nat, NEW f \in [1..n -> V]
    PROVE  f \in Seq(V) /\ Len(f) = n /\ DOMAIN f = 1..n
<1>1. f \in Seq(V)
  OBVIOUS
<1>2. DOMAIN f = 1..n
  OBVIOUS
<1>3. Len(f) = n
  BY <1>1, <1>2
<1> QED
  BY <1>1, <1>2, <1>3

\* w has elements of T where q has elements of S.
SameSide(q, S, w, T) == Len(w) = Len(q) /\ \A i \in 1..Len(q) : w[i] \in T <=> q[i] \in S

\* a and b are taken from the same places of q and w.
Paced(a, q, b, w) ==
    Len(b) = Len(a) /\ \A j \in 1..Len(a) : \E i \in 1..Len(q) : a[j] = q[i] /\ b[j] = w[i]

\* Sequences that are alike keep the same places.
LEMMA OnlyInStep ==
    ASSUME NEW V, NEW q \in Seq(V), NEW S, NEW U, NEW w \in Seq(U), NEW T, SameSide(q, S, w, T)
    PROVE  Paced(Only(q, S), q, Only(w, T), w)
<1>0. Len(w) = Len(q) /\ \A i \in 1..Len(q) : w[i] \in T <=> q[i] \in S
  BY DEF SameSide
<1> DEFINE a == Only(q, S)
           b == Only(w, T)
<1>1. a \in Seq(V) /\ b \in Seq(U)
  BY OnlyPlaces
<1>2. PICK g : Places(g, a, q, S, Len(q))
  BY OnlyPlaces
<1>3. PICK h : Places(h, b, w, T, Len(q))
  BY <1>0, OnlyPlaces
<1> HIDE DEF a, b
<1> DEFINE key == [n \in Nat |-> n]
<1>4. key \in [Nat -> Nat]
  OBVIOUS
<1>5. g \in [1..Len(a) -> 1..Len(q)] /\ h \in [1..Len(b) -> 1..Len(q)]
      /\ Len(a) \in Nat /\ Len(b) \in Nat /\ Len(q) \in Nat
  BY <1>1, <1>2, <1>3 DEF Places
<1>6. /\ g \in Seq(Nat) /\ Len(g) = Len(a) /\ DOMAIN g = 1..Len(a)
      /\ h \in Seq(Nat) /\ Len(h) = Len(b) /\ DOMAIN h = 1..Len(b)
  <2>1. g \in [1..Len(a) -> Nat]
    BY <1>5
  <2>2. h \in [1..Len(b) -> Nat]
    BY <1>5
  <2> QED
    BY <1>5, <2>1, <2>2, NumberedIsSeq
<1>7. \A i \in 1..Len(a) : g[i] \in Nat
  BY <1>5
<1>8. \A i \in 1..Len(b) : h[i] \in Nat
  BY <1>5
<1>9. Rising(g, key) /\ Rising(h, key)
  <2>1. Rising(g, key)
    <3>1. \A i, j \in 1..Len(a) : i < j => g[i] < g[j]
      BY <1>2 DEF Places
    <3> QED
      BY <1>6, <1>7, <3>1 DEF Rising
  <2>2. Rising(h, key)
    <3>1. \A i, j \in 1..Len(b) : i < j => h[i] < h[j]
      BY <1>3 DEF Places
    <3> QED
      BY <1>6, <1>8, <3>1 DEF Rising
  <2> QED
    BY <2>1, <2>2
<1>10. ToSet(g) = {i \in 1..Len(q) : q[i] \in S}
  <2>1. ASSUME NEW i \in 1..Len(q), q[i] \in S PROVE \E j \in DOMAIN g : g[j] = i
    BY <1>2, <1>6, <2>1 DEF Places
  <2>2. ASSUME NEW j \in DOMAIN g PROVE g[j] \in 1..Len(q) /\ q[g[j]] \in S
    BY <1>2, <1>6 DEF Places
  <2> QED
    BY <2>1, <2>2 DEF ToSet
<1>11. ToSet(h) = {i \in 1..Len(q) : w[i] \in T}
  <2>1. ASSUME NEW i \in 1..Len(q), w[i] \in T PROVE \E j \in DOMAIN h : h[j] = i
    BY <1>3, <1>6, <2>1 DEF Places
  <2>2. ASSUME NEW j \in DOMAIN h PROVE h[j] \in 1..Len(q) /\ w[h[j]] \in T
    BY <1>3, <1>6 DEF Places
  <2> QED
    BY <2>1, <2>2 DEF ToSet
<1>12. ToSet(g) = ToSet(h)
  BY <1>0, <1>10, <1>11
<1> HIDE DEF key
<1>13. g = h
  BY <1>4, <1>6, <1>9, <1>12, RisingUnique
<1>14. Len(a) = Len(b)
  BY <1>6, <1>13
<1>15. ASSUME NEW j \in 1..Len(a) PROVE \E i \in 1..Len(q) : a[j] = q[i] /\ b[j] = w[i]
  <2>1. g[j] \in 1..Len(q) /\ a[j] = q[g[j]]
    BY <1>2 DEF Places
  <2>2. b[j] = w[g[j]]
    BY <1>3, <1>13, <1>14 DEF Places
  <2> QED
    BY <2>1, <2>2
<1> QED
  BY <1>14, <1>15 DEF a, b, Paced

-----------------------------------------------------------------------------
(* What the keys of a queue stand for *)

\* Nothing is left out of a sequence of which everything is retained.
LEMMA OnlyAll ==
    ASSUME NEW V, NEW q \in Seq(V), NEW S, ToSet(q) \subseteq S
    PROVE  Only(q, S) = q
<1> DEFINE n == Len(q)
           kept == Only(q, S)
           here == [i \in 1..n |-> i]
           key == [i \in Nat |-> i]
<1>1. kept \in Seq(V) /\ n \in Nat
  BY OnlyPlaces
<1>2. PICK h : Places(h, kept, q, S, n)
  BY OnlyPlaces
<1>3. \A i \in 1..n : q[i] \in S
  BY DEF ToSet
<1> HIDE DEF kept, n
<1>4. /\ h \in [1..Len(kept) -> 1..n] /\ Len(kept) \in Nat
      /\ \A j \in 1..Len(kept) : kept[j] = q[h[j]]
      /\ \A j, k \in 1..Len(kept) : j < k => h[j] < h[k]
      /\ \A i \in 1..n : \E j \in 1..Len(kept) : h[j] = i
  BY <1>1, <1>2, <1>3 DEF Places
<1>5. h \in Seq(Nat) /\ Len(h) = Len(kept) /\ DOMAIN h = 1..Len(kept)
  <2>1. h \in [1..Len(kept) -> Nat]
    BY <1>1, <1>4
  <2> QED
    BY <1>4, <2>1, NumberedIsSeq
<1>6. here \in Seq(Nat) /\ Len(here) = n /\ DOMAIN here = 1..n /\ \A i \in 1..n : here[i] = i
  <2>1. here \in [1..n -> Nat] /\ \A i \in 1..n : here[i] = i
    BY <1>1
  <2> HIDE DEF here
  <2> QED
    BY <1>1, <2>1, NumberedIsSeq
<1>7. key \in [Nat -> Nat] /\ \A i \in Nat : key[i] = i
  OBVIOUS
<1> HIDE DEF here, key
<1>8. Rising(h, key) /\ Rising(here, key)
  <2>1. ASSUME NEW i \in DOMAIN h, NEW j \in DOMAIN h, i < j PROVE key[h[i]] < key[h[j]]
    BY <1>4, <1>5, <1>7, <2>1
  <2>2. ASSUME NEW i \in DOMAIN here, NEW j \in DOMAIN here, i < j PROVE key[here[i]] < key[here[j]]
    BY <1>1, <1>6, <1>7, <2>2
  <2> QED
    BY <2>1, <2>2 DEF Rising
<1>9. ToSet(h) = ToSet(here)
  <2>1. ToSet(here) = 1..n
    BY <1>6 DEF ToSet
  <2>2. ToSet(h) = 1..n
    BY <1>4, <1>5 DEF ToSet
  <2> QED
    BY <2>1, <2>2
<1>10. h = here
  BY <1>5, <1>6, <1>7, <1>8, <1>9, RisingUnique
<1>11. Len(kept) = Len(q) /\ \A i \in 1..Len(q) : kept[i] = q[i]
  BY <1>4, <1>5, <1>6, <1>10 DEF n
<1>12. kept = q
  BY <1>1, <1>11
<1> QED
  BY <1>12 DEF kept

\* What e makes of each key of a queue.
Mapped(q, e) == [i \in DOMAIN q |-> e[q[i]]]
Images(e, S) == {e[k] : k \in S}

LEMMA MappedIsSeq ==
    ASSUME NEW V, NEW q \in Seq(V), NEW e
    PROVE  /\ Mapped(q, e) \in Seq(Images(e, V)) /\ Len(Mapped(q, e)) = Len(q) /\ DOMAIN Mapped(q, e) = 1..Len(q)
           /\ \A i \in 1..Len(q) : Mapped(q, e)[i] = e[q[i]]
           /\ ToSet(Mapped(q, e)) = Images(e, ToSet(q))
<1> DEFINE U == Images(e, V)
           m == Mapped(q, e)
<1>1. DOMAIN q = 1..Len(q) /\ Len(q) \in Nat /\ \A i \in 1..Len(q) : q[i] \in V
  OBVIOUS
<1>2. m \in [1..Len(q) -> U] /\ \A i \in 1..Len(q) : m[i] = e[q[i]]
  BY <1>1 DEF Mapped, Images
<1> HIDE DEF m, U
<1>3. m \in Seq(U) /\ Len(m) = Len(q) /\ DOMAIN m = 1..Len(q)
  BY <1>1, <1>2, NumberedIsSeq
<1>4. ToSet(m) = Images(e, ToSet(q))
  BY <1>1, <1>2, <1>3 DEF ToSet, Images
<1> QED
  BY <1>2, <1>3, <1>4 DEF m, U

LEMMA MappedSame ==
    ASSUME NEW V, NEW q \in Seq(V), NEW e, NEW f, \A k \in ToSet(q) : e[k] = f[k]
    PROVE  Mapped(q, e) = Mapped(q, f)
<1>1. \A i \in DOMAIN q : e[q[i]] = f[q[i]]
  BY DEF ToSet
<1> QED
  BY <1>1 DEF Mapped

LEMMA MappedOnly ==
    ASSUME NEW V, NEW q \in Seq(V), NEW e, NEW S, NEW T, \A k \in ToSet(q) : e[k] \in T <=> k \in S
    PROVE  Mapped(Only(q, S), e) = Only(Mapped(q, e), T)
<1> DEFINE U == Images(e, V)
           w == Mapped(q, e)
           a == Only(q, S)
           b == Only(w, T)
<1>1. w \in Seq(U) /\ Len(w) = Len(q) /\ \A i \in 1..Len(q) : w[i] = e[q[i]]
  BY MappedIsSeq
<1>2. SameSide(q, S, w, T)
  <2>1. ASSUME NEW i \in 1..Len(q) PROVE w[i] \in T <=> q[i] \in S
    <3>1. q[i] \in ToSet(q)
      BY DEF ToSet
    <3> QED
      BY <1>1, <3>1
  <2> HIDE DEF w
  <2> QED
    BY <1>1, <2>1 DEF SameSide
<1> HIDE DEF w, U
<1>3. Paced(a, q, b, w)
  BY <1>1, <1>2, OnlyInStep
<1>4. a \in Seq(V) /\ b \in Seq(U)
  BY <1>1, OnlyRetains
<1> HIDE DEF a, b
<1>5. Len(b) = Len(a) /\ \A j \in 1..Len(a) : b[j] = e[a[j]]
  BY <1>1, <1>3 DEF Paced
<1>6. /\ Mapped(a, e) \in Seq(U) /\ Len(Mapped(a, e)) = Len(a)
      /\ \A j \in 1..Len(a) : Mapped(a, e)[j] = e[a[j]]
  BY <1>4, MappedIsSeq DEF U
<1> DEFINE m == Mapped(a, e)
<1> HIDE DEF m
<1>7. m \in Seq(U) /\ Len(m) = Len(b) /\ \A j \in 1..Len(b) : m[j] = b[j]
  BY <1>5, <1>6 DEF m
<1>8. m = b
  BY <1>4, <1>7
<1> QED
  BY <1>8 DEF m, a, b, w

LEMMA MappedEnds ==
    ASSUME NEW V, NEW q \in Seq(V), NEW e
    PROVE  /\ \A v \in V : Mapped(Append(q, v), e) = Append(Mapped(q, e), e[v])
           /\ q # <<>> => Mapped(Tail(q), e) = Tail(Mapped(q, e))
<1> DEFINE U == Images(e, V)
           m == Mapped(q, e)
<1>1. m \in Seq(U) /\ Len(m) = Len(q) /\ \A i \in 1..Len(q) : m[i] = e[q[i]]
  BY MappedIsSeq
<1>0. Len(q) \in Nat
  OBVIOUS
<1>2. ASSUME NEW v \in V PROVE Mapped(Append(q, v), e) = Append(m, e[v])
  <2> DEFINE a == Append(q, v) n == Mapped(a, e) b == Append(m, e[v])
  <2>1. a \in Seq(V) /\ Len(a) = Len(q) + 1 /\ a[Len(q) + 1] = v /\ \A i \in 1..Len(q) : a[i] = q[i]
    OBVIOUS
  <2> HIDE DEF a
  <2>2. n \in Seq(U) /\ Len(n) = Len(a) /\ \A i \in 1..Len(a) : n[i] = e[a[i]]
    BY <2>1, MappedIsSeq
  <2>3. e[v] \in U
    BY DEF Images
  <2> HIDE DEF m, n, U
  <2>4. b \in Seq(U) /\ Len(b) = Len(q) + 1 /\ b[Len(q) + 1] = e[v] /\ \A i \in 1..Len(q) : b[i] = m[i]
    BY <1>1, <2>3
  <2> HIDE DEF b
  <2>5. ASSUME NEW i \in 1..(Len(q) + 1) PROVE n[i] = b[i]
    <3>1. CASE i = Len(q) + 1
      BY <1>0, <2>1, <2>2, <2>4, <3>1
    <3>2. CASE i # Len(q) + 1
      <4>1. i \in 1..Len(q) /\ i \in 1..Len(a)
        BY <1>0, <2>1, <3>2
      <4> QED
        BY <1>1, <2>1, <2>2, <2>4, <4>1
    <3> QED
      BY <3>1, <3>2
  <2>6. n = b
    BY <2>1, <2>2, <2>4, <2>5
  <2> QED
    BY <2>6 DEF n, b, a
<1>3. ASSUME q # <<>> PROVE Mapped(Tail(q), e) = Tail(m)
  <2> DEFINE a == Tail(q) n == Mapped(a, e) b == Tail(m)
  <2>1. /\ a \in Seq(V) /\ Len(a) = Len(q) - 1 /\ Len(q) >= 1
        /\ \A i \in 1..(Len(q) - 1) : a[i] = q[i + 1]
    BY <1>3
  <2> HIDE DEF a
  <2>2. n \in Seq(U) /\ Len(n) = Len(a) /\ \A i \in 1..Len(a) : n[i] = e[a[i]]
    BY <2>1, MappedIsSeq
  <2> HIDE DEF m, n, U
  <2>3. m # <<>>
    BY <1>1, <2>1
  <2>4. b \in Seq(U) /\ Len(b) = Len(q) - 1 /\ \A i \in 1..(Len(q) - 1) : b[i] = m[i + 1]
    BY <1>1, <2>3
  <2> HIDE DEF b
  <2>5. ASSUME NEW i \in 1..(Len(q) - 1) PROVE n[i] = b[i]
    <3>1. i + 1 \in 1..Len(q) /\ i \in 1..Len(a)
      BY <1>0, <2>1
    <3> QED
      BY <1>1, <2>1, <2>2, <2>4, <3>1
  <2>6. n = b
    BY <2>1, <2>2, <2>4, <2>5
  <2> QED
    BY <2>6 DEF n, b, a
<1> QED
  BY <1>2, <1>3 DEF m

-----------------------------------------------------------------------------
(* Sums over finite sets *)

Picked(T) == CHOOSE x \in T : TRUE
Unpicked(T) == T \ {Picked(T)}

\* f holds the sum of g over every subset of S.
SumsUp(f, g, S) == f = [T \in SUBSET S |-> IF T = {} THEN 0 ELSE g[Picked(T)] + f[Unpicked(T)]]

\* The sum, as the fold of the library defines it.
LEMMA SumFold ==
    ASSUME NEW g, NEW S
    PROVE  SumFunctionOnSet(g, S) = (CHOOSE f : SumsUp(f, g, S))[S]
BY Zenon DEF SumFunctionOnSet, FoldFunctionOnSet, MapThenFoldSet, SumsUp, Picked, Unpicked

\* What is left is a proper subset.
LEMMA LeftOver ==
    ASSUME NEW T, T # {}
    PROVE  Picked(T) \in T /\ Unpicked(T) \in SUBSET T /\ Unpicked(T) # T
<1>1. Picked(T) \in T
  BY DEF Picked
<1> QED
  BY <1>1 DEF Unpicked

\* The sum over a set does not depend on the set it is seen as a part of.
LEMMA SumsAgree ==
    ASSUME NEW A, NEW B, NEW a, NEW b, NEW f, NEW g, SumsUp(a, f, A), SumsUp(b, g, B),
           NEW S, IsFiniteSet(S), S \subseteq A, S \subseteq B, \A x \in S : f[x] = g[x]
    PROVE  a[S] = b[S]
<1> DEFINE G == {T \in SUBSET S : a[T] = b[T]}
<1>1. ASSUME NEW T \in SUBSET S, \A U \in SUBSET T : U # T => U \in G PROVE T \in G
  <2>0. T \in SUBSET A /\ T \in SUBSET B
    OBVIOUS
  <2>1. /\ a[T] = IF T = {} THEN 0 ELSE f[Picked(T)] + a[Unpicked(T)]
        /\ b[T] = IF T = {} THEN 0 ELSE g[Picked(T)] + b[Unpicked(T)]
    BY <2>0 DEF SumsUp
  <2>2. T # {} => a[Unpicked(T)] = b[Unpicked(T)] /\ f[Picked(T)] = g[Picked(T)]
    BY <1>1, LeftOver
  <2> QED
    BY <2>1, <2>2
<1> HIDE DEF G
<1>2. S \in G
  BY <1>1, SubsetInduction
<1> QED
  BY <1>2 DEF G

\* The fold defines the sum over every finite set.
LEMMA SumsExist ==
    ASSUME NEW g, NEW S, IsFiniteSet(S)
    PROVE  SumsUp(CHOOSE f : SumsUp(f, g, S), g, S)
<1> DEFINE Sum(T) == SumFunctionOnSet(g, T)
           G == {T \in SUBSET S : \E f : SumsUp(f, g, T)}
<1>0. ASSUME NEW U PROVE Sum(U) = (CHOOSE f : SumsUp(f, g, U))[U]
  BY SumFold
<1> HIDE DEF Sum
<1>1. ASSUME NEW T \in SUBSET S, \A U \in SUBSET T : U # T => U \in G PROVE T \in G
  <2> DEFINE w == [U \in SUBSET T |-> IF U = {} THEN 0 ELSE g[Picked(U)] + Sum(Unpicked(U))]
  <2>1. ASSUME NEW U \in SUBSET T, U # T
        PROVE  U # {} => Sum(U) = g[Picked(U)] + Sum(Unpicked(U))
    <3>0. SUFFICES ASSUME U # {} PROVE Sum(U) = g[Picked(U)] + Sum(Unpicked(U))
      OBVIOUS
    <3>1. Unpicked(U) \in SUBSET U /\ Unpicked(U) \in SUBSET T /\ Unpicked(U) # T
      BY <3>0, LeftOver
    <3>2. U \in G /\ Unpicked(U) \in G
      BY <1>1, <2>1, <3>1
    <3> DEFINE h == CHOOSE f : SumsUp(f, g, U) k == CHOOSE f : SumsUp(f, g, Unpicked(U))
    <3>3. SumsUp(h, g, U) /\ SumsUp(k, g, Unpicked(U))
      BY <3>2
    <3>4. Sum(U) = h[U] /\ Sum(Unpicked(U)) = k[Unpicked(U)]
      BY <1>0
    <3> HIDE DEF h, k
    <3>5. IsFiniteSet(Unpicked(U))
      <4>1. Unpicked(U) \in SUBSET S
        BY <3>1
      <4> QED
        BY <4>1, FS_Subset
    <3>6. h[Unpicked(U)] = k[Unpicked(U)]
      BY <3>1, <3>3, <3>5, SumsAgree
    <3>7. h[U] = g[Picked(U)] + h[Unpicked(U)]
      BY <3>0, <3>3 DEF SumsUp
    <3> QED
      BY <3>4, <3>6, <3>7
  <2>2. T # {} => Sum({}) = 0
    <3>0. SUFFICES ASSUME T # {} PROVE Sum({}) = 0
      OBVIOUS
    <3>1. {} \in G
      BY <1>1, <3>0
    <3> DEFINE h == CHOOSE f : SumsUp(f, g, {})
    <3>2. SumsUp(h, g, {})
      BY <3>1
    <3>3. Sum({}) = h[{}]
      BY <1>0
    <3> HIDE DEF h
    <3>4. {} \in SUBSET {}
      OBVIOUS
    <3> QED
      BY <3>2, <3>3, <3>4 DEF SumsUp
  <2>3. ASSUME NEW U \in SUBSET T, U # {} PROVE w[Unpicked(U)] = Sum(Unpicked(U))
    <3>1. Unpicked(U) \in SUBSET T /\ Unpicked(U) # T /\ T # {}
      BY <2>3, LeftOver
    <3> QED
      BY <2>1, <2>2, <3>1
  <2>4. w = [U \in SUBSET T |-> IF U = {} THEN 0 ELSE g[Picked(U)] + w[Unpicked(U)]]
    BY <2>3
  <2> HIDE DEF w
  <2>5. \E f : SumsUp(f, g, T)
    BY <2>4 DEF SumsUp
  <2> QED
    BY <2>5
<1> HIDE DEF G
<1>2. S \in G
  BY <1>1, SubsetInduction
<1> QED
  BY <1>2 DEF G

\* A sum, one element at a time in the order of the fold.
LEMMA SumStep ==
    ASSUME NEW g, NEW S, IsFiniteSet(S)
    PROVE  SumFunctionOnSet(g, S) = IF S = {} THEN 0 ELSE g[Picked(S)] + SumFunctionOnSet(g, Unpicked(S))
<1> DEFINE h == CHOOSE f : SumsUp(f, g, S) k == CHOOSE f : SumsUp(f, g, Unpicked(S))
<1>1. IsFiniteSet(Unpicked(S)) /\ Unpicked(S) \subseteq S
  BY FS_Difference DEF Unpicked
<1>2. SumsUp(h, g, S) /\ SumsUp(k, g, Unpicked(S))
  BY <1>1, SumsExist
<1>3. SumFunctionOnSet(g, S) = h[S] /\ SumFunctionOnSet(g, Unpicked(S)) = k[Unpicked(S)]
  BY SumFold
<1> HIDE DEF h, k
<1>4. h[S] = IF S = {} THEN 0 ELSE g[Picked(S)] + h[Unpicked(S)]
  BY <1>2 DEF SumsUp
<1>5. h[Unpicked(S)] = k[Unpicked(S)]
  BY <1>1, <1>2, SumsAgree
<1> QED
  BY <1>3, <1>4, <1>5

\* Only the values on the set count.
LEMMA SumSame ==
    ASSUME NEW f, NEW g, NEW S, IsFiniteSet(S), \A x \in S : f[x] = g[x]
    PROVE  SumFunctionOnSet(f, S) = SumFunctionOnSet(g, S)
<1> DEFINE h == CHOOSE u : SumsUp(u, f, S) k == CHOOSE u : SumsUp(u, g, S)
<1>1. SumsUp(h, f, S) /\ SumsUp(k, g, S)
  BY SumsExist
<1>2. SumFunctionOnSet(f, S) = h[S] /\ SumFunctionOnSet(g, S) = k[S]
  BY SumFold
<1> HIDE DEF h, k
<1>3. h[S] = k[S]
  BY <1>1, SumsAgree
<1> QED
  BY <1>2, <1>3

\* A sum of naturals is a natural, and each element adds its own.
LEMMA SumRemove ==
    ASSUME NEW g, NEW S, IsFiniteSet(S), \A x \in S : g[x] \in Nat
    PROVE  /\ SumFunctionOnSet(g, S) \in Nat
           /\ \A e \in S : SumFunctionOnSet(g, S) = g[e] + SumFunctionOnSet(g, S \ {e})
<1> DEFINE Sum(T) == SumFunctionOnSet(g, T)
           G == {T \in SUBSET S : Sum(T) \in Nat /\ \A e \in T : Sum(T) = g[e] + Sum(T \ {e})}
<1>0. ASSUME NEW T, IsFiniteSet(T) PROVE Sum(T) = IF T = {} THEN 0 ELSE g[Picked(T)] + Sum(Unpicked(T))
  BY <1>0, SumStep
<1> HIDE DEF Sum
<1>1. ASSUME NEW T \in SUBSET S, \A U \in SUBSET T : U # T => U \in G PROVE T \in G
  <2>0. IsFiniteSet(T)
    BY FS_Subset
  <2>1. CASE T = {}
    BY <1>0, <2>0, <2>1
  <2>2. CASE T # {}
    <3> DEFINE x == Picked(T)
    <3>1. x \in T /\ Unpicked(T) = T \ {x} /\ Unpicked(T) \in G
      BY <1>1, <2>2, LeftOver DEF Unpicked
    <3> HIDE DEF x
    <3>2. Sum(T) = g[x] + Sum(T \ {x})
      BY <1>0, <2>0, <2>2, <3>1 DEF x
    <3>3. Sum(T \ {x}) \in Nat /\ g[x] \in Nat
      BY <3>1
    <3>4. ASSUME NEW e \in T, e # x PROVE Sum(T) = g[e] + Sum(T \ {e})
      <4> DEFINE rest == (T \ {x}) \ {e}
      <4>1. T \ {x} \in G /\ e \in T \ {x} /\ T \ {e} \in G /\ x \in T \ {e}
        BY <1>1, <3>1, <3>4
      <4>2. rest = (T \ {e}) \ {x}
        OBVIOUS
      <4>3. rest \in G
        BY <1>1, <3>1
      <4> HIDE DEF rest
      <4>4. Sum(T \ {x}) = g[e] + Sum(rest)
        BY <4>1 DEF rest
      <4>5. Sum(T \ {e}) = g[x] + Sum(rest)
        BY <4>1, <4>2
      <4>6. Sum(rest) \in Nat /\ g[e] \in Nat
        BY <4>3
      <4> QED
        BY <3>2, <3>3, <4>4, <4>5, <4>6
    <3>5. Sum(T) \in Nat
      BY <3>2, <3>3
    <3>6. \A e \in T : Sum(T) = g[e] + Sum(T \ {e})
      BY <3>2, <3>4
    <3> QED
      BY <3>5, <3>6
  <2> QED
    BY <2>1, <2>2
<1> HIDE DEF G
<1>2. S \in G
  BY <1>1, SubsetInduction
<1> QED
  BY <1>2 DEF G, Sum

\* A sum is that over a part and that over the rest.
LEMMA SumSplit ==
    ASSUME NEW g, NEW S, IsFiniteSet(S), \A x \in S : g[x] \in Nat, NEW P \in SUBSET S
    PROVE  SumFunctionOnSet(g, S) = SumFunctionOnSet(g, P) + SumFunctionOnSet(g, S \ P)
<1> DEFINE Sum(T) == SumFunctionOnSet(g, T)
           G == {T \in SUBSET S : T \subseteq P => Sum(S) = Sum(T) + Sum(S \ T)}
<1>0. ASSUME NEW T \in SUBSET S PROVE Sum(T) \in Nat /\ \A e \in T : Sum(T) = g[e] + Sum(T \ {e})
  <2>1. IsFiniteSet(T)
    BY FS_Subset
  <2> QED
    BY <2>1, SumRemove
<1>1. Sum({}) = 0
  BY FS_EmptySet, SumStep
<1> HIDE DEF Sum
<1>2. ASSUME NEW T \in SUBSET S, \A U \in SUBSET T : U # T => U \in G PROVE T \in G
  <2> SUFFICES ASSUME T \subseteq P PROVE Sum(S) = Sum(T) + Sum(S \ T)
    OBVIOUS
  <2>1. CASE T = {}
    <3>1. S \ T = S /\ Sum(S) \in Nat
      BY <1>0, <2>1
    <3> QED
      BY <1>1, <2>1, <3>1
  <2>2. CASE T # {}
    <3>1. PICK e \in T : TRUE
      BY <2>2
    <3>2. T \ {e} \in G /\ T \ {e} \subseteq P /\ e \in S \ (T \ {e}) /\ (S \ (T \ {e})) \ {e} = S \ T
      BY <1>2, <3>1
    <3>3. Sum(S) = Sum(T \ {e}) + Sum(S \ (T \ {e}))
      BY <3>2
    <3>4. Sum(T) = g[e] + Sum(T \ {e}) /\ Sum(S \ (T \ {e})) = g[e] + Sum(S \ T)
      <4> DEFINE R == S \ (T \ {e})
      <4>1. R \in SUBSET S /\ e \in R /\ R \ {e} = S \ T
        BY <3>2
      <4> HIDE DEF R
      <4>2. Sum(R) = g[e] + Sum(R \ {e})
        BY <1>0, <4>1
      <4>3. Sum(T) = g[e] + Sum(T \ {e})
        BY <1>0, <3>1
      <4> QED
        BY <4>1, <4>2, <4>3 DEF R
    <3>5. Sum(T \ {e}) \in Nat /\ Sum(S \ T) \in Nat /\ g[e] \in Nat
      BY <1>0, <3>1
    <3> QED
      BY <3>3, <3>4, <3>5
  <2> QED
    BY <2>1, <2>2
<1> HIDE DEF G
<1>3. P \in G
  BY <1>2, SubsetInduction
<1> QED
  BY <1>3 DEF G, Sum

=============================================================================
