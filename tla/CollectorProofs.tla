--------------------------- MODULE CollectorProofs ---------------------------
(***************************************************************************)
(* Collector keeps its inductive invariant (CollectorInv) and so its       *)
(* safety properties, for every value of its constants; and its threads    *)
(* use the queue as BoundedFifo prescribes.  One lemma per part of the     *)
(* invariant, with one step per action of Collector.                       *)
(***************************************************************************)
EXTENDS CollectorInv, FiniteSetTheorems, SequenceTheorems, TLAPS

(***************************************************************************)
(* Facts about SumFunctionOnSet of the community modules, which folds `+'  *)
(* over a finite set, and about how the library's fold is computed: one    *)
(* chosen element is added to the sum over the others.  The sum turns out  *)
(* not to depend on the choice, so that one element may be changed or      *)
(* split off.                                                              *)
(***************************************************************************)

Pick(s) == CHOOSE x \in s : TRUE

\* g is a function as the fold defines it, on the subsets of S.
IsSum(f, S, g) ==
  g = [s \in SUBSET S |-> IF s = {} THEN 0 ELSE f[Pick(s)] + g[s \ {Pick(s)}]]

\* The community modules' sum is the function of a fold, taken at the whole set.
LEMMA SumUnfolds ==
  ASSUME NEW f, NEW S
  PROVE  SumFunctionOnSet(f, S) = (CHOOSE g : IsSum(f, S, g))[S]
BY SMT DEF SumFunctionOnSet, FoldFunctionOnSet, MapThenFoldSet, IsSum, Pick

\* What is picked is in the set.
LEMMA PickIn ==
  ASSUME NEW s, s # {}
  PROVE  Pick(s) \in s
BY DEF Pick

\* Induction over the subsets of a finite set: a set of them has a minimal one.
LEMMA MinimalSubset ==
  ASSUME NEW S, IsFiniteSet(S), NEW B, B \subseteq SUBSET S, B # {}
  PROVE  \E T \in B : \A U \in SUBSET T : U # T => U \notin B
<1>1. IsWellFoundedOn(StrictSubsetOrdering(S), SUBSET S)
  BY FS_StrictSubsetOrderingWellFounded, FS_FiniteSubsetsOfFinite
<1>2. PICK T \in B : \A U \in B : ~(<<U, T>> \in StrictSubsetOrdering(S))
  BY <1>1, WFMin
<1>3. QED
  BY <1>2 DEF StrictSubsetOrdering

-----------------------------------------------------------------------------
(* The recursive function exists and is unique. *)

\* Two such functions, for two sets, agree on the subsets the sets share.
LEMMA SumUnique ==
  ASSUME NEW f, NEW S, IsFiniteSet(S), NEW T, NEW g, NEW h,
         IsSum(f, S, g), IsSum(f, T, h), NEW s, s \subseteq S, s \subseteq T
  PROVE  g[s] = h[s]
<1> DEFINE B == {u \in SUBSET S : u \subseteq T /\ g[u] # h[u]}
<1> SUFFICES ASSUME B # {} PROVE FALSE
  OBVIOUS
<1>1. PICK u \in B : \A v \in SUBSET u : v # u => v \notin B
  <2>1. B \subseteq SUBSET S
    OBVIOUS
  <2> HIDE DEF B
  <2>2. QED
    BY <2>1, MinimalSubset
<1>2. u # {}
  BY <1>1 DEF IsSum
<1>3. Pick(u) \in u
  BY <1>2, PickIn
<1>4. g[u] = f[Pick(u)] + g[u \ {Pick(u)}] /\ h[u] = f[Pick(u)] + h[u \ {Pick(u)}]
  BY <1>2 DEF IsSum
<1>5. g[u \ {Pick(u)}] = h[u \ {Pick(u)}]
  BY <1>1, <1>3
<1>6. QED
  BY <1>4, <1>5

\* Every finite set has such a function.
LEMMA SumExists ==
  ASSUME NEW f, NEW S, IsFiniteSet(S)
  PROVE  \E g : IsSum(f, S, g)
<1> DEFINE B == {T \in SUBSET S : ~\E g : IsSum(f, T, g)}
<1> SUFFICES ASSUME B # {} PROVE FALSE
  OBVIOUS
<1>1. PICK T \in B : \A U \in SUBSET T : U # T => U \notin B
  <2>1. B \subseteq SUBSET S
    OBVIOUS
  <2> HIDE DEF B
  <2>2. QED
    BY <2>1, MinimalSubset
<1>2. \A U \in SUBSET T : U # T => \E g : IsSum(f, U, g)
  BY <1>1
<1> DEFINE G(U) == CHOOSE g : IsSum(f, U, g)
           h == [s \in SUBSET T |->
                   IF s = {} THEN 0
                   ELSE f[Pick(s)] + G(s \ {Pick(s)})[s \ {Pick(s)}]]
<1>3. \A U \in SUBSET T : U # T => IsSum(f, U, G(U))
  BY <1>2
<1>4. ASSUME NEW s \in SUBSET T, s # T
      PROVE  h[s] = G(s)[s]
  <2>1. CASE s = {}
    <3>1. IsSum(f, s, G(s))
      BY <1>3, <1>4
    <3>2. h[s] = 0
      BY <2>1
    <3> HIDE DEF G, h
    <3>3. QED
      BY <2>1, <3>1, <3>2 DEF IsSum
  <2>2. CASE s # {}
    <3> DEFINE v == s \ {Pick(s)}
    <3>1. Pick(s) \in s
      BY <2>2, PickIn
    <3>2. v \in SUBSET T /\ v # T /\ v \subseteq s
      BY <1>4, <3>1
    <3>3. IsSum(f, s, G(s)) /\ IsSum(f, v, G(v))
      BY <1>3, <1>4, <3>2
    <3>4. IsFiniteSet(s)
      BY <1>1, FS_Subset
    <3>5. G(s)[v] = G(v)[v]
      <4> HIDE DEF G, v
      <4>1. QED
        BY <3>2, <3>3, <3>4, SumUnique
    <3>6. G(s)[s] = f[Pick(s)] + G(s)[v]
      <4> DEFINE g == G(s)
      <4>1. g = [u \in SUBSET s |-> IF u = {} THEN 0 ELSE f[Pick(u)] + g[u \ {Pick(u)}]]
        BY <3>3 DEF IsSum
      <4> HIDE DEF G, g
      <4>2. g[s] = f[Pick(s)] + g[s \ {Pick(s)}]
        BY <4>1, <2>2
      <4>3. QED
        BY <4>2 DEF g
    <3>7. h[s] = f[Pick(s)] + G(v)[v]
      BY <2>2
    <3>8. QED
      BY <3>5, <3>6, <3>7
  <2>3. QED
    BY <2>1, <2>2
<1>5. IsSum(f, T, h)
  <2>1. ASSUME NEW s \in SUBSET T, s # {}
        PROVE  h[s] = f[Pick(s)] + h[s \ {Pick(s)}]
    <3> DEFINE v == s \ {Pick(s)}
    <3>1. v \in SUBSET T /\ v # T
      BY <2>1, PickIn
    <3>2. h[v] = G(v)[v]
      BY <1>4, <3>1
    <3>3. h[s] = f[Pick(s)] + G(v)[v]
      BY <2>1
    <3>4. QED
      BY <3>2, <3>3
  <2>2. h = [s \in SUBSET T |-> h[s]]
    OBVIOUS
  <2>3. {} \in SUBSET T /\ h[{}] = 0
    OBVIOUS
  <2> HIDE DEF h
  <2>4. QED
    BY <2>1, <2>2, <2>3 DEF IsSum
<1>6. QED
  BY <1>1, <1>5

\* So the one CHOOSE finds is one.
LEMMA SumIsSum ==
  ASSUME NEW f, NEW S, IsFiniteSet(S)
  PROVE  IsSum(f, S, CHOOSE g : IsSum(f, S, g))
BY SumExists

-----------------------------------------------------------------------------
(* The sum over a set. *)

\* Nothing sums up to 0.
LEMMA SumEmpty ==
  ASSUME NEW f
  PROVE  SumFunctionOnSet(f, {}) = 0
<1> DEFINE g == CHOOSE h : IsSum(f, {}, h)
<1>1. IsSum(f, {}, g)
  BY SumIsSum, FS_EmptySet
<1>2. SumFunctionOnSet(f, {}) = g[{}]
  BY SumUnfolds
<1> HIDE DEF g
<1>3. QED
  BY <1>1, <1>2 DEF IsSum

\* The element the fold chooses comes first.
LEMMA SumPicks ==
  ASSUME NEW f, NEW S, IsFiniteSet(S), S # {}
  PROVE  SumFunctionOnSet(f, S) = f[Pick(S)] + SumFunctionOnSet(f, S \ {Pick(S)})
<1> DEFINE T == S \ {Pick(S)}
           g == CHOOSE k : IsSum(f, S, k)
           h == CHOOSE k : IsSum(f, T, k)
<1>1. IsFiniteSet(T)
  BY FS_Subset
<1>2. IsSum(f, S, g) /\ IsSum(f, T, h)
  BY <1>1, SumIsSum
<1>3. SumFunctionOnSet(f, S) = g[S] /\ SumFunctionOnSet(f, T) = h[T]
  BY SumUnfolds
<1>4. T \subseteq S
  OBVIOUS
<1>5. g[S] = f[Pick(S)] + g[T]
  <2> HIDE DEF g
  <2>1. QED
    BY <1>2 DEF IsSum
<1> HIDE DEF T, g, h
<1>6. g[T] = h[T]
  BY SMTT(30), <1>1, <1>2, <1>4, SumUnique
<1>7. QED
  BY <1>3, <1>5, <1>6 DEF T

\* The sum of integers is an integer.
LEMMA SumType ==
  ASSUME NEW f, NEW S, IsFiniteSet(S), \A x \in S : f[x] \in Int
  PROVE  SumFunctionOnSet(f, S) \in Int
<1> DEFINE B == {T \in SUBSET S : SumFunctionOnSet(f, T) \notin Int}
<1> SUFFICES ASSUME B # {} PROVE FALSE
  OBVIOUS
<1>1. PICK T \in B : \A U \in SUBSET T : U # T => U \notin B
  <2>1. B \subseteq SUBSET S
    OBVIOUS
  <2> HIDE DEF B
  <2>2. QED
    BY <2>1, MinimalSubset
<1>2. T # {} /\ IsFiniteSet(T)
  <2>1. SumFunctionOnSet(f, {}) \in Int
    BY SumEmpty
  <2>2. QED
    BY <1>1, <2>1, FS_Subset
<1>3. Pick(T) \in T
  BY <1>2, PickIn
<1>4. SumFunctionOnSet(f, T \ {Pick(T)}) \in Int /\ f[Pick(T)] \in Int
  BY <1>1, <1>3
<1>5. SumFunctionOnSet(f, T) \in Int
  BY <1>2, <1>4, SumPicks
<1>6. QED
  BY <1>1, <1>5

\* Any element may be split off.
LEMMA SumSplit ==
  ASSUME NEW f, NEW S, IsFiniteSet(S), \A x \in S : f[x] \in Int, NEW a \in S
  PROVE  SumFunctionOnSet(f, S) = f[a] + SumFunctionOnSet(f, S \ {a})
<1> DEFINE Sum(T) == SumFunctionOnSet(f, T)
           B == {T \in SUBSET S : \E x \in T : Sum(T) # f[x] + Sum(T \ {x})}
<1> SUFFICES ASSUME B # {} PROVE FALSE
  OBVIOUS
<1>1. PICK T \in B : \A U \in SUBSET T : U # T => U \notin B
  <2>1. B \subseteq SUBSET S
    OBVIOUS
  <2> HIDE DEF B
  <2>2. QED
    BY <2>1, MinimalSubset
<1>2. PICK x \in T : Sum(T) # f[x] + Sum(T \ {x})
  BY <1>1
<1> DEFINE p == Pick(T)
<1>3. T \subseteq S /\ T # {} /\ IsFiniteSet(T) /\ p \in T
  BY <1>1, <1>2, FS_Subset, PickIn
<1>4. Sum(T) = f[p] + Sum(T \ {p})
  BY <1>3, SumPicks
<1>5. p # x
  BY <1>2, <1>4
<1> DEFINE R == (T \ {p}) \ {x}
<1>6. R = (T \ {x}) \ {p}
  OBVIOUS
<1>7. Sum(T \ {p}) = f[x] + Sum(R)
  BY <1>1, <1>2, <1>3, <1>5
<1>8. Sum(T \ {x}) = f[p] + Sum(R)
  <2>1. T \ {x} \in SUBSET T /\ T \ {x} # T /\ T \ {x} \in SUBSET S
    BY <1>2, <1>3
  <2>2. T \ {x} \notin B /\ p \in T \ {x}
    BY <1>1, <1>3, <1>5, <2>1
  <2>3. QED
    BY <1>6, <2>1, <2>2
<1>9. Sum(R) \in Int /\ f[p] \in Int /\ f[x] \in Int
  <2>1. R \subseteq S /\ IsFiniteSet(R)
    BY <1>3, FS_Subset
  <2>2. QED
    BY <1>2, <1>3, <2>1, SumType
<1> HIDE DEF Sum, p, R
<1>10. QED
  BY <1>2, <1>4, <1>7, <1>8, <1>9

\* The sum depends on the values in the set only.
LEMMA SumSame ==
  ASSUME NEW f, NEW g, NEW S, IsFiniteSet(S), \A x \in S : f[x] = g[x]
  PROVE  SumFunctionOnSet(f, S) = SumFunctionOnSet(g, S)
<1> DEFINE B == {T \in SUBSET S : SumFunctionOnSet(f, T) # SumFunctionOnSet(g, T)}
<1> SUFFICES ASSUME B # {} PROVE FALSE
  OBVIOUS
<1>1. PICK T \in B : \A U \in SUBSET T : U # T => U \notin B
  <2>1. B \subseteq SUBSET S
    OBVIOUS
  <2> HIDE DEF B
  <2>2. QED
    BY <2>1, MinimalSubset
<1>2. T # {} /\ IsFiniteSet(T)
  BY <1>1, SumEmpty, FS_Subset
<1>3. Pick(T) \in T
  BY <1>2, PickIn
<1>4. /\ SumFunctionOnSet(f, T \ {Pick(T)}) = SumFunctionOnSet(g, T \ {Pick(T)})
      /\ f[Pick(T)] = g[Pick(T)]
  BY <1>1, <1>3
<1>5. SumFunctionOnSet(f, T) = SumFunctionOnSet(g, T)
  BY <1>2, <1>4, SumPicks
<1>6. QED
  BY <1>1, <1>5

\* One value changes by d.
LEMMA SumChange ==
  ASSUME NEW f, NEW g, NEW S, IsFiniteSet(S), \A x \in S : f[x] \in Int,
         NEW a \in S, NEW d \in Int,
         g[a] = f[a] + d, \A x \in S \ {a} : g[x] = f[x]
  PROVE  SumFunctionOnSet(g, S) = SumFunctionOnSet(f, S) + d
<1> DEFINE T == S \ {a}
<1>1. IsFiniteSet(T) /\ T \subseteq S
  BY FS_Subset
<1>2. SumFunctionOnSet(f, S) = f[a] + SumFunctionOnSet(f, T)
  BY SumSplit
<1>3. \A x \in S : g[x] \in Int
  OBVIOUS
<1>4. SumFunctionOnSet(g, S) = g[a] + SumFunctionOnSet(g, T)
  BY <1>3, SumSplit
<1>5. SumFunctionOnSet(g, T) = SumFunctionOnSet(f, T)
  BY <1>1, SumSame
<1>6. SumFunctionOnSet(f, T) \in Int
  BY <1>1, SumType
<1> HIDE DEF T
<1>7. QED
  BY <1>2, <1>4, <1>5, <1>6

\* One element counts one more.
LEMMA SumIncrement ==
  ASSUME NEW f, NEW g, NEW S, IsFiniteSet(S), \A x \in S : f[x] \in Int,
         NEW a \in S, g[a] = f[a] + 1, \A x \in S : x # a => g[x] = f[x]
  PROVE  SumFunctionOnSet(g, S) = SumFunctionOnSet(f, S) + 1
<1>1. \A x \in S \ {a} : g[x] = f[x]
  OBVIOUS
<1>2. 1 \in Int
  OBVIOUS
<1>3. QED
  BY <1>1, <1>2, SumChange

\* Zeroes sum up to 0.
LEMMA SumZero ==
  ASSUME NEW f, NEW S, IsFiniteSet(S), \A x \in S : f[x] = 0
  PROVE  SumFunctionOnSet(f, S) = 0
<1> DEFINE B == {T \in SUBSET S : SumFunctionOnSet(f, T) # 0}
<1> SUFFICES ASSUME B # {} PROVE FALSE
  OBVIOUS
<1>1. PICK T \in B : \A U \in SUBSET T : U # T => U \notin B
  <2>1. B \subseteq SUBSET S
    OBVIOUS
  <2> HIDE DEF B
  <2>2. QED
    BY <2>1, MinimalSubset
<1>2. T # {} /\ IsFiniteSet(T)
  BY <1>1, SumEmpty, FS_Subset
<1>3. Pick(T) \in T
  BY <1>2, PickIn
<1>4. SumFunctionOnSet(f, T \ {Pick(T)}) = 0 /\ f[Pick(T)] = 0
  BY <1>1, <1>3
<1>5. SumFunctionOnSet(f, T) = 0
  BY <1>2, <1>4, SumPicks
<1>6. QED
  BY <1>1, <1>5

-----------------------------------------------------------------------------

(* What one flush writes. *)

\* A set of natural numbers has a least element.
LEMMA LeastOf ==
  ASSUME NEW K, K \subseteq Nat, K # {}
  PROVE  \E m \in K : \A k \in K : m <= k
<1> PICK b \in K : TRUE
  OBVIOUS
<1> DEFINE Below(t) == K \cap (0 .. t)
           B == {Below(t) : t \in Below(b)}
<1>1. IsFiniteSet(0 .. b)
  BY FS_Interval
<1>2. B \subseteq SUBSET (0 .. b) /\ B # {}
  <2>1. b \in Below(b)
    OBVIOUS
  <2>2. Below(b) \in B
    BY <2>1
  <2>3. \A U \in B : U \subseteq 0 .. b
    OBVIOUS
  <2> HIDE DEF B
  <2>4. QED
    BY <2>2, <2>3
<1>3. PICK T \in B : \A U \in SUBSET T : U # T => U \notin B
  <2> HIDE DEF B
  <2>1. QED
    BY <1>1, <1>2, MinimalSubset
<1>4. PICK m \in Below(b) : T = Below(m)
  OBVIOUS
<1>5. ASSUME NEW k \in K, k < m
      PROVE  FALSE
  <2>1. Below(k) \in B
    BY <1>5
  <2>2. Below(k) \in SUBSET T /\ m \notin Below(k) /\ m \in T
    BY <1>4, <1>5
  <2>3. QED
    BY <1>3, <2>1, <2>2
<1>6. QED
  BY <1>4, <1>5

\* The size of a segment of the natural numbers.
LEMMA Segment ==
  ASSUME NEW n \in Nat
  PROVE  IsFiniteSet(1 .. n) /\ Cardinality(1 .. n) = n
BY FS_Interval

\* The elements of a set of positions are numbered in their order.
LEMMA RankExists ==
  ASSUME NEW n \in Nat, NEW K, \A j \in K : j \in Nat /\ 1 <= j /\ j <= n,
         NEW c \in Nat, c = Cardinality(K), NEW k \in Nat, k >= 1, k <= c
  PROVE  \E i \in K : Rank(K, i) = k
<1> DEFINE Upto(i) == {j \in K : j <= i}
<1>1. IsFiniteSet(K)
  <2>1. IsFiniteSet(1 .. n) /\ K \subseteq 1 .. n
    BY Segment
  <2>2. QED
    BY <2>1, FS_Subset
<1>2. ASSUME NEW i \in Nat
      PROVE  IsFiniteSet(Upto(i)) /\ Cardinality(Upto(i)) \in Nat
  BY <1>1, FS_Subset, FS_CardinalityType
<1>3. Upto(n) = K /\ Upto(0) = {}
  OBVIOUS
<1>4. ASSUME NEW i \in Nat, i # 0, i \notin K
      PROVE  Upto(i) = Upto(i - 1)
  BY <1>4
<1>5. ASSUME NEW i \in K
      PROVE  Upto(i) = Upto(i - 1) \cup {i} /\ i \notin Upto(i - 1)
  BY <1>5
<1> HIDE DEF Upto
<1> DEFINE M == {i \in Nat : k <= Cardinality(Upto(i))}
<1>6. PICK m \in M : \A i \in M : m <= i
  <2>1. n \in M
    BY <1>3
  <2> HIDE DEF M
  <2>2. M \subseteq Nat
    BY DEF M
  <2>3. QED
    BY <2>1, <2>2, LeastOf
<1>7. m \in Nat /\ k <= Cardinality(Upto(m))
  OBVIOUS
<1>8. m # 0
  BY <1>3, <1>7, FS_EmptySet
<1>9. m - 1 \in Nat /\ Cardinality(Upto(m - 1)) \in Nat /\ Cardinality(Upto(m - 1)) < k
  <2>1. m - 1 \in Nat
    BY <1>7, <1>8
  <2>2. m - 1 \notin M
    <3> HIDE DEF M
    <3>1. QED
      BY <1>6, <1>7
  <2>3. QED
    BY <1>2, <2>1, <2>2
<1>10. m \in K
  BY <1>4, <1>7, <1>8, <1>9
<1>11. Cardinality(Upto(m)) = Cardinality(Upto(m - 1)) + 1
  BY <1>2, <1>5, <1>9, <1>10, FS_AddElement
<1>12. Cardinality(Upto(m)) = k
  BY <1>7, <1>9, <1>11
<1>13. QED
  BY <1>10, <1>12 DEF Upto, Rank

\* Among all positions each has its own rank.
LEMMA RankOfAll ==
  ASSUME NEW n \in Nat, NEW i \in 1 .. n
  PROVE  Rank(1 .. n, i) = i
<1>1. {j \in 1 .. n : j <= i} = 1 .. i
  OBVIOUS
<1>2. Cardinality(1 .. i) = i
  BY FS_Interval
<1>3. QED
  BY <1>1, <1>2 DEF Rank

\* The rows a flush writes are events, and all of them when no insert failed.
LEMMA RowsOfFlush ==
  ASSUME staged \in Seq(Events), NEW failed, failed \subseteq 1 .. Len(staged)
  PROVE  /\ RowsWithout(failed) \in Seq(Events)
         /\ failed = {} => RowsWithout(failed) = staged
<1> DEFINE kept == {i \in 1 .. Len(staged) : i \notin failed}
           At(k) == CHOOSE i \in kept : Rank(kept, i) = k
<1>1. RowsWithout(failed) = [k \in 1 .. Cardinality(kept) |-> staged[At(k)]]
  BY DEF RowsWithout
<1>2. /\ Len(staged) \in Nat
      /\ \A j \in kept : j \in Nat /\ 1 <= j /\ j <= Len(staged)
      /\ \A j \in kept : staged[j] \in Events
  OBVIOUS
<1>3. IsFiniteSet(1 .. Len(staged)) /\ Cardinality(1 .. Len(staged)) = Len(staged)
  BY <1>2, Segment, Zenon
<1>4. Cardinality(kept) \in Nat
  BY <1>3, FS_Subset, FS_CardinalityType
<1>5. ASSUME NEW k \in Nat, k >= 1, k <= Cardinality(kept)
      PROVE  At(k) \in kept /\ Rank(kept, At(k)) = k
  <2> HIDE DEF kept
  <2>1. \E i \in kept : Rank(kept, i) = k
    BY <1>2, <1>4, <1>5, RankExists
  <2>2. QED
    BY <2>1
<1>6. failed = {} =>
        kept = 1 .. Len(staged) /\ \A i \in 1 .. Len(staged) : Rank(kept, i) = i
  <2>1. SUFFICES ASSUME failed = {}
                 PROVE  /\ kept = 1 .. Len(staged)
                        /\ \A i \in 1 .. Len(staged) : Rank(kept, i) = i
    OBVIOUS
  <2>2. kept = 1 .. Len(staged)
    BY <2>1
  <2> HIDE DEF kept
  <2>3. QED
    BY <1>2, <2>2, RankOfAll, Zenon
<1> HIDE DEF kept, At
<1>7. RowsWithout(failed) \in Seq(Events)
  <2>1. ASSUME NEW k \in 1 .. Cardinality(kept)
        PROVE  staged[At(k)] \in Events
    BY <1>2, <1>4, <1>5
  <2>2. QED
    BY <1>1, <1>4, <2>1
<1>8. ASSUME failed = {}
      PROVE  RowsWithout(failed) = staged
  <2>1. Cardinality(kept) = Len(staged)
    BY <1>3, <1>6, <1>8
  <2>2. ASSUME NEW k \in 1 .. Len(staged)
        PROVE  At(k) = k
    <3>1. At(k) \in 1 .. Len(staged) /\ Rank(kept, At(k)) = k
      BY <1>2, <1>5, <1>6, <1>8, <2>1
    <3>2. QED
      BY <1>6, <1>8, <3>1
  <2>3. RowsWithout(failed) = [k \in 1 .. Len(staged) |-> staged[k]]
    BY <1>1, <2>1, <2>2
  <2>4. QED
    BY <2>3
<1>9. QED
  BY <1>7, <1>8

\* What a flush does, whatever fails.
LEMMA FlushFacts ==
  ASSUME MainTypeOK, Flush
  PROVE  /\ staged' = << >>
         /\ rows' \in Seq(Events) /\ write_errors' \in Nat
         /\ write_errors' = 0 => write_errors = 0 /\ rows' = rows \o staged
<1>1. PICK failed \in SUBSET (1 .. Len(staged)) :
        \/ /\ rows' = rows \o RowsWithout(failed)
           /\ write_errors' = write_errors + Cardinality(failed)
        \/ /\ staged # << >>
           /\ write_errors' = write_errors + Cardinality(failed) + 1
           /\ UNCHANGED rows
  BY DEF Flush
<1>2. rows \in Seq(Events) /\ staged \in Seq(Events) /\ write_errors \in Nat
  BY DEF MainTypeOK
<1>3. /\ RowsWithout(failed) \in Seq(Events)
      /\ failed = {} => RowsWithout(failed) = staged
  BY <1>2, RowsOfFlush
<1>4. Cardinality(failed) \in Nat /\ (Cardinality(failed) = 0 => failed = {})
  <2>1. Len(staged) \in Nat
    BY <1>2
  <2>2. IsFiniteSet(failed)
    <3>1. IsFiniteSet(1 .. Len(staged))
      BY <2>1, FS_Interval
    <3>2. QED
      BY <3>1, FS_Subset
  <2>3. QED
    BY <2>2, FS_CardinalityType, FS_EmptySet
<1>5. staged' = << >>
  BY DEF Flush
<1> HIDE DEF RowsWithout
<1>6. CASE rows' = rows \o RowsWithout(failed) /\ write_errors' = write_errors + Cardinality(failed)
  <2>1. rows' \in Seq(Events) /\ write_errors' \in Nat
    BY <1>2, <1>3, <1>4, <1>6
  <2>2. ASSUME write_errors' = 0
        PROVE  write_errors = 0 /\ rows' = rows \o staged
    <3>1. write_errors = 0 /\ Cardinality(failed) = 0
      BY <1>2, <1>4, <1>6, <2>2
    <3>2. QED
      BY <1>3, <1>4, <1>6, <3>1
  <2>3. QED
    BY <1>5, <2>1, <2>2
<1>7. CASE write_errors' = write_errors + Cardinality(failed) + 1 /\ UNCHANGED rows
  <2>1. write_errors' \in Nat /\ write_errors' # 0
    BY <1>2, <1>4, <1>7
  <2>2. QED
    BY <1>2, <1>5, <1>7, <2>1
<1>8. QED
  BY <1>1, <1>6, <1>7
-----------------------------------------------------------------------------
(* The queue, and the adapter threads. *)

\* What an adapter pushes is an event of its log.
LEMMA EventInHand ==
  ASSUME IInv, NEW a \in Adapters, apc[a] \in {"push", "pushed", "wait"}
  PROVE  <<a, lines_read[a]>> \in Events
BY CollectorAssumption DEF IInv, TypeOK, AdapterTypeOK, LinesInv, Events

\* Every step of the collector is one of the queue, or leaves it alone.
LEMMA QueueStep ==
  ASSUME IInv, [Next]_vars
  PROVE  [Queue!Next]_(Queue!vars)

<1>1. ASSUME NEW a \in Adapters, CheckRunning(a)
      PROVE  [Queue!Next]_(Queue!vars)
  BY <1>1 DEF CheckRunning, queueVars, Queue!vars
<1>2. ASSUME NEW a \in Adapters, Read(a)
      PROVE  [Queue!Next]_(Queue!vars)
  BY <1>2 DEF Read, queueVars, Queue!vars
<1>3. ASSUME NEW a \in Adapters, PollReturns(a)
      PROVE  [Queue!Next]_(Queue!vars)
  BY <1>3 DEF PollReturns, queueVars, Queue!vars
<1>4. ASSUME NEW a \in Adapters, LineParsed(a)
      PROVE  [Queue!Next]_(Queue!vars)
  BY <1>4 DEF LineParsed, queueVars, Queue!vars, Queue!Next, Queue!Threads
<1>5. ASSUME NEW a \in Adapters, LineRefused(a)
      PROVE  [Queue!Next]_(Queue!vars)
  BY <1>5 DEF LineRefused, queueVars, Queue!vars
<1>6. ASSUME NEW a \in Adapters, PushAccepted(a)
      PROVE  [Queue!Next]_(Queue!vars)
  <2>1. Queue!Accept(a, <<a, lines_read[a]>>) /\ <<a, lines_read[a]>> \in Events
    BY <1>6, EventInHand DEF PushAccepted
  <2>2. QED
    BY <2>1 DEF Queue!Next
<1>7. ASSUME NEW a \in Adapters, PushReturns(a)
      PROVE  [Queue!Next]_(Queue!vars)
  BY <1>7 DEF PushReturns, queueVars, Queue!vars, Queue!Next, Queue!Threads
<1>8. ASSUME NEW a \in Adapters, PushRefused(a)
      PROVE  [Queue!Next]_(Queue!vars)
  BY <1>8 DEF PushRefused, queueVars, Queue!vars, Queue!Next, Queue!Threads
<1>9. ASSUME NEW a \in Adapters, Retry(a)
      PROVE  [Queue!Next]_(Queue!vars)
  BY <1>9 DEF Retry, queueVars, Queue!vars, Queue!Next, Queue!Threads
<1>10. ASSUME NEW a \in Adapters, GiveUp(a)
       PROVE  [Queue!Next]_(Queue!vars)
  BY <1>10 DEF GiveUp, queueVars, Queue!vars
<1>11. ASSUME NEW a \in Adapters, WriteLine(a)
       PROVE  [Queue!Next]_(Queue!vars)
  BY <1>11 DEF WriteLine, queueVars, Queue!vars
<1>12. ASSUME NEW a \in Adapters, StartAdapter(a)
       PROVE  [Queue!Next]_(Queue!vars)
  BY <1>12 DEF StartAdapter, queueVars, Queue!vars
<1>13. ASSUME NEW a \in Adapters, StopAdapter(a)
       PROVE  [Queue!Next]_(Queue!vars)
  BY <1>13 DEF StopAdapter, queueVars, Queue!vars
<1>14. CASE HttpStarts
  BY <1>14 DEF HttpStarts, queueVars, Queue!vars
<1>15. CASE HttpFails
  BY <1>15 DEF HttpFails, queueVars, Queue!vars
<1>16. CASE LoopTop
  BY <1>16 DEF LoopTop, queueVars, Queue!vars, Queue!Next, Queue!Threads
<1>17. CASE PopTakes
  BY <1>17 DEF PopTakes, queueVars, Queue!vars, Queue!Next, Queue!Threads
<1>18. CASE PopReceives
  BY <1>18 DEF PopReceives, queueVars, Queue!vars, Queue!Next, Queue!Threads
<1>19. CASE PopReturns
  BY <1>19 DEF PopReturns, queueVars, Queue!vars, Queue!Next, Queue!Threads
<1>20. CASE PopFails
  BY <1>20 DEF PopFails, queueVars, Queue!vars, Queue!Next, Queue!Threads
<1>21. CASE Apply
  BY <1>21 DEF Apply, queueVars, Queue!vars, Queue!Next, Queue!Threads
<1>22. CASE FlushBatch
  BY <1>22 DEF FlushBatch, queueVars, Queue!vars, Queue!Next, Queue!Threads
<1>23. CASE FlushTimer
  BY <1>23 DEF FlushTimer, queueVars, Queue!vars
<1>24. CASE PurgeTimer
  BY <1>24 DEF PurgeTimer, queueVars, Queue!vars
<1>25. CASE NoTimer
  BY <1>25 DEF NoTimer, queueVars, Queue!vars
<1>26. CASE Joined
  BY <1>26 DEF Joined, queueVars, Queue!vars
<1>27. CASE StartDrain
  BY <1>27 DEF StartDrain, queueVars, Queue!vars, Queue!Next, Queue!Threads
<1>28. CASE Finish
  BY <1>28 DEF Finish, queueVars, Queue!vars
<1>29. CASE Fail
  BY <1>29 DEF Fail, queueVars, Queue!vars
<1>30. CASE Signal
  BY <1>30 DEF Signal, queueVars, Queue!vars
<1>31. CASE UNCHANGED vars
  BY <1>31 DEF vars, queueVars, Queue!vars
<1>32. QED
  BY <1>1, <1>2, <1>3, <1>4, <1>5, <1>6, <1>7, <1>8, <1>9, <1>10, <1>11,
     <1>12, <1>13, <1>14, <1>15, <1>16, <1>17, <1>18, <1>19, <1>20, <1>21,
     <1>22, <1>23, <1>24, <1>25, <1>26, <1>27, <1>28, <1>29, <1>30, <1>31
     DEF Next, AdapterStep, MainStep, Terminated

\* The steps of the queue keep its types.
LEMMA QueueTypeStep ==
  ASSUME Queue!TypeOK, [Queue!Next]_(Queue!vars)
  PROVE  Queue!TypeOK'
<1> USE DEF Queue!TypeOK, Queue!Threads, Queue!Results
<1>1. ASSUME NEW t \in Queue!Threads, Queue!Call(t)
      PROVE  Queue!TypeOK'
  BY <1>1 DEF Queue!Call
<1>2. ASSUME NEW t \in Queue!Threads, Queue!Return(t)
      PROVE  Queue!TypeOK'
  BY <1>2 DEF Queue!Return
<1>3. ASSUME NEW p \in Adapters, Queue!Refuse(p)
      PROVE  Queue!TypeOK'
  BY <1>3 DEF Queue!Refuse
<1>4. ASSUME NEW p \in Adapters, NEW v \in Events, Queue!Accept(p, v)
      PROVE  Queue!TypeOK'
  <2>1. items' \in Seq(Events) /\ Len(items') = Len(items) + 1
    BY <1>4 DEF Queue!Accept
  <2>2. slot' \in [Adapters \cup {Main} -> 0 .. Len(items')]
    BY <1>4, <2>1 DEF Queue!Accept
  <2>3. taken' \in 0 .. Len(items')
    BY <1>4, <2>1 DEF Queue!Accept
  <2>4. QED
    BY <1>4, <2>1, <2>2, <2>3 DEF Queue!Accept
<1>5. ASSUME NEW c \in {Main}, Queue!Take(c)
      PROVE  Queue!TypeOK'
  BY <1>5 DEF Queue!Take, Queue!HasFront
<1>6. ASSUME NEW c \in {Main}, Queue!Miss(c)
      PROVE  Queue!TypeOK'
  BY <1>6 DEF Queue!Miss
<1>7. ASSUME NEW c \in {Main}, Queue!Receive(c)
      PROVE  Queue!TypeOK'
  <2>1. items[slot[c]] \in Events
    BY <1>7 DEF Queue!Receive
  <2>2. QED
    BY <1>7, <2>1 DEF Queue!Receive
<1>8. CASE UNCHANGED Queue!vars
  BY <1>8 DEF Queue!vars
<1>9. QED
  BY <1>1, <1>2, <1>3, <1>4, <1>5, <1>6, <1>7, <1>8 DEF Queue!Next

\* The variables of the adapter threads keep their types.
LEMMA AdapterTypeStep ==
  ASSUME AdapterTypeOK, LinesInv, [Next]_vars
  PROVE  AdapterTypeOK'
<1> USE CollectorAssumption DEF AdapterTypeOK, queueVars, adapterVars, storeVars, otherThanAdapter, AdapterGoto, AdapterPc
<1>1. ASSUME NEW a \in Adapters, CheckRunning(a)
      PROVE  AdapterTypeOK'
  BY <1>1 DEF CheckRunning
<1>2. ASSUME NEW a \in Adapters, Read(a)
      PROVE  AdapterTypeOK'
  BY <1>2 DEF Read
<1>3. ASSUME NEW a \in Adapters, PollReturns(a)
      PROVE  AdapterTypeOK'
  BY <1>3 DEF PollReturns
<1>4. ASSUME NEW a \in Adapters, LineParsed(a)
      PROVE  AdapterTypeOK'
  BY <1>4 DEF LineParsed, LinesInv
<1>5. ASSUME NEW a \in Adapters, LineRefused(a)
      PROVE  AdapterTypeOK'
  BY <1>5 DEF LineRefused, LinesInv
<1>6. ASSUME NEW a \in Adapters, PushAccepted(a)
      PROVE  AdapterTypeOK'
  BY <1>6 DEF PushAccepted
<1>7. ASSUME NEW a \in Adapters, PushReturns(a)
      PROVE  AdapterTypeOK'
  BY <1>7 DEF PushReturns
<1>8. ASSUME NEW a \in Adapters, PushRefused(a)
      PROVE  AdapterTypeOK'
  <2>1. CASE apc' = [apc EXCEPT ![a] = "wait"] /\ UNCHANGED dropped
    BY <1>8, <2>1 DEF PushRefused
  <2>2. CASE apc' = [apc EXCEPT ![a] = "line"] /\ dropped' = dropped + 1
    BY <1>8, <2>2 DEF PushRefused
  <2>3. QED
    BY <1>8, <2>1, <2>2 DEF PushRefused
<1>9. ASSUME NEW a \in Adapters, Retry(a)
      PROVE  AdapterTypeOK'
  BY <1>9 DEF Retry, LinesInv
<1>10. ASSUME NEW a \in Adapters, GiveUp(a)
       PROVE  AdapterTypeOK'
  BY <1>10 DEF GiveUp
<1>11. ASSUME NEW a \in Adapters, WriteLine(a)
       PROVE  AdapterTypeOK'
  BY <1>11 DEF WriteLine
<1>12. ASSUME NEW a \in Adapters, StartAdapter(a)
       PROVE  AdapterTypeOK'
  BY <1>12 DEF StartAdapter
<1>13. ASSUME NEW a \in Adapters, StopAdapter(a)
       PROVE  AdapterTypeOK'
  BY <1>13 DEF StopAdapter
<1>14. CASE HttpStarts
  BY <1>14 DEF HttpStarts
<1>15. CASE HttpFails
  BY <1>15 DEF HttpFails
<1>16. CASE LoopTop
  BY <1>16 DEF LoopTop
<1>17. CASE PopTakes
  BY <1>17 DEF PopTakes
<1>18. CASE PopReceives
  BY <1>18 DEF PopReceives
<1>19. CASE PopReturns
  BY <1>19 DEF PopReturns
<1>20. CASE PopFails
  BY <1>20 DEF PopFails
<1>21. CASE Apply
  BY <1>21 DEF Apply
<1>22. CASE FlushBatch
  BY <1>22 DEF FlushBatch
<1>23. CASE FlushTimer
  BY <1>23 DEF FlushTimer
<1>24. CASE PurgeTimer
  BY <1>24 DEF PurgeTimer
<1>25. CASE NoTimer
  BY <1>25 DEF NoTimer
<1>26. CASE Joined
  BY <1>26 DEF Joined
<1>27. CASE StartDrain
  BY <1>27 DEF StartDrain
<1>28. CASE Finish
  BY <1>28 DEF Finish
<1>29. CASE Fail
  BY <1>29 DEF Fail
<1>30. CASE Signal
  BY <1>30 DEF Signal
<1>31. CASE UNCHANGED vars
  BY <1>31 DEF vars
<1>32. QED
  BY <1>1, <1>2, <1>3, <1>4, <1>5, <1>6, <1>7, <1>8, <1>9, <1>10, <1>11,
     <1>12, <1>13, <1>14, <1>15, <1>16, <1>17, <1>18, <1>19, <1>20, <1>21,
     <1>22, <1>23, <1>24, <1>25, <1>26, <1>27, <1>28, <1>29, <1>30, <1>31
     DEF Next, AdapterStep, MainStep, Terminated

\* Each part of the invariant is preserved: the lines in hand,
LEMMA LinesStep ==
  ASSUME AdapterTypeOK, LinesInv, [Next]_vars
  PROVE  LinesInv'
<1> USE CollectorAssumption DEF queueVars, adapterVars, storeVars, otherThanAdapter, AdapterGoto, MainGoto, AdapterTypeOK, LinesInv
<1>1. ASSUME NEW a \in Adapters, CheckRunning(a)
      PROVE  LinesInv'
  BY <1>1 DEF CheckRunning
<1>2. ASSUME NEW a \in Adapters, Read(a)
      PROVE  LinesInv'
  BY <1>2 DEF Read
<1>3. ASSUME NEW a \in Adapters, PollReturns(a)
      PROVE  LinesInv'
  BY <1>3 DEF PollReturns
<1>4. ASSUME NEW a \in Adapters, LineParsed(a)
      PROVE  LinesInv'
  BY <1>4 DEF LineParsed, Queue!Call
<1>5. ASSUME NEW a \in Adapters, LineRefused(a)
      PROVE  LinesInv'
  BY <1>5 DEF LineRefused
<1>6. ASSUME NEW a \in Adapters, PushAccepted(a)
      PROVE  LinesInv'
  BY <1>6 DEF PushAccepted, Queue!Accept
<1>7. ASSUME NEW a \in Adapters, PushReturns(a)
      PROVE  LinesInv'
  BY <1>7 DEF PushReturns, Queue!Return
<1>8. ASSUME NEW a \in Adapters, PushRefused(a)
      PROVE  LinesInv'
  BY <1>8 DEF PushRefused, Queue!Refuse
<1>9. ASSUME NEW a \in Adapters, Retry(a)
      PROVE  LinesInv'
  BY <1>9 DEF Retry, Queue!Call
<1>10. ASSUME NEW a \in Adapters, GiveUp(a)
       PROVE  LinesInv'
  BY <1>10 DEF GiveUp
<1>11. ASSUME NEW a \in Adapters, WriteLine(a)
       PROVE  LinesInv'
  BY <1>11 DEF WriteLine
<1>12. ASSUME NEW a \in Adapters, StartAdapter(a)
       PROVE  LinesInv'
  BY <1>12 DEF StartAdapter
<1>13. ASSUME NEW a \in Adapters, StopAdapter(a)
       PROVE  LinesInv'
  BY <1>13 DEF StopAdapter
<1>14. CASE HttpStarts
  BY <1>14 DEF HttpStarts
<1>15. CASE HttpFails
  BY <1>15 DEF HttpFails
<1>16. CASE LoopTop
  BY <1>16 DEF LoopTop, Queue!Call
<1>17. CASE PopTakes
  BY <1>17 DEF PopTakes, Queue!Take
<1>18. CASE PopReceives
  BY <1>18 DEF PopReceives, Queue!Receive
<1>19. CASE PopReturns
  BY <1>19 DEF PopReturns, Queue!Return
<1>20. CASE PopFails
  BY <1>20 DEF PopFails, Queue!Miss
<1>21. CASE Apply
  BY <1>21 DEF Apply, Queue!Call
<1>22. CASE FlushBatch
  BY <1>22 DEF FlushBatch, Queue!Call, Flush
<1>23. CASE FlushTimer
  BY <1>23 DEF FlushTimer, Flush
<1>24. CASE PurgeTimer
  BY <1>24 DEF PurgeTimer, Flush
<1>25. CASE NoTimer
  BY <1>25 DEF NoTimer
<1>26. CASE Joined
  BY <1>26 DEF Joined
<1>27. CASE StartDrain
  BY <1>27 DEF StartDrain, Queue!Call
<1>28. CASE Finish
  BY <1>28 DEF Finish, Flush
<1>29. CASE Fail
  BY <1>29 DEF Fail
<1>30. CASE Signal
  BY <1>30 DEF Signal
<1>31. CASE UNCHANGED vars
  BY <1>31 DEF vars
<1>32. QED
  BY <1>1, <1>2, <1>3, <1>4, <1>5, <1>6, <1>7, <1>8, <1>9, <1>10, <1>11,
     <1>12, <1>13, <1>14, <1>15, <1>16, <1>17, <1>18, <1>19, <1>20, <1>21,
     <1>22, <1>23, <1>24, <1>25, <1>26, <1>27, <1>28, <1>29, <1>30, <1>31
     DEF Next, AdapterStep, MainStep, Terminated

\* the places of the threads,
LEMMA ThreadsStep ==
  ASSUME AdapterTypeOK, MainTypeOK, ThreadsInv, [Next]_vars
  PROVE  ThreadsInv'
<1> USE CollectorAssumption DEF queueVars, adapterVars, storeVars, otherThanAdapter, AdapterGoto, MainGoto, AdapterTypeOK, MainTypeOK, MainPc, ThreadsInv
<1>1. ASSUME NEW a \in Adapters, CheckRunning(a)
      PROVE  ThreadsInv'
  BY <1>1 DEF CheckRunning
<1>2. ASSUME NEW a \in Adapters, Read(a)
      PROVE  ThreadsInv'
  BY <1>2 DEF Read
<1>3. ASSUME NEW a \in Adapters, PollReturns(a)
      PROVE  ThreadsInv'
  BY <1>3 DEF PollReturns
<1>4. ASSUME NEW a \in Adapters, LineParsed(a)
      PROVE  ThreadsInv'
  BY <1>4 DEF LineParsed, Queue!Call
<1>5. ASSUME NEW a \in Adapters, LineRefused(a)
      PROVE  ThreadsInv'
  BY <1>5 DEF LineRefused
<1>6. ASSUME NEW a \in Adapters, PushAccepted(a)
      PROVE  ThreadsInv'
  BY <1>6 DEF PushAccepted, Queue!Accept
<1>7. ASSUME NEW a \in Adapters, PushReturns(a)
      PROVE  ThreadsInv'
  BY <1>7 DEF PushReturns, Queue!Return
<1>8. ASSUME NEW a \in Adapters, PushRefused(a)
      PROVE  ThreadsInv'
  BY <1>8 DEF PushRefused, Queue!Refuse
<1>9. ASSUME NEW a \in Adapters, Retry(a)
      PROVE  ThreadsInv'
  BY <1>9 DEF Retry, Queue!Call
<1>10. ASSUME NEW a \in Adapters, GiveUp(a)
       PROVE  ThreadsInv'
  BY <1>10 DEF GiveUp
<1>11. ASSUME NEW a \in Adapters, WriteLine(a)
       PROVE  ThreadsInv'
  BY <1>11 DEF WriteLine
<1>12. ASSUME NEW a \in Adapters, StartAdapter(a)
       PROVE  ThreadsInv'
  BY <1>12 DEF StartAdapter
<1>13. ASSUME NEW a \in Adapters, StopAdapter(a)
       PROVE  ThreadsInv'
  BY <1>13 DEF StopAdapter
<1>14. CASE HttpStarts
  BY <1>14 DEF HttpStarts, AllStarted
<1>15. CASE HttpFails
  BY <1>15 DEF HttpFails, AllStarted
<1>16. CASE LoopTop
  BY <1>16 DEF LoopTop, Queue!Call
<1>17. CASE PopTakes
  BY <1>17 DEF PopTakes, Queue!Take
<1>18. CASE PopReceives
  BY <1>18 DEF PopReceives, Queue!Receive
<1>19. CASE PopReturns
  BY <1>19 DEF PopReturns, Queue!Return
<1>20. CASE PopFails
  BY <1>20 DEF PopFails, Queue!Miss
<1>21. CASE Apply
  BY <1>21 DEF Apply, Queue!Call
<1>22. CASE FlushBatch
  BY <1>22 DEF FlushBatch, Queue!Call, Flush
<1>23. CASE FlushTimer
  BY <1>23 DEF FlushTimer, Flush
<1>24. CASE PurgeTimer
  BY <1>24 DEF PurgeTimer, Flush
<1>25. CASE NoTimer
  BY <1>25 DEF NoTimer
<1>26. CASE Joined
  BY <1>26 DEF Joined
<1>27. CASE StartDrain
  BY <1>27 DEF StartDrain, Queue!Call, NoneRunning
<1>28. CASE Finish
  BY <1>28 DEF Finish, Flush
<1>29. CASE Fail
  BY <1>29 DEF Fail
<1>30. CASE Signal
  BY <1>30 DEF Signal
<1>31. CASE UNCHANGED vars
  BY <1>31 DEF vars
<1>32. QED
  BY <1>1, <1>2, <1>3, <1>4, <1>5, <1>6, <1>7, <1>8, <1>9, <1>10, <1>11,
     <1>12, <1>13, <1>14, <1>15, <1>16, <1>17, <1>18, <1>19, <1>20, <1>21,
     <1>22, <1>23, <1>24, <1>25, <1>26, <1>27, <1>28, <1>29, <1>30, <1>31
     DEF Next, AdapterStep, MainStep, Terminated

\* the slots of the queue they hold,
LEMMA SlotsStep ==
  ASSUME TypeOK, SlotsInv, [Next]_vars
  PROVE  SlotsInv'
<1> USE CollectorAssumption DEF queueVars, adapterVars, storeVars, otherThanAdapter, AdapterGoto, MainGoto, TypeOK, AdapterTypeOK, Queue!TypeOK, Queue!Threads, SlotsInv
<1>1. ASSUME NEW a \in Adapters, CheckRunning(a)
      PROVE  SlotsInv'
  BY <1>1 DEF CheckRunning
<1>2. ASSUME NEW a \in Adapters, Read(a)
      PROVE  SlotsInv'
  BY <1>2 DEF Read
<1>3. ASSUME NEW a \in Adapters, PollReturns(a)
      PROVE  SlotsInv'
  BY <1>3 DEF PollReturns
<1>4. ASSUME NEW a \in Adapters, LineParsed(a)
      PROVE  SlotsInv'
  BY <1>4 DEF LineParsed, Queue!Call
<1>5. ASSUME NEW a \in Adapters, LineRefused(a)
      PROVE  SlotsInv'
  BY <1>5 DEF LineRefused
<1>6. ASSUME NEW a \in Adapters, PushAccepted(a)
      PROVE  SlotsInv'
  BY <1>6 DEF PushAccepted, Queue!Accept, Queue!HasRoom, Queue!Emptied
<1>7. ASSUME NEW a \in Adapters, PushReturns(a)
      PROVE  SlotsInv'
  BY <1>7 DEF PushReturns, Queue!Return
<1>8. ASSUME NEW a \in Adapters, PushRefused(a)
      PROVE  SlotsInv'
  BY <1>8 DEF PushRefused, Queue!Refuse
<1>9. ASSUME NEW a \in Adapters, Retry(a)
      PROVE  SlotsInv'
  BY <1>9 DEF Retry, Queue!Call
<1>10. ASSUME NEW a \in Adapters, GiveUp(a)
       PROVE  SlotsInv'
  BY <1>10 DEF GiveUp
<1>11. ASSUME NEW a \in Adapters, WriteLine(a)
       PROVE  SlotsInv'
  BY <1>11 DEF WriteLine
<1>12. ASSUME NEW a \in Adapters, StartAdapter(a)
       PROVE  SlotsInv'
  BY <1>12 DEF StartAdapter
<1>13. ASSUME NEW a \in Adapters, StopAdapter(a)
       PROVE  SlotsInv'
  BY <1>13 DEF StopAdapter
<1>14. CASE HttpStarts
  BY <1>14 DEF HttpStarts
<1>15. CASE HttpFails
  BY <1>15 DEF HttpFails
<1>16. CASE LoopTop
  BY <1>16 DEF LoopTop, Queue!Call
<1>17. CASE PopTakes
  BY <1>17 DEF PopTakes, Queue!Take
<1>18. CASE PopReceives
  BY <1>18 DEF PopReceives, Queue!Receive
<1>19. CASE PopReturns
  BY <1>19 DEF PopReturns, Queue!Return
<1>20. CASE PopFails
  BY <1>20 DEF PopFails, Queue!Miss
<1>21. CASE Apply
  BY <1>21 DEF Apply, Queue!Call
<1>22. CASE FlushBatch
  BY <1>22 DEF FlushBatch, Queue!Call, Flush
<1>23. CASE FlushTimer
  BY <1>23 DEF FlushTimer, Flush
<1>24. CASE PurgeTimer
  BY <1>24 DEF PurgeTimer, Flush
<1>25. CASE NoTimer
  BY <1>25 DEF NoTimer
<1>26. CASE Joined
  BY <1>26 DEF Joined
<1>27. CASE StartDrain
  BY <1>27 DEF StartDrain, Queue!Call
<1>28. CASE Finish
  BY <1>28 DEF Finish, Flush
<1>29. CASE Fail
  BY <1>29 DEF Fail
<1>30. CASE Signal
  BY <1>30 DEF Signal
<1>31. CASE UNCHANGED vars
  BY <1>31 DEF vars
<1>32. QED
  BY <1>1, <1>2, <1>3, <1>4, <1>5, <1>6, <1>7, <1>8, <1>9, <1>10, <1>11,
     <1>12, <1>13, <1>14, <1>15, <1>16, <1>17, <1>18, <1>19, <1>20, <1>21,
     <1>22, <1>23, <1>24, <1>25, <1>26, <1>27, <1>28, <1>29, <1>30, <1>31
     DEF Next, AdapterStep, MainStep, Terminated

\* Appending to the second of two sequences appends to both.
LEMMA AppendConcat ==
  ASSUME NEW S, NEW r \in Seq(S), NEW s \in Seq(S), NEW e \in S
  PROVE  r \o Append(s, e) = Append(r \o s, e)
<1>1. r \o s \in Seq(S) /\ <<e>> \in Seq(S)
  BY ConcatProperties
<1>2. (r \o s) \o <<e>> = r \o (s \o <<e>>)
  BY <1>1, ConcatAssociative
<1>3. QED
  BY <1>1, <1>2, AppendIsConcat

\* the order of the queue,
LEMMA OrderStep ==
  ASSUME TypeOK, LinesInv, OrderInv, [Next]_vars
  PROVE  OrderInv'
<1>0. /\ items \in Seq(Events) /\ AdapterTypeOK
      /\ \A i \in 1 .. Len(items) : items[i][1] \in Adapters /\ items[i][2] \in Nat
  BY DEF TypeOK, Queue!TypeOK, Events
<1> USE <1>0, CollectorAssumption DEF queueVars, adapterVars, storeVars, otherThanAdapter, AdapterGoto, MainGoto, AdapterTypeOK, OrderInv, LinesInv
<1>1. ASSUME NEW a \in Adapters, CheckRunning(a)
      PROVE  OrderInv'
  BY <1>1 DEF CheckRunning
<1>2. ASSUME NEW a \in Adapters, Read(a)
      PROVE  OrderInv'
  BY <1>2 DEF Read
<1>3. ASSUME NEW a \in Adapters, PollReturns(a)
      PROVE  OrderInv'
  BY <1>3 DEF PollReturns
<1>4. ASSUME NEW a \in Adapters, LineParsed(a)
      PROVE  OrderInv'
  <2>1. /\ items' = items /\ apc[a] = "line"
        /\ lines_read' = [lines_read EXCEPT ![a] = @ + 1]
        /\ apc' = [apc EXCEPT ![a] = "push"]
    BY <1>4 DEF LineParsed, Queue!Call
  <2>2. ASSUME NEW i \in 1 .. Len(items)
        PROVE  /\ items'[i][2] <= lines_read'[items'[i][1]]
               /\ apc'[items'[i][1]] \in {"push", "wait"} =>
                    items'[i][2] < lines_read'[items'[i][1]]
    <3>1. items[i][1] \in Adapters /\ items[i][2] \in Nat /\ lines_read[items[i][1]] \in Nat
      OBVIOUS
    <3>2. items[i][2] <= lines_read[items[i][1]]
      OBVIOUS
    <3>3. CASE items[i][1] = a
      BY <2>1, <3>1, <3>2, <3>3
    <3>4. CASE items[i][1] # a
      BY <2>1, <3>1, <3>2, <3>4
    <3>5. QED
      BY <3>3, <3>4
  <2>3. QED
    BY <2>1, <2>2
<1>5. ASSUME NEW a \in Adapters, LineRefused(a)
      PROVE  OrderInv'
  <2>1. /\ UNCHANGED <<items, apc>> /\ apc[a] = "line"
        /\ lines_read' = [lines_read EXCEPT ![a] = @ + 1]
    BY <1>5 DEF LineRefused
  <2>2. /\ lines_read[a] \in Nat /\ lines_read'[a] = lines_read[a] + 1
        /\ \A x \in Adapters : x # a => lines_read'[x] = lines_read[x]
    BY <2>1
  <2>3. ASSUME NEW i \in 1 .. Len(items)
        PROVE  items[i][2] <= lines_read'[items[i][1]]
    <3>1. items[i][2] <= lines_read[items[i][1]] /\ items[i][2] \in Nat
      OBVIOUS
    <3>2. CASE items[i][1] = a
      BY <2>2, <3>1, <3>2
    <3>3. CASE items[i][1] # a
      BY <2>2, <3>1, <3>3
    <3>4. QED
      BY <3>2, <3>3
  <2>4. ASSUME NEW i \in 1 .. Len(items), apc[items[i][1]] \in {"push", "wait"}
        PROVE  items[i][2] < lines_read'[items[i][1]]
    <3>1. items[i][1] # a
      BY <2>1, <2>4
    <3>2. QED
      BY <2>2, <2>4, <3>1
  <2>5. QED
    BY <2>1, <2>3, <2>4
<1>6. ASSUME NEW a \in Adapters, PushAccepted(a)
      PROVE  OrderInv'
  <2>1. /\ items' = Append(items, <<a, lines_read[a]>>) /\ apc[a] = "push"
        /\ apc' = [apc EXCEPT ![a] = "pushed"] /\ UNCHANGED lines_read
    BY <1>6 DEF PushAccepted, Queue!Accept
  <2> DEFINE n == Len(items)
  <2>2. /\ n \in Nat /\ Len(items') = n + 1
        /\ items'[n + 1] = <<a, lines_read[a]>>
        /\ items'[n + 1][1] = a /\ items'[n + 1][2] = lines_read[a]
        /\ \A i \in 1 .. n : items'[i] = items[i]
    BY <2>1
  <2>3. \A i \in 1 .. n : items[i][1] = a => items[i][2] < lines_read[a]
    BY <2>1
  <2>4. ASSUME NEW i \in 1 .. n + 1, NEW j \in 1 .. n + 1,
               i < j, items'[i][1] = items'[j][1]
        PROVE  items'[i][2] < items'[j][2]
    <3>1. i \in 1 .. n /\ items'[i] = items[i]
      BY <2>2, <2>4
    <3>2. CASE j = n + 1
      <4>1. items[i][1] = a /\ items'[j][2] = lines_read[a]
        BY <2>2, <2>4, <3>1, <3>2
      <4>2. QED
        BY <2>3, <3>1, <4>1
    <3>3. CASE j \in 1 .. n
      <4>1. items'[j] = items[j]
        BY <2>2, <3>3
      <4>2. items[i][1] = items[j][1]
        BY <2>4, <3>1, <4>1
      <4>3. items[i][2] < items[j][2]
        BY <2>4, <3>1, <3>3, <4>2
      <4>4. QED
        BY <3>1, <4>1, <4>3
    <3>4. j = n + 1 \/ j \in 1 .. n
      BY <2>2
    <3>5. QED
      BY <3>2, <3>3, <3>4
  <2>5. ASSUME NEW i \in 1 .. n + 1
        PROVE  /\ items'[i][2] <= lines_read'[items'[i][1]]
               /\ apc'[items'[i][1]] \in {"push", "wait"} =>
                    items'[i][2] < lines_read'[items'[i][1]]
    <3>1. CASE i = n + 1
      BY <2>1, <2>2, <3>1
    <3>2. CASE i \in 1 .. n
      BY <2>1, <2>2, <3>2
    <3>3. QED
      BY <2>2, <3>1, <3>2
  <2>6. QED
    BY <2>2, <2>4, <2>5
<1>7. ASSUME NEW a \in Adapters, PushReturns(a)
      PROVE  OrderInv'
  BY <1>7 DEF PushReturns, Queue!Return
<1>8. ASSUME NEW a \in Adapters, PushRefused(a)
      PROVE  OrderInv'
  BY <1>8 DEF PushRefused, Queue!Refuse
<1>9. ASSUME NEW a \in Adapters, Retry(a)
      PROVE  OrderInv'
  <2>1. UNCHANGED <<items, lines_read>> /\ apc[a] = "wait"
    BY <1>9 DEF Retry, Queue!Call
  <2>2. apc' = [apc EXCEPT ![a] = "push"]
    BY <1>9 DEF Retry
  <2>3. \A b \in Adapters : apc'[b] \in {"push", "wait"} => apc[b] \in {"push", "wait"}
    BY <2>1, <2>2
  <2>4. QED
    BY <2>1, <2>3
<1>10. ASSUME NEW a \in Adapters, GiveUp(a)
       PROVE  OrderInv'
  BY <1>10 DEF GiveUp
<1>11. ASSUME NEW a \in Adapters, WriteLine(a)
       PROVE  OrderInv'
  BY <1>11 DEF WriteLine
<1>12. ASSUME NEW a \in Adapters, StartAdapter(a)
       PROVE  OrderInv'
  BY <1>12 DEF StartAdapter
<1>13. ASSUME NEW a \in Adapters, StopAdapter(a)
       PROVE  OrderInv'
  BY <1>13 DEF StopAdapter
<1>14. CASE HttpStarts
  BY <1>14 DEF HttpStarts
<1>15. CASE HttpFails
  BY <1>15 DEF HttpFails
<1>16. CASE LoopTop
  BY <1>16 DEF LoopTop, Queue!Call
<1>17. CASE PopTakes
  BY <1>17 DEF PopTakes, Queue!Take
<1>18. CASE PopReceives
  BY <1>18 DEF PopReceives, Queue!Receive
<1>19. CASE PopReturns
  BY <1>19 DEF PopReturns, Queue!Return
<1>20. CASE PopFails
  BY <1>20 DEF PopFails, Queue!Miss
<1>21. CASE Apply
  BY <1>21 DEF Apply, Queue!Call
<1>22. CASE FlushBatch
  BY <1>22 DEF FlushBatch, Queue!Call, Flush
<1>23. CASE FlushTimer
  BY <1>23 DEF FlushTimer, Flush
<1>24. CASE PurgeTimer
  BY <1>24 DEF PurgeTimer, Flush
<1>25. CASE NoTimer
  BY <1>25 DEF NoTimer
<1>26. CASE Joined
  BY <1>26 DEF Joined
<1>27. CASE StartDrain
  BY <1>27 DEF StartDrain, Queue!Call
<1>28. CASE Finish
  BY <1>28 DEF Finish, Flush
<1>29. CASE Fail
  BY <1>29 DEF Fail
<1>30. CASE Signal
  BY <1>30 DEF Signal
<1>31. CASE UNCHANGED vars
  BY <1>31 DEF vars
<1>32. QED
  BY <1>1, <1>2, <1>3, <1>4, <1>5, <1>6, <1>7, <1>8, <1>9, <1>10, <1>11,
     <1>12, <1>13, <1>14, <1>15, <1>16, <1>17, <1>18, <1>19, <1>20, <1>21,
     <1>22, <1>23, <1>24, <1>25, <1>26, <1>27, <1>28, <1>29, <1>30, <1>31
     DEF Next, AdapterStep, MainStep, Terminated

\* what was applied of it,
LEMMA AppliedStep ==
  ASSUME TypeOK, SlotsInv, AppliedInv, [Next]_vars
  PROVE  AppliedInv'
<1> USE CollectorAssumption DEF queueVars, adapterVars, storeVars, otherThanAdapter, AdapterGoto, MainGoto, TypeOK, AdapterTypeOK, MainTypeOK, Queue!TypeOK, Queue!Threads, SlotsInv, AppliedInv, Holding
<1>1. ASSUME NEW a \in Adapters, CheckRunning(a)
      PROVE  AppliedInv'
  BY <1>1 DEF CheckRunning
<1>2. ASSUME NEW a \in Adapters, Read(a)
      PROVE  AppliedInv'
  BY <1>2 DEF Read
<1>3. ASSUME NEW a \in Adapters, PollReturns(a)
      PROVE  AppliedInv'
  BY <1>3 DEF PollReturns
<1>4. ASSUME NEW a \in Adapters, LineParsed(a)
      PROVE  AppliedInv'
  BY <1>4 DEF LineParsed, Queue!Call
<1>5. ASSUME NEW a \in Adapters, LineRefused(a)
      PROVE  AppliedInv'
  BY <1>5 DEF LineRefused
<1>6. ASSUME NEW a \in Adapters, PushAccepted(a)
      PROVE  AppliedInv'
  <2>1. /\ items' = Append(items, <<a, lines_read[a]>>)
        /\ UNCHANGED <<taken, applied, mpc, out>> /\ slot'[Main] = slot[Main]
    BY <1>6 DEF PushAccepted, Queue!Accept
  <2>2. \A i \in 1 .. Len(items) : items'[i] = items[i]
    BY <2>1
  <2>3. Len(applied) \in Nat /\ Len(items) \in Nat /\ taken \in Nat /\ taken <= Len(items)
    BY SMTT(30)
  <2>4. Len(applied) <= Len(items) /\ (Holding => taken \in 1 .. Len(items))
    BY SMTT(30), <2>3
  <2>5. Holding' = Holding
    BY <2>1
  <2>6. mpc \in {"apply", "drain_apply"} => Holding
    OBVIOUS
  <2> HIDE DEF Holding
  <2>7. taken' = Len(applied') + IF Holding' THEN 1 ELSE 0
    BY <2>1, <2>5
  <2>8. \A i \in 1 .. Len(applied') : applied'[i] = items'[i]
    <3>1. \A i \in 1 .. Len(applied) : applied[i] = items[i]
      OBVIOUS
    <3>2. 1 .. Len(applied) \subseteq 1 .. Len(items) /\ applied' = applied
      BY <2>1, <2>3, <2>4
    <3>3. QED
      BY <2>2, <3>1, <3>2, Zenon
  <2>9. mpc' \in {"apply", "drain_apply"} => out'[Main] = items'[taken']
    BY <2>1, <2>2, <2>4, <2>6
  <2>10. QED
    BY <2>7, <2>8, <2>9
<1>7. ASSUME NEW a \in Adapters, PushReturns(a)
      PROVE  AppliedInv'
  BY <1>7 DEF PushReturns, Queue!Return
<1>8. ASSUME NEW a \in Adapters, PushRefused(a)
      PROVE  AppliedInv'
  BY <1>8 DEF PushRefused, Queue!Refuse
<1>9. ASSUME NEW a \in Adapters, Retry(a)
      PROVE  AppliedInv'
  BY <1>9 DEF Retry, Queue!Call
<1>10. ASSUME NEW a \in Adapters, GiveUp(a)
       PROVE  AppliedInv'
  BY <1>10 DEF GiveUp
<1>11. ASSUME NEW a \in Adapters, WriteLine(a)
       PROVE  AppliedInv'
  BY <1>11 DEF WriteLine
<1>12. ASSUME NEW a \in Adapters, StartAdapter(a)
       PROVE  AppliedInv'
  BY <1>12 DEF StartAdapter
<1>13. ASSUME NEW a \in Adapters, StopAdapter(a)
       PROVE  AppliedInv'
  BY <1>13 DEF StopAdapter
<1>14. CASE HttpStarts
  BY <1>14 DEF HttpStarts
<1>15. CASE HttpFails
  BY <1>15 DEF HttpFails
<1>16. CASE LoopTop
  BY <1>16 DEF LoopTop, Queue!Call
<1>17. CASE PopTakes
  BY <1>17 DEF PopTakes, Queue!Take
<1>18. CASE PopReceives
  BY <1>18 DEF PopReceives, Queue!Receive
<1>19. CASE PopReturns
  BY <1>19 DEF PopReturns, Queue!Return
<1>20. CASE PopFails
  BY <1>20 DEF PopFails, Queue!Miss
<1>21. CASE Apply
  BY SMTT(30), <1>21 DEF Apply, Queue!Call
<1>22. CASE FlushBatch
  BY <1>22 DEF FlushBatch, Queue!Call, Flush
<1>23. CASE FlushTimer
  BY <1>23 DEF FlushTimer, Flush
<1>24. CASE PurgeTimer
  BY <1>24 DEF PurgeTimer, Flush
<1>25. CASE NoTimer
  BY <1>25 DEF NoTimer
<1>26. CASE Joined
  BY <1>26 DEF Joined
<1>27. CASE StartDrain
  BY <1>27 DEF StartDrain, Queue!Call
<1>28. CASE Finish
  BY <1>28 DEF Finish, Flush
<1>29. CASE Fail
  BY <1>29 DEF Fail
<1>30. CASE Signal
  BY <1>30 DEF Signal
<1>31. CASE UNCHANGED vars
  BY <1>31 DEF vars
<1>32. QED
  BY <1>1, <1>2, <1>3, <1>4, <1>5, <1>6, <1>7, <1>8, <1>9, <1>10, <1>11,
     <1>12, <1>13, <1>14, <1>15, <1>16, <1>17, <1>18, <1>19, <1>20, <1>21,
     <1>22, <1>23, <1>24, <1>25, <1>26, <1>27, <1>28, <1>29, <1>30, <1>31
     DEF Next, AdapterStep, MainStep, Terminated

\* what was staged and committed,
LEMMA RowsStep ==
  ASSUME TypeOK, ThreadsInv, SlotsInv, AppliedInv, StoreInv, [Next]_vars
  PROVE  StoreInv'
<1>0. Batch \in Nat /\ Batch >= 1 /\ (BatchSize >= 1 => Batch = BatchSize)
  BY CollectorAssumption DEF Batch
<1> USE CollectorAssumption DEF queueVars, adapterVars, storeVars, otherThanAdapter, AdapterGoto, MainGoto, TypeOK, AdapterTypeOK, MainTypeOK, MainPc, Queue!TypeOK, ThreadsInv, SlotsInv, AppliedInv, Holding, StoreInv
<1>1. ASSUME NEW a \in Adapters, CheckRunning(a)
      PROVE  StoreInv'
  BY <1>1 DEF CheckRunning
<1>2. ASSUME NEW a \in Adapters, Read(a)
      PROVE  StoreInv'
  BY <1>2 DEF Read
<1>3. ASSUME NEW a \in Adapters, PollReturns(a)
      PROVE  StoreInv'
  BY <1>3 DEF PollReturns
<1>4. ASSUME NEW a \in Adapters, LineParsed(a)
      PROVE  StoreInv'
  BY <1>4 DEF LineParsed, Queue!Call
<1>5. ASSUME NEW a \in Adapters, LineRefused(a)
      PROVE  StoreInv'
  BY <1>5 DEF LineRefused
<1>6. ASSUME NEW a \in Adapters, PushAccepted(a)
      PROVE  StoreInv'
  BY <1>6 DEF PushAccepted, Queue!Accept
<1>7. ASSUME NEW a \in Adapters, PushReturns(a)
      PROVE  StoreInv'
  BY <1>7 DEF PushReturns, Queue!Return
<1>8. ASSUME NEW a \in Adapters, PushRefused(a)
      PROVE  StoreInv'
  BY <1>8 DEF PushRefused, Queue!Refuse
<1>9. ASSUME NEW a \in Adapters, Retry(a)
      PROVE  StoreInv'
  BY <1>9 DEF Retry, Queue!Call
<1>10. ASSUME NEW a \in Adapters, GiveUp(a)
       PROVE  StoreInv'
  BY <1>10 DEF GiveUp
<1>11. ASSUME NEW a \in Adapters, WriteLine(a)
       PROVE  StoreInv'
  BY <1>11 DEF WriteLine
<1>12. ASSUME NEW a \in Adapters, StartAdapter(a)
       PROVE  StoreInv'
  BY <1>12 DEF StartAdapter
<1>13. ASSUME NEW a \in Adapters, StopAdapter(a)
       PROVE  StoreInv'
  BY <1>13 DEF StopAdapter
<1>14. CASE HttpStarts
  BY <1>14 DEF HttpStarts
<1>15. CASE HttpFails
  BY <1>15 DEF HttpFails
<1>16. CASE LoopTop
  BY <1>16 DEF LoopTop, Queue!Call
<1>17. CASE PopTakes
  BY <1>17 DEF PopTakes, Queue!Take
<1>18. CASE PopReceives
  BY <1>18 DEF PopReceives, Queue!Receive
<1>19. CASE PopReturns
  BY <1>19 DEF PopReturns, Queue!Return
<1>20. CASE PopFails
  BY <1>20 DEF PopFails, Queue!Miss
<1>21. CASE Apply
  <2>1. /\ applied' = Append(applied, out[Main]) /\ staged' = Append(staged, out[Main])
        /\ UNCHANGED <<items, rows, write_errors>>
    BY <1>21 DEF Apply, Queue!Call
  <2>2. out[Main] \in Events
    BY <1>21 DEF Apply
  <2>3. write_errors' = 0 => rows' \o staged' = applied'
    <3>1. rows \o Append(staged, out[Main]) = Append(rows \o staged, out[Main])
      BY SMTT(30), <2>2, AppendConcat
    <3>2. QED
      BY <2>1, <3>1
  <2>4. Len(staged') = Len(staged) + 1 /\ Len(applied') = Len(applied) + 1
    BY <2>1, <2>2
  <2>5. CASE mpc = "apply" /\ mpc' = "flush"
    <3>1. Len(staged) < Batch /\ Len(staged) \in Nat
      BY <2>5
    <3>2. Len(staged') <= Batch
      BY <1>0, <2>4, <3>1
    <3>3. QED
      BY <2>3, <2>5, <3>2
  <2>6. CASE mpc = "apply" /\ Len(staged') < BatchSize /\ mpc' = "pop"
    BY SMTT(30), <1>0, <2>1, <2>3, <2>4, <2>6
  <2>7. CASE mpc = "drain_apply" /\ mpc' = "drain"
    <3>1. Len(staged) + (Len(items) - Len(applied)) < Batch + Capacity
      BY <2>7
    <3>2. Len(staged') + (Len(items') - Len(applied')) < Batch + Capacity
      BY <1>0, <2>1, <2>4, <3>1
    <3>3. QED
      BY <2>3, <2>7, <3>2
  <2>8. QED
    BY <1>21, <2>5, <2>6, <2>7 DEF Apply
<1>22. CASE FlushBatch
  <2>1. staged' = << >> /\ rows' \in Seq(Events) /\ (write_errors' = 0 => write_errors = 0 /\ rows' = rows \o staged)
    BY <1>22, FlushFacts DEF FlushBatch
  <2>2. UNCHANGED <<items, applied>>
    BY <1>22 DEF FlushBatch, Queue!Call
  <2>3. write_errors' = 0 => rows' \o staged' = applied'
    <3>1. rows' \o << >> = rows'
      BY <2>1, ConcatEmptySeq
    <3>2. QED
      BY <2>1, <2>2, <3>1
  <2>4. QED
    BY <1>22, <1>0, <2>1, <2>2, <2>3 DEF FlushBatch
<1>23. CASE FlushTimer
  <2>1. staged' = << >> /\ rows' \in Seq(Events) /\ (write_errors' = 0 => write_errors = 0 /\ rows' = rows \o staged)
    BY <1>23, FlushFacts DEF FlushTimer
  <2>2. UNCHANGED <<items, applied>>
    BY <1>23 DEF FlushTimer
  <2>3. write_errors' = 0 => rows' \o staged' = applied'
    <3>1. rows' \o << >> = rows'
      BY <2>1, ConcatEmptySeq
    <3>2. QED
      BY <2>1, <2>2, <3>1
  <2>4. QED
    BY <1>23, <1>0, <2>1, <2>2, <2>3 DEF FlushTimer
<1>24. CASE PurgeTimer
  <2>1. staged' = << >> /\ rows' \in Seq(Events) /\ (write_errors' = 0 => write_errors = 0 /\ rows' = rows \o staged)
    BY <1>24, FlushFacts DEF PurgeTimer
  <2>2. UNCHANGED <<items, applied>>
    BY <1>24 DEF PurgeTimer
  <2>3. write_errors' = 0 => rows' \o staged' = applied'
    <3>1. rows' \o << >> = rows'
      BY <2>1, ConcatEmptySeq
    <3>2. QED
      BY <2>1, <2>2, <3>1
  <2>4. QED
    BY <1>24, <1>0, <2>1, <2>2, <2>3 DEF PurgeTimer
<1>25. CASE NoTimer
  BY <1>25 DEF NoTimer
<1>26. CASE Joined
  BY <1>26 DEF Joined
<1>27. CASE StartDrain
  <2>1. UNCHANGED <<items, staged, applied, rows, write_errors>> /\ mpc = "stop" /\ mpc' = "drain"
    BY <1>27 DEF StartDrain, Queue!Call
  <2>2. Len(applied) = taken
    BY <2>1
  <2>3. Len(staged) < Batch /\ Len(items) <= taken + Capacity
    BY <2>1
  <2>4. QED
    BY <1>0, <2>1, <2>2, <2>3
<1>28. CASE Finish
  <2>1. staged' = << >> /\ rows' \in Seq(Events) /\ (write_errors' = 0 => write_errors = 0 /\ rows' = rows \o staged)
    BY <1>28, FlushFacts DEF Finish
  <2>2. UNCHANGED <<items, applied>>
    BY <1>28 DEF Finish
  <2>3. write_errors' = 0 => rows' \o staged' = applied'
    <3>1. rows' \o << >> = rows'
      BY <2>1, ConcatEmptySeq
    <3>2. QED
      BY <2>1, <2>2, <3>1
  <2>4. QED
    BY <1>28, <1>0, <2>1, <2>2, <2>3 DEF Finish
<1>29. CASE Fail
  BY <1>29 DEF Fail
<1>30. CASE Signal
  BY <1>30 DEF Signal
<1>31. CASE UNCHANGED vars
  BY <1>31 DEF vars
<1>32. QED
  BY <1>1, <1>2, <1>3, <1>4, <1>5, <1>6, <1>7, <1>8, <1>9, <1>10, <1>11,
     <1>12, <1>13, <1>14, <1>15, <1>16, <1>17, <1>18, <1>19, <1>20, <1>21,
     <1>22, <1>23, <1>24, <1>25, <1>26, <1>27, <1>28, <1>29, <1>30, <1>31
     DEF Next, AdapterStep, MainStep, Terminated

\* and what is left after the drain.
LEMMA DrainedStep ==
  ASSUME TypeOK, ThreadsInv, SlotsInv, AppliedInv, DrainedInv, [Next]_vars
  PROVE  DrainedInv'
<1> USE CollectorAssumption DEF queueVars, adapterVars, storeVars, otherThanAdapter, AdapterGoto, MainGoto, TypeOK, AdapterTypeOK, MainTypeOK, Queue!TypeOK, ThreadsInv, SlotsInv, AppliedInv, Holding, DrainedInv
<1>1. ASSUME NEW a \in Adapters, CheckRunning(a)
      PROVE  DrainedInv'
  BY <1>1 DEF CheckRunning
<1>2. ASSUME NEW a \in Adapters, Read(a)
      PROVE  DrainedInv'
  BY <1>2 DEF Read
<1>3. ASSUME NEW a \in Adapters, PollReturns(a)
      PROVE  DrainedInv'
  BY <1>3 DEF PollReturns
<1>4. ASSUME NEW a \in Adapters, LineParsed(a)
      PROVE  DrainedInv'
  BY <1>4 DEF LineParsed, Queue!Call
<1>5. ASSUME NEW a \in Adapters, LineRefused(a)
      PROVE  DrainedInv'
  BY <1>5 DEF LineRefused
<1>6. ASSUME NEW a \in Adapters, PushAccepted(a)
      PROVE  DrainedInv'
  BY <1>6 DEF PushAccepted, Queue!Accept
<1>7. ASSUME NEW a \in Adapters, PushReturns(a)
      PROVE  DrainedInv'
  BY <1>7 DEF PushReturns, Queue!Return
<1>8. ASSUME NEW a \in Adapters, PushRefused(a)
      PROVE  DrainedInv'
  BY <1>8 DEF PushRefused, Queue!Refuse
<1>9. ASSUME NEW a \in Adapters, Retry(a)
      PROVE  DrainedInv'
  BY <1>9 DEF Retry, Queue!Call
<1>10. ASSUME NEW a \in Adapters, GiveUp(a)
       PROVE  DrainedInv'
  BY <1>10 DEF GiveUp
<1>11. ASSUME NEW a \in Adapters, WriteLine(a)
       PROVE  DrainedInv'
  BY <1>11 DEF WriteLine
<1>12. ASSUME NEW a \in Adapters, StartAdapter(a)
       PROVE  DrainedInv'
  BY <1>12 DEF StartAdapter
<1>13. ASSUME NEW a \in Adapters, StopAdapter(a)
       PROVE  DrainedInv'
  BY <1>13 DEF StopAdapter
<1>14. CASE HttpStarts
  BY <1>14 DEF HttpStarts
<1>15. CASE HttpFails
  BY <1>15 DEF HttpFails
<1>16. CASE LoopTop
  BY <1>16 DEF LoopTop, Queue!Call
<1>17. CASE PopTakes
  BY <1>17 DEF PopTakes, Queue!Take
<1>18. CASE PopReceives
  BY <1>18 DEF PopReceives, Queue!Receive
<1>19. CASE PopReturns
  BY <1>19 DEF PopReturns, Queue!Return
<1>20. CASE PopFails
  <2>1. CASE mpc = "pop"
    BY <1>20, <2>1 DEF PopFails, Queue!Miss
  <2>2. CASE mpc = "drain"
    <3>1. \A p \in Adapters : slot[p] = 0
      BY <2>2
    <3>2. slot[Main] = 0 /\ ~Queue!HasFront /\ mpc' = "final" /\ UNCHANGED <<items, applied>>
      BY <1>20, <2>2 DEF PopFails, Queue!Miss
    <3>3. taken = Len(items)
      BY SMTT(30), <3>1, <3>2 DEF Queue!HasFront, Queue!Filled
    <3>4. Len(applied) = taken
      BY <2>2, <3>2
    <3>5. QED
      BY <3>2, <3>3, <3>4
  <2>3. QED
    BY <1>20, <2>1, <2>2 DEF PopFails
<1>21. CASE Apply
  BY <1>21 DEF Apply, Queue!Call
<1>22. CASE FlushBatch
  <2>1. staged' = << >> /\ UNCHANGED <<items, applied>>
    BY <1>22, FlushFacts DEF FlushBatch, Queue!Call
  <2>2. QED
    BY <1>22, <2>1 DEF FlushBatch
<1>23. CASE FlushTimer
  <2>1. staged' = << >> /\ UNCHANGED <<items, applied>>
    BY <1>23, FlushFacts DEF FlushTimer
  <2>2. QED
    BY <1>23, <2>1 DEF FlushTimer
<1>24. CASE PurgeTimer
  <2>1. staged' = << >> /\ UNCHANGED <<items, applied>>
    BY <1>24, FlushFacts DEF PurgeTimer
  <2>2. QED
    BY <1>24, <2>1 DEF PurgeTimer
<1>25. CASE NoTimer
  BY <1>25 DEF NoTimer
<1>26. CASE Joined
  BY <1>26 DEF Joined
<1>27. CASE StartDrain
  BY <1>27 DEF StartDrain, Queue!Call
<1>28. CASE Finish
  <2>1. staged' = << >> /\ UNCHANGED <<items, applied>>
    BY <1>28, FlushFacts DEF Finish
  <2>2. QED
    BY <1>28, <2>1 DEF Finish
<1>29. CASE Fail
  BY <1>29 DEF Fail
<1>30. CASE Signal
  BY <1>30 DEF Signal
<1>31. CASE UNCHANGED vars
  BY <1>31 DEF vars
<1>32. QED
  BY <1>1, <1>2, <1>3, <1>4, <1>5, <1>6, <1>7, <1>8, <1>9, <1>10, <1>11,
     <1>12, <1>13, <1>14, <1>15, <1>16, <1>17, <1>18, <1>19, <1>20, <1>21,
     <1>22, <1>23, <1>24, <1>25, <1>26, <1>27, <1>28, <1>29, <1>30, <1>31
     DEF Next, AdapterStep, MainStep, Terminated

-----------------------------------------------------------------------------
(* Every line read is accounted for. *)

\* The sets summed over are finite and the sums are integers.
LEMMA SumTypes ==
  ASSUME AdapterTypeOK
  PROVE  /\ IsFiniteSet(Adapters) /\ IsFiniteSet(MessageLogs) /\ MessageLogs \subseteq Adapters
         /\ \A a \in Adapters : lines_read[a] \in Int /\ parse_errors[a] \in Int
         /\ SumFunctionOnSet(lines_read, Adapters) \in Int
         /\ SumFunctionOnSet(parse_errors, MessageLogs) \in Int
<1>1. IsFiniteSet(Adapters) /\ IsFiniteSet(MessageLogs) /\ MessageLogs \subseteq Adapters
  BY CollectorAssumption, FS_Subset
<1>2. \A a \in Adapters : lines_read[a] \in Int /\ parse_errors[a] \in Int
  BY CollectorAssumption DEF AdapterTypeOK
<1>3. \A a \in MessageLogs : parse_errors[a] \in Int
  BY <1>1, <1>2
<1>4. QED
  BY <1>1, <1>2, <1>3, SumType

\* The number of lines in hand, when that of one thread comes or goes.
LEMMA InHandCount ==
  ASSUME AdapterTypeOK, NEW a \in Adapters
  PROVE  /\ Cardinality(InHand) \in Nat
         /\ a \notin InHand /\ InHand' = InHand \cup {a} =>
              Cardinality(InHand') = Cardinality(InHand) + 1
         /\ a \in InHand /\ InHand' = InHand \ {a} =>
              Cardinality(InHand') = Cardinality(InHand) - 1
<1>1. IsFiniteSet(InHand)
  BY SumTypes, FS_Subset DEF InHand
<1>2. QED
  BY <1>1, FS_CardinalityType, FS_AddElement, FS_RemoveElement

\* A step that reads, drops and accepts nothing.
LEMMA AccountUnchanged ==
  ASSUME EveryLineAccounted, UNCHANGED <<lines_read, parse_errors, dropped, items>>,
         InHand' = InHand
  PROVE  EveryLineAccounted'
BY Zenon DEF EveryLineAccounted

\* A line leaves the hand of its adapter, for the queue or for the drop counter.
LEMMA AccountOut ==
  ASSUME TypeOK, EveryLineAccounted, UNCHANGED <<lines_read, parse_errors>>,
         Cardinality(InHand) \in Nat, Cardinality(InHand') = Cardinality(InHand) - 1,
         dropped' + Len(items') = dropped + Len(items) + 1,
         dropped' \in Nat, Len(items') \in Nat
  PROVE  EveryLineAccounted'
<1>1. dropped \in Nat /\ Len(items) \in Nat /\ AdapterTypeOK
  BY DEF TypeOK, AdapterTypeOK, Queue!TypeOK
<1> DEFINE L == SumFunctionOnSet(lines_read, Adapters)
           P == SumFunctionOnSet(parse_errors, MessageLogs)
<1>2. L \in Int /\ P \in Int /\ L' = L /\ P' = P
  BY <1>1, SumTypes
<1>3. L = P + dropped + Len(items) + Cardinality(InHand)
  BY DEF EveryLineAccounted
<1> HIDE DEF L, P
<1>4. L' = P' + dropped' + Len(items') + Cardinality(InHand')
  BY SMTT(30), <1>1, <1>2, <1>3
<1>5. QED
  BY <1>4 DEF L, P, EveryLineAccounted

\* One line more is read.
LEMMA LinesReadSum ==
  ASSUME AdapterTypeOK, NEW a \in Adapters, lines_read' = [lines_read EXCEPT ![a] = @ + 1]
  PROVE  SumFunctionOnSet(lines_read', Adapters) = SumFunctionOnSet(lines_read, Adapters) + 1
<1>1. /\ lines_read'[a] = lines_read[a] + 1
      /\ \A x \in Adapters : x # a => lines_read'[x] = lines_read[x]
  BY DEF AdapterTypeOK
<1>2. IsFiniteSet(Adapters) /\ \A x \in Adapters : lines_read[x] \in Int
  BY SumTypes
<1>3. QED
  BY <1>1, <1>2, SumIncrement

\* One line more is refused.
LEMMA RefusedSum ==
  ASSUME AdapterTypeOK, NEW a \in MessageLogs, parse_errors' = [parse_errors EXCEPT ![a] = @ + 1]
  PROVE  SumFunctionOnSet(parse_errors', MessageLogs)
           = SumFunctionOnSet(parse_errors, MessageLogs) + 1
<1>1. /\ parse_errors'[a] = parse_errors[a] + 1
      /\ \A x \in MessageLogs : x # a => parse_errors'[x] = parse_errors[x]
  BY SumTypes DEF AdapterTypeOK
<1>2. IsFiniteSet(MessageLogs) /\ \A x \in MessageLogs : parse_errors[x] \in Int
  BY SumTypes
<1>3. QED
  BY <1>1, <1>2, SumIncrement

\* A line is read and is in the hand of its adapter.
LEMMA AccountReadIn ==
  ASSUME TypeOK, EveryLineAccounted, UNCHANGED <<dropped, items>>,
         SumFunctionOnSet(lines_read', Adapters) = SumFunctionOnSet(lines_read, Adapters) + 1,
         SumFunctionOnSet(parse_errors', MessageLogs)
           = SumFunctionOnSet(parse_errors, MessageLogs),
         Cardinality(InHand) \in Nat, Cardinality(InHand') = Cardinality(InHand) + 1
  PROVE  EveryLineAccounted'
<1>1. dropped \in Nat /\ Len(items) \in Nat /\ AdapterTypeOK
  BY DEF TypeOK, AdapterTypeOK, Queue!TypeOK
<1> DEFINE L == SumFunctionOnSet(lines_read, Adapters)
           P == SumFunctionOnSet(parse_errors, MessageLogs)
<1>2. L \in Int /\ P \in Int /\ L' = L + 1 /\ P' = P
  BY <1>1, SumTypes
<1>3. L = P + dropped + Len(items) + Cardinality(InHand)
  BY DEF EveryLineAccounted
<1> HIDE DEF L, P
<1>4. L' = P' + dropped' + Len(items') + Cardinality(InHand')
  BY <1>1, <1>2, <1>3
<1>5. QED
  BY <1>4 DEF L, P, EveryLineAccounted

\* A line is read and refused by the parser.
LEMMA AccountRefused ==
  ASSUME TypeOK, EveryLineAccounted, UNCHANGED <<dropped, items>>,
         SumFunctionOnSet(lines_read', Adapters) = SumFunctionOnSet(lines_read, Adapters) + 1,
         SumFunctionOnSet(parse_errors', MessageLogs)
           = SumFunctionOnSet(parse_errors, MessageLogs) + 1,
         Cardinality(InHand) \in Nat, Cardinality(InHand') = Cardinality(InHand)
  PROVE  EveryLineAccounted'
<1>1. dropped \in Nat /\ Len(items) \in Nat /\ AdapterTypeOK
  BY DEF TypeOK, AdapterTypeOK, Queue!TypeOK
<1> DEFINE L == SumFunctionOnSet(lines_read, Adapters)
           P == SumFunctionOnSet(parse_errors, MessageLogs)
<1>2. L \in Int /\ P \in Int /\ L' = L + 1 /\ P' = P + 1
  BY <1>1, SumTypes
<1>3. L = P + dropped + Len(items) + Cardinality(InHand)
  BY DEF EveryLineAccounted
<1> HIDE DEF L, P
<1>4. L' = P' + dropped' + Len(items') + Cardinality(InHand')
  BY <1>1, <1>2, <1>3
<1>5. QED
  BY <1>4 DEF L, P, EveryLineAccounted

\* Every step keeps the account of the lines.
LEMMA AccountedStep ==
  ASSUME TypeOK, EveryLineAccounted, [Next]_vars
  PROVE  EveryLineAccounted'
<1>0. AdapterTypeOK /\ Queue!TypeOK
  BY DEF TypeOK
<1> USE <1>0, CollectorAssumption DEF queueVars, adapterVars, storeVars, otherThanAdapter, AdapterGoto, MainGoto, AdapterTypeOK
<1>1. ASSUME NEW a \in Adapters, CheckRunning(a)
      PROVE  EveryLineAccounted'
  <2>1. UNCHANGED <<lines_read, parse_errors, dropped, items>>
    BY <1>1 DEF CheckRunning
  <2>2. InHand' = InHand
    BY <1>1 DEF CheckRunning, InHand
  <2>3. QED
    BY <2>1, <2>2, AccountUnchanged
<1>2. ASSUME NEW a \in Adapters, Read(a)
      PROVE  EveryLineAccounted'
  <2>1. UNCHANGED <<lines_read, parse_errors, dropped, items>>
    BY <1>2 DEF Read
  <2>2. InHand' = InHand
    BY <1>2 DEF Read, InHand
  <2>3. QED
    BY <2>1, <2>2, AccountUnchanged
<1>3. ASSUME NEW a \in Adapters, PollReturns(a)
      PROVE  EveryLineAccounted'
  <2>1. UNCHANGED <<lines_read, parse_errors, dropped, items>>
    BY <1>3 DEF PollReturns
  <2>2. InHand' = InHand
    BY <1>3 DEF PollReturns, InHand
  <2>3. QED
    BY <2>1, <2>2, AccountUnchanged
<1>4. ASSUME NEW a \in Adapters, LineParsed(a)
      PROVE  EveryLineAccounted'
  <2>1. /\ UNCHANGED <<dropped, items>> /\ lines_read' = [lines_read EXCEPT ![a] = @ + 1]
        /\ \A m \in MessageLogs : parse_errors'[m] = parse_errors[m]
    BY <1>4 DEF LineParsed, Queue!Call
  <2>2. a \notin InHand /\ InHand' = InHand \cup {a}
    BY <1>4 DEF LineParsed, InHand
  <2>3. SumFunctionOnSet(parse_errors', MessageLogs) = SumFunctionOnSet(parse_errors, MessageLogs)
    BY <2>1, SumTypes, SumSame
  <2>4. Cardinality(InHand) \in Nat /\ Cardinality(InHand') = Cardinality(InHand) + 1
    BY <2>2, InHandCount
  <2>5. SumFunctionOnSet(lines_read', Adapters) = SumFunctionOnSet(lines_read, Adapters) + 1
    BY <2>1, LinesReadSum
  <2>6. SumFunctionOnSet(parse_errors, MessageLogs) \in Int
    BY SumTypes
  <2>7. QED
    BY <2>1, <2>3, <2>4, <2>5, <2>6, AccountReadIn
<1>5. ASSUME NEW a \in Adapters, LineRefused(a)
      PROVE  EveryLineAccounted'
  <2>1. /\ UNCHANGED <<dropped, items>> /\ lines_read' = [lines_read EXCEPT ![a] = @ + 1]
        /\ a \in MessageLogs /\ parse_errors' = [parse_errors EXCEPT ![a] = @ + 1]
    BY <1>5 DEF LineRefused
  <2>2. InHand' = InHand
    BY <1>5 DEF LineRefused, InHand
  <2>3. Cardinality(InHand) \in Nat /\ Cardinality(InHand') = Cardinality(InHand)
    BY <2>2, InHandCount
  <2>4. /\ SumFunctionOnSet(lines_read', Adapters) = SumFunctionOnSet(lines_read, Adapters) + 1
        /\ SumFunctionOnSet(parse_errors', MessageLogs)
             = SumFunctionOnSet(parse_errors, MessageLogs) + 1
    BY <2>1, LinesReadSum, RefusedSum
  <2>5. QED
    BY <2>1, <2>3, <2>4, AccountRefused
<1>6. ASSUME NEW a \in Adapters, PushAccepted(a)
      PROVE  EveryLineAccounted'
  <2>1. /\ UNCHANGED <<lines_read, parse_errors, dropped>>
        /\ items' = Append(items, <<a, lines_read[a]>>)
    BY <1>6 DEF PushAccepted, Queue!Accept
  <2>2. Len(items') = Len(items) + 1 /\ Len(items) \in Nat /\ dropped \in Nat
    BY <1>0, <2>1 DEF Queue!TypeOK
  <2>3. a \in InHand /\ InHand' = InHand \ {a}
    BY <1>6 DEF PushAccepted, InHand
  <2>4. Cardinality(InHand) \in Nat /\ Cardinality(InHand') = Cardinality(InHand) - 1
    BY <2>3, InHandCount
  <2>5. QED
    BY <2>1, <2>2, <2>4, AccountOut
<1>7. ASSUME NEW a \in Adapters, PushReturns(a)
      PROVE  EveryLineAccounted'
  <2>1. UNCHANGED <<lines_read, parse_errors, dropped, items>>
    BY <1>7 DEF PushReturns, Queue!Return
  <2>2. InHand' = InHand
    BY <1>7 DEF PushReturns, Queue!Return, InHand
  <2>3. QED
    BY <2>1, <2>2, AccountUnchanged
<1>8. ASSUME NEW a \in Adapters, PushRefused(a)
      PROVE  EveryLineAccounted'
  <2>1. UNCHANGED <<lines_read, parse_errors, items>> /\ a \in InHand
    BY <1>8 DEF PushRefused, Queue!Refuse, InHand
  <2>2. CASE apc' = [apc EXCEPT ![a] = "wait"] /\ UNCHANGED dropped
    <3>1. InHand' = InHand
      BY <2>1, <2>2 DEF InHand
    <3>2. QED
      BY <2>1, <2>2, <3>1, AccountUnchanged
  <2>3. CASE apc' = [apc EXCEPT ![a] = "line"] /\ dropped' = dropped + 1
    <3>1. InHand' = InHand \ {a}
      BY <2>3 DEF InHand
    <3>2. /\ dropped' + Len(items') = dropped + Len(items) + 1
          /\ dropped' \in Nat /\ Len(items') \in Nat
      BY <1>0, <2>1, <2>3 DEF Queue!TypeOK
    <3>3. Cardinality(InHand) \in Nat /\ Cardinality(InHand') = Cardinality(InHand) - 1
      BY <2>1, <3>1, InHandCount
    <3>4. QED
      BY <2>1, <3>2, <3>3, AccountOut
  <2>4. QED
    BY <1>8, <2>2, <2>3 DEF PushRefused
<1>9. ASSUME NEW a \in Adapters, Retry(a)
      PROVE  EveryLineAccounted'
  <2>1. UNCHANGED <<lines_read, parse_errors, dropped, items>>
    BY <1>9 DEF Retry, Queue!Call
  <2>2. InHand' = InHand
    BY <1>9 DEF Retry, Queue!Call, InHand
  <2>3. QED
    BY <2>1, <2>2, AccountUnchanged
<1>10. ASSUME NEW a \in Adapters, GiveUp(a)
       PROVE  EveryLineAccounted'
  <2>1. UNCHANGED <<lines_read, parse_errors, items>> /\ dropped' = dropped + 1
    BY <1>10 DEF GiveUp
  <2>2. a \in InHand /\ InHand' = InHand \ {a}
    BY <1>10 DEF GiveUp, InHand
  <2>3. /\ dropped' + Len(items') = dropped + Len(items) + 1
        /\ dropped' \in Nat /\ Len(items') \in Nat
    BY <1>0, <2>1 DEF Queue!TypeOK
  <2>4. Cardinality(InHand) \in Nat /\ Cardinality(InHand') = Cardinality(InHand) - 1
    BY <2>2, InHandCount
  <2>5. QED
    BY <2>1, <2>3, <2>4, AccountOut
<1>11. ASSUME NEW a \in Adapters, WriteLine(a)
       PROVE  EveryLineAccounted'
  <2>1. UNCHANGED <<lines_read, parse_errors, dropped, items>>
    BY <1>11 DEF WriteLine
  <2>2. InHand' = InHand
    BY <1>11 DEF WriteLine, InHand
  <2>3. QED
    BY <2>1, <2>2, AccountUnchanged
<1>12. ASSUME NEW a \in Adapters, StartAdapter(a)
       PROVE  EveryLineAccounted'
  <2>1. UNCHANGED <<lines_read, parse_errors, dropped, items>>
    BY <1>12 DEF StartAdapter
  <2>2. InHand' = InHand
    BY <1>12 DEF StartAdapter, InHand
  <2>3. QED
    BY <2>1, <2>2, AccountUnchanged
<1>13. ASSUME NEW a \in Adapters, StopAdapter(a)
       PROVE  EveryLineAccounted'
  <2>1. UNCHANGED <<lines_read, parse_errors, dropped, items>>
    BY <1>13 DEF StopAdapter
  <2>2. InHand' = InHand
    BY <1>13 DEF StopAdapter, InHand
  <2>3. QED
    BY <2>1, <2>2, AccountUnchanged
<1>14. CASE HttpStarts
  <2>1. UNCHANGED <<lines_read, parse_errors, dropped, items>>
    BY <1>14 DEF HttpStarts
  <2>2. InHand' = InHand
    BY <1>14 DEF HttpStarts, InHand
  <2>3. QED
    BY <2>1, <2>2, AccountUnchanged
<1>15. CASE HttpFails
  <2>1. UNCHANGED <<lines_read, parse_errors, dropped, items>>
    BY <1>15 DEF HttpFails
  <2>2. InHand' = InHand
    BY <1>15 DEF HttpFails, InHand
  <2>3. QED
    BY <2>1, <2>2, AccountUnchanged
<1>16. CASE LoopTop
  <2>1. UNCHANGED <<lines_read, parse_errors, dropped, items>>
    BY <1>16 DEF LoopTop, Queue!Call
  <2>2. InHand' = InHand
    BY <1>16 DEF LoopTop, Queue!Call, InHand
  <2>3. QED
    BY <2>1, <2>2, AccountUnchanged
<1>17. CASE PopTakes
  <2>1. UNCHANGED <<lines_read, parse_errors, dropped, items>>
    BY <1>17 DEF PopTakes, Queue!Take
  <2>2. InHand' = InHand
    BY <1>17 DEF PopTakes, Queue!Take, InHand
  <2>3. QED
    BY <2>1, <2>2, AccountUnchanged
<1>18. CASE PopReceives
  <2>1. UNCHANGED <<lines_read, parse_errors, dropped, items>>
    BY <1>18 DEF PopReceives, Queue!Receive
  <2>2. InHand' = InHand
    BY <1>18 DEF PopReceives, Queue!Receive, InHand
  <2>3. QED
    BY <2>1, <2>2, AccountUnchanged
<1>19. CASE PopReturns
  <2>1. UNCHANGED <<lines_read, parse_errors, dropped, items>>
    BY <1>19 DEF PopReturns, Queue!Return
  <2>2. InHand' = InHand
    BY <1>19 DEF PopReturns, Queue!Return, InHand
  <2>3. QED
    BY <2>1, <2>2, AccountUnchanged
<1>20. CASE PopFails
  <2>1. UNCHANGED <<lines_read, parse_errors, dropped, items>>
    BY <1>20 DEF PopFails, Queue!Miss
  <2>2. InHand' = InHand
    BY <1>20 DEF PopFails, Queue!Miss, InHand
  <2>3. QED
    BY <2>1, <2>2, AccountUnchanged
<1>21. CASE Apply
  <2>1. UNCHANGED <<lines_read, parse_errors, dropped, items>>
    BY <1>21 DEF Apply, Queue!Call
  <2>2. InHand' = InHand
    BY <1>21 DEF Apply, Queue!Call, InHand
  <2>3. QED
    BY <2>1, <2>2, AccountUnchanged
<1>22. CASE FlushBatch
  <2>1. UNCHANGED <<lines_read, parse_errors, dropped, items>>
    BY <1>22 DEF FlushBatch, Queue!Call
  <2>2. InHand' = InHand
    BY <1>22 DEF FlushBatch, Queue!Call, InHand
  <2>3. QED
    BY <2>1, <2>2, AccountUnchanged
<1>23. CASE FlushTimer
  <2>1. UNCHANGED <<lines_read, parse_errors, dropped, items>>
    BY <1>23 DEF FlushTimer
  <2>2. InHand' = InHand
    BY <1>23 DEF FlushTimer, InHand
  <2>3. QED
    BY <2>1, <2>2, AccountUnchanged
<1>24. CASE PurgeTimer
  <2>1. UNCHANGED <<lines_read, parse_errors, dropped, items>>
    BY <1>24 DEF PurgeTimer
  <2>2. InHand' = InHand
    BY <1>24 DEF PurgeTimer, InHand
  <2>3. QED
    BY <2>1, <2>2, AccountUnchanged
<1>25. CASE NoTimer
  <2>1. UNCHANGED <<lines_read, parse_errors, dropped, items>>
    BY <1>25 DEF NoTimer
  <2>2. InHand' = InHand
    BY <1>25 DEF NoTimer, InHand
  <2>3. QED
    BY <2>1, <2>2, AccountUnchanged
<1>26. CASE Joined
  <2>1. UNCHANGED <<lines_read, parse_errors, dropped, items>>
    BY <1>26 DEF Joined
  <2>2. InHand' = InHand
    BY <1>26 DEF Joined, InHand
  <2>3. QED
    BY <2>1, <2>2, AccountUnchanged
<1>27. CASE StartDrain
  <2>1. UNCHANGED <<lines_read, parse_errors, dropped, items>>
    BY <1>27 DEF StartDrain, Queue!Call
  <2>2. InHand' = InHand
    BY <1>27 DEF StartDrain, Queue!Call, InHand
  <2>3. QED
    BY <2>1, <2>2, AccountUnchanged
<1>28. CASE Finish
  <2>1. UNCHANGED <<lines_read, parse_errors, dropped, items>>
    BY <1>28 DEF Finish
  <2>2. InHand' = InHand
    BY <1>28 DEF Finish, InHand
  <2>3. QED
    BY <2>1, <2>2, AccountUnchanged
<1>29. CASE Fail
  <2>1. UNCHANGED <<lines_read, parse_errors, dropped, items>>
    BY <1>29 DEF Fail
  <2>2. InHand' = InHand
    BY <1>29 DEF Fail, InHand
  <2>3. QED
    BY <2>1, <2>2, AccountUnchanged
<1>30. CASE Signal
  <2>1. UNCHANGED <<lines_read, parse_errors, dropped, items>>
    BY <1>30 DEF Signal
  <2>2. InHand' = InHand
    BY <1>30 DEF Signal, InHand
  <2>3. QED
    BY <2>1, <2>2, AccountUnchanged
<1>31. CASE UNCHANGED vars
  BY <1>31, AccountUnchanged DEF vars, InHand
<1>32. QED
  BY <1>1, <1>2, <1>3, <1>4, <1>5, <1>6, <1>7, <1>8, <1>9, <1>10, <1>11,
     <1>12, <1>13, <1>14, <1>15, <1>16, <1>17, <1>18, <1>19, <1>20, <1>21,
     <1>22, <1>23, <1>24, <1>25, <1>26, <1>27, <1>28, <1>29, <1>30, <1>31
     DEF Next, AdapterStep, MainStep, Terminated

\* The variables of the main thread keep their types.
LEMMA MainTypeStep ==
  ASSUME TypeOK, SlotsInv, AppliedInv, StoreInv, AppliedInv', StoreInv', Queue!TypeOK', AdapterTypeOK', [Next]_vars
  PROVE  MainTypeOK'
<1> DEFINE Goal == /\ g_stop' \in BOOLEAN /\ mpc' \in MainPc /\ applied' \in Seq(Events)
                   /\ staged' \in Seq(Events) /\ rows' \in Seq(Events)
                   /\ write_errors' \in Nat /\ mirrored' \in Nat
<1>0. MainTypeOK /\ AdapterTypeOK /\ Queue!TypeOK
  BY DEF TypeOK
<1> USE <1>0, CollectorAssumption DEF queueVars, adapterVars, storeVars, otherThanAdapter, AdapterGoto, MainGoto, AdapterTypeOK, MainTypeOK, MainPc
<1>1. ASSUME NEW a \in Adapters, CheckRunning(a)
      PROVE  Goal
  BY <1>1 DEF CheckRunning
<1>2. ASSUME NEW a \in Adapters, Read(a)
      PROVE  Goal
  BY <1>2 DEF Read
<1>3. ASSUME NEW a \in Adapters, PollReturns(a)
      PROVE  Goal
  BY <1>3 DEF PollReturns
<1>4. ASSUME NEW a \in Adapters, LineParsed(a)
      PROVE  Goal
  BY <1>4 DEF LineParsed, Queue!Call
<1>5. ASSUME NEW a \in Adapters, LineRefused(a)
      PROVE  Goal
  BY <1>5 DEF LineRefused
<1>6. ASSUME NEW a \in Adapters, PushAccepted(a)
      PROVE  Goal
  BY <1>6 DEF PushAccepted, Queue!Accept
<1>7. ASSUME NEW a \in Adapters, PushReturns(a)
      PROVE  Goal
  BY <1>7 DEF PushReturns, Queue!Return
<1>8. ASSUME NEW a \in Adapters, PushRefused(a)
      PROVE  Goal
  BY <1>8 DEF PushRefused, Queue!Refuse
<1>9. ASSUME NEW a \in Adapters, Retry(a)
      PROVE  Goal
  BY <1>9 DEF Retry, Queue!Call
<1>10. ASSUME NEW a \in Adapters, GiveUp(a)
       PROVE  Goal
  BY <1>10 DEF GiveUp
<1>11. ASSUME NEW a \in Adapters, WriteLine(a)
       PROVE  Goal
  BY <1>11 DEF WriteLine
<1>12. ASSUME NEW a \in Adapters, StartAdapter(a)
       PROVE  Goal
  BY <1>12 DEF StartAdapter
<1>13. ASSUME NEW a \in Adapters, StopAdapter(a)
       PROVE  Goal
  BY <1>13 DEF StopAdapter
<1>14. ASSUME HttpStarts
       PROVE  Goal
  BY <1>14 DEF HttpStarts
<1>15. ASSUME HttpFails
       PROVE  Goal
  BY <1>15 DEF HttpFails
<1>16. ASSUME LoopTop
       PROVE  Goal
  BY <1>16 DEF LoopTop, Queue!Call
<1>17. ASSUME PopTakes
       PROVE  Goal
  BY <1>17 DEF PopTakes, Queue!Take
<1>18. ASSUME PopReceives
       PROVE  Goal
  BY <1>18 DEF PopReceives, Queue!Receive
<1>19. ASSUME PopReturns
       PROVE  Goal
  BY <1>19 DEF PopReturns, Queue!Return
<1>20. ASSUME PopFails
       PROVE  Goal
  BY <1>20 DEF PopFails, Queue!Miss
<1>21. ASSUME Apply
       PROVE  Goal
  <2>1. out[Main] \in Events
    BY <1>21, <1>0 DEF Apply, Queue!TypeOK, Holding, AppliedInv
  <2>2. applied' \in Seq(Events) /\ staged' \in Seq(Events)
    BY <1>21, <2>1 DEF Apply
  <2>3. UNCHANGED <<g_stop, rows, write_errors, mirrored>> /\ mpc' \in {"flush", "pop", "drain"}
    BY <1>21 DEF Apply
  <2>4. QED
    <3>1. write_errors \in Nat /\ mirrored \in Nat /\ rows \in Seq(Events) /\ g_stop \in BOOLEAN
      OBVIOUS
    <3>2. QED
      BY <2>2, <2>3, <3>1
<1>22. ASSUME FlushBatch
       PROVE  Goal
  <2>1. staged' = << >> /\ rows' \in Seq(Events) /\ write_errors' \in Nat
    BY <1>22, FlushFacts DEF FlushBatch
  <2>2. UNCHANGED <<g_stop, applied>> /\ mirrored' \in Nat /\ mpc' \in MainPc
    BY <1>22 DEF FlushBatch
  <2>3. g_stop' \in BOOLEAN /\ applied' \in Seq(Events)
    BY <2>2
  <2>4. << >> \in Seq(Events)
    OBVIOUS
  <2>5. QED
    BY <2>1, <2>2, <2>3, <2>4
<1>23. ASSUME FlushTimer
       PROVE  Goal
  <2>1. staged' = << >> /\ rows' \in Seq(Events) /\ write_errors' \in Nat
    BY <1>23, FlushFacts DEF FlushTimer
  <2>2. UNCHANGED <<g_stop, applied>> /\ mirrored' \in Nat /\ mpc' \in MainPc
    BY <1>23 DEF FlushTimer
  <2>3. g_stop' \in BOOLEAN /\ applied' \in Seq(Events)
    BY <2>2
  <2>4. << >> \in Seq(Events)
    OBVIOUS
  <2>5. QED
    BY <2>1, <2>2, <2>3, <2>4
<1>24. ASSUME PurgeTimer
       PROVE  Goal
  <2>1. staged' = << >> /\ rows' \in Seq(Events) /\ write_errors' \in Nat
    BY <1>24, FlushFacts DEF PurgeTimer
  <2>2. UNCHANGED <<g_stop, applied>> /\ mirrored' \in Nat /\ mpc' \in MainPc
    BY <1>24 DEF PurgeTimer
  <2>3. g_stop' \in BOOLEAN /\ applied' \in Seq(Events)
    BY <2>2
  <2>4. << >> \in Seq(Events)
    OBVIOUS
  <2>5. QED
    BY <2>1, <2>2, <2>3, <2>4
<1>25. ASSUME NoTimer
       PROVE  Goal
  BY <1>25 DEF NoTimer
<1>26. ASSUME Joined
       PROVE  Goal
  BY <1>26 DEF Joined
<1>27. ASSUME StartDrain
       PROVE  Goal
  BY <1>27 DEF StartDrain, Queue!Call
<1>28. ASSUME Finish
       PROVE  Goal
  <2>1. staged' = << >> /\ rows' \in Seq(Events) /\ write_errors' \in Nat
    BY <1>28, FlushFacts DEF Finish
  <2>2. UNCHANGED <<g_stop, applied>> /\ mirrored' \in Nat /\ mpc' \in MainPc
    BY <1>28 DEF Finish
  <2>3. g_stop' \in BOOLEAN /\ applied' \in Seq(Events)
    BY <2>2
  <2>4. << >> \in Seq(Events)
    OBVIOUS
  <2>5. QED
    BY <2>1, <2>2, <2>3, <2>4
<1>29. ASSUME Fail
       PROVE  Goal
  BY <1>29 DEF Fail
<1>30. ASSUME Signal
       PROVE  Goal
  BY <1>30 DEF Signal
<1>31. ASSUME UNCHANGED vars
       PROVE  Goal
  BY <1>31 DEF vars
<1>32. Goal
  BY <1>1, <1>2, <1>3, <1>4, <1>5, <1>6, <1>7, <1>8, <1>9, <1>10, <1>11,
     <1>12, <1>13, <1>14, <1>15, <1>16, <1>17, <1>18, <1>19, <1>20, <1>21,
     <1>22, <1>23, <1>24, <1>25, <1>26, <1>27, <1>28, <1>29, <1>30, <1>31
     DEF Next, AdapterStep, MainStep, Terminated
<1>33. Len(staged') < Batch + Capacity
  <2>1. taken' \in 0 .. Len(items') /\ Len(items') \in Nat /\ taken' \in Nat
    BY DEF Queue!TypeOK
  <2>2. Len(applied') \in Nat /\ Len(staged') \in Nat
    BY <1>32
  <2>3. Len(applied') <= taken'
    <3>1. taken' = Len(applied') \/ taken' = Len(applied') + 1
      BY DEF AppliedInv
    <3>2. QED
      BY <2>1, <2>2, <3>1
  <2>4. Batch \in Nat /\ Batch >= 1
    BY DEF Batch
  <2>5. CASE mpc' \in {"drain", "drain_apply", "final"}
    <3>1. Len(staged') + (Len(items') - Len(applied')) < Batch + Capacity
      BY <2>5 DEF StoreInv
    <3>2. QED
      BY <2>1, <2>2, <2>3, <2>4, <3>1
  <2>6. CASE mpc' \notin {"drain", "drain_apply", "final"}
    <3>1. Len(staged') <= Batch
      BY <2>2, <2>4, <2>6 DEF StoreInv
    <3>2. QED
      BY <2>2, <2>4, <3>1
  <2>7. QED
    BY <2>5, <2>6
<1>34. QED
  BY <1>32, <1>33

\* The invariant holds when the process starts.
LEMMA InitInv == Init => IInv
<1> SUFFICES ASSUME Init PROVE IInv
  OBVIOUS
<1> USE CollectorAssumption DEF Init, Queue!Init
<1>0. Batch \in Nat /\ Batch >= 1
  BY DEF Batch
<1>1. Queue!TypeOK
  BY DEF Queue!TypeOK, Queue!Threads, Queue!Results
<1>2. AdapterTypeOK
  BY DEF AdapterTypeOK, AdapterPc
<1>3. MainTypeOK
  <2>1. Len(staged) = 0 /\ Len(staged) < Batch + Capacity
    BY <1>0
  <2>2. << >> \in Seq(Events)
    OBVIOUS
  <2>3. QED
    BY <2>1, <2>2 DEF MainTypeOK, MainPc
<1>4. LinesInv /\ ThreadsInv
  BY DEF LinesInv, ThreadsInv
<1>5. SlotsInv
  BY DEF SlotsInv, Queue!Threads
<1>6. OrderInv /\ AppliedInv
  BY DEF OrderInv, AppliedInv, Holding, Queue!Threads
<1>7. StoreInv /\ DrainedInv
  BY <1>0 DEF StoreInv, DrainedInv
<1>8. EveryLineAccounted
  <2>1. SumFunctionOnSet(lines_read, Adapters) = 0
    BY SumZero
  <2>2. SumFunctionOnSet(parse_errors, MessageLogs) = 0
    BY SumTypes, SumZero, <1>2
  <2>3. InHand = {} /\ Cardinality(InHand) = 0
    BY FS_EmptySet DEF InHand
  <2>4. QED
    BY <2>1, <2>2, <2>3 DEF EveryLineAccounted
<1>9. QED
  BY <1>1, <1>2, <1>3, <1>4, <1>5, <1>6, <1>7, <1>8 DEF IInv, TypeOK

-----------------------------------------------------------------------------
(* The theorems. *)

\* Every step of the collector preserves the inductive invariant.
LEMMA StepInv ==
  ASSUME IInv, [Next]_vars
  PROVE  IInv'
<1> USE DEF IInv
<1>1. Queue!TypeOK'
  BY QueueStep, QueueTypeStep DEF TypeOK
<1>2. AdapterTypeOK'
  BY AdapterTypeStep DEF TypeOK
<1>3. LinesInv' /\ ThreadsInv'
  BY LinesStep, ThreadsStep DEF TypeOK
<1>4. SlotsInv'
  BY SlotsStep
<1>5. OrderInv' /\ AppliedInv'
  BY OrderStep, AppliedStep
<1>6. StoreInv' /\ DrainedInv'
  BY RowsStep, DrainedStep
<1>7. MainTypeOK'
  BY <1>1, <1>2, <1>5, <1>6, MainTypeStep
<1>8. EveryLineAccounted'
  BY AccountedStep
<1>9. QED
  BY <1>1, <1>2, <1>3, <1>4, <1>5, <1>6, <1>7, <1>8 DEF TypeOK

\* The inductive invariant holds in every state of the collector, for any
\* number of logs and any capacity, batch size and patience of the sink.
THEOREM Invariance == Spec => []IInv
<1>1. Init => IInv
  BY InitInv
<1>2. IInv /\ [Next]_vars => IInv'
  BY StepInv
<1>3. QED
  BY <1>1, <1>2, PTL DEF Spec

\* Every variable keeps its type, and the rows waiting for a commit are
\* bounded by the batch size and the capacity of the queue.
THEOREM TypeCorrect == Spec => []TypeOK
<1>1. IInv => TypeOK
  BY DEF IInv
<1>2. QED
  BY <1>1, Invariance, PTL

\* Every line an adapter has read was refused, dropped and counted, accepted by
\* the queue, or is in the adapter's hand.
THEOREM LinesAccounted == Spec => []EveryLineAccounted
<1>1. IInv => EveryLineAccounted
  BY DEF IInv
<1>2. QED
  BY <1>1, Invariance, PTL

\* The events of a log are applied in the order of its lines, each once: the
\* queue holds them in this order and the applied events are a prefix of it.
THEOREM AppliedInLogOrder == Spec => []LogOrder
<1>1. IInv => LogOrder
  <2> SUFFICES ASSUME IInv,
                        NEW i \in 1 .. Len(applied), NEW j \in 1 .. Len(applied),
                        i < j, applied[i][1] = applied[j][1]
                 PROVE  applied[i][2] < applied[j][2]
    BY DEF LogOrder
  <2>2. Len(applied) \in Nat /\ Len(items) \in Nat /\ taken \in Nat /\ taken <= Len(items)
    BY DEF IInv, TypeOK, MainTypeOK, Queue!TypeOK
  <2>3. Len(applied) <= taken
    <3>1. taken = Len(applied) \/ taken = Len(applied) + 1
      BY DEF IInv, AppliedInv
    <3>2. QED
      BY <2>2, <3>1
  <2>4. applied[i] = items[i] /\ applied[j] = items[j]
    BY DEF IInv, AppliedInv
  <2>5. i \in 1 .. Len(items) /\ j \in 1 .. Len(items)
    BY <2>2, <2>3
  <2>6. QED
    BY <2>4, <2>5 DEF IInv, OrderInv
<1>2. QED
  BY <1>1, Invariance, PTL

\* When the collector has stopped, every accepted event is in the database in
\* its order unless the database failed, and the drop counter is published: the
\* threads were joined before the last drain, and the drain empties the queue.
THEOREM NothingLostAtShutdown == Spec => []ShutdownLosesNothing
<1>1. IInv => ShutdownLosesNothing
  <2> SUFFICES ASSUME IInv, mpc = "done"
                 PROVE  (write_errors = 0 => rows = items) /\ mirrored = dropped
    BY DEF ShutdownLosesNothing, IInv, TypeOK, MainTypeOK
  <2>2. staged = << >> /\ mirrored = dropped /\ Len(applied) = Len(items)
    BY DEF IInv, DrainedInv
  <2>3. applied \in Seq(Events) /\ items \in Seq(Events) /\ rows \in Seq(Events)
    BY DEF IInv, TypeOK, MainTypeOK, Queue!TypeOK
  <2>4. applied = items
    <3>1. \A i \in 1 .. Len(applied) : applied[i] = items[i]
      BY DEF IInv, AppliedInv
    <3>2. QED
      BY <2>2, <2>3, <3>1
  <2>5. ASSUME write_errors = 0
        PROVE  rows = items
    <3>1. rows \o << >> = applied
      BY <2>2, <2>5 DEF IInv, StoreInv
    <3>2. QED
      BY <2>3, <2>4, <3>1, ConcatEmptySeq
  <2>6. QED
    BY <2>2, <2>5
<1>2. QED
  BY <1>1, Invariance, PTL

\* Without a signal an event is dropped only when the queue has no room, and
\* then Capacity accepted events are not applied.
THEOREM DropsMeanBehind == Spec => DropMeansBehind
<1>1. ASSUME IInv, [Next]_vars
      PROVE  [dropped' > dropped /\ ~g_stop => Len(items) - Len(applied) >= Capacity]_vars
  <2> USE <1>1
  <2> SUFFICES ASSUME dropped' > dropped, ~g_stop
                 PROVE  Len(items) - Len(applied) >= Capacity
    OBVIOUS
  <2>2. dropped \in Nat
    BY DEF IInv, TypeOK, AdapterTypeOK
  <2>3. UNCHANGED dropped \/ \E a \in Adapters : PushRefused(a)
    <3> USE DEF otherThanAdapter, adapterVars
    <3>1. ASSUME NEW a \in Adapters, AdapterStep(a)
          PROVE  UNCHANGED dropped \/ PushRefused(a)
      BY <3>1 DEF AdapterStep, CheckRunning, Read, PollReturns, LineParsed,
        LineRefused, PushAccepted, PushReturns, Retry, GiveUp
    <3>2. ASSUME MainStep
          PROVE  UNCHANGED dropped
      BY <3>2 DEF MainStep, StartAdapter, StopAdapter, HttpStarts, HttpFails, LoopTop,
        PopTakes, PopReceives, PopReturns, PopFails, Apply, FlushBatch, FlushTimer,
        PurgeTimer, NoTimer, Joined, StartDrain, Finish, Fail
    <3>3. QED
      BY <3>1, <3>2 DEF Next, WriteLine, Signal, Terminated, vars
  <2>4. PICK a \in Adapters : PushRefused(a)
    BY <2>2, <2>3
  <2>5. ~Queue!HasRoom
    BY <2>4 DEF PushRefused, Queue!Refuse
  <2>6. /\ items \in Seq(Events) /\ taken \in 0 .. Len(items) /\ applied \in Seq(Events)
        /\ Len(applied) \in Nat /\ Len(items) \in Nat
    BY DEF IInv, TypeOK, MainTypeOK, Queue!TypeOK
  <2>7. Len(items) >= Capacity
    BY <2>5, <2>6, CollectorAssumption DEF Queue!HasRoom
  <2> DEFINE needed == Len(items) + 1 - Capacity
  <2>8. needed > taken \/ slot[Main] = needed
    <3>1. ~Queue!Emptied(needed)
      BY <2>5 DEF Queue!HasRoom
    <3>2. needed \in Int /\ taken \in Int
      BY <2>6, CollectorAssumption
    <3> HIDE DEF needed
    <3>3. QED
      BY <3>1, <3>2 DEF Queue!Emptied
  <2>9. taken = Len(applied) \/ (Holding /\ taken = Len(applied) + 1)
    BY DEF IInv, AppliedInv
  <2>10. CASE needed > taken
    BY <2>6, <2>9, <2>10, CollectorAssumption
  <2>11. CASE slot[Main] = needed
    <3>1. slot[Main] # 0
      BY <2>6, <2>7, <2>11, CollectorAssumption
    <3>2. slot[Main] = taken /\ Holding
      BY <3>1 DEF IInv, SlotsInv, Holding
    <3>3. taken = Len(applied) + 1
      BY <3>2 DEF IInv, AppliedInv
    <3>4. QED
      BY <2>6, <2>11, <3>2, <3>3, CollectorAssumption
  <2>12. QED
    BY <2>8, <2>10, <2>11
<1>2. QED
  BY <1>1, Invariance, PTL DEF Spec, DropMeansBehind

\* The threads of the collector use the queue by its protocol: what BoundedFifo
\* promises to its callers, and MpmcQueueProofs proves of the code of the queue,
\* holds of the queue inside the collector.
THEOREM QueueProtocolKept == Spec => Queue!Spec
<1>1. Init => Queue!Init
  BY DEF Init
<1>2. IInv /\ [Next]_vars => [Queue!Next]_(Queue!vars)
  BY QueueStep
<1>3. QED
  BY <1>1, <1>2, Invariance, PTL DEF Spec, Queue!Spec

=============================================================================
