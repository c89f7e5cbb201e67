--------------------------- MODULE FunctionProofs ---------------------------
(***************************************************************************)
(* The sequential algorithms do what is said of them for inputs of every   *)
(* length: the bounds of MCFunctions may be any numbers.                   *)
(***************************************************************************)
EXTENDS MCFunctions, FiniteSetTheorems, SequenceTheorems, WellFoundedInduction, TLAPS

-----------------------------------------------------------------------------
(* The inputs. *)

InputOK ==
  /\ number \in Nat
  /\ number < Pow2[SizeBits]
  /\ task = "scrub" => input \in Seq(Tokens)
  /\ task = "mask" => input \in Seq(FieldGroups)
  /\ task = "parse" => input \in Seq(EngineLines)
  /\ task = "load" => input \in Seq(Blocks)
  /\ task = "logs" => input \in Seq(LogFiles)

-----------------------------------------------------------------------------
(* Loops *)

\* A set of natural numbers has a least element.
LEMMA Least ==
  ASSUME NEW T \in SUBSET Nat, T # {}
  PROVE  \E x \in T : \A y \in T : x <= y
<1> DEFINE R == {ss \in Nat \X Nat : ss[1] < ss[2]}
<1>1. IsWellFoundedOn(R, Nat)
  BY NatLessThanWellFounded, Zenon DEF OpToRel
<1> HIDE DEF R
<1>2. PICK x \in T : \A y \in T : ~(<<y, x>> \in R)
  BY <1>1, WFMin, Zenon
<1> USE DEF R
<1>3. \A y \in T : ~(y < x)
  BY <1>2
<1>4. QED
  BY <1>3

\* The least of a set of positions, as the library computes it.
LEMMA MinIs ==
  ASSUME NEW T \in SUBSET Nat, T # {}
  PROVE  Min(T) \in T /\ \A y \in T : Min(T) <= y
BY Least DEF Min

\* h holds what a loop carries after each of its n rounds: F takes the round
\* and what the round before it left.
IsLoop(n, b, F, h) == h = [i \in 0 .. n |-> IF i = 0 THEN b ELSE F[<<i, h[i - 1]>>]]

\* A loop has such a history: its start and one round after another.
LEMMA LoopExists ==
  ASSUME NEW n \in Nat, NEW S, NEW b \in S,
         NEW F, \A i \in 1 .. n, x \in S : F[<<i, x>>] \in S
  PROVE  \E h \in [0 .. n -> S] : IsLoop(n, b, F, h)
<1> DEFINE T == {m \in 0 .. n : ~ \E h \in [0 .. m -> S] : IsLoop(m, b, F, h)}
<1>1. SUFFICES ASSUME T # {}
               PROVE  FALSE
  <2>1. n \in 0 .. n
    OBVIOUS
  <2>2. QED
    BY <2>1, <1>1
<1>2. PICK m \in T : \A y \in T : m <= y
  <2>1. T \in SUBSET Nat
    OBVIOUS
  <2> HIDE DEF T
  <2>2. QED
    BY <2>1, <1>1, Least, Zenon
<1>3. m \in 0 .. n /\ ~ \E h \in [0 .. m -> S] : IsLoop(m, b, F, h)
  OBVIOUS
<1>4. CASE m = 0
  <2> DEFINE h == [i \in 0 .. m |-> b]
  <2>1. h \in [0 .. m -> S] /\ IsLoop(m, b, F, h)
    BY <1>4 DEF IsLoop
  <2>2. QED
    BY <1>3, <2>1
<1>5. CASE m # 0
  <2>1. m - 1 \in 0 .. n /\ m \in 1 .. n
    BY <1>3, <1>5
  <2>2. m - 1 \notin T
    BY <1>2, <2>1
  <2>3. PICK g \in [0 .. m - 1 -> S] : IsLoop(m - 1, b, F, g)
    BY <2>1, <2>2
  <2> DEFINE h == [i \in 0 .. m |-> IF i = m THEN F[<<m, g[m - 1]>>] ELSE g[i]]
  <2>4. F[<<m, g[m - 1]>>] \in S
    <3>1. g[m - 1] \in S
      BY <2>1, <2>3
    <3>2. QED
      BY <3>1, <2>1
  <2>5. h \in [0 .. m -> S]
    <3>1. \A i \in 0 .. m : h[i] \in S
      BY <2>1, <2>3, <2>4
    <3>2. QED
      BY <3>1
  <2>6. \A i \in 0 .. m : h[i] = IF i = 0 THEN b ELSE F[<<i, h[i - 1]>>]
    <3> SUFFICES ASSUME NEW i \in 0 .. m
                 PROVE  h[i] = IF i = 0 THEN b ELSE F[<<i, h[i - 1]>>]
      OBVIOUS
    <3>1. CASE i = m
      <4>1. h[i] = F[<<m, g[m - 1]>>] /\ h[i - 1] = g[m - 1]
        BY <3>1, <2>1
      <4>2. QED
        BY <4>1, <3>1, <1>5
    <3>2. CASE i # m
      <4>1. i \in 0 .. m - 1 /\ h[i] = g[i]
        BY <3>2, <2>1
      <4>2. i # 0 => i - 1 \in 0 .. m /\ h[i - 1] = g[i - 1]
        BY <4>1, <2>1
      <4>3. g[i] = IF i = 0 THEN b ELSE F[<<i, g[i - 1]>>]
        BY <2>3, <4>1 DEF IsLoop
      <4>4. QED
        BY <4>1, <4>2, <4>3
    <3>3. QED
      BY <3>1, <3>2
  <2>7. IsLoop(m, b, F, h)
    <3>1. h = [i \in 0 .. m |-> h[i]]
      OBVIOUS
    <3> HIDE DEF h
    <3>2. QED
      BY <3>1, <2>6 DEF IsLoop
  <2>8. QED
    BY <1>3, <2>5, <2>7
<1>6. QED
  BY <1>4, <1>5


\* g is the function by which FoldLeft goes through a sequence of length n: on
\* every set of positions, the greatest last.
IsFold(n, b, F, g) ==
  g = [d \in SUBSET (1 .. n) |-> IF d = {} THEN b ELSE F[<<Max(d), g[d \ {Max(d)}]>>]]

\* The greatest of a set of positions, as the library computes it.
LEMMA MaxIs ==
  ASSUME NEW n \in Nat, NEW d \in SUBSET (1 .. n), d # {}
  PROVE  Max(d) \in d /\ \A y \in d : y <= Max(d)
<1> DEFINE T == {m \in Nat : \A y \in d : y <= m}
<1>1. n \in T
  OBVIOUS
<1>2. PICK m \in T : \A x \in T : m <= x
  <2>1. T \in SUBSET Nat /\ T # {}
    BY <1>1
  <2> HIDE DEF T
  <2>2. QED
    BY <2>1, Least, Zenon
<1>3. m \in d
  <2>1. SUFFICES ASSUME m \notin d
                 PROVE  FALSE
    OBVIOUS
  <2>2. m - 1 \in T
    <3>1. PICK z \in d : TRUE
      OBVIOUS
    <3>2. \A y \in d : y \in 1 .. n /\ y <= m /\ y # m
      BY <1>2, <2>1
    <3>3. m \in Nat /\ m # 0 /\ \A y \in d : y <= m - 1
      BY <3>1, <3>2
    <3>4. QED
      BY <3>3
  <2>3. QED
    BY <1>2, <2>2
<1>4. QED
  BY <1>2, <1>3 DEF Max

\* A fold has such a function.
LEMMA FoldExists ==
  ASSUME NEW n \in Nat, NEW S, NEW b \in S, NEW F \in [(1 .. n) \X S -> S]
  PROVE  \E g \in [SUBSET (1 .. n) -> S] : IsFold(n, b, F, g)
<1> DEFINE K == [SUBSET (1 .. n) -> S]
           Start == [d \in SUBSET (1 .. n) |-> b]
           Better(g) == [d \in SUBSET (1 .. n) |->
                           IF d = {} THEN b ELSE F[<<Max(d), g[d \ {Max(d)}]>>]]
           G == [p \in (1 .. n + 1) \X K |-> Better(p[2])]
<1>1. Start \in K
  OBVIOUS
<1>2. ASSUME NEW g \in K
      PROVE  Better(g) \in K
  <2>1. ASSUME NEW d \in SUBSET (1 .. n), d # {}
        PROVE  F[<<Max(d), g[d \ {Max(d)}]>>] \in S
    <3>1. Max(d) \in 1 .. n /\ d \ {Max(d)} \in SUBSET (1 .. n)
      BY <2>1, MaxIs
    <3>2. g[d \ {Max(d)}] \in S
      BY <3>1
    <3>3. <<Max(d), g[d \ {Max(d)}]>> \in (1 .. n) \X S
      BY <3>1, <3>2
    <3>4. QED
      BY <3>3
  <2>2. QED
    BY <2>1
<1>3. \A i \in 1 .. n + 1, g \in K : G[<<i, g>>] \in K
  <2>1. \A p \in (1 .. n + 1) \X K : Better(p[2]) \in K
    <3> HIDE DEF Better, K
    <3>1. QED
      BY <1>2
  <2> HIDE DEF Better, K
  <2>2. QED
    BY <2>1
<1>4. PICK h \in [0 .. n + 1 -> K] : IsLoop(n + 1, Start, G, h)
  <2> HIDE DEF G, K, Start
  <2>1. n + 1 \in Nat
    OBVIOUS
  <2>2. QED
    BY <2>1, <1>1, <1>3, LoopExists
<1>5. \A k \in 0 .. n : h[k] \in K /\ h[k + 1] = Better(h[k])
  <2> HIDE DEF Better, K, Start
  <2>1. SUFFICES ASSUME NEW k \in 0 .. n
                 PROVE  h[k] \in K /\ h[k + 1] = Better(h[k])
    OBVIOUS
  <2>2. k \in 0 .. n + 1 /\ k + 1 \in 0 .. n + 1 /\ k + 1 # 0 /\ (k + 1) - 1 = k
    OBVIOUS
  <2>3. h[k] \in K
    BY <2>2
  <2>4. h[k + 1] = G[<<k + 1, h[k]>>]
    <3> HIDE DEF G
    <3>1. QED
      BY <1>4, <2>2 DEF IsLoop
  <2>5. <<k + 1, h[k]>> \in (1 .. n + 1) \X K
    BY <2>2, <2>3
  <2>6. QED
    BY <2>3, <2>4, <2>5
<1>6. \A k \in 0 .. n : \A d \in SUBSET (1 .. k) : h[k][d] = h[k + 1][d]
  <2> DEFINE T == {k \in 0 .. n : \E d \in SUBSET (1 .. k) : h[k][d] # h[k + 1][d]}
  <2>1. SUFFICES ASSUME T # {}
                 PROVE  FALSE
    OBVIOUS
  <2>2. PICK k \in T : \A y \in T : k <= y
    <3>1. T \in SUBSET Nat
      OBVIOUS
    <3> HIDE DEF T
    <3>2. QED
      BY <2>1, <3>1, Least, Zenon
  <2>3. PICK d \in SUBSET (1 .. k) : h[k][d] # h[k + 1][d]
    BY <2>2
  <2>4. d \in SUBSET (1 .. n) /\ k \in 0 .. n
    OBVIOUS
  <2>5. h[k + 1][d] = Better(h[k])[d]
    <3> HIDE DEF Better, K
    <3>1. QED
      BY <2>4, <1>5
  <2>6. CASE k = 0
    <3>1. d = {}
      BY <2>6
    <3>2. h[0] = Start
      <4> HIDE DEF G, K, Start
      <4>1. 0 \in 0 .. n + 1
        OBVIOUS
      <4>2. QED
        BY <1>4, <4>1 DEF IsLoop
    <3>3. QED
      BY <2>3, <2>4, <2>5, <2>6, <3>1, <3>2
  <2>7. CASE k # 0
    <3>1. k - 1 \in 0 .. n /\ (k - 1) + 1 = k
      BY <2>4, <2>7
    <3>2. h[k][d] = Better(h[k - 1])[d]
      <4> HIDE DEF Better, K
      <4>1. QED
        BY <3>1, <1>5
    <3>3. k - 1 \notin T
      BY <2>2, <3>1
    <3>4. d # {}
      <4>1. d = {} => h[k][d] = b /\ h[k + 1][d] = b
        BY <2>4, <2>5, <3>2
      <4>2. QED
        BY <4>1, <2>3
    <3>5. d \ {Max(d)} \in SUBSET (1 .. k - 1)
      <4>1. Max(d) \in d /\ \A y \in d : y <= Max(d)
        BY <2>4, <3>4, MaxIs
      <4>2. \A y \in d : y \in 1 .. k
        OBVIOUS
      <4>3. ASSUME NEW y \in d, y # Max(d)
            PROVE  y \in 1 .. k - 1
        <5>1. y \in 1 .. k /\ Max(d) \in 1 .. k /\ y <= Max(d)
          BY <4>1, <4>2
        <5>2. QED
          BY <5>1, <4>3, <2>4
      <4>4. QED
        BY <4>3
    <3>6. h[k - 1][d \ {Max(d)}] = h[k][d \ {Max(d)}]
      BY <3>1, <3>3, <3>5
    <3>7. QED
      BY <2>3, <2>4, <2>5, <3>2, <3>4, <3>6
  <2>8. QED
    BY <2>6, <2>7
<1>7. h[n] \in K /\ h[n] = h[n + 1] /\ h[n + 1] = Better(h[n])
  <2>1. n \in 0 .. n
    OBVIOUS
  <2>2. h[n] \in K /\ h[n + 1] = Better(h[n]) /\ h[n + 1] \in K
    <3> HIDE DEF Better, K
    <3>1. h[n] \in K /\ h[n + 1] = Better(h[n])
      BY <2>1, <1>5
    <3>2. QED
      BY <3>1, <1>2
  <2>3. \A d \in SUBSET (1 .. n) : h[n][d] = h[n + 1][d]
    BY <2>1, <1>6
  <2>4. QED
    <3> HIDE DEF Better, K
    <3>1. h[n] \in [SUBSET (1 .. n) -> S] /\ h[n + 1] \in [SUBSET (1 .. n) -> S]
      BY <2>2 DEF K
    <3>2. QED
      BY <2>2, <2>3, <3>1
<1>8. QED
  BY <1>7 DEF IsFold

\* Such a function, on the segments of positions.
LEMMA FoldSteps ==
  ASSUME NEW n \in Nat, NEW k \in 1 .. n
  PROVE  /\ 1 .. k \in SUBSET (1 .. n)
         /\ 1 .. k # {}
         /\ Max(1 .. k) = k
         /\ (1 .. k) \ {Max(1 .. k)} = 1 .. k - 1
<1>1. 1 .. k \in SUBSET (1 .. n) /\ 1 .. k # {}
  OBVIOUS
<1>2. Max(1 .. k) \in 1 .. k /\ \A y \in 1 .. k : y <= Max(1 .. k)
  BY <1>1, MaxIs
<1>3. Max(1 .. k) = k
  BY <1>2
<1>4. QED
  BY <1>1, <1>3

\* What holds at the start and after every round if it held before, holds after
\* all.
LEMMA Rounds ==
  ASSUME NEW n \in Nat, NEW T, 0 \in T, \A k \in 1 .. n : k - 1 \in T => k \in T
  PROVE  \A k \in 0 .. n : k \in T
<1> DEFINE Missed == {k \in 0 .. n : k \notin T}
<1>1. SUFFICES ASSUME Missed # {}
               PROVE  FALSE
  OBVIOUS
<1>2. PICK k \in Missed : \A y \in Missed : k <= y
  <2>1. Missed \in SUBSET Nat
    OBVIOUS
  <2> HIDE DEF Missed
  <2>2. QED
    BY <2>1, <1>1, Least, Zenon
<1>3. k \in 1 .. n /\ k - 1 \in 0 .. n /\ k \notin T
  OBVIOUS
<1>4. k - 1 \notin Missed
  BY <1>2, <1>3
<1>5. QED
  BY <1>3, <1>4

\* The history of a loop that never ends.
IsEndless(b, F, h) == h = [i \in Nat |-> IF i = 0 THEN b ELSE F[<<i, h[i - 1]>>]]

\* A loop that never ends has a history too.
LEMMA LoopForever ==
  ASSUME NEW S, NEW b \in S, NEW F, \A i \in Nat, x \in S : F[<<i, x>>] \in S
  PROVE  \E h \in [Nat -> S] : IsEndless(b, F, h)
<1> DEFINE H(n) == CHOOSE h \in [0 .. n -> S] : IsLoop(n, b, F, h)
<1>0. \A n \in Nat : \A i \in 1 .. n : i \in Nat
  OBVIOUS
<1>1. ASSUME NEW n \in Nat
      PROVE  H(n) \in [0 .. n -> S] /\ IsLoop(n, b, F, H(n))
  <2>1. \E h \in [0 .. n -> S] : IsLoop(n, b, F, h)
    <3>1. \A i \in 1 .. n, x \in S : F[<<i, x>>] \in S
      BY <1>0, Zenon
    <3>2. QED
      BY <3>1, LoopExists
  <2>2. QED
    BY <2>1
<1> HIDE DEF H
<1>2. ASSUME NEW n \in Nat, NEW i \in 0 .. n
      PROVE  H(n)[i] = IF i = 0 THEN b ELSE F[<<i, H(n)[i - 1]>>]
  BY <1>1 DEF IsLoop
<1>3. ASSUME NEW n \in Nat
      PROVE  \A i \in 0 .. n : H(n + 1)[i] = H(n)[i]
  <2> DEFINE T == {i \in 0 .. n : H(n + 1)[i] = H(n)[i]}
  <2>1. 0 \in T
    <3>1. H(n + 1)[0] = b /\ H(n)[0] = b
      <4>1. n + 1 \in Nat /\ 0 \in 0 .. n /\ 0 \in 0 .. n + 1
        OBVIOUS
      <4>2. QED
        BY <1>2, <4>1
    <3>2. QED
      BY <3>1
  <2>2. ASSUME NEW i \in 1 .. n, i - 1 \in T
        PROVE  i \in T
    <3>1. i \in 0 .. n /\ i \in 0 .. n + 1 /\ i # 0 /\ n + 1 \in Nat
      OBVIOUS
    <3>2. H(n + 1)[i] = F[<<i, H(n + 1)[i - 1]>>] /\ H(n)[i] = F[<<i, H(n)[i - 1]>>]
      BY <1>2, <3>1
    <3>3. QED
      BY <2>2, <3>1, <3>2
  <2> HIDE DEF T
  <2>3. \A i \in 0 .. n : i \in T
    BY <2>1, <2>2, Rounds
  <2>4. QED
    BY <2>3 DEF T
<1> DEFINE h == [i \in Nat |-> H(i)[i]]
<1>4. \A i \in Nat : h[i] \in S
  BY <1>1
<1>5. \A i \in Nat : h[i] = IF i = 0 THEN b ELSE F[<<i, h[i - 1]>>]
  <2> SUFFICES ASSUME NEW i \in Nat
               PROVE  h[i] = IF i = 0 THEN b ELSE F[<<i, h[i - 1]>>]
    OBVIOUS
  <2>1. H(i)[i] = IF i = 0 THEN b ELSE F[<<i, H(i)[i - 1]>>]
    BY <1>2
  <2>2. i # 0 => H(i)[i - 1] = H(i - 1)[i - 1]
    <3>1. i # 0 => i - 1 \in Nat /\ i - 1 \in 0 .. i - 1 /\ (i - 1) + 1 = i
      OBVIOUS
    <3>2. i # 0 => \A j \in 0 .. i - 1 : H((i - 1) + 1)[j] = H(i - 1)[j]
      BY <1>3, <3>1
    <3>3. QED
      BY <3>1, <3>2
  <2>3. QED
    BY <2>1, <2>2
<1>6. h \in [Nat -> S] /\ h = [i \in Nat |-> h[i]]
  BY <1>4
<1> HIDE DEF h
<1>7. QED
  BY <1>5, <1>6 DEF IsEndless

-----------------------------------------------------------------------------
(* redact_free_text *)

\* What a text holds after it was scrubbed, and what the loop carries.
Shown == Tokens \cup {"noun=<redacted>", "<redacted>"}

Carried == [out : Seq(Shown), pending : 0 .. kWindow]

\* One round leaves what a round may start with.
LEMMA ScrubTokenType ==
  ASSUME NEW st \in Carried, NEW tok \in Shown
  PROVE  ScrubToken(st, tok) \in Carried
<1>1. st.out \in Seq(Shown) /\ st.pending \in 0 .. kWindow
  BY DEF Carried
<1>2. \A t \in Shown, p \in 0 .. kWindow : Says(st, t, p) \in Carried
  BY <1>1 DEF Says, Carried
<1>3. st.pending > 0 => st.pending - 1 \in 0 .. kWindow
  BY <1>1 DEF kWindow
<1>4. 0 \in 0 .. kWindow /\ kWindow \in 0 .. kWindow
  BY DEF kWindow
<1>5. "noun=<redacted>" \in Shown /\ "<redacted>" \in Shown
  BY DEF Shown
<1>6. (IF st.pending > 0 THEN st.pending - 1 ELSE 0) \in 0 .. kWindow
  BY <1>3, <1>4
<1>7. (IF st.pending > 0 THEN "<redacted>" ELSE tok) \in Shown
  BY <1>5
<1>8. QED
  BY <1>1, <1>2, <1>4, <1>5, <1>6, <1>7, Zenon DEF ScrubToken

\* The function by which the fold goes through a text.
ScrubFold(text, g) ==
  g = [d \in SUBSET (DOMAIN text) |->
         IF d = {} THEN NoText ELSE ScrubToken(g[d \ {Max(d)}], text[Max(d)])]

\* The fold by such a function.
LEMMA ScrubUnfolds ==
  \A text : FoldLeft(ScrubToken, NoText, text) = (CHOOSE g : ScrubFold(text, g))[DOMAIN text]
BY DEF FoldLeft, MapThenFoldSet, ScrubFold

\* There is one for every text.
LEMMA ScrubFoldExists ==
  ASSUME NEW text \in Seq(Shown)
  PROVE  \E g : ScrubFold(text, g)
<1> DEFINE n == Len(text)
           F == [p \in (1 .. n) \X Carried |-> ScrubToken(p[2], text[p[1]])]
<1>1. n \in Nat /\ DOMAIN text = 1 .. n /\ \A i \in 1 .. n : text[i] \in Shown
  OBVIOUS
<1>2. NoText \in Carried
  BY DEF NoText, Carried, kWindow
<1>3. F \in [(1 .. n) \X Carried -> Carried]
  BY <1>1, ScrubTokenType
<1>4. PICK g \in [SUBSET (1 .. n) -> Carried] : IsFold(n, NoText, F, g)
  <2> HIDE DEF F, n
  <2>1. QED
    BY <1>1, <1>2, <1>3, FoldExists
<1>5. ASSUME NEW d \in SUBSET (1 .. n), d # {}
      PROVE  F[<<Max(d), g[d \ {Max(d)}]>>] = ScrubToken(g[d \ {Max(d)}], text[Max(d)])
  <2>1. Max(d) \in 1 .. n
    BY <1>1, <1>5, MaxIs
  <2>2. g[d \ {Max(d)}] \in Carried
    OBVIOUS
  <2>3. QED
    BY <2>1, <2>2
<1>6. ScrubFold(text, g)
  <2> HIDE DEF F, n
  <2>1. g = [d \in SUBSET (1 .. n) |-> IF d = {} THEN NoText ELSE F[<<Max(d), g[d \ {Max(d)}]>>]]
    BY <1>4 DEF IsFold
  <2>2. g = [d \in SUBSET (1 .. n) |->
               IF d = {} THEN NoText ELSE ScrubToken(g[d \ {Max(d)}], text[Max(d)])]
    BY <2>1, <1>5
  <2>3. QED
    BY <2>2, <1>1 DEF ScrubFold
<1>7. QED
  BY <1>6

\* What the loop carries, round by round.
ScrubRun(text, h) ==
  /\ h[0] = NoText
  /\ \A i \in 1 .. Len(text) : h[i] = ScrubToken(h[i - 1], text[i])
  /\ \A i \in 0 .. Len(text) : h[i] \in Carried
  /\ redact_free_text(text) = h[Len(text)].out

\* There is a run through every text.
LEMMA ScrubRuns ==
  ASSUME NEW text \in Seq(Shown)
  PROVE  \E h : ScrubRun(text, h)
<1> DEFINE n == Len(text)
<1>1. n \in Nat /\ DOMAIN text = 1 .. n /\ \A i \in 1 .. n : text[i] \in Shown
  OBVIOUS
<1>2. PICK g : ScrubFold(text, g) /\ FoldLeft(ScrubToken, NoText, text) = g[DOMAIN text]
  BY ScrubUnfolds, ScrubFoldExists
<1> DEFINE h == [i \in 0 .. n |-> g[1 .. i]]
<1>3. h[0] = NoText
  <2>1. g[{}] = NoText
    BY <1>2 DEF ScrubFold
  <2>2. 1 .. 0 = {}
    OBVIOUS
  <2>3. QED
    BY <2>1, <2>2, <1>1
<1>4. ASSUME NEW i \in 1 .. n
      PROVE  h[i] = ScrubToken(h[i - 1], text[i])
  <2>1. /\ 1 .. i \in SUBSET (1 .. n) /\ 1 .. i # {} /\ Max(1 .. i) = i
        /\ (1 .. i) \ {Max(1 .. i)} = 1 .. i - 1
    BY <1>1, FoldSteps
  <2>2. g[1 .. i] = ScrubToken(g[1 .. i - 1], text[i])
    BY <1>1, <1>2, <2>1 DEF ScrubFold
  <2>3. i \in 0 .. n /\ i - 1 \in 0 .. n
    BY <1>1
  <2>4. QED
    BY <2>2, <2>3
<1>5. \A i \in 0 .. n : h[i] \in Carried
  <2> DEFINE T == {i \in 0 .. n : h[i] \in Carried}
  <2>1. 0 \in T
    <3>1. NoText \in Carried /\ 0 \in 0 .. n
      BY <1>1 DEF NoText, Carried, kWindow
    <3> HIDE DEF h
    <3>2. QED
      BY <3>1, <1>3
  <2>2. ASSUME NEW i \in 1 .. n, i - 1 \in T
        PROVE  i \in T
    <3> HIDE DEF h
    <3>1. h[i] \in Carried
      BY <1>1, <1>4, <2>2, ScrubTokenType
    <3>2. QED
      BY <3>1
  <2>3. \A i \in 0 .. n : i \in T
    <3> HIDE DEF T
    <3>1. QED
      BY <1>1, <2>1, <2>2, Rounds
  <2>4. QED
    BY <2>3
<1>6. redact_free_text(text) = h[n].out
  BY <1>1, <1>2 DEF redact_free_text
<1>7. ScrubRun(text, h)
  <2> HIDE DEF h
  <2>1. QED
    BY <1>3, <1>4, <1>5, <1>6 DEF ScrubRun
<1>8. QED
  BY <1>7

\* The stop words from position j to i, and a credential noun at j that is
\* followed by nothing else than these and punctuation up to i.
Stops(text, j, i) == {k \in j .. i : text[k] = "stop"}

Window(text, j, i) ==
  /\ text[j] = "noun"
  /\ \A k \in j + 1 .. i : text[k] \in {"stop", "punct"}

\* The number of stop words grows by one with each.
LEMMA StopsGrow ==
  ASSUME NEW text, NEW i \in Nat, NEW j \in 1 .. i
  PROVE  /\ Cardinality(Stops(text, j, i)) \in Nat
         /\ Cardinality(Stops(text, j, i + 1)) =
              Cardinality(Stops(text, j, i)) + (IF text[i + 1] = "stop" THEN 1 ELSE 0)
<1> DEFINE A == Stops(text, j, i)
<1>1. IsFiniteSet(j .. i)
  <2>1. j \in Int /\ i \in Int
    OBVIOUS
  <2>2. QED
    BY <2>1, FS_Interval, Zenon
<1>2. IsFiniteSet(A) /\ Cardinality(A) \in Nat
  <2>1. A \subseteq j .. i
    BY DEF Stops
  <2>2. IsFiniteSet(A)
    BY <1>1, <2>1, FS_Subset, Zenon
  <2>3. QED
    BY <2>2, FS_CardinalityType
<1>3. i + 1 \notin A
  BY DEF Stops
<1>4. CASE text[i + 1] = "stop"
  <2>1. Stops(text, j, i + 1) = A \cup {i + 1}
    BY <1>4 DEF Stops
  <2>2. Cardinality(A \cup {i + 1}) = Cardinality(A) + 1
    <3> HIDE DEF A
    <3>1. QED
      BY <1>2, <1>3, FS_AddElement
  <2>3. QED
    BY <1>2, <1>4, <2>1, <2>2
<1>5. CASE text[i + 1] # "stop"
  <2>1. Stops(text, j, i + 1) = A
    BY <1>5 DEF Stops
  <2>2. QED
    BY <1>2, <1>5, <2>1
<1>6. QED
  BY <1>4, <1>5

\* At the noun itself there is none.
LEMMA NoStopsYet ==
  ASSUME NEW text, NEW i \in Nat, text[i] = "noun"
  PROVE  Cardinality(Stops(text, i, i)) = 0
<1>1. Stops(text, i, i) = {}
  <2>1. ASSUME NEW k \in i .. i
        PROVE  text[k] # "stop"
    BY <2>1
  <2>2. QED
    BY <2>1 DEF Stops
<1>2. QED
  BY <1>1, FS_EmptySet

\* The tokens left in the window that a noun at j opened, after position i.
Left(text, j, i) ==
  LET c == Cardinality(Stops(text, j, i)) IN IF c < kWindow THEN kWindow - c ELSE 0

\* What the loop knows of the nouns after i tokens.
KnowsWindow(text, i, p) ==
  /\ \A j \in 1 .. i : Window(text, j, i) => p = Left(text, j, i)
  /\ p > 0 => \E j \in 1 .. i : Window(text, j, i)

\* A window is one of the token before, unless its noun is the last token.
LEMMA WindowGrows ==
  ASSUME NEW text, NEW i \in Nat, NEW j \in 1 .. i + 1
  PROVE  Window(text, j, i + 1) <=>
           IF j = i + 1 THEN text[i + 1] = "noun"
           ELSE Window(text, j, i) /\ text[i + 1] \in {"stop", "punct"}
<1>1. CASE j = i + 1
  BY <1>1 DEF Window
<1>2. CASE j # i + 1
  <2>1. j + 1 .. i + 1 = (j + 1 .. i) \cup {i + 1}
    BY <1>2
  <2>2. QED
    BY <1>2, <2>1 DEF Window
<1>3. QED
  BY <1>1, <1>2

\* One round keeps it.
LEMMA ScrubTokenWindow ==
  ASSUME NEW text, NEW i \in Nat, NEW st \in Carried, text[i + 1] \in Tokens,
         KnowsWindow(text, i, st.pending)
  PROVE  KnowsWindow(text, i + 1, ScrubToken(st, text[i + 1]).pending)
<1> DEFINE tok == text[i + 1]
           p == ScrubToken(st, tok).pending
<1>1. st.pending \in 0 .. kWindow
  BY DEF Carried
<1>2. \A j \in 1 .. i + 1 : j # i + 1 => j \in 1 .. i
  OBVIOUS
<1>3. CASE tok \in {"pair", "word"}
  <2>1. p = 0
    BY <1>3 DEF ScrubToken, Says
  <2>2. \A j \in 1 .. i + 1 : ~Window(text, j, i + 1)
    BY <1>3, WindowGrows
  <2>3. QED
    BY <2>1, <2>2 DEF KnowsWindow
<1>4. CASE tok = "noun"
  <2>1. p = kWindow
    BY <1>4 DEF ScrubToken, Says
  <2>2. \A j \in 1 .. i + 1 : Window(text, j, i + 1) <=> j = i + 1
    BY <1>4, WindowGrows
  <2>3. Left(text, i + 1, i + 1) = kWindow
    BY <1>4, NoStopsYet DEF Left, kWindow
  <2>4. QED
    BY <2>1, <2>2, <2>3 DEF KnowsWindow
<1>5. ASSUME tok \in {"stop", "punct"}
      PROVE  \A j \in 1 .. i + 1 : Window(text, j, i + 1) <=> j \in 1 .. i /\ Window(text, j, i)
  BY <1>2, <1>5, WindowGrows
<1>6. CASE tok = "punct"
  <2>1. p = st.pending
    BY <1>6 DEF ScrubToken, Says
  <2>2. \A j \in 1 .. i : Left(text, j, i + 1) = Left(text, j, i)
    <3>1. ASSUME NEW j \in 1 .. i
          PROVE  Cardinality(Stops(text, j, i + 1)) = Cardinality(Stops(text, j, i))
      <4>1. /\ Cardinality(Stops(text, j, i)) \in Nat
            /\ Cardinality(Stops(text, j, i + 1)) =
                 Cardinality(Stops(text, j, i)) + (IF text[i + 1] = "stop" THEN 1 ELSE 0)
        BY StopsGrow
      <4>2. text[i + 1] # "stop"
        BY <1>6
      <4>3. QED
        BY <4>1, <4>2
    <3>2. QED
      BY <3>1 DEF Left
  <2>3. KnowsWindow(text, i + 1, p)
    <3> HIDE DEF p, tok
    <3>1. \A j \in 1 .. i : j \in 1 .. i + 1
      OBVIOUS
    <3>2. QED
      BY <1>5, <1>6, <2>1, <2>2, <3>1 DEF KnowsWindow
  <2>4. QED
    BY <2>3
<1>7. CASE tok = "stop"
  <2>1. p = IF st.pending > 0 THEN st.pending - 1 ELSE 0
    BY <1>7 DEF ScrubToken, Says
  <2>2. \A j \in 1 .. i : Left(text, j, i + 1) = IF Left(text, j, i) > 0 THEN Left(text, j, i) - 1 ELSE 0
    <3>1. ASSUME NEW j \in 1 .. i
          PROVE  /\ Cardinality(Stops(text, j, i)) \in Nat
                 /\ Cardinality(Stops(text, j, i + 1)) = Cardinality(Stops(text, j, i)) + 1
      <4>1. /\ Cardinality(Stops(text, j, i)) \in Nat
            /\ Cardinality(Stops(text, j, i + 1)) =
                 Cardinality(Stops(text, j, i)) + (IF text[i + 1] = "stop" THEN 1 ELSE 0)
        BY StopsGrow
      <4>2. text[i + 1] = "stop"
        BY <1>7
      <4>3. QED
        BY <4>1, <4>2
    <3> HIDE DEF p, tok
    <3>2. \A c \in Nat : (IF c + 1 < kWindow THEN kWindow - (c + 1) ELSE 0) =
                           LET l == IF c < kWindow THEN kWindow - c ELSE 0
                           IN  IF l > 0 THEN l - 1 ELSE 0
      BY DEF kWindow
    <3>3. ASSUME NEW j \in 1 .. i
          PROVE  Left(text, j, i + 1) = IF Left(text, j, i) > 0 THEN Left(text, j, i) - 1 ELSE 0
      <4>1. PICK c \in Nat : /\ Cardinality(Stops(text, j, i)) = c
                             /\ Cardinality(Stops(text, j, i + 1)) = c + 1
        BY <3>1
      <4>2. QED
        BY <4>1, <3>2 DEF Left
    <3>4. QED
      BY <3>3
  <2>3. \A j \in 1 .. i : j \in 1 .. i + 1
    OBVIOUS
  <2>4. \A j \in 1 .. i + 1 : Window(text, j, i + 1) => p = Left(text, j, i + 1)
    <3> HIDE DEF p, tok
    <3>1. QED
      BY <1>5, <1>7, <2>1, <2>2 DEF KnowsWindow
  <2>5. p > 0 => \E j \in 1 .. i + 1 : Window(text, j, i + 1)
    <3> HIDE DEF p, tok
    <3>1. p > 0 => st.pending > 0
      BY <1>1, <2>1
    <3>2. QED
      BY <1>5, <1>7, <2>3, <3>1 DEF KnowsWindow
  <2>6. QED
    BY <2>4, <2>5 DEF KnowsWindow
<1>8. QED
  BY <1>3, <1>4, <1>6, <1>7 DEF Tokens

\* A value is hidden where the loop knows of a noun.
LEMMA FollowsNounIs ==
  ASSUME NEW text, NEW i \in Nat, NEW p \in 0 .. kWindow, KnowsWindow(text, i, p)
  PROVE  p > 0 <=> FollowsNoun(text, i + 1)
<1>1. FollowsNoun(text, i + 1) <=>
        \E j \in 1 .. i : Window(text, j, i) /\ Cardinality(Stops(text, j, i)) < kWindow
  BY DEF FollowsNoun, Window, Stops
<1>2. \A j \in 1 .. i : Cardinality(Stops(text, j, i)) \in Nat
  BY StopsGrow
<1>3. \A j \in 1 .. i : Left(text, j, i) > 0 <=> Cardinality(Stops(text, j, i)) < kWindow
  BY <1>2 DEF Left, kWindow
<1>4. QED
  BY <1>1, <1>3 DEF KnowsWindow

\* What stands for a token of a text.
Said(text, i) ==
  IF text[i] = "pair" THEN "noun=<redacted>"
  ELSE IF text[i] = "word" /\ FollowsNoun(text, i) THEN "<redacted>"
  ELSE text[i]

\* What the loop has after i tokens: the text so far as it should be, and what
\* it knows of the nouns.
ScrubState(text, i, st) ==
  /\ st.out = [k \in 1 .. i |-> Said(text, k)]
  /\ KnowsWindow(text, i, st.pending)

\* What the loop knows after a token, if it knew as much before it: what it has
\* shown, and how far a noun still reaches.
LEMMA ScrubStep ==
  ASSUME NEW text, NEW i \in Nat, NEW st \in Carried, text[i + 1] \in Tokens,
         ScrubState(text, i, st)
  PROVE  ScrubState(text, i + 1, ScrubToken(st, text[i + 1]))
<1> DEFINE new == ScrubToken(st, text[i + 1])
<1>1. KnowsWindow(text, i + 1, new.pending)
  BY ScrubTokenWindow DEF ScrubState
<1>2. st.pending \in 0 .. kWindow
  BY DEF Carried
<1>3. st.pending > 0 <=> FollowsNoun(text, i + 1)
  <2>1. KnowsWindow(text, i, st.pending)
    BY DEF ScrubState
  <2>2. QED
    BY <1>2, <2>1, FollowsNounIs
<1>4. new.out = Append(st.out, Said(text, i + 1))
  <2>1. CASE text[i + 1] = "word"
    BY <2>1, <1>3 DEF ScrubToken, Says, Said
  <2>2. CASE text[i + 1] # "word"
    BY <2>2 DEF ScrubToken, Says, Said, Tokens
  <2>3. QED
    BY <2>1, <2>2
<1>5. Append([k \in 1 .. i |-> Said(text, k)], Said(text, i + 1)) = [k \in 1 .. i + 1 |-> Said(text, k)]
  OBVIOUS
<1>6. QED
  BY <1>1, <1>4, <1>5 DEF ScrubState

\* Scrubbing what a round has shown leads to what the round has led to.
LEMMA ScrubTokenAgain ==
  ASSUME NEW st \in Carried, NEW tok \in Tokens, NEW shown,
         ScrubToken(st, tok).out = Append(st.out, shown)
  PROVE  ScrubToken(st, shown) = ScrubToken(st, tok)
<1>1. st.out \in Seq(Shown)
  BY DEF Carried
<1>2. \A x, y : Append(st.out, x) = Append(st.out, y) => x = y
  BY <1>1
<1>3. CASE tok = "pair"
  <2>1. shown = "noun=<redacted>"
    BY <1>2, <1>3 DEF ScrubToken, Says
  <2>2. QED
    BY <1>3, <2>1 DEF ScrubToken, Says
<1>4. CASE tok \in {"punct", "noun", "stop"}
  <2>1. shown = tok
    BY <1>2, <1>4 DEF ScrubToken, Says
  <2>2. QED
    BY <2>1
<1>5. CASE tok = "word"
  <2>1. shown = IF st.pending > 0 THEN "<redacted>" ELSE tok
    BY <1>2, <1>5 DEF ScrubToken, Says
  <2>2. QED
    BY <1>5, <2>1 DEF ScrubToken, Says
<1>6. QED
  BY <1>3, <1>4, <1>5 DEF Tokens

\* Prose of every length is scrubbed as it should be.
LEMMA ScrubsText ==
  ASSUME NEW text \in Seq(Tokens)
  PROVE  Scrubs(text)
<1> DEFINE n == Len(text)
           out == [k \in 1 .. n |-> Said(text, k)]
<1>1. n \in Nat /\ (\A i \in 1 .. n : text[i] \in Tokens) /\ text \in Seq(Shown)
  BY DEF Shown
<1>2. PICK h : ScrubRun(text, h)
  BY <1>1, ScrubRuns
<1>3. /\ h[0] = NoText
      /\ \A i \in 1 .. n : h[i] = ScrubToken(h[i - 1], text[i])
      /\ \A i \in 0 .. n : h[i] \in Carried
      /\ redact_free_text(text) = h[n].out
  BY <1>2 DEF ScrubRun
<1>4. \A i \in 0 .. n : ScrubState(text, i, h[i])
  <2> DEFINE T == {i \in 0 .. n : ScrubState(text, i, h[i])}
  <2>1. 0 \in T
    <3>1. ScrubState(text, 0, NoText)
      BY DEF ScrubState, KnowsWindow, NoText
    <3>2. QED
      BY <1>1, <1>3, <3>1
  <2>2. ASSUME NEW i \in 1 .. n, i - 1 \in T
        PROVE  i \in T
    <3>1. i - 1 \in Nat /\ i - 1 \in 0 .. n /\ (i - 1) + 1 = i /\ ScrubState(text, i - 1, h[i - 1])
      BY <1>1, <2>2
    <3>2. ScrubState(text, (i - 1) + 1, ScrubToken(h[i - 1], text[(i - 1) + 1]))
      <4>1. h[i - 1] \in Carried /\ text[(i - 1) + 1] \in Tokens
        BY <1>1, <1>3, <3>1
      <4> HIDE DEF n
      <4>2. QED
        BY <3>1, <4>1, ScrubStep
    <3>3. ScrubState(text, i, h[i])
      BY <1>3, <3>1, <3>2
    <3>4. QED
      BY <3>3
  <2> HIDE DEF T
  <2>3. \A i \in 0 .. n : i \in T
    BY <1>1, <2>1, <2>2, Rounds
  <2>4. QED
    BY <2>3 DEF T
<1>5. redact_free_text(text) = out
  <2>1. n \in 0 .. n
    BY <1>1
  <2>2. QED
    BY <1>3, <1>4, <2>1 DEF ScrubState
<1>6. out \in Seq(Shown) /\ Len(out) = n
  <2>1. h[n] \in Carried
    BY <1>1, <1>3
  <2>2. out \in Seq(Shown)
    BY <1>3, <1>5, <2>1 DEF Carried
  <2>3. QED
    BY <1>1, <2>2
<1>7. PICK g : ScrubRun(out, g)
  BY <1>6, ScrubRuns
<1>8. /\ g[0] = NoText
      /\ \A i \in 1 .. n : g[i] = ScrubToken(g[i - 1], out[i])
      /\ redact_free_text(out) = g[n].out
  <2> HIDE DEF out
  <2>1. QED
    BY <1>6, <1>7 DEF ScrubRun
<1>9. \A i \in 1 .. n : ScrubToken(h[i - 1], out[i]) = h[i]
  <2> SUFFICES ASSUME NEW i \in 1 .. n
               PROVE  ScrubToken(h[i - 1], out[i]) = h[i]
    OBVIOUS
  <2>1. i \in 0 .. n /\ i - 1 \in 0 .. n /\ i - 1 \in Nat
    BY <1>1
  <2>2. h[i].out = Append(h[i - 1].out, out[i])
    <3>1. h[i].out = [k \in 1 .. i |-> Said(text, k)]
      BY <1>4, <2>1 DEF ScrubState
    <3>2. h[i - 1].out = [k \in 1 .. i - 1 |-> Said(text, k)]
      BY <1>4, <2>1 DEF ScrubState
    <3>3. Append([k \in 1 .. i - 1 |-> Said(text, k)], Said(text, i)) = [k \in 1 .. i |-> Said(text, k)]
      BY <2>1
    <3>4. out[i] = Said(text, i)
      OBVIOUS
    <3>5. QED
      BY <3>1, <3>2, <3>3, <3>4
  <2>3. h[i] = ScrubToken(h[i - 1], text[i]) /\ h[i - 1] \in Carried /\ text[i] \in Tokens
    BY <1>1, <1>3, <2>1
  <2> HIDE DEF out
  <2>4. QED
    BY <2>2, <2>3, ScrubTokenAgain
<1>10. \A i \in 0 .. n : g[i] = h[i]
  <2> DEFINE T == {i \in 0 .. n : g[i] = h[i]}
  <2>1. 0 \in T
    BY <1>1, <1>3, <1>8
  <2>2. ASSUME NEW i \in 1 .. n, i - 1 \in T
        PROVE  i \in T
    <3> HIDE DEF out
    <3>1. QED
      BY <1>1, <1>8, <1>9, <2>2
  <2> HIDE DEF T
  <2>3. \A i \in 0 .. n : i \in T
    BY <1>1, <2>1, <2>2, Rounds
  <2>4. QED
    BY <2>3 DEF T
<1>11. redact_free_text(out) = out
  <2>1. n \in 0 .. n
    BY <1>1
  <2>2. g[n] = h[n]
    BY <1>10, <2>1
  <2>3. h[n].out = out
    BY <1>3, <1>5
  <2> HIDE DEF out
  <2>4. QED
    BY <1>8, <2>2, <2>3
<1>12. QED
  BY <1>5, <1>11 DEF Scrubs, Said

-----------------------------------------------------------------------------
(* next_pow2 *)

\* The powers of two are given by their definition.
LEMMA Pow2Def ==
  /\ Pow2 \in [Nat -> Nat]
  /\ Pow2[0] = 1
  /\ \A k \in Nat : Pow2[k + 1] = 2 * Pow2[k]
<1> DEFINE F == [p \in Nat \X Nat |-> 2 * p[2]]
<1>1. \A i \in Nat, x \in Nat : F[<<i, x>>] = 2 * x /\ F[<<i, x>>] \in Nat
  OBVIOUS
<1>2. PICK h \in [Nat -> Nat] : IsEndless(1, F, h)
  <2>1. \A i \in Nat, x \in Nat : F[<<i, x>>] \in Nat
    BY <1>1
  <2> HIDE DEF F
  <2>2. 1 \in Nat
    OBVIOUS
  <2>3. QED
    BY <2>1, <2>2, LoopForever, Zenon
<1>3. h = [i \in Nat |-> IF i = 0 THEN 1 ELSE 2 * h[i - 1]]
  <2>1. \A i \in Nat : i # 0 => F[<<i, h[i - 1]>>] = 2 * h[i - 1]
    <3> HIDE DEF F
    <3>1. QED
      BY <1>1
  <2> HIDE DEF F
  <2>2. QED
    BY <1>2, <2>1 DEF IsEndless
<1>4. Pow2 = CHOOSE f : f = [k \in Nat |-> IF k = 0 THEN 1 ELSE 2 * f[k - 1]]
  BY DEF Pow2
<1>5. Pow2 = [k \in Nat |-> IF k = 0 THEN 1 ELSE 2 * Pow2[k - 1]]
  BY <1>3, <1>4
<1>6. Pow2[0] = 1 /\ \A k \in Nat : Pow2[k + 1] = 2 * Pow2[k]
  BY <1>5
<1>7. \A k \in Nat : Pow2[k] \in Nat
  <2> SUFFICES ASSUME NEW k \in Nat
               PROVE  Pow2[k] \in Nat
    OBVIOUS
  <2> DEFINE T == {i \in 0 .. k : Pow2[i] \in Nat}
  <2>1. 0 \in T
    BY <1>6
  <2>2. ASSUME NEW i \in 1 .. k, i - 1 \in T
        PROVE  i \in T
    <3>1. i - 1 \in Nat /\ Pow2[(i - 1) + 1] = 2 * Pow2[i - 1]
      BY <1>6
    <3>2. QED
      BY <2>2, <3>1
  <2> HIDE DEF T
  <2>3. \A i \in 0 .. k : i \in T
    BY <2>1, <2>2, Rounds
  <2>4. QED
    BY <2>3 DEF T
<1>8. Pow2 \in [Nat -> Nat]
  BY <1>5, <1>7
<1>9. QED
  BY <1>6, <1>8

\* They grow with their exponent.
LEMMA Pow2Grows ==
  ASSUME NEW w \in Nat
  PROVE  \A k \in 0 .. w : 1 <= Pow2[k] /\ Pow2[k] <= Pow2[w]
<1> DEFINE T == {i \in 0 .. w : 1 <= Pow2[i] /\ \A j \in 0 .. i : Pow2[j] <= Pow2[i]}
<1>1. 0 \in T
  BY Pow2Def
<1>2. ASSUME NEW i \in 1 .. w, i - 1 \in T
      PROVE  i \in T
  <2>1. i - 1 \in Nat /\ (i - 1) + 1 = i /\ Pow2[i - 1] \in Nat /\ Pow2[i] \in Nat
    BY Pow2Def
  <2>2. Pow2[i] = 2 * Pow2[i - 1]
    BY <2>1, Pow2Def
  <2>3. 1 <= Pow2[i] /\ Pow2[i - 1] <= Pow2[i]
    BY <1>2, <2>1, <2>2
  <2>4. ASSUME NEW j \in 0 .. i
        PROVE  Pow2[j] <= Pow2[i]
    <3>1. Pow2[j] \in Nat
      BY Pow2Def
    <3>2. CASE j = i
      BY <2>1, <3>2
    <3>3. CASE j # i
      <4>1. j \in 0 .. i - 1
        BY <3>3
      <4>2. Pow2[j] <= Pow2[i - 1]
        BY <1>2, <4>1
      <4>3. QED
        BY <2>1, <2>3, <3>1, <4>2
    <3>4. QED
      BY <3>2, <3>3
  <2>5. QED
    BY <2>3, <2>4
<1> HIDE DEF T
<1>3. \A i \in 0 .. w : i \in T
  BY <1>1, <1>2, Rounds
<1>4. w \in T
  BY <1>3
<1>5. QED
  BY <1>3, <1>4 DEF T

\* The values of p: the powers from 2 on, and 0 once the bit is shifted out.
Shifted(p, w) == p = [k \in 0 .. w |-> IF k = 0 THEN 2 ELSE (2 * p[k - 1]) % Pow2[w]]

\* The powers next_pow2 goes through are a function.
LEMMA ShiftedExists ==
  ASSUME NEW w \in Nat
  PROVE  \E p : Shifted(p, w)
<1> DEFINE F == [q \in (1 .. w) \X Int |-> (2 * q[2]) % Pow2[w]]
<1>1. Pow2[w] \in Nat /\ Pow2[w] >= 1
  BY SMTT(30), Pow2Def, Pow2Grows
<1>2. \A i \in 1 .. w, x \in Int : F[<<i, x>>] = (2 * x) % Pow2[w] /\ F[<<i, x>>] \in Int
  BY <1>1
<1>3. PICK h \in [0 .. w -> Int] : IsLoop(w, 2, F, h)
  <2>1. \A i \in 1 .. w, x \in Int : F[<<i, x>>] \in Int
    BY <1>2
  <2> HIDE DEF F
  <2>2. 2 \in Int
    OBVIOUS
  <2>3. QED
    BY <2>1, <2>2, LoopExists
<1>4. \A i \in 0 .. w : i # 0 => F[<<i, h[i - 1]>>] = (2 * h[i - 1]) % Pow2[w]
  <2> HIDE DEF F
  <2>1. QED
    BY <1>2
<1>5. Shifted(h, w)
  <2> HIDE DEF F
  <2>1. QED
    BY <1>3, <1>4 DEF Shifted, IsLoop
<1>6. QED
  BY <1>5

\* They are the powers of two up to the width, and zero from there.
LEMMA ShiftedValues ==
  ASSUME NEW w \in Nat, w >= 2, NEW p, Shifted(p, w)
  PROVE  \A k \in 0 .. w : p[k] = IF k < w - 1 THEN Pow2[k + 1] ELSE 0
<1> DEFINE T == {k \in 0 .. w : p[k] = IF k < w - 1 THEN Pow2[k + 1] ELSE 0}
<1>1. 0 \in T
  <2>1. p[0] = 2
    BY DEF Shifted
  <2>2. Pow2[1] = 2
    <3>1. Pow2[0 + 1] = 2 * Pow2[0] /\ Pow2[0] = 1
      BY Pow2Def
    <3>2. QED
      BY <3>1
  <2>3. QED
    BY <2>1, <2>2
<1>2. ASSUME NEW k \in 1 .. w, k - 1 \in T
      PROVE  k \in T
  <2> DEFINE top == Pow2[w]
  <2>1. top \in Nat /\ top >= 1
    BY Pow2Def, Pow2Grows
  <2>2. p[k] = (2 * p[k - 1]) % top
    BY DEF Shifted
  <2>3. CASE k < w - 1
    <3>1. p[k - 1] = Pow2[k]
      BY <1>2, <2>3
    <3>2. Pow2[k + 1] = 2 * Pow2[k] /\ Pow2[k + 1] \in Nat
      BY Pow2Def
    <3>3. Pow2[k + 1] < top
      <4>1. (k + 1) + 1 \in 0 .. w /\ k + 1 \in 0 .. w /\ k + 1 \in Nat
        BY <2>3
      <4>2. Pow2[(k + 1) + 1] = 2 * Pow2[k + 1] /\ Pow2[(k + 1) + 1] <= top /\ 1 <= Pow2[k + 1]
        BY <4>1, Pow2Def, Pow2Grows
      <4>3. QED
        BY <2>1, <3>2, <4>2
    <3>4. \A x \in Nat : x < top => x % top = x
      <4> HIDE DEF top
      <4>1. QED
        BY <2>1
    <3>5. p[k] = Pow2[k + 1]
      BY <2>2, <3>1, <3>2, <3>3, <3>4
    <3>6. QED
      BY <2>3, <3>5
  <2>4. CASE k = w - 1
    <3>1. p[k - 1] = Pow2[k] /\ Pow2[k + 1] = top
      BY <1>2, <2>4
    <3>2. Pow2[k + 1] = 2 * Pow2[k]
      BY Pow2Def
    <3>3. top % top = 0
      <4> HIDE DEF top
      <4>1. QED
        BY <2>1
    <3>4. QED
      BY <2>2, <2>4, <3>1, <3>2, <3>3
  <2>5. CASE k = w
    <3>1. p[k - 1] = 0
      BY <1>2, <2>5
    <3>2. 0 % top = 0
      <4> HIDE DEF top
      <4>1. QED
        BY <2>1
    <3>3. QED
      BY <2>2, <2>5, <3>1, <3>2
  <2>6. QED
    BY <2>3, <2>4, <2>5
<1> HIDE DEF T
<1>3. \A k \in 0 .. w : k \in T
  BY <1>1, <1>2, Rounds
<1>4. QED
  BY <1>3 DEF T

\* The loop ends with the power it should, or not at all.
LEMMA RoundsUpAll ==
  ASSUME NEW w \in Nat, w >= 2, NEW v \in Nat
  PROVE  RoundsUp(v, w)
<1>1. PICK p : Shifted(p, w) /\ p = CHOOSE q : Shifted(q, w)
  BY ShiftedExists
<1> DEFINE reached == {k \in 0 .. w : p[k] >= v}
           r == IF reached = {} THEN Never ELSE p[Min(reached)]
<1>2. next_pow2(v, w) = r
  BY <1>1 DEF next_pow2, Shifted
<1>3. \A k \in 0 .. w : p[k] = IF k < w - 1 THEN Pow2[k + 1] ELSE 0
  BY <1>1, ShiftedValues
<1>4. \A k \in Nat : Pow2[k] \in Nat
  BY Pow2Def
<1>5. CASE v > Pow2[w - 1]
  <2>1. ASSUME NEW k \in 0 .. w
        PROVE  ~(p[k] >= v)
    <3>1. Pow2[w - 1] \in Nat
      BY <1>4
    <3>2. k < w - 1 => Pow2[k + 1] <= Pow2[w - 1] /\ Pow2[k + 1] \in Nat
      <4>1. k < w - 1 => k + 1 \in 0 .. w - 1 /\ w - 1 \in Nat
        OBVIOUS
      <4>2. QED
        BY <4>1, <1>4, Pow2Grows
    <3>3. QED
      BY <1>3, <1>5, <3>1, <3>2
  <2>2. reached = {}
    BY <2>1
  <2>3. QED
    BY <1>2, <1>5, <2>2 DEF RoundsUp
<1>6. CASE ~(v > Pow2[w - 1])
  <2>1. w - 2 \in reached
    <3>1. w - 2 \in 0 .. w /\ w - 2 < w - 1 /\ (w - 2) + 1 = w - 1
      OBVIOUS
    <3>2. p[w - 2] = Pow2[w - 1] /\ Pow2[w - 1] \in Nat
      BY <1>3, <1>4, <3>1
    <3>3. QED
      BY <1>6, <3>1, <3>2
  <2> DEFINE m == Min(reached)
  <2>2. m \in reached /\ \A k \in reached : m <= k
    <3>1. reached \in SUBSET Nat
      OBVIOUS
    <3> HIDE DEF reached
    <3>2. QED
      BY <2>1, <3>1, MinIs
  <2>3. m \in 0 .. w /\ m <= w - 2 /\ p[m] >= v
    BY <2>1, <2>2
  <2> HIDE DEF m
  <2>4. p[m] = Pow2[m + 1]
    BY <1>3, <2>3
  <2>5. next_pow2(v, w) = Pow2[m + 1]
    <3>1. r = p[m]
      <4> HIDE DEF reached
      <4>1. QED
        BY <2>1 DEF m
    <3>2. QED
      BY <1>2, <2>4, <3>1
  <2>6. m + 1 \in 1 .. w - 1 /\ Pow2[m + 1] \in Nat
    BY <1>4, <2>3
  <2>7. Pow2[m + 1] = 2 \/ Pow2[m + 1] < 2 * v
    <3>1. CASE m = 0
      <4>1. Pow2[0 + 1] = 2 * Pow2[0] /\ Pow2[0] = 1
        BY Pow2Def
      <4>2. QED
        BY <3>1, <4>1
    <3>2. CASE m # 0
      <4>1. m - 1 \in 0 .. w /\ m - 1 < w - 1 /\ (m - 1) + 1 = m /\ m \in Nat
        BY <2>3, <3>2
      <4>2. p[m - 1] = Pow2[m] /\ Pow2[m] \in Nat
        BY <1>3, <1>4, <4>1
      <4>3. m - 1 \notin reached
        BY <2>2, <2>3, <3>2
      <4>4. Pow2[m] < v
        BY <4>1, <4>2, <4>3
      <4>5. Pow2[m + 1] = 2 * Pow2[m]
        BY <4>1, Pow2Def
      <4>6. QED
        BY <4>2, <4>4, <4>5
    <3>3. QED
      BY <3>1, <3>2
  <2>8. Pow2[m + 1] >= v
    BY <2>3, <2>4
  <2>9. QED
    BY <1>6, <2>5, <2>6, <2>7, <2>8 DEF RoundsUp
<1>7. QED
  BY <1>5, <1>6

-----------------------------------------------------------------------------
(* attach_logs *)

\* A sequence of the files of a directory, whatever their stems.
FilesOfLogs(dir) ==
  /\ Len(dir) \in Nat /\ DOMAIN dir = 1 .. Len(dir)
  /\ \A i \in 1 .. Len(dir) :
       \E stem : \E kind \in {"messages", "event"}, suffix \in {".current.log", ".log"} :
         dir[i] = LogFile(stem, kind, suffix)

\* Names in pairs, a current log and an old one for each of n stems.
Paired(names, stems, n, kind) ==
  /\ Len(names) = 2 * n
  /\ \A m \in 1 .. 2 * n : names[m].kind = kind
  /\ \A k \in 1 .. n :
       /\ names[2 * k - 1] = LogFile(stems[k], kind, ".current.log")
       /\ names[2 * k] = LogFile(stems[k], kind, ".log")

\* The names of a session come in pairs, one per stem.
LEMMA CandidatesArePairs ==
  ASSUME NEW sc, NEW kind, Len(quickfix_log_prefixes(sc)) \in Nat
  PROVE  Paired(Candidates(sc, kind), quickfix_log_prefixes(sc),
                Len(quickfix_log_prefixes(sc)), kind)
<1> DEFINE stems == quickfix_log_prefixes(sc)
           n == Len(stems)
<1>1. Candidates(sc, kind) =
        [i \in 1 .. 2 * n |->
           [stem |-> stems[(i + 1) \div 2], kind |-> kind, suffix |-> LogSuffixes[2 - (i % 2)]]]
  BY DEF Candidates
<1>2. n \in Nat /\ 2 * n \in Nat
  <2>1. n \in Nat
    OBVIOUS
  <2> HIDE DEF n
  <2>2. QED
    BY <2>1
<1> HIDE DEF n
<1>3. Len(Candidates(sc, kind)) = 2 * n /\ DOMAIN Candidates(sc, kind) = 1 .. 2 * n
  <2> HIDE DEF stems
  <2>1. QED
    BY <1>1, <1>2
<1>4. LogSuffixes[1] = ".current.log" /\ LogSuffixes[2] = ".log"
  BY DEF LogSuffixes
<1>5. ASSUME NEW k \in 1 .. n
      PROVE  /\ Candidates(sc, kind)[2 * k - 1] = LogFile(stems[k], kind, ".current.log")
             /\ Candidates(sc, kind)[2 * k] = LogFile(stems[k], kind, ".log")
  <2>1. 2 * k - 1 \in 1 .. 2 * n /\ 2 * k \in 1 .. 2 * n
    BY <1>2
  <2>2. ((2 * k - 1) + 1) \div 2 = k /\ (2 * k + 1) \div 2 = k
    OBVIOUS
  <2>3. 2 - ((2 * k - 1) % 2) = 1 /\ 2 - ((2 * k) % 2) = 2
    OBVIOUS
  <2> HIDE DEF stems
  <2>4. QED
    <3>1. Candidates(sc, kind)[2 * k - 1] = [stem |-> stems[k], kind |-> kind, suffix |-> LogSuffixes[1]]
      BY <1>1, <2>1, <2>2, <2>3
    <3>2. Candidates(sc, kind)[2 * k] = [stem |-> stems[k], kind |-> kind, suffix |-> LogSuffixes[2]]
      BY <1>1, <2>1, <2>2, <2>3
    <3>3. QED
      BY <1>4, <3>1, <3>2, Zenon DEF LogFile
<1>6. \A m \in 1 .. 2 * n : Candidates(sc, kind)[m].kind = kind
  <2> HIDE DEF stems
  <2>1. QED
    BY <1>1
<1>7. Paired(Candidates(sc, kind), stems, n, kind)
  <2> HIDE DEF stems
  <2>1. QED
    BY <1>3, <1>5, <1>6 DEF Paired
<1>8. QED
  BY <1>7 DEF n

\* The stems of a session: three, or six with a qualifier.
LEMMA StemsLength ==
  ASSUME NEW sc
  PROVE  Len(quickfix_log_prefixes(sc)) \in Nat \ {0}
<1> DEFINE b == Part(sc.begin_string, "")
           s == Part(sc.sender_comp_id, "")
           t == Part(sc.target_comp_id, "")
           base == << <<b, Part(sc.sender_comp_id, sc.sender_sub_id),
                           Part(sc.target_comp_id, sc.target_sub_id)>>, <<b, s, t>>, <<s, t>> >>
           q == Part(sc.session_qualifier, "")
           more == [i \in 1 .. 3 |-> Append(base[i], q)]
<1>1. quickfix_log_prefixes(sc) = IF sc.session_qualifier = "" THEN base ELSE more \o base
  BY DEF quickfix_log_prefixes
<1>2. Len(base) = 3 /\ \E U : base \in Seq(U)
  <2>1. base \in Seq({base[1], base[2], base[3]})
    OBVIOUS
  <2>2. QED
    BY <2>1
<1>3. Len(more) = 3 /\ \E U : more \in Seq(U)
  <2>1. more \in Seq({more[1], more[2], more[3]})
    <3> HIDE DEF base, q
    <3>1. QED
      OBVIOUS
  <2>2. Len(more) = 3
    <3> HIDE DEF base, q
    <3>1. QED
      OBVIOUS
  <2> HIDE DEF more, base
  <2>3. QED
    BY <2>1, <2>2
<1> HIDE DEF more, base
<1>4. Len(more \o base) = 6 /\ Len(base) = 3
  <2>1. PICK U : base \in Seq(U)
    BY <1>2
  <2>2. PICK V : more \in Seq(V)
    BY <1>3
  <2>3. base \in Seq(U \cup V) /\ more \in Seq(U \cup V)
    BY <2>1, <2>2
  <2>4. QED
    <3>1. Len(more \o base) = Len(more) + Len(base)
      BY <2>3, ConcatProperties
    <3>2. Len(more) = 3 /\ Len(base) = 3
      BY <1>2, <1>3
    <3>3. QED
      BY <3>1, <3>2
<1>5. quickfix_log_prefixes(sc) = base \/ quickfix_log_prefixes(sc) = more \o base
  BY <1>1, Zenon
<1> DEFINE both == more \o base
<1> HIDE DEF both
<1>6. Len(both) = 6 /\ (quickfix_log_prefixes(sc) = base \/ quickfix_log_prefixes(sc) = both)
  BY <1>4, <1>5, Zenon DEF both
<1>7. Len(quickfix_log_prefixes(sc)) = 3 \/ Len(quickfix_log_prefixes(sc)) = 6
  BY <1>4, <1>6, Zenon
<1>8. 3 \in Nat \ {0} /\ 6 \in Nat \ {0}
  OBVIOUS
<1>9. QED
  BY <1>7, <1>8, Zenon

\* The files of a directory under the names of a session, and those that share
\* two parts with them.
OwnFiles(dir, sc, kind) ==
  {f \in Range(dir) : f.kind = kind /\ Contains(quickfix_log_prefixes(sc), f.stem)}

NearFiles(dir, sc, kind) ==
  {f \in Range(dir) : f.kind = kind /\ identity_score(f.stem, sc) >= 2}

\* The first of the names of a session, and those that are found.
LEMMA FirstCandidate ==
  ASSUME NEW sc, NEW kind
  PROVE  LET stems == quickfix_log_prefixes(sc)
         IN  /\ 1 \in 1 .. Len(stems)
             /\ Candidates(sc, kind)[1] = LogFile(stems[1], kind, ".current.log")
<1> DEFINE stems == quickfix_log_prefixes(sc)
<1>1. Len(stems) \in Nat \ {0}
  BY StemsLength
<1>2. Paired(Candidates(sc, kind), stems, Len(stems), kind)
  BY <1>1, CandidatesArePairs
<1> HIDE DEF stems
<1>3. 1 \in 1 .. Len(stems) /\ 2 * 1 - 1 = 1
  BY <1>1
<1>4. Candidates(sc, kind)[2 * 1 - 1] = LogFile(stems[1], kind, ".current.log")
  BY <1>2, <1>3 DEF Paired
<1>5. QED
  BY <1>3, <1>4 DEF stems

LEMMA ResolvedIsThere ==
  ASSUME NEW dir, FilesOfLogs(dir), NEW sc, NEW kind, resolve_quickfix_log(dir, sc, kind) # NoLog
  PROVE  LET f == resolve_quickfix_log(dir, sc, kind)
         IN  f.kind = kind /\ Contains(quickfix_log_prefixes(sc), f.stem) /\ f \in Range(dir)
<1> DEFINE stems == quickfix_log_prefixes(sc)
           n == Len(stems)
           names == Candidates(sc, kind)
           hits == {i \in 1 .. Len(names) : Contains(dir, names[i])}
           f == resolve_quickfix_log(dir, sc, kind)
<1>1. n \in Nat
  BY StemsLength
<1>2. Paired(names, stems, n, kind)
  BY <1>1, CandidatesArePairs
<1>3. f = IF hits = {} THEN NoLog ELSE names[Min(hits)]
  BY DEF resolve_quickfix_log, FirstOf
<1> HIDE DEF names, stems, f
<1>4. hits # {} /\ hits \in SUBSET Nat /\ Len(names) = 2 * n
  BY <1>1, <1>2, <1>3 DEF f, Paired
<1>5. Min(hits) \in hits
  <2> HIDE DEF hits
  <2>1. QED
    BY <1>4, MinIs
<1>6. PICK m \in 1 .. 2 * n : f = names[m] /\ Contains(dir, names[m])
  BY <1>3, <1>4, <1>5
<1>7. f \in Range(dir) /\ f.kind = kind
  BY <1>2, <1>6 DEF Range, Contains, FilesOfLogs, Paired
<1>8. PICK k \in 1 .. n : m = 2 * k - 1 \/ m = 2 * k
  <2>1. m \in Nat /\ m >= 1 /\ m <= 2 * n
    BY <1>1
  <2>2. PICK k \in Nat : m = 2 * k - 1 \/ m = 2 * k
    <3>1. (m + 1) \div 2 \in Nat /\ (m = 2 * ((m + 1) \div 2) - 1 \/ m = 2 * ((m + 1) \div 2))
      BY <2>1
    <3>2. QED
      BY <3>1
  <2>3. k \in 1 .. n
    BY <1>1, <2>1, <2>2
  <2>4. QED
    BY <2>2, <2>3
<1>9. f.stem = stems[k]
  <2>1. /\ names[2 * k - 1] = LogFile(stems[k], kind, ".current.log")
        /\ names[2 * k] = LogFile(stems[k], kind, ".log")
    BY <1>2, <1>8 DEF Paired
  <2>2. f = names[2 * k - 1] \/ f = names[2 * k]
    BY <1>6, <1>8
  <2>3. f = LogFile(stems[k], kind, ".current.log") \/ f = LogFile(stems[k], kind, ".log")
    BY <2>1, <2>2, Zenon
  <2>4. QED
    BY <2>3 DEF LogFile
<1>10. QED
  BY <1>1, <1>7, <1>9 DEF Contains, stems, f

\* What a session that has logs of its own reads.
LEMMA OwnLogIsRead ==
  ASSUME NEW dir, FilesOfLogs(dir), NEW sc, NEW kind \in {"messages", "event"}, NEW other,
         OwnFiles(dir, sc, kind) # {}
  PROVE  ReadsOwnLog(dir, sc, kind, Log(dir, sc, kind, other))
<1> DEFINE stems == quickfix_log_prefixes(sc)
           n == Len(stems)
           names == Candidates(sc, kind)
           hits == {i \in 1 .. Len(names) : Contains(dir, names[i])}
           m == Min(hits)
           path == Log(dir, sc, kind, other)
           Before(s, t) == \E i, j \in 1 .. Len(stems) :
                             /\ i < j /\ stems[i] = s /\ stems[j] = t
                             /\ \A k \in 1 .. i : stems[k] # t
           own == {f \in Range(dir) : f.kind = kind /\ Contains(stems, f.stem)}
<1>1. n \in Nat
  BY StemsLength
<1>2. /\ Len(names) = 2 * n
      /\ \A k \in 1 .. 2 * n : names[k].kind = kind
      /\ \A k \in 1 .. n :
           /\ names[2 * k - 1] = LogFile(stems[k], kind, ".current.log")
           /\ names[2 * k] = LogFile(stems[k], kind, ".log")
  <2>1. Paired(names, stems, n, kind)
    BY <1>1, CandidatesArePairs
  <2> HIDE DEF names, stems, n
  <2>2. QED
    BY <2>1 DEF Paired
<1> HIDE DEF names
<1>3. ASSUME NEW k \in 1 .. 2 * n, names[k] \in Range(dir)
      PROVE  k \in hits
  BY <1>2, <1>3 DEF Range, Contains, FilesOfLogs
<1>4. ASSUME NEW f \in own
      PROVE  \E k \in 1 .. n : f.stem = stems[k] /\
               ((f.suffix = ".current.log" /\ f = names[2 * k - 1]) \/
                (f.suffix = ".log" /\ f = names[2 * k]))
  <2>1. PICK k \in 1 .. n : stems[k] = f.stem
    BY DEF Contains
  <2>2. PICK i \in 1 .. Len(dir) : f = dir[i]
    BY DEF Range, FilesOfLogs
  <2>3. PICK suffix \in {".current.log", ".log"} : f = LogFile(f.stem, f.kind, suffix) /\ f.suffix = suffix
    BY <2>2 DEF FilesOfLogs, LogFile
  <2>4. f.kind = kind
    OBVIOUS
  <2> HIDE DEF own, stems
  <2>5. QED
    BY <1>2, <2>1, <2>3, <2>4
<1>0. own # {}
  BY DEF OwnFiles
<1>5. SUFFICES /\ path \in own
               /\ \A f \in own \ {path} :
                    IF f.stem = path.stem THEN path.suffix = ".current.log"
                    ELSE Before(path.stem, f.stem)
  BY <1>0 DEF ReadsOwnLog
<1>6. hits # {} /\ hits \in SUBSET Nat
  <2>1. PICK f \in own : TRUE
    BY <1>0
  <2>2. f \in Range(dir)
    OBVIOUS
  <2>3. PICK k \in 1 .. n : f = names[2 * k - 1] \/ f = names[2 * k]
    BY <1>4
  <2>4. 2 * k - 1 \in 1 .. 2 * n /\ 2 * k \in 1 .. 2 * n
    BY <1>1
  <2> HIDE DEF hits, stems, own
  <2>5. hits # {}
    BY <1>3, <2>2, <2>3, <2>4
  <2>6. QED
    BY <2>5 DEF hits
<1>7. m \in hits /\ \A i \in hits : m <= i
  <2> HIDE DEF hits
  <2>1. QED
    BY <1>6, MinIs
<1>8. m \in 1 .. 2 * n /\ names[m] \in Range(dir) /\ names[m].kind = kind
  <2>1. m \in 1 .. 2 * n /\ Contains(dir, names[m])
    <3> HIDE DEF m, stems
    <3>1. QED
      BY <1>2, <1>7
  <2> HIDE DEF m, hits, stems
  <2>2. QED
    BY <1>2, <2>1 DEF Range, Contains, FilesOfLogs
<1>9. path = names[m]
  <2>1. resolve_quickfix_log(dir, sc, kind) = names[m]
    <3>1. resolve_quickfix_log(dir, sc, kind) = IF hits = {} THEN NoLog ELSE names[Min(hits)]
      BY DEF resolve_quickfix_log, FirstOf, names
    <3>2. QED
      BY <1>6, <3>1
  <2>2. names[m] # NoLog
    <3> HIDE DEF m
    <3>1. NoLog.kind # kind
      BY DEF NoLog
    <3>2. QED
      BY <1>8, <3>1
  <2> HIDE DEF m, hits, stems
  <2>3. QED
    BY <2>1, <2>2 DEF Log, Found
<1> HIDE DEF m, path, hits
<1>10. PICK i \in 1 .. n : (m = 2 * i - 1 \/ m = 2 * i)
  <2> HIDE DEF stems
  <2>1. m \in Nat /\ m >= 1 /\ m <= 2 * n
    BY <1>1, <1>8
  <2>2. PICK i \in Nat : m = 2 * i - 1 \/ m = 2 * i
    <3>1. (m + 1) \div 2 \in Nat /\ (m = 2 * ((m + 1) \div 2) - 1 \/ m = 2 * ((m + 1) \div 2))
      BY <2>1
    <3>2. QED
      BY <3>1
  <2>3. i \in 1 .. n
    BY <1>1, <2>1, <2>2
  <2>4. QED
    BY <2>2, <2>3
<1>11. path.stem = stems[i] /\ path.kind = kind
       /\ path.suffix = IF m = 2 * i THEN ".log" ELSE ".current.log"
  <2>1. m = 2 * i => path = LogFile(stems[i], kind, ".log")
    BY <1>2, <1>9
  <2>2. m = 2 * i - 1 => path = LogFile(stems[i], kind, ".current.log") /\ m # 2 * i
    BY <1>2, <1>9
  <2> HIDE DEF stems
  <2>3. QED
    BY <1>10, <2>1, <2>2 DEF LogFile
<1>12. path \in own
  <2>1. Contains(stems, path.stem)
    BY <1>11 DEF Contains
  <2> HIDE DEF stems
  <2>2. QED
    BY <1>8, <1>9, <1>11, <2>1
<1>13. ASSUME NEW f \in own \ {path}
       PROVE  IF f.stem = path.stem THEN path.suffix = ".current.log" ELSE Before(path.stem, f.stem)
  <2>0. f \in own /\ f # path /\ f \in Range(dir)
    OBVIOUS
  <2> HIDE DEF own
  <2>1. PICK j \in 1 .. n : f.stem = stems[j] /\
               ((f.suffix = ".current.log" /\ f = names[2 * j - 1]) \/
                (f.suffix = ".log" /\ f = names[2 * j]))
    BY <1>4, <2>0
  <2>2. \A k \in 1 .. n : 2 * k - 1 \in 1 .. 2 * n /\ 2 * k \in 1 .. 2 * n
    BY <1>1
  <2>3. \A k \in 1 .. n : stems[k] = f.stem =>
          f = names[2 * k - 1] \/ f = names[2 * k]
    <3> SUFFICES ASSUME NEW k \in 1 .. n, stems[k] = f.stem
                 PROVE  f = names[2 * k - 1] \/ f = names[2 * k]
      OBVIOUS
    <3> HIDE DEF stems
    <3>1. QED
      BY <1>2, <2>1
  <2>4. \A k \in 1 .. n : stems[k] = f.stem => m <= 2 * k
    <3> SUFFICES ASSUME NEW k \in 1 .. n, stems[k] = f.stem
                 PROVE  m <= 2 * k
      OBVIOUS
    <3>1. 2 * k - 1 \in hits \/ 2 * k \in hits
      BY <1>3, <2>0, <2>2, <2>3
    <3>2. QED
      BY <1>1, <1>7, <1>8, <3>1
  <2>5. CASE f.stem = path.stem
    <3>1. SUFFICES ASSUME m = 2 * i
                   PROVE  FALSE
      BY <1>11, <2>5
    <3>2. path = names[2 * i] /\ f = names[2 * i - 1]
      BY <1>9, <1>11, <2>0, <2>3, <2>5, <3>1
    <3>3. 2 * i - 1 \in hits
      BY <1>3, <2>0, <2>2, <3>2
    <3>4. QED
      BY <1>1, <1>7, <3>1, <3>3
  <2>6. CASE f.stem # path.stem
    <3>1. \A k \in 1 .. i : stems[k] # f.stem
      <4> SUFFICES ASSUME NEW k \in 1 .. i, stems[k] = f.stem
                   PROVE  FALSE
        OBVIOUS
      <4>1. k \in 1 .. n /\ k # i
        BY <1>1, <1>11, <2>6
      <4>2. m <= 2 * k
        BY <2>4, <4>1
      <4>3. QED
        BY <1>1, <1>10, <4>1, <4>2
    <3>2. i < j
      BY <1>1, <2>1, <3>1
    <3>3. Before(path.stem, f.stem)
      <4>1. stems[i] = path.stem /\ stems[j] = f.stem
        BY <1>11, <2>1
      <4>2. QED
        BY <3>1, <3>2, <4>1
    <3> HIDE DEF Before
    <3>4. QED
      BY <2>6, <3>3
  <2>7. QED
    BY <2>5, <2>6
<1>14. QED
  BY <1>12, <1>13

\* The parts a name shares with a session are counted.
LEMMA ScoreType ==
  ASSUME NEW sc
  PROVE  \E M \in Nat : \A stem : identity_score(stem, sc) \in 0 .. M
<1> DEFINE P == {"sender_comp_id", "target_comp_id", "begin_string", "session_qualifier"}
<1>1. IsFiniteSet(P) /\ Cardinality(P) \in Nat
  <2>1. ASSUME NEW S, IsFiniteSet(S), NEW x
        PROVE  IsFiniteSet(S \cup {x})
    BY <2>1, FS_AddElement
  <2> DEFINE A == {} \cup {"sender_comp_id"}
             TwoOf == A \cup {"target_comp_id"}
             C == TwoOf \cup {"begin_string"}
             D == C \cup {"session_qualifier"}
  <2>2. IsFiniteSet(P)
    <3>1. IsFiniteSet(A)
      BY <2>1, FS_EmptySet
    <3> HIDE DEF A
    <3>2. IsFiniteSet(TwoOf)
      BY <2>1, <3>1
    <3> HIDE DEF TwoOf
    <3>3. IsFiniteSet(C)
      BY <2>1, <3>2
    <3> HIDE DEF C
    <3>4. IsFiniteSet(D)
      BY <2>1, <3>3
    <3>5. P = D
      BY DEF A, TwoOf, C
    <3> HIDE DEF D, P
    <3>6. QED
      BY <3>4, <3>5
  <2>3. QED
    BY <2>2, FS_CardinalityType
<1> HIDE DEF P
<1>2. ASSUME NEW stem
      PROVE  identity_score(stem, sc) \in 0 .. Cardinality(P)
  <2> DEFINE T == {f \in P : sc[f] # "" /\ Contains(stem, Part(sc[f], ""))}
  <2>1. T \in SUBSET P
    OBVIOUS
  <2>2. identity_score(stem, sc) = Cardinality(T)
    BY DEF identity_score, P
  <2> HIDE DEF T
  <2>3. Cardinality(T) \in Nat /\ Cardinality(T) <= Cardinality(P)
    BY <1>1, <2>1, FS_Subset, FS_CardinalityType
  <2>4. QED
    BY <1>1, <2>2, <2>3
<1>3. QED
  BY <1>1, <1>2

\* The scan finds a nearest file, or none where none is near.
LEMMA ScanFindsNearest ==
  ASSUME NEW dir, FilesOfLogs(dir), NEW sc, NEW kind \in {"messages", "event"}
  PROVE  LET near == NearFiles(dir, sc, kind)
             f == scan_for_log(dir, sc, kind)
         IN  IF near = {} THEN f = NoLog
             ELSE f \in near /\ \A g \in near : identity_score(g.stem, sc) <= identity_score(f.stem, sc)
<1> DEFINE near == NearFiles(dir, sc, kind)
           n == Len(dir)
           Id(f) == identity_score(f.stem, sc)
           Score(f) == IF f.kind = kind THEN Id(f) ELSE 0
           Best(f) == Score(f) >= 2 /\ \A g \in Range(dir) : Score(g) <= Score(f)
           hits == {i \in 1 .. n : Best(dir[i])}
<1>1. PICK M \in Nat : \A stem : identity_score(stem, sc) \in 0 .. M
  BY ScoreType
<1>2. \A f : Score(f) \in 0 .. M
  BY <1>1
<1>3. \A f : f \in near <=> f \in Range(dir) /\ Score(f) >= 2
  BY DEF NearFiles
<1>4. n \in Nat /\ \A f : f \in Range(dir) <=> \E i \in 1 .. n : f = dir[i]
  BY DEF Range, FilesOfLogs
<1>5. scan_for_log(dir, sc, kind) = IF hits = {} THEN NoLog ELSE dir[Min(hits)]
  BY DEF scan_for_log, FirstOf
<1>6. \A f \in near : Score(f) = Id(f)
  BY DEF NearFiles
<1> HIDE DEF Score, Id, near
<1>7. CASE near = {}
  <2>1. hits = {}
    BY <1>3, <1>4, <1>7
  <2>2. QED
    BY <1>5, <1>7, <2>1 DEF near
<1>8. CASE near # {}
  <2> DEFINE Gaps == {M - Score(f) : f \in near}
  <2>1. Gaps \in SUBSET Nat /\ Gaps # {}
    BY <1>2, <1>8
  <2>2. PICK x \in Gaps : \A y \in Gaps : x <= y
    BY <2>1, Least, Zenon
  <2>3. PICK f \in near : x = M - Score(f)
    OBVIOUS
  <2>4. \A g \in near : Score(g) <= Score(f)
    <3>1. SUFFICES ASSUME NEW g \in near
                   PROVE  Score(g) <= Score(f)
      OBVIOUS
    <3>2. M - Score(f) <= M - Score(g)
      BY <2>2, <2>3
    <3>3. QED
      BY <1>1, <1>2, <3>2
  <2>5. \A g \in Range(dir) : Score(g) <= Score(f)
    <3>1. SUFFICES ASSUME NEW g \in Range(dir), g \notin near
                   PROVE  Score(g) <= Score(f)
      BY <2>4
    <3>2. ~(Score(g) >= 2) /\ Score(f) >= 2
      BY <1>3, <3>1
    <3>3. QED
      BY <1>2, <3>2
  <2>6. PICK i \in 1 .. n : f = dir[i]
    BY <1>3, <1>4
  <2>7. Best(f)
    BY <1>3, <2>5
  <2> HIDE DEF Best
  <2>8. hits # {} /\ hits \in SUBSET Nat
    BY <1>4, <2>6, <2>7
  <2>9. Min(hits) \in hits
    <3> HIDE DEF hits
    <3>1. QED
      BY <2>8, MinIs
  <2>10. dir[Min(hits)] \in Range(dir) /\ Best(dir[Min(hits)])
    BY <1>4, <2>9
  <2> DEFINE b == dir[Min(hits)]
  <2> HIDE DEF hits, b
  <2>11. b \in near /\ \A g \in Range(dir) : Score(g) <= Score(b)
    BY <1>3, <2>10 DEF b, Best
  <2>12. \A g \in near : Id(g) <= Id(b)
    BY <1>3, <1>6, <2>11
  <2>13. scan_for_log(dir, sc, kind) = b
    BY <1>5, <2>8 DEF b
  <2>14. QED
    BY <1>8, <2>11, <2>12, <2>13 DEF near, Id
<1>9. QED
  BY <1>7, <1>8

\* What a session without a log of its own reads: the nearest, or a name that
\* is not there yet.
LEMMA NearestLogIsRead ==
  ASSUME NEW dir, FilesOfLogs(dir), NEW sc, NEW kind \in {"messages", "event"},
         NEW other \in {"messages", "event"}, OwnFiles(dir, sc, kind) = {}
  PROVE  ReadsOwnLog(dir, sc, kind, Log(dir, sc, kind, other))
<1> DEFINE stems == quickfix_log_prefixes(sc)
           path == Log(dir, sc, kind, other)
           near == NearFiles(dir, sc, kind)
           Id(f) == identity_score(f.stem, sc)
<1>1. SUFFICES /\ near # {} => path \in near /\ \A f \in near : Id(f) <= Id(path)
               /\ near = {} => path \notin Range(dir)
  BY DEF ReadsOwnLog, OwnFiles, NearFiles
<1>2. \A f \in Range(dir) : f.kind = kind => ~Contains(stems, f.stem)
  BY DEF OwnFiles
<1>3. ASSUME NEW k \in {"messages", "event"}, NEW f, f = resolve_quickfix_log(dir, sc, k), f # NoLog
      PROVE  f.kind = k /\ Contains(stems, f.stem) /\ f \in Range(dir)
  BY <1>3, ResolvedIsThere
<1>4. resolve_quickfix_log(dir, sc, kind) = NoLog
  <2> DEFINE f == resolve_quickfix_log(dir, sc, kind)
  <2>1. f # NoLog => f.kind = kind /\ Contains(stems, f.stem) /\ f \in Range(dir)
    BY <1>3
  <2> HIDE DEF f, stems
  <2>2. QED
    BY <1>2, <2>1 DEF f
<1>5. Found(dir, sc, kind) = scan_for_log(dir, sc, kind)
  BY <1>4 DEF Found
<1>6. \A f \in Range(dir) : f.kind = "messages" \/ f.kind = "event"
  <2>1. ASSUME NEW i \in 1 .. Len(dir)
        PROVE  dir[i].kind = "messages" \/ dir[i].kind = "event"
    BY DEF FilesOfLogs, LogFile
  <2>2. QED
    BY <2>1 DEF Range, FilesOfLogs
<1>7. CASE near # {}
  <2>1. /\ scan_for_log(dir, sc, kind) \in near
        /\ \A f \in near : Id(f) <= Id(scan_for_log(dir, sc, kind))
    BY <1>7, ScanFindsNearest
  <2>2. scan_for_log(dir, sc, kind) # NoLog
    <3>1. \A f \in near : f.kind = kind
      BY DEF NearFiles
    <3>2. NoLog.kind # kind
      BY DEF NoLog
    <3>3. QED
      BY <2>1, <3>1, <3>2
  <2>3. path = scan_for_log(dir, sc, kind)
    BY <1>5, <2>2 DEF Log
  <2> HIDE DEF path, near, Id
  <2>4. QED
    BY <1>7, <2>1, <2>3
<1>8. CASE near = {}
  <2>1. Found(dir, sc, kind) = NoLog
    BY <1>5, <1>8, ScanFindsNearest
  <2> DEFINE g == Found(dir, sc, other)
  <2>2. path = IF g # NoLog THEN [g EXCEPT !.kind = kind] ELSE Candidates(sc, kind)[1]
    BY <2>1 DEF Log
  <2>3. g # NoLog => Contains(stems, g.stem) \/ Id(g) >= 2
    <3>1. CASE resolve_quickfix_log(dir, sc, other) # NoLog
      BY <1>3, <3>1 DEF Found
    <3>2. CASE resolve_quickfix_log(dir, sc, other) = NoLog
      <4>1. g = scan_for_log(dir, sc, other)
        BY <3>2 DEF Found
      <4>2. g # NoLog => g \in NearFiles(dir, sc, other)
        BY <4>1, ScanFindsNearest
      <4> HIDE DEF g
      <4>3. QED
        BY <4>2 DEF NearFiles
    <3>3. QED
      BY <3>1, <3>2
  <2>4. g # NoLog => "stem" \in DOMAIN g /\ "kind" \in DOMAIN g
    <3>1. g # NoLog => g \in Range(dir)
      <4>1. CASE resolve_quickfix_log(dir, sc, other) # NoLog
        BY <1>3, <4>1 DEF Found
      <4>2. CASE resolve_quickfix_log(dir, sc, other) = NoLog
        <5>1. g = scan_for_log(dir, sc, other)
          BY <4>2 DEF Found
        <5>2. QED
          BY <5>1, ScanFindsNearest DEF NearFiles
      <4>3. QED
        BY <4>1, <4>2
    <3>2. ASSUME NEW i \in 1 .. Len(dir)
          PROVE  "stem" \in DOMAIN dir[i] /\ "kind" \in DOMAIN dir[i]
      BY DEF FilesOfLogs, LogFile
    <3>3. \A f \in Range(dir) : "stem" \in DOMAIN f /\ "kind" \in DOMAIN f
      BY <3>2 DEF Range, FilesOfLogs
    <3> HIDE DEF g
    <3>4. QED
      BY <3>1, <3>3
  <2> HIDE DEF g, path
  <2>5. CASE g # NoLog
    <3>1. path = [g EXCEPT !.kind = kind]
      BY <2>2, <2>5
    <3>2. path.stem = g.stem /\ path.kind = kind
      BY <2>4, <2>5, <3>1
    <3>3. ~Contains(stems, g.stem) => Id(path) >= 2
      BY <2>3, <2>5, <3>2
    <3> HIDE DEF stems, Id
    <3>4. ASSUME path \in Range(dir)
          PROVE  Contains(stems, path.stem) \/ path \in near
      BY <3>2, <3>3, <3>4 DEF NearFiles, Id
    <3>5. QED
      BY <1>2, <1>8, <3>2, <3>4
  <2>6. CASE g = NoLog
    <3>1. path = Candidates(sc, kind)[1]
      BY <2>2, <2>6
    <3>2. path = LogFile(stems[1], kind, ".current.log") /\ 1 \in 1 .. Len(stems)
      BY <3>1, FirstCandidate
    <3>3. path.kind = kind /\ Contains(stems, path.stem)
      <4>1. path.kind = kind /\ path.stem = stems[1]
        BY <3>2 DEF LogFile
      <4> HIDE DEF stems
      <4>2. QED
        BY <3>2, <4>1 DEF Contains
    <3> HIDE DEF stems
    <3>4. QED
      BY <1>2, <1>8, <3>3
  <2>7. QED
    BY <2>5, <2>6
<1>9. QED
  BY <1>7, <1>8

\* What a session reads, with or without a log of its own.
LEMMA LogIsRead ==
  ASSUME NEW dir, FilesOfLogs(dir), NEW sc, NEW kind \in {"messages", "event"},
         NEW other \in {"messages", "event"}
  PROVE  ReadsOwnLog(dir, sc, kind, Log(dir, sc, kind, other))
BY OwnLogIsRead, NearestLogIsRead

-----------------------------------------------------------------------------
(* parse_quickfix_settings *)

\* Lines with keys of K and values of V, settings of these, and what the parser
\* carries on such lines.
LinesOf(K, V) == {Section(k) : k \in K} \cup {Setting(k, v) : k \in K, v \in V} \cup {Junk}

Dict(K, V) == UNION {[D -> V] : D \in SUBSET K}

Parser(K, V) ==
  [sec : {"NONE"} \cup K, defaults : Dict(K, V), default_redacted : SUBSET K,
   current : Dict(K, V), current_redacted : SUBSET K,
   sessions : Seq([values : Dict(K, V), redacted_keys : SUBSET K])]

\* A header, and its fields.
LEMMA SectionIs ==
  ASSUME NEW name
  PROVE  Section(name).kind = "section" /\ Section(name).key = name
BY DEF Section

\* What a line can be.
LEMMA LineIs ==
  ASSUME NEW K, NEW V, NEW l \in LinesOf(K, V)
  PROVE  \/ l.kind = "section" /\ l.key \in K /\ l = Section(l.key)
         \/ l.kind = "setting" /\ l.key \in K /\ l.val \in V
         \/ l.kind = "junk"
<1>1. CASE \E k \in K : l = Section(k)
  <2>1. PICK k \in K : l = Section(k)
    BY <1>1
  <2>2. l.kind = "section" /\ l.key = k
    BY <2>1 DEF Section
  <2>3. QED
    BY <2>1, <2>2
<1>2. CASE \E k \in K, v \in V : l = Setting(k, v)
  BY <1>2 DEF Setting
<1>3. CASE l = Junk
  BY <1>3 DEF Junk
<1>4. QED
  BY <1>1, <1>2, <1>3 DEF LinesOf

\* The dictionaries are closed under what the parser does with them.
LEMMA DictSet ==
  ASSUME NEW K, NEW V, NEW f \in Dict(K, V), NEW key \in K, NEW val \in V
  PROVE  Set(f, key, val) \in Dict(K, V)
<1>1. PICK D \in SUBSET K : f \in [D -> V]
  BY DEF Dict
<1>2. Set(f, key, val) \in [D \cup {key} -> V]
  BY <1>1 DEF Set
<1>3. D \cup {key} \in SUBSET K
  OBVIOUS
<1>4. QED
  BY <1>2, <1>3 DEF Dict

\* And under settings laid over others.
LEMMA DictOver ==
  ASSUME NEW K, NEW V, NEW f \in Dict(K, V), NEW g \in Dict(K, V)
  PROVE  Over(f, g) \in Dict(K, V)
<1>1. PICK D \in SUBSET K : f \in [D -> V]
  BY DEF Dict
<1>2. PICK E \in SUBSET K : g \in [E -> V]
  BY DEF Dict
<1>3. Over(f, g) \in [D \cup E -> V]
  BY <1>1, <1>2 DEF Over
<1>4. D \cup E \in SUBSET K
  OBVIOUS
<1>5. QED
  BY <1>3, <1>4 DEF Dict

\* No settings are some.
LEMMA DictEmpty ==
  ASSUME NEW K, NEW V
  PROVE  NoSettings \in Dict(K, V)
<1>1. NoSettings \in [{} -> V]
  BY DEF NoSettings
<1>2. {} \in SUBSET K
  OBVIOUS
<1>3. QED
  BY <1>1, <1>2 DEF Dict

\* What a commit changes, field by field.
LEMMA CommitFields ==
  ASSUME NEW K, NEW V, NEW p \in Parser(K, V)
  PROVE  LET c == Commit(p)
             block == [values |-> Over(p.current, p.defaults),
                       redacted_keys |-> p.default_redacted \cup p.current_redacted]
         IN  /\ c \in Parser(K, V)
             /\ c.sec = p.sec /\ c.defaults = p.defaults
             /\ c.default_redacted = p.default_redacted
             /\ p.sec # "SESSION" => c = p
             /\ p.sec = "SESSION" =>
                  /\ c.sessions = Append(p.sessions, block)
                  /\ c.current = NoSettings
                  /\ c.current_redacted = {}
<1> DEFINE block == [values |-> Over(p.current, p.defaults),
                     redacted_keys |-> p.default_redacted \cup p.current_redacted]
<1>1. p.current \in Dict(K, V) /\ p.defaults \in Dict(K, V)
  BY DEF Parser
<1>2. Over(p.current, p.defaults) \in Dict(K, V) /\ NoSettings \in Dict(K, V)
  BY <1>1, DictOver, DictEmpty
<1>3. CASE p.sec # "SESSION"
  BY <1>3 DEF Commit
<1>4. CASE p.sec = "SESSION"
  <2>1. block \in [values : Dict(K, V), redacted_keys : SUBSET K]
    BY <1>2 DEF Parser
  <2>2. Append(p.sessions, block) \in Seq([values : Dict(K, V), redacted_keys : SUBSET K])
    <3> HIDE DEF block
    <3>1. p.sessions \in Seq([values : Dict(K, V), redacted_keys : SUBSET K])
      BY DEF Parser
    <3>2. QED
      BY <2>1, <3>1, AppendProperties
  <2>3. Commit(p) = [p EXCEPT !.sessions = Append(@, block),
                              !.current = NoSettings, !.current_redacted = {}]
    BY <1>4 DEF Commit
  <2>4. Commit(p) = [sec |-> p.sec, defaults |-> p.defaults, default_redacted |-> p.default_redacted,
                     current |-> NoSettings, current_redacted |-> {},
                     sessions |-> Append(p.sessions, block)]
    <3> HIDE DEF block
    <3>1. QED
      BY <2>3 DEF Parser
  <2> HIDE DEF block
  <2>5. QED
    BY <1>2, <1>4, <2>2, <2>4 DEF Parser, block
<1>5. QED
  BY <1>3, <1>4

\* A block that ends is appended and its settings are forgotten.
LEMMA CommitOfBlock ==
  ASSUME NEW K, NEW V, NEW p \in Parser(K, V), p.sec = "SESSION"
  PROVE  /\ Commit(p).sessions =
              Append(p.sessions, [values |-> Over(p.current, p.defaults),
                                  redacted_keys |-> p.default_redacted \cup p.current_redacted])
         /\ Commit(p).current = NoSettings
<1> DEFINE block == [values |-> Over(p.current, p.defaults),
                     redacted_keys |-> p.default_redacted \cup p.current_redacted]
<1>1. Commit(p) = [p EXCEPT !.sessions = Append(@, block),
                            !.current = NoSettings, !.current_redacted = {}]
  BY DEF Commit
<1> HIDE DEF block
<1>2. Commit(p) = [sec |-> p.sec, defaults |-> p.defaults, default_redacted |-> p.default_redacted,
                   current |-> NoSettings, current_redacted |-> {},
                   sessions |-> Append(p.sessions, block)]
  BY <1>1 DEF Parser
<1>3. Commit(p).sessions = Append(p.sessions, block) /\ Commit(p).current = NoSettings
  BY <1>2
<1>4. QED
  BY <1>3, Zenon DEF block

\* What a line changes, field by field.
ParseOutcome(p, l, q) ==
  \/ /\ l.kind = "section"
     /\ q.sec = l.key
     /\ q.defaults = Commit(p).defaults /\ q.default_redacted = Commit(p).default_redacted
     /\ q.current = Commit(p).current /\ q.current_redacted = Commit(p).current_redacted
     /\ q.sessions = Commit(p).sessions
  \/ /\ l.kind = "setting" /\ l.key \in SensitiveKeys /\ p.sec = "DEFAULT"
     /\ q.default_redacted = p.default_redacted \cup {l.key}
     /\ q.sec = p.sec /\ q.sessions = p.sessions /\ q.defaults = p.defaults
     /\ q.current = p.current /\ q.current_redacted = p.current_redacted
  \/ /\ l.kind = "setting" /\ l.key \in SensitiveKeys /\ p.sec # "DEFAULT"
     /\ q.current_redacted = p.current_redacted \cup {l.key}
     /\ q.sec = p.sec /\ q.sessions = p.sessions /\ q.defaults = p.defaults
     /\ q.current = p.current /\ q.default_redacted = p.default_redacted
  \/ /\ l.kind = "setting" /\ l.key \notin SensitiveKeys /\ p.sec = "DEFAULT"
     /\ q.defaults = Set(p.defaults, l.key, l.val)
     /\ q.sec = p.sec /\ q.sessions = p.sessions /\ q.default_redacted = p.default_redacted
     /\ q.current = p.current /\ q.current_redacted = p.current_redacted
  \/ /\ l.kind = "setting" /\ l.key \notin SensitiveKeys /\ p.sec = "SESSION"
     /\ q.current = Set(p.current, l.key, l.val)
     /\ q.sec = p.sec /\ q.sessions = p.sessions /\ q.default_redacted = p.default_redacted
     /\ q.defaults = p.defaults /\ q.current_redacted = p.current_redacted
  \/ /\ l.kind = "junk" \/ (l.kind = "setting" /\ l.key \notin SensitiveKeys
                              /\ p.sec \notin {"DEFAULT", "SESSION"})
     /\ q = p

\* A line changes what is said, and no more.
LEMMA ParseLineFields ==
  ASSUME NEW K, NEW V, NEW p \in Parser(K, V), NEW l \in LinesOf(K, V)
  PROVE  ParseLine(p, l) \in Parser(K, V) /\ ParseOutcome(p, l, ParseLine(p, l))
<1> DEFINE q == ParseLine(p, l)
<1>1. CASE l.kind = "section"
  <2> DEFINE c == Commit(p)
  <2>1. q = [c EXCEPT !.sec = l.key]
    BY <1>1 DEF ParseLine
  <2>2. c \in Parser(K, V)
    BY CommitFields
  <2>3. l.key \in K
    BY <1>1, LineIs
  <2> HIDE DEF c
  <2>4. /\ q \in Parser(K, V) /\ q.sec = l.key /\ q.defaults = c.defaults
        /\ q.default_redacted = c.default_redacted /\ q.current = c.current
        /\ q.current_redacted = c.current_redacted /\ q.sessions = c.sessions
    BY <2>1, <2>2, <2>3 DEF Parser
  <2>5. QED
    BY <1>1, <2>4, Zenon DEF ParseOutcome, c
<1>2. CASE l.kind = "setting" /\ l.key \in SensitiveKeys /\ p.sec = "DEFAULT"
  <2>1. q = [p EXCEPT !.default_redacted = @ \cup {l.key}]
    BY <1>2 DEF ParseLine
  <2>2. l.key \in K
    BY <1>2, LineIs
  <2>3. /\ q \in Parser(K, V) /\ q.default_redacted = p.default_redacted \cup {l.key}
        /\ q.sec = p.sec /\ q.sessions = p.sessions /\ q.defaults = p.defaults
        /\ q.current = p.current /\ q.current_redacted = p.current_redacted
    BY <2>1, <2>2 DEF Parser
  <2>4. QED
    BY <1>2, <2>3, Zenon DEF ParseOutcome
<1>3. CASE l.kind = "setting" /\ l.key \in SensitiveKeys /\ p.sec # "DEFAULT"
  <2>1. q = [p EXCEPT !.current_redacted = @ \cup {l.key}]
    BY <1>3 DEF ParseLine
  <2>2. l.key \in K
    BY <1>3, LineIs
  <2>3. /\ q \in Parser(K, V) /\ q.current_redacted = p.current_redacted \cup {l.key}
        /\ q.sec = p.sec /\ q.sessions = p.sessions /\ q.defaults = p.defaults
        /\ q.current = p.current /\ q.default_redacted = p.default_redacted
    BY <2>1, <2>2 DEF Parser
  <2>4. QED
    BY <1>3, <2>3, Zenon DEF ParseOutcome
<1>4. CASE l.kind = "setting" /\ l.key \notin SensitiveKeys /\ p.sec = "DEFAULT"
  <2>1. q = [p EXCEPT !.defaults = Set(@, l.key, l.val)]
    BY <1>4 DEF ParseLine
  <2>2. Set(p.defaults, l.key, l.val) \in Dict(K, V)
    <3>1. l.key \in K /\ l.val \in V /\ p.defaults \in Dict(K, V)
      BY <1>4, LineIs DEF Parser
    <3>2. QED
      BY <3>1, DictSet
  <2>3. /\ q \in Parser(K, V) /\ q.defaults = Set(p.defaults, l.key, l.val)
        /\ q.sec = p.sec /\ q.sessions = p.sessions /\ q.default_redacted = p.default_redacted
        /\ q.current = p.current /\ q.current_redacted = p.current_redacted
    BY <2>1, <2>2 DEF Parser
  <2>4. QED
    BY <1>4, <2>3, Zenon DEF ParseOutcome
<1>5. CASE l.kind = "setting" /\ l.key \notin SensitiveKeys /\ p.sec = "SESSION"
  <2>1. q = [p EXCEPT !.current = Set(@, l.key, l.val)]
    BY <1>5 DEF ParseLine
  <2>2. Set(p.current, l.key, l.val) \in Dict(K, V)
    <3>1. l.key \in K /\ l.val \in V /\ p.current \in Dict(K, V)
      BY <1>5, LineIs DEF Parser
    <3>2. QED
      BY <3>1, DictSet
  <2>3. /\ q \in Parser(K, V) /\ q.current = Set(p.current, l.key, l.val)
        /\ q.sec = p.sec /\ q.sessions = p.sessions /\ q.default_redacted = p.default_redacted
        /\ q.defaults = p.defaults /\ q.current_redacted = p.current_redacted
    BY <2>1, <2>2 DEF Parser
  <2>4. QED
    BY <1>5, <2>3, Zenon DEF ParseOutcome
<1>6. CASE l.kind = "junk" \/ (l.kind = "setting" /\ l.key \notin SensitiveKeys
                                 /\ p.sec \notin {"DEFAULT", "SESSION"})
  <2>1. q = p
    BY <1>6 DEF ParseLine
  <2>2. QED
    BY <1>6, <2>1, Zenon DEF ParseOutcome
<1>7. QED
  BY <1>1, <1>2, <1>3, <1>4, <1>5, <1>6, LineIs

\* The function by which the fold goes through the lines.
ParseFold(lines, g) ==
  g = [d \in SUBSET (DOMAIN lines) |->
         IF d = {} THEN NoBlocks ELSE ParseLine(g[d \ {Max(d)}], lines[Max(d)])]

\* The fold by such a function.
LEMMA ParseUnfolds ==
  \A lines : FoldLeft(ParseLine, NoBlocks, lines) = (CHOOSE g : ParseFold(lines, g))[DOMAIN lines]
BY DEF FoldLeft, MapThenFoldSet, ParseFold

\* There is one for all lines.
LEMMA ParseFoldExists ==
  ASSUME NEW K, NEW V, NEW lines \in Seq(LinesOf(K, V))
  PROVE  \E g : ParseFold(lines, g)
<1> DEFINE n == Len(lines)
           S == Parser(K, V)
           F == [p \in (1 .. n) \X S |-> ParseLine(p[2], lines[p[1]])]
<1>1. n \in Nat /\ DOMAIN lines = 1 .. n /\ \A i \in 1 .. n : lines[i] \in LinesOf(K, V)
  OBVIOUS
<1>2. NoBlocks \in S
  BY DictEmpty DEF NoBlocks, Parser
<1> HIDE DEF S
<1>3. \A i \in 1 .. n, x \in S : ParseLine(x, lines[i]) \in S
  BY <1>1, ParseLineFields DEF S
<1>4. F \in [(1 .. n) \X S -> S]
  BY <1>3
<1>5. PICK g \in [SUBSET (1 .. n) -> S] : IsFold(n, NoBlocks, F, g)
  <2> HIDE DEF F, n
  <2>1. QED
    BY <1>1, <1>2, <1>4, FoldExists
<1>6. ASSUME NEW d \in SUBSET (1 .. n), d # {}
      PROVE  F[<<Max(d), g[d \ {Max(d)}]>>] = ParseLine(g[d \ {Max(d)}], lines[Max(d)])
  <2>1. Max(d) \in 1 .. n
    BY <1>1, <1>6, MaxIs
  <2>2. g[d \ {Max(d)}] \in S
    OBVIOUS
  <2>3. QED
    BY <2>1, <2>2
<1>7. ParseFold(lines, g)
  <2> HIDE DEF F, n
  <2>1. g = [d \in SUBSET (1 .. n) |-> IF d = {} THEN NoBlocks ELSE F[<<Max(d), g[d \ {Max(d)}]>>]]
    BY <1>5 DEF IsFold
  <2>2. g = [d \in SUBSET (1 .. n) |->
               IF d = {} THEN NoBlocks ELSE ParseLine(g[d \ {Max(d)}], lines[Max(d)])]
    BY <2>1, <1>6
  <2>3. QED
    BY <2>2, <1>1 DEF ParseFold
<1>8. QED
  BY <1>7

\* What the parser carries, line by line.
ParseRun(K, V, lines, h) ==
  /\ h[0] = NoBlocks
  /\ \A i \in 1 .. Len(lines) : h[i] = ParseLine(h[i - 1], lines[i])
  /\ \A i \in 0 .. Len(lines) : h[i] \in Parser(K, V)
  /\ parse_quickfix_settings(lines) = Commit(h[Len(lines)]).sessions

\* There is a run through all lines.
LEMMA ParseRuns ==
  ASSUME NEW K, NEW V, NEW lines \in Seq(LinesOf(K, V))
  PROVE  \E h : ParseRun(K, V, lines, h)
<1> DEFINE n == Len(lines)
<1>1. n \in Nat /\ DOMAIN lines = 1 .. n /\ \A i \in 1 .. n : lines[i] \in LinesOf(K, V)
  OBVIOUS
<1>2. PICK g : ParseFold(lines, g) /\ FoldLeft(ParseLine, NoBlocks, lines) = g[DOMAIN lines]
  BY ParseUnfolds, ParseFoldExists
<1> DEFINE h == [i \in 0 .. n |-> g[1 .. i]]
<1>3. h[0] = NoBlocks
  <2>1. g[{}] = NoBlocks
    BY <1>2 DEF ParseFold
  <2>2. 1 .. 0 = {}
    OBVIOUS
  <2>3. QED
    BY <2>1, <2>2, <1>1
<1>4. ASSUME NEW i \in 1 .. n
      PROVE  h[i] = ParseLine(h[i - 1], lines[i])
  <2>1. /\ 1 .. i \in SUBSET (1 .. n) /\ 1 .. i # {} /\ Max(1 .. i) = i
        /\ (1 .. i) \ {Max(1 .. i)} = 1 .. i - 1
    BY <1>1, FoldSteps
  <2>2. g[1 .. i] = ParseLine(g[1 .. i - 1], lines[i])
    BY <1>1, <1>2, <2>1 DEF ParseFold
  <2>3. i \in 0 .. n /\ i - 1 \in 0 .. n
    BY <1>1
  <2>4. QED
    BY <2>2, <2>3
<1>5. \A i \in 0 .. n : h[i] \in Parser(K, V)
  <2> DEFINE T == {i \in 0 .. n : h[i] \in Parser(K, V)}
  <2>1. 0 \in T
    <3>1. NoBlocks \in Parser(K, V) /\ 0 \in 0 .. n
      BY <1>1, DictEmpty DEF NoBlocks, Parser
    <3> HIDE DEF h
    <3>2. QED
      BY <3>1, <1>3
  <2>2. ASSUME NEW i \in 1 .. n, i - 1 \in T
        PROVE  i \in T
    <3> HIDE DEF h
    <3>1. h[i] \in Parser(K, V)
      BY <1>1, <1>4, <2>2, ParseLineFields
    <3>2. QED
      BY <3>1
  <2>3. \A i \in 0 .. n : i \in T
    <3> HIDE DEF T
    <3>1. QED
      BY <1>1, <2>1, <2>2, Rounds
  <2>4. QED
    BY <2>3
<1>6. parse_quickfix_settings(lines) = Commit(h[n]).sessions
  BY <1>1, <1>2 DEF parse_quickfix_settings
<1>7. ParseRun(K, V, lines, h)
  <2> HIDE DEF h
  <2>1. QED
    BY <1>3, <1>4, <1>5, <1>6 DEF ParseRun
<1>8. QED
  BY <1>7

\* f holds the settings of the lines in `is', the last of each key, but for the
\* credentials.
Holds(f, lines, is) ==
  /\ DOMAIN f = Keys(lines, is) \ SensitiveKeys
  /\ \A key \in DOMAIN f : f[key] = LastValue(lines, is, key)

\* The keys with one line more.
LEMMA KeysAdd ==
  ASSUME NEW lines, NEW is, NEW i
  PROVE  Keys(lines, is \cup {i}) =
           Keys(lines, is) \cup (IF lines[i].kind = "setting" THEN {lines[i].key} ELSE {})
BY DEF Keys

\* A line that does not set a key leaves its last value.
LEMMA LastValueSame ==
  ASSUME NEW lines, NEW is, NEW i, NEW key, ~(lines[i].kind = "setting" /\ lines[i].key = key)
  PROVE  LastValue(lines, is \cup {i}, key) = LastValue(lines, is, key)
<1>1. {j \in is \cup {i} : lines[j].kind = "setting" /\ lines[j].key = key}
        = {j \in is : lines[j].kind = "setting" /\ lines[j].key = key}
  OBVIOUS
<1>2. QED
  BY <1>1 DEF LastValue

\* A line that sets a key gives it its last value, if it comes last.
LEMMA LastValueNew ==
  ASSUME NEW lines, NEW is, NEW i \in Nat, \A j \in is : j \in Nat /\ j < i, NEW key,
         lines[i].kind = "setting", lines[i].key = key
  PROVE  LastValue(lines, is \cup {i}, key) = lines[i].val
<1> DEFINE hits == {j \in is \cup {i} : lines[j].kind = "setting" /\ lines[j].key = key}
           x == CHOOSE j \in hits : \A k \in hits : k <= j
<1>1. i \in hits /\ \A k \in hits : k \in Nat /\ k <= i
  OBVIOUS
<1>2. x = i
  <2>1. x \in hits /\ \A k \in hits : k <= x
    <3> HIDE DEF hits
    <3>1. QED
      BY <1>1
  <2> HIDE DEF hits, x
  <2>2. x \in Nat /\ x <= i /\ i <= x
    BY <1>1, <2>1, Zenon
  <2>3. QED
    BY <2>2
<1>3. QED
  BY <1>2 DEF LastValue

\* One setting more.
LEMMA HoldsSet ==
  ASSUME NEW lines, NEW is, NEW i \in Nat, \A j \in is : j \in Nat /\ j < i,
         NEW f, Holds(f, lines, is),
         lines[i].kind = "setting", lines[i].key \notin SensitiveKeys
  PROVE  Holds(Set(f, lines[i].key, lines[i].val), lines, is \cup {i})
<1> DEFINE key == lines[i].key
           g == Set(f, key, lines[i].val)
           Js == is \cup {i}
<1>1. DOMAIN g = DOMAIN f \cup {key}
  BY DEF Set
<1>2. DOMAIN g = Keys(lines, Js) \ SensitiveKeys
  BY <1>1, KeysAdd DEF Holds
<1>3. ASSUME NEW k \in DOMAIN g
      PROVE  g[k] = LastValue(lines, Js, k)
  <2>1. CASE k = key
    <3>1. LastValue(lines, Js, k) = lines[i].val
      BY <2>1, LastValueNew
    <3>2. g[k] = lines[i].val
      <4>1. key \in DOMAIN f \cup {key}
        OBVIOUS
      <4>2. g[key] = lines[i].val
        BY <4>1, Zenon DEF Set
      <4>3. QED
        BY <2>1, <4>2
    <3>3. QED
      BY <3>1, <3>2
  <2>2. CASE k # key
    <3>1. LastValue(lines, Js, k) = LastValue(lines, is, k)
      BY <2>2, LastValueSame
    <3>2. g[k] = f[k] /\ k \in DOMAIN f
      BY <1>1, <1>3, <2>2 DEF Set
    <3>3. QED
      BY <3>1, <3>2 DEF Holds
  <2>3. QED
    BY <2>1, <2>2
<1> HIDE DEF g, Js
<1>4. Holds(g, lines, Js)
  BY <1>2, <1>3 DEF Holds
<1>5. QED
  BY <1>4 DEF g, Js

\* A line more that sets nothing that is kept.
LEMMA HoldsSkip ==
  ASSUME NEW lines, NEW is, NEW i, NEW f, Holds(f, lines, is),
         lines[i].kind # "setting" \/ lines[i].key \in SensitiveKeys
  PROVE  Holds(f, lines, is \cup {i})
<1>1. Keys(lines, is \cup {i}) \ SensitiveKeys = Keys(lines, is) \ SensitiveKeys
  BY KeysAdd
<1>2. ASSUME NEW k \in DOMAIN f
      PROVE  LastValue(lines, is \cup {i}, k) = LastValue(lines, is, k)
  <2>1. k \notin SensitiveKeys
    BY DEF Holds
  <2>2. QED
    BY <2>1, LastValueSame
<1>3. QED
  BY <1>1, <1>2 DEF Holds

\* h is the last header up to line i.
At(lines, i, h) ==
  /\ h \in 1 .. i
  /\ lines[h].kind = "section"
  /\ \A j \in h + 1 .. i : lines[j].kind # "section"

\* The lines up to i that stand in a [DEFAULT].
InDefault(lines, j) ==
  \E h \in 1 .. j - 1 : lines[h] = Section("DEFAULT") /\ \A k \in h + 1 .. j : lines[k].kind # "section"

DefaultLines(lines, i) == {j \in 1 .. i : InDefault(lines, j)}

\* The blocks that are finished at line i, and the place of a block.
Heads(lines) == Headers(lines, "SESSION")

Done(lines, i) == {h \in Heads(lines) : h <= i /\ ~At(lines, i, h)}

PlaceOf(lines, h) == Cardinality({x \in Heads(lines) : x <= h})

\* The blocks of the headers in D stand at their places.
BlocksAre(lines, D, blocks) ==
  /\ Len(blocks) = Cardinality(D)
  /\ \A h \in D : IsBlock(lines, h, blocks[PlaceOf(lines, h)])

\* What the parser has after i lines.
ParsedSec(lines, i, p) ==
  /\ \A h \in 1 .. i : At(lines, i, h) => p.sec = lines[h].key
  /\ p.sec # "NONE" => \E h \in 1 .. i : At(lines, i, h)

ParsedDefaults(lines, i, p) ==
  /\ Holds(p.defaults, lines, DefaultLines(lines, i))
  /\ Keys(lines, DefaultLines(lines, i)) \cap SensitiveKeys \subseteq p.default_redacted

ParsedCurrent(lines, i, p) ==
  /\ p.sec # "SESSION" => p.current = NoSettings
  /\ \A h \in 1 .. i : At(lines, i, h) /\ lines[h].key = "SESSION" =>
       /\ Holds(p.current, lines, h + 1 .. i)
       /\ Keys(lines, h + 1 .. i) \cap SensitiveKeys \subseteq p.current_redacted

Parsed(lines, i, p) ==
  /\ ParsedSec(lines, i, p)
  /\ ParsedDefaults(lines, i, p)
  /\ ParsedCurrent(lines, i, p)
  /\ BlocksAre(lines, Done(lines, i), p.sessions)

\* The last header, one line later.
LEMMA AtNext ==
  ASSUME NEW lines, NEW i \in Nat, NEW h
  PROVE  At(lines, i + 1, h) <=> IF lines[i + 1].kind = "section" THEN h = i + 1 ELSE At(lines, i, h)
<1>1. CASE h = i + 1
  <2>1. h + 1 .. i + 1 = {} /\ h \in 1 .. i + 1 /\ h \notin 1 .. i
    BY <1>1
  <2>2. QED
    BY <1>1, <2>1 DEF At
<1>2. CASE h # i + 1 /\ h \in 1 .. i
  <2>1. h + 1 .. i + 1 = (h + 1 .. i) \cup {i + 1} /\ h \in 1 .. i + 1
    BY <1>2
  <2>2. QED
    BY <1>2, <2>1 DEF At
<1>3. CASE h # i + 1 /\ h \notin 1 .. i
  <2>1. h \notin 1 .. i + 1
    BY <1>3
  <2>2. QED
    BY <1>3, <2>1 DEF At
<1>4. QED
  BY <1>1, <1>2, <1>3

\* There is one last header.
LEMMA AtOne ==
  ASSUME NEW lines, NEW i \in Nat, NEW h, NEW x, At(lines, i, h), x \in 1 .. i,
         lines[x].kind = "section"
  PROVE  x <= h
<1>1. h \in 1 .. i /\ \A j \in h + 1 .. i : lines[j].kind # "section"
  BY DEF At
<1>2. x \notin h + 1 .. i
  BY <1>1
<1>3. QED
  BY <1>1, <1>2

\* The next line stands in a [DEFAULT] if the last header is one.
LEMMA DefaultNext ==
  ASSUME NEW lines, NEW i \in Nat
  PROVE  DefaultLines(lines, i + 1) =
           DefaultLines(lines, i) \cup
             (IF /\ lines[i + 1].kind # "section"
                 /\ \E h \in 1 .. i : At(lines, i, h) /\ lines[h] = Section("DEFAULT")
              THEN {i + 1} ELSE {})
<1>1. InDefault(lines, i + 1) <=>
        /\ lines[i + 1].kind # "section"
        /\ \E h \in 1 .. i : At(lines, i, h) /\ lines[h] = Section("DEFAULT")
  <2>1. \A h \in 1 .. i : (\A k \in h + 1 .. i + 1 : lines[k].kind # "section") <=>
                            /\ lines[i + 1].kind # "section"
                            /\ \A k \in h + 1 .. i : lines[k].kind # "section"
    <3> SUFFICES ASSUME NEW h \in 1 .. i
                 PROVE  (\A k \in h + 1 .. i + 1 : lines[k].kind # "section") <=>
                            /\ lines[i + 1].kind # "section"
                            /\ \A k \in h + 1 .. i : lines[k].kind # "section"
      OBVIOUS
    <3>1. h + 1 .. i + 1 = (h + 1 .. i) \cup {i + 1}
      OBVIOUS
    <3>2. QED
      BY <3>1
  <2>2. \A h \in 1 .. i : lines[h] = Section("DEFAULT") => lines[h].kind = "section"
    BY SectionIs
  <2>3. 1 .. (i + 1) - 1 = 1 .. i
    OBVIOUS
  <2>4. QED
    BY <2>1, <2>2, <2>3 DEF InDefault, At
<1>2. 1 .. i + 1 = (1 .. i) \cup {i + 1}
  OBVIOUS
<1>3. QED
  BY <1>1, <1>2 DEF DefaultLines

\* Before a session's header, the lines in a [DEFAULT] are those of the sections
\* that begin before it.
LEMMA DefaultsBefore ==
  ASSUME NEW lines, Len(lines) \in Nat, NEW head \in 1 .. Len(lines), lines[head].kind = "section"
  PROVE  UNION {Body(lines, h) : h \in {x \in Headers(lines, "DEFAULT") : x < head}}
           = DefaultLines(lines, head)
<1> DEFINE U == UNION {Body(lines, h) : h \in {x \in Headers(lines, "DEFAULT") : x < head}}
<1>1. ASSUME NEW j \in U
      PROVE  j \in DefaultLines(lines, head)
  <2>1. PICK h \in Headers(lines, "DEFAULT") : h < head /\ j \in Body(lines, h)
    OBVIOUS
  <2>2. h \in 1 .. Len(lines) /\ lines[h] = Section("DEFAULT")
    BY <2>1 DEF Headers
  <2>3. j \in h + 1 .. Len(lines) /\ \A k \in h + 1 .. j : lines[k].kind # "section"
    BY <2>1 DEF Body
  <2>4. head \notin h + 1 .. j
    BY <2>3
  <2>5. j \in 1 .. head /\ h \in 1 .. j - 1
    BY <2>1, <2>2, <2>3, <2>4
  <2>6. QED
    BY <2>2, <2>3, <2>5 DEF DefaultLines, InDefault
<1>2. ASSUME NEW j \in DefaultLines(lines, head)
      PROVE  j \in U
  <2>1. j \in 1 .. head
    BY DEF DefaultLines
  <2>2. PICK h \in 1 .. j - 1 : lines[h] = Section("DEFAULT") /\ \A k \in h + 1 .. j : lines[k].kind # "section"
    BY DEF DefaultLines, InDefault
  <2>3. h \in Headers(lines, "DEFAULT") /\ h < head
    BY <2>1, <2>2 DEF Headers
  <2>4. j \in Body(lines, h)
    BY <2>1, <2>2 DEF Body
  <2>5. QED
    BY <2>3, <2>4
<1>3. QED
  BY <1>1, <1>2

\* In a session, the lines that stand in a [DEFAULT] are those before its header.
LEMMA DefaultsOfSession ==
  ASSUME NEW lines, NEW i \in Nat, NEW h, At(lines, i, h), lines[h] = Section("SESSION")
  PROVE  DefaultLines(lines, i) = DefaultLines(lines, h)
<1>1. h \in 1 .. i /\ lines[h].kind = "section" /\ \A j \in h + 1 .. i : lines[j].kind # "section"
  BY DEF At
<1>2. ASSUME NEW j \in DefaultLines(lines, i)
      PROVE  j \in 1 .. h
  <2>1. PICK x \in 1 .. j - 1 : lines[x] = Section("DEFAULT") /\ \A k \in x + 1 .. j : lines[k].kind # "section"
    BY DEF DefaultLines, InDefault
  <2>2. j \in 1 .. i
    BY DEF DefaultLines
  <2>3. x # h /\ lines[x].kind = "section"
    <3>1. lines[x].kind = "section" /\ lines[x].key = "DEFAULT" /\ lines[h].key = "SESSION"
      BY <2>1, SectionIs
    <3>2. QED
      BY <3>1
  <2>4. x \notin h + 1 .. i
    BY <1>1, <2>3
  <2>5. x \in 1 .. i
    BY <2>1, <2>2
  <2>6. x < h
    BY <1>1, <2>3, <2>4, <2>5
  <2>7. h \notin x + 1 .. j
    BY <1>1, <2>1
  <2>8. QED
    BY <1>1, <2>2, <2>5, <2>6, <2>7
<1>3. \A j \in 1 .. h : j \in 1 .. i
  BY <1>1
<1>4. QED
  BY <1>2, <1>3 DEF DefaultLines

\* A session's block, when its last line was read.
LEMMA BlockIsRight ==
  ASSUME NEW lines, Len(lines) \in Nat, NEW i \in 0 .. Len(lines), NEW p,
         ParsedDefaults(lines, i, p), ParsedCurrent(lines, i, p),
         NEW h, At(lines, i, h), lines[h] = Section("SESSION"),
         i = Len(lines) \/ lines[i + 1].kind = "section"
  PROVE  IsBlock(lines, h, [values |-> Over(p.current, p.defaults),
                            redacted_keys |-> p.default_redacted \cup p.current_redacted])
<1> DEFINE block == [values |-> Over(p.current, p.defaults),
                     redacted_keys |-> p.default_redacted \cup p.current_redacted]
           own == h + 1 .. i
           base == DefaultLines(lines, i)
           keys == Keys(lines, own) \cup Keys(lines, base)
<1>1. h \in 1 .. i /\ lines[h].kind = "section" /\ \A j \in h + 1 .. i : lines[j].kind # "section"
  BY DEF At
<1>2. Body(lines, h) = own
  <2>1. own \subseteq Body(lines, h)
    <3>1. ASSUME NEW j \in own
          PROVE  j \in h + 1 .. Len(lines) /\ \A k \in h + 1 .. j : lines[k].kind # "section"
      BY <1>1
    <3>2. QED
      BY <3>1 DEF Body
  <2>2. ASSUME NEW j \in Body(lines, h)
        PROVE  j \in own
    <3>1. j \in h + 1 .. Len(lines) /\ \A k \in h + 1 .. j : lines[k].kind # "section"
      BY DEF Body
    <3>2. ~(i + 1 \in h + 1 .. j) \/ i = Len(lines)
      BY <3>1
    <3>3. QED
      BY <1>1, <3>1, <3>2
  <2>3. QED
    BY <2>1, <2>2
<1>3. UNION {Body(lines, x) : x \in {y \in Headers(lines, "DEFAULT") : y < h}} = base
  <2>1. h \in 1 .. Len(lines)
    BY <1>1
  <2>2. UNION {Body(lines, x) : x \in {y \in Headers(lines, "DEFAULT") : y < h}} = DefaultLines(lines, h)
    BY <1>1, <2>1, DefaultsBefore
  <2>3. DefaultLines(lines, h) = base
    BY DefaultsOfSession
  <2>4. QED
    BY <2>2, <2>3
<1>4. lines[h].key = "SESSION"
  BY SectionIs
<1>5. Holds(p.current, lines, own) /\ Keys(lines, own) \cap SensitiveKeys \subseteq p.current_redacted
  BY <1>1, <1>4 DEF ParsedCurrent
<1>6. Holds(p.defaults, lines, base) /\ Keys(lines, base) \cap SensitiveKeys \subseteq p.default_redacted
  BY DEF ParsedDefaults
<1>7. block.values = Over(p.current, p.defaults)
      /\ block.redacted_keys = p.default_redacted \cup p.current_redacted
  OBVIOUS
<1> HIDE DEF block, own, base
<1>8. DOMAIN block.values = keys \ SensitiveKeys
  BY <1>5, <1>6, <1>7 DEF Holds, Over
<1>9. ASSUME NEW key \in keys \ SensitiveKeys
      PROVE  block.values[key] = LastValue(lines, IF key \in Keys(lines, own) THEN own ELSE base, key)
  <2>1. key \in DOMAIN p.current \cup DOMAIN p.defaults
    BY <1>5, <1>6 DEF Holds
  <2>2. block.values[key] = IF key \in DOMAIN p.current THEN p.current[key] ELSE p.defaults[key]
    BY <1>7, <2>1, Zenon DEF Over
  <2>3. CASE key \in Keys(lines, own)
    <3>1. key \in DOMAIN p.current /\ p.current[key] = LastValue(lines, own, key)
      BY <1>5, <2>3 DEF Holds
    <3>2. QED
      BY <2>2, <2>3, <3>1
  <2>4. CASE key \notin Keys(lines, own)
    <3>1. key \notin DOMAIN p.current
      BY <1>5, <2>4 DEF Holds
    <3>2. p.defaults[key] = LastValue(lines, base, key)
      BY <1>6, <2>1, <3>1 DEF Holds
    <3>3. QED
      BY <2>2, <2>4, <3>1, <3>2
  <2>5. QED
    BY <2>3, <2>4
<1>10. keys \cap SensitiveKeys \subseteq block.redacted_keys
  BY <1>5, <1>6, <1>7
<1>11. IsBlock(lines, h, block)
  BY <1>2, <1>3, <1>8, <1>9, <1>10, Zenon DEF IsBlock
<1>12. QED
  BY <1>11 DEF block

\* A commit at the end of a section finishes the blocks up to there.
LEMMA CommitBlocks ==
  ASSUME NEW K, NEW V, NEW lines \in Seq(LinesOf(K, V)), NEW i \in 0 .. Len(lines),
         NEW p \in Parser(K, V), Parsed(lines, i, p),
         i = Len(lines) \/ lines[i + 1].kind = "section"
  PROVE  /\ BlocksAre(lines, {h \in Heads(lines) : h <= i}, Commit(p).sessions)
         /\ Commit(p).current = NoSettings
<1> DEFINE D == Done(lines, i)
           All == {h \in Heads(lines) : h <= i}
<1>0. i \in Nat
  OBVIOUS
<1>1. Len(lines) \in Nat /\ \A j \in 1 .. Len(lines) : lines[j] \in LinesOf(K, V)
  OBVIOUS
<1>2. \A h \in Heads(lines) : h \in 1 .. Len(lines) /\ lines[h] = Section("SESSION")
                                /\ lines[h].kind = "section" /\ lines[h].key = "SESSION"
  BY SectionIs DEF Heads, Headers
<1>3. CASE p.sec # "SESSION"
  <2>1. Commit(p) = p
    BY <1>3 DEF Commit
  <2>2. \A h \in Heads(lines) : ~At(lines, i, h)
    BY <1>2, <1>3 DEF Parsed, ParsedSec, At
  <2>3. All = D
    BY <2>2 DEF Done
  <2>4. QED
    BY <1>3, <2>1, <2>3, Zenon DEF Parsed, ParsedCurrent
<1>4. CASE p.sec = "SESSION"
  <2> DEFINE block == [values |-> Over(p.current, p.defaults),
                       redacted_keys |-> p.default_redacted \cup p.current_redacted]
  <2>1. Commit(p).sessions = Append(p.sessions, block) /\ Commit(p).current = NoSettings
    <3>1. /\ Commit(p).sessions =
               Append(p.sessions, [values |-> Over(p.current, p.defaults),
                                   redacted_keys |-> p.default_redacted \cup p.current_redacted])
          /\ Commit(p).current = NoSettings
      BY <1>4, CommitOfBlock, Zenon
    <3>2. QED
      BY <3>1
  <2>2. PICK head \in 1 .. i : At(lines, i, head)
    BY <1>4 DEF Parsed, ParsedSec
  <2>3. lines[head] = Section("SESSION") /\ head \in Heads(lines)
    <3>1. lines[head].kind = "section" /\ lines[head].key = "SESSION"
      BY <1>4, <2>2 DEF At, Parsed, ParsedSec
    <3>2. head \in 1 .. Len(lines) /\ lines[head] \in LinesOf(K, V)
      BY <1>1, <2>2
    <3>3. lines[head] = Section("SESSION")
      BY <3>1, <3>2, LineIs
    <3>4. QED
      BY <3>2, <3>3 DEF Heads, Headers
  <2>4. IsBlock(lines, head, block)
    BY <1>1, <2>2, <2>3, BlockIsRight DEF Parsed
  <2>5. ASSUME NEW h \in D
        PROVE  h < head /\ h \in Heads(lines) /\ h \in Nat
    <3>1. h \in Heads(lines) /\ h <= i /\ ~At(lines, i, h)
      BY DEF Done
    <3>2. h \in 1 .. i /\ lines[h].kind = "section"
      BY <1>1, <1>2, <3>1
    <3>3. h <= head
      BY <1>0, <2>2, <3>2, AtOne
    <3>4. h # head
      BY <2>2, <3>1
    <3>5. QED
      BY <2>2, <3>1, <3>2, <3>3, <3>4
  <2>6. ASSUME NEW h \in Heads(lines), h < head
        PROVE  h \in D
    <3>1. h \in 1 .. Len(lines) /\ h <= i
      BY <1>1, <1>2, <2>2, <2>6
    <3>2. ~At(lines, i, h)
      <4>1. SUFFICES ASSUME At(lines, i, h)
                     PROVE  FALSE
        OBVIOUS
      <4>2. lines[head].kind = "section"
        BY <2>2 DEF At
      <4>3. head <= h
        BY <1>0, <2>2, <4>1, <4>2, AtOne
      <4>4. QED
        BY <2>2, <2>6, <3>1, <4>3
    <3>3. QED
      BY <3>1, <3>2 DEF Done
  <2>7. All = D \cup {head} /\ head \notin D
    <3>1. ASSUME NEW h \in Heads(lines), h <= i
          PROVE  h \in D \cup {head}
      <4>1. h \in 1 .. i /\ lines[h].kind = "section"
        BY <1>1, <1>2, <3>1
      <4>2. h <= head
        BY <1>0, <2>2, <4>1, AtOne
      <4>3. QED
        BY <2>2, <2>6, <4>1, <4>2
    <3>2. ASSUME NEW h \in D
          PROVE  h <= i
      BY DEF Done
    <3>3. head <= i /\ head \notin D
      BY <2>2, <2>5
    <3>4. QED
      BY <2>3, <2>5, <3>1, <3>2, <3>3
  <2>8. IsFiniteSet(D) /\ Cardinality(D) \in Nat /\ Cardinality(All) = Cardinality(D) + 1
    <3>1. D \subseteq 1 .. Len(lines)
      BY <1>2, <2>5
    <3>2. IsFiniteSet(1 .. Len(lines))
      BY <1>1, FS_Interval
    <3>3. IsFiniteSet(D)
      BY <3>1, <3>2, FS_Subset
    <3> HIDE DEF D, All
    <3>4. QED
      BY <2>7, <3>3, FS_CardinalityType, FS_AddElement
  <2>9. PlaceOf(lines, head) = Cardinality(D) + 1
    <3>1. {x \in Heads(lines) : x <= head} = All
      <4>1. ASSUME NEW x \in Heads(lines)
            PROVE  x <= head <=> x \in D \cup {head}
        BY <1>1, <1>2, <2>2, <2>5, <2>6
      <4>2. \A x \in All : x \in Heads(lines)
        OBVIOUS
      <4>3. QED
        BY <2>7, <4>1, <4>2
    <3>2. QED
      BY <2>8, <3>1 DEF PlaceOf
  <2>10. ASSUME NEW h \in D
         PROVE  PlaceOf(lines, h) \in 1 .. Cardinality(D)
    <3> DEFINE P == {x \in Heads(lines) : x <= h}
    <3>1. P \subseteq D /\ h \in P
      <4>1. h < head /\ h \in Heads(lines) /\ h \in Nat
        BY <2>5
      <4>2. ASSUME NEW x \in P
            PROVE  x < head
        <5>1. x \in Heads(lines) /\ x <= h
          OBVIOUS
        <5>2. x \in Nat /\ h \in Nat /\ head \in Nat
          <6>1. x \in 1 .. Len(lines)
            BY <1>2, <5>1, Zenon
          <6>2. head \in Nat
            BY <1>0
          <6>3. QED
            BY <1>1, <4>1, <6>1, <6>2
        <5> HIDE DEF P
        <5>3. QED
          BY <4>1, <5>1, <5>2
      <4>3. \A x \in P : x \in Heads(lines)
        OBVIOUS
      <4>4. h \in P
        BY <4>1
      <4> HIDE DEF P
      <4>5. QED
        BY <2>6, <4>2, <4>3, <4>4
    <3>2. IsFiniteSet(P) /\ Cardinality(P) <= Cardinality(D) /\ Cardinality(P) \in Nat
      <4> HIDE DEF P, D
      <4>1. QED
        BY <2>8, <3>1, FS_Subset, FS_CardinalityType
    <3>3. Cardinality(P) # 0
      <4> HIDE DEF P, D
      <4>1. QED
        BY <3>1, <3>2, FS_EmptySet
    <3>4. QED
      BY <2>8, <3>2, <3>3 DEF PlaceOf
  <2>11. /\ p.sessions \in Seq([values : Dict(K, V), redacted_keys : SUBSET K])
         /\ Len(p.sessions) = Cardinality(D)
         /\ \A h \in D : IsBlock(lines, h, p.sessions[PlaceOf(lines, h)])
    BY Zenon DEF Parser, Parsed, BlocksAre
  <2> HIDE DEF block, D, All
  <2>12. /\ Len(Append(p.sessions, block)) = Cardinality(D) + 1
         /\ \A k \in 1 .. Cardinality(D) : Append(p.sessions, block)[k] = p.sessions[k]
         /\ Append(p.sessions, block)[Cardinality(D) + 1] = block
    <3>1. \A S : \A s \in Seq(S) : \A x : s \in Seq(S \cup {x})
      OBVIOUS
    <3> DEFINE S == [values : Dict(K, V), redacted_keys : SUBSET K]
    <3> HIDE DEF S
    <3>2. p.sessions \in Seq(S \cup {block}) /\ block \in S \cup {block}
      BY <2>11, <3>1 DEF S
    <3>3. QED
      BY <2>8, <2>11, <3>2, AppendProperties
  <2>13. BlocksAre(lines, All, Append(p.sessions, block))
    <3>1. ASSUME NEW h \in All
          PROVE  IsBlock(lines, h, Append(p.sessions, block)[PlaceOf(lines, h)])
      <4>1. CASE h = head
        BY <2>4, <2>9, <2>12, <4>1
      <4>2. CASE h \in D
        BY <2>10, <2>11, <2>12, <4>2
      <4>3. QED
        BY <2>7, <4>1, <4>2
    <3>2. QED
      BY <2>8, <2>12, <3>1 DEF BlocksAre
  <2>14. QED
    BY <2>1, <2>13 DEF All
<1>5. QED
  BY <1>3, <1>4

\* Which section the parser is in decides where the next line stands.
LEMMA SecIs ==
  ASSUME NEW K, NEW V, NEW lines \in Seq(LinesOf(K, V)), NEW i \in 0 .. Len(lines),
         NEW p \in Parser(K, V), ParsedSec(lines, i, p), NEW name, name # "NONE"
  PROVE  p.sec = name <=> \E h \in 1 .. i : At(lines, i, h) /\ lines[h] = Section(name)
<1>1. ASSUME p.sec = name
      PROVE  \E h \in 1 .. i : At(lines, i, h) /\ lines[h] = Section(name)
  <2>1. PICK h \in 1 .. i : At(lines, i, h)
    BY <1>1 DEF ParsedSec
  <2>2. lines[h].kind = "section" /\ lines[h].key = name
    BY <1>1, <2>1 DEF ParsedSec, At
  <2>3. h \in 1 .. Len(lines)
    OBVIOUS
  <2>4. lines[h] \in LinesOf(K, V)
    BY <2>3
  <2>5. QED
    BY <2>1, <2>2, <2>4, LineIs
<1>2. ASSUME NEW h \in 1 .. i, At(lines, i, h), lines[h] = Section(name)
      PROVE  p.sec = name
  <2>1. lines[h].key = name
    BY <1>2, SectionIs
  <2>2. QED
    BY <1>2, <2>1 DEF ParsedSec
<1>3. QED
  BY <1>1, <1>2

\* A line that is no header, by the section it stands in: it adds to the lines
\* of the defaults or to those of the session.
LEMMA LineAdds ==
  ASSUME NEW K, NEW V, NEW lines \in Seq(LinesOf(K, V)), NEW i \in 0 .. Len(lines), i # Len(lines),
         NEW p \in Parser(K, V), ParsedSec(lines, i, p), lines[i + 1].kind # "section"
  PROVE  /\ \A h : At(lines, i + 1, h) <=> At(lines, i, h)
         /\ DefaultLines(lines, i + 1) =
              DefaultLines(lines, i) \cup (IF p.sec = "DEFAULT" THEN {i + 1} ELSE {})
         /\ \A h \in 1 .. i : At(lines, i, h) => h + 1 .. i + 1 = (h + 1 .. i) \cup {i + 1}
         /\ Done(lines, i + 1) = Done(lines, i)
<1>0. i \in Nat
  OBVIOUS
<1>1. \A h : At(lines, i + 1, h) <=> At(lines, i, h)
  BY <1>0, AtNext
<1>2. DefaultLines(lines, i + 1) =
        DefaultLines(lines, i) \cup (IF p.sec = "DEFAULT" THEN {i + 1} ELSE {})
  <2>1. p.sec = "DEFAULT" <=> \E h \in 1 .. i : At(lines, i, h) /\ lines[h] = Section("DEFAULT")
    BY SecIs
  <2>2. DefaultLines(lines, i + 1) =
           DefaultLines(lines, i) \cup
             (IF /\ lines[i + 1].kind # "section"
                 /\ \E h \in 1 .. i : At(lines, i, h) /\ lines[h] = Section("DEFAULT")
              THEN {i + 1} ELSE {})
    BY <1>0, DefaultNext
  <2>3. QED
    BY <2>1, <2>2
<1>3. \A h \in 1 .. i : h + 1 .. i + 1 = (h + 1 .. i) \cup {i + 1}
  OBVIOUS
<1>4. Done(lines, i + 1) = Done(lines, i)
  <2>1. i + 1 \notin Heads(lines)
    BY SectionIs DEF Heads, Headers
  <2>2. \A h \in Heads(lines) : h <= i + 1 <=> h <= i
    <3>1. \A h \in Heads(lines) : h \in Nat
      BY DEF Heads, Headers
    <3>2. QED
      BY <1>0, <2>1, <3>1
  <2>3. QED
    BY <1>1, <2>2 DEF Done
<1>5. QED
  BY <1>1, <1>2, <1>3, <1>4

\* A header ends the block before it.
LEMMA ParseHeader ==
  ASSUME NEW K, NEW V, NEW lines \in Seq(LinesOf(K, V)), NEW i \in 0 .. Len(lines), i # Len(lines),
         NEW p \in Parser(K, V), Parsed(lines, i, p), lines[i + 1].kind = "section"
  PROVE  Parsed(lines, i + 1, ParseLine(p, lines[i + 1]))
<1> DEFINE l == lines[i + 1]
           q == ParseLine(p, l)
           c == Commit(p)
<1>0. i \in Nat /\ i + 1 \in 1 .. Len(lines) /\ l \in LinesOf(K, V)
  OBVIOUS
<1>1. /\ q.sec = l.key /\ q.defaults = c.defaults /\ q.default_redacted = c.default_redacted
      /\ q.current = c.current /\ q.current_redacted = c.current_redacted
      /\ q.sessions = c.sessions
  <2>1. ParseOutcome(p, l, q)
    BY <1>0, ParseLineFields
  <2>2. l.kind = "section"
    OBVIOUS
  <2> HIDE DEF q, l
  <2>3. QED
    BY <2>1, <2>2 DEF ParseOutcome
<1>2. c.defaults = p.defaults /\ c.default_redacted = p.default_redacted
  BY CommitFields
<1>3. BlocksAre(lines, {h \in Heads(lines) : h <= i}, c.sessions) /\ c.current = NoSettings
  BY CommitBlocks
<1>4. \A h : At(lines, i + 1, h) <=> h = i + 1
  BY <1>0, AtNext
<1>5. DefaultLines(lines, i + 1) = DefaultLines(lines, i)
  <2>1. ~(/\ lines[i + 1].kind # "section"
          /\ \E h \in 1 .. i : At(lines, i, h) /\ lines[h] = Section("DEFAULT"))
    OBVIOUS
  <2>2. DefaultLines(lines, i + 1) =
           DefaultLines(lines, i) \cup
             (IF /\ lines[i + 1].kind # "section"
                 /\ \E h \in 1 .. i : At(lines, i, h) /\ lines[h] = Section("DEFAULT")
              THEN {i + 1} ELSE {})
    BY <1>0, DefaultNext
  <2>3. QED
    BY <2>1, <2>2
<1>6. Done(lines, i + 1) = {h \in Heads(lines) : h <= i}
  <2>1. \A h \in Heads(lines) : h \in Nat
    BY DEF Heads, Headers
  <2>2. \A h \in Heads(lines) : h <= i + 1 /\ h # i + 1 <=> h <= i
    BY <1>0, <2>1
  <2>3. QED
    BY <1>4, <2>2 DEF Done
<1> HIDE DEF q, c, l
<1>7. ParsedSec(lines, i + 1, q)
  <2>1. i + 1 \in 1 .. i + 1
    BY <1>0
  <2>2. QED
    BY <1>1, <1>4, <2>1 DEF ParsedSec, l
<1>8. ParsedDefaults(lines, i + 1, q)
  BY <1>1, <1>2, <1>5 DEF Parsed, ParsedDefaults
<1>9. ParsedCurrent(lines, i + 1, q)
  <2>1. \A h : At(lines, i + 1, h) => h + 1 .. i + 1 = {}
    BY <1>0, <1>4
  <2>2. Keys(lines, {}) = {}
    BY DEF Keys
  <2>3. Holds(NoSettings, lines, {})
    BY <2>2 DEF Holds, NoSettings
  <2>4. QED
    BY <1>1, <1>3, <2>1, <2>2, <2>3 DEF ParsedCurrent
<1>10. BlocksAre(lines, Done(lines, i + 1), q.sessions)
  BY <1>1, <1>3, <1>6
<1>11. Parsed(lines, i + 1, q)
  BY <1>7, <1>8, <1>9, <1>10 DEF Parsed
<1>12. QED
  BY <1>11 DEF q, l

\* Any other line says something in its section, or nothing.
LEMMA ParseOther ==
  ASSUME NEW K, NEW V, NEW lines \in Seq(LinesOf(K, V)), NEW i \in 0 .. Len(lines), i # Len(lines),
         NEW p \in Parser(K, V), Parsed(lines, i, p), lines[i + 1].kind # "section"
  PROVE  Parsed(lines, i + 1, ParseLine(p, lines[i + 1]))
<1> DEFINE l == lines[i + 1]
           q == ParseLine(p, l)
           Dl == DefaultLines(lines, i)
<1>0. i \in Nat /\ i + 1 \in Nat /\ i + 1 \in 1 .. Len(lines) /\ l \in LinesOf(K, V)
  OBVIOUS
<1>1. ParseOutcome(p, l, q)
  BY <1>0, ParseLineFields
<1>2. /\ \A h : At(lines, i + 1, h) <=> At(lines, i, h)
      /\ DefaultLines(lines, i + 1) = Dl \cup (IF p.sec = "DEFAULT" THEN {i + 1} ELSE {})
      /\ \A h \in 1 .. i : At(lines, i, h) => h + 1 .. i + 1 = (h + 1 .. i) \cup {i + 1}
      /\ Done(lines, i + 1) = Done(lines, i)
  BY LineAdds DEF Parsed
<1>3. \A j \in Dl : j \in Nat /\ j < i + 1
  BY <1>0 DEF DefaultLines
<1>4. /\ Holds(p.defaults, lines, Dl)
      /\ Keys(lines, Dl) \cap SensitiveKeys \subseteq p.default_redacted
  BY DEF Parsed, ParsedDefaults
<1>5. q.sec = p.sec /\ q.sessions = p.sessions
  BY <1>1 DEF ParseOutcome
<1>6. \A h : At(lines, i, h) => h \in 1 .. i /\ h \in 1 .. i + 1
  BY <1>0 DEF At
<1> HIDE DEF q, Dl
<1>7. ParsedSec(lines, i + 1, q)
  BY <1>2, <1>5, <1>6 DEF Parsed, ParsedSec
<1>8. ParsedDefaults(lines, i + 1, q)
  <2>1. CASE p.sec # "DEFAULT"
    <3>1. q.defaults = p.defaults /\ q.default_redacted = p.default_redacted
      BY <1>1, <2>1 DEF ParseOutcome
    <3>2. QED
      BY <1>2, <1>4, <2>1, <3>1 DEF ParsedDefaults
  <2>2. CASE p.sec = "DEFAULT"
    <3>1. DefaultLines(lines, i + 1) = Dl \cup {i + 1}
      BY <1>2, <2>2
    <3>2. Holds(q.defaults, lines, Dl \cup {i + 1})
      <4>1. CASE l.kind = "setting" /\ l.key \notin SensitiveKeys
        <5>1. q.defaults = Set(p.defaults, l.key, l.val)
          BY <1>1, <2>2, <4>1 DEF ParseOutcome
        <5>2. Holds(Set(p.defaults, l.key, l.val), lines, Dl \cup {i + 1})
          BY <1>0, <1>3, <1>4, <4>1, HoldsSet, Zenon
        <5>3. QED
          BY <5>1, <5>2
      <4>2. CASE ~(l.kind = "setting" /\ l.key \notin SensitiveKeys)
        <5>1. q.defaults = p.defaults
          BY <1>1, <4>2 DEF ParseOutcome
        <5>2. QED
          BY <1>4, <4>2, <5>1, HoldsSkip
      <4>3. QED
        BY <4>1, <4>2
    <3>3. Keys(lines, Dl \cup {i + 1}) \cap SensitiveKeys \subseteq q.default_redacted
      <4>1. Keys(lines, Dl \cup {i + 1}) =
              Keys(lines, Dl) \cup (IF l.kind = "setting" THEN {l.key} ELSE {})
        BY KeysAdd
      <4>2. p.default_redacted \subseteq q.default_redacted
        BY <1>1, <2>2 DEF ParseOutcome
      <4>3. l.kind = "setting" /\ l.key \in SensitiveKeys => l.key \in q.default_redacted
        BY <1>1, <2>2 DEF ParseOutcome
      <4> HIDE DEF l
      <4>4. QED
        BY <1>4, <4>1, <4>2, <4>3
    <3>4. QED
      BY <3>1, <3>2, <3>3 DEF ParsedDefaults
  <2>3. QED
    BY <2>1, <2>2
<1>9. ParsedCurrent(lines, i + 1, q)
  <2>1. CASE p.sec # "SESSION"
    <3>1. q.current = p.current /\ p.current = NoSettings
      BY <1>1, <2>1 DEF ParseOutcome, Parsed, ParsedCurrent
    <3>2. \A h : At(lines, i + 1, h) => lines[h].key # "SESSION"
      BY <1>2, <1>6, <2>1 DEF Parsed, ParsedSec
    <3>3. QED
      BY <1>5, <2>1, <3>1, <3>2 DEF ParsedCurrent
  <2>2. CASE p.sec = "SESSION"
    <3> SUFFICES ASSUME NEW h \in 1 .. i + 1, At(lines, i + 1, h), lines[h].key = "SESSION"
                 PROVE  /\ Holds(q.current, lines, h + 1 .. i + 1)
                        /\ Keys(lines, h + 1 .. i + 1) \cap SensitiveKeys \subseteq q.current_redacted
      BY <1>5, <2>2 DEF ParsedCurrent
    <3> DEFINE own == h + 1 .. i
    <3>1. At(lines, i, h) /\ h \in 1 .. i /\ h + 1 .. i + 1 = own \cup {i + 1}
      BY <1>2, <1>6
    <3>2. /\ Holds(p.current, lines, own)
          /\ Keys(lines, own) \cap SensitiveKeys \subseteq p.current_redacted
      BY <3>1 DEF Parsed, ParsedCurrent
    <3>3. \A j \in own : j \in Nat /\ j < i + 1
      BY <1>0, <3>1
    <3> HIDE DEF own
    <3>4. Holds(q.current, lines, own \cup {i + 1})
      <4>1. CASE l.kind = "setting" /\ l.key \notin SensitiveKeys
        <5>1. q.current = Set(p.current, l.key, l.val)
          BY <1>1, <2>2, <4>1 DEF ParseOutcome
        <5>2. Holds(Set(p.current, l.key, l.val), lines, own \cup {i + 1})
          BY <1>0, <3>2, <3>3, <4>1, HoldsSet, Zenon
        <5>3. QED
          BY <5>1, <5>2
      <4>2. CASE ~(l.kind = "setting" /\ l.key \notin SensitiveKeys)
        <5>1. q.current = p.current
          BY <1>1, <4>2 DEF ParseOutcome
        <5>2. QED
          BY <3>2, <4>2, <5>1, HoldsSkip
      <4>3. QED
        BY <4>1, <4>2
    <3>5. Keys(lines, own \cup {i + 1}) \cap SensitiveKeys \subseteq q.current_redacted
      <4>1. Keys(lines, own \cup {i + 1}) =
              Keys(lines, own) \cup (IF l.kind = "setting" THEN {l.key} ELSE {})
        BY KeysAdd
      <4>2. p.current_redacted \subseteq q.current_redacted
        BY <1>1, <2>2 DEF ParseOutcome
      <4>3. l.kind = "setting" /\ l.key \in SensitiveKeys => l.key \in q.current_redacted
        BY <1>1, <2>2 DEF ParseOutcome
      <4> HIDE DEF l
      <4>4. QED
        BY <3>2, <4>1, <4>2, <4>3
    <3>6. QED
      BY <3>1, <3>4, <3>5
  <2>3. QED
    BY <2>1, <2>2
<1>10. BlocksAre(lines, Done(lines, i + 1), q.sessions)
  BY <1>2, <1>5 DEF Parsed
<1>11. Parsed(lines, i + 1, q)
  BY <1>7, <1>8, <1>9, <1>10 DEF Parsed
<1>12. QED
  BY <1>11 DEF q

\* The blocks of a file of any length, with any names and values.
LEMMA BlocksOfFile ==
  ASSUME NEW K, NEW V, NEW lines \in Seq(LinesOf(K, V))
  PROVE  Inherits(lines)
<1> DEFINE n == Len(lines)
<1>1. n \in Nat
  OBVIOUS
<1>2. PICK h : ParseRun(K, V, lines, h)
  BY ParseRuns
<1>3. /\ h[0] = NoBlocks
      /\ \A i \in 1 .. n : h[i] = ParseLine(h[i - 1], lines[i])
      /\ \A i \in 0 .. n : h[i] \in Parser(K, V)
      /\ parse_quickfix_settings(lines) = Commit(h[n]).sessions
  BY <1>2 DEF ParseRun
<1>4. \A i \in 0 .. n : Parsed(lines, i, h[i])
  <2> DEFINE T == {i \in 0 .. n : Parsed(lines, i, h[i])}
  <2>1. 0 \in T
    <3>1. \A x : ~At(lines, 0, x)
      BY DEF At
    <3>2. Done(lines, 0) = {} /\ DefaultLines(lines, 0) = {}
      BY DEF Done, Heads, Headers, DefaultLines
    <3>3. Keys(lines, {}) = {}
      BY DEF Keys
    <3>4. Holds(NoSettings, lines, {})
      BY <3>3 DEF Holds, NoSettings
    <3>5. ParsedSec(lines, 0, NoBlocks) /\ ParsedCurrent(lines, 0, NoBlocks)
      BY <3>1 DEF ParsedSec, ParsedCurrent, NoBlocks
    <3>6. ParsedDefaults(lines, 0, NoBlocks)
      BY <3>2, <3>3, <3>4 DEF ParsedDefaults, NoBlocks
    <3>7. BlocksAre(lines, Done(lines, 0), NoBlocks.sessions)
      <4>1. NoBlocks.sessions = << >>
        BY DEF NoBlocks
      <4>2. Cardinality({}) = 0
        BY FS_EmptySet
      <4>3. QED
        BY <3>2, <4>1, <4>2 DEF BlocksAre
    <3>8. Parsed(lines, 0, NoBlocks)
      BY <3>5, <3>6, <3>7 DEF Parsed
    <3>9. QED
      BY <1>1, <1>3, <3>8
  <2>2. ASSUME NEW i \in 1 .. n, i - 1 \in T
        PROVE  i \in T
    <3>1. i - 1 \in 0 .. n /\ i - 1 # n /\ (i - 1) + 1 = i /\ Parsed(lines, i - 1, h[i - 1])
          /\ h[i - 1] \in Parser(K, V)
      BY <1>1, <1>3, <2>2
    <3>2. Parsed(lines, (i - 1) + 1, ParseLine(h[i - 1], lines[(i - 1) + 1]))
      BY <3>1, ParseHeader, ParseOther
    <3>3. Parsed(lines, i, h[i])
      BY <1>3, <3>1, <3>2
    <3>4. QED
      BY <3>3
  <2> HIDE DEF T
  <2>3. \A i \in 0 .. n : i \in T
    BY <1>1, <2>1, <2>2, Rounds
  <2>4. QED
    BY <2>3 DEF T
<1>5. n \in 0 .. n /\ Parsed(lines, n, h[n]) /\ h[n] \in Parser(K, V)
  BY <1>1, <1>3, <1>4
<1>6. BlocksAre(lines, {x \in Heads(lines) : x <= n}, Commit(h[n]).sessions)
  <2> DEFINE p == h[n]
  <2>1. p \in Parser(K, V) /\ Parsed(lines, n, p)
    BY <1>5
  <2>2. n \in 0 .. Len(lines) /\ (n = Len(lines) \/ lines[n + 1].kind = "section")
    BY <1>5
  <2> HIDE DEF p, n
  <2>3. BlocksAre(lines, {x \in Heads(lines) : x <= n}, Commit(p).sessions)
    BY <2>1, <2>2, CommitBlocks, ZenonT(60)
  <2>4. QED
    BY <2>3 DEF p
<1>7. {x \in Heads(lines) : x <= n} = Headers(lines, "SESSION")
  <2>1. \A x \in Headers(lines, "SESSION") : x \in 1 .. n
    BY DEF Headers
  <2>2. \A x \in Headers(lines, "SESSION") : x <= n
    BY <1>1, <2>1
  <2>3. QED
    BY <2>2 DEF Heads
<1>8. BlocksAre(lines, Headers(lines, "SESSION"), parse_quickfix_settings(lines))
  BY <1>3, <1>6, <1>7
<1> HIDE DEF n
<1>9. /\ Len(parse_quickfix_settings(lines)) = Cardinality(Headers(lines, "SESSION"))
      /\ \A head \in Headers(lines, "SESSION") :
           IsBlock(lines, head,
             parse_quickfix_settings(lines)[Cardinality({x \in Headers(lines, "SESSION") : x <= head})])
  BY <1>8, Zenon DEF BlocksAre, PlaceOf, Heads
<1>10. QED
  BY <1>9, Zenon DEF Inherits

-----------------------------------------------------------------------------
(* mask_fix_body *)

\* The sequences that the library puts together, one after another.
FlatRun(S, seqs, h) ==
  /\ \A i \in 0 .. Len(seqs) : h[i] \in Seq(S)
  /\ h[0] = << >>
  /\ \A i \in 1 .. Len(seqs) : h[i] = h[i - 1] \o seqs[i]
  /\ FlattenSeq(seqs) = h[Len(seqs)]

\* What the library defines: the first sequence, and one more with each round.
IsFlatten(seqs, f) ==
  f = [i \in 1 .. Len(seqs) |-> IF i = 1 THEN seqs[i] ELSE f[i - 1] \o seqs[i]]

\* FlattenSeq by such a function.
LEMMA FlattenUnfolds ==
  ASSUME NEW seqs, Len(seqs) # 0
  PROVE  FlattenSeq(seqs) = (CHOOSE f : IsFlatten(seqs, f))[Len(seqs)]
BY DEF FlattenSeq, IsFlatten

\* There is a run through every sequence of sequences.
LEMMA FlatRuns ==
  ASSUME NEW S, NEW seqs \in Seq(Seq(S))
  PROVE  \E h : FlatRun(S, seqs, h)
<1> DEFINE n == Len(seqs)
           F == [p \in (1 .. n) \X Seq(S) |-> p[2] \o seqs[p[1]]]
<1>1. n \in Nat /\ \A i \in 1 .. n : seqs[i] \in Seq(S)
  OBVIOUS
<1>2. << >> \in Seq(S)
  OBVIOUS
<1>3. \A i \in 1 .. n, x \in Seq(S) : F[<<i, x>>] = x \o seqs[i] /\ x \o seqs[i] \in Seq(S)
  <2>1. \A x, y \in Seq(S) : x \o y \in Seq(S)
    OBVIOUS
  <2>2. \A i \in 1 .. n, x \in Seq(S) : F[<<i, x>>] = x \o seqs[i]
    <3> HIDE DEF n
    <3>1. QED
      OBVIOUS
  <2> HIDE DEF F, n
  <2>3. QED
    BY <1>1, <2>1, <2>2
<1>4. PICK h \in [0 .. n -> Seq(S)] : IsLoop(n, << >>, F, h)
  <2>1. \A i \in 1 .. n, x \in Seq(S) : F[<<i, x>>] \in Seq(S)
    BY <1>3
  <2> HIDE DEF F, n
  <2>2. QED
    BY <1>1, <1>2, <2>1, LoopExists
<1>5. \A i \in 0 .. n : h[i] \in Seq(S)
  OBVIOUS
<1>6. h[0] = << >> /\ \A i \in 1 .. n : h[i] = F[<<i, h[i - 1]>>]
  <2> HIDE DEF F, n
  <2>1. 0 \in 0 .. n /\ \A i \in 1 .. n : i \in 0 .. n /\ i # 0
    BY <1>1
  <2>2. QED
    BY <1>4, <2>1 DEF IsLoop
<1>7. \A i \in 1 .. n : h[i] = h[i - 1] \o seqs[i]
  <2>1. \A i \in 1 .. n : h[i - 1] \in Seq(S)
    BY <1>1, <1>5
  <2> HIDE DEF F, n
  <2>2. QED
    BY <1>3, <1>6, <2>1
<1> HIDE DEF F
<1>8. CASE n = 0
  <2>1. seqs = << >>
    BY <1>8
  <2>2. FlattenSeq(seqs) = << >>
    BY <1>8, <2>1 DEF FlattenSeq
  <2>3. QED
    BY <1>5, <1>6, <1>7, <1>8, <2>2 DEF FlatRun
<1>9. CASE n # 0
  <2> DEFINE g == [i \in 1 .. n |-> h[i]]
  <2>1. IsFlatten(seqs, g)
    <3>1. h[1] = seqs[1]
      <4>1. 1 \in 1 .. n /\ 1 - 1 = 0
        BY <1>1, <1>9
      <4>2. h[1] = << >> \o seqs[1] /\ seqs[1] \in Seq(S)
        BY <1>1, <1>6, <1>7, <4>1
      <4>3. QED
        BY <4>2
    <3>2. \A i \in 1 .. n : h[i] = IF i = 1 THEN seqs[i] ELSE g[i - 1] \o seqs[i]
      <4>1. \A i \in 1 .. n : i # 1 => g[i - 1] = h[i - 1]
        BY <1>1
      <4>2. QED
        BY <1>7, <3>1, <4>1
    <3>3. g = [i \in 1 .. n |-> IF i = 1 THEN seqs[i] ELSE g[i - 1] \o seqs[i]]
      BY <3>2
    <3>4. QED
      BY <3>3 DEF IsFlatten
  <2>2. PICK f : IsFlatten(seqs, f) /\ FlattenSeq(seqs) = f[n]
    BY <1>9, <2>1, FlattenUnfolds
  <2>3. \A i \in 0 .. n : i # 0 => f[i] = h[i]
    <3> DEFINE T == {i \in 0 .. n : i # 0 => f[i] = h[i]}
    <3>1. 0 \in T
      BY <1>1
    <3>2. ASSUME NEW i \in 1 .. n, i - 1 \in T
          PROVE  i \in T
      <4>1. f[i] = IF i = 1 THEN seqs[i] ELSE f[i - 1] \o seqs[i]
        BY <2>2 DEF IsFlatten
      <4>2. g[i] = IF i = 1 THEN seqs[i] ELSE g[i - 1] \o seqs[i]
        BY <2>1 DEF IsFlatten
      <4>3. g[i] = h[i] /\ (i # 1 => g[i - 1] = h[i - 1] /\ f[i - 1] = h[i - 1])
        BY <1>1, <3>2
      <4>4. i \in 0 .. n
        BY <1>1
      <4> HIDE DEF g, n
      <4>5. f[i] = h[i]
        BY <4>1, <4>2, <4>3
      <4>6. QED
        BY <4>4, <4>5
    <3> HIDE DEF T
    <3>3. \A i \in 0 .. n : i \in T
      BY <1>1, <3>1, <3>2, Rounds
    <3>4. QED
      BY <3>3 DEF T
  <2>4. FlattenSeq(seqs) = h[n]
    BY <1>1, <1>9, <2>2, <2>3
  <2>5. QED
    BY <1>5, <1>6, <1>7, <2>4 DEF FlatRun
<1>10. QED
  BY <1>8, <1>9

InParts(seqs, h) ==
  /\ Len(h[0]) = 0
  /\ \A i \in 1 .. Len(seqs) :
       /\ Len(h[i]) = Len(h[i - 1]) + Len(seqs[i])
       /\ Len(h[i]) <= Len(FlattenSeq(seqs))
       /\ \A j \in 1 .. Len(seqs[i]) : FlattenSeq(seqs)[Len(h[i - 1]) + j] = seqs[i][j]

\* What is put together holds each of the sequences where the ones before it
\* end.
LEMMA FlatParts ==
  ASSUME NEW S, NEW seqs \in Seq(Seq(S)), NEW h, FlatRun(S, seqs, h)
  PROVE  InParts(seqs, h)
<1> DEFINE n == Len(seqs)
           Begins(m) == \A i \in 0 .. m : /\ Len(h[i]) <= Len(h[m])
                                          /\ \A q \in 1 .. Len(h[i]) : h[m][q] = h[i][q]
           T == {m \in 0 .. n : Begins(m)}
<1>1. n \in Nat /\ \A i \in 1 .. n : seqs[i] \in Seq(S) /\ Len(seqs[i]) \in Nat
  OBVIOUS
<1>2. \A i \in 0 .. n : h[i] \in Seq(S) /\ Len(h[i]) \in Nat
  BY DEF FlatRun
<1>3. h[0] = << >> /\ FlattenSeq(seqs) = h[n] /\ \A i \in 1 .. n : h[i] = h[i - 1] \o seqs[i]
  BY DEF FlatRun
<1>4. ASSUME NEW i \in 1 .. n
      PROVE  /\ Len(h[i]) = Len(h[i - 1]) + Len(seqs[i])
             /\ \A q \in 1 .. Len(h[i - 1]) : h[i][q] = h[i - 1][q]
             /\ \A j \in 1 .. Len(seqs[i]) : h[i][Len(h[i - 1]) + j] = seqs[i][j]
  <2>1. h[i - 1] \in Seq(S) /\ seqs[i] \in Seq(S) /\ h[i] = h[i - 1] \o seqs[i]
    <3> HIDE DEF n
    <3>1. i - 1 \in 0 .. n
      BY <1>1
    <3>2. QED
      BY <1>1, <1>2, <1>3, <3>1
  <2> DEFINE a == h[i - 1]
             b == seqs[i]
  <2>2. a \in Seq(S) /\ b \in Seq(S)
    BY <2>1
  <2> HIDE DEF a, b
  <2>3. /\ Len(a \o b) = Len(a) + Len(b)
        /\ \A q \in 1 .. Len(a) : (a \o b)[q] = a[q]
        /\ \A j \in 1 .. Len(b) : (a \o b)[Len(a) + j] = b[j]
    BY <2>2
  <2>4. QED
    BY <2>1, <2>3 DEF a, b
<1>5. 0 \in T
  BY <1>1, <1>2
<1>6. ASSUME NEW m \in 1 .. n, m - 1 \in T
      PROVE  m \in T
  <2>1. Begins(m - 1)
    BY <1>6
  <2>2. m - 1 \in 0 .. n /\ m \in 0 .. n /\ Len(h[m - 1]) \in Nat /\ Len(h[m]) \in Nat
    BY <1>1, <1>2
  <2>3. Len(h[m - 1]) <= Len(h[m]) /\ \A q \in 1 .. Len(h[m - 1]) : h[m][q] = h[m - 1][q]
    <3> HIDE DEF n
    <3>1. Len(h[m]) = Len(h[m - 1]) + Len(seqs[m]) /\ Len(seqs[m]) \in Nat
      BY <1>1, <1>4
    <3>2. \A q \in 1 .. Len(h[m - 1]) : h[m][q] = h[m - 1][q]
      BY <1>4
    <3>3. \A x, y, z \in Nat : x = y + z => y <= x
      OBVIOUS
    <3>4. QED
      BY <2>2, <3>1, <3>2, <3>3, Zenon
  <2>4. ASSUME NEW i \in 0 .. m
        PROVE  /\ Len(h[i]) <= Len(h[m])
               /\ \A q \in 1 .. Len(h[i]) : h[m][q] = h[i][q]
    <3>1. CASE i = m
      BY <2>2, <3>1
    <3>2. CASE i # m
      <4>1. i \in 0 .. m - 1 /\ Len(h[i]) \in Nat
        BY <1>1, <1>2, <3>2
      <4>2. /\ Len(h[i]) <= Len(h[m - 1])
            /\ \A q \in 1 .. Len(h[i]) : h[m - 1][q] = h[i][q]
        BY <2>1, <4>1
      <4>3. \A q \in 1 .. Len(h[i]) : q \in 1 .. Len(h[m - 1])
        BY <2>2, <4>1, <4>2
      <4>4. QED
        BY <2>2, <2>3, <4>1, <4>2, <4>3
    <3>3. QED
      BY <3>1, <3>2
  <2>5. QED
    BY <2>2, <2>4
<1> HIDE DEF T
<1>7. \A m \in 0 .. n : m \in T
  BY <1>1, <1>5, <1>6, Rounds
<1>8. Begins(n)
  <2>1. n \in T
    BY <1>1, <1>7
  <2>2. QED
    BY <2>1, Zenon DEF T
<1>9. ASSUME NEW i \in 1 .. n, NEW j \in 1 .. Len(seqs[i])
      PROVE  h[n][Len(h[i - 1]) + j] = seqs[i][j]
  <2>1. i \in 0 .. n /\ Len(h[i - 1]) \in Nat /\ Len(seqs[i]) \in Nat
    BY <1>1, <1>2
  <2>2. Len(h[i - 1]) + j \in 1 .. Len(h[i])
    <3> HIDE DEF n
    <3>1. Len(h[i]) = Len(h[i - 1]) + Len(seqs[i])
      BY <1>4
    <3>2. \A x, y, z \in Nat : x = y + z => \A k \in 1 .. z : y + k \in 1 .. x
      OBVIOUS
    <3>3. Len(h[i]) \in Nat
      BY <1>2, <2>1
    <3>4. QED
      BY <2>1, <3>1, <3>2, <3>3, Zenon
  <2>3. QED
    BY <1>4, <1>8, <2>1, <2>2
<1>10. \A i \in 1 .. n : Len(h[i]) <= Len(h[n])
  BY <1>1, <1>8
<1>11. QED
  BY <1>3, <1>4, <1>9, <1>10 DEF InParts

\* The chunks of a body have a number for a tag and read as a number.
AreChunks(C) == \A c \in C : c.tag \in Nat /\ c.num \in Nat

\* c says how long the value of the field is that comes next; d is that field.
Announces(c) == c.num > 0 /\ DataTag(c.tag) > 0
Expects(c, d) == Announces(c) /\ d.tag = DataTag(c.tag)

\* The fields of a body are as long as they were announced, and one chunk long
\* if they were not.
AsAnnounced(fields, i) == i > 1 /\ Expects(fields[i - 1][1], fields[i][1])

Exact(fields) ==
  \A i \in 1 .. Len(fields) :
    Len(fields[i]) = IF AsAnnounced(fields, i) THEN fields[i - 1][1].num ELSE 1

\* Where the fields end in the body.
Ends(fields, body, e) ==
  /\ e[0] = 0
  /\ e[Len(fields)] = Len(body)
  /\ \A i \in 0 .. Len(fields) : e[i] \in Nat /\ e[i] <= Len(body)
  /\ \A i \in 1 .. Len(fields) : /\ e[i] = e[i - 1] + Len(fields[i])
                                 /\ body[e[i - 1] + 1] = fields[i][1]

\* What the walk carries.
Walks(body, b) ==
  [out  : Seq({MaskField(body[i], k, b) : i \in 1 .. Len(body), k \in Nat}),
   next : Nat, tag : Int, len : Nat]

\* A chunk's announcement.
LEMMA DataTagIs == \A tag \in Nat : DataTag(tag) \in Int
BY DEF DataTag

\* One step of the walk leaves what a step may start with.
LEMMA WalkOnType ==
  ASSUME NEW C, AreChunks(C), NEW body \in Seq(C), NEW b,
         NEW w \in Walks(body, b), NEW i \in 1 .. Len(body)
  PROVE  WalkOn(body, b, w, i) \in Walks(body, b)
<1> DEFINE M == {MaskField(body[x], k, b) : x \in 1 .. Len(body), k \in Nat}
           c == body[i]
           fits == c.tag > 0 /\ c.tag = w.tag /\ i + w.len <= Len(body) + 1
           k == IF fits THEN w.len ELSE 1
           announces == c.num > 0 /\ DataTag(c.tag) > 0
           t == IF announces THEN DataTag(c.tag) ELSE -1
           m == MaskField(c, k, b)
<1>1. c.tag \in Nat /\ c.num \in Nat /\ i \in Nat
  BY DEF AreChunks
<1>2. w.out \in Seq(M) /\ w.len \in Nat
  BY DEF Walks
<1>3. k \in Nat /\ i + k \in Nat
  BY <1>1, <1>2
<1>4. t \in Int
  BY <1>1, DataTagIs
<1>5. m \in M
  BY <1>3
<1>6. WalkOn(body, b, w, i) =
        IF i < w.next THEN w
        ELSE [out |-> Append(w.out, m), next |-> i + k, tag |-> t, len |-> c.num]
  BY DEF WalkOn
<1> HIDE DEF M, c, k, t, m
<1>7. Append(w.out, m) \in Seq(M)
  BY <1>2, <1>5
<1>8. QED
  BY <1>1, <1>3, <1>4, <1>6, <1>7 DEF Walks, M

\* The function by which the fold goes through a body.
WalkFold(body, b, g) ==
  g = [d \in SUBSET (DOMAIN [i \in 1 .. Len(body) |-> i]) |->
         IF d = {} THEN NoFields
         ELSE WalkOn(body, b, g[d \ {Max(d)}], [i \in 1 .. Len(body) |-> i][Max(d)])]

\* The masked body by such a function.
LEMMA WalkUnfolds ==
  \A body, b : mask_fix_body(body, b) =
                 (CHOOSE g : WalkFold(body, b, g))[DOMAIN [i \in 1 .. Len(body) |-> i]].out
BY DEF mask_fix_body, FoldLeft, MapThenFoldSet, WalkFold

\* What the walk carries, step by step.
WalkRun(body, b, h) ==
  /\ h[0] = NoFields
  /\ \A i \in 1 .. Len(body) : h[i] = WalkOn(body, b, h[i - 1], i)
  /\ mask_fix_body(body, b) = h[Len(body)].out

\* There is a walk through every body.
LEMMA WalkRuns ==
  ASSUME NEW C, AreChunks(C), NEW body \in Seq(C), NEW b
  PROVE  \E h : WalkRun(body, b, h)
<1> DEFINE n == Len(body)
           W == Walks(body, b)
           F == [p \in (1 .. n) \X W |-> WalkOn(body, b, p[2], p[1])]
<1>1. n \in Nat /\ DOMAIN [i \in 1 .. n |-> i] = 1 .. n
  OBVIOUS
<1>2. NoFields \in W
  BY DEF NoFields, Walks
<1>3. F \in [(1 .. n) \X W -> W]
  <2> HIDE DEF W
  <2>1. \A i \in 1 .. n, w \in W : WalkOn(body, b, w, i) \in W
    BY WalkOnType DEF W
  <2>2. QED
    BY <2>1
<1>4. PICK g \in [SUBSET (1 .. n) -> W] : IsFold(n, NoFields, F, g)
  <2> HIDE DEF F, n, W
  <2>1. QED
    BY <1>1, <1>2, <1>3, FoldExists
<1> DEFINE Better(d) == WalkOn(body, b, g[d \ {Max(d)}], Max(d))
<1>5. ASSUME NEW d \in SUBSET (1 .. n), d # {}
      PROVE  Max(d) \in 1 .. n /\ F[<<Max(d), g[d \ {Max(d)}]>>] = Better(d)
  <2> HIDE DEF W
  <2>1. Max(d) \in 1 .. n
    BY <1>1, <1>5, MaxIs
  <2>2. g[d \ {Max(d)}] \in W
    OBVIOUS
  <2>3. QED
    BY <2>1, <2>2
<1>6. g = [d \in SUBSET (1 .. n) |-> IF d = {} THEN NoFields ELSE Better(d)]
  <2> HIDE DEF F, n, W, Better
  <2>1. g = [d \in SUBSET (1 .. n) |-> IF d = {} THEN NoFields ELSE F[<<Max(d), g[d \ {Max(d)}]>>]]
    BY <1>4 DEF IsFold
  <2>2. QED
    BY <2>1, <1>5
<1>7. WalkFold(body, b, g)
  <2>1. \A d \in SUBSET (1 .. n) : d # {} => [i \in 1 .. n |-> i][Max(d)] = Max(d)
    <3> HIDE DEF n
    <3>1. QED
      BY <1>5
  <2>2. QED
    BY <1>1, <1>6, <2>1 DEF WalkFold
<1>8. PICK f : WalkFold(body, b, f) /\ mask_fix_body(body, b) = f[1 .. n].out
  BY <1>1, <1>7, WalkUnfolds
<1>9. f[{}] = NoFields /\ \A d \in SUBSET (1 .. n) : d # {} /\ Max(d) \in 1 .. n =>
                              f[d] = WalkOn(body, b, f[d \ {Max(d)}], Max(d))
  BY <1>1, <1>8 DEF WalkFold
<1> DEFINE h == [i \in 0 .. n |-> f[1 .. i]]
<1>10. h[0] = NoFields
  <2>1. 1 .. 0 = {} /\ 0 \in 0 .. n
    BY <1>1
  <2>2. QED
    BY <1>9, <2>1
<1>11. ASSUME NEW i \in 1 .. n
       PROVE  h[i] = WalkOn(body, b, h[i - 1], i)
  <2>1. /\ 1 .. i \in SUBSET (1 .. n) /\ 1 .. i # {} /\ Max(1 .. i) = i
        /\ (1 .. i) \ {Max(1 .. i)} = 1 .. i - 1
    BY <1>1, FoldSteps
  <2>2. f[1 .. i] = WalkOn(body, b, f[1 .. i - 1], i)
    BY <1>9, <2>1
  <2>3. i \in 0 .. n /\ i - 1 \in 0 .. n
    BY <1>1
  <2> HIDE DEF n
  <2>4. QED
    BY <2>2, <2>3
<1>12. mask_fix_body(body, b) = h[n].out
  BY <1>1, <1>8
<1>13. WalkRun(body, b, h)
  <2> HIDE DEF h
  <2>1. QED
    BY <1>10, <1>11, <1>12 DEF WalkRun
<1>14. QED
  BY <1>13

\* The fields of a body end where the fields up to there, put together, do.
LEMMA FieldEnds ==
  ASSUME NEW C, NEW fields \in Seq(Seq(C)), \A i \in 1 .. Len(fields) : Len(fields[i]) >= 1
  PROVE  \E e : Ends(fields, FlattenSeq(fields), e) /\ FlattenSeq(fields) \in Seq(C)
<1> DEFINE n == Len(fields)
<1>0. PICK h : FlatRun(C, fields, h)
  BY FlatRuns
<1>1. \A i \in 0 .. n : h[i] \in Seq(C)
  BY <1>0 DEF FlatRun
<1>2. n \in Nat /\ n \in 0 .. n /\ 0 \in 0 .. n
  OBVIOUS
<1> DEFINE body == FlattenSeq(fields)
           e == [i \in 0 .. n |-> Len(h[i])]
<1>3. body = h[n]
  BY <1>0 DEF FlatRun
<1>4. /\ Len(h[0]) = 0
      /\ \A i \in 1 .. n : /\ Len(h[i]) = Len(h[i - 1]) + Len(fields[i])
                           /\ Len(h[i]) <= Len(body)
                           /\ \A j \in 1 .. Len(fields[i]) : body[Len(h[i - 1]) + j] = fields[i][j]
  <2>1. InParts(fields, h)
    BY <1>0, FlatParts
  <2>2. QED
    BY <2>1 DEF InParts
<1>5. body \in Seq(C)
  BY <1>1, <1>2, <1>3
<1>6. \A i \in 1 .. n : 1 \in 1 .. Len(fields[i])
  <2>1. \A i \in 1 .. n : fields[i] \in Seq(C)
    OBVIOUS
  <2>2. QED
    BY <2>1
<1>7. \A i \in 0 .. n : Len(h[i]) \in Nat /\ Len(h[i]) <= Len(body)
  <2> HIDE DEF n
  <2>1. Len(body) \in Nat /\ \A i \in 0 .. n : Len(h[i]) \in Nat
    <3>1. \A s \in Seq(C) : Len(s) \in Nat
      OBVIOUS
    <3> HIDE DEF body
    <3>2. QED
      BY <1>1, <1>5, <3>1
  <2>2. \A i \in 0 .. n : i = 0 \/ i \in 1 .. n
    BY <1>2
  <2> HIDE DEF body
  <2>3. Len(h[0]) <= Len(body)
    BY <1>4, <2>1
  <2>4. QED
    BY <1>4, <2>1, <2>2, <2>3, Zenon
<1> HIDE DEF body, n
<1>8. \A i \in 1 .. n : body[Len(h[i - 1]) + 1] = fields[i][1]
  BY <1>4, <1>6
<1>9. \A i \in 1 .. n : i \in 0 .. n /\ i - 1 \in 0 .. n
  BY <1>2
<1>10. e[0] = 0 /\ e[n] = Len(body)
  BY <1>2, <1>3, <1>4
<1>11. \A i \in 0 .. n : e[i] \in Nat /\ e[i] <= Len(body)
  BY <1>7
<1>12. \A i \in 1 .. n : e[i] = e[i - 1] + Len(fields[i]) /\ body[e[i - 1] + 1] = fields[i][1]
  BY <1>4, <1>8, <1>9
<1> HIDE DEF e
<1>13. Ends(fields, body, e)
  BY <1>10, <1>11, <1>12 DEF Ends, n
<1>14. QED
  BY <1>5, <1>13 DEF body

\* What the walk has made of the first fields.
FieldsDone(fields, e, b, i) ==
  [out  |-> [x \in 1 .. i |-> MaskField(fields[x][1], Len(fields[x]), b)],
   next |-> e[i] + 1,
   tag  |-> IF i > 0 /\ Announces(fields[i][1]) THEN DataTag(fields[i][1].tag) ELSE -1,
   len  |-> IF i > 0 THEN fields[i][1].num ELSE 0]

\* One more value at the end of a sequence.
LEMMA AppendNext ==
  ASSUME NEW i \in Nat, i # 0, NEW f
  PROVE  Append([x \in 1 .. i - 1 |-> f[x]], f[i]) = [x \in 1 .. i |-> f[x]]
<1> DEFINE s == [x \in 1 .. i - 1 |-> f[x]]
           t == [x \in 1 .. i |-> f[x]]
           S == {f[x] : x \in 1 .. i}
<1>1. s \in Seq(S) /\ Len(s) = i - 1 /\ t \in Seq(S) /\ Len(t) = i /\ f[i] \in S
  OBVIOUS
<1>2. \A x \in 1 .. i - 1 : s[x] = f[x]
  OBVIOUS
<1>3. \A x \in 1 .. i : t[x] = f[x]
  OBVIOUS
<1> HIDE DEF s, t, S
<1>4. Append(s, f[i]) \in Seq(S) /\ Len(Append(s, f[i])) = i
  BY <1>1
<1>5. \A x \in 1 .. i : Append(s, f[i])[x] = t[x]
  BY <1>1, <1>2, <1>3
<1>6. Append(s, f[i]) = t
  BY <1>1, <1>4, <1>5
<1>7. QED
  BY <1>6 DEF s, t

\* The chunk a field begins with is masked as a field of its length.
LEMMA WalkField ==
  ASSUME NEW C, AreChunks(C), NEW fields \in Seq(Seq(C)), Exact(fields),
         \A i \in 1 .. Len(fields) : Len(fields[i]) >= 1,
         NEW body \in Seq(C), NEW e, Ends(fields, body, e), NEW b, NEW i \in 1 .. Len(fields)
  PROVE  WalkOn(body, b, FieldsDone(fields, e, b, i - 1), e[i - 1] + 1) = FieldsDone(fields, e, b, i)
<1> DEFINE n == Len(fields)
           w == FieldsDone(fields, e, b, i - 1)
           q == e[i - 1] + 1
           c == fields[i][1]
           d == fields[i - 1][1]
           fits == c.tag > 0 /\ c.tag = w.tag /\ q + w.len <= Len(body) + 1
           k == IF fits THEN w.len ELSE 1
           f == [x \in 1 .. n |-> MaskField(fields[x][1], Len(fields[x]), b)]
<1>1. n \in Nat /\ i \in Nat /\ i # 0 /\ i \in 0 .. n /\ i - 1 \in 0 .. n /\ i - 1 \in Nat
  OBVIOUS
<1>2. \A x \in 1 .. n : fields[x] \in Seq(C) /\ Len(fields[x]) \in Nat /\ fields[x][1] \in C
  <2>1. \A x \in 1 .. n : fields[x] \in Seq(C)
    OBVIOUS
  <2>2. QED
    BY <2>1
<1>3. c.tag \in Nat /\ c.num \in Nat
  BY <1>2 DEF AreChunks
<1>4. i > 1 => d.tag \in Nat /\ d.num \in Nat /\ DataTag(d.tag) \in Int
  <2>1. i > 1 => i - 1 \in 1 .. n
    BY <1>1
  <2>2. QED
    BY <1>2, <2>1, DataTagIs DEF AreChunks
<1>5. /\ e[i - 1] \in Nat /\ e[i] \in Nat /\ e[i] <= Len(body) /\ Len(body) \in Nat
      /\ e[i] = e[i - 1] + Len(fields[i]) /\ body[q] = c
  BY <1>1 DEF Ends
<1>6. Len(fields[i]) = IF AsAnnounced(fields, i) THEN d.num ELSE 1
  BY DEF Exact
<1>7. /\ w.tag = IF i > 1 /\ Announces(d) THEN DataTag(d.tag) ELSE -1
      /\ w.len = IF i > 1 THEN d.num ELSE 0
      /\ w.next = q
      /\ w.out = [x \in 1 .. i - 1 |-> f[x]]
  <2>0. [x \in 1 .. i - 1 |-> MaskField(fields[x][1], Len(fields[x]), b)] = [x \in 1 .. i - 1 |-> f[x]]
    <3>1. \A x \in 1 .. i - 1 : x \in 1 .. n
      BY <1>1
    <3> HIDE DEF n
    <3>2. QED
      BY <3>1
  <2>1. i - 1 > 0 <=> i > 1
    BY <1>1
  <2> HIDE DEF d
  <2>2. QED
    BY <2>0, <2>1 DEF FieldsDone, d
<1>7a. f[i] = MaskField(c, Len(fields[i]), b)
  OBVIOUS
<1>7b. [x \in 1 .. i |-> f[x]] = [x \in 1 .. i |-> MaskField(fields[x][1], Len(fields[x]), b)]
  <2>1. \A x \in 1 .. i : x \in 1 .. n
    BY <1>1
  <2> HIDE DEF n
  <2>2. QED
    BY <2>1
<1> HIDE DEF w, c, d, n, f
<1>8. k = Len(fields[i])
  <2>1. CASE AsAnnounced(fields, i)
    <3>1. i > 1 /\ d.num > 0 /\ DataTag(d.tag) > 0 /\ c.tag = DataTag(d.tag) /\ Announces(d)
      BY <2>1 DEF AsAnnounced, Expects, Announces, c, d
    <3>2. c.tag > 0 /\ c.tag = w.tag /\ w.len = d.num /\ Len(fields[i]) = d.num
      BY <1>6, <1>7, <2>1, <3>1
    <3>3. q + w.len <= Len(body) + 1
      BY SMTT(30), <1>3, <1>4, <1>5, <3>1, <3>2
    <3>4. QED
      BY <3>2, <3>3
  <2>2. CASE ~AsAnnounced(fields, i)
    <3>1. ~(i > 1 /\ Announces(d) /\ c.tag = DataTag(d.tag))
      BY <2>2 DEF AsAnnounced, Expects, c, d
    <3>2. ~(c.tag > 0 /\ c.tag = w.tag)
      <4>1. CASE i > 1 /\ Announces(d)
        BY <1>7, <3>1, <4>1
      <4>2. CASE ~(i > 1 /\ Announces(d))
        <5>1. w.tag = -1
          BY <1>7, <4>2
        <5>2. QED
          BY <1>3, <5>1
      <4>3. QED
        BY <4>1, <4>2
    <3>3. QED
      BY <1>6, <2>2, <3>2
  <2>3. QED
    BY <2>1, <2>2
<1>9. WalkOn(body, b, w, q) =
        [out  |-> Append(w.out, MaskField(c, k, b)),
         next |-> q + k,
         tag  |-> IF c.num > 0 /\ DataTag(c.tag) > 0 THEN DataTag(c.tag) ELSE -1,
         len  |-> c.num]
  <2>1. ~(q < w.next)
    BY <1>5, <1>7
  <2>2. QED
    BY <1>5, <2>1 DEF WalkOn
<1>10. Append(w.out, MaskField(c, k, b)) = [x \in 1 .. i |-> f[x]]
  <2>1. MaskField(c, k, b) = f[i]
    BY <1>7a, <1>8
  <2>2. Append([x \in 1 .. i - 1 |-> f[x]], f[i]) = [x \in 1 .. i |-> f[x]]
    BY <1>1, AppendNext
  <2>3. QED
    BY <1>7, <2>1, <2>2
<1>11. q + k = e[i] + 1
  <2> HIDE DEF k
  <2>1. QED
    BY <1>2, <1>5, <1>8
<1>12. i > 0
  BY <1>1
<1> HIDE DEF k, q
<1>13. WalkOn(body, b, w, q) = FieldsDone(fields, e, b, i)
  BY <1>7b, <1>9, <1>10, <1>11, <1>12 DEF FieldsDone, Announces, c
<1>14. QED
  BY <1>13 DEF w, q

\* The other chunks of a field are passed over.
LEMMA WalkInside ==
  ASSUME NEW body, NEW b, NEW w, NEW q, q < w.next
  PROVE  WalkOn(body, b, w, q) = w
BY DEF WalkOn

\* A body of any length is masked field by field.
LEMMA MasksFields ==
  ASSUME NEW C, AreChunks(C), NEW fields \in Seq(Seq(C)), Exact(fields),
         \A i \in 1 .. Len(fields) : Len(fields[i]) >= 1, NEW b
  PROVE  Masks(fields, b)
<1> DEFINE n == Len(fields)
           body == FlattenSeq(fields)
<1>1. n \in Nat /\ \A i \in 1 .. n : Len(fields[i]) \in Nat
  <2>1. \A i \in 1 .. n : fields[i] \in Seq(C)
    OBVIOUS
  <2>2. QED
    BY <2>1
<1>2. PICK e : Ends(fields, body, e) /\ body \in Seq(C)
  BY FieldEnds
<1> HIDE DEF body
<1>3. PICK h : WalkRun(body, b, h)
  BY <1>2, WalkRuns
<1>4. h[0] = NoFields /\ \A q \in 1 .. Len(body) : h[q] = WalkOn(body, b, h[q - 1], q)
  BY <1>3 DEF WalkRun
<1>5. /\ e[0] = 0 /\ e[n] = Len(body) /\ Len(body) \in Nat
      /\ \A i \in 0 .. n : e[i] \in Nat /\ e[i] <= Len(body)
      /\ \A i \in 1 .. n : e[i] = e[i - 1] + Len(fields[i])
  BY <1>2 DEF Ends
<1> DEFINE D(i) == FieldsDone(fields, e, b, i)
           T == {i \in 0 .. n : h[e[i]] = D(i)}
<1>6. 0 \in T
  <2>1. D(0) = NoFields
    <3>1. [x \in 1 .. 0 |-> MaskField(fields[x][1], Len(fields[x]), b)] = << >>
      OBVIOUS
    <3>2. e[0] + 1 = 1
      BY <1>5
    <3>3. QED
      BY <3>1, <3>2 DEF FieldsDone, NoFields
  <2>2. h[e[0]] = NoFields
    BY <1>4, <1>5
  <2> HIDE DEF D
  <2>3. QED
    BY <1>1, <2>1, <2>2
<1>7. ASSUME NEW i \in 1 .. n, i - 1 \in T
      PROVE  i \in T
  <2> DEFINE first == e[i - 1] + 1
             m == Len(fields[i]) - 1
  <2>1. /\ i \in 0 .. n /\ i - 1 \in 0 .. n /\ e[i - 1] \in Nat /\ e[i] \in Nat /\ e[i] <= Len(body)
        /\ e[i] = e[i - 1] + Len(fields[i]) /\ Len(fields[i]) \in Nat /\ Len(fields[i]) >= 1
    BY <1>1, <1>5
  <2>2. m \in Nat /\ first \in 1 .. Len(body) /\ first - 1 = e[i - 1] /\ first + m = e[i]
    <3> DEFINE x == e[i - 1]
               y == e[i]
               k == Len(fields[i])
               l == Len(body)
    <3>1. x \in Nat /\ y \in Nat /\ k \in Nat /\ l \in Nat /\ y = x + k /\ k >= 1 /\ y <= l
      BY <1>5, <2>1
    <3> HIDE DEF x, y, k, l
    <3>2. k - 1 \in Nat /\ x + 1 \in 1 .. l /\ (x + 1) - 1 = x /\ (x + 1) + (k - 1) = y
      BY <3>1
    <3>3. QED
      BY <3>2 DEF x, y, k, l
  <2>3. h[first] = D(i)
    <3>1. h[first] = WalkOn(body, b, h[e[i - 1]], first)
      <4> HIDE DEF first, m
      <4>1. QED
        BY <1>4, <2>2
    <3>2. h[e[i - 1]] = D(i - 1)
      BY <1>7
    <3>3. WalkOn(body, b, D(i - 1), first) = D(i)
      BY <1>2, WalkField
    <3> HIDE DEF D, first
    <3>4. QED
      BY <3>1, <3>2, <3>3
  <2>4. D(i).next = e[i] + 1
    BY DEF FieldsDone
  <2> HIDE DEF D, T, first, m
  <2> DEFINE U == {j \in 0 .. m : h[first + j] = D(i)}
  <2>5. 0 \in U
    <3>1. first + 0 = first /\ 0 \in 0 .. m
      BY <2>2
    <3>2. QED
      BY <2>3, <3>1
  <2>6. ASSUME NEW j \in 1 .. m, j - 1 \in U
        PROVE  j \in U
    <3> DEFINE q == first + j
    <3>1. q \in 1 .. Len(body) /\ q < e[i] + 1 /\ q - 1 = first + (j - 1) /\ j \in 0 .. m
      BY SMTT(30), <1>5, <2>1, <2>2
    <3>2. h[first + (j - 1)] = D(i)
      BY <2>6
    <3> HIDE DEF q
    <3>3. h[q] = WalkOn(body, b, D(i), q)
      BY <1>4, <3>1, <3>2
    <3>4. WalkOn(body, b, D(i), q) = D(i)
      BY <2>4, <3>1, WalkInside
    <3>5. QED
      BY <3>1, <3>3, <3>4 DEF q
  <2> HIDE DEF U
  <2>7. \A j \in 0 .. m : j \in U
    <3>1. m \in Nat
      BY <2>2
    <3>2. QED
      BY <2>5, <2>6, <3>1, Rounds
  <2>8. h[first + m] = D(i)
    <3>1. m \in 0 .. m
      BY <2>2
    <3>2. m \in U
      BY <2>7, <3>1
    <3>3. QED
      BY <3>2 DEF U
  <2>9. QED
    BY <2>1, <2>2, <2>8 DEF T
<1> HIDE DEF T
<1>8. \A i \in 0 .. n : i \in T
  BY <1>1, <1>6, <1>7, Rounds
<1>9. h[e[n]] = D(n)
  BY <1>1, <1>8 DEF T
<1>10. D(n).out = [x \in 1 .. n |-> MaskField(fields[x][1], Len(fields[x]), b)]
  BY DEF FieldsDone
<1>11. mask_fix_body(body, b) = h[Len(body)].out
  BY <1>3 DEF WalkRun
<1> HIDE DEF D
<1>12. mask_fix_body(body, b) = [x \in 1 .. n |-> MaskField(fields[x][1], Len(fields[x]), b)]
  BY <1>5, <1>9, <1>10, <1>11
<1>13. QED
  BY <1>12 DEF Masks, body

\* Fields that are as announced, with nothing left to come.
Closed(fields) ==
  /\ \A i \in 1 .. Len(fields) : Len(fields[i]) >= 1
  /\ Exact(fields)
  /\ Len(fields) > 0 => ~Announces(fields[Len(fields)][1])

\* Two such runs of fields, one after the other, are one.
LEMMA ClosedJoin ==
  ASSUME NEW S, NEW a \in Seq(S), NEW b \in Seq(S), Closed(a), Closed(b)
  PROVE  Closed(a \o b)
<1> DEFINE s == a \o b
           la == Len(a)
           lb == Len(b)
<1>1. /\ la \in Nat /\ lb \in Nat /\ Len(s) = la + lb
      /\ \A i \in 1 .. la : s[i] = a[i]
      /\ \A j \in 1 .. lb : s[la + j] = b[j]
  OBVIOUS
<1> HIDE DEF s
<1>2. \A i \in 1 .. la + lb : i \in 1 .. la \/ (i - la \in 1 .. lb /\ la + (i - la) = i)
  BY <1>1
<1>3. ASSUME NEW i \in 1 .. la + lb
      PROVE  /\ Len(s[i]) >= 1
             /\ Len(s[i]) = IF AsAnnounced(s, i) THEN s[i - 1][1].num ELSE 1
  <2>1. CASE i \in 1 .. la
    <3>1. s[i] = a[i] /\ Len(a[i]) >= 1
      BY <1>1, <2>1 DEF Closed
    <3>2. i > 1 => s[i - 1] = a[i - 1]
      <4>1. i > 1 => i - 1 \in 1 .. la
        BY <1>1, <2>1
      <4>2. QED
        BY <1>1, <4>1
    <3>3. Len(a[i]) = IF AsAnnounced(a, i) THEN a[i - 1][1].num ELSE 1
      BY <2>1 DEF Closed, Exact
    <3>4. AsAnnounced(s, i) <=> AsAnnounced(a, i)
      BY <3>1, <3>2 DEF AsAnnounced
    <3>5. AsAnnounced(a, i) => i > 1
      BY DEF AsAnnounced
    <3>6. QED
      BY <3>1, <3>2, <3>3, <3>4, <3>5
  <2>2. CASE i \notin 1 .. la
    <3> DEFINE j == i - la
    <3>1. j \in 1 .. lb /\ la + j = i
      BY <1>2, <2>2
    <3>2. s[i] = b[j] /\ Len(b[j]) >= 1
      BY <1>1, <3>1 DEF Closed
    <3>3. Len(b[j]) = IF AsAnnounced(b, j) THEN b[j - 1][1].num ELSE 1
      BY <3>1 DEF Closed, Exact
    <3>4. CASE j = 1
      <4>1. ~AsAnnounced(b, j)
        BY <3>4 DEF AsAnnounced
      <4>2. ~AsAnnounced(s, i)
        <5>1. i > 1 => i - 1 = la /\ la > 0 /\ la \in 1 .. la
          BY <1>1, <3>1, <3>4
        <5>2. i > 1 => ~Announces(s[i - 1][1])
          BY <1>1, <5>1 DEF Closed
        <5>3. QED
          BY <5>2 DEF AsAnnounced, Expects
      <4> HIDE DEF j
      <4>3. QED
        BY <3>2, <3>3, <4>1, <4>2
    <3>5. CASE j # 1
      <4>0. la \in Nat /\ lb \in Nat
        BY <1>1
      <4> HIDE DEF la, lb
      <4>1. j - 1 \in 1 .. lb /\ la + (j - 1) = i - 1 /\ i > 1 /\ j > 1
        BY <3>1, <3>5, <4>0
      <4>2. s[i - 1] = b[j - 1]
        BY <1>1, <4>1
      <4>3. AsAnnounced(s, i) <=> AsAnnounced(b, j)
        BY <3>2, <4>1, <4>2 DEF AsAnnounced
      <4>4. QED
        BY <3>2, <3>3, <4>2, <4>3
    <3>6. QED
      BY <3>4, <3>5
  <2>3. QED
    BY <2>1, <2>2
<1>4. la + lb > 0 => ~Announces(s[la + lb][1])
  <2>1. CASE lb = 0
    <3>1. la + lb = la /\ (la > 0 => la \in 1 .. la)
      BY <1>1, <2>1
    <3>2. la > 0 => s[la] = a[la]
      BY <1>1, <3>1
    <3>3. QED
      BY <3>1, <3>2 DEF Closed
  <2>2. CASE lb # 0
    <3>1. lb \in 1 .. lb /\ lb > 0
      BY <1>1, <2>2
    <3>2. s[la + lb] = b[lb]
      BY <1>1, <3>1
    <3>3. QED
      BY <3>1, <3>2 DEF Closed
  <2>3. QED
    BY <2>1, <2>2
<1> HIDE DEF la, lb
<1>5. Closed(s)
  BY <1>1, <1>3, <1>4 DEF Closed, Exact
<1>6. QED
  BY <1>5 DEF s

\* One field, or a length and what follows it, that are as announced.
LEMMA ClosedOne ==
  ASSUME NEW f, Len(f) = 1, ~Announces(f[1])
  PROVE  Closed(<<f>>)
<1> DEFINE s == <<f>>
<1>1. Len(s) = 1 /\ s[1] = f /\ 1 .. Len(s) = {1}
  OBVIOUS
<1> HIDE DEF s
<1>2. ~AsAnnounced(s, 1)
  BY DEF AsAnnounced
<1>3. Closed(s)
  BY <1>1, <1>2 DEF Closed, Exact
<1>4. QED
  BY <1>3 DEF s

\* Two fields that belong together end where a field ends.
LEMMA ClosedTwo ==
  ASSUME NEW f, NEW g, Len(f) = 1, Len(g) \in Nat, Len(g) >= 1,
         Len(g) = IF Expects(f[1], g[1]) THEN f[1].num ELSE 1, ~Announces(g[1])
  PROVE  Closed(<<f, g>>)
<1> DEFINE s == <<f, g>>
<1>1. Len(s) = 2 /\ s[1] = f /\ s[2] = g /\ 1 .. Len(s) = {1, 2}
  OBVIOUS
<1> HIDE DEF s
<1>2. ~AsAnnounced(s, 1)
  BY DEF AsAnnounced
<1>3. AsAnnounced(s, 2) <=> Expects(f[1], g[1])
  BY <1>1 DEF AsAnnounced
<1>4. Len(s[2]) = IF AsAnnounced(s, 2) THEN s[2 - 1][1].num ELSE 1
  BY <1>1, <1>3
<1>5. Exact(s)
  BY <1>1, <1>2, <1>4 DEF Exact
<1>6. \A i \in 1 .. Len(s) : Len(s[i]) >= 1
  BY <1>1
<1>7. ~Announces(s[Len(s)][1])
  BY <1>1
<1>8. Closed(s)
  BY <1>5, <1>6, <1>7 DEF Closed
<1>9. QED
  BY <1>8 DEF s

\* The chunks of MCFunctions.
Chunks == [tag : Nat, num : Nat, val : Seq(Tokens)]

\* A field of k chunks with a tag, the first of which reads as a number.
IsField(f, k, tag, num) == f \in Seq(Chunks) /\ Len(f) = k /\ f[1].tag = tag /\ f[1].num = num

\* A run of fields that is as announced.
IsRun(fields) == fields \in Seq(Seq(Chunks)) /\ Closed(fields)

\* A field of MCFunctions is one chunk.
LEMMA FieldIs ==
  ASSUME NEW tag \in Nat, NEW num \in Nat, NEW val \in Seq(Tokens)
  PROVE  IsField(Field(tag, num, val), 1, tag, num)
BY DEF Field, Chunks, IsField

\* A field whose value goes on behind a separator.
LEMMA FieldJoin ==
  ASSUME NEW a, NEW b, NEW k \in Nat, NEW l \in Nat, k >= 1, NEW tag, NEW num, NEW t, NEW m,
         IsField(a, k, tag, num), IsField(b, l, t, m)
  PROVE  IsField(a \o b, k + l, tag, num)
<1>1. a \in Seq(Chunks) /\ b \in Seq(Chunks) /\ Len(a) = k /\ Len(b) = l
  BY DEF IsField
<1>2. a \o b \in Seq(Chunks) /\ Len(a \o b) = k + l /\ (a \o b)[1] = a[1]
  BY <1>1
<1>3. QED
  BY <1>2 DEF IsField

\* A field that announces nothing.
LEMMA RunOfOne ==
  ASSUME NEW f, NEW tag, NEW num \in Nat, IsField(f, 1, tag, num), DataTag(tag) = -1 \/ num = 0
  PROVE  IsRun(<<f>>)
<1>1. f \in Seq(Chunks) /\ Len(f) = 1 /\ f[1].tag = tag /\ f[1].num = num
  BY DEF IsField
<1>2. ~Announces(f[1])
  BY <1>1 DEF Announces
<1>3. Closed(<<f>>)
  BY <1>1, <1>2, ClosedOne
<1>4. <<f>> \in Seq(Seq(Chunks))
  BY <1>1
<1>5. QED
  BY <1>3, <1>4 DEF IsRun

\* A field that announces the length of the next, or does not, and the next.
LEMMA RunOfTwo ==
  ASSUME NEW f, NEW tag, NEW num \in Nat, IsField(f, 1, tag, num),
         NEW g, NEW k \in Nat, k >= 1, NEW t, NEW m \in Nat, IsField(g, k, t, m),
         DataTag(t) = -1 \/ m = 0,
         \/ num = k /\ DataTag(tag) > 0 /\ t = DataTag(tag)
         \/ k = 1 /\ (num = 0 \/ t # DataTag(tag))
  PROVE  IsRun(<<f, g>>)
<1>1. f \in Seq(Chunks) /\ Len(f) = 1 /\ f[1].tag = tag /\ f[1].num = num
  BY DEF IsField
<1>2. g \in Seq(Chunks) /\ Len(g) = k /\ g[1].tag = t /\ g[1].num = m
  BY DEF IsField
<1>3. ~Announces(g[1])
  BY <1>2 DEF Announces
<1>4. Expects(f[1], g[1]) <=> num > 0 /\ DataTag(tag) > 0 /\ t = DataTag(tag)
  BY <1>1, <1>2 DEF Expects, Announces
<1>5. Len(g) = IF Expects(f[1], g[1]) THEN f[1].num ELSE 1
  BY <1>1, <1>2, <1>4
<1>6. Len(g) \in Nat /\ Len(g) >= 1
  BY <1>2
<1>7. Closed(<<f, g>>)
  BY <1>1, <1>3, <1>5, <1>6, ClosedTwo
<1>8. <<f, g>> \in Seq(Seq(Chunks))
  BY <1>1, <1>2
<1>9. QED
  BY <1>7, <1>8 DEF IsRun

\* A length and the data it announces.
LEMMA RunOfData ==
  ASSUME NEW f, NEW tag, NEW k \in Nat, k >= 1, IsField(f, 1, tag, k),
         NEW g, NEW t \in Nat, IsField(g, k, t, 0), DataTag(tag) = t, t > 0
  PROVE  IsRun(<<f, g>>)
BY RunOfTwo

\* Every group of fields in the bodies of MCFunctions is as announced.
LEMMA GroupsClosed == \A g \in FieldGroups : IsRun(g)
<1> DEFINE none == << >>
           word == <<"word">>
           noun == <<"noun">>
           both == <<"noun", "word">>
<1>1. none \in Seq(Tokens) /\ word \in Seq(Tokens) /\ noun \in Seq(Tokens) /\ both \in Seq(Tokens)
  BY DEF Tokens
<1> HIDE DEF none, word, noun, both
<1>2. /\ DataTag(90) = 91 /\ DataTag(95) = 96 /\ DataTag(354) = 355
      /\ DataTag(11) = -1 /\ DataTag(34) = -1
  BY DEF DataTag
<1>3. /\ IsField(Field(95, 2, word), 1, 95, 2) /\ IsField(Field(96, 0, word), 1, 96, 0)
      /\ IsField(Field(354, 3, word), 1, 354, 3) /\ IsField(Field(354, 2, word), 1, 354, 2)
      /\ IsField(Field(355, 0, noun), 1, 355, 0) /\ IsField(Field(34, 2, word), 1, 34, 2)
      /\ IsField(Field(90, 2, word), 1, 90, 2) /\ IsField(Field(91, 0, none), 1, 91, 0)
      /\ IsField(Field(11, 0, word), 1, 11, 0) /\ IsField(Field(95, 0, word), 1, 95, 0)
  BY <1>1, FieldIs
<1>4. /\ IsField(Field(554, 0, word), 1, 554, 0) /\ IsField(Field(553, 0, none), 1, 553, 0)
      /\ IsField(Field(58, 0, both), 1, 58, 0) /\ IsField(RawPart(word), 1, 0, 0)
      /\ IsField(Field(11, 2, word), 1, 11, 2)
  BY <1>1, FieldIs DEF RawPart
<1>5. /\ IsRun(<<Field(554, 0, word)>>) /\ IsRun(<<Field(553, 0, none)>>)
      /\ IsRun(<<Field(58, 0, both)>>) /\ IsRun(<<RawPart(word)>>) /\ IsRun(<<Field(96, 0, word)>>)
  BY <1>3, <1>4, RunOfOne
<1>6. IsRun(<<Field(11, 2, word)>>) /\ IsRun(<<Field(34, 2, word)>>)
  BY <1>2, <1>3, <1>4, RunOfOne
<1> DEFINE raw == Field(96, 0, word) \o RawPart(word)
           tags == Field(91, 0, none) \o Field(11, 0, word)
           text == Field(355, 0, noun) \o Field(95, 2, word) \o Field(96, 0, word)
<1>7. IsField(raw, 2, 96, 0) /\ IsField(tags, 2, 91, 0)
  <2>1. IsField(raw, 1 + 1, 96, 0)
    BY <1>3, <1>4, FieldJoin
  <2>2. IsField(tags, 1 + 1, 91, 0)
    BY <1>3, FieldJoin
  <2>3. 1 + 1 = 2
    OBVIOUS
  <2> HIDE DEF raw, tags
  <2>4. QED
    BY <2>1, <2>2, <2>3
<1>8. IsField(text, 3, 355, 0)
  <2>1. IsField(Field(355, 0, noun) \o Field(95, 2, word), 1 + 1, 355, 0)
    BY <1>3, FieldJoin
  <2>2. IsField(text, (1 + 1) + 1, 355, 0)
    BY <1>3, <2>1, FieldJoin
  <2>3. (1 + 1) + 1 = 3
    OBVIOUS
  <2> HIDE DEF text
  <2>4. QED
    BY <2>2, <2>3
<1> HIDE DEF raw, tags, text
<1>9. IsRun(<<Field(95, 2, word), raw>>)
  BY <1>2, <1>3, <1>7, RunOfData
<1>10. IsRun(<<Field(90, 2, word), tags>>)
  BY <1>2, <1>3, <1>7, RunOfData
<1>11. IsRun(<<Field(354, 3, word), text>>)
  BY <1>2, <1>3, <1>8, RunOfData
<1>12. IsRun(<<Field(95, 0, word), Field(96, 0, word)>>)
  BY <1>3, RunOfTwo
<1>13. IsRun(<<Field(354, 2, word), Field(34, 2, word)>>)
  BY <1>2, <1>3, RunOfTwo
<1>14. FieldGroups =
         {<<Field(554, 0, word)>>, <<Field(553, 0, none)>>, <<Field(11, 2, word)>>,
          <<Field(34, 2, word)>>, <<Field(58, 0, both)>>, <<RawPart(word)>>,
          <<Field(95, 2, word), raw>>, <<Field(90, 2, word), tags>>,
          <<Field(354, 3, word), text>>, <<Field(95, 0, word), Field(96, 0, word)>>,
          <<Field(354, 2, word), Field(34, 2, word)>>, <<Field(96, 0, word)>>}
  BY Zenon DEF FieldGroups, none, word, noun, both, raw, tags, text
<1>15. QED
  BY <1>5, <1>6, <1>9, <1>10, <1>11, <1>12, <1>13, <1>14

\* So is every body that is put together from such groups.
LEMMA BodiesClosed ==
  ASSUME NEW groups \in Seq(FieldGroups)
  PROVE  FlattenSeq(groups) \in Seq(Seq(Chunks)) /\ Closed(FlattenSeq(groups))
<1> DEFINE n == Len(groups)
<1>1. n \in Nat /\ n \in 0 .. n /\ 0 \in 0 .. n
  OBVIOUS
<1>2. \A i \in 1 .. n : groups[i] \in Seq(Seq(Chunks)) /\ Closed(groups[i])
  BY GroupsClosed DEF IsRun
<1>3. groups \in Seq(Seq(Seq(Chunks)))
  BY <1>2
<1>4. PICK h : FlatRun(Seq(Chunks), groups, h)
  BY <1>3, FlatRuns
<1>5. /\ h[0] = << >> /\ FlattenSeq(groups) = h[n]
      /\ \A i \in 0 .. n : h[i] \in Seq(Seq(Chunks))
      /\ \A i \in 1 .. n : h[i] = h[i - 1] \o groups[i]
  BY <1>4 DEF FlatRun
<1> DEFINE T == {i \in 0 .. n : Closed(h[i])}
<1> HIDE DEF n
<1>6. 0 \in T
  <2>1. Len(<< >>) = 0 /\ 1 .. 0 = {}
    OBVIOUS
  <2>2. Closed(<< >>)
    BY <2>1 DEF Closed, Exact
  <2>3. QED
    BY <1>1, <1>5, <2>2
<1>7. ASSUME NEW i \in 1 .. n, i - 1 \in T
      PROVE  i \in T
  <2>1. i \in 0 .. n /\ i - 1 \in 0 .. n /\ Closed(h[i - 1])
    BY <1>1, <1>7
  <2>2. Closed(h[i - 1] \o groups[i])
    BY <1>2, <1>5, <2>1, ClosedJoin
  <2>3. QED
    BY <1>5, <2>1, <2>2
<1> HIDE DEF T
<1>8. \A i \in 0 .. n : i \in T
  BY <1>1, <1>6, <1>7, Rounds
<1>9. Closed(h[n])
  BY <1>1, <1>8 DEF T
<1>10. QED
  BY <1>1, <1>5, <1>9

-----------------------------------------------------------------------------
(* import_quickfix_configs *)

\* The fields of a session, and the sessions whose fields have values from U.
Fields == DOMAIN NewSession

SessionsOf(U) == [Fields -> SUBSET U]

\* They are these.
LEMMA FieldsAre ==
  Fields = Fillable \cup {"begin_string", "sender_comp_id", "target_comp_id", "heartbeat_interval",
                          "heartbeat_explicit", "from_quickfix", "redacted_settings"}
BY DEF Fields, NewSession, Fillable

\* A filled session, field by field.
Filled(r, dst, src) ==
  /\ \A f \in Fillable : r[f] = IF dst[f] = Blank(f) THEN src[f] ELSE dst[f]
  /\ \A f \in {"begin_string", "sender_comp_id", "target_comp_id", "heartbeat_explicit"} :
       r[f] = dst[f]
  /\ r.heartbeat_interval = IF dst.heartbeat_explicit THEN dst.heartbeat_interval
                                                      ELSE src.heartbeat_interval
  /\ r.redacted_settings = dst.redacted_settings \cup src.redacted_settings

\* fill_from_quickfix makes such a session.
LEMMA FillIs ==
  ASSUME NEW U, TRUE \in SUBSET U, NEW dst \in SessionsOf(U), NEW src \in SessionsOf(U)
  PROVE  /\ fill_from_quickfix(dst, src) \in SessionsOf(U)
         /\ Filled(fill_from_quickfix(dst, src), dst, src)
<1> DEFINE r == fill_from_quickfix(dst, src)
<1>1. DOMAIN dst = Fields /\ \A f \in Fields : dst[f] \in SUBSET U /\ src[f] \in SUBSET U
  BY DEF SessionsOf
<1>2. r = [f \in Fields |->
             CASE f \in Fillable -> IF dst[f] = Blank(f) THEN src[f] ELSE dst[f]
               [] f = "heartbeat_interval" -> IF dst.heartbeat_explicit THEN dst[f] ELSE src[f]
               [] f = "redacted_settings" -> dst[f] \cup src[f]
               [] f = "from_quickfix" -> TRUE
               [] OTHER -> dst[f]]
  BY <1>1 DEF fill_from_quickfix
<1>3. \A f \in Fillable : f \in Fields /\ r[f] = IF dst[f] = Blank(f) THEN src[f] ELSE dst[f]
  BY <1>2, FieldsAre DEF Fillable
<1>4. \A f \in {"begin_string", "sender_comp_id", "target_comp_id", "heartbeat_explicit"} :
        f \in Fields /\ r[f] = dst[f]
  BY <1>2, FieldsAre DEF Fillable
<1>5. /\ "heartbeat_interval" \in Fields
      /\ r["heartbeat_interval"] =
           IF dst.heartbeat_explicit THEN dst["heartbeat_interval"] ELSE src["heartbeat_interval"]
  BY <1>2, FieldsAre DEF Fillable
<1>6. /\ "redacted_settings" \in Fields
      /\ r["redacted_settings"] = dst["redacted_settings"] \cup src["redacted_settings"]
  BY <1>2, FieldsAre DEF Fillable
<1>7. "from_quickfix" \in Fields /\ r["from_quickfix"] = TRUE
  BY <1>2, FieldsAre DEF Fillable
<1>8. DOMAIN r = Fields /\ r = [f \in Fields |-> r[f]]
  BY <1>2
<1> HIDE DEF r
<1>9. \A f \in Fields : r[f] \in SUBSET U
  <2>1. \A f \in Fillable : r[f] \in SUBSET U
    BY <1>1, <1>3
  <2>2. \A f \in {"begin_string", "sender_comp_id", "target_comp_id", "heartbeat_explicit"} :
          r[f] \in SUBSET U
    BY <1>1, <1>4
  <2>3. r["heartbeat_interval"] \in SUBSET U
    BY <1>1, <1>5
  <2>4. r["redacted_settings"] \in SUBSET U
    BY <1>1, <1>6
  <2>5. r["from_quickfix"] \in SUBSET U
    BY <1>7
  <2>6. QED
    BY <2>1, <2>2, <2>3, <2>4, <2>5, FieldsAre
<1>10. r \in SessionsOf(U)
  BY <1>8, <1>9 DEF SessionsOf
<1>11. Filled(r, dst, src)
  BY <1>3, <1>4, <1>5, <1>6, Zenon DEF Filled
<1>12. QED
  BY <1>10, <1>11 DEF r

\* Two sessions have one name if they are the same.
LEMMA SameIs ==
  \A a, b : session_id(a) = session_id(b) <=> SameSession(a, b)
BY DEF session_id, SameSession

\* What one description makes of the list: one more session, or the first of its
\* name is filled.
Imported(ss, d, r) ==
  LET same == {i \in 1 .. Len(ss) : SameSession(ss[i], d)}
  IN  /\ same = {} => r = Append(ss, d)
      /\ same # {} =>
           /\ Len(r) = Len(ss)
           /\ Min(same) \in same /\ \A i \in same : Min(same) <= i
           /\ \A i \in 1 .. Len(ss) :
                r[i] = IF i = Min(same) THEN fill_from_quickfix(ss[i], d) ELSE ss[i]

\* Import does this.
LEMMA ImportIs ==
  ASSUME NEW U, TRUE \in SUBSET U, NEW ss \in Seq(SessionsOf(U)), NEW d \in SessionsOf(U)
  PROVE  Import(ss, d) \in Seq(SessionsOf(U)) /\ Imported(ss, d, Import(ss, d))
<1> DEFINE n == Len(ss)
           W == SessionsOf(U)
           same == {i \in 1 .. n : SameSession(ss[i], d)}
           m == Min(same)
           filled == fill_from_quickfix(ss[m], d)
<1>1. n \in Nat /\ \A i \in 1 .. n : ss[i] \in W
  OBVIOUS
<1>2. {i \in 1 .. Len(ss) : session_id(ss[i]) = session_id(d)} = same
  BY SameIs
<1>3. Import(ss, d) = IF same = {} THEN Append(ss, d) ELSE [ss EXCEPT ![m] = filled]
  BY <1>2 DEF Import
<1>4. CASE same = {}
  <2>1. Import(ss, d) = Append(ss, d)
    BY <1>3, <1>4
  <2>2. Append(ss, d) \in Seq(W)
    <3> HIDE DEF W
    <3>1. QED
      BY AppendProperties DEF W
  <2>3. Imported(ss, d, Append(ss, d))
    BY <1>4 DEF Imported
  <2>4. QED
    BY <2>1, <2>2, <2>3
<1>5. CASE same # {}
  <2>1. m \in same /\ \A i \in same : m <= i
    <3>1. same \in SUBSET Nat
      OBVIOUS
    <3> HIDE DEF same
    <3>2. QED
      BY <3>1, <1>5, MinIs
  <2>2. m \in 1 .. n
    <3> HIDE DEF m
    <3>1. QED
      BY <2>1
  <2>3. filled \in W
    <3> HIDE DEF m
    <3>1. QED
      BY <1>1, <2>2, FillIs
  <2>4. Import(ss, d) = [ss EXCEPT ![m] = filled]
    BY <1>3, <1>5
  <2> HIDE DEF same, m, filled, W
  <2>5. /\ [ss EXCEPT ![m] = filled] \in Seq(W)
        /\ Len([ss EXCEPT ![m] = filled]) = n
        /\ \A i \in 1 .. n : [ss EXCEPT ![m] = filled][i] = IF i = m THEN filled ELSE ss[i]
    BY <2>2, <2>3, ExceptSeq DEF W
  <2>6. \A i \in 1 .. n : Import(ss, d)[i] = IF i = m THEN fill_from_quickfix(ss[i], d) ELSE ss[i]
    BY <2>4, <2>5 DEF filled
  <2>7. Imported(ss, d, Import(ss, d))
    BY <2>1, <2>4, <2>5, <2>6, <1>5, Zenon DEF Imported, same, m, n
  <2>8. QED
    BY <2>4, <2>5, <2>7 DEF W
<1>6. QED
  BY <1>4, <1>5

\* The function by which the fold goes through the descriptions.
ImportFold(own, eng, g) ==
  g = [d \in SUBSET (DOMAIN eng) |->
         IF d = {} THEN own ELSE Import(g[d \ {Max(d)}], eng[Max(d)])]

\* The fold by such a function.
LEMMA ImportUnfolds ==
  \A own, eng : FoldLeft(Import, own, eng) = (CHOOSE g : ImportFold(own, eng, g))[DOMAIN eng]
BY DEF FoldLeft, MapThenFoldSet, ImportFold

\* There is one for all lists of sessions.
LEMMA ImportFoldExists ==
  ASSUME NEW U, TRUE \in SUBSET U, NEW own \in Seq(SessionsOf(U)), NEW eng \in Seq(SessionsOf(U))
  PROVE  \E g : ImportFold(own, eng, g)
<1> DEFINE n == Len(eng)
           S == Seq(SessionsOf(U))
           F == [p \in (1 .. n) \X S |-> Import(p[2], eng[p[1]])]
<1>1. n \in Nat /\ DOMAIN eng = 1 .. n /\ \A i \in 1 .. n : eng[i] \in SessionsOf(U)
  OBVIOUS
<1> HIDE DEF n
<1>3. \A i \in 1 .. n, x \in S : Import(x, eng[i]) \in S
  BY <1>1, ImportIs
<1>2. own \in S
  OBVIOUS
<1> HIDE DEF S
<1>4. F \in [(1 .. n) \X S -> S]
  BY <1>3
<1>5. PICK g \in [SUBSET (1 .. n) -> S] : IsFold(n, own, F, g)
  <2> HIDE DEF F
  <2>1. QED
    BY <1>1, <1>2, <1>4, FoldExists
<1>6. ASSUME NEW d \in SUBSET (1 .. n), d # {}
      PROVE  F[<<Max(d), g[d \ {Max(d)}]>>] = Import(g[d \ {Max(d)}], eng[Max(d)])
  <2>1. Max(d) \in 1 .. n
    BY <1>1, <1>6, MaxIs
  <2>2. g[d \ {Max(d)}] \in S
    OBVIOUS
  <2>3. QED
    BY <2>1, <2>2
<1>7. ImportFold(own, eng, g)
  <2> HIDE DEF F
  <2>1. g = [d \in SUBSET (1 .. n) |-> IF d = {} THEN own ELSE F[<<Max(d), g[d \ {Max(d)}]>>]]
    BY <1>5 DEF IsFold
  <2>2. g = [d \in SUBSET (1 .. n) |->
               IF d = {} THEN own ELSE Import(g[d \ {Max(d)}], eng[Max(d)])]
    BY <2>1, <1>6
  <2>3. QED
    BY <2>2, <1>1 DEF ImportFold
<1>8. QED
  BY <1>7

\* The list of sessions, description by description.
ImportRun(U, own, eng, h) ==
  /\ h[0] = own
  /\ \A i \in 1 .. Len(eng) : h[i] = Import(h[i - 1], eng[i])
  /\ \A i \in 0 .. Len(eng) : h[i] \in Seq(SessionsOf(U))
  /\ FoldLeft(Import, own, eng) = h[Len(eng)]

\* There is a run through all descriptions.
LEMMA ImportRuns ==
  ASSUME NEW U, TRUE \in SUBSET U, NEW own \in Seq(SessionsOf(U)), NEW eng \in Seq(SessionsOf(U))
  PROVE  \E h : ImportRun(U, own, eng, h)
<1> DEFINE n == Len(eng)
           S == Seq(SessionsOf(U))
<1>1. n \in Nat /\ DOMAIN eng = 1 .. n /\ \A i \in 1 .. n : eng[i] \in SessionsOf(U)
  OBVIOUS
<1>2. PICK g : ImportFold(own, eng, g) /\ FoldLeft(Import, own, eng) = g[DOMAIN eng]
  BY ImportUnfolds, ImportFoldExists
<1> DEFINE h == [i \in 0 .. n |-> g[1 .. i]]
<1> HIDE DEF n
<1>3. h[0] = own
  <2>1. g[{}] = own
    BY <1>2 DEF ImportFold
  <2>2. 1 .. 0 = {}
    OBVIOUS
  <2>3. QED
    BY <2>1, <2>2, <1>1
<1>4. ASSUME NEW i \in 1 .. n
      PROVE  h[i] = Import(h[i - 1], eng[i])
  <2>1. /\ 1 .. i \in SUBSET (1 .. n) /\ 1 .. i # {} /\ Max(1 .. i) = i
        /\ (1 .. i) \ {Max(1 .. i)} = 1 .. i - 1
    BY <1>1, FoldSteps
  <2>2. g[1 .. i] = Import(g[1 .. i - 1], eng[i])
    BY <1>1, <1>2, <2>1 DEF ImportFold
  <2>3. i \in 0 .. n /\ i - 1 \in 0 .. n
    BY <1>1
  <2>4. QED
    BY <2>2, <2>3
<1>5. \A i \in 0 .. n : h[i] \in S
  <2> DEFINE T == {i \in 0 .. n : h[i] \in S}
  <2>1. 0 \in T
    <3>1. own \in S /\ 0 \in 0 .. n
      BY <1>1
    <3> HIDE DEF h, S
    <3>2. QED
      BY <3>1, <1>3
  <2>2. ASSUME NEW i \in 1 .. n, i - 1 \in T
        PROVE  i \in T
    <3> HIDE DEF h
    <3>1. h[i - 1] \in S /\ i \in 0 .. n
      BY <1>1, <2>2
    <3>2. eng[i] \in SessionsOf(U)
      BY <1>1
    <3>3. Import(h[i - 1], eng[i]) \in S
      BY <3>1, <3>2, ImportIs, Zenon
    <3> HIDE DEF S
    <3>4. QED
      BY <1>4, <3>1, <3>3
  <2>3. \A i \in 0 .. n : i \in T
    <3> HIDE DEF T
    <3>1. QED
      BY <1>1, <2>1, <2>2, Rounds
  <2>4. QED
    BY <2>3
<1>6. FoldLeft(Import, own, eng) = h[n]
  BY <1>1, <1>2
<1>7. ImportRun(U, own, eng, h)
  <2> HIDE DEF h
  <2>1. QED
    BY <1>3, <1>4, <1>5, <1>6 DEF ImportRun, n
<1>8. QED
  BY <1>7

\* The ends of a set of positions with a later one added.
LEMMA LaterAdded ==
  ASSUME NEW k \in Nat \ {0}, NEW is \in SUBSET (1 .. k - 1)
  PROVE  /\ Max(is \cup {k}) = k
         /\ is = {} => Min(is \cup {k}) = k
         /\ is # {} => Min(is) \in is /\ Min(is \cup {k}) = Min(is)
<1> DEFINE T == is \cup {k}
<1>1. T \in SUBSET (1 .. k) /\ T # {} /\ T \in SUBSET Nat /\ k \in T
  OBVIOUS
<1>2. \A i \in is : i \in T /\ i < k /\ i \in Nat
  OBVIOUS
<1>3. \A i \in T : i \in is \/ i = k
  OBVIOUS
<1>6. is \in SUBSET Nat
  OBVIOUS
<1> HIDE DEF T
<1>4. Max(T) \in T /\ \A y \in T : y <= Max(T)
  BY <1>1, MaxIs
<1>5. Min(T) \in T /\ \A y \in T : Min(T) <= y
  BY <1>1, MinIs
<1>7. Max(T) = k
  <2> DEFINE x == Max(T)
  <2>1. x \in T /\ \A y \in T : y <= x
    BY <1>4
  <2> HIDE DEF x
  <2>2. x = k
    BY <1>1, <1>2, <1>3, <2>1
  <2>3. QED
    BY <2>2 DEF x
<1>8. is = {} => Min(T) = k
  BY <1>3, <1>5
<1>9. ASSUME is # {}
      PROVE  Min(is) \in is /\ Min(T) = Min(is)
  <2>1. Min(is) \in is /\ \A y \in is : Min(is) <= y
    BY <1>6, <1>9, MinIs
  <2> DEFINE x == Min(is)
             y == Min(T)
  <2>2. x \in is /\ (\A z \in is : x <= z) /\ y \in T /\ \A z \in T : y <= z
    BY <2>1, <1>5
  <2> HIDE DEF x, y
  <2>3. x = y
    <3>1. x \in T /\ y <= x /\ x < k
      BY <1>2, <2>2
    <3>2. y \in is
      BY <1>2, <1>3, <2>2, <3>1
    <3>3. QED
      BY <1>2, <2>2, <3>1, <3>2
  <2>4. QED
    BY <2>2, <2>3 DEF x, y
<1>10. QED
  BY <1>7, <1>8, <1>9 DEF T

\* A session nothing has been added to.
LEMMA CompletesNone ==
  ASSUME NEW b, NEW eng
  PROVE  Completes(b, b, eng, {})
<1>1. SameSession(b, b)
  BY DEF SameSession
<1>2. \A f \in Fillable : {i \in {} : eng[i][f] # Blank(f)} = {}
  OBVIOUS
<1>3. UNION {eng[i].redacted_settings : i \in {}} = {}
  OBVIOUS
<1>4. QED
  BY <1>1, <1>2, <1>3, Zenon DEF Completes

\* A session the engine describes for the first time.
LEMMA CompletesFirst ==
  ASSUME NEW eng, NEW k \in Nat \ {0}
  PROVE  Completes(eng[k], eng[k], eng, {k})
<1> DEFINE d == eng[k]
<1>1. SameSession(d, d)
  BY DEF SameSession
<1>2. \A f \in Fillable : d[f] = IF d[f] # Blank(f) \/ {i \in {k} : eng[i][f] # Blank(f)} = {}
                                 THEN d[f] ELSE eng[Min({i \in {k} : eng[i][f] # Blank(f)})][f]
  <2>1. \A f : d[f] # Blank(f) \/ {i \in {k} : eng[i][f] # Blank(f)} = {}
    OBVIOUS
  <2>2. QED
    BY <2>1, Zenon
<1>3. Max({k}) = k
  <2>1. {} \in SUBSET (1 .. k - 1) /\ {} \cup {k} = {k}
    OBVIOUS
  <2>2. QED
    BY <2>1, LaterAdded
<1>4. d.heartbeat_interval =
        (IF d.heartbeat_explicit \/ {k} = {} THEN d ELSE eng[Max({k})]).heartbeat_interval
  BY <1>3, Zenon
<1>5. d.redacted_settings = d.redacted_settings \cup UNION {eng[i].redacted_settings : i \in {k}}
  BY Zenon
<1>6. QED
  BY <1>1, <1>2, <1>4, <1>5, Zenon DEF Completes

\* What a session says of f, with the descriptions in is.
SaidOf(b, eng, is, f) ==
  LET saying == {i \in is : eng[i][f] # Blank(f)}
  IN  IF b[f] # Blank(f) \/ saying = {} THEN b[f] ELSE eng[Min(saying)][f]

\* One description more.
LEMMA SaysMore ==
  ASSUME NEW b, NEW eng, NEW k \in Nat \ {0}, NEW is \in SUBSET (1 .. k - 1), NEW f
  PROVE  SaidOf(b, eng, is \cup {k}, f) =
           IF SaidOf(b, eng, is, f) = Blank(f) THEN eng[k][f] ELSE SaidOf(b, eng, is, f)
<1> DEFINE T == {i \in is : eng[i][f] # Blank(f)}
           R == {i \in is \cup {k} : eng[i][f] # Blank(f)}
<1>1. SaidOf(b, eng, is, f) = IF b[f] # Blank(f) \/ T = {} THEN b[f] ELSE eng[Min(T)][f]
  BY DEF SaidOf
<1>2. SaidOf(b, eng, is \cup {k}, f) = IF b[f] # Blank(f) \/ R = {} THEN b[f] ELSE eng[Min(R)][f]
  BY DEF SaidOf
<1>3. R = IF eng[k][f] # Blank(f) THEN T \cup {k} ELSE T
  OBVIOUS
<1>4. \A i \in T : eng[i][f] # Blank(f)
  OBVIOUS
<1>5. T \in SUBSET (1 .. k - 1)
  <2> DEFINE J == 1 .. k - 1
  <2>1. is \in SUBSET J
    OBVIOUS
  <2> HIDE DEF J
  <2>2. T \in SUBSET J
    BY <2>1
  <2>3. QED
    BY <2>2 DEF J
<1> HIDE DEF T, R
<1>6. /\ T = {} => Min(T \cup {k}) = k
      /\ T # {} => Min(T) \in T /\ Min(T \cup {k}) = Min(T)
  BY <1>5, LaterAdded
<1>7. CASE b[f] # Blank(f)
  BY <1>1, <1>2, <1>7
<1>8. CASE b[f] = Blank(f) /\ T = {}
  <2>1. SaidOf(b, eng, is, f) = Blank(f)
    BY <1>1, <1>8
  <2>2. CASE eng[k][f] = Blank(f)
    BY <1>2, <1>3, <1>8, <2>1, <2>2
  <2>3. CASE eng[k][f] # Blank(f)
    <3>1. R = T \cup {k} /\ R # {} /\ Min(R) = k
      BY <1>3, <1>6, <1>8, <2>3
    <3>2. QED
      BY <1>2, <1>8, <2>1, <3>1
  <2>4. QED
    BY <2>2, <2>3
<1>9. CASE b[f] = Blank(f) /\ T # {}
  <2>1. SaidOf(b, eng, is, f) = eng[Min(T)][f] /\ eng[Min(T)][f] # Blank(f)
    BY <1>1, <1>4, <1>6, <1>9
  <2>2. R # {} /\ Min(R) = Min(T)
    BY <1>3, <1>6, <1>9
  <2>3. QED
    BY <1>2, <1>9, <2>1, <2>2
<1>10. QED
  BY <1>7, <1>8, <1>9

\* A session that has been completed stays so with one description more.
LEMMA CompletesMore ==
  ASSUME NEW U, TRUE \in SUBSET U, NEW eng \in Seq(SessionsOf(U)), NEW k \in 1 .. Len(eng),
         NEW is \in SUBSET (1 .. k - 1), NEW g \in SessionsOf(U), NEW b,
         Completes(g, b, eng, is), g.heartbeat_explicit = b.heartbeat_explicit,
         SameSession(g, eng[k])
  PROVE  LET r == fill_from_quickfix(g, eng[k])
         IN  Completes(r, b, eng, is \cup {k}) /\ r.heartbeat_explicit = b.heartbeat_explicit
<1> DEFINE d == eng[k]
           r == fill_from_quickfix(g, d)
<1>1. d \in SessionsOf(U) /\ k \in Nat \ {0}
  OBVIOUS
<1> HIDE DEF d
<1>2. /\ \A f \in Fillable : r[f] = IF g[f] = Blank(f) THEN d[f] ELSE g[f]
      /\ \A f \in {"begin_string", "sender_comp_id", "target_comp_id", "heartbeat_explicit"} :
           r[f] = g[f]
      /\ r.heartbeat_interval = IF g.heartbeat_explicit THEN g.heartbeat_interval ELSE d.heartbeat_interval
      /\ r.redacted_settings = g.redacted_settings \cup d.redacted_settings
  <2>1. Filled(r, g, d)
    BY <1>1, FillIs, Zenon
  <2>2. QED
    BY <2>1, Zenon DEF Filled
<1> HIDE DEF r
<1>3. /\ SameSession(g, b)
      /\ \A f \in Fillable : g[f] = SaidOf(b, eng, is, f)
      /\ g.heartbeat_interval =
           (IF b.heartbeat_explicit \/ is = {} THEN b ELSE eng[Max(is)]).heartbeat_interval
      /\ g.redacted_settings = b.redacted_settings \cup UNION {eng[i].redacted_settings : i \in is}
  BY Zenon DEF Completes, SaidOf
<1>4. \A f \in Fillable : r[f] = SaidOf(b, eng, is \cup {k}, f)
  <2>1. SUFFICES ASSUME NEW f \in Fillable
                 PROVE  r[f] = SaidOf(b, eng, is \cup {k}, f)
    OBVIOUS
  <2>2. SaidOf(b, eng, is \cup {k}, f) =
          IF SaidOf(b, eng, is, f) = Blank(f) THEN eng[k][f] ELSE SaidOf(b, eng, is, f)
    BY <1>1, SaysMore
  <2>3. r[f] = (IF g[f] = Blank(f) THEN d[f] ELSE g[f]) /\ g[f] = SaidOf(b, eng, is, f)
    BY <1>2, <1>3
  <2>4. QED
    BY <2>2, <2>3, Zenon DEF d
<1>5. SameSession(r, b) /\ r.heartbeat_explicit = b.heartbeat_explicit
  <2>1. "session_qualifier" \in Fillable
    BY DEF Fillable
  <2>2. r["session_qualifier"] = g["session_qualifier"]
    <3>1. g["session_qualifier"] = d["session_qualifier"]
      BY DEF SameSession, d
    <3>2. QED
      BY <1>2, <2>1, <3>1
  <2>3. \A f \in {"begin_string", "sender_comp_id", "target_comp_id", "session_qualifier"} :
          r[f] = g[f]
    BY <1>2, <2>2
  <2>4. r.heartbeat_explicit = g.heartbeat_explicit
    BY <1>2
  <2>5. QED
    BY <1>3, <2>3, <2>4 DEF SameSession
<1>6. r.heartbeat_interval =
        (IF b.heartbeat_explicit \/ is \cup {k} = {} THEN b ELSE eng[Max(is \cup {k})]).heartbeat_interval
  <2>1. Max(is \cup {k}) = k /\ is \cup {k} # {}
    BY <1>1, LaterAdded
  <2>2. CASE b.heartbeat_explicit
    BY <1>2, <1>3, <2>2, Zenon
  <2>3. CASE ~b.heartbeat_explicit
    <3>1. r.heartbeat_interval = eng[k].heartbeat_interval
      BY <1>2, <2>3, Zenon DEF d
    <3>2. QED
      BY <2>1, <2>3, <3>1, Zenon
  <2>4. QED
    BY <2>2, <2>3
<1>7. r.redacted_settings =
        b.redacted_settings \cup UNION {eng[i].redacted_settings : i \in is \cup {k}}
  BY <1>2, <1>3 DEF d
<1>8. Completes(r, b, eng, is \cup {k})
  BY <1>4, <1>5, <1>6, <1>7, Zenon DEF Completes, SaidOf
<1>9. QED
  BY <1>5, <1>8 DEF r, d

\* The place of a position in a set of positions.
Rank(T, i) == Cardinality({j \in T : j <= i})

\* The places, one position later.
LEMMA RankNext ==
  ASSUME NEW T \in SUBSET (Nat \ {0}), NEW k \in Nat
  PROVE  /\ Rank(T, k) \in Nat
         /\ Rank(T, 0) = 0
         /\ Rank(T, k + 1) = Rank(T, k) + (IF k + 1 \in T THEN 1 ELSE 0)
<1> DEFINE A == {j \in T : j <= k}
<1>0. \A j \in T : j \in Nat /\ j # 0 /\ 1 <= j
  OBVIOUS
<1>1. {j \in T : j <= 0} = {}
  <2>1. \A j \in T : ~(j <= 0)
    BY <1>0
  <2>2. QED
    BY <2>1, Zenon
<1>2. IsFiniteSet(A) /\ Cardinality(A) \in Nat
  <2>1. \A j \in A : j \in 1 .. k
    BY <1>0
  <2>2. IsFiniteSet(1 .. k)
    <3>1. 1 \in Int /\ k \in Int
      OBVIOUS
    <3>2. QED
      BY <3>1, FS_Interval
  <2> HIDE DEF A
  <2>3. QED
    BY <2>1, <2>2, FS_Subset, FS_CardinalityType
<1>3. {j \in T : j <= k + 1} = IF k + 1 \in T THEN A \cup {k + 1} ELSE A
  <2>1. \A j \in T : j <= k + 1 <=> j <= k \/ j = k + 1
    BY <1>0
  <2>2. CASE k + 1 \in T
    <3>1. {j \in T : j <= k + 1} = A \cup {k + 1}
      BY <2>1, <2>2
    <3>2. QED
      BY <2>2, <3>1
  <2>3. CASE k + 1 \notin T
    <3>1. {j \in T : j <= k + 1} = A
      BY <2>1, <2>3
    <3>2. QED
      BY <2>3, <3>1
  <2>4. QED
    BY <2>2, <2>3
<1>4. k + 1 \notin A
  OBVIOUS
<1>5. Rank(T, k) = Cardinality(A) /\ Rank(T, 0) = 0
  BY <1>1, FS_EmptySet DEF Rank
<1> HIDE DEF A
<1>6. Cardinality(A \cup {k + 1}) = Cardinality(A) + 1
  BY <1>2, <1>4, FS_AddElement
<1>7. Rank(T, k + 1) = Cardinality(IF k + 1 \in T THEN A \cup {k + 1} ELSE A)
  BY <1>3 DEF Rank
<1>8. CASE k + 1 \in T
  BY <1>2, <1>5, <1>6, <1>7, <1>8
<1>9. CASE k + 1 \notin T
  BY <1>2, <1>5, <1>7, <1>9
<1>10. QED
  BY <1>8, <1>9

\* The places of those up to a position are the first ones.
LEMMA RankWithin ==
  ASSUME NEW T \in SUBSET (Nat \ {0}), NEW k \in Nat, NEW i \in T, i <= k
  PROVE  Rank(T, i) \in 1 .. Rank(T, k)
<1> DEFINE A == {j \in T : j <= i}
           C == {j \in T : j <= k}
<1>0. \A j \in T : j \in Nat /\ j # 0 /\ 1 <= j
  OBVIOUS
<1>1. (\A j \in A : j \in C) /\ i \in A
  <2>1. \A j \in T : j <= i => j <= k
    BY <1>0
  <2>2. i <= i
    BY <1>0
  <2>3. QED
    BY <2>1, <2>2
<1>2. \A j \in C : j \in 1 .. k
  BY <1>0
<1>3. IsFiniteSet(1 .. k)
  <2>1. 1 \in Int /\ k \in Int
    OBVIOUS
  <2>2. QED
    BY <2>1, FS_Interval
<1>4. Rank(T, i) = Cardinality(A) /\ Rank(T, k) = Cardinality(C)
  BY DEF Rank
<1> HIDE DEF A, C
<1>5. IsFiniteSet(C)
  BY <1>2, <1>3, FS_Subset
<1>6. IsFiniteSet(A) /\ Cardinality(A) <= Cardinality(C)
  BY <1>1, <1>5, FS_Subset
<1>7. Cardinality(A) \in Nat /\ Cardinality(C) \in Nat /\ Cardinality(A) # 0
  BY <1>1, <1>5, <1>6, FS_CardinalityType, FS_EmptySet
<1>8. QED
  BY <1>4, <1>6, <1>7

\* The descriptions a session of list has been completed by: those of its name, if
\* it is the first of it.
Reached(list, p, eng, k) ==
  IF \E q \in 1 .. p - 1 : SameSession(list[q], list[p]) THEN {}
  ELSE {i \in 1 .. k : SameSession(eng[i], list[p])}

\* After k descriptions: the sessions of list, each with what it has been given, and
\* none of the descriptions is without its session.
Merged(U, eng, k, got, list) ==
  /\ list \in Seq(SessionsOf(U)) /\ got \in Seq(SessionsOf(U)) /\ Len(got) = Len(list)
  /\ \A p \in 1 .. Len(list) :
       /\ Completes(got[p], list[p], eng, Reached(list, p, eng, k))
       /\ got[p].heartbeat_explicit = list[p].heartbeat_explicit
  /\ \A i \in 1 .. k : \E p \in 1 .. Len(list) : SameSession(list[p], eng[i])

\* At the start these are the sessions of the operator's file.
LEMMA MergedStart ==
  ASSUME NEW U, NEW own \in Seq(SessionsOf(U)), NEW eng
  PROVE  Merged(U, eng, 0, own, own)
<1>1. \A p : Reached(own, p, eng, 0) = {}
  BY DEF Reached
<1>2. \A p : Completes(own[p], own[p], eng, Reached(own, p, eng, 0))
  BY <1>1, CompletesNone
<1>3. QED
  BY <1>2 DEF Merged

\* One name: what is the same as the same is the same.
LEMMA SameJoin ==
  /\ \A a : SameSession(a, a)
  /\ \A a, b : SameSession(a, b) => SameSession(b, a)
  /\ \A a, b, c : SameSession(a, b) /\ SameSession(b, c) => SameSession(a, c)
BY DEF SameSession

\* A description of a session that nothing has described yet.
LEMMA MergedNew ==
  ASSUME NEW U, TRUE \in SUBSET U, NEW eng \in Seq(SessionsOf(U)), NEW k \in 1 .. Len(eng),
         NEW got, NEW list, Merged(U, eng, k - 1, got, list),
         \A p \in 1 .. Len(list) : ~SameSession(list[p], eng[k])
  PROVE  Merged(U, eng, k, Append(got, eng[k]), Append(list, eng[k]))
<1> DEFINE W == SessionsOf(U)
           n == Len(list)
           d == eng[k]
           g2 == Append(got, d)
           list2 == Append(list, d)
<1>1. k \in Nat \ {0} /\ d \in W /\ n \in Nat /\ list \in Seq(W) /\ got \in Seq(W) /\ Len(got) = n
  BY DEF Merged
<1>9. k - 1 \in Nat /\ 1 .. k = (1 .. k - 1) \cup {k}
  BY <1>1
<1>2. /\ g2 \in Seq(W) /\ list2 \in Seq(W) /\ Len(g2) = n + 1 /\ Len(list2) = n + 1
      /\ \A p \in 1 .. n : g2[p] = got[p] /\ list2[p] = list[p]
      /\ g2[n + 1] = d /\ list2[n + 1] = d
  <2> HIDE DEF W, d
  <2>1. QED
    BY <1>1, AppendProperties
<1>3. \A p \in 1 .. n : ~SameSession(list[p], d)
  OBVIOUS
<1>4. \A p \in 1 .. n : Completes(got[p], list[p], eng, Reached(list, p, eng, k - 1))
                        /\ got[p].heartbeat_explicit = list[p].heartbeat_explicit
  BY DEF Merged
<1>5. \A i \in 1 .. k - 1 : \E p \in 1 .. n : SameSession(list[p], eng[i])
  BY DEF Merged
<1> HIDE DEF list2, g2
<1>6. ASSUME NEW p \in 1 .. n
      PROVE  Reached(list2, p, eng, k) = Reached(list, p, eng, k - 1)
  <2>1. \A q \in 1 .. p - 1 : list2[q] = list[q]
    BY <1>1, <1>2
  <2>2. list2[p] = list[p]
    BY <1>2
  <2>3. ~SameSession(eng[k], list[p])
    BY <1>3, SameJoin
  <2>4. {i \in 1 .. k : SameSession(eng[i], list[p])} = {i \in 1 .. k - 1 : SameSession(eng[i], list[p])}
    BY <1>9, <2>3
  <2>5. QED
    BY <2>1, <2>2, <2>4 DEF Reached
<1>7. Reached(list2, n + 1, eng, k) = {k}
  <2>1. ~ \E q \in 1 .. n + 1 - 1 : SameSession(list2[q], list2[n + 1])
    <3>1. \A q \in 1 .. n : ~SameSession(list2[q], list2[n + 1])
      BY <1>2, <1>3
    <3>2. n + 1 - 1 = n
      BY <1>1
    <3>3. QED
      BY <3>1, <3>2
  <2>2. \A i \in 1 .. k - 1 : ~SameSession(eng[i], d)
    <3>1. SUFFICES ASSUME NEW i \in 1 .. k - 1, SameSession(eng[i], d)
                   PROVE  FALSE
      OBVIOUS
    <3>2. PICK p \in 1 .. n : SameSession(list[p], eng[i])
      BY <1>5, <3>1
    <3>3. SameSession(list[p], d)
      BY <3>1, <3>2, SameJoin
    <3>4. QED
      BY <1>3, <3>3
  <2>3. SameSession(eng[k], d)
    BY SameJoin
  <2>4. {i \in 1 .. k : SameSession(eng[i], d)} = {k}
    BY <1>9, <2>2, <2>3
  <2>5. QED
    BY <1>2, <2>1, <2>4 DEF Reached
<1>8. \A p \in 1 .. n + 1 : /\ Completes(g2[p], list2[p], eng, Reached(list2, p, eng, k))
                            /\ g2[p].heartbeat_explicit = list2[p].heartbeat_explicit
  <2>1. \A p \in 1 .. n : /\ Completes(g2[p], list2[p], eng, Reached(list2, p, eng, k))
                          /\ g2[p].heartbeat_explicit = list2[p].heartbeat_explicit
    BY <1>2, <1>4, <1>6
  <2>2. Completes(d, d, eng, {k})
    BY <1>1, CompletesFirst
  <2>3. /\ Completes(g2[n + 1], list2[n + 1], eng, Reached(list2, n + 1, eng, k))
        /\ g2[n + 1].heartbeat_explicit = list2[n + 1].heartbeat_explicit
    BY <1>2, <1>7, <2>2, Zenon
  <2>4. \A p \in 1 .. n + 1 : p \in 1 .. n \/ p = n + 1
    BY <1>1
  <2>5. QED
    BY <2>1, <2>3, <2>4, Zenon
<1>10. \A i \in 1 .. k : \E p \in 1 .. n + 1 : SameSession(list2[p], eng[i])
  <2>1. n + 1 \in 1 .. n + 1 /\ SameSession(list2[n + 1], eng[k])
    BY <1>1, <1>2, SameJoin
  <2>2. ASSUME NEW i \in 1 .. k - 1
        PROVE  \E p \in 1 .. n + 1 : SameSession(list2[p], eng[i])
    <3>1. PICK p \in 1 .. n : SameSession(list[p], eng[i])
      BY <1>5, <2>2
    <3>2. p \in 1 .. n + 1 /\ list2[p] = list[p]
      BY <1>1, <1>2
    <3>3. QED
      BY <3>1, <3>2
  <2>3. QED
    BY <1>9, <2>1, <2>2
<1>11. Merged(U, eng, k, g2, list2)
  BY <1>2, <1>8, <1>10, Zenon DEF Merged
<1>12. QED
  BY <1>11 DEF g2, list2

\* A description of a session that is there: got is as before but for the first
\* of that name, which is filled.
LEMMA MergedKnown ==
  ASSUME NEW U, TRUE \in SUBSET U, NEW eng \in Seq(SessionsOf(U)), NEW k \in 1 .. Len(eng),
         NEW got, NEW list, Merged(U, eng, k - 1, got, list),
         NEW m \in 1 .. Len(list), SameSession(list[m], eng[k]),
         \A p \in 1 .. m - 1 : ~SameSession(list[p], eng[k]),
         NEW g2 \in Seq(SessionsOf(U)), Len(g2) = Len(got),
         \A p \in 1 .. Len(got) : g2[p] = IF p = m THEN fill_from_quickfix(got[p], eng[k]) ELSE got[p]
  PROVE  Merged(U, eng, k, g2, list)
<1> DEFINE W == SessionsOf(U)
           n == Len(list)
           d == eng[k]
<1>1. k \in Nat \ {0} /\ d \in W /\ n \in Nat /\ list \in Seq(W) /\ got \in Seq(W) /\ Len(got) = n
  BY DEF Merged
<1>2. k - 1 \in Nat /\ 1 .. k = (1 .. k - 1) \cup {k} /\ k \notin 1 .. k - 1
  BY <1>1
<1>3. \A p \in 1 .. n : Completes(got[p], list[p], eng, Reached(list, p, eng, k - 1))
                        /\ got[p].heartbeat_explicit = list[p].heartbeat_explicit
  BY DEF Merged
<1>4. \A i \in 1 .. k - 1 : \E p \in 1 .. n : SameSession(list[p], eng[i])
  BY DEF Merged
<1>5. ASSUME NEW p \in 1 .. n, p # m
      PROVE  Reached(list, p, eng, k) = Reached(list, p, eng, k - 1)
  <2>1. CASE \E q \in 1 .. p - 1 : SameSession(list[q], list[p])
    BY <2>1 DEF Reached
  <2>2. CASE ~ \E q \in 1 .. p - 1 : SameSession(list[q], list[p])
    <3>1. ~SameSession(eng[k], list[p])
      <4>1. SUFFICES ASSUME SameSession(eng[k], list[p])
                     PROVE  FALSE
        OBVIOUS
      <4>2. SameSession(list[p], eng[k]) /\ SameSession(list[m], list[p])
        BY <4>1, SameJoin
      <4>3. p \notin 1 .. m - 1 /\ m \notin 1 .. p - 1
        BY <2>2, <4>2
      <4>4. QED
        BY <1>1, <1>5, <4>3
    <3>2. {i \in 1 .. k : SameSession(eng[i], list[p])} = {i \in 1 .. k - 1 : SameSession(eng[i], list[p])}
      BY <1>2, <3>1
    <3>3. QED
      BY <2>2, <3>2 DEF Reached
  <2>3. QED
    BY <2>1, <2>2
<1>6. Reached(list, m, eng, k) = Reached(list, m, eng, k - 1) \cup {k}
  <2>1. ~ \E q \in 1 .. m - 1 : SameSession(list[q], list[m])
    BY SameJoin
  <2>2. SameSession(eng[k], list[m])
    BY SameJoin
  <2>3. {i \in 1 .. k : SameSession(eng[i], list[m])} =
          {i \in 1 .. k - 1 : SameSession(eng[i], list[m])} \cup {k}
    BY <1>2, <2>2
  <2>4. QED
    BY <2>1, <2>3 DEF Reached
<1>7. \A p \in 1 .. n : /\ Completes(g2[p], list[p], eng, Reached(list, p, eng, k))
                        /\ g2[p].heartbeat_explicit = list[p].heartbeat_explicit
  <2>1. \A p \in 1 .. n : p # m => g2[p] = got[p]
    BY <1>1
  <2>2. ASSUME NEW p \in 1 .. n, p # m
        PROVE  /\ Completes(g2[p], list[p], eng, Reached(list, p, eng, k))
               /\ g2[p].heartbeat_explicit = list[p].heartbeat_explicit
    <3>1. g2[p] = got[p] /\ Reached(list, p, eng, k) = Reached(list, p, eng, k - 1)
      BY <1>5, <2>1, <2>2
    <3>2. Completes(got[p], list[p], eng, Reached(list, p, eng, k - 1))
          /\ got[p].heartbeat_explicit = list[p].heartbeat_explicit
      BY <1>3
    <3>3. QED
      BY <3>1, <3>2, Zenon
  <2> DEFINE is == Reached(list, m, eng, k - 1)
             g == got[m]
  <2>3. is \in SUBSET (1 .. k - 1)
    BY DEF Reached
  <2>4. g \in W /\ Completes(g, list[m], eng, is) /\ g.heartbeat_explicit = list[m].heartbeat_explicit
    BY <1>1, <1>3
  <2>5. g2[m] = fill_from_quickfix(g, d)
    BY <1>1
  <2> HIDE DEF is, g
  <2>6. SameSession(g, d)
    BY <2>4, SameJoin DEF Completes
  <2>7. /\ Completes(fill_from_quickfix(g, d), list[m], eng, is \cup {k})
        /\ fill_from_quickfix(g, d).heartbeat_explicit = list[m].heartbeat_explicit
    <3>1. TRUE \in SUBSET U /\ eng \in Seq(W) /\ k \in 1 .. Len(eng)
      OBVIOUS
    <3> DEFINE b == list[m]
    <3>2. Completes(g, b, eng, is) /\ g.heartbeat_explicit = b.heartbeat_explicit
      BY <2>4
    <3> HIDE DEF b
    <3>3. Completes(fill_from_quickfix(g, d), b, eng, is \cup {k})
      BY <2>3, <2>4, <2>6, <3>1, <3>2, CompletesMore
    <3>4. fill_from_quickfix(g, d).heartbeat_explicit = b.heartbeat_explicit
      <4>1. Filled(fill_from_quickfix(g, d), g, d)
        BY <1>1, <2>4, FillIs, Zenon
      <4>2. fill_from_quickfix(g, d).heartbeat_explicit = g.heartbeat_explicit
        BY <4>1 DEF Filled
      <4>3. QED
        BY <3>2, <4>2
    <3>5. QED
      BY <3>3, <3>4 DEF b
  <2>8. /\ Completes(g2[m], list[m], eng, Reached(list, m, eng, k))
        /\ g2[m].heartbeat_explicit = list[m].heartbeat_explicit
    BY <1>6, <2>5, <2>7, Zenon DEF is
  <2>9. QED
    BY <2>2, <2>8, Zenon
<1>8. \A i \in 1 .. k : \E p \in 1 .. n : SameSession(list[p], eng[i])
  BY <1>2, <1>4
<1>9. QED
  BY <1>1, <1>7, <1>8, Zenon DEF Merged

\* After k descriptions: the operator's sessions as they stand in its file, and
\* behind them what the engine describes for the first time, in its order.
Listed(own, eng, k, list) ==
  LET new == News(own, eng)
  IN  /\ Len(list) = Len(own) + Rank(new, k)
      /\ \A p \in 1 .. Len(own) : list[p] = own[p]
      /\ \A i \in 1 .. k : i \in new => list[Len(own) + Rank(new, i)] = eng[i]
      /\ \A p \in 1 .. Len(list) :
           p > Len(own) => \E i \in 1 .. k : i \in new /\ p = Len(own) + Rank(new, i)

\* What is new is a set of positions.
LEMMA NewsType ==
  ASSUME NEW own, NEW eng, Len(eng) \in Nat
  PROVE  /\ News(own, eng) \in SUBSET (Nat \ {0})
         /\ News(own, eng) \in SUBSET (1 .. Len(eng))
<1>1. \A i \in News(own, eng) : i \in 1 .. Len(eng)
  BY DEF News
<1>2. \A i \in 1 .. Len(eng) : i \in Nat \ {0}
  OBVIOUS
<1>3. QED
  BY <1>1, <1>2

\* When something is new.
LEMMA NewsIs ==
  ASSUME NEW U, NEW own \in Seq(SessionsOf(U)), NEW eng \in Seq(SessionsOf(U)), NEW i \in 1 .. Len(eng)
  PROVE  i \in News(own, eng) <=>
           /\ \A q \in 1 .. Len(own) : ~SameSession(own[q], eng[i])
           /\ \A j \in 1 .. i - 1 : ~SameSession(eng[j], eng[i])
<1>1. Range(own) = {own[q] : q \in 1 .. Len(own)}
  BY DEF Range
<1>2. i \in News(own, eng) <=>
        \A s \in Range(own) \cup {eng[j] : j \in 1 .. i - 1} : ~SameSession(s, eng[i])
  BY DEF News
<1>3. QED
  BY <1>1, <1>2, Zenon

\* At the start.
LEMMA ListedStart ==
  ASSUME NEW U, NEW own \in Seq(SessionsOf(U)), NEW eng \in Seq(SessionsOf(U))
  PROVE  Listed(own, eng, 0, own)
<1> DEFINE T == News(own, eng)
           n == Len(own)
<1>1. Len(eng) \in Nat /\ n \in Nat
  OBVIOUS
<1>2. T \in SUBSET (Nat \ {0})
  BY <1>1, NewsType
<1> HIDE DEF T, n
<1>3. Rank(T, 0) = 0
  <2>1. 0 \in Nat
    OBVIOUS
  <2>2. QED
    BY <1>2, <2>1, RankNext
<1>4. n = n + Rank(T, 0) /\ \A p \in 1 .. n : ~(p > n)
  BY <1>1, <1>3
<1>5. 1 .. 0 = {}
  OBVIOUS
<1>6. QED
  BY <1>4, <1>5 DEF Listed, T, n

\* The places of what is new, one description later.
LEMMA PlacesNext ==
  ASSUME NEW own, NEW eng, Len(eng) \in Nat, NEW k \in 1 .. Len(eng)
  PROVE  /\ Rank(News(own, eng), k - 1) \in Nat
         /\ Rank(News(own, eng), k) =
              Rank(News(own, eng), k - 1) + (IF k \in News(own, eng) THEN 1 ELSE 0)
         /\ \A i \in 1 .. k - 1 : i \in News(own, eng) =>
              Rank(News(own, eng), i) \in 1 .. Rank(News(own, eng), k - 1)
<1> DEFINE T == News(own, eng)
           j == k - 1
<1>1. T \in SUBSET (Nat \ {0})
  BY NewsType
<1>2. j \in Nat /\ k \in Nat /\ j + 1 = k /\ \A i \in 1 .. j : i <= j
  OBVIOUS
<1> HIDE DEF T, j
<1>3. /\ Rank(T, j) \in Nat
      /\ Rank(T, j + 1) = Rank(T, j) + (IF j + 1 \in T THEN 1 ELSE 0)
  BY <1>1, <1>2, RankNext
<1>4. \A i \in 1 .. j : i \in T => Rank(T, i) \in 1 .. Rank(T, j)
  BY <1>1, <1>2, RankWithin
<1>5. QED
  BY <1>2, <1>3, <1>4 DEF T, j

\* A description of a session that nothing has described yet is new.
LEMMA ListedNew ==
  ASSUME NEW U, NEW own \in Seq(SessionsOf(U)), NEW eng \in Seq(SessionsOf(U)),
         NEW k \in 1 .. Len(eng), NEW got, NEW list,
         Merged(U, eng, k - 1, got, list), Listed(own, eng, k - 1, list),
         \A p \in 1 .. Len(list) : ~SameSession(list[p], eng[k])
  PROVE  Listed(own, eng, k, Append(list, eng[k]))
<1> DEFINE T == News(own, eng)
           n == Len(list)
           o == Len(own)
           list2 == Append(list, eng[k])
           R(i) == Rank(T, i)
<1>1. n \in Nat /\ o \in Nat /\ Len(eng) \in Nat /\ list \in Seq(SessionsOf(U)) /\ eng[k] \in SessionsOf(U)
  BY DEF Merged
<1>2. /\ Len(list2) = n + 1 /\ list2[n + 1] = eng[k] /\ \A p \in 1 .. n : list2[p] = list[p]
  BY <1>1, AppendProperties
<1>3. /\ n = o + R(k - 1)
      /\ \A p \in 1 .. o : list[p] = own[p]
      /\ \A i \in 1 .. k - 1 : i \in T => list[o + R(i)] = eng[i]
      /\ \A p \in 1 .. n : p > o => \E i \in 1 .. k - 1 : i \in T /\ p = o + R(i)
  BY DEF Listed
<1>4. \A i \in 1 .. k - 1 : \E p \in 1 .. n : SameSession(list[p], eng[i])
  BY DEF Merged
<1>5. \A p \in 1 .. n : ~SameSession(list[p], eng[k])
  OBVIOUS
<1>6. k \in Nat /\ k - 1 \in Nat /\ 1 .. k = (1 .. k - 1) \cup {k}
  BY <1>1
<1>7. /\ R(k - 1) \in Nat /\ R(k) = R(k - 1) + (IF k \in T THEN 1 ELSE 0)
      /\ \A i \in 1 .. k - 1 : i \in T => R(i) \in 1 .. R(k - 1)
  BY <1>1, PlacesNext
<1> HIDE DEF list2, n, o, R
<1>8. k \in T
  <2>1. \A q \in 1 .. o : ~SameSession(own[q], eng[k])
    <3>1. \A q \in 1 .. o : q \in 1 .. n
      BY <1>1, <1>3, <1>7
    <3>2. QED
      BY <1>3, <1>5, <3>1
  <2>2. ASSUME NEW j \in 1 .. k - 1
        PROVE  ~SameSession(eng[j], eng[k])
    <3>1. PICK p \in 1 .. n : SameSession(list[p], eng[j])
      BY <1>4
    <3>2. QED
      BY <1>5, <3>1, SameJoin
  <2>3. QED
    BY <2>1, <2>2, NewsIs DEF o
<1> HIDE DEF T
<1>9. R(k) = R(k - 1) + 1 /\ o + R(k) = n + 1
  BY <1>1, <1>3, <1>7, <1>8
<1>10. \A i \in 1 .. k - 1 : i \in T => o + R(i) \in 1 .. n
  BY <1>1, <1>3, <1>7
<1>11. \A i \in 1 .. k : i \in T => list2[o + R(i)] = eng[i]
  <2>1. list2[o + R(k)] = eng[k]
    BY <1>2, <1>9
  <2>2. \A i \in 1 .. k - 1 : i \in T => list2[o + R(i)] = eng[i]
    BY <1>2, <1>3, <1>10
  <2>3. QED
    BY <1>6, <2>1, <2>2
<1>12. \A p \in 1 .. n + 1 : p > o => \E i \in 1 .. k : i \in T /\ p = o + R(i)
  <2>1. n + 1 = o + R(k) /\ k \in 1 .. k /\ k \in T
    BY <1>6, <1>8, <1>9
  <2>2. \A p \in 1 .. n : p > o => \E i \in 1 .. k : i \in T /\ p = o + R(i)
    BY <1>3, <1>6
  <2>3. \A p \in 1 .. n + 1 : p \in 1 .. n \/ p = n + 1
    BY <1>1
  <2>4. QED
    BY <2>1, <2>2, <2>3
<1>13. \A p \in 1 .. o : list2[p] = own[p]
  <2>1. \A p \in 1 .. o : p \in 1 .. n
    BY <1>1, <1>3, <1>7
  <2>2. QED
    BY <1>2, <1>3, <2>1
<1>14. Listed(own, eng, k, list2)
  BY <1>2, <1>9, <1>11, <1>12, <1>13 DEF Listed, R, T, o
<1>15. QED
  BY <1>14 DEF list2

\* A description of a session that is there is not new.
LEMMA ListedKnown ==
  ASSUME NEW U, NEW own \in Seq(SessionsOf(U)), NEW eng \in Seq(SessionsOf(U)),
         NEW k \in 1 .. Len(eng), NEW list, Len(list) \in Nat, Listed(own, eng, k - 1, list),
         NEW m \in 1 .. Len(list), SameSession(list[m], eng[k])
  PROVE  Listed(own, eng, k, list)
<1> DEFINE T == News(own, eng)
           n == Len(list)
           o == Len(own)
           R(i) == Rank(T, i)
<1>1. n \in Nat /\ o \in Nat /\ Len(eng) \in Nat /\ m \in 1 .. n
  OBVIOUS
<1>2. /\ n = o + R(k - 1)
      /\ \A p \in 1 .. o : list[p] = own[p]
      /\ \A i \in 1 .. k - 1 : i \in T => list[o + R(i)] = eng[i]
      /\ \A p \in 1 .. n : p > o => \E i \in 1 .. k - 1 : i \in T /\ p = o + R(i)
  BY DEF Listed
<1>3. k \in Nat /\ k - 1 \in Nat /\ 1 .. k = (1 .. k - 1) \cup {k}
  BY <1>1
<1>4. R(k - 1) \in Nat /\ R(k) = R(k - 1) + (IF k \in T THEN 1 ELSE 0)
  BY <1>1, PlacesNext
<1> HIDE DEF n, o, R
<1>5. k \notin T
  <2>1. CASE m <= o
    <3>1. m \in 1 .. o
      BY <1>1, <2>1
    <3>2. SameSession(own[m], eng[k])
      BY <1>2, <3>1
    <3>3. QED
      BY <3>1, <3>2, NewsIs DEF o
  <2>2. CASE m > o
    <3>1. PICK i \in 1 .. k - 1 : i \in T /\ m = o + R(i)
      BY <1>1, <1>2, <2>2
    <3>2. SameSession(eng[i], eng[k])
      BY <1>2, <3>1
    <3>3. QED
      BY <3>1, <3>2, NewsIs
  <2>3. QED
    BY <1>1, <2>1, <2>2
<1> HIDE DEF T
<1>6. R(k) = R(k - 1)
  BY <1>4, <1>5
<1>7. \A i \in 1 .. k : i \in T => list[o + R(i)] = eng[i]
  BY <1>2, <1>3, <1>5
<1>8. \A p \in 1 .. n : p > o => \E i \in 1 .. k : i \in T /\ p = o + R(i)
  BY <1>2, <1>3
<1>9. n = o + R(k)
  BY <1>2, <1>6
<1>10. QED
  BY <1>2, <1>7, <1>8, <1>9 DEF Listed, R, T, o, n

\* Each round of the import keeps both.
LEMMA ImportStep ==
  ASSUME NEW U, TRUE \in SUBSET U, NEW own \in Seq(SessionsOf(U)), NEW eng \in Seq(SessionsOf(U)),
         NEW k \in 1 .. Len(eng), NEW got, NEW list,
         Merged(U, eng, k - 1, got, list), Listed(own, eng, k - 1, list)
  PROVE  \E C : Merged(U, eng, k, Import(got, eng[k]), C) /\ Listed(own, eng, k, C)
<1> DEFINE W == SessionsOf(U)
           d == eng[k]
           same == {i \in 1 .. Len(got) : SameSession(got[i], d)}
           g2 == Import(got, d)
<1>1. /\ list \in Seq(W) /\ got \in Seq(W) /\ Len(got) = Len(list) /\ Len(list) \in Nat /\ d \in W
      /\ \A p \in 1 .. Len(list) : Completes(got[p], list[p], eng, Reached(list, p, eng, k - 1))
  BY DEF Merged
<1>2. \A p \in 1 .. Len(list) : SameSession(got[p], list[p])
  BY <1>1, Zenon DEF Completes
<1>3. \A p \in 1 .. Len(list) : p \in same <=> SameSession(list[p], d)
  BY <1>1, <1>2, SameJoin
<1>4. /\ g2 \in Seq(W)
      /\ same = {} => g2 = Append(got, d)
      /\ same # {} =>
           /\ Len(g2) = Len(got)
           /\ Min(same) \in same /\ \A i \in same : Min(same) <= i
           /\ \A i \in 1 .. Len(got) : g2[i] =
                IF i = Min(same) THEN fill_from_quickfix(got[i], d) ELSE got[i]
  <2>1. g2 \in Seq(W) /\ Imported(got, d, g2)
    BY <1>1, ImportIs
  <2>2. QED
    BY <2>1, Zenon DEF Imported
<1>5. CASE same = {}
  <2>1. \A p \in 1 .. Len(list) : ~SameSession(list[p], eng[k])
    BY <1>3, <1>5
  <2>2. g2 = Append(got, d)
    BY <1>4, <1>5
  <2> HIDE DEF g2, same
  <2>3. Merged(U, eng, k, Append(got, eng[k]), Append(list, eng[k]))
    BY <2>1, MergedNew
  <2>4. Listed(own, eng, k, Append(list, eng[k]))
    BY <2>1, ListedNew
  <2>5. QED
    BY <2>2, <2>3, <2>4, Zenon DEF g2
<1>6. CASE same # {}
  <2> DEFINE m == Min(same)
  <2>1. /\ m \in same /\ \A i \in same : m <= i
        /\ Len(g2) = Len(got)
        /\ \A i \in 1 .. Len(got) : g2[i] = IF i = m THEN fill_from_quickfix(got[i], d) ELSE got[i]
    BY <1>4, <1>6
  <2>2. \A i \in same : i \in 1 .. Len(list) /\ i \in Nat
    BY <1>1
  <2> HIDE DEF m, same, g2
  <2>3. m \in 1 .. Len(list) /\ SameSession(list[m], eng[k])
    BY <1>3, <2>1, <2>2
  <2>4. \A p \in 1 .. m - 1 : ~SameSession(list[p], eng[k])
    <3>1. \A p \in 1 .. m - 1 : p \in 1 .. Len(list) /\ ~(m <= p)
      BY <1>1, <2>3
    <3>2. QED
      BY <1>3, <2>1, <3>1
  <2>5. Merged(U, eng, k, g2, list)
    BY <1>4, <2>1, <2>3, <2>4, MergedKnown
  <2>6. Listed(own, eng, k, list)
    BY <1>1, <2>3, ListedKnown
  <2>7. QED
    BY <2>5, <2>6 DEF g2
<1>7. QED
  BY <1>5, <1>6

\* What is listed and merged at the end is what the two files must become.
LEMMA MergedMerges ==
  ASSUME NEW U, NEW own \in Seq(SessionsOf(U)), NEW eng \in Seq(SessionsOf(U)), NEW got, NEW list,
         Merged(U, eng, Len(eng), got, list), Listed(own, eng, Len(eng), list)
  PROVE  Merges(own, eng, got)
<1> DEFINE T == News(own, eng)
           n == Len(list)
           o == Len(own)
           e == Len(eng)
           R(i) == Rank(T, i)
<1>1. n \in Nat /\ o \in Nat /\ e \in Nat /\ Len(got) = n
  BY DEF Merged
<1>2. /\ n = o + R(e)
      /\ \A p \in 1 .. o : list[p] = own[p]
      /\ \A i \in 1 .. e : i \in T => list[o + R(i)] = eng[i]
      /\ \A p \in 1 .. n : p > o => \E i \in 1 .. e : i \in T /\ p = o + R(i)
  BY DEF Listed
<1>3. \A p \in 1 .. n : Completes(got[p], list[p], eng, Reached(list, p, eng, e))
  BY DEF Merged
<1>4. T \in SUBSET (Nat \ {0}) /\ \A i \in T : i \in 1 .. e
  BY <1>1, NewsType
<1>5. R(e) \in Nat /\ \A i \in T : R(i) \in 1 .. R(e)
  <2>1. \A i \in T : i <= e
    BY <1>1, <1>4
  <2>2. QED
    BY <1>1, <1>4, <2>1, RankNext, RankWithin
<1>6. R(e) = Cardinality(T)
  <2>1. {j \in T : j <= e} = T
    BY <1>1, <1>4
  <2>2. QED
    BY <2>1 DEF Rank
<1>7. \A i : R(i) = Cardinality({j \in T : j <= i})
  BY DEF Rank
<1>8. \A i \in T : /\ \A q \in 1 .. o : ~SameSession(own[q], eng[i])
                   /\ \A j \in 1 .. i - 1 : ~SameSession(eng[j], eng[i])
  BY <1>4, NewsIs
<1> HIDE DEF T, n, o, e, R
<1>9. ASSUME NEW i \in 1 .. o
      PROVE  Completes(got[i], own[i], eng,
               IF \E j \in 1 .. i - 1 : SameSession(own[j], own[i]) THEN {}
               ELSE Descriptions(eng, own[i]))
  <2>1. i \in 1 .. n /\ \A j \in 1 .. i - 1 : j \in 1 .. o
    BY <1>1, <1>2, <1>5
  <2>2. list[i] = own[i] /\ \A j \in 1 .. i - 1 : list[j] = own[j]
    BY <1>2, <2>1
  <2>3. Reached(list, i, eng, e) = IF \E j \in 1 .. i - 1 : SameSession(own[j], own[i]) THEN {}
                                ELSE Descriptions(eng, own[i])
    <3>1. (\E j \in 1 .. i - 1 : SameSession(list[j], list[i]))
            <=> \E j \in 1 .. i - 1 : SameSession(own[j], own[i])
      BY <2>2
    <3>2. {x \in 1 .. e : SameSession(eng[x], list[i])} = Descriptions(eng, own[i])
      BY <2>2 DEF Descriptions, e
    <3>3. QED
      BY <3>1, <3>2, Zenon DEF Reached
  <2>4. Completes(got[i], list[i], eng, Reached(list, i, eng, e))
    BY <1>3, <2>1
  <2>5. QED
    BY <2>2, <2>3, <2>4, Zenon
<1>10. ASSUME NEW i \in T
       PROVE  Completes(got[o + R(i)], eng[i], eng, Descriptions(eng, eng[i]))
  <2> DEFINE p == o + R(i)
  <2>1. p \in 1 .. n /\ i \in 1 .. e /\ i \in Nat
    BY <1>1, <1>2, <1>4, <1>5
  <2>2. list[p] = eng[i]
    BY <1>2, <2>1
  <2> HIDE DEF p
  <2>3. ASSUME NEW q \in 1 .. p - 1, SameSession(list[q], list[p])
        PROVE  FALSE
    <3>1. q \in 1 .. n /\ q # p
      BY <1>1, <2>1
    <3>2. CASE q <= o
      <4>1. q \in 1 .. o
        BY <1>1, <3>1, <3>2
      <4>2. SameSession(own[q], eng[i])
        BY <1>2, <2>2, <2>3, <4>1
      <4>3. QED
        BY <1>8, <4>1, <4>2
    <3>3. CASE q > o
      <4>1. PICK x \in 1 .. e : x \in T /\ q = o + R(x)
        BY <1>2, <3>1, <3>3
      <4>2. list[q] = eng[x] /\ SameSession(eng[x], eng[i]) /\ SameSession(eng[i], eng[x])
        BY <1>2, <2>2, <2>3, <4>1, SameJoin
      <4>3. x # i
        BY <3>1, <4>1 DEF p
      <4>4. x \in 1 .. i - 1 \/ i \in 1 .. x - 1
        BY <1>1, <2>1, <4>3
      <4>5. QED
        BY <1>8, <4>1, <4>2, <4>4
    <3>4. QED
      BY <1>1, <3>1, <3>2, <3>3
  <2>4. Reached(list, p, eng, e) = Descriptions(eng, eng[i])
    BY <2>2, <2>3 DEF Reached, Descriptions, e
  <2>5. Completes(got[p], list[p], eng, Reached(list, p, eng, e))
    BY <1>3, <2>1
  <2>6. QED
    BY <2>2, <2>4, <2>5, Zenon DEF p
<1>11. Len(got) = o + Cardinality(T)
  BY <1>1, <1>2, <1>6
<1>12. \A i \in T : Completes(got[o + Cardinality({j \in T : j <= i})], eng[i], eng,
                              Descriptions(eng, eng[i]))
  BY <1>7, <1>10
<1>13. QED
  BY <1>9, <1>11, <1>12, Zenon DEF Merges, T, o

\* The import makes of the two files what they must become.
LEMMA ImportMerges ==
  ASSUME NEW U, TRUE \in SUBSET U, NEW own \in Seq(SessionsOf(U)), NEW eng \in Seq(SessionsOf(U))
  PROVE  Merges(own, eng, FoldLeft(Import, own, eng))
<1> DEFINE n == Len(eng)
<1>1. PICK h : ImportRun(U, own, eng, h)
  BY ImportRuns
<1>2. /\ n \in Nat /\ h[0] = own /\ FoldLeft(Import, own, eng) = h[n]
      /\ \A i \in 1 .. n : h[i] = Import(h[i - 1], eng[i])
  BY <1>1 DEF ImportRun
<1> DEFINE T == {k \in 0 .. n : \E list : Merged(U, eng, k, h[k], list) /\ Listed(own, eng, k, list)}
<1>3. 0 \in T
  <2>1. Merged(U, eng, 0, own, own) /\ Listed(own, eng, 0, own)
    BY MergedStart, ListedStart
  <2>2. QED
    BY <1>2, <2>1
<1>4. ASSUME NEW k \in 1 .. n, k - 1 \in T
      PROVE  k \in T
  <2>1. PICK list : Merged(U, eng, k - 1, h[k - 1], list) /\ Listed(own, eng, k - 1, list)
    BY <1>4
  <2>2. \E C : Merged(U, eng, k, Import(h[k - 1], eng[k]), C) /\ Listed(own, eng, k, C)
    BY <2>1, ImportStep
  <2>3. k \in 0 .. n
    BY <1>2
  <2>4. QED
    BY <1>2, <2>2, <2>3
<1>5. n \in T
  <2>1. n \in 0 .. n
    BY <1>2
  <2> HIDE DEF T
  <2>2. QED
    BY <1>2, <1>3, <1>4, <2>1, Rounds
<1>6. PICK list : Merged(U, eng, n, h[n], list) /\ Listed(own, eng, n, list)
  BY <1>5
<1>7. QED
  BY <1>2, <1>6, MergedMerges

-----------------------------------------------------------------------------
(* ReadIni, sessions_from_quickfix: their sessions are lists of records. *)

\* The values a session of the operator's file can have.
IniValues(V) ==
  V \cup {NewSession[f] : f \in Fields} \cup {"yes", "no", "unknown", "FIX.4.4", TRUE}

IniSessions(V) == [Fields -> IniValues(V)]

IniState(V) ==
  [sessions : Seq(IniSessions(V)), current : IniSessions(V), in_session : BOOLEAN, failed : BOOLEAN]

\* A session about which nothing has been said.
LEMMA NewSessionType ==
  ASSUME NEW V
  PROVE  NewSession \in IniSessions(V) /\ NoConfig \in IniState(V)
<1>1. NewSession = [f \in Fields |-> NewSession[f]]
  BY DEF NewSession, Fields
<1>2. \A f \in Fields : NewSession[f] \in IniValues(V)
  BY DEF IniValues
<1>3. NewSession \in IniSessions(V)
  BY <1>1, <1>2 DEF IniSessions
<1>4. << >> \in Seq(IniSessions(V))
  OBVIOUS
<1>5. QED
  BY <1>3, <1>4 DEF NoConfig, IniState

\* One field set.
LEMMA FieldSet ==
  ASSUME NEW V, NEW sc \in IniSessions(V), NEW f, NEW v \in IniValues(V)
  PROVE  [sc EXCEPT ![f] = v] \in IniSessions(V)
BY DEF IniSessions

\* A line of a block sets fields of a session.
LEMMA AssignType ==
  ASSUME NEW V, NEW sc \in IniSessions(V), NEW key, NEW val \in V
  PROVE  Assign(sc, key, val) \in IniSessions(V)
<1>1. val \in IniValues(V) /\ TriState(val) \in IniValues(V) /\ TRUE \in IniValues(V)
  BY DEF IniValues, TriState
<1>2. CASE key \in PlainKeys
  <2>1. Assign(sc, key, val) = [sc EXCEPT ![key] = val]
    BY <1>2 DEF Assign, PlainKeys
  <2> DEFINE w == [sc EXCEPT ![key] = val]
  <2>2. w \in IniSessions(V)
    BY <1>1, FieldSet
  <2>3. QED
    BY <2>1, <2>2
<1>3. CASE key \in {"reset_on_logon", "persist_messages"}
  <2>1. Assign(sc, key, val) = [sc EXCEPT ![key] = TriState(val)]
    BY <1>3 DEF Assign, PlainKeys
  <2> DEFINE w == [sc EXCEPT ![key] = TriState(val)]
  <2>2. w \in IniSessions(V)
    BY <1>1, FieldSet
  <2>3. QED
    BY <2>1, <2>2
<1>4. CASE key = "heartbeat_interval"
  <2>1. Assign(sc, key, val) =
          [[sc EXCEPT !["heartbeat_interval"] = val] EXCEPT !["heartbeat_explicit"] = TRUE]
    BY <1>4 DEF Assign, PlainKeys
  <2> DEFINE w == [sc EXCEPT !["heartbeat_interval"] = val]
             x == [w EXCEPT !["heartbeat_explicit"] = TRUE]
  <2>2. w \in IniSessions(V)
    BY <1>1, FieldSet
  <2> HIDE DEF w
  <2>3. x \in IniSessions(V)
    BY <1>1, <2>2, FieldSet
  <2>4. QED
    BY <2>1, <2>3 DEF w
<1>5. CASE key \notin PlainKeys \cup {"reset_on_logon", "persist_messages", "heartbeat_interval"}
  BY <1>5 DEF Assign
<1>6. QED
  BY <1>2, <1>3, <1>4, <1>5

\* The end of a block.
LEMMA CommitSessionType ==
  ASSUME NEW V, NEW c \in IniState(V)
  PROVE  CommitSession(c) \in IniState(V)
<1> DEFINE s == IF c.current.begin_string = "" THEN [c.current EXCEPT !.begin_string = "FIX.4.4"]
                                               ELSE c.current
<1>1. c.current \in IniSessions(V) /\ c.sessions \in Seq(IniSessions(V))
  BY DEF IniState
<1>2. s \in IniSessions(V)
  <2>1. "FIX.4.4" \in IniValues(V)
    BY DEF IniValues
  <2>2. [c.current EXCEPT !["begin_string"] = "FIX.4.4"] \in IniSessions(V)
    BY <1>1, <2>1, FieldSet
  <2>3. QED
    BY <1>1, <2>2
<1>3. NewSession \in IniSessions(V)
  BY NewSessionType
<1>4. CommitSession(c) =
        IF ~c.in_session THEN c
        ELSE IF c.current.sender_comp_id = "" \/ c.current.target_comp_id = ""
        THEN [c EXCEPT !.failed = TRUE]
        ELSE [c EXCEPT !.sessions = Append(@, s), !.current = NewSession]
  BY DEF CommitSession
<1> HIDE DEF s
<1>5. Append(c.sessions, s) \in Seq(IniSessions(V))
  BY <1>1, <1>2, AppendProperties
<1>6. [c EXCEPT !.sessions = Append(@, s), !.current = NewSession] \in IniState(V)
  <2> DEFINE a == Append(c.sessions, s)
             S == IniSessions(V)
             Q == Seq(S)
  <2>1. a \in Q /\ NewSession \in S
    BY <1>3, <1>5
  <2>2. [c EXCEPT !.sessions = Append(@, s), !.current = NewSession] =
          [c EXCEPT !.sessions = a, !.current = NewSession]
    OBVIOUS
  <2>3. c \in [sessions : Q, current : S, in_session : BOOLEAN, failed : BOOLEAN]
    BY DEF IniState
  <2> HIDE DEF a, S, Q
  <2>4. [c EXCEPT !.sessions = a, !.current = NewSession] \in
          [sessions : Q, current : S, in_session : BOOLEAN, failed : BOOLEAN]
    BY <2>1, <2>3
  <2>5. QED
    BY <2>2, <2>4 DEF IniState, Q, S
<1>7. [c EXCEPT !.failed = TRUE] \in IniState(V)
  BY DEF IniState
<1>8. QED
  BY <1>4, <1>6, <1>7

\* One line.
LEMMA ReadLineType ==
  ASSUME NEW K, NEW V, NEW c \in IniState(V), NEW l \in LinesOf(K, V)
  PROVE  ReadLine(c, l) \in IniState(V)
<1>1. CASE c.failed
  BY <1>1 DEF ReadLine
<1>2. CASE ~c.failed /\ l.kind = "section"
  <2> DEFINE d == CommitSession(c)
             open == l.key = "session"
  <2>1. ReadLine(c, l) = [d EXCEPT !.in_session = open]
    BY <1>2 DEF ReadLine
  <2>2. d \in IniState(V) /\ open \in BOOLEAN
    BY CommitSessionType
  <2> HIDE DEF d, open
  <2>3. [d EXCEPT !.in_session = open] \in IniState(V)
    BY <2>2 DEF IniState
  <2>4. QED
    BY <2>1, <2>3
<1>3. CASE ~c.failed /\ l.kind = "setting" /\ c.in_session /\ ~Throws(l)
  <2> DEFINE a == Assign(c.current, l.key, l.val)
  <2>1. ReadLine(c, l) = [c EXCEPT !.current = a]
    BY <1>3 DEF ReadLine
  <2>2. a \in IniSessions(V)
    <3>1. l.val \in V
      BY <1>3, LineIs
    <3>2. c.current \in IniSessions(V)
      BY DEF IniState
    <3>3. QED
      BY <3>1, <3>2, AssignType
  <2> HIDE DEF a
  <2>3. [c EXCEPT !.current = a] \in IniState(V)
    BY <2>2 DEF IniState
  <2>4. QED
    BY <2>1, <2>3
<1>4. CASE ~c.failed /\ (l.kind = "junk" \/ (l.kind = "setting" /\ c.in_session /\ Throws(l)))
  <2>1. ReadLine(c, l) = [c EXCEPT !.failed = TRUE]
    BY <1>4 DEF ReadLine
  <2>2. QED
    BY <2>1 DEF IniState
<1>5. CASE ~c.failed /\ l.kind = "setting" /\ ~c.in_session
  BY <1>5 DEF ReadLine
<1>6. QED
  BY <1>1, <1>2, <1>3, <1>4, <1>5, LineIs

\* The function by which the fold goes through the lines.
IniFold(lines, g) ==
  g = [d \in SUBSET (DOMAIN lines) |->
         IF d = {} THEN NoConfig ELSE ReadLine(g[d \ {Max(d)}], lines[Max(d)])]

\* The fold by such a function.
LEMMA IniUnfolds ==
  \A lines : FoldLeft(ReadLine, NoConfig, lines) = (CHOOSE g : IniFold(lines, g))[DOMAIN lines]
BY DEF FoldLeft, MapThenFoldSet, IniFold

\* There is one for all lines.
LEMMA IniFoldExists ==
  ASSUME NEW K, NEW V, NEW lines \in Seq(LinesOf(K, V))
  PROVE  \E g : IniFold(lines, g)
<1> DEFINE n == Len(lines)
           S == IniState(V)
           F == [p \in (1 .. n) \X S |-> ReadLine(p[2], lines[p[1]])]
<1>1. n \in Nat /\ DOMAIN lines = 1 .. n /\ \A i \in 1 .. n : lines[i] \in LinesOf(K, V)
  OBVIOUS
<1>2. NoConfig \in S
  BY NewSessionType
<1> HIDE DEF S
<1>3. \A i \in 1 .. n, x \in S : ReadLine(x, lines[i]) \in S
  BY <1>1, ReadLineType DEF S
<1>4. F \in [(1 .. n) \X S -> S]
  BY <1>3
<1>5. PICK g \in [SUBSET (1 .. n) -> S] : IsFold(n, NoConfig, F, g)
  <2> HIDE DEF F, n
  <2>1. QED
    BY <1>1, <1>2, <1>4, FoldExists
<1>6. ASSUME NEW d \in SUBSET (1 .. n), d # {}
      PROVE  F[<<Max(d), g[d \ {Max(d)}]>>] = ReadLine(g[d \ {Max(d)}], lines[Max(d)])
  <2>1. Max(d) \in 1 .. n
    BY <1>1, <1>6, MaxIs
  <2>2. g[d \ {Max(d)}] \in S
    OBVIOUS
  <2>3. QED
    BY <2>1, <2>2
<1>7. IniFold(lines, g)
  <2> HIDE DEF F, n
  <2>1. g = [d \in SUBSET (1 .. n) |-> IF d = {} THEN NoConfig ELSE F[<<Max(d), g[d \ {Max(d)}]>>]]
    BY <1>5 DEF IsFold
  <2>2. g = [d \in SUBSET (1 .. n) |->
               IF d = {} THEN NoConfig ELSE ReadLine(g[d \ {Max(d)}], lines[Max(d)])]
    BY <2>1, <1>6
  <2>3. QED
    BY <2>2, <1>1 DEF IniFold
<1>8. QED
  BY <1>7

\* What the operator's file is read into.
LEMMA ReadIniType ==
  ASSUME NEW K, NEW V, NEW lines \in Seq(LinesOf(K, V))
  PROVE  ReadIni(lines) \in IniState(V)
<1> DEFINE n == Len(lines)
           S == IniState(V)
<1>1. n \in Nat /\ DOMAIN lines = 1 .. n /\ \A i \in 1 .. n : lines[i] \in LinesOf(K, V)
  OBVIOUS
<1>2. PICK g : IniFold(lines, g) /\ FoldLeft(ReadLine, NoConfig, lines) = g[DOMAIN lines]
  BY IniUnfolds, IniFoldExists
<1> DEFINE T == {i \in 0 .. n : g[1 .. i] \in S}
<1>3. 0 \in T
  <2>1. g[{}] = NoConfig
    BY <1>2 DEF IniFold
  <2>2. 1 .. 0 = {} /\ 0 \in 0 .. n
    BY <1>1
  <2>3. NoConfig \in S
    BY NewSessionType
  <2> HIDE DEF S
  <2>4. QED
    BY <2>1, <2>2, <2>3
<1>4. ASSUME NEW i \in 1 .. n, i - 1 \in T
      PROVE  i \in T
  <2> HIDE DEF n
  <2>1. /\ 1 .. i \in SUBSET (1 .. n) /\ 1 .. i # {} /\ Max(1 .. i) = i
        /\ (1 .. i) \ {Max(1 .. i)} = 1 .. i - 1
    BY <1>1, FoldSteps
  <2>2. g[1 .. i] = ReadLine(g[1 .. i - 1], lines[i])
    BY <1>1, <1>2, <2>1 DEF IniFold
  <2>3. i \in 0 .. n /\ g[1 .. i - 1] \in S
    BY <1>1, <1>4
  <2>4. ReadLine(g[1 .. i - 1], lines[i]) \in S
    BY <1>1, <2>3, ReadLineType
  <2> HIDE DEF S
  <2>5. QED
    BY <2>2, <2>3, <2>4
<1>5. \A i \in 0 .. n : i \in T
  <2> HIDE DEF T, n
  <2>1. QED
    BY <1>1, <1>3, <1>4, Rounds
<1> DEFINE c == FoldLeft(ReadLine, NoConfig, lines)
<1>6. c \in S
  <2>1. n \in 0 .. n
    BY <1>1
  <2> HIDE DEF S, n
  <2>2. QED
    BY <1>1, <1>2, <1>5, <2>1
<1>7. ReadIni(lines) = IF c.failed THEN c ELSE CommitSession(c)
  BY DEF ReadIni
<1> HIDE DEF c
<1>8. QED
  BY <1>6, <1>7, CommitSessionType

\* A list of records of sessions.
AreSessions(s) ==
  /\ Len(s) \in Nat
  /\ s = [i \in 1 .. Len(s) |-> s[i]]
  /\ \A i \in 1 .. Len(s) : s[i] = [f \in Fields |-> s[i][f]]

\* Every such list has a set of values.
LEMMA SessionValues ==
  ASSUME NEW s, AreSessions(s), NEW t, AreSessions(t)
  PROVE  \E U : TRUE \in SUBSET U /\ s \in Seq(SessionsOf(U)) /\ t \in Seq(SessionsOf(U))
<1> DEFINE Values(x) == UNION {{x[i][f] : f \in Fields} : i \in 1 .. Len(x)}
           V == {TRUE} \cup Values(s) \cup Values(t)
           U == UNION V
<1>1. /\ TRUE \in V
      /\ \A i \in 1 .. Len(s), f \in Fields : s[i][f] \in V
      /\ \A i \in 1 .. Len(t), f \in Fields : t[i][f] \in V
  <2>1. ASSUME NEW x, NEW i \in 1 .. Len(x), NEW f \in Fields
        PROVE  x[i][f] \in Values(x)
    <3>1. x[i][f] \in {x[i][e] : e \in Fields}
      OBVIOUS
    <3>2. QED
      BY <3>1
  <2> HIDE DEF Values
  <2>2. QED
    BY <2>1
<1> HIDE DEF V
<1>2. \A v \in V : v \in SUBSET U
  OBVIOUS
<1> HIDE DEF U
<1>3. ASSUME NEW x, AreSessions(x), \A i \in 1 .. Len(x), f \in Fields : x[i][f] \in V
      PROVE  x \in Seq(SessionsOf(U))
  <2>1. \A i \in 1 .. Len(x) : x[i] \in SessionsOf(U)
    BY <1>2, <1>3 DEF AreSessions, SessionsOf
  <2>2. QED
    BY <1>3, <2>1 DEF AreSessions
<1>4. s \in Seq(SessionsOf(U)) /\ t \in Seq(SessionsOf(U))
  BY <1>1, <1>3
<1>5. TRUE \in SUBSET U
  BY <1>1, <1>2
<1>6. QED
  BY <1>4, <1>5

\* A record of a session, and what stays one.
LEMMA RecordsAre ==
  /\ \A block : Described(block) = [f \in Fields |-> Described(block)[f]]
  /\ \A sc, dir : sc = [f \in Fields |-> sc[f]] =>
       attach_logs(sc, dir) = [f \in Fields |-> attach_logs(sc, dir)[f]]
<1>1. ASSUME NEW block
      PROVE  Described(block) = [f \in Fields |-> Described(block)[f]]
  <2> DEFINE r == Described(block)
  <2>1. r = [f \in DOMAIN r |-> r[f]]
    BY DEF Described
  <2>2. DOMAIN r = Fields
    BY DEF Described, Fields, NewSession
  <2>3. QED
    BY <2>1, <2>2
<1>2. ASSUME NEW sc, NEW dir, sc = [f \in Fields |-> sc[f]]
      PROVE  attach_logs(sc, dir) = [f \in Fields |-> attach_logs(sc, dir)[f]]
  <2> DEFINE r == attach_logs(sc, dir)
  <2>1. r = [[sc EXCEPT !["message_log_path"] = Log(dir, sc, "messages", "event")]
               EXCEPT !["event_log_path"] = Log(dir, sc, "event", "messages")]
    BY DEF attach_logs
  <2>2. DOMAIN sc = Fields
    BY <1>2
  <2>3. QED
    BY <1>2, <2>1, <2>2
<1>3. QED
  BY <1>1, <1>2

\* A sequence put together has the elements of its parts.
LEMMA FlatType ==
  ASSUME NEW S, NEW seqs \in Seq(Seq(S))
  PROVE  FlattenSeq(seqs) \in Seq(S)
<1>1. PICK h : FlatRun(S, seqs, h)
  BY FlatRuns
<1>2. FlattenSeq(seqs) = h[Len(seqs)] /\ Len(seqs) \in 0 .. Len(seqs)
  BY <1>1 DEF FlatRun
<1>3. QED
  BY <1>1, <1>2 DEF FlatRun

\* Sequences of records of sessions from a set are lists of them.
LEMMA SessionsFrom ==
  ASSUME NEW S, \A x \in S : x = [f \in Fields |-> x[f]], NEW s \in Seq(S)
  PROVE  AreSessions(s)
BY DEF AreSessions

\* The sessions an engine's file describes.
LEMMA FileSessions ==
  ASSUME NEW blocks, Len(blocks) \in Nat, NEW dir
  PROVE  AreSessions(sessions_from_quickfix(blocks, dir))
<1> DEFINE n == Len(blocks)
           D(i) == Described(blocks[i])
           S == {D(i) : i \in 1 .. n}
           Named(sc) == sc.sender_comp_id # "" /\ sc.target_comp_id # ""
           seqs == [i \in 1 .. n |-> IF Named(D(i)) THEN <<D(i)>> ELSE << >>]
           ss == FlattenSeq(seqs)
           R(sc) == IF sc.file_log_path = "" THEN sc ELSE attach_logs(sc, dir)
           got == [i \in 1 .. Len(ss) |-> R(ss[i])]
<1>1. sessions_from_quickfix(blocks, dir) = got
  BY Zenon DEF sessions_from_quickfix
<1>2. \A i \in 1 .. n : D(i) \in S
  OBVIOUS
<1>3. \A x \in S : x = [f \in Fields |-> x[f]]
  <2>1. SUFFICES ASSUME NEW i \in 1 .. n
                 PROVE  D(i) = [f \in Fields |-> D(i)[f]]
    OBVIOUS
  <2>2. QED
    BY RecordsAre
<1> HIDE DEF S, D, Named
<1>4. seqs \in Seq(Seq(S))
  <2>1. \A i \in 1 .. n : <<D(i)>> \in Seq(S) /\ << >> \in Seq(S)
    BY <1>2
  <2>2. \A i \in 1 .. n : (IF Named(D(i)) THEN <<D(i)>> ELSE << >>) \in Seq(S)
    BY <2>1
  <2>3. QED
    BY <2>2
<1> HIDE DEF seqs
<1>5. ss \in Seq(S) /\ Len(ss) \in Nat
  BY <1>4, FlatType
<1> HIDE DEF ss
<1>6. \A i \in 1 .. Len(ss) : R(ss[i]) = [f \in Fields |-> R(ss[i])[f]]
  <2>1. SUFFICES ASSUME NEW i \in 1 .. Len(ss)
                 PROVE  R(ss[i]) = [f \in Fields |-> R(ss[i])[f]]
    OBVIOUS
  <2> DEFINE x == ss[i]
  <2>2. x = [f \in Fields |-> x[f]]
    <3>1. x \in S
      BY <1>5
    <3>2. QED
      BY <1>3, <3>1
  <2>3. attach_logs(x, dir) = [f \in Fields |-> attach_logs(x, dir)[f]]
    BY <2>2, RecordsAre
  <2>4. R(x) = x \/ R(x) = attach_logs(x, dir)
    OBVIOUS
  <2> HIDE DEF x, R
  <2>5. R(x) = [f \in Fields |-> R(x)[f]]
    BY <2>2, <2>3, <2>4
  <2>6. QED
    BY <2>5 DEF x
<1> HIDE DEF R
<1>7. AreSessions(got)
  <2>1. Len(got) = Len(ss)
    BY <1>5
  <2>2. \A i \in 1 .. Len(ss) : got[i] = R(ss[i])
    OBVIOUS
  <2>3. QED
    BY <1>5, <1>6, <2>1, <2>2 DEF AreSessions
<1>8. QED
  BY <1>1, <1>7

\* The sessions the two files of the engine describe.
LEMMA EngineSessionsType ==
  ASSUME NEW K, NEW V, NEW a \in Seq(LinesOf(K, V)), NEW b \in Seq(LinesOf(K, V)), NEW dir
  PROVE  AreSessions(EngineSessions(<<a, b>>, dir))
<1> DEFINE of(lines) == sessions_from_quickfix(parse_quickfix_settings(lines), dir)
           x == of(a)
           y == of(b)
           S == {x[i] : i \in 1 .. Len(x)} \cup {y[i] : i \in 1 .. Len(y)}
<1>1. ASSUME NEW lines \in Seq(LinesOf(K, V))
      PROVE  Len(parse_quickfix_settings(lines)) \in Nat
  <2>1. PICK h : ParseRun(K, V, lines, h)
    BY ParseRuns
  <2>2. parse_quickfix_settings(lines) = Commit(h[Len(lines)]).sessions /\ h[Len(lines)] \in Parser(K, V)
    <3>1. Len(lines) \in 0 .. Len(lines)
      OBVIOUS
    <3>2. QED
      BY <2>1, <3>1 DEF ParseRun
  <2>3. Commit(h[Len(lines)]) \in Parser(K, V)
    BY <2>2, CommitFields
  <2>4. QED
    BY <2>2, <2>3 DEF Parser
<1>2. AreSessions(x) /\ AreSessions(y)
  BY <1>1, FileSessions
<1> HIDE DEF x, y
<1>3. EngineSessions(<<a, b>>, dir) = FlattenSeq(<<x, y>>)
  <2>1. [i \in 1 .. Len(<<a, b>>) |-> of(<<a, b>>[i])] = <<x, y>>
    <3> HIDE DEF of
    <3>1. QED
      BY DEF x, y
  <2>2. EngineSessions(<<a, b>>, dir) = FlattenSeq([i \in 1 .. Len(<<a, b>>) |-> of(<<a, b>>[i])])
    BY Zenon DEF EngineSessions
  <2>3. QED
    BY <2>1, <2>2
<1>4. /\ \A i \in 1 .. Len(x) : x[i] \in S
      /\ \A i \in 1 .. Len(y) : y[i] \in S
      /\ \A s \in S : s = [f \in Fields |-> s[f]]
  BY <1>2 DEF AreSessions
<1> HIDE DEF S
<1>5. x \in Seq(S) /\ y \in Seq(S)
  <2>1. ASSUME NEW s, Len(s) \in Nat, s = [i \in 1 .. Len(s) |-> s[i]],
               \A i \in 1 .. Len(s) : s[i] \in S
        PROVE  s \in Seq(S)
    BY <2>1
  <2>2. /\ Len(x) \in Nat /\ x = [i \in 1 .. Len(x) |-> x[i]]
        /\ Len(y) \in Nat /\ y = [i \in 1 .. Len(y) |-> y[i]]
    BY <1>2, Zenon DEF AreSessions
  <2>3. QED
    BY <1>4, <2>1, <2>2
<1>6. <<x, y>> \in Seq(Seq(S))
  BY <1>5
<1>7. QED
  BY <1>3, <1>4, <1>6, FlatType, SessionsFrom

\* The lines of the blocks of MCFunctions.
LineKeys ==
  {"DEFAULT", "SESSION", "session", "HeartBtInt", "Password", "FileLogPath", "SenderCompID",
   "TargetCompID", "ConnectionType", "ResetOnLogon", "SessionQualifier", "sender_comp_id",
   "target_comp_id", "heartbeat_interval", "message_log_path", "session_qualifier",
   "reset_on_logon"}

LineValues ==
  {"US", "B1", "B2", "20", "10", "15", "bad", "word", "log", "initiator", "Y", "N", "Q", "", OwnLog}

\* The texts of configuration files are made of such lines.
LEMMA TextsAre ==
  ASSUME input \in Seq(Blocks), NEW file
  PROVE  Text(file) \in Seq(LinesOf(LineKeys, LineValues))
<1> DEFINE L == LinesOf(LineKeys, LineValues)
<1>1. \A k \in LineKeys : Section(k) \in L
  BY DEF LinesOf
<1>2. \A k \in LineKeys, v \in LineValues : Setting(k, v) \in L
  BY DEF LinesOf
<1>3. Junk \in L
  BY DEF LinesOf
<1> HIDE DEF L
<1>4. /\ Section("DEFAULT") \in L /\ Section("SESSION") \in L /\ Section("session") \in L
      /\ \A t \in {"B1", "B2"} : Setting("TargetCompID", t) \in L /\ Setting("target_comp_id", t) \in L
      /\ Setting("SenderCompID", "US") \in L /\ Setting("sender_comp_id", "US") \in L
      /\ Setting("heartbeat_interval", "10") \in L /\ Setting("heartbeat_interval", "bad") \in L
      /\ Setting("message_log_path", OwnLog) \in L
      /\ Setting("session_qualifier", "Q") \in L /\ Setting("reset_on_logon", "N") \in L
      /\ Setting("HeartBtInt", "20") \in L /\ Setting("HeartBtInt", "15") \in L
      /\ Setting("Password", "word") \in L
      /\ Setting("FileLogPath", "log") \in L /\ Setting("FileLogPath", "") \in L
      /\ Setting("ConnectionType", "initiator") \in L /\ Setting("ResetOnLogon", "Y") \in L
      /\ Setting("SessionQualifier", "Q") \in L
  BY <1>1, <1>2 DEF LineKeys, LineValues
<1>5. /\ \A a \in L : <<a>> \in Seq(L)
      /\ \A a, b \in L : <<a, b>> \in Seq(L)
      /\ \A a, b, c \in L : <<a, b, c>> \in Seq(L)
      /\ \A a, b, c, d \in L : <<a, b, c, d>> \in Seq(L)
      /\ \A s, t \in Seq(L) : s \o t \in Seq(L)
  OBVIOUS
<1>6. \A t \in {"B1", "B2"} : Of(t) \in Seq(L) /\ OwnOf(t) \in Seq(L)
  BY <1>4, <1>5 DEF Of, OwnOf
<1>7. IniBlocks \subseteq Seq(L)
  <2> DEFINE s == <<Section("session")>> \o OwnOf("B1")
  <2>1. s \in Seq(L)
    BY <1>4, <1>5, <1>6
  <2> HIDE DEF s
  <2>2. s \o <<Setting("heartbeat_interval", "10"), Setting("message_log_path", OwnLog)>> \in Seq(L)
    BY <1>4, <1>5, <2>1
  <2>3. s \o <<Setting("session_qualifier", "Q"), Setting("reset_on_logon", "N")>> \in Seq(L)
    BY <1>4, <1>5, <2>1
  <2>4. <<Section("session"), Setting("target_comp_id", "B1")>> \in Seq(L) /\ <<Junk>> \in Seq(L)
    BY <1>3, <1>4, <1>5
  <2>5. s \o <<Setting("heartbeat_interval", "bad")>> \in Seq(L)
    BY <1>4, <1>5, <2>1
  <2>6. QED
    BY <2>1, <2>2, <2>3, <2>4, <2>5, Zenon DEF IniBlocks, s
<1>8. EngineBlocks \subseteq Seq(L)
  <2> DEFINE s == <<Section("SESSION")>> \o Of("B1")
             t == <<Section("SESSION")>> \o Of("B2")
  <2>1. s \in Seq(L)
    BY <1>4, <1>5, <1>6
  <2>2. t \in Seq(L)
    BY <1>4, <1>5, <1>6
  <2> HIDE DEF s, t
  <2>3. s \o <<Setting("ConnectionType", "initiator"), Setting("ResetOnLogon", "Y")>> \in Seq(L)
    BY <1>4, <1>5, <2>1
  <2>4. s \o <<Setting("SessionQualifier", "Q"), Setting("HeartBtInt", "15"), Setting("ResetOnLogon", "Y")>>
          \in Seq(L)
    BY <1>4, <1>5, <2>1
  <2>5. t \o <<Setting("FileLogPath", "")>> \in Seq(L)
    BY <1>4, <1>5, <2>2
  <2>6. <<Section("SESSION"), Setting("SenderCompID", "US")>> \in Seq(L)
    BY <1>4, <1>5
  <2>7. <<Section("DEFAULT"), Setting("HeartBtInt", "20"), Setting("Password", "word"),
          Setting("FileLogPath", "log")>> \in Seq(L)
    BY <1>4, <1>5
  <2>8. QED
    BY <2>1, <2>3, <2>4, <2>5, <2>6, <2>7, Zenon DEF EngineBlocks, s, t
<1>9. \A b \in Blocks : b[2] \in Seq(L)
  BY <1>7, <1>8 DEF Blocks
<1> DEFINE n == Len(input)
           parts == [i \in 1 .. n |-> IF input[i][1] = file THEN input[i][2] ELSE << >>]
<1>10. n \in Nat /\ \A i \in 1 .. n : input[i] \in Blocks
  OBVIOUS
<1>11. parts \in Seq(Seq(L))
  <2> HIDE DEF n
  <2>1. \A i \in 1 .. n : (IF input[i][1] = file THEN input[i][2] ELSE << >>) \in Seq(L)
    <3>1. << >> \in Seq(L)
      OBVIOUS
    <3>2. QED
      BY <1>9, <1>10, <3>1
  <2>2. QED
    BY <1>10, <2>1
<1> HIDE DEF parts, n
<1>12. FlattenSeq(parts) \in Seq(L)
  BY <1>11, FlatType
<1>13. QED
  BY <1>12 DEF Text, parts, n, L

\* Such files are read into lists of records of sessions.
LEMMA FilesAre ==
  ASSUME input \in Seq(Blocks)
  PROVE  /\ AreSessions(ReadIni(Text(0)).sessions) /\ ReadIni(Text(0)).failed \in BOOLEAN
         /\ AreSessions(EngineSessions(<<Text(1), Text(2)>>, LoadDir))
<1> DEFINE K == LineKeys
           V == LineValues
<1>1. \A f : Text(f) \in Seq(LinesOf(K, V))
  BY TextsAre
<1> HIDE DEF K, V
<1>2. ReadIni(Text(0)) \in IniState(V)
  BY <1>1, ReadIniType
<1> DEFINE c == ReadIni(Text(0))
<1>3. c.sessions \in Seq(IniSessions(V)) /\ c.failed \in BOOLEAN
  BY <1>2 DEF IniState
<1> HIDE DEF c
<1>4. \A x \in IniSessions(V) : x = [f \in Fields |-> x[f]]
  BY DEF IniSessions
<1>5. AreSessions(c.sessions)
  BY <1>3, <1>4, SessionsFrom
<1>6. AreSessions(EngineSessions(<<Text(1), Text(2)>>, LoadDir))
  BY <1>1, EngineSessionsType
<1>7. QED
  BY <1>3, <1>5, <1>6 DEF c

\* What the collector starts with is what the files must become, or an error.
LEMMA Loads ==
  ASSUME NEW own, AreSessions(own.sessions), own.failed \in BOOLEAN, NEW eng, AreSessions(eng)
  PROVE  LET got == load_config(own, eng)
         IN  IF own.failed \/ own.sessions \o eng = << >> THEN got.failed
             ELSE ~got.failed /\ Merges(own.sessions, eng, got.sessions)
<1> DEFINE os == own.sessions
           all == FoldLeft(Import, os, eng)
           got == load_config(own, eng)
<1>1. PICK U : TRUE \in SUBSET U /\ os \in Seq(SessionsOf(U)) /\ eng \in Seq(SessionsOf(U))
  BY SessionValues
<1>2. Merges(os, eng, all)
  BY <1>1, ImportMerges
<1>3. all \in Seq(SessionsOf(U))
  <2>1. PICK h : ImportRun(U, os, eng, h)
    BY <1>1, ImportRuns
  <2>2. Len(eng) \in 0 .. Len(eng)
    BY <1>1
  <2>3. QED
    BY <2>1, <2>2 DEF ImportRun
<1>4. got.failed = (own.failed \/ all = << >>) /\ got.sessions = all
  BY DEF load_config
<1>5. Len(all) = Len(os) + Cardinality(News(os, eng))
  BY <1>2, Zenon DEF Merges
<1> HIDE DEF all, got, os
<1>6. os \o eng = << >> => all = << >>
  <2>1. SUFFICES ASSUME os \o eng = << >>
                 PROVE  all = << >>
    OBVIOUS
  <2>2. Len(os) = 0 /\ Len(eng) = 0
    BY <1>1, <2>1
  <2>3. News(os, eng) = {}
    BY <2>2 DEF News
  <2>4. Cardinality(News(os, eng)) = 0
    BY <2>3, FS_EmptySet
  <2>5. QED
    BY <1>3, <1>5, <2>2, <2>4
<1>7. all = << >> => os \o eng = << >>
  <2>1. SUFFICES ASSUME all = << >>
                 PROVE  os \o eng = << >>
    OBVIOUS
  <2>2. /\ Len(os) \in Nat /\ Len(eng) \in Nat
        /\ News(os, eng) \in SUBSET (1 .. Len(eng))
    BY <1>1, NewsType
  <2>3. IsFiniteSet(News(os, eng)) /\ Cardinality(News(os, eng)) \in Nat
    <3>1. IsFiniteSet(1 .. Len(eng))
      <4>1. 1 \in Int /\ Len(eng) \in Int
        BY <2>2
      <4>2. QED
        BY <4>1, FS_Interval
    <3>2. QED
      BY <2>2, <3>1, FS_Subset, FS_CardinalityType
  <2>4. Len(os) = 0 /\ Cardinality(News(os, eng)) = 0
    <3>1. Len(all) = 0
      BY <2>1
    <3>2. QED
      BY <1>5, <2>2, <2>3, <3>1
  <2>5. News(os, eng) = {}
    BY <2>3, <2>4, FS_EmptySet
  <2>6. Len(eng) = 0
    <3>1. SUFFICES ASSUME Len(eng) # 0
                   PROVE  FALSE
      OBVIOUS
    <3>2. 1 \in 1 .. Len(eng) /\ 1 .. 1 - 1 = {}
      BY <2>2, <3>1
    <3>3. 1 .. Len(os) = {}
      BY <2>4
    <3>4. 1 \in News(os, eng)
      BY <1>1, <3>2, <3>3, NewsIs
    <3>5. QED
      BY <2>5, <3>4
  <2>7. os = << >> /\ eng = << >>
    BY <1>1, <2>4, <2>6
  <2>8. QED
    BY <2>7
<1>8. CASE own.failed \/ os \o eng = << >>
  BY <1>4, <1>6, <1>8 DEF got, os
<1>9. CASE ~own.failed /\ os \o eng # << >>
  <2>1. ~got.failed
    BY <1>4, <1>7, <1>9
  <2>2. Merges(os, eng, got.sessions)
    BY <1>2, <1>4
  <2>3. QED
    BY <1>9, <2>1, <2>2, Zenon DEF got, os
<1>10. QED
  BY <1>8, <1>9

-----------------------------------------------------------------------------
(* The invariants of MCFunctions *)

\* The inputs are those of the program at the start.
LEMMA InputInit == Init => InputOK
<1>1. 0 < Pow2[SizeBits] /\ 0 \in Nat
  <2>1. SizeBits \in Nat /\ SizeBits \in 0 .. SizeBits /\ Pow2[SizeBits] \in Nat
    BY FunctionsAssumption, Pow2Def
  <2>2. 1 <= Pow2[SizeBits]
    BY <2>1, Pow2Grows
  <2>3. QED
    BY <2>1, <2>2
<1>2. \A S : << >> \in Seq(S)
  OBVIOUS
<1>3. QED
  BY <1>1, <1>2 DEF Init, InputOK

\* An input with one element more is one of its kind.
LEMMA MoreInput ==
  ASSUME NEW set, NEW max, NEW S, set \subseteq S, input \in Seq(S), More(set, max)
  PROVE  input' \in Seq(S) /\ task' = task /\ number' = number
BY DEF More

\* No step spoils the inputs.
LEMMA InputStep == InputOK /\ [Next]_vars => InputOK'
<1> SUFFICES ASSUME InputOK, [Next]_vars
             PROVE  InputOK'
  OBVIOUS
<1>1. CASE UNCHANGED vars
  BY <1>1 DEF InputOK, vars
<1>2. CASE AskMore
  <2>1. Pow2[SizeBits] \in Nat
    BY FunctionsAssumption, Pow2Def
  <2>2. number' \in Nat /\ number' < Pow2[SizeBits] /\ task' = task /\ input' = input
    BY <1>2, <2>1 DEF AskMore, InputOK
  <2>3. QED
    BY <2>2, Zenon DEF InputOK
<1>3. ASSUME task' = task, number' = number,
             \/ task = "scrub" /\ input' \in Seq(Tokens)
             \/ task = "mask" /\ input' \in Seq(FieldGroups)
             \/ task = "parse" /\ input' \in Seq(EngineLines)
             \/ task = "load" /\ input' \in Seq(Blocks)
             \/ task = "logs" /\ input' \in Seq(LogFiles)
      PROVE  InputOK'
  BY <1>3 DEF InputOK
<1>4. CASE AddToken
  <2>1. task = "scrub" /\ More(Tokens, MaxTokens) /\ input \in Seq(Tokens)
    BY <1>4 DEF AddToken, InputOK
  <2>2. QED
    BY <1>3, <2>1, MoreInput
<1>5. CASE AddField
  <2>1. task = "mask" /\ More(FieldGroups, MaxFields) /\ input \in Seq(FieldGroups)
    BY <1>5 DEF AddField, InputOK
  <2>2. QED
    BY <1>3, <2>1, MoreInput
<1>6. CASE AddLine
  <2>1. task = "parse" /\ More(EngineLines, MaxLines) /\ input \in Seq(EngineLines)
    BY <1>6 DEF AddLine, InputOK
  <2>2. QED
    BY <1>3, <2>1, MoreInput
<1>7. CASE AddBlock
  <2> DEFINE Next1 == {b \in Blocks : \A i \in 1 .. Len(input) : input[i][1] <= b[1]}
  <2>1. task = "load" /\ More(Next1, MaxBlocks) /\ input \in Seq(Blocks) /\ Next1 \subseteq Blocks
    BY <1>7 DEF AddBlock, InputOK
  <2> HIDE DEF Next1
  <2>2. QED
    BY <1>3, <2>1, MoreInput
<1>8. CASE AddFile
  <2> DEFINE Other == LogFiles \ Range(input)
  <2>1. task = "logs" /\ More(Other, MaxFilesInDir) /\ input \in Seq(LogFiles) /\ Other \subseteq LogFiles
    BY <1>8 DEF AddFile, InputOK
  <2> HIDE DEF Other
  <2>2. QED
    BY <1>3, <2>1, MoreInput
<1>9. QED
  BY <1>1, <1>2, <1>4, <1>5, <1>6, <1>7, <1>8 DEF Next

\* The inputs of the algorithms are well formed in every state.
LEMMA InputAlwaysOK == Spec => []InputOK
BY InputInit, InputStep, PTL DEF Spec

\* The queue gets the least power of two that is at least 2 and what was asked
\* for, whatever was asked for and for every width of a size_t; past the largest
\* power next_pow2 does not end.
THEOREM CapacityIsRight == Spec => []CapacityIsPowerOfTwo
<1>1. InputOK => CapacityIsPowerOfTwo
  BY FunctionsAssumption, RoundsUpAll DEF InputOK, CapacityIsPowerOfTwo
<1>2. QED
  BY <1>1, InputAlwaysOK, PTL

\* Prose of any length loses what follows a credential noun and nothing else,
\* and scrubbing it twice is scrubbing it once.
THEOREM ProseIsScrubbed == Spec => []ScrubsWindow
<1>1. InputOK => ScrubsWindow
  BY ScrubsText DEF InputOK, ScrubsWindow
<1>2. QED
  BY <1>1, InputAlwaysOK, PTL

\* A session reads the most specific log of its own where the directory has one,
\* and where it has none the nearest log there is, that of another session or
\* not, whatever and however many files it lists.
THEOREM OwnLogsAreRead == Spec => []OwnLogsFound
<1>1. ASSUME InputOK, task = "logs"
      PROVE  FilesOfLogs(input)
  <2>1. input \in Seq(LogFiles)
    BY <1>1 DEF InputOK
  <2>2. ASSUME NEW f \in LogFiles
        PROVE  \E stem : \E kind \in {"messages", "event"}, suffix \in {".current.log", ".log"} :
                 f = LogFile(stem, kind, suffix)
    <3>1. CASE \E s \in Stems : f = LogFile(s, "event", ".current.log")
      <4>1. "event" \in {"messages", "event"} /\ ".current.log" \in {".current.log", ".log"}
        OBVIOUS
      <4>2. QED
        BY <3>1, <4>1, Zenon
    <3>2. CASE \E s \in Stems, x \in Range(LogSuffixes) : f = LogFile(s, "messages", x)
      <4>1. PICK s \in Stems, x \in Range(LogSuffixes) : f = LogFile(s, "messages", x)
        BY <3>2
      <4>2. x \in {".current.log", ".log"}
        <5>1. PICK i \in DOMAIN LogSuffixes : x = LogSuffixes[i]
          BY <4>1 DEF Range
        <5>2. DOMAIN LogSuffixes = {1, 2} /\ LogSuffixes[1] = ".current.log" /\ LogSuffixes[2] = ".log"
          BY DEF LogSuffixes
        <5>3. QED
          BY <5>1, <5>2
      <4>3. "messages" \in {"messages", "event"}
        OBVIOUS
      <4>4. QED
        BY <4>1, <4>2, <4>3, Zenon
    <3>3. QED
      BY <3>1, <3>2 DEF LogFiles
  <2>3. QED
    BY <2>1, <2>2 DEF FilesOfLogs
<1>2. ASSUME NEW sc \in LoggingSessions, NEW dir
      PROVE  /\ attach_logs(sc, dir).message_log_path = Log(dir, sc, "messages", "event")
             /\ attach_logs(sc, dir).event_log_path = Log(dir, sc, "event", "messages")
  BY DEF attach_logs, LoggingSessions, SessionOf, NewSession
<1>3. InputOK => OwnLogsFound
  <2> SUFFICES ASSUME InputOK, task = "logs", NEW sc \in LoggingSessions
               PROVE  /\ ReadsOwnLog(input, sc, "messages", attach_logs(sc, input).message_log_path)
                      /\ ReadsOwnLog(input, sc, "event", attach_logs(sc, input).event_log_path)
    BY DEF OwnLogsFound
  <2>1. FilesOfLogs(input)
    BY <1>1
  <2>2. QED
    BY <1>2, <2>1, LogIsRead
<1>4. QED
  BY <1>3, InputAlwaysOK, PTL

\* Every session block of an engine's file of any length inherits from the
\* defaults before it and keeps what it says itself.
THEOREM BlocksInheritAlways == Spec => []BlocksInherit
<1> DEFINE K == {"DEFAULT", "SESSION", "OTHER", "HeartBtInt", "ConnectionType", "Password", "Username"}
           V == {"20", "bad", "initiator", "word"}
<1>1. EngineLines \subseteq LinesOf(K, V)
  BY DEF EngineLines, LinesOf
<1> HIDE DEF K, V
<1>2. ASSUME InputOK, task = "parse"
      PROVE  Inherits(input)
  <2>1. input \in Seq(EngineLines)
    BY <1>2 DEF InputOK
  <2>2. input \in Seq(LinesOf(K, V))
    BY <1>1, <2>1
  <2>3. QED
    BY <2>2, BlocksOfFile
<1>3. InputOK => BlocksInherit
  BY <1>2 DEF BlocksInherit
<1>4. QED
  BY <1>3, InputAlwaysOK, PTL

\* A body of any length that is written field by field is masked field by
\* field, with data fields that hold separators and what looks like fields.
THEOREM BodiesAreMasked == Spec => []MasksByField
<1>1. AreChunks(Chunks)
  BY DEF AreChunks, Chunks
<1>2. ASSUME InputOK, task = "mask", NEW b \in BOOLEAN
      PROVE  Masks(FlattenSeq(input), b)
  <2> DEFINE fields == FlattenSeq(input)
  <2>1. input \in Seq(FieldGroups)
    BY <1>2 DEF InputOK
  <2>2. fields \in Seq(Seq(Chunks)) /\ Closed(fields)
    BY <2>1, BodiesClosed
  <2> HIDE DEF fields
  <2>3. Exact(fields) /\ \A i \in 1 .. Len(fields) : Len(fields[i]) >= 1
    BY <2>2 DEF Closed
  <2>4. Masks(fields, b)
    BY <1>1, <2>2, <2>3, MasksFields
  <2>5. QED
    BY <2>4 DEF fields
<1>3. InputOK => MasksByField
  BY <1>2 DEF MasksByField
<1>4. QED
  BY <1>3, InputAlwaysOK, PTL

\* The operator's file wins where it spoke and every session the engine's files
\* describe is imported once, however many blocks the files have; an error in
\* the operator's file, or no session at all, stops the collector.
THEOREM OperatorAlwaysWins == Spec => []OperatorWins
<1>1. ASSUME InputOK, task = "load", NEW own \in {ReadIni(Text(0))},
             NEW eng \in {EngineSessions(<<Text(1), Text(2)>>, LoadDir)}
      PROVE  LET got == load_config(own, eng)
             IN  IF own.failed \/ own.sessions \o eng = << >> THEN got.failed
                 ELSE ~got.failed /\ Merges(own.sessions, eng, got.sessions)
  <2>1. input \in Seq(Blocks)
    BY <1>1 DEF InputOK
  <2>2. AreSessions(own.sessions) /\ own.failed \in BOOLEAN /\ AreSessions(eng)
    BY <2>1, FilesAre
  <2>3. QED
    BY <2>2, Loads, Zenon
<1>2. InputOK => OperatorWins
  BY <1>1, Zenon DEF OperatorWins
<1>3. QED
  BY <1>2, InputAlwaysOK, PTL

=============================================================================
