-------------------------- MODULE TailReaderProofs --------------------------
(***************************************************************************)
(* Proofs about TailReader, for any number of files, lines and restarts.   *)
(*                                                                         *)
(* First what Ends finds and what Read cuts a file into; then every part   *)
(* of the invariant, kept step by step.                                    *)
(***************************************************************************)
EXTENDS TailReaderInv, SequenceTheorems, WellFoundedInduction, TLAPS

-----------------------------------------------------------------------------
(* Ends, and the lines it cuts a file into. *)

\* There is a least number in a set of numbers.
LEMMA Least ==
  ASSUME NEW T \in SUBSET Nat, T # {}
  PROVE  \E x \in T : \A y \in T : x <= y
<1> DEFINE R == {ss \in Nat \X Nat : ss[1] < ss[2]}
<1>1. IsWellFoundedOn(R, Nat)
  BY NatLessThanWellFounded, Zenon DEF OpToRel
<1> HIDE DEF R
<1>2. PICK x \in T : \A y \in T : ~(<<y, x>> \in R)
  BY <1>1, WFMin, Zenon
<1> USE DEF R
<1>3. \A y \in T : ~(y < x)
  BY <1>2
<1>4. QED
  BY <1>3

\* The function in Ends, up to n.
Upto(s, n, e) ==
  e = [k \in 0 .. n |->
        IF k = 0 THEN <<0>>
        ELSE IF s[k][2] = 2 THEN Append(e[k - 1], k) ELSE e[k - 1]]

\* It exists, as every value is given by the one before.
LEMMA UptoExists ==
  ASSUME NEW s, NEW n \in Nat
  PROVE  \E e : Upto(s, n, e)
<1> DEFINE T == {m \in Nat : ~ \E e : Upto(s, m, e)}
<1>1. SUFFICES T = {}
  BY <1>1
<1>2. SUFFICES ASSUME T # {}
               PROVE  FALSE
  BY <1>2
<1>3. PICK m \in T : \A y \in T : m <= y
  BY <1>2, Least
<1>4. CASE m = 0
  <2> DEFINE e == [k \in 0 .. 0 |-> <<0>>]
  <2>1. Upto(s, 0, e)
    BY DEF Upto
  <2>2. QED
    BY <1>3, <1>4, <2>1, Zenon
<1>5. CASE m # 0
  <2>1. m \in Nat /\ m - 1 \in Nat /\ m - 1 \notin T
    BY <1>3, <1>5
  <2>2. PICK e : Upto(s, m - 1, e)
    BY <2>1
  <2> DEFINE v(k) == IF k = 0 THEN <<0>>
                     ELSE IF s[k][2] = 2 THEN Append(e[k - 1], k) ELSE e[k - 1]
             d == [k \in 0 .. m |-> IF k = m THEN v(m) ELSE e[k]]
  <2>3. \A k \in 0 .. m - 1 : e[k] = v(k)
    BY <2>2, Zenon DEF Upto
  <2>4. \A k \in 0 .. m - 1 : d[k] = e[k]
    BY <2>1
  <2>5. ASSUME NEW k \in 0 .. m
        PROVE  d[k] = IF k = 0 THEN <<0>>
                      ELSE IF s[k][2] = 2 THEN Append(d[k - 1], k) ELSE d[k - 1]
    <3>1. k # 0 => d[k - 1] = e[k - 1]
      BY <2>1, <2>4
    <3>2. d[k] = v(k)
      <4>1. CASE k = m
        BY <4>1, Zenon
      <4>2. CASE k # m
        <5>1. k \in 0 .. m - 1
          BY <2>1, <4>2
        <5>2. QED
          BY <2>3, <2>4, <5>1, Zenon
      <4>3. QED
        BY <4>1, <4>2
    <3>3. QED
      BY <3>1, <3>2, Zenon
  <2>6. d = [k \in 0 .. m |-> d[k]]
    BY Zenon
  <2>7. Upto(s, m, d)
    BY <2>5, <2>6, Zenon DEF Upto
  <2>8. QED
    BY <1>3, <2>7, Zenon
<1>6. QED
  BY <1>4, <1>5

\* The newlines up to n, in order after a 0.
Good(s, n, t) ==
  /\ t \in Seq(0 .. n) /\ Len(t) \in Nat /\ Len(t) >= 1 /\ t[1] = 0
  /\ \A j, k \in 1 .. Len(t) : j < k => t[j] < t[k]
  /\ \A j \in 2 .. Len(t) : t[j] \in 1 .. n /\ s[t[j]][2] = 2
  /\ \A k \in 1 .. n : s[k][2] = 2 => \E j \in 2 .. Len(t) : t[j] = k

\* One position more.
LEMMA GoodStep ==
  ASSUME NEW s, NEW n \in Nat, NEW t, Good(s, n, t), NEW d,
         d = IF s[n + 1][2] = 2 THEN Append(t, n + 1) ELSE t
  PROVE  Good(s, n + 1, d)
<1>1. t \in Seq(0 .. n + 1) /\ n + 1 \in 0 .. n + 1
  <2>1. 0 .. n \subseteq 0 .. n + 1
    OBVIOUS
  <2>2. QED
    BY <2>1, SeqMonotonic DEF Good
<1>2. /\ Len(t) \in Nat /\ Len(t) >= 1 /\ t[1] = 0
      /\ \A j \in 1 .. Len(t) : t[j] \in 0 .. n
      /\ \A j, k \in 1 .. Len(t) : j < k => t[j] < t[k]
      /\ \A j \in 2 .. Len(t) : t[j] \in 1 .. n /\ s[t[j]][2] = 2
      /\ \A k \in 1 .. n : s[k][2] = 2 => \E j \in 2 .. Len(t) : t[j] = k
  <2>1. \A j \in 1 .. Len(t) : t[j] \in 0 .. n
    BY ElementOfSeq DEF Good
  <2>2. QED
    BY <2>1 DEF Good
<1>3. CASE s[n + 1][2] # 2
  <2>1. d = t
    BY <1>3
  <2>2. \A k \in 1 .. n + 1 : s[k][2] = 2 => k \in 1 .. n
    BY <1>3
  <2>3. QED
    BY <1>1, <1>2, <2>1, <2>2 DEF Good
<1>4. CASE s[n + 1][2] = 2
  <2>1. /\ d \in Seq(0 .. n + 1) /\ Len(d) = Len(t) + 1
        /\ \A j \in 1 .. Len(t) : d[j] = t[j]
        /\ d[Len(t) + 1] = n + 1
    BY <1>1, <1>4, AppendProperties
  <2>2. ASSUME NEW j \in 1 .. Len(d), NEW k \in 1 .. Len(d), j < k
        PROVE  d[j] < d[k]
    <3>1. j \in 1 .. Len(t)
      BY <1>2, <2>1, <2>2
    <3>2. d[j] = t[j] /\ t[j] \in 0 .. n
      BY <1>2, <2>1, <3>1
    <3>3. CASE k = Len(t) + 1
      BY <2>1, <3>2, <3>3
    <3>4. CASE k # Len(t) + 1
      BY <1>2, <2>1, <2>2, <3>1, <3>2, <3>4
    <3>5. QED
      BY <3>3, <3>4
  <2>3. ASSUME NEW j \in 2 .. Len(d)
        PROVE  d[j] \in 1 .. n + 1 /\ s[d[j]][2] = 2
    <3>1. CASE j = Len(t) + 1
      BY <1>4, <2>1, <3>1
    <3>2. CASE j # Len(t) + 1
      <4>1. j \in 2 .. Len(t) /\ j \in 1 .. Len(t)
        BY <1>2, <2>1, <3>2
      <4>2. QED
        BY <1>2, <2>1, <4>1
    <3>3. QED
      BY <3>1, <3>2
  <2>4. ASSUME NEW k \in 1 .. n + 1, s[k][2] = 2
        PROVE  \E j \in 2 .. Len(d) : d[j] = k
    <3>1. CASE k = n + 1
      <4>1. Len(d) \in 2 .. Len(d) /\ d[Len(d)] = k
        BY <1>2, <2>1, <3>1
      <4>2. QED
        BY <4>1
    <3>2. CASE k # n + 1
      <4>1. PICK j \in 2 .. Len(t) : t[j] = k
        BY <1>2, <2>4, <3>2
      <4>2. j \in 2 .. Len(d) /\ j \in 1 .. Len(t)
        BY <1>2, <2>1
      <4>3. d[j] = k
        BY <2>1, <4>1, <4>2
      <4>4. QED
        BY <4>2, <4>3
    <3>3. QED
      BY <3>1, <3>2
  <2>5. d[1] = 0 /\ Len(d) \in Nat /\ Len(d) >= 1
    BY <1>2, <2>1
  <2>6. QED
    BY <2>1, <2>2, <2>3, <2>4, <2>5, Zenon DEF Good
<1>5. QED
  BY <1>3, <1>4

\* What Ends returns.
LEMMA EndsFacts ==
  ASSUME NEW s, Len(s) \in Nat
  PROVE  Good(s, Len(s), Ends(s))
<1> DEFINE u == CHOOSE e : Upto(s, Len(s), e)
<1>1. Upto(s, Len(s), u)
  BY UptoExists, Zenon
<1>2. Ends(s) = u[Len(s)]
  BY Zenon DEF Ends, Upto
<1> HIDE DEF u
<1>3. \A k \in 0 .. Len(s) :
        u[k] = IF k = 0 THEN <<0>>
               ELSE IF s[k][2] = 2 THEN Append(u[k - 1], k) ELSE u[k - 1]
  BY <1>1, Zenon DEF Upto
<1> DEFINE T == {m \in 0 .. Len(s) : ~Good(s, m, u[m])}
<1>4. ASSUME T # {}
      PROVE  FALSE
  <2>1. T \in SUBSET Nat
    OBVIOUS
  <2>2. PICK m \in T : \A y \in T : m <= y
    BY <1>4, <2>1, Least
  <2>3. CASE m = 0
    <3>1. u[0] = <<0>>
      BY <1>3
    <3>2. Good(s, 0, <<0>>)
      BY DEF Good
    <3>3. QED
      BY <2>2, <2>3, <3>1, <3>2
  <2>4. CASE m # 0
    <3> DEFINE n == m - 1
    <3>1. n \in Nat /\ m = n + 1 /\ m \in 0 .. Len(s) /\ n \in 0 .. Len(s)
      BY <2>4
    <3>2. n \notin T
      BY <2>2, <3>1
    <3>3. Good(s, n, u[n])
      BY <3>1, <3>2
    <3>4. u[m] = IF s[n + 1][2] = 2 THEN Append(u[n], n + 1) ELSE u[n]
      BY <1>3, <2>4, <3>1
    <3> HIDE DEF n
    <3>5. Good(s, n + 1, u[m])
      BY <3>1, <3>3, <3>4, GoodStep
    <3>6. QED
      BY <2>2, <3>1, <3>5
  <2>5. QED
    BY <2>3, <2>4
<1>5. Good(s, Len(s), u[Len(s)])
  BY <1>4
<1>6. QED
  BY <1>2, <1>5

\* The lines Read takes from g.
Cuts(g) ==
  [k \in 1 .. Len(Ends(g)) - 1 |-> SubSeq(g, Ends(g)[k] + 1, Ends(g)[k + 1])]
Left(g) == SubSeq(g, Ends(g)[Len(Ends(g))] + 1, Len(g))

\* They are sequences of pieces, whatever the file has become.
LEMMA CutTypes ==
  ASSUME NEW g \in Seq(Pieces)
  PROVE  Cuts(g) \in Seq(Seq(Pieces)) /\ Left(g) \in Seq(Pieces)
<1> DEFINE e == Ends(g)
<1>1. /\ Len(g) \in Nat /\ \A i \in 1 .. Len(g) : g[i] \in Pieces
  BY LenProperties
<1>2. /\ Len(e) \in Nat /\ Len(e) >= 1
      /\ \A j \in 1 .. Len(e) : e[j] \in 0 .. Len(g)
  BY <1>1, EndsFacts, ElementOfSeq DEF Good
<1> HIDE DEF e
<1>3. ASSUME NEW k \in 1 .. Len(e) - 1
      PROVE  SubSeq(g, e[k] + 1, e[k + 1]) \in Seq(Pieces)
  <2>1. e[k] \in 0 .. Len(g) /\ e[k + 1] \in 0 .. Len(g)
    BY <1>2
  <2>2. \A i \in e[k] + 1 .. e[k + 1] : g[i] \in Pieces
    BY <1>1, <2>1
  <2>3. e[k] + 1 \in Int /\ e[k + 1] \in Int
    BY <2>1
  <2>4. QED
    BY <2>2, <2>3, SubSeqProperties
<1>4. [k \in 1 .. Len(e) - 1 |-> SubSeq(g, e[k] + 1, e[k + 1])] \in Seq(Seq(Pieces))
  <2>1. Len(e) - 1 \in Nat
    BY <1>2
  <2>2. QED
    BY <1>3, <2>1, SeqDef
<1>5. SubSeq(g, e[Len(e)] + 1, Len(g)) \in Seq(Pieces)
  <2>1. e[Len(e)] \in 0 .. Len(g)
    BY <1>2
  <2>2. \A i \in e[Len(e)] + 1 .. Len(g) : g[i] \in Pieces
    BY <1>1, <2>1
  <2>3. e[Len(e)] + 1 \in Int /\ Len(g) \in Int
    BY <1>1, <2>1
  <2>4. QED
    BY <2>2, <2>3, SubSeqProperties
<1>6. QED
  BY <1>4, <1>5 DEF e, Cuts, Left

\* The number and the kind of a piece.
LEMMA PieceType ==
  ASSUME NEW p \in Pieces
  PROVE  /\ p[1] \in 1 .. MaxLines /\ p[1] \in Nat /\ p[2] \in {1, 2}
         /\ p = <<p[1], p[2]>>
BY TailAssumption DEF Pieces

\* A part of a sequence.
LEMMA Part ==
  ASSUME NEW s, NEW a \in Nat, NEW b \in Nat, a <= b,
         \A i \in a + 1 .. b : s[i] \in Pieces
  PROVE  /\ SubSeq(s, a + 1, b) \in Seq(Pieces)
         /\ Len(SubSeq(s, a + 1, b)) = b - a
         /\ \A i \in 1 .. b - a : SubSeq(s, a + 1, b)[i] = s[a + i]
<1>1. /\ SubSeq(s, a + 1, b) \in Seq(Pieces)
      /\ Len(SubSeq(s, a + 1, b)) = IF a + 1 <= b THEN b - (a + 1) + 1 ELSE 0
      /\ \A i \in 1 .. b - (a + 1) + 1 : SubSeq(s, a + 1, b)[i] = s[a + 1 + i - 1]
  BY SubSeqProperties
<1>2. b - (a + 1) + 1 = b - a /\ \A i \in 1 .. b - a : a + 1 + i - 1 = a + i
  OBVIOUS
<1>3. (IF a + 1 <= b THEN b - (a + 1) + 1 ELSE 0) = b - a
  OBVIOUS
<1>4. \A i \in 1 .. b - a : SubSeq(s, a + 1, b)[i] = s[a + i]
  BY <1>1, <1>2
<1>5. QED
  BY <1>1, <1>3, <1>4

\* Of two neighbours one is odd.
LEMMA Parity ==
  ASSUME NEW n \in Int
  PROVE  /\ n % 2 = 0 \/ n % 2 = 1
         /\ n % 2 = 0 <=> (n + 1) % 2 = 1
         /\ n % 2 = 1 <=> (n + 1) % 2 = 0
         /\ n % 2 = 0 <=> (n - 1) % 2 = 1
         /\ n % 2 = 1 <=> (n - 1) % 2 = 0
OBVIOUS

\* What Read cuts g into, the part of f after position o: whole lines, the rest
\* of one only at the beginning, and a first piece at most.
CutFrom(f, o, g) ==
  /\ Cuts(g) \in Seq(Seq(Pieces))
  /\ \A k \in 1 .. Len(Cuts(g)) :
       \E n \in o + 1 .. Len(f) :
         /\ f[n][2] = 2
         /\ Number(Cuts(g)[k]) = f[n][1]
         /\ Whole(Cuts(g)[k]) \/ (n = o + 1 /\ Cuts(g)[k] = <<f[n]>>)
  /\ \A j, k \in 1 .. Len(Cuts(g)) :
       j < k => Number(Cuts(g)[j]) < Number(Cuts(g)[k])
  /\ Left(g) = IF Len(f) % 2 = 1 /\ o < Len(f) THEN <<f[Len(f)]>> ELSE << >>

LEMMA LinesOf ==
  ASSUME NEW f \in Seq(Pieces), Clean(f), NEW o \in 0 .. Len(f),
         NEW g, g = SubSeq(f, o + 1, Len(f))
  PROVE  CutFrom(f, o, g)
<1> DEFINE e == Ends(g)
           L == Len(g)
<1>1. /\ Len(f) \in Nat /\ \A i \in 1 .. Len(f) : f[i] \in Pieces
      /\ o \in Nat /\ o <= Len(f)
  BY LenProperties
<1>2. /\ g \in Seq(Pieces) /\ L = Len(f) - o
      /\ \A i \in 1 .. L : g[i] = f[o + i]
  <2>1. \A i \in o + 1 .. Len(f) : f[i] \in Pieces
    BY <1>1
  <2>2. QED
    BY <1>1, <2>1, Part
<1>3. L \in Nat /\ Good(g, L, e)
  <2>1. Len(g) \in Nat
    BY <1>2, LenProperties
  <2>2. QED
    BY <2>1, EndsFacts
<1>4. /\ Len(e) \in Nat /\ Len(e) >= 1 /\ e[1] = 0
      /\ \A j \in 1 .. Len(e) : e[j] \in 0 .. L
  BY <1>3, ElementOfSeq DEF Good
<1>4a. \A j, k \in 1 .. Len(e) : j < k => e[j] < e[k]
  BY <1>3, Zenon DEF Good
<1>4b. \A j \in 2 .. Len(e) : e[j] \in 1 .. L /\ g[e[j]][2] = 2
  BY <1>3, Zenon DEF Good
<1>4c. \A k \in 1 .. L : g[k][2] = 2 => \E j \in 2 .. Len(e) : e[j] = k
  BY <1>3, Zenon DEF Good
<1> HIDE DEF e, L
<1>5. \A i \in 1 .. L : /\ o + i \in 1 .. Len(f) /\ g[i] = f[o + i] /\ g[i] \in Pieces
                        /\ g[i][2] = 1 <=> (o + i) % 2 = 1
                        /\ g[i][2] = 2 <=> (o + i) % 2 = 0
                        /\ g[i][2] # 2 <=> (o + i) % 2 = 1
  <2> TAKE i \in 1 .. L
  <2>1. o + i \in 1 .. Len(f)
    BY <1>1, <1>2, <1>3
  <2>2. f[o + i] \in Pieces /\ (f[o + i][2] = 1 <=> (o + i) % 2 = 1)
    BY <1>1, <2>1 DEF Clean
  <2>3. f[o + i][2] \in {1, 2}
    BY <2>2, PieceType
  <2>4. (o + i) % 2 = 1 \/ (o + i) % 2 = 0
    BY <2>1
  <2>5. QED
    BY <1>2, <2>1, <2>2, <2>3, <2>4
<1>5a. \A i \in 1 .. L : g[i] \in Pieces
  BY <1>5, Zenon
<1>5b. \A i \in 1 .. L : g[i] = f[o + i]
  BY <1>5, Zenon
\* There is no newline between two neighbouring ends, nor after the last.
<1>6. ASSUME NEW k \in 1 .. Len(e), NEW i \in 1 .. L, e[k] < i,
             k < Len(e) => i < e[k + 1]
      PROVE  (o + i) % 2 = 1
  <2>1. SUFFICES ASSUME g[i][2] = 2
                 PROVE  FALSE
    BY <1>5, <2>1
  <2>2. PICK j \in 2 .. Len(e) : e[j] = i
    BY <1>4c, <2>1
  <2>3. k < j
    <3>1. CASE j < k
      <4>1. e[j] < e[k]
        BY <1>4, <1>4a, <3>1
      <4>2. e[k] \in Nat /\ e[j] \in Nat
        BY <1>3, <1>4
      <4>3. QED
        BY <1>6, <2>2, <4>1, <4>2
    <3>2. CASE j = k
      BY <1>3, <1>4, <1>6, <2>2, <3>2
    <3>3. QED
      BY <1>4, <3>1, <3>2
  <2>4. k + 1 \in 1 .. Len(e) /\ e[k + 1] \in Nat /\ e[j] \in Nat
    BY <1>3, <1>4, <2>3
  <2>5. e[k + 1] <= e[j]
    <3>1. CASE j = k + 1
      BY <2>4, <3>1
    <3>2. CASE k + 1 < j
      <4>1. e[k + 1] < e[j]
        BY <1>4a, <2>4, <3>2
      <4>2. QED
        BY <2>4, <4>1
    <3>3. QED
      BY <1>4, <2>3, <3>1, <3>2
  <2>6. QED
    BY <1>6, <2>2, <2>3, <2>4, <2>5
<1>7. Cuts(g) \in Seq(Seq(Pieces)) /\ Len(Cuts(g)) = Len(e) - 1
  <2>1. Len(Cuts(g)) = Len(e) - 1
    BY <1>4 DEF Cuts, e
  <2>2. QED
    BY <1>2, <2>1, CutTypes
<1>8. ASSUME NEW k \in 1 .. Len(Cuts(g))
      PROVE  LET l == Cuts(g)[k]
                 n == o + e[k + 1] IN
             /\ k \in 1 .. Len(e) /\ k + 1 \in 2 .. Len(e)
             /\ n \in o + 1 .. Len(f) /\ f[n][2] = 2
             /\ Number(l) = f[n][1]
             /\ Whole(l) \/ (n = o + 1 /\ l = <<f[n]>>)
  <2> DEFINE l == Cuts(g)[k]
             a == e[k]
             b == e[k + 1]
             n == o + b
  <2>1. k \in 1 .. Len(e) /\ k + 1 \in 2 .. Len(e) /\ k + 1 \in 1 .. Len(e) /\ k \in Nat
    BY <1>4, <1>7
  <2>2. a \in 0 .. L /\ b \in 1 .. L /\ a < b /\ g[b][2] = 2
    <3>1. a \in 0 .. L
      BY <1>4, <2>1, Zenon
    <3>2. b \in 1 .. L /\ g[b][2] = 2
      BY <1>4b, <2>1, Zenon
    <3>3. k < k + 1
      BY <2>1
    <3>4. a < b
      BY <1>4a, <2>1, <3>3, Zenon
    <3>5. QED
      BY <3>1, <3>2, <3>4
  <2>3. l = SubSeq(g, a + 1, b)
    BY <1>7, <2>1 DEF Cuts, e
  <2>10. k # 1 => k \in 2 .. Len(e) /\ a \in 1 .. L /\ g[a][2] = 2
    <3>1. k # 1 => k \in 2 .. Len(e)
      BY <1>4, <2>1
    <3>2. QED
      BY <1>4b, <3>1
  <2>11. k = 1 => a = 0
    BY <1>4
  <2>12. n = o + b
    OBVIOUS
  <2>13. \A i \in 1 .. L : a < i /\ i < b => (o + i) % 2 = 1
    BY <1>6, <2>1
  <2> HIDE DEF l, a, b, n
  <2>4. /\ l \in Seq(Pieces) /\ Len(l) = b - a
        /\ \A i \in 1 .. b - a : l[i] = g[a + i]
    <3>1. a \in Nat /\ b \in Nat /\ a <= b /\ \A i \in a + 1 .. b : i \in 1 .. L
      BY <1>3, <2>2
    <3>2. \A i \in a + 1 .. b : g[i] \in Pieces
      BY <1>5a, <3>1, Zenon
    <3>3. QED
      BY <2>3, <3>1, <3>2, Part
  <2>5. n \in o + 1 .. Len(f) /\ g[b] = f[n] /\ f[n] \in Pieces /\ n % 2 = 0 /\ n \in Nat
    <3>1. n \in o + 1 .. Len(f) /\ n \in Nat
      BY <1>1, <1>2, <1>3, <2>2, <2>12
    <3>2. g[b] = f[n] /\ f[n] \in Pieces /\ n % 2 = 0
      BY <1>5, <2>2, <2>12
    <3>3. QED
      BY <3>1, <3>2
  \* Two pieces at most.
  <2>6. b - a <= 2
    <3>1. SUFFICES ASSUME b - a > 2
                   PROVE  FALSE
      BY <1>3, <2>2, <3>1
    <3>2. /\ a + 1 \in 1 .. L /\ a < a + 1 /\ a + 1 < b
          /\ a + 2 \in 1 .. L /\ a < a + 2 /\ a + 2 < b
      BY <1>3, <2>2, <3>1
    <3>3. (o + (a + 1)) % 2 = 1 /\ (o + (a + 2)) % 2 = 1
      BY <2>13, <3>2
    <3>4. o + (a + 2) = (o + (a + 1)) + 1 /\ o + (a + 1) \in Nat
      BY <1>1, <1>3, <2>2
    <3>5. QED
      BY <3>3, <3>4
  <2>7. CASE b - a = 2
    <3>1. l[2] = f[n] /\ l[1] = f[n - 1] /\ Len(l) = 2
      <4>1. a + 2 = b /\ a + 1 = b - 1 /\ a + 1 \in 1 .. L /\ o + (a + 1) = n - 1
        BY <1>1, <1>3, <2>2, <2>7, <2>12
      <4>2. 1 \in 1 .. b - a /\ 2 \in 1 .. b - a
        BY <2>7
      <4>3. l[1] = g[a + 1] /\ l[2] = g[a + 2] /\ Len(l) = 2
        BY <2>4, <2>7, <4>2
      <4>4. g[a + 1] = f[o + (a + 1)]
        BY <1>5b, <4>1
      <4>5. QED
        BY <2>5, <4>1, <4>3, <4>4
    <3>2. n - 1 \in 1 .. Len(f) /\ n \in 1 .. Len(f)
      BY <1>1, <1>3, <2>2, <2>5, <2>7, <2>12
    <3>6. (n - 1) % 2 = 1
      BY <2>5, Parity
    <3>3. f[n - 1][2] = 1 /\ f[n][1] = f[n - 1][1] /\ f[n][2] = 2
      BY <1>1, <2>2, <2>5, <3>2, <3>6 DEF Clean
    <3>4. Whole(l)
      BY <2>5, <3>1, <3>3, PieceType DEF Whole
    <3>5. QED
      BY <2>1, <2>5, <3>1, <3>3, <3>4 DEF Number, l, n, b
  <2>8. CASE b - a = 1
    <3>1. a = 0
      <4>1. SUFFICES ASSUME a # 0
                     PROVE  FALSE
        BY <4>1
      <4>2. a \in 1 .. L /\ g[a][2] = 2
        BY <2>10, <2>11, <4>1
      <4>3. (o + a) % 2 = 0
        BY <1>5, <4>2
      <4>4. o + a = n - 1
        BY <1>1, <1>3, <2>2, <2>8, <2>12
      <4>5. QED
        BY <2>5, <4>3, <4>4, Parity
    <3>2. b = 1 /\ n = o + 1 /\ Len(l) = 1 /\ l[1] = f[n]
      <4>1. b = 1
        BY <1>3, <2>2, <2>8, <3>1
      <4>2. 1 \in 1 .. b - a /\ a + 1 = b
        BY <2>8, <3>1, <4>1
      <4>3. l[1] = g[b]
        BY <2>4, <4>2
      <4>4. QED
        BY <2>4, <2>5, <2>8, <2>12, <4>1, <4>3
    <3>3. l = <<f[n]>>
      <4>1. <<f[n]>> \in Seq(Pieces) /\ Len(<<f[n]>>) = 1 /\ <<f[n]>>[1] = f[n]
        BY <2>5
      <4>2. \A i \in 1 .. Len(l) : l[i] = <<f[n]>>[i]
        BY <3>2, <4>1
      <4>3. QED
        BY <2>4, <3>2, <4>1, <4>2, SeqEqual
    <3>4. QED
      BY <2>1, <2>2, <2>5, <3>2, <3>3 DEF Number, l, n, b
  <2>9. QED
    BY <1>3, <2>2, <2>6, <2>7, <2>8
<1>9. ASSUME NEW j \in 1 .. Len(Cuts(g)), NEW k \in 1 .. Len(Cuts(g)), j < k
      PROVE  Number(Cuts(g)[j]) < Number(Cuts(g)[k])
  <2> DEFINE m == o + e[j + 1]
             n == o + e[k + 1]
  <2>1. /\ j + 1 \in 2 .. Len(e) /\ m \in o + 1 .. Len(f) /\ f[m][2] = 2
        /\ Number(Cuts(g)[j]) = f[m][1]
    BY <1>8
  <2>2. /\ k + 1 \in 2 .. Len(e) /\ n \in o + 1 .. Len(f) /\ f[n][2] = 2
        /\ Number(Cuts(g)[k]) = f[n][1]
    BY <1>8
  <2>3. e[j + 1] < e[k + 1] /\ e[j + 1] \in Nat /\ e[k + 1] \in Nat
    <3>1. j + 1 \in 1 .. Len(e) /\ k + 1 \in 1 .. Len(e)
      BY <1>4, <2>1, <2>2
    <3>2. j + 1 < k + 1
      <4>1. j \in Int /\ k \in Int
        OBVIOUS
      <4>2. QED
        BY <1>9, <4>1
    <3>3. e[j + 1] < e[k + 1]
      BY <1>4a, <3>1, <3>2, Zenon
    <3>4. e[j + 1] \in 0 .. L /\ e[k + 1] \in 0 .. L
      BY <1>4, <3>1, Zenon
    <3>5. QED
      BY <1>3, <3>3, <3>4
  <2>4. m < n
    BY <1>1, <2>3
  <2> HIDE DEF m, n
  <2>5. m \in 1 .. n - 1 /\ n \in 1 .. Len(f) /\ m \in 1 .. Len(f)
    BY <1>1, <2>1, <2>2, <2>4
  <2>6. Pos(f[m]) < Pos(f[n])
    BY <2>5 DEF Clean
  <2>7. f[m][1] < f[n][1]
    <3>1. f[m][1] \in Nat /\ f[n][1] \in Nat
      BY <1>1, <2>5, PieceType
    <3>2. 2 * f[m][1] + 2 - 2 < 2 * f[n][1] + 2 - 2
      BY <2>1, <2>2, <2>6 DEF Pos
    <3>3. QED
      BY <3>1, <3>2
  <2>8. QED
    BY <2>1, <2>2, <2>7
<1>10. Left(g) = IF Len(f) % 2 = 1 /\ o < Len(f) THEN <<f[Len(f)]>> ELSE << >>
  <2> DEFINE z == e[Len(e)]
             r == Left(g)
  <2>1. z \in 0 .. L /\ Len(e) \in 1 .. Len(e)
    BY <1>4
  <2>2. r = SubSeq(g, z + 1, L)
    BY DEF Left, e, L
  <2>8. z # 0 => g[z][2] = 2
    <3>1. z # 0 => Len(e) \in 2 .. Len(e)
      BY <1>4
    <3>2. QED
      BY <1>4b, <3>1
  <2>9. \A i \in 1 .. L : z < i => (o + i) % 2 = 1
    BY <1>4, <1>6, <2>1
  <2> HIDE DEF r, z
  <2>3. /\ r \in Seq(Pieces) /\ Len(r) = L - z
        /\ \A i \in 1 .. L - z : r[i] = g[z + i]
    <3>1. z \in Nat /\ z <= L /\ \A i \in z + 1 .. L : i \in 1 .. L
      BY <1>3, <2>1
    <3>2. \A i \in z + 1 .. L : g[i] \in Pieces
      BY <1>5a, <3>1, Zenon
    <3>3. QED
      BY <1>3, <2>2, <3>1, <3>2, Part
  <2>4. L - z <= 1
    <3>1. SUFFICES ASSUME L - z > 1
                   PROVE  FALSE
      BY <1>3, <2>1, <3>1
    <3>2. z + 1 \in 1 .. L /\ z < z + 1 /\ z + 2 \in 1 .. L /\ z < z + 2
      BY <1>3, <2>1, <3>1
    <3>3. (o + (z + 1)) % 2 = 1 /\ (o + (z + 2)) % 2 = 1
      BY <2>9, <3>2
    <3>4. o + (z + 2) = (o + (z + 1)) + 1 /\ o + (z + 1) \in Nat
      BY <1>1, <1>3, <2>1
    <3>5. QED
      BY <3>3, <3>4
  <2>5. CASE L - z = 1
    <3>1. L \in 1 .. L /\ z < L /\ L = z + 1 /\ o < Len(f) /\ o + L = Len(f)
      BY <1>1, <1>2, <1>3, <2>1, <2>5
    <3>2. (o + L) % 2 = 1
      BY <2>9, <3>1
    <3>3. Len(r) = 1 /\ r[1] = f[Len(f)]
      <4>1. 1 \in 1 .. L - z
        BY <2>5
      <4>2. r[1] = g[L] /\ g[L] = f[o + L]
        BY <1>5b, <2>3, <3>1, <4>1
      <4>3. QED
        BY <2>3, <2>5, <3>1, <4>2
    <3>4. f[Len(f)] \in Pieces
      BY <1>1, <3>1
    <3>5. r = <<f[Len(f)]>>
      <4>1. <<f[Len(f)]>> \in Seq(Pieces) /\ Len(<<f[Len(f)]>>) = 1 /\ <<f[Len(f)]>>[1] = f[Len(f)]
        BY <3>4
      <4>2. \A i \in 1 .. Len(r) : r[i] = <<f[Len(f)]>>[i]
        BY <3>3, <4>1
      <4>3. QED
        BY <2>3, <3>3, <4>1, <4>2, SeqEqual
    <3>6. QED
      BY <3>1, <3>2, <3>5 DEF r
  <2>6. CASE L - z = 0
    <3>1. r = << >>
      BY <2>3, <2>6, EmptySeq
    <3>2. ~(Len(f) % 2 = 1 /\ o < Len(f))
      <4>1. SUFFICES ASSUME Len(f) % 2 = 1, o < Len(f)
                     PROVE  FALSE
        BY <4>1
      <4>2. L = z /\ L >= 1 /\ o + L = Len(f) /\ L \in 1 .. L
        BY <1>1, <1>2, <1>3, <2>1, <2>6, <4>1
      <4>3. g[L][2] = 2 /\ (o + L) % 2 = 0
        BY <1>5, <2>8, <4>2
      <4>4. QED
        BY <4>1, <4>2, <4>3
    <3>3. QED
      BY <3>1, <3>2 DEF r
  <2>7. QED
    BY <1>3, <2>1, <2>4, <2>5, <2>6
<1>11. \A k \in 1 .. Len(Cuts(g)) :
         \E n \in o + 1 .. Len(f) :
           /\ f[n][2] = 2
           /\ Number(Cuts(g)[k]) = f[n][1]
           /\ Whole(Cuts(g)[k]) \/ (n = o + 1 /\ Cuts(g)[k] = <<f[n]>>)
  BY <1>8, Zenon
<1>12. QED
  BY <1>7, <1>9, <1>10, <1>11, Zenon DEF CutFrom

-----------------------------------------------------------------------------
(* What the steps are made of. *)

\* A file is a sequence of pieces.
LEMMA FileTypes ==
  ASSUME TypeOK, NEW i \in Inodes
  PROVE  /\ content[i] \in Seq(Pieces) /\ Len(content[i]) \in Nat
         /\ \A k \in 1 .. Len(content[i]) : content[i][k] \in Pieces
<1>1. content[i] \in Seq(Pieces)
  BY DEF TypeOK
<1>2. QED
  BY <1>1, LenProperties

\* The pieces have the numbers 1, 2, ... and begin and end a line in turn.
LEMMA PieceFacts ==
  ASSUME NEW k \in 1 .. 2 * MaxLines
  PROVE  /\ Piece(k) \in Pieces /\ Pos(Piece(k)) = k
         /\ Piece(k)[2] = 1 <=> k % 2 = 1
<1>1. MaxLines \in Nat
  BY TailAssumption
<1>2. CASE k % 2 = 1
  <2>1. Piece(k) = <<(k + 1) \div 2, 1>>
    BY <1>2 DEF Piece
  <2>2. (k + 1) \div 2 \in 1 .. MaxLines /\ 2 * ((k + 1) \div 2) = k + 1
    BY <1>1, <1>2
  <2>3. QED
    BY <1>2, <2>1, <2>2 DEF Pos, Pieces
<1>3. CASE k % 2 = 0
  <2>1. Piece(k) = <<(k + 1) \div 2, 2>>
    BY <1>3 DEF Piece
  <2>2. (k + 1) \div 2 \in 1 .. MaxLines /\ 2 * ((k + 1) \div 2) = k
    BY <1>1, <1>3
  <2>3. QED
    BY <1>3, <2>1, <2>2 DEF Pos, Pieces
<1>4. QED
  BY <1>2, <1>3, Parity

\* A piece goes to the end of the newest file.
LEMMA Appended ==
  ASSUME TypeOK, PathInv, AppendPiece
  PROVE  /\ path \in Inodes /\ path = born /\ written + 1 \in 1 .. 2 * MaxLines
         /\ content' \in [Inodes -> Seq(Pieces)]
         /\ \A i \in Inodes : i # path => content'[i] = content[i]
         /\ Len(content'[path]) = Len(content[path]) + 1
         /\ \A k \in 1 .. Len(content[path]) : content'[path][k] = content[path][k]
         /\ content'[path][Len(content[path]) + 1] = Piece(written + 1)
<1>1. path \in Inodes /\ path = born
  BY TailAssumption DEF AppendPiece, TypeOK, PathInv, Inodes
<1>2. written + 1 \in 1 .. 2 * MaxLines
  BY TailAssumption DEF AppendPiece, TypeOK
<1>3. Piece(written + 1) \in Pieces
  BY <1>2, PieceFacts
<1>4. content'[path] = Append(content[path], Piece(written + 1))
  BY <1>1 DEF AppendPiece, TypeOK
<1>5. /\ content'[path] \in Seq(Pieces)
      /\ Len(content'[path]) = Len(content[path]) + 1
      /\ \A k \in 1 .. Len(content[path]) : content'[path][k] = content[path][k]
      /\ content'[path][Len(content[path]) + 1] = Piece(written + 1)
  BY <1>1, <1>3, <1>4, FileTypes, AppendProperties
<1>6. /\ \A i \in Inodes : i # path => content'[i] = content[i]
      /\ content' = [i \in Inodes |-> content'[i]]
  BY <1>1 DEF AppendPiece, TypeOK
<1>7. \A i \in Inodes : content'[i] \in Seq(Pieces)
  BY <1>5, <1>6, FileTypes
<1>8. content' \in [Inodes -> Seq(Pieces)]
  BY <1>6, <1>7, Zenon
<1>9. QED
  BY <1>1, <1>2, <1>5, <1>6, <1>8

\* What the stream has beyond its position.
LEMMA UnreadFacts ==
  ASSUME TypeOK
  PROVE  /\ Unread \in Seq(Pieces)
         /\ fd = 0 => Len(Unread) = 0
         /\ fd # 0 => Len(Unread) = IF offset <= Len(content[fd])
                                    THEN Len(content[fd]) - offset ELSE 0
<1>1. CASE fd = 0
  BY <1>1, EmptySeq DEF Unread
<1>2. CASE fd # 0
  <2> DEFINE f == content[fd]
  <2>1. /\ fd \in Inodes /\ offset \in Nat /\ Len(f) \in Nat
        /\ \A k \in 1 .. Len(f) : f[k] \in Pieces
    BY <1>2, FileTypes, TailAssumption DEF TypeOK, Inodes
  <2>2. Unread = SubSeq(f, offset + 1, Len(f))
    BY <1>2 DEF Unread
  <2> HIDE DEF f
  <2>3. CASE offset <= Len(f)
    <3>1. \A k \in offset + 1 .. Len(f) : f[k] \in Pieces
      BY <2>1
    <3>2. Unread \in Seq(Pieces) /\ Len(Unread) = Len(f) - offset
      BY <2>1, <2>2, <2>3, <3>1, Part
    <3>3. QED
      BY <1>2, <2>3, <3>2 DEF f
  <2>4. CASE ~(offset <= Len(f))
    <3>1. Unread = << >>
      <4>1. offset + 1 \in Int /\ Len(f) \in Int /\ Len(f) < offset + 1
        BY <2>1, <2>4
      <4>2. QED
        BY <2>2, <4>1, SubSeqEmpty
    <3>2. QED
      BY <1>2, <2>4, <3>1, EmptySeq DEF f
  <2>5. QED
    BY <2>3, <2>4
<1>3. QED
  BY <1>1, <1>2

\* Reading hands out what Cuts finds and keeps the rest.
LEMMA ReadStep ==
  ASSUME TypeOK, Read
  PROVE  /\ carry \o Unread \in Seq(Pieces)
         /\ offset' = offset + Len(Unread)
         /\ delivered' = delivered \o Cuts(carry \o Unread)
         /\ carry' = Left(carry \o Unread)
<1>1. carry \o Unread \in Seq(Pieces)
  BY UnreadFacts, ConcatProperties DEF TypeOK
<1>2. QED
  BY <1>1, Zenon DEF Read, Cuts, Left

\* Opening skips to the end of the file or starts at its beginning.
LEMMA OpenedAt ==
  ASSUME TypeOK, PathInv, OpenId
  PROVE  /\ fd \in Inodes /\ offset' \in Nat
         /\ offset' = IF seek THEN Len(content[fd]) ELSE 0
         /\ offset' <= Len(content[fd]) /\ Len(content[fd]) <= written
         /\ seek /\ offset' % 2 = 1 =>
              /\ offset' \in 1 .. Len(content[fd])
              /\ cut' = cut \cup {content[fd][offset'][1]}
         /\ ~(seek /\ offset' % 2 = 1) => cut' = cut
         /\ cut \subseteq cut'
<1>1. fd \in Inodes
  BY TailAssumption DEF OpenId, TypeOK, PathInv, IdPc, Inodes
<1>2. offset = 0
  BY DEF OpenId, PathInv, IdPc
<1>3. Len(content[fd]) \in Nat /\ Len(content[fd]) <= written
  BY <1>1, FileTypes DEF PathInv
<1>4. offset' = IF seek THEN Len(content[fd]) ELSE 0
  BY <1>2 DEF OpenId
<1>5. ASSUME seek, offset' % 2 = 1
      PROVE  offset' \in 1 .. Len(content[fd])
  <2>1. offset' = Len(content[fd])
    BY <1>4, <1>5
  <2>2. offset' # 0
    BY <1>5
  <2>3. QED
    BY <1>3, <2>1, <2>2
<1>6. /\ seek /\ offset' % 2 = 1 => cut' = cut \cup {content[fd][offset'][1]}
      /\ ~(seek /\ offset' % 2 = 1) => cut' = cut
  BY Zenon DEF OpenId
<1>7. offset' \in Nat /\ offset' <= Len(content[fd])
  BY <1>3, <1>4
<1>8. cut \subseteq cut'
  BY <1>6
<1>9. QED
  BY <1>1, <1>3, <1>4, <1>5, <1>6, <1>7, <1>8, Zenon

-----------------------------------------------------------------------------
(* Types, and where the path leads. *)

LEMMA TypeKept ==
  ASSUME TypeOK, PathInv, [Next]_vars
  PROVE  TypeOK'
<1>0. MaxFiles \in Nat \ {0} /\ MaxLines \in Nat /\ MaxRestarts \in Nat
  BY TailAssumption
<1>1. CASE AppendPiece
  <2>1. content' \in [Inodes -> Seq(Pieces)] /\ written' \in 0 .. 2 * MaxLines
    <3>1. written + 1 \in 1 .. 2 * MaxLines /\ written' = written + 1
      BY <1>1, Appended DEF AppendPiece
    <3>2. QED
      BY <1>0, <1>1, <3>1, Appended
  <2>2. QED
    BY <1>1, <2>1, Zenon DEF AppendPiece, EngineActs, streamVars, startVars, TypeOK
<1>2. CASE Create
  <2>1. born' \in 0 .. MaxFiles /\ path' \in 0 .. MaxFiles
    BY <1>0, <1>2 DEF Create, TypeOK
  <2>2. QED
    BY <1>2, <2>1, Zenon DEF Create, EngineActs, streamVars, startVars, TypeOK
<1>3. CASE Remove
  <2>1. path' \in 0 .. MaxFiles
    BY <1>0, <1>3 DEF Remove
  <2>2. QED
    BY <1>3, <2>1, Zenon DEF Remove, EngineActs, streamVars, startVars, TypeOK
<1>4. CASE Truncate
  <2>1. content' \in [Inodes -> Seq(Pieces)]
    <3>1. << >> \in Seq(Pieces)
      BY EmptySeq
    <3>2. QED
      BY <1>4, <3>1, Zenon DEF Truncate, TypeOK
  <2>2. QED
    BY <1>4, <2>1, Zenon DEF Truncate, EngineActs, streamVars, startVars, TypeOK
<1>5. CASE OpenStream
  <2>1. /\ fd' \in 0 .. MaxFiles /\ offset' \in 0 .. 2 * MaxLines /\ pc' \in Pc
    BY <1>0, <1>5 DEF OpenStream, AfterNoOpen, Pc, TypeOK
  <2>2. QED
    BY <1>5, <2>1, Zenon DEF OpenStream, fileVars, startVars, TypeOK
<1>6. CASE OpenId
  <2>1. offset' \in 0 .. 2 * MaxLines
    BY <1>0, <1>6, OpenedAt DEF TypeOK
  <2>2. cut' \subseteq 1 .. MaxLines
    <3>1. CASE seek /\ offset' % 2 = 1
      <4>1. content[fd][offset'] \in Pieces
        BY <1>6, <3>1, OpenedAt, FileTypes
      <4>2. QED
        BY <1>6, <3>1, <4>1, OpenedAt, PieceType DEF TypeOK
    <3>2. CASE ~(seek /\ offset' % 2 = 1)
      BY <1>6, <3>2, OpenedAt DEF TypeOK
    <3>3. QED
      BY <3>1, <3>2
  <2>3. pc' \in Pc /\ skipped' = offset' /\ inode' = path
    BY <1>6 DEF OpenId, Pc
  <2>4. QED
    BY <1>6, <2>1, <2>2, <2>3, Zenon DEF OpenId, fileVars, startVars, TypeOK
<1>7. CASE OpenSize
  <2>1. last_size' \in 0 .. 2 * MaxLines
    <3>1. CASE path = 0
      BY <1>0, <1>7, <3>1 DEF OpenSize, SizeOf
    <3>2. CASE path # 0
      <4>1. path \in Inodes
        BY <1>0, <3>2 DEF TypeOK, Inodes
      <4>2. Len(content[path]) \in Nat /\ Len(content[path]) <= written
        BY <4>1, FileTypes DEF PathInv
      <4>3. QED
        BY <1>0, <1>7, <3>2, <4>2 DEF OpenSize, SizeOf, TypeOK
    <3>3. QED
      BY <3>1, <3>2
  <2>2. carry' \in Seq(Pieces) /\ pc' \in Pc
    BY <1>7, EmptySeq DEF OpenSize, AfterOpen, Pc
  <2>3. QED
    BY <1>7, <2>1, <2>2, Zenon DEF OpenSize, fileVars, startVars, TypeOK
<1>8. CASE PollBegin
  <2>1. pc' \in Pc /\ seek' \in BOOLEAN
    BY <1>8 DEF PollBegin, Pc, TypeOK
  <2>2. QED
    BY <1>8, <2>1, Zenon DEF PollBegin, fileVars, streamVars, startVars, TypeOK
<1>9. CASE Exists
  <2>1. pc' \in Pc
    BY <1>9 DEF Exists, Pc
  <2>2. QED
    BY <1>9, <2>1, Zenon DEF Exists, fileVars, streamVars, startVars, TypeOK
<1>10. CASE GetId
  <2>1. pc' \in Pc
    BY <1>10 DEF GetId, Pc
  <2>2. QED
    BY <1>10, <2>1, Zenon DEF GetId, fileVars, streamVars, startVars, TypeOK
<1>11. CASE GetSize
  <2>1. last_size' \in 0 .. 2 * MaxLines /\ pc' \in Pc /\ seek' \in BOOLEAN
    <3>1. SizeOf(path) \in 0 .. 2 * MaxLines
      <4>1. CASE path = 0
        BY <1>0, <4>1 DEF SizeOf
      <4>2. CASE path # 0
        <5>1. path \in Inodes
          BY <1>0, <4>2 DEF TypeOK, Inodes
        <5>2. Len(content[path]) \in Nat /\ Len(content[path]) <= written
          BY <5>1, FileTypes DEF PathInv
        <5>3. QED
          BY <1>0, <4>2, <5>2 DEF SizeOf, TypeOK
      <4>3. QED
        BY <4>1, <4>2
    <3>2. QED
      BY <1>11, <3>1, Zenon DEF GetSize, Pc, TypeOK
  <2>2. QED
    BY <1>11, <2>1, Zenon DEF GetSize, fileVars, startVars, TypeOK
<1>12. CASE Read
  <2>1. offset' \in 0 .. 2 * MaxLines
    <3>1. offset \in Nat /\ offset <= 2 * MaxLines /\ 2 * MaxLines \in Nat
      BY <1>0 DEF TypeOK
    <3>2. CASE fd = 0
      BY <1>12, <3>1, <3>2, ReadStep, UnreadFacts
    <3>3. CASE fd # 0
      <4>1. fd \in Inodes
        BY <1>0, <3>3 DEF TypeOK, Inodes
      <4>2. Len(content[fd]) \in Nat /\ Len(content[fd]) <= written /\ written <= 2 * MaxLines
            /\ written \in Nat
        BY <1>0, <4>1, FileTypes DEF PathInv, TypeOK
      <4>3. Len(Unread) = IF offset <= Len(content[fd]) THEN Len(content[fd]) - offset ELSE 0
        BY <3>3, UnreadFacts
      <4>4. QED
        BY <1>12, <3>1, <4>2, <4>3, ReadStep
    <3>4. QED
      BY <3>2, <3>3
  <2>2. carry' \in Seq(Pieces)
    BY <1>12, ReadStep, CutTypes
  <2>3. delivered' \in Seq(Seq(Pieces))
    <3>1. Cuts(carry \o Unread) \in Seq(Seq(Pieces)) /\ delivered \in Seq(Seq(Pieces))
      BY <1>12, ReadStep, CutTypes DEF TypeOK
    <3>2. delivered' = delivered \o Cuts(carry \o Unread)
      BY <1>12, ReadStep
    <3>3. QED
      BY <3>1, <3>2, ConcatProperties
  <2>4. pc' \in Pc
    BY <1>12 DEF Read, Pc
  <2>5. QED
    BY <1>12, <2>1, <2>2, <2>3, <2>4, Zenon DEF Read, fileVars, startVars, TypeOK
<1>13. CASE Restart
  <2>1. /\ fd' \in 0 .. MaxFiles /\ offset' \in 0 .. 2 * MaxLines /\ carry' \in Seq(Pieces)
        /\ inode' \in 0 .. MaxFiles /\ last_size' \in 0 .. 2 * MaxLines
        /\ pc' \in Pc /\ seek' \in BOOLEAN /\ cur_id' \in 0 .. MaxFiles
        /\ skipped' \in 0 .. 2 * MaxLines /\ restarts' \in 0 .. MaxRestarts
    BY <1>0, <1>13, EmptySeq DEF Restart, Pc, TypeOK
  <2>2. delivered' \in Seq(Seq(Pieces))
    BY <1>13, EmptySeq DEF Restart, TypeOK
  <2>3. QED
    BY <1>13, <2>1, <2>2, Zenon DEF Restart, fileVars, TypeOK
<1>14. CASE UNCHANGED vars
  BY <1>14, Zenon DEF vars, fileVars, streamVars, startVars, TypeOK
<1>15. QED
  BY <1>1, <1>2, <1>3, <1>4, <1>5, <1>6, <1>7, <1>8, <1>9, <1>10, <1>11, <1>12, <1>13, <1>14,
     Zenon DEF Next, EngineStep, ReaderStep

\* The parts of PathInv that only the reader's steps touch.
OpenInv ==
  /\ pc \in IdPc \cup SizePc \cup {"exists", "get_id", "get_size", "rot_open"} => fd # 0
  /\ pc \in {"new_open", "poll_open"} => fd = 0 /\ seek = ~from_beginning
  /\ pc = "rot_open" => ~seek
  /\ pc \in IdPc => offset = 0

LEMMA PathKept ==
  ASSUME TypeOK, PathInv, [Next]_vars
  PROVE  PathInv'
<1>0. MaxFiles \in Nat \ {0} /\ MaxLines \in Nat
  BY TailAssumption
<1> USE <1>0
<1>1. ASSUME (path \in {0, born} /\ fd <= born)',
             (\A i \in Inodes : Len(content[i]) <= written /\ (i > born => content[i] = << >>))',
             (offset <= written /\ last_size <= written)',
             OpenInv'
      PROVE  PathInv'
  BY <1>1, Zenon DEF PathInv, OpenInv
<1>2. OpenInv
  BY Zenon DEF PathInv, OpenInv
<1>3. /\ born \in Nat /\ fd \in Nat /\ written \in Nat
      /\ offset \in Nat /\ last_size \in Nat
      /\ path \in {0, born} /\ fd <= born /\ offset <= written /\ last_size <= written
  BY DEF TypeOK, PathInv
<1>4. \A i \in Inodes : /\ Len(content[i]) \in Nat
                        /\ Len(content[i]) <= written /\ (i > born => content[i] = << >>)
  BY FileTypes DEF PathInv
<1>5. SizeOf(path) \in Nat /\ SizeOf(path) <= written
  <2>1. CASE path = 0
    BY <1>3, <2>1 DEF SizeOf
  <2>2. CASE path # 0
    <3>1. path \in Inodes
      BY <2>2 DEF TypeOK, Inodes
    <3>2. QED
      BY <1>4, <2>2, <3>1 DEF SizeOf
  <2>3. QED
    BY <2>1, <2>2
<1>6. ASSUME UNCHANGED <<streamVars, pc, seek, from_beginning>>
      PROVE  OpenInv'
  BY <1>2, <1>6, Zenon DEF OpenInv, streamVars, IdPc, SizePc
<1>7. CASE AppendPiece
  <2>1. /\ written' = written + 1
        /\ UNCHANGED <<path, born, streamVars, pc, seek, from_beginning>>
    BY <1>7 DEF AppendPiece, EngineActs, startVars
  <2>2. ASSUME NEW i \in Inodes
        PROVE  Len(content'[i]) <= written' /\ (i > born' => content'[i] = << >>)
    <3>1. CASE i = path
      BY <1>3, <1>4, <1>7, <2>1, <3>1, Appended
    <3>2. CASE i # path
      BY <1>3, <1>4, <1>7, <2>1, <3>2, Appended
    <3>3. QED
      BY <3>1, <3>2
  <2>3. QED
    BY <1>1, <1>3, <1>6, <2>1, <2>2 DEF streamVars
<1>8. CASE Create
  <2>1. /\ born' = born + 1 /\ path' = born'
        /\ UNCHANGED <<content, written, streamVars, pc, seek, from_beginning>>
    BY <1>8 DEF Create, EngineActs, startVars
  <2>2. \A i \in Inodes : Len(content'[i]) <= written' /\ (i > born' => content'[i] = << >>)
    BY <1>3, <1>4, <2>1 DEF Inodes
  <2>3. QED
    BY <1>1, <1>3, <1>6, <2>1, <2>2 DEF streamVars
<1>9. CASE Remove
  <2>1. path' = 0 /\ UNCHANGED <<content, born, written, streamVars, pc, seek, from_beginning>>
    BY <1>9 DEF Remove, EngineActs, startVars
  <2>2. QED
    BY <1>1, <1>3, <1>4, <1>6, <2>1 DEF streamVars
<1>10. CASE Truncate
  <2>1. /\ content' = [content EXCEPT ![path] = << >>]
        /\ UNCHANGED <<path, born, written, streamVars, pc, seek, from_beginning>>
    BY <1>10 DEF Truncate, EngineActs, startVars
  <2>2. \A i \in Inodes : content'[i] = content[i] \/ content'[i] = << >>
    BY <2>1 DEF TypeOK
  <2>3. \A i \in Inodes : Len(content'[i]) <= written' /\ (i > born' => content'[i] = << >>)
    BY <1>3, <1>4, <2>1, <2>2, EmptySeq
  <2>4. QED
    BY <1>1, <1>3, <1>6, <2>1, <2>3 DEF streamVars
<1>11. ASSUME UNCHANGED fileVars,
              fd' \in {0, path, fd}, offset' \in Nat, offset' <= written,
              last_size' \in Nat, last_size' <= written, OpenInv'
       PROVE  PathInv'
  <2>1. (path \in {0, born} /\ fd <= born)'
    BY <1>3, <1>11 DEF fileVars
  <2>2. (\A i \in Inodes : Len(content[i]) <= written /\ (i > born => content[i] = << >>))'
    BY <1>4, <1>11, Zenon DEF fileVars
  <2>3. (offset <= written /\ last_size <= written)'
    BY <1>11 DEF fileVars
  <2>4. QED
    BY <1>11, <2>1, <2>2, <2>3, Zenon DEF PathInv, OpenInv
<1>12. CASE OpenStream
  <2>1. /\ fd' = path /\ offset' \in {0, offset} /\ UNCHANGED <<fileVars, last_size>>
    BY <1>12 DEF OpenStream
  <2>2. OpenInv'
    <3>1. CASE path = 0
      BY <1>12, <3>1 DEF OpenStream, AfterNoOpen, OpenInv, IdPc, SizePc
    <3>2. CASE path # 0
      BY <1>12, <3>2 DEF OpenStream, OpenInv, IdPc, SizePc
    <3>3. QED
      BY <3>1, <3>2
  <2>3. QED
    BY <1>3, <1>11, <2>1, <2>2
<1>13. CASE OpenId
  <2>1. UNCHANGED <<fileVars, fd, last_size>> /\ fd # 0
    BY <1>2, <1>13 DEF OpenId, OpenInv, IdPc
  <2>2. OpenInv'
    BY <1>13, <2>1 DEF OpenId, OpenInv, IdPc, SizePc
  <2>3. offset' \in Nat /\ offset' <= written
    <3>1. /\ fd \in Inodes /\ offset' \in Nat
          /\ offset' <= Len(content[fd]) /\ Len(content[fd]) <= written
      BY <1>13, OpenedAt
    <3>2. QED
      BY <1>3, <1>4, <3>1
  <2>4. QED
    BY <1>3, <1>11, <2>1, <2>2, <2>3
<1>14. CASE OpenSize
  <2>1. UNCHANGED <<fileVars, fd, offset>> /\ fd # 0 /\ last_size' = SizeOf(path)
    BY <1>2, <1>14 DEF OpenSize, OpenInv, SizePc
  <2>2. OpenInv'
    BY <1>14, <2>1 DEF OpenSize, OpenInv, AfterOpen, IdPc, SizePc
  <2>3. QED
    BY <1>3, <1>5, <1>11, <2>1, <2>2
<1>15. CASE PollBegin
  <2>1. UNCHANGED <<fileVars, streamVars>>
    BY <1>15 DEF PollBegin
  <2>2. OpenInv'
    BY <1>15 DEF PollBegin, streamVars, startVars, OpenInv, IdPc, SizePc
  <2>3. QED
    BY <1>3, <1>11, <2>1, <2>2 DEF streamVars
<1>16. CASE Exists
  <2>1. UNCHANGED <<fileVars, streamVars>> /\ fd # 0
    BY <1>2, <1>16 DEF Exists, OpenInv
  <2>2. OpenInv'
    BY <1>16, <2>1 DEF Exists, streamVars, OpenInv, IdPc, SizePc
  <2>3. QED
    BY <1>3, <1>11, <2>1, <2>2 DEF streamVars
<1>17. CASE GetId
  <2>1. UNCHANGED <<fileVars, streamVars>> /\ fd # 0
    BY <1>2, <1>17 DEF GetId, OpenInv
  <2>2. OpenInv'
    BY <1>17, <2>1 DEF GetId, streamVars, OpenInv, IdPc, SizePc
  <2>3. QED
    BY <1>3, <1>11, <2>1, <2>2 DEF streamVars
<1>18. CASE GetSize
  <2>1. UNCHANGED <<fileVars, fd, offset>> /\ fd # 0 /\ last_size' \in {last_size, SizeOf(path)}
    BY <1>2, <1>18 DEF GetSize, OpenInv
  <2>2. OpenInv'
    BY <1>18, <2>1 DEF GetSize, OpenInv, IdPc, SizePc
  <2>3. QED
    BY <1>3, <1>5, <1>11, <2>1, <2>2
<1>19. CASE Read
  <2>1. UNCHANGED <<fileVars, fd, last_size>>
    BY <1>19 DEF Read
  <2>2. OpenInv'
    BY <1>19 DEF Read, OpenInv, IdPc, SizePc
  <2>3. offset' \in Nat /\ offset' <= written
    <3>1. CASE fd = 0
      BY <1>3, <1>19, <3>1, ReadStep, UnreadFacts
    <3>2. CASE fd # 0
      <4>1. fd \in Inodes
        BY <3>2 DEF TypeOK, Inodes
      <4>2. Len(Unread) = IF offset <= Len(content[fd]) THEN Len(content[fd]) - offset ELSE 0
        BY <3>2, UnreadFacts
      <4>3. offset' = offset + Len(Unread)
        BY <1>19, ReadStep
      <4>4. QED
        BY <1>3, <1>4, <4>1, <4>2, <4>3
    <3>3. QED
      BY <3>1, <3>2
  <2>4. QED
    BY <1>3, <1>11, <2>1, <2>2, <2>3
<1>20. CASE Restart
  <2>1. /\ UNCHANGED fileVars /\ fd' = 0 /\ offset' = 0 /\ last_size' = 0
    BY <1>20 DEF Restart
  <2>2. OpenInv'
    BY <1>20 DEF Restart, OpenInv, IdPc, SizePc
  <2>3. QED
    BY <1>3, <1>11, <2>1, <2>2
<1>21. CASE UNCHANGED vars
  <2>1. UNCHANGED <<fileVars, streamVars, pc, seek, from_beginning>>
    BY <1>21, Zenon DEF vars, startVars
  <2>2. QED
    BY <1>3, <1>6, <1>11, <2>1 DEF streamVars
<1>22. QED
  BY <1>7, <1>8, <1>9, <1>10, <1>12, <1>13, <1>14, <1>15, <1>16, <1>17, <1>18, <1>19, <1>20, <1>21,
     Zenon DEF Next, EngineStep, ReaderStep

-----------------------------------------------------------------------------
(* What is in the files. *)

\* Only the engine touches them.
LEMMA ReaderLeavesFiles ==
  ASSUME ReaderStep \/ Restart \/ UNCHANGED vars
  PROVE  UNCHANGED <<fileVars, truncated>>
BY Zenon DEF ReaderStep, OpenStream, OpenId, OpenSize, PollBegin, Exists, GetId, GetSize, Read,
     Restart, vars

\* The number of a piece that has one.
LEMMA PosType ==
  ASSUME NEW p \in Pieces
  PROVE  /\ Pos(p) \in Nat /\ Pos(p) >= 1
         /\ p[2] = 1 => Pos(p) = 2 * p[1] - 1
         /\ p[2] = 2 => Pos(p) = 2 * p[1]
<1>1. p[1] \in Nat /\ p[1] >= 1 /\ p[2] \in {1, 2}
  BY PieceType
<1>2. QED
  BY <1>1 DEF Pos

LEMMA SameParity ==
  ASSUME NEW m \in Int, NEW n \in Int, m % 2 = n % 2
  PROVE  (m + 1) % 2 = (n + 1) % 2
OBVIOUS

\* The next piece continues the file.
LEMMA CleanAppended ==
  ASSUME NEW f \in Seq(Pieces), NEW h \in Seq(Pieces), Clean(f),
         NEW n \in 0 .. 2 * MaxLines, n + 1 \in 1 .. 2 * MaxLines,
         Len(h) = Len(f) + 1, \A k \in 1 .. Len(f) : h[k] = f[k],
         h[Len(f) + 1] = Piece(n + 1),
         \A k \in 1 .. Len(f) : Pos(f[k]) <= n,
         Len(f) % 2 = n % 2, n % 2 = 1 => Pos(f[Len(f)]) = n
  PROVE  Clean(h)
<1>1. Len(f) \in Nat /\ n \in Nat /\ \A k \in 1 .. Len(f) : f[k] \in Pieces
  BY LenProperties, TailAssumption
<1> DEFINE L == Len(f)
           p == Piece(n + 1)
<1>2. /\ p \in Pieces /\ Pos(p) = n + 1 /\ (p[2] = 1 <=> (n + 1) % 2 = 1)
      /\ h[L + 1] = p
  BY PieceFacts
<1>3. L \in Nat /\ L % 2 = n % 2
  BY <1>1
<1> HIDE DEF L, p
<1>4. p[2] = 1 <=> (L + 1) % 2 = 1
  BY <1>1, <1>2, <1>3, Parity
<1>5. ASSUME (L + 1) % 2 = 0
      PROVE  p[1] = h[L][1]
  <2>1. L % 2 = 1 /\ n % 2 = 1 /\ L # 0
    BY <1>1, <1>3, <1>5, Parity
  <2>2. L \in 1 .. Len(f) /\ h[L] = f[L] /\ f[L] \in Pieces
    BY <1>1, <2>1 DEF L
  <2>3. Pos(f[L]) = n
    BY <2>1 DEF L
  <2>4. f[L][2] = 1
    BY <2>1, <2>2 DEF Clean
  <2>5. p[2] = 2
    <3>1. p[2] # 1
      BY <1>4, <1>5
    <3>2. QED
      BY <1>2, <3>1, PieceType
  <2>6. 2 * f[L][1] - 1 = n /\ 2 * p[1] = n + 1 /\ f[L][1] \in Nat /\ p[1] \in Nat
    BY <1>2, <2>2, <2>3, <2>4, <2>5, PosType, PieceType
  <2>7. f[L][1] = p[1]
    BY <1>1, <2>6
  <2>8. QED
    BY <2>2, <2>7
<1>6. ASSUME NEW k \in 1 .. L + 1
      PROVE  /\ h[k][2] = 1 <=> k % 2 = 1
             /\ k % 2 = 0 => h[k][1] = h[k - 1][1]
             /\ \A j \in 1 .. k - 1 : Pos(h[j]) < Pos(h[k])
  <2>1. CASE k = L + 1
    <3>1. \A j \in 1 .. k - 1 : Pos(h[j]) < Pos(h[k])
      <4> SUFFICES ASSUME NEW j \in 1 .. k - 1
                   PROVE  Pos(h[j]) < Pos(h[k])
        OBVIOUS
      <4>1. j \in 1 .. Len(f)
        BY <1>3, <2>1 DEF L
      <4>2. h[j] = f[j] /\ Pos(f[j]) <= n /\ Pos(f[j]) \in Nat
        BY <1>1, <4>1, PosType
      <4>3. QED
        BY <1>1, <1>2, <2>1, <4>2
    <3>2. k - 1 = L
      BY <1>3, <2>1
    <3>3. h[k] = p
      BY <1>2, <2>1
    <3>4. QED
      BY <1>4, <1>5, <2>1, <3>1, <3>2, <3>3
  <2>2. CASE k # L + 1
    <3>1. k \in 1 .. Len(f)
      BY <1>3, <2>2 DEF L
    <3>2. h[k] = f[k] /\ \A j \in 1 .. k - 1 : j \in 1 .. Len(f) /\ h[j] = f[j]
      BY <1>1, <3>1
    <3>3. k % 2 = 0 => k - 1 \in 1 .. k - 1
      BY <3>1
    <3>4. /\ f[k][2] = 1 <=> k % 2 = 1
          /\ k % 2 = 0 => f[k][1] = f[k - 1][1]
          /\ \A j \in 1 .. k - 1 : Pos(f[j]) < Pos(f[k])
      BY <3>1 DEF Clean
    <3>5. QED
      BY <3>2, <3>3, <3>4
  <2>3. QED
    BY <2>1, <2>2
<1>7. Len(h) = L + 1
  BY DEF L
<1>8. QED
  BY <1>6, <1>7, Zenon DEF Clean

LEMMA FilesKept ==
  ASSUME TypeOK, PathInv, FilesInv, [Next]_vars, ~truncated'
  PROVE  FilesInv'
<1>0. MaxFiles \in Nat \ {0} /\ MaxLines \in Nat
  BY TailAssumption
<1>1. \A i \in Inodes : /\ content[i] \in Seq(Pieces) /\ Len(content[i]) \in Nat
                        /\ \A k \in 1 .. Len(content[i]) : content[i][k] \in Pieces
  BY FileTypes
<1>2. written \in Nat /\ born \in Nat
  BY <1>0 DEF TypeOK
<1>3. CASE AppendPiece
  <2> DEFINE f == content[path]
             h == content'[path]
             n == written
  <2>1. /\ path \in Inodes /\ path = born /\ n + 1 \in 1 .. 2 * MaxLines
        /\ content' \in [Inodes -> Seq(Pieces)]
        /\ \A i \in Inodes : i # path => content'[i] = content[i]
        /\ Len(h) = Len(f) + 1 /\ \A k \in 1 .. Len(f) : h[k] = f[k]
        /\ h[Len(f) + 1] = Piece(n + 1)
    BY <1>3, Appended
  <2>2. path' = path /\ written' = n + 1 /\ born' = born
    BY <1>3 DEF AppendPiece
  <2>3. /\ Len(f) % 2 = n % 2 /\ (n % 2 = 1 => Pos(f[Len(f)]) = n)
        /\ \A k \in 1 .. Len(f) : Pos(f[k]) <= n
        /\ Clean(f)
    <3>1. path # 0
      BY <1>0, <2>1 DEF Inodes
    <3>2. QED
      BY <2>1, <3>1, Zenon DEF FilesInv
  <2>4. f \in Seq(Pieces) /\ h \in Seq(Pieces) /\ Len(f) \in Nat /\ n \in 0 .. 2 * MaxLines
    BY <1>1, <2>1 DEF TypeOK
  <2>5. Piece(n + 1) \in Pieces /\ Pos(Piece(n + 1)) = n + 1
    BY <2>1, PieceFacts
  <2>6. Clean(h)
    BY <2>1, <2>3, <2>4, CleanAppended
  <2>7. \A i \in Inodes : Clean(content'[i])
    BY <2>1, <2>6 DEF FilesInv
  <2>8. ASSUME NEW i \in Inodes, NEW k \in 1 .. Len(content'[i])
        PROVE  /\ Pos(content'[i][k]) \in Nat
               /\ \/ i = path /\ k = Len(f) + 1 /\ Pos(content'[i][k]) = n + 1
                  \/ /\ k \in 1 .. Len(content[i]) /\ content'[i][k] = content[i][k]
                     /\ Pos(content'[i][k]) <= n
    <3>1. CASE i = path /\ k = Len(f) + 1
      BY <2>1, <2>5, <3>1, PosType
    <3>2. CASE ~(i = path /\ k = Len(f) + 1)
      <4>1. k \in 1 .. Len(content[i]) /\ content'[i][k] = content[i][k]
        <5>1. CASE i = path
          BY <2>1, <2>4, <3>2, <5>1
        <5>2. CASE i # path
          BY <2>1, <5>2
        <5>3. QED
          BY <5>1, <5>2
      <4>2. Pos(content[i][k]) <= n /\ content[i][k] \in Pieces
        BY <1>1, <4>1 DEF FilesInv
      <4>3. QED
        BY <4>1, <4>2, PosType
    <3>3. QED
      BY <3>1, <3>2
  <2>9. ASSUME NEW i \in Inodes, NEW j \in Inodes, i < j,
               NEW k \in 1 .. Len(content'[i]), NEW l \in 1 .. Len(content'[j])
        PROVE  Pos(content'[i][k]) < Pos(content'[j][l])
    <3>1. i # path
      <4>1. SUFFICES ASSUME i = path
                     PROVE  FALSE
        BY <4>1
      <4>2. j # path /\ j > born
        BY <1>2, <2>1, <2>9, <4>1 DEF Inodes
      <4>3. content'[j] = content[j] /\ content[j] = << >>
        BY <2>1, <4>2 DEF PathInv
      <4>4. QED
        BY <4>3
    <3>2. k \in 1 .. Len(content[i]) /\ content'[i][k] = content[i][k] /\ Pos(content[i][k]) <= n
      BY <2>8, <3>1
    <3>3. CASE j = path /\ l = Len(f) + 1
      <4>1. Pos(content'[j][l]) = n + 1
        BY <2>1, <2>5, <3>3
      <4>2. Pos(content'[i][k]) \in Nat
        BY <2>8
      <4>3. QED
        BY <1>2, <3>2, <4>1, <4>2
    <3>4. CASE ~(j = path /\ l = Len(f) + 1)
      <4>1. l \in 1 .. Len(content[j]) /\ content'[j][l] = content[j][l]
        BY <2>8, <3>4
      <4>2. QED
        BY <2>9, <3>2, <4>1 DEF FilesInv
    <3>5. QED
      BY <3>3, <3>4
  <2>10. \A i \in Inodes : \A k \in 1 .. Len(content'[i]) : Pos(content'[i][k]) <= written'
    <3> SUFFICES ASSUME NEW i \in Inodes, NEW k \in 1 .. Len(content'[i])
                 PROVE  Pos(content'[i][k]) <= n + 1
      BY <2>2
    <3>1. Pos(content'[i][k]) \in Nat
      BY <2>8
    <3>2. Pos(content'[i][k]) = n + 1 \/ Pos(content'[i][k]) <= n
      BY <2>8
    <3>3. QED
      BY <1>2, <3>1, <3>2
  <2>11. Len(content'[path]) % 2 = (n + 1) % 2 /\ Pos(h[Len(h)]) = n + 1
    <3>1. Pos(h[Len(h)]) = n + 1
      BY <2>1, <2>5
    <3>2. (Len(f) + 1) % 2 = (n + 1) % 2
      <4>1. Len(f) % 2 = n % 2
        BY <2>3, Zenon
      <4>2. Len(f) \in Int /\ n \in Int
        BY <1>2, <2>4
      <4> HIDE DEF f, n
      <4>3. QED
        BY <4>1, <4>2, SameParity
    <3>3. QED
      BY <2>1, <3>1, <3>2
  <2>12. path # 0
    BY <1>3 DEF AppendPiece
  <2> HIDE DEF f, h
  <2>13. (path = 0 => written % 2 = 0)' /\
         (path # 0 =>
            /\ Len(content[path]) % 2 = written % 2
            /\ written % 2 = 1 => Pos(content[path][Len(content[path])]) = written)'
    BY <2>2, <2>11, <2>12 DEF h
  <2>14. QED
    BY <2>7, <2>9, <2>10, <2>13, Zenon DEF FilesInv
<1>4. CASE Create
  <2>1. /\ UNCHANGED <<content, written>> /\ path' = born + 1 /\ born + 1 \in Inodes
        /\ written % 2 = 0
    BY <1>0, <1>2, <1>4 DEF Create, BetweenLines, Inodes, TypeOK
  <2>2. Len(content[born + 1]) = 0
    BY <1>2, <2>1, EmptySeq DEF PathInv
  <2>3. (path = 0 => written % 2 = 0)' /\
        (path # 0 =>
           /\ Len(content[path]) % 2 = written % 2
           /\ written % 2 = 1 => Pos(content[path][Len(content[path])]) = written)'
    BY <1>2, <2>1, <2>2
  <2>4. QED
    BY <2>1, <2>3, Zenon DEF FilesInv
<1>5. CASE Remove
  <2>1. UNCHANGED <<content, written>> /\ path' = 0 /\ written % 2 = 0
    BY <1>5 DEF Remove, BetweenLines
  <2>2. QED
    BY <2>1, Zenon DEF FilesInv
<1>6. CASE Truncate
  BY <1>6 DEF Truncate
<1>7. CASE ReaderStep \/ Restart \/ UNCHANGED vars
  <2>1. UNCHANGED fileVars
    BY <1>7, ReaderLeavesFiles
  <2>2. QED
    BY <2>1, Zenon DEF FilesInv, fileVars
<1>8. QED
  BY <1>3, <1>4, <1>5, <1>6, <1>7, Zenon DEF Next, EngineStep

-----------------------------------------------------------------------------
(* What the reader knows of its file. *)

LEMMA RotationKept ==
  ASSUME TypeOK, PathInv, RotationInv, [Next]_vars, ~truncated'
  PROVE  RotationInv'
<1>0. born \in Nat /\ fd \in Nat /\ fd <= born /\ last_size \in Nat /\ path \in 0 .. MaxFiles
  BY TailAssumption DEF TypeOK, PathInv
<1>1. SUFFICES ASSUME fd' # 0, path' = fd'
               PROVE  (/\ pc \notin IdPc => inode = fd
                       /\ pc = "get_size" => cur_id = fd
                       /\ pc \notin IdPc \cup SizePc => last_size <= Len(content[fd])
                       /\ pc # "rot_open")'
  BY <1>1, Zenon DEF RotationInv
<1>2. ASSUME fd # 0, path = fd
      PROVE  /\ pc \notin IdPc => inode = fd
             /\ pc = "get_size" => cur_id = fd
             /\ pc \notin IdPc \cup SizePc => last_size <= Len(content[fd])
             /\ pc # "rot_open"
             /\ Len(content[fd]) \in Nat /\ SizeOf(path) = Len(content[fd])
  <2>1. fd \in Inodes
    BY <1>0, <1>2 DEF Inodes
  <2>2. QED
    BY <1>2, <2>1, FileTypes DEF RotationInv, SizeOf
<1>3. ASSUME UNCHANGED <<path, fd, inode, cur_id, content>>
      PROVE  /\ fd # 0 /\ path = fd
             /\ pc' \notin IdPc /\ pc \notin IdPc => inode' = fd'
  BY <1>1, <1>2, <1>3
<1>4. CASE AppendPiece
  <2>1. UNCHANGED <<path, streamVars, pc, cur_id>>
    BY <1>4 DEF AppendPiece, EngineActs
  <2>2. fd # 0 /\ path = fd
    BY <1>1, <2>1 DEF streamVars
  <2>3. Len(content'[path]) = Len(content[path]) + 1
    BY <1>4, Appended
  <2>4. QED
    BY <1>0, <1>2, <2>1, <2>2, <2>3 DEF streamVars, IdPc, SizePc
<1>5. CASE Create
  <2>1. path' = born + 1 /\ fd' = fd
    BY <1>5 DEF Create, EngineActs, streamVars
  <2>2. fd = born + 1
    BY <1>1, <2>1
  <2>3. QED
    BY <1>0, <2>2
<1>6. CASE Remove
  BY <1>1, <1>6 DEF Remove
<1>7. CASE Truncate
  BY <1>7 DEF Truncate
<1>8. CASE OpenStream
  <2>1. pc' \in IdPc
    BY <1>1, <1>8 DEF OpenStream, IdPc, fileVars
  <2>2. QED
    BY <2>1 DEF IdPc
<1>9. CASE OpenId
  <2>1. inode' = fd' /\ pc' \in SizePc
    BY <1>1, <1>9 DEF OpenId, SizePc, fileVars
  <2>2. QED
    BY <2>1 DEF SizePc
<1>10. CASE OpenSize
  <2>1. /\ UNCHANGED <<path, fd, inode, content>> /\ last_size' = SizeOf(path)
        /\ pc' \in {"idle", "exists", "read"} /\ pc \notin IdPc
    BY <1>10 DEF OpenSize, fileVars, AfterOpen, IdPc
  <2>2. fd # 0 /\ path = fd
    BY <1>1, <2>1
  <2>3. QED
    BY <1>2, <2>1, <2>2
<1>11. CASE PollBegin
  <2>1. UNCHANGED <<path, fd, inode, last_size, content>> /\ pc = "idle"
    BY <1>11 DEF PollBegin, fileVars, streamVars
  <2>2. fd # 0 /\ path = fd
    BY <1>1, <2>1
  <2>3. pc' = "exists"
    BY <1>11, <2>2 DEF PollBegin
  <2>4. QED
    BY <1>2, <2>1, <2>2, <2>3 DEF IdPc, SizePc
<1>12. CASE Exists
  <2>1. /\ UNCHANGED <<path, fd, inode, last_size, content>> /\ pc = "exists"
        /\ pc' \in {"read", "get_id"}
    BY <1>12 DEF Exists, fileVars, streamVars
  <2>2. QED
    BY <1>1, <1>2, <2>1 DEF IdPc, SizePc
<1>13. CASE GetId
  <2>1. /\ UNCHANGED <<path, fd, inode, last_size, content>> /\ pc = "get_id"
        /\ pc' = "get_size" /\ cur_id' = path
    BY <1>13 DEF GetId, fileVars, streamVars
  <2>2. QED
    BY <1>1, <1>2, <2>1 DEF IdPc, SizePc
<1>14. CASE GetSize
  <2>1. /\ UNCHANGED <<path, fd, inode, content>> /\ pc = "get_size"
    BY <1>14 DEF GetSize, fileVars
  <2>2. fd # 0 /\ path = fd
    BY <1>1, <2>1
  <2>3. inode = fd /\ cur_id = fd /\ last_size <= SizeOf(path) /\ SizeOf(path) \in Nat
    BY <1>2, <2>1, <2>2 DEF IdPc, SizePc
  <2>4. ~((inode # 0 /\ cur_id # 0 /\ cur_id # inode) \/ SizeOf(path) < last_size)
    BY <1>0, <2>3
  <2>5. pc' = "read" /\ last_size' = SizeOf(path)
    BY <1>14, <2>4, Zenon DEF GetSize
  <2>6. QED
    BY <1>2, <2>1, <2>2, <2>3, <2>5
<1>15. CASE Read
  <2>1. /\ UNCHANGED <<path, fd, inode, last_size, content>> /\ pc = "read" /\ pc' = "idle"
    BY <1>15 DEF Read, fileVars
  <2>2. QED
    BY <1>1, <1>2, <2>1 DEF IdPc, SizePc
<1>16. CASE Restart
  BY <1>1, <1>16 DEF Restart
<1>17. CASE UNCHANGED vars
  <2>1. UNCHANGED <<path, fd, inode, last_size, content, pc, cur_id>>
    BY <1>17, Zenon DEF vars, fileVars, streamVars
  <2>2. QED
    BY <1>1, <1>2, <2>1
<1>18. QED
  BY <1>4, <1>5, <1>6, <1>7, <1>8, <1>9, <1>10, <1>11, <1>12, <1>13, <1>14, <1>15, <1>16, <1>17,
     Zenon DEF Next, EngineStep, ReaderStep

\* Without a file nothing is read.
LEMMA ReadNothing ==
  ASSUME TypeOK, CarryInv, Read, fd = 0
  PROVE  offset' = offset /\ carry' = carry /\ delivered' = delivered
<1>1. /\ carry \in Seq(Pieces) /\ Len(carry) \in Nat /\ Len(carry) <= 1
      /\ \A k \in 1 .. Len(carry) : carry[k] \in Pieces /\ carry[k][2] = 1
  BY LenProperties DEF TypeOK, CarryInv
<1>2. Unread = << >> /\ carry \o Unread = carry
  BY <1>1, ConcatEmptySeq DEF Unread
<1>3. Clean(carry)
  <2> SUFFICES ASSUME NEW k \in 1 .. Len(carry)
               PROVE  /\ carry[k][2] = 1 <=> k % 2 = 1
                      /\ k % 2 = 0 => carry[k][1] = carry[k - 1][1]
                      /\ \A j \in 1 .. k - 1 : Pos(carry[j]) < Pos(carry[k])
    BY DEF Clean
  <2>1. k = 1 /\ carry[k][2] = 1
    BY <1>1
  <2>2. k % 2 = 1 /\ ~(k % 2 = 0)
    BY <2>1
  <2>3. \A j \in 1 .. k - 1 : FALSE
    BY <2>1
  <2>4. QED
    BY <2>1, <2>2, <2>3, Zenon
<1>4. carry = SubSeq(carry, 0 + 1, Len(carry))
  BY <1>1, SubSeqFull
<1>5. 0 \in 0 .. Len(carry)
  BY <1>1
<1>6. /\ Cuts(carry) \in Seq(Seq(Pieces))
      /\ \A k \in 1 .. Len(Cuts(carry)) : \E n \in 0 + 1 .. Len(carry) : carry[n][2] = 2
      /\ Left(carry) = IF Len(carry) % 2 = 1 /\ 0 < Len(carry)
                       THEN <<carry[Len(carry)]>> ELSE << >>
  <2> HIDE <1>2
  <2>1. QED
    <3>1. CutFrom(carry, 0, carry)
      BY <1>1, <1>3, <1>4, <1>5, LinesOf, Zenon
    <3>2. QED
      BY <3>1, Zenon DEF CutFrom
<1>7. Cuts(carry) = << >>
  <2>1. \A k \in 1 .. Len(Cuts(carry)) : FALSE
    BY <1>1, <1>6
  <2>2. Len(Cuts(carry)) \in Nat
    BY <1>6, LenProperties
  <2>3. Len(Cuts(carry)) = 0
    BY <2>1, <2>2
  <2>4. QED
    BY <1>6, <2>3, EmptySeq
<1>8. Left(carry) = carry
  <2>1. CASE Len(carry) = 0
    <3>1. carry = << >>
      BY <1>1, <2>1, EmptySeq
    <3>2. QED
      BY <1>6, <2>1, <3>1
  <2>2. CASE Len(carry) = 1
    <3>1. <<carry[1]>> \in Seq(Pieces) /\ Len(<<carry[1]>>) = 1 /\ <<carry[1]>>[1] = carry[1]
      BY <1>1, <2>2
    <3>2. \A i \in 1 .. Len(carry) : carry[i] = <<carry[1]>>[i]
      BY <2>2, <3>1
    <3>3. carry = <<carry[1]>>
      BY <1>1, <2>2, <3>1, <3>2, SeqEqual
    <3>4. QED
      BY <1>6, <2>2, <3>3
  <2>3. Len(carry) = 0 \/ Len(carry) = 1
    <3>1. Len(carry) \in Nat /\ Len(carry) <= 1
      BY <1>1, Zenon
    <3>2. \A n \in Nat : n <= 1 => n = 0 \/ n = 1
      OBVIOUS
    <3>3. QED
      BY <3>1, <3>2, Zenon
  <2>4. QED
    BY <2>1, <2>2, <2>3
<1>9. /\ offset' = offset + Len(Unread)
      /\ delivered' = delivered \o Cuts(carry) /\ carry' = Left(carry)
  BY <1>2, ReadStep
<1>10. offset' = offset
  BY <1>2, <1>9, EmptySeq, TailAssumption DEF TypeOK
<1>11. delivered' = delivered
  BY <1>7, <1>9, ConcatEmptySeq DEF TypeOK
<1>12. QED
  BY <1>8, <1>9, <1>10, <1>11

\* What was kept and what is new are one part of the file.
LEMMA GotIsPart ==
  ASSUME TypeOK, CarryInv, pc = "read", fd # 0
  PROVE  /\ fd \in Inodes /\ content[fd] \in Seq(Pieces) /\ Len(content[fd]) \in Nat
         /\ offset \in 0 .. Len(content[fd]) /\ Len(carry) \in {0, 1}
         /\ Len(carry) = 1 => offset % 2 = 1
         /\ Len(carry) = 0 /\ offset % 2 = 1 => content[fd][offset][1] \in cut
         /\ offset - Len(carry) \in 0 .. Len(content[fd])
         /\ offset + Len(Unread) = Len(content[fd])
         /\ carry \o Unread
              = SubSeq(content[fd], offset - Len(carry) + 1, Len(content[fd]))
<1> DEFINE f == content[fd]
           o == offset - Len(carry)
           s == SubSeq(f, o + 1, Len(f))
<1>1. /\ fd \in Inodes /\ f \in Seq(Pieces) /\ Len(f) \in Nat
      /\ \A k \in 1 .. Len(f) : f[k] \in Pieces
  <2>1. fd \in Inodes
    BY TailAssumption DEF TypeOK, Inodes
  <2>2. QED
    BY <2>1, FileTypes
<1>2. offset \in Nat /\ offset <= Len(f)
  BY TailAssumption DEF TypeOK, CarryInv
<1>3. /\ carry \in Seq(Pieces)
      /\ \/ carry = << >> /\ (offset % 2 = 1 => f[offset][1] \in cut)
         \/ offset % 2 = 1 /\ carry = <<f[offset]>>
  BY DEF TypeOK, CarryInv, IdPc, SizePc
<1>4. Unread = SubSeq(f, offset + 1, Len(f))
  BY DEF Unread
<1> HIDE DEF f
<1>5. Unread \in Seq(Pieces) /\ Len(Unread) = Len(f) - offset
      /\ \A i \in 1 .. Len(f) - offset : Unread[i] = f[offset + i]
  <2>1. \A i \in offset + 1 .. Len(f) : f[i] \in Pieces
    BY <1>1, <1>2
  <2>2. QED
    BY <1>1, <1>2, <1>4, <2>1, Part
<1>6. CASE carry = << >>
  <2>1. Len(carry) = 0
    BY <1>6
  <2>2. carry \o Unread = Unread /\ offset - Len(carry) = offset
    BY <1>2, <1>5, <1>6, <2>1, ConcatEmptySeq
  <2>3. offset % 2 = 1 => f[offset][1] \in cut
    <3>1. CASE carry = <<f[offset]>>
      BY <1>6, <3>1
    <3>2. QED
      BY <1>3, <3>1
  <2>4. offset + Len(Unread) = Len(f)
    BY <1>1, <1>2, <1>5
  <2>5. QED
    BY <1>1, <1>2, <1>4, <2>1, <2>2, <2>3, <2>4 DEF f
<1>7. CASE offset % 2 = 1 /\ carry = <<f[offset]>>
  <2>1. Len(carry) = 1 /\ carry[1] = f[offset] /\ offset # 0
    BY <1>7
  <2>2. o \in Nat /\ o <= Len(f) /\ o + 1 = offset
    BY <1>1, <1>2, <2>1
  <2>3. \A i \in o + 1 .. Len(f) : f[i] \in Pieces
    BY <1>1, <2>2
  <2>4. /\ s \in Seq(Pieces) /\ Len(s) = Len(f) - o
        /\ \A i \in 1 .. Len(f) - o : s[i] = f[o + i]
    BY <1>1, <2>2, <2>3, Part
  <2>5. /\ carry \o Unread \in Seq(Pieces) /\ Len(carry \o Unread) = 1 + (Len(f) - offset)
        /\ \A i \in 1 .. 1 + (Len(f) - offset) :
             (carry \o Unread)[i] = IF i <= 1 THEN carry[i] ELSE Unread[i - 1]
    <3>1. /\ carry \o Unread \in Seq(Pieces)
          /\ Len(carry \o Unread) = Len(carry) + Len(Unread)
          /\ \A i \in 1 .. Len(carry) + Len(Unread) :
               (carry \o Unread)[i] = IF i <= Len(carry) THEN carry[i] ELSE Unread[i - Len(carry)]
      BY <1>3, <1>5, ConcatProperties
    <3>2. Len(carry) = 1 /\ Len(Unread) = Len(f) - offset
      BY <1>5, <2>1
    <3>3. QED
      BY <3>1, <3>2
  <2> HIDE DEF s, o
  <2>6. 1 + (Len(f) - offset) = Len(f) - o
    BY <1>1, <1>2, <2>2
  <2>7. ASSUME NEW i \in 1 .. Len(f) - o
        PROVE  (carry \o Unread)[i] = s[i]
    <3>1. CASE i = 1
      BY <2>1, <2>2, <2>4, <2>5, <2>6, <3>1
    <3>2. CASE i # 1
      <4>1. i - 1 \in 1 .. Len(f) - offset /\ ~(i <= 1)
        BY <1>1, <1>2, <2>2, <3>2
      <4>2. offset + (i - 1) = o + i
        BY <1>2, <2>2
      <4>3. Unread[i - 1] = f[o + i]
        BY <1>5, <4>1, <4>2
      <4>4. QED
        BY <2>4, <2>5, <2>6, <4>1, <4>3
    <3>3. QED
      BY <3>1, <3>2
  <2>8. carry \o Unread = s
    BY <2>4, <2>5, <2>6, <2>7, SeqEqual
  <2>9. offset + Len(Unread) = Len(f)
    BY <1>1, <1>2, <1>5
  <2>10. o = offset - Len(carry) /\ s = SubSeq(f, o + 1, Len(f)) /\ f = content[fd]
    BY Zenon DEF o, s, f
  <2>11. o \in 0 .. Len(f) /\ offset \in 0 .. Len(f) /\ Len(carry) \in {0, 1} /\ Len(carry) # 0
    BY <1>1, <1>2, <2>1, <2>2
  <2>12. QED
    BY <1>1, <1>7, <2>1, <2>8, <2>9, <2>10, <2>11, Zenon
<1>8. QED
  BY <1>3, <1>6, <1>7

\* What reading the file delivers and keeps.
LEMMA ReadFile ==
  ASSUME TypeOK, FilesInv, CarryInv, Read, fd # 0
  PROVE  LET f == content[fd]
             c == Cuts(carry \o Unread) IN
         /\ offset' = Len(f)
         /\ Len(carry') <= 1 /\ \A k \in 1 .. Len(carry') : carry'[k][2] = 1
         /\ \/ carry' = << >> /\ (Len(f) % 2 = 1 => f[Len(f)][1] \in cut)
            \/ Len(f) % 2 = 1 /\ carry' = <<f[Len(f)]>>
         /\ delivered' = delivered \o c /\ c \in Seq(Seq(Pieces))
         /\ \A k \in 1 .. Len(c) :
              /\ Whole(c[k]) \/ Rest(c[k])
              /\ \E n \in offset + 1 .. Len(f) : f[n][2] = 2 /\ Number(c[k]) = f[n][1]
         /\ \A j, k \in 1 .. Len(c) : j < k => Number(c[j]) < Number(c[k])
<1> DEFINE f == content[fd]
           o == offset - Len(carry)
           g == carry \o Unread
           c == Cuts(g)
<1>1. /\ fd \in Inodes /\ f \in Seq(Pieces) /\ Len(f) \in Nat
      /\ offset \in 0 .. Len(f) /\ Len(carry) \in {0, 1}
      /\ Len(carry) = 1 => offset % 2 = 1
      /\ Len(carry) = 0 /\ offset % 2 = 1 => f[offset][1] \in cut
      /\ o \in 0 .. Len(f)
      /\ offset + Len(Unread) = Len(f)
      /\ g = SubSeq(f, o + 1, Len(f))
  BY GotIsPart DEF Read
<1>2. Clean(f) /\ \A k \in 1 .. Len(f) : f[k] \in Pieces
  BY <1>1, LenProperties DEF FilesInv
<1>3. offset' = Len(f) /\ delivered' = delivered \o c /\ carry' = Left(g)
  BY <1>1, ReadStep
<1>4. o = offset - Len(carry)
  OBVIOUS
<1> HIDE DEF f, o, g
<1>5. /\ c \in Seq(Seq(Pieces))
      /\ \A k \in 1 .. Len(c) :
           \E n \in o + 1 .. Len(f) :
             /\ f[n][2] = 2
             /\ Number(c[k]) = f[n][1]
             /\ Whole(c[k]) \/ (n = o + 1 /\ c[k] = <<f[n]>>)
      /\ \A j, k \in 1 .. Len(c) : j < k => Number(c[j]) < Number(c[k])
      /\ Left(g) = IF Len(f) % 2 = 1 /\ o < Len(f) THEN <<f[Len(f)]>> ELSE << >>
  <2>1. f \in Seq(Pieces) /\ Clean(f) /\ o \in 0 .. Len(f) /\ g = SubSeq(f, o + 1, Len(f))
    BY <1>1, <1>2
  <2>2. CutFrom(f, o, g)
    BY <2>1, LinesOf, Zenon
  <2>3. QED
    BY <2>2, Zenon DEF CutFrom
<1> HIDE DEF c
\* A line ends behind the old position, as what was kept is a first piece.
<1>6. ASSUME NEW n \in o + 1 .. Len(f), f[n][2] = 2
      PROVE  n \in offset + 1 .. Len(f) /\ n % 2 = 0 /\ (n = o + 1 => Len(carry) = 0)
  <2>1. n \in 1 .. Len(f) /\ n \in Nat
    BY <1>1
  <2>2. n % 2 = 0
    <3>1. f[n][2] # 1
      BY <1>6
    <3>2. ~(n % 2 = 1)
      BY <1>2, <2>1, <3>1 DEF Clean
    <3>3. QED
      BY <2>1, <3>2, Parity
  <2>3. CASE Len(carry) = 0
    BY <1>1, <1>4, <2>2, <2>3
  <2>4. CASE Len(carry) = 1
    <3>1. o + 1 = offset /\ offset % 2 = 1
      BY <1>1, <1>4, <2>4
    <3>2. n # offset
      BY <2>2, <3>1
    <3>3. QED
      BY <1>1, <2>1, <2>2, <3>1, <3>2
  <2>5. QED
    BY <1>1, <2>3, <2>4
<1>7. ASSUME NEW k \in 1 .. Len(c)
      PROVE  /\ Whole(c[k]) \/ Rest(c[k])
             /\ \E n \in offset + 1 .. Len(f) : f[n][2] = 2 /\ Number(c[k]) = f[n][1]
  <2>1. PICK n \in o + 1 .. Len(f) :
          /\ f[n][2] = 2
          /\ Number(c[k]) = f[n][1]
          /\ Whole(c[k]) \/ (n = o + 1 /\ c[k] = <<f[n]>>)
    BY <1>5
  <2>2. n \in offset + 1 .. Len(f) /\ n % 2 = 0 /\ (n = o + 1 => Len(carry) = 0)
    BY <1>6, <2>1
  <2>3. CASE n = o + 1 /\ c[k] = <<f[n]>>
    <3>1. Len(carry) = 0 /\ n = offset + 1 /\ n - 1 = offset
      BY <1>1, <1>4, <2>2, <2>3
    <3>2. offset \in Int /\ offset % 2 = 1
      <4>1. offset \in Int
        BY <1>1
      <4>2. QED
        BY <2>2, <3>1, <4>1, Parity
    <3>3. f[offset][1] \in cut
      BY <1>1, <3>1, <3>2
    <3>4. f[n][1] = f[n - 1][1]
      <4>1. n \in 1 .. Len(f)
        BY <1>1, <2>2
      <4>2. QED
        BY <1>2, <2>2, <4>1 DEF Clean
    <3>5. Rest(c[k])
      BY <2>1, <2>3, <3>1, <3>3, <3>4 DEF Rest
    <3>6. QED
      BY <2>1, <2>2, <3>5
  <2>4. QED
    BY <2>1, <2>2, <2>3
<1>8. /\ Len(carry') <= 1 /\ \A k \in 1 .. Len(carry') : carry'[k][2] = 1
      /\ \/ carry' = << >> /\ (Len(f) % 2 = 1 => f[Len(f)][1] \in cut)
         \/ Len(f) % 2 = 1 /\ carry' = <<f[Len(f)]>>
  <2>1. CASE Len(f) % 2 = 1 /\ o < Len(f)
    <3>1. carry' = <<f[Len(f)]>>
      BY <1>3, <1>5, <2>1
    <3>2. Len(f) \in 1 .. Len(f)
      BY <1>1, <2>1
    <3>3. f[Len(f)][2] = 1
      BY <1>2, <2>1, <3>2 DEF Clean
    <3>4. QED
      BY <2>1, <3>1, <3>3
  <2>2. CASE ~(Len(f) % 2 = 1 /\ o < Len(f))
    <3>1. carry' = << >>
      BY <1>3, <1>5, <2>2
    <3>2. ASSUME Len(f) % 2 = 1
          PROVE  f[Len(f)][1] \in cut
      <4>1. ~(o < Len(f))
        BY <2>2, <3>2
      <4>2. Len(carry) = 0 /\ offset = Len(f)
        BY <1>1, <1>4, <4>1
      <4>3. QED
        BY <1>1, <3>2, <4>2
    <3>3. QED
      BY <3>1, <3>2
  <2>3. QED
    BY <2>1, <2>2
<1>9. /\ offset' = Len(f) /\ delivered' = delivered \o c /\ c \in Seq(Seq(Pieces))
      /\ \A j, k \in 1 .. Len(c) : j < k => Number(c[j]) < Number(c[k])
  BY <1>3, <1>5, Zenon
<1>10. QED
  BY <1>7, <1>8, <1>9, Zenon DEF f, c, g

LEMMA CarryKept ==
  ASSUME TypeOK, PathInv, FilesInv, CarryInv, [Next]_vars, ~truncated'
  PROVE  CarryInv'
<1>0. carry \in Seq(Pieces) /\ offset \in Nat /\ fd \in 0 .. MaxFiles
  BY TailAssumption DEF TypeOK
<1>1. /\ Len(carry) <= 1 /\ \A k \in 1 .. Len(carry) : carry[k][2] = 1
  BY DEF CarryInv
<1>2. ASSUME fd # 0
      PROVE  /\ fd \in Inodes /\ Len(content[fd]) \in Nat /\ offset <= Len(content[fd])
             /\ pc \in SizePc /\ offset % 2 = 1 => content[fd][offset][1] \in cut
             /\ pc \notin IdPc \cup SizePc =>
                  \/ carry = << >> /\ (offset % 2 = 1 => content[fd][offset][1] \in cut)
                  \/ offset % 2 = 1 /\ carry = <<content[fd][offset]>>
  BY <1>0, <1>2, FileTypes DEF CarryInv, Inodes
<1>3. CASE AppendPiece
  <2>1. UNCHANGED <<streamVars, pc, cut>>
    BY <1>3 DEF AppendPiece, EngineActs, startVars
  <2>2. ASSUME fd # 0
        PROVE  /\ Len(content'[fd]) \in Nat /\ offset <= Len(content'[fd])
               /\ offset % 2 = 1 => content'[fd][offset] = content[fd][offset]
    <3>1. CASE fd = path
      <4>1. /\ Len(content'[fd]) = Len(content[fd]) + 1
            /\ \A k \in 1 .. Len(content[fd]) : content'[fd][k] = content[fd][k]
        BY <1>3, <3>1, Appended
      <4>2. offset % 2 = 1 => offset \in 1 .. Len(content[fd])
        BY <1>0, <1>2, <2>2
      <4>3. QED
        BY <1>0, <1>2, <2>2, <4>1, <4>2
    <3>2. CASE fd # path
      BY <1>2, <1>3, <2>2, <3>2, Appended
    <3>3. QED
      BY <3>1, <3>2
  <2>3. QED
    BY <1>1, <1>2, <2>1, <2>2 DEF CarryInv, streamVars, IdPc, SizePc
<1>4. CASE Create
  BY <1>4, Zenon DEF Create, EngineActs, startVars, streamVars, CarryInv, IdPc, SizePc
<1>5. CASE Remove
  BY <1>5, Zenon DEF Remove, EngineActs, startVars, streamVars, CarryInv, IdPc, SizePc
<1>6. CASE Truncate
  BY <1>6 DEF Truncate
<1>7. CASE OpenStream
  <2>1. carry' = carry /\ fd' = path /\ content' = content
    BY <1>7 DEF OpenStream, fileVars
  <2>2. CASE path = 0
    BY <1>1, <2>1, <2>2 DEF CarryInv
  <2>3. CASE path # 0
    <3>1. offset' = 0 /\ pc' \in IdPc
      BY <1>7, <2>3 DEF OpenStream, IdPc
    <3>2. Len(content'[fd']) \in Nat
      <4>1. path \in Inodes
        BY <2>3 DEF TypeOK, Inodes
      <4>2. QED
        BY <2>1, <4>1, FileTypes
    <3>3. pc' \notin SizePc
      BY <3>1 DEF IdPc, SizePc
    <3>4. offset' <= Len(content'[fd'])
      BY <3>1, <3>2
    <3>5. QED
      BY <1>1, <2>1, <3>1, <3>3, <3>4 DEF CarryInv
  <2>4. QED
    BY <2>2, <2>3
<1>8. CASE OpenId
  <2>1. carry' = carry /\ fd' = fd /\ content' = content /\ pc' \in SizePc
    BY <1>8 DEF OpenId, fileVars, SizePc
  <2>2. /\ offset' \in Nat
        /\ offset' = IF seek THEN Len(content[fd]) ELSE 0
        /\ offset' <= Len(content[fd])
        /\ seek /\ offset' % 2 = 1 => cut' = cut \cup {content[fd][offset'][1]}
    BY <1>8, OpenedAt
  <2>3. offset' % 2 = 1 => content[fd][offset'][1] \in cut'
    <3>1. CASE seek
      BY <2>2, <3>1
    <3>2. CASE ~seek
      <4>1. offset' = 0 /\ ~(0 % 2 = 1)
        BY <2>2, <3>2
      <4>2. QED
        BY <4>1
    <3>3. QED
      BY <3>1, <3>2
  <2>4. QED
    BY <1>1, <2>1, <2>2, <2>3 DEF CarryInv
<1>9. CASE OpenSize
  <2>1. /\ UNCHANGED <<fd, content, offset, cut>> /\ carry' = << >>
        /\ pc \in SizePc /\ pc' \notin SizePc
    BY <1>9 DEF OpenSize, fileVars, startVars, SizePc, AfterOpen
  <2>2. QED
    BY <1>2, <2>1 DEF CarryInv
<1>10. CASE PollBegin \/ Exists \/ GetId \/ GetSize
  <2>1. /\ UNCHANGED <<fd, content, offset, cut, carry>>
        /\ pc \notin IdPc \cup SizePc /\ pc' \notin SizePc
    BY <1>10 DEF PollBegin, Exists, GetId, GetSize, fileVars, streamVars, startVars, IdPc, SizePc
  <2>2. QED
    BY <1>1, <1>2, <2>1, Zenon DEF CarryInv
<1>11. CASE Read
  <2>1. UNCHANGED <<fd, content, cut>> /\ pc' = "idle"
    BY <1>11 DEF Read, fileVars, startVars
  <2>2. CASE fd = 0
    BY <1>1, <1>11, <2>1, <2>2, ReadNothing DEF CarryInv
  <2>3. CASE fd # 0
    <3> DEFINE f == content[fd]
    <3>1. /\ offset' = Len(f)
          /\ Len(carry') <= 1 /\ \A k \in 1 .. Len(carry') : carry'[k][2] = 1
          /\ \/ carry' = << >> /\ (Len(f) % 2 = 1 => f[Len(f)][1] \in cut)
             \/ Len(f) % 2 = 1 /\ carry' = <<f[Len(f)]>>
      BY <1>11, <2>3, ReadFile, Zenon
    <3>2. Len(f) <= Len(f)
      BY <1>2, <2>3
    <3>3. pc' \notin SizePc
      BY <2>1 DEF SizePc
    <3>4. QED
      BY <2>1, <3>1, <3>2, <3>3, Zenon DEF CarryInv
  <2>4. QED
    BY <2>2, <2>3
<1>12. CASE Restart
  <2>1. fd' = 0 /\ carry' = << >>
    BY <1>12 DEF Restart
  <2>2. QED
    BY <2>1 DEF CarryInv
<1>13. CASE UNCHANGED vars
  BY <1>13, Zenon DEF vars, fileVars, startVars, streamVars, CarryInv, IdPc, SizePc
<1>14. QED
  BY <1>3, <1>4, <1>5, <1>6, <1>7, <1>8, <1>9, <1>10, <1>11, <1>12, <1>13,
     Zenon DEF Next, EngineStep, ReaderStep

-----------------------------------------------------------------------------
(* What is delivered comes before what will be read. *)

\* The lines still to be read have greater numbers than n.
AheadOf(n) ==
  /\ 2 * n <= written
  /\ fd # 0 =>
       /\ \A k \in NextOffset + 1 .. Len(content[fd]) :
            content[fd][k][2] = 2 => n < content[fd][k][1]
       /\ \A i \in fd + 1 .. MaxFiles : \A k \in 1 .. Len(content[i]) : n < content[i][k][1]
  /\ fd = 0 /\ path # 0 /\ from_beginning =>
       \A k \in 1 .. Len(content[path]) : n < content[path][k][1]

LEMMA AheadParts ==
  AheadInv <=>
    \A d \in 1 .. Len(delivered) :
      /\ Whole(delivered[d]) \/ Rest(delivered[d])
      /\ AheadOf(Number(delivered[d]))
      /\ \A e \in 1 .. d - 1 : Number(delivered[e]) < Number(delivered[d])
BY Zenon DEF AheadInv, AheadOf

\* The same, said of the next state.
LEMMA AheadPartsNext ==
  ASSUME \A d \in 1 .. Len(delivered') : Whole(delivered'[d]) \/ Rest(delivered[d])',
         \A d \in 1 .. Len(delivered') : AheadOf(Number(delivered[d]))',
         \A d \in 1 .. Len(delivered') :
           \A e \in 1 .. d - 1 : Number(delivered'[e]) < Number(delivered'[d])
  PROVE  AheadInv'
<1>1. (\A d \in 1 .. Len(delivered) :
         /\ Whole(delivered[d]) \/ Rest(delivered[d])
         /\ AheadOf(Number(delivered[d]))
         /\ \A e \in 1 .. d - 1 : Number(delivered[e]) < Number(delivered[d]))'
  BY Zenon DEF AheadOf, Whole, Rest, Number
<1>2. QED
  BY <1>1, Zenon DEF AheadInv, AheadOf

\* The number of a delivered line is the number of a piece of it.
LEMMA NumberType ==
  ASSUME NEW l \in Seq(Pieces), Whole(l) \/ Len(l) = 1
  PROVE  Number(l) \in Nat
<1>1. Len(l) \in 1 .. Len(l)
  BY DEF Whole
<1>2. l[Len(l)] \in Pieces
  BY <1>1, ElementOfSeq
<1>3. QED
  BY <1>2, PieceType DEF Number

\* No step of the engine, and none of the reader but the delivery of the line
\* itself, puts a line behind what was delivered; a reader that starts over from
\* the beginning has delivered nothing.
LEMMA AheadStep ==
  ASSUME TypeOK, PathInv, FilesInv, RotationInv, CarryInv, [Next]_vars, ~truncated',
         Restart => ~from_beginning, NEW n \in Nat, AheadOf(n)
  PROVE  AheadOf(n)'
<1>0. /\ MaxFiles \in Nat \ {0} /\ written \in Nat /\ born \in Nat
      /\ fd \in 0 .. MaxFiles /\ fd <= born /\ path \in {0, born} /\ path \in 0 .. MaxFiles
      /\ offset \in Nat
  BY TailAssumption DEF TypeOK, PathInv
<1>1. \A i \in Inodes : /\ Len(content[i]) \in Nat
                        /\ \A k \in 1 .. Len(content[i]) : content[i][k] \in Pieces
                        /\ i > born => content[i] = << >>
  BY FileTypes DEF PathInv
<1>2. 2 * n <= written
  BY DEF AheadOf
<1>3. fd # 0 =>
        /\ \A k \in NextOffset + 1 .. Len(content[fd]) :
             content[fd][k][2] = 2 => n < content[fd][k][1]
        /\ \A i \in fd + 1 .. MaxFiles : \A k \in 1 .. Len(content[i]) : n < content[i][k][1]
  BY Zenon DEF AheadOf
<1>4. fd = 0 /\ path # 0 /\ from_beginning =>
        \A k \in 1 .. Len(content[path]) : n < content[path][k][1]
  BY Zenon DEF AheadOf
<1>5. fd # 0 => fd \in Inodes /\ NextOffset \in Nat
  BY <1>0, <1>1 DEF Inodes, NextOffset
\* Where neither the files nor the place to read next change.
<1>6. ASSUME UNCHANGED <<content, written, fd, from_beginning>>, NextOffset' = NextOffset,
             path' \in {0, path}
      PROVE  AheadOf(n)'
  BY <1>2, <1>3, <1>4, <1>6, Zenon DEF AheadOf
<1>7. CASE AppendPiece
  <2> DEFINE p == Piece(written + 1)
             L == Len(content[path])
  <2>1. /\ path \in Inodes /\ path = born
        /\ \A i \in Inodes : i # path => content'[i] = content[i]
        /\ Len(content'[path]) = L + 1
        /\ \A k \in 1 .. L : content'[path][k] = content[path][k]
        /\ content'[path][L + 1] = p
        /\ p \in Pieces /\ Pos(p) = written + 1
    BY <1>7, Appended, PieceFacts
  <2>2. UNCHANGED <<fd, offset, pc, seek, path, from_beginning>> /\ written' = written + 1
    BY <1>7 DEF AppendPiece, EngineActs, streamVars, startVars
  <2>3. n < p[1]
    <3>1. p[1] \in Nat /\ p[2] \in {1, 2}
      BY <2>1, PieceType
    <3>2. 2 * p[1] = written + 1 \/ 2 * p[1] - 1 = written + 1
      BY <2>1, <3>1, PosType
    <3> HIDE DEF p
    <3>3. QED
      BY <1>0, <1>2, <3>1, <3>2
  <2>4. L \in Nat
    BY <1>1, <2>1
  <2> HIDE DEF p, L
  <2>5. ASSUME NEW i \in Inodes, NEW k \in 1 .. Len(content'[i])
        PROVE  \/ k \in 1 .. Len(content[i]) /\ content'[i][k] = content[i][k]
               \/ n < content'[i][k][1]
    <3>1. CASE i = path /\ k = L + 1
      BY <2>1, <2>3, <3>1
    <3>2. CASE i = path /\ k # L + 1
      <4>1. k \in 1 .. L
        BY <2>1, <2>4, <3>2
      <4>2. QED
        BY <2>1, <3>2, <4>1 DEF L
    <3>3. CASE i # path
      BY <2>1, <3>3
    <3>4. QED
      BY <3>1, <3>2, <3>3
  <2>6. (2 * n <= written)'
    BY <1>0, <1>2, <2>2
  <2>7. ASSUME fd # 0
        PROVE  /\ \A k \in NextOffset' + 1 .. Len(content'[fd]) :
                    content'[fd][k][2] = 2 => n < content'[fd][k][1]
               /\ \A i \in fd + 1 .. MaxFiles :
                    \A k \in 1 .. Len(content'[i]) : n < content'[i][k][1]
    <3>1. ASSUME NEW k \in NextOffset' + 1 .. Len(content'[fd]), content'[fd][k][2] = 2
          PROVE  n < content'[fd][k][1]
      <4>1. CASE pc \in IdPc /\ seek
        <5>1. NextOffset' = Len(content'[fd])
          BY <2>2, <4>1 DEF NextOffset
        <5>2. Len(content'[fd]) \in Nat
          <6>1. CASE fd = path
            BY <2>1, <2>4, <6>1
          <6>2. CASE fd # path
            BY <1>1, <1>5, <2>1, <2>7, <6>2
          <6>3. QED
            BY <6>1, <6>2
        <5>3. QED
          BY <3>1, <5>1, <5>2
      <4>2. CASE ~(pc \in IdPc /\ seek)
        <5>1. NextOffset' = NextOffset
          BY <2>2, <4>2 DEF NextOffset
        <5>2. k \in 1 .. Len(content'[fd]) /\ k \in Nat /\ k > NextOffset
          BY <1>5, <2>7, <3>1, <5>1
        <5>3. CASE k \in 1 .. Len(content[fd]) /\ content'[fd][k] = content[fd][k]
          <6>1. k \in NextOffset + 1 .. Len(content[fd])
            BY <1>5, <2>7, <5>2, <5>3
          <6>2. QED
            BY <1>3, <2>7, <3>1, <5>3, <6>1
        <5>4. QED
          BY <1>5, <2>5, <2>7, <5>2, <5>3
      <4>3. QED
        BY <4>1, <4>2
    <3>2. ASSUME NEW i \in fd + 1 .. MaxFiles, NEW k \in 1 .. Len(content'[i])
          PROVE  n < content'[i][k][1]
      <4>1. i \in Inodes
        BY <1>0 DEF Inodes
      <4>2. CASE k \in 1 .. Len(content[i]) /\ content'[i][k] = content[i][k]
        BY <1>3, <2>7, <4>2
      <4>3. QED
        BY <2>5, <4>1, <4>2
    <3>3. QED
      BY <3>1, <3>2
  <2>8. ASSUME fd = 0, from_beginning, NEW k \in 1 .. Len(content'[path])
        PROVE  n < content'[path][k][1]
    <3>1. path # 0
      BY <2>1 DEF Inodes
    <3>2. CASE k \in 1 .. Len(content[path]) /\ content'[path][k] = content[path][k]
      BY <1>4, <2>8, <3>1, <3>2
    <3>3. QED
      BY <2>1, <2>5, <3>2
  <2>9. QED
    BY <2>2, <2>6, <2>7, <2>8, Zenon DEF AheadOf
<1>8. CASE Create
  <2>1. /\ UNCHANGED <<content, written, fd, offset, pc, seek, from_beginning>>
        /\ path' = born + 1 /\ born + 1 \in Inodes
    BY <1>0, <1>8 DEF Create, EngineActs, streamVars, startVars, Inodes
  <2>2. content[born + 1] = << >>
    BY <1>0, <1>1, <2>1
  <2>3. \A k \in 1 .. Len(content'[path']) : n < content'[path'][k][1]
    BY <2>1, <2>2
  <2>4. NextOffset' = NextOffset
    BY <2>1, Zenon DEF NextOffset
  <2>5. QED
    BY <1>2, <1>3, <2>1, <2>3, <2>4, Zenon DEF AheadOf
<1>9. CASE Remove
  <2>1. /\ UNCHANGED <<content, written, fd, offset, pc, seek, from_beginning>>
        /\ path' = 0
    BY <1>9 DEF Remove, EngineActs, streamVars, startVars
  <2>2. NextOffset' = NextOffset
    BY <2>1, Zenon DEF NextOffset
  <2>3. QED
    BY <1>6, <2>1, <2>2
<1>10. CASE Truncate
  BY <1>10 DEF Truncate
<1>11. CASE OpenStream
  <2>1. UNCHANGED <<content, written, path, from_beginning, seek>> /\ fd' = path
    BY <1>11 DEF OpenStream, fileVars, startVars
  <2>2. CASE path = 0
    BY <1>2, <2>1, <2>2, Zenon DEF AheadOf
  <2>3. CASE path # 0
    <3>1. path \in Inodes /\ path = born /\ born > 0
      BY <1>0, <2>3 DEF Inodes
    <3>2. pc' \in IdPc
      BY <1>11, <2>3 DEF OpenStream, IdPc
    <3>3. NextOffset' = IF seek THEN Len(content[path]) ELSE 0
      BY <2>1, <3>2 DEF NextOffset
    <3>4. ASSUME ~seek, NEW k \in 1 .. Len(content[path])
          PROVE  n < content[path][k][1]
      <4>1. CASE pc = "rot_open"
        <5>1. fd # 0 /\ path # fd
          BY <2>3, <4>1 DEF PathInv, RotationInv
        <5>2. path \in fd + 1 .. MaxFiles
          BY <1>0, <3>1, <5>1
        <5>3. QED
          BY <1>3, <3>4, <5>1, <5>2
      <4>2. CASE pc \in {"new_open", "poll_open"}
        BY <1>4, <2>3, <3>4, <4>2 DEF PathInv
      <4>3. QED
        BY <1>11, <4>1, <4>2 DEF OpenStream
    <3>5. \A k \in NextOffset' + 1 .. Len(content[path]) : n < content[path][k][1]
      <4>1. CASE seek
        <5>1. NextOffset' = Len(content[path]) /\ Len(content[path]) \in Nat
          BY <1>1, <3>1, <3>3, <4>1
        <5>2. QED
          BY <5>1
      <4>2. CASE ~seek
        <5>1. NextOffset' + 1 = 1
          BY <3>3, <4>2
        <5>2. QED
          BY <3>4, <4>2, <5>1
      <4>3. QED
        BY <4>1, <4>2
    <3>6. ASSUME NEW i \in path + 1 .. MaxFiles, NEW k \in 1 .. Len(content[i])
          PROVE  n < content[i][k][1]
      <4>1. i \in Inodes /\ i > born
        BY <1>0, <3>1 DEF Inodes
      <4>2. content[i] = << >>
        BY <1>1, <4>1
      <4>3. QED
        BY <4>2
    <3>7. fd' # 0
      BY <2>1, <2>3
    <3>8. QED
      BY <1>2, <2>1, <3>5, <3>6, <3>7, Zenon DEF AheadOf
  <2>4. QED
    BY <2>2, <2>3
<1>12. CASE OpenId
  <2>1. /\ UNCHANGED <<content, written, path, fd, from_beginning>> /\ pc \in IdPc
        /\ pc' \notin IdPc
    BY <1>12 DEF OpenId, fileVars, IdPc
  <2>2. NextOffset' = NextOffset
    BY <1>12, <2>1, OpenedAt DEF NextOffset
  <2>3. QED
    BY <1>6, <2>1, <2>2
<1>13. CASE OpenSize \/ PollBegin \/ Exists \/ GetId \/ GetSize
  <2>1. /\ UNCHANGED <<content, written, path, fd, offset, from_beginning>> /\ pc \notin IdPc
        /\ pc' \notin IdPc
    BY <1>13 DEF OpenSize, AfterOpen, PollBegin, Exists, GetId, GetSize, fileVars, streamVars,
                 startVars, IdPc, SizePc
  <2>2. NextOffset' = NextOffset
    BY <2>1, Zenon DEF NextOffset
  <2>3. QED
    BY <1>6, <2>1, <2>2
<1>14. CASE Read
  <2>1. /\ UNCHANGED <<content, written, path, fd, from_beginning>> /\ pc = "read"
        /\ pc' = "idle"
    BY <1>14 DEF Read, fileVars, startVars
  <2>2. NextOffset = offset /\ NextOffset' = offset'
    BY <2>1 DEF NextOffset, IdPc
  <2>3. CASE fd = 0
    BY <1>6, <1>14, <2>1, <2>2, <2>3, ReadNothing
  <2>4. CASE fd # 0
    <3>1. offset' = Len(content[fd])
      BY <1>14, <2>4, ReadFile, Zenon
    <3>2. Len(content[fd]) \in Nat
      BY <1>1, <1>5, <2>4
    <3>3. \A k \in offset' + 1 .. Len(content[fd]) : FALSE
      BY <3>1, <3>2
    <3>4. QED
      BY <1>2, <1>3, <2>1, <2>2, <2>4, <3>3, Zenon DEF AheadOf
  <2>5. QED
    BY <2>3, <2>4
<1>15. CASE Restart
  <2>1. UNCHANGED <<written, from_beginning>> /\ fd' = 0 /\ ~from_beginning
    BY <1>15 DEF Restart, fileVars
  <2>2. QED
    BY <1>2, <2>1, Zenon DEF AheadOf
<1>16. CASE UNCHANGED vars
  <2>1. UNCHANGED <<content, written, path, fd, offset, pc, seek, from_beginning>>
    BY <1>16, Zenon DEF vars, fileVars, streamVars, startVars
  <2>2. NextOffset' = NextOffset
    BY <2>1, Zenon DEF NextOffset
  <2>3. QED
    BY <1>6, <2>1, <2>2
<1>17. QED
  BY <1>7, <1>8, <1>9, <1>10, <1>11, <1>12, <1>13, <1>14, <1>15, <1>16,
     Zenon DEF Next, EngineStep, ReaderStep

\* A line in whose middle a reader started stays one.
LEMMA CutGrows ==
  ASSUME TypeOK, PathInv, [Next]_vars
  PROVE  cut \subseteq cut'
<1>1. CASE OpenId
  BY <1>1, OpenedAt
<1>2. CASE EngineStep
  BY <1>2, Zenon DEF EngineStep, AppendPiece, Create, Remove, Truncate, EngineActs, startVars
<1>3. CASE OpenStream \/ OpenSize \/ PollBegin \/ Exists \/ GetId \/ GetSize \/ Read \/ Restart
  BY <1>3, Zenon DEF OpenStream, OpenSize, PollBegin, Exists, GetId, GetSize, Read, Restart,
                     startVars
<1>4. CASE UNCHANGED vars
  BY <1>4, Zenon DEF vars, startVars
<1>5. QED
  BY <1>1, <1>2, <1>3, <1>4, Zenon DEF Next, ReaderStep

\* Only Read of an open file and a restart change what was delivered.
LEMMA DeliveredStays ==
  ASSUME TypeOK, CarryInv, [Next]_vars, ~(Read /\ fd # 0), ~(Restart /\ from_beginning)
  PROVE  delivered' = delivered
<1>1. CASE EngineStep
  BY <1>1, Zenon DEF EngineStep, AppendPiece, Create, Remove, Truncate, EngineActs
<1>2. CASE OpenStream \/ OpenId \/ OpenSize \/ PollBegin \/ Exists \/ GetId \/ GetSize
  BY <1>2, Zenon DEF OpenStream, OpenId, OpenSize, PollBegin, Exists, GetId, GetSize
<1>3. CASE Read
  BY <1>3, ReadNothing
<1>4. CASE Restart
  BY <1>4, Zenon DEF Restart
<1>5. CASE UNCHANGED vars
  BY <1>5, Zenon DEF vars
<1>6. QED
  BY <1>1, <1>2, <1>3, <1>4, <1>5, Zenon DEF Next, ReaderStep

LEMMA AheadKept ==
  ASSUME TypeOK, PathInv, FilesInv, RotationInv, CarryInv, AheadInv, [Next]_vars, ~truncated'
  PROVE  AheadInv'
<1>1. /\ delivered \in Seq(Seq(Pieces)) /\ Len(delivered) \in Nat
      /\ \A d \in 1 .. Len(delivered) : delivered[d] \in Seq(Pieces)
  BY LenProperties DEF TypeOK
<1>2. \A d \in 1 .. Len(delivered) :
        /\ Whole(delivered[d]) \/ Rest(delivered[d])
        /\ AheadOf(Number(delivered[d]))
        /\ \A e \in 1 .. d - 1 : Number(delivered[e]) < Number(delivered[d])
  BY AheadParts
<1>3. \A d \in 1 .. Len(delivered) : Number(delivered[d]) \in Nat
  BY <1>1, <1>2, NumberType DEF Rest
<1>4. ASSUME NEW l, Rest(l)
      PROVE  Rest(l)'
  BY <1>4, CutGrows DEF Rest
<1>5. CASE Restart /\ from_beginning
  <2>1. delivered' = << >>
    BY <1>5 DEF Restart
  <2>2. Len(delivered') = 0
    BY <2>1
  <2>3. \A d \in 1 .. Len(delivered') : FALSE
    BY <2>2
  <2>4. QED
    BY <2>3, AheadPartsNext, Zenon
<1>6. CASE ~(Restart /\ from_beginning) /\ ~(Read /\ fd # 0)
  <2>1. delivered' = delivered
    BY <1>6, DeliveredStays
  <2>2. \A d \in 1 .. Len(delivered) : AheadOf(Number(delivered[d]))'
    <3> SUFFICES ASSUME NEW d \in 1 .. Len(delivered)
                 PROVE  AheadOf(Number(delivered[d]))'
      OBVIOUS
    <3>1. PICK n \in Nat : n = Number(delivered[d])
      BY <1>3
    <3>2. AheadOf(n)
      BY <1>2, <3>1
    <3>3. AheadOf(n)'
      BY <1>6, <3>2, AheadStep
    <3>4. n = Number(delivered'[d])
      BY <2>1, <3>1
    <3>5. QED
      BY <3>3, <3>4, Zenon DEF AheadOf
  <2>3. \A d \in 1 .. Len(delivered) : Whole(delivered'[d]) \/ Rest(delivered[d])'
    <3> SUFFICES ASSUME NEW d \in 1 .. Len(delivered)
                 PROVE  Whole(delivered'[d]) \/ Rest(delivered[d])'
      OBVIOUS
    <3>1. CASE Whole(delivered[d])
      BY <2>1, <3>1
    <3>2. CASE Rest(delivered[d])
      BY <2>1, <3>2, CutGrows DEF Rest
    <3>3. QED
      BY <1>2, <3>1, <3>2
  <2>4. QED
    BY <1>2, <2>1, <2>2, <2>3, AheadPartsNext, Zenon
<1>7. CASE Read /\ fd # 0
  <2> DEFINE f == content[fd]
             c == Cuts(carry \o Unread)
             L == Len(delivered)
  <2>1. /\ offset' = Len(f)
        /\ delivered' = delivered \o c /\ c \in Seq(Seq(Pieces))
        /\ \A k \in 1 .. Len(c) :
             /\ Whole(c[k]) \/ Rest(c[k])
             /\ \E n \in offset + 1 .. Len(f) : f[n][2] = 2 /\ Number(c[k]) = f[n][1]
        /\ \A j, k \in 1 .. Len(c) : j < k => Number(c[j]) < Number(c[k])
    BY <1>7, ReadFile, Zenon
  <2>2. /\ fd \in Inodes /\ Len(f) \in Nat /\ offset \in Nat
        /\ \A k \in 1 .. Len(f) : f[k] \in Pieces
    BY <1>7, FileTypes, TailAssumption DEF TypeOK, Inodes
  <2>3. UNCHANGED <<content, written, fd, path, from_beginning, cut>> /\ pc' = "idle" /\ pc = "read"
    BY <1>7 DEF Read, fileVars, startVars
  <2>4. NextOffset = offset /\ NextOffset' = Len(f)
    BY <2>1, <2>3 DEF NextOffset, IdPc
  <2> HIDE DEF c
  <2>5. /\ Len(c) \in Nat /\ Len(delivered') = L + Len(c)
        /\ \A d \in 1 .. L : delivered'[d] = delivered[d]
        /\ \A k \in 1 .. Len(c) : delivered'[L + k] = c[k]
    <3>1. Len(c) \in Nat
      BY <2>1, LenProperties
    <3>2. /\ Len(delivered \o c) = L + Len(c)
          /\ \A i \in 1 .. L + Len(c) :
               (delivered \o c)[i] = IF i <= L THEN delivered[i] ELSE c[i - L]
      BY <1>1, <2>1, ConcatProperties
    <3>3. \A d \in 1 .. L : d \in 1 .. L + Len(c) /\ d <= L
      BY <1>1, <3>1
    <3>4. \A k \in 1 .. Len(c) : L + k \in 1 .. L + Len(c) /\ ~(L + k <= L) /\ (L + k) - L = k
      BY <1>1, <3>1
    <3>5. QED
      BY <2>1, <3>1, <3>2, <3>3, <3>4, Zenon
  \* A line just read comes before what is left for later.
  <2>6. ASSUME NEW k \in 1 .. Len(c)
        PROVE  /\ \E m \in Nat : m = Number(c[k]) /\ AheadOf(m)'
               /\ \A d \in 1 .. L : Number(delivered[d]) < Number(c[k])
    <3>1. PICK n \in offset + 1 .. Len(f) : f[n][2] = 2 /\ Number(c[k]) = f[n][1]
      BY <2>1
    <3>2. n \in 1 .. Len(f) /\ f[n] \in Pieces
      BY <2>2, <3>1
    <3>3. PICK m \in Nat : m = f[n][1] /\ Pos(f[n]) = 2 * m
      BY <3>1, <3>2, PieceType, PosType
    <3>4. 2 * m <= written
      BY <2>2, <3>2, <3>3 DEF FilesInv
    <3>5. ASSUME NEW i \in fd + 1 .. MaxFiles, NEW j \in 1 .. Len(content[i])
          PROVE  m < content[i][j][1]
      <4>1. i \in Inodes /\ fd < i
        BY <2>2, TailAssumption DEF Inodes
      <4>2. Pos(f[n]) < Pos(content[i][j])
        BY <2>2, <3>2, <4>1 DEF FilesInv
      <4>3. content[i][j] \in Pieces
        BY <4>1, FileTypes
      <4>4. PICK x \in Nat : x = content[i][j][1]
        BY <4>3, PieceType
      <4>5. Pos(content[i][j]) = 2 * x \/ Pos(content[i][j]) = 2 * x - 1
        BY <4>3, <4>4, PieceType, PosType
      <4>6. m < x
        BY <3>3, <4>2, <4>5
      <4>7. QED
        BY <4>4, <4>6
    <3>6. \A j \in NextOffset' + 1 .. Len(f) : FALSE
      BY <2>2, <2>4
    <3>7. (2 * m <= written)' /\ fd' # 0
      BY <1>7, <2>3, <3>4
    <3>8. AheadOf(m)'
      BY <2>3, <3>5, <3>6, <3>7, Zenon DEF AheadOf
    <3>9. m = Number(c[k])
      BY <3>1, <3>3
    <3>10. ASSUME NEW d \in 1 .. L
           PROVE  Number(delivered[d]) < Number(c[k])
      <4>1. AheadOf(Number(delivered[d]))
        BY <1>2
      <4>2. n \in NextOffset + 1 .. Len(f)
        BY <2>4
      <4>3. QED
        BY <1>7, <3>1, <4>1, <4>2 DEF AheadOf
    <3>11. QED
      BY <3>8, <3>9, <3>10
  <2>7. ASSUME NEW d \in 1 .. Len(delivered'), d \notin 1 .. L
        PROVE  d - L \in 1 .. Len(c) /\ delivered'[d] = c[d - L]
    <3>1. d - L \in 1 .. Len(c) /\ L + (d - L) = d
      BY <1>1, <2>5, <2>7
    <3>2. QED
      BY <2>5, <3>1
  <2> HIDE DEF L
  <2>8. ASSUME NEW d \in 1 .. Len(delivered')
        PROVE  Whole(delivered'[d]) \/ Rest(delivered[d])'
    <3>1. Whole(delivered'[d]) \/ Rest(delivered'[d])
      <4>1. CASE d \in 1 .. L
        BY <1>2, <2>5, <4>1 DEF L
      <4>2. CASE d \notin 1 .. L
        BY <2>1, <2>7, <4>2
      <4>3. QED
        BY <4>1, <4>2
    <3>2. QED
      BY <2>3, <3>1 DEF Rest
  <2>9. ASSUME NEW d \in 1 .. Len(delivered')
        PROVE  AheadOf(Number(delivered[d]))'
    <3>1. CASE d \in 1 .. L
      <4>1. PICK n \in Nat : n = Number(delivered[d])
        BY <1>3, <3>1 DEF L
      <4>2. AheadOf(n)
        BY <1>2, <3>1, <4>1 DEF L
      <4>3. AheadOf(n)'
        <5>1. ~Restart
          BY <1>7 DEF Read, Restart
        <5>2. QED
          BY <4>2, <5>1, AheadStep
      <4>4. n = Number(delivered'[d])
        BY <2>5, <3>1, <4>1
      <4>5. QED
        BY <4>3, <4>4, Zenon DEF AheadOf
    <3>2. CASE d \notin 1 .. L
      <4>1. d - L \in 1 .. Len(c) /\ delivered'[d] = c[d - L]
        BY <2>7, <3>2
      <4>2. PICK m \in Nat : m = Number(c[d - L]) /\ AheadOf(m)'
        BY <2>6, <4>1
      <4>3. m = Number(delivered'[d])
        BY <4>1, <4>2
      <4>4. QED
        BY <4>2, <4>3, Zenon DEF AheadOf
    <3>3. QED
      BY <3>1, <3>2
  <2>10. ASSUME NEW d \in 1 .. Len(delivered'), NEW e \in 1 .. d - 1
         PROVE  Number(delivered'[e]) < Number(delivered'[d])
    <3>1. L \in Nat /\ e \in 1 .. Len(delivered') /\ d \in Nat /\ e \in Nat /\ e < d
      BY <1>1, <2>5 DEF L
    <3>2. CASE d \in 1 .. L
      <4>1. e \in 1 .. L
        BY <3>1, <3>2
      <4>2. Number(delivered[e]) < Number(delivered[d])
        BY <1>2, <3>2 DEF L
      <4>3. QED
        BY <2>5, <3>2, <4>1, <4>2
    <3>3. CASE d \notin 1 .. L /\ e \in 1 .. L
      <4>1. d - L \in 1 .. Len(c) /\ delivered'[d] = c[d - L]
        BY <2>7, <3>3
      <4>2. Number(delivered[e]) < Number(c[d - L])
        BY <2>6, <3>3, <4>1
      <4>3. QED
        BY <2>5, <3>3, <4>1, <4>2
    <3>4. CASE d \notin 1 .. L /\ e \notin 1 .. L
      <4>1. d - L \in 1 .. Len(c) /\ delivered'[d] = c[d - L]
        BY <2>7, <3>4
      <4>2. e - L \in 1 .. Len(c) /\ delivered'[e] = c[e - L]
        BY <2>7, <3>1, <3>4
      <4>3. e - L < d - L
        BY <3>1
      <4>4. Number(c[e - L]) < Number(c[d - L])
        BY <2>1, <4>1, <4>2, <4>3
      <4>5. QED
        BY <4>1, <4>2, <4>4
    <3>5. QED
      BY <3>2, <3>3, <3>4
  <2>11. QED
    BY <2>8, <2>9, <2>10, AheadPartsNext, Zenon
<1>8. QED
  BY <1>5, <1>6, <1>7

-----------------------------------------------------------------------------
(* The theorems. *)

\* What the engine has written before the collector starts.
LEMMA FirstFile ==
  ASSUME NEW n \in 0 .. 2 * MaxLines, NEW f, f = [k \in 1 .. n |-> Piece(k)]
  PROVE  /\ f \in Seq(Pieces) /\ Len(f) = n /\ Clean(f)
         /\ \A k \in 1 .. n : Pos(f[k]) = k
<1>0. n \in Nat /\ MaxLines \in Nat
  BY TailAssumption
<1>1. \A k \in 1 .. n : /\ k \in 1 .. 2 * MaxLines /\ f[k] = Piece(k)
                        /\ Piece(k) \in Pieces /\ Pos(Piece(k)) = k
                        /\ Piece(k)[2] = 1 <=> k % 2 = 1
  <2> TAKE k \in 1 .. n
  <2>1. k \in 1 .. 2 * MaxLines
    BY <1>0
  <2>2. QED
    BY <2>1, PieceFacts
<1>2. f \in [1 .. n -> Pieces]
  BY <1>1
<1>3. f \in Seq(Pieces) /\ Len(f) = n
  <2>1. f \in Seq(Pieces)
    BY <1>0, <1>2, SeqDef
  <2>2. QED
    BY <1>0, <2>1
<1>4. ASSUME NEW k \in 1 .. n
      PROVE  /\ f[k][2] = 1 <=> k % 2 = 1
             /\ k % 2 = 0 => f[k][1] = f[k - 1][1]
             /\ \A j \in 1 .. k - 1 : Pos(f[j]) < Pos(f[k])
  <2>1. f[k][2] = 1 <=> k % 2 = 1
    BY <1>1
  <2>2. ASSUME k % 2 = 0
        PROVE  f[k][1] = f[k - 1][1]
    <3>1. k - 1 \in 1 .. n
      BY <1>0, <2>2
    <3>2. f[k] = Piece(k) /\ f[k - 1] = Piece(k - 1)
      BY <1>1, <3>1
    <3>3. Piece(k)[1] = (k + 1) \div 2 /\ Piece(k - 1)[1] = ((k - 1) + 1) \div 2
      BY DEF Piece
    <3>4. (k + 1) \div 2 = ((k - 1) + 1) \div 2
      BY <2>2
    <3>5. QED
      BY <3>2, <3>3, <3>4
  <2>3. ASSUME NEW j \in 1 .. k - 1
        PROVE  Pos(f[j]) < Pos(f[k])
    <3>1. j \in 1 .. n /\ j < k
      BY <1>0
    <3>2. Pos(f[j]) = j /\ Pos(f[k]) = k
      BY <1>1, <3>1
    <3>3. QED
      BY <3>1, <3>2
  <2>4. QED
    BY <2>1, <2>2, <2>3
<1>5. Clean(f)
  BY <1>3, <1>4, Zenon DEF Clean
<1>6. \A k \in 1 .. n : Pos(f[k]) = k
  BY <1>1
<1>7. QED
  BY <1>3, <1>5, <1>6

LEMMA InitHolds == Init => IInv
<1> SUFFICES ASSUME Init
             PROVE  IInv
  OBVIOUS
<1>0. /\ MaxFiles \in Nat \ {0} /\ MaxLines \in Nat /\ MaxRestarts \in Nat
      /\ written \in 0 .. 2 * MaxLines /\ written \in Nat
  BY TailAssumption DEF Init
<1> DEFINE f == [k \in 1 .. written |-> Piece(k)]
<1>1. /\ f \in Seq(Pieces) /\ Len(f) = written /\ Clean(f)
      /\ \A k \in 1 .. written : Pos(f[k]) = k
  BY <1>0, FirstFile
<1>2. /\ content = [i \in Inodes |-> IF i = path THEN f ELSE << >>]
      /\ path \in {0, 1} /\ born = path /\ (path = 0 => written = 0)
  BY DEF Init
<1> HIDE DEF f
<1>3. \A i \in Inodes : content[i] = IF i = path THEN f ELSE << >>
  BY <1>2
<1>4. << >> \in Seq(Pieces) /\ Len(<< >>) = 0 /\ Clean(<< >>)
  BY EmptySeq DEF Clean
<1>5. TypeOK
  <2>1. content \in [Inodes -> Seq(Pieces)]
    BY <1>1, <1>2, <1>4
  <2>2. path \in 0 .. MaxFiles /\ born \in 0 .. MaxFiles
    BY <1>0, <1>2
  <2>3. 0 \in 0 .. 2 * MaxLines /\ 0 \in 0 .. MaxFiles /\ 0 \in 0 .. MaxRestarts
    BY <1>0
  <2>4. << >> \in Seq(Seq(Pieces)) /\ {} \subseteq 1 .. MaxLines
    BY EmptySeq
  <2>5. pc \in Pc /\ seek \in BOOLEAN
    BY DEF Init, Pc
  <2>6. QED
    BY <1>0, <1>4, <2>1, <2>2, <2>3, <2>4, <2>5, Zenon DEF Init, TypeOK
<1>6. PathInv
  <2>1. \A i \in Inodes : Len(content[i]) <= written /\ (i > born => content[i] = << >>)
    <3> SUFFICES ASSUME NEW i \in Inodes
                 PROVE  Len(content[i]) <= written /\ (i > born => content[i] = << >>)
      OBVIOUS
    <3>1. CASE i = path
      BY <1>0, <1>1, <1>2, <1>3, <3>1 DEF Inodes
    <3>2. CASE i # path
      BY <1>0, <1>3, <1>4, <3>2
    <3>3. QED
      BY <3>1, <3>2
  <2>2. fd = 0 /\ offset = 0 /\ last_size = 0 /\ pc = "new_open" /\ seek = ~from_beginning
    BY DEF Init
  <2>3. path \in {0, born} /\ fd <= born /\ offset <= written /\ last_size <= written
    BY <1>0, <1>2, <2>2
  <2>4. QED
    BY <2>1, <2>2, <2>3 DEF PathInv, IdPc, SizePc
<1>7. FilesInv
  <2>1. \A i \in Inodes : Clean(content[i])
    BY <1>1, <1>3, <1>4
  <2>2. ASSUME NEW i \in Inodes, NEW j \in Inodes, i < j,
               NEW k \in 1 .. Len(content[i]), NEW l \in 1 .. Len(content[j])
        PROVE  FALSE
    <3>1. i # path \/ j # path
      BY <2>2 DEF Inodes
    <3>2. content[i] = << >> \/ content[j] = << >>
      BY <1>3, <3>1
    <3>3. QED
      BY <3>2
  <2>3. ASSUME NEW i \in Inodes, NEW k \in 1 .. Len(content[i])
        PROVE  Pos(content[i][k]) <= written
    <3>1. CASE i = path
      BY <1>0, <1>1, <1>3, <3>1
    <3>2. CASE i # path
      BY <1>3, <1>4, <3>2
    <3>3. QED
      BY <3>1, <3>2
  <2>4. path = 0 => written % 2 = 0
    BY <1>2
  <2>5. ASSUME path # 0
        PROVE  /\ Len(content[path]) % 2 = written % 2
               /\ written % 2 = 1 => Pos(content[path][Len(content[path])]) = written
    <3>1. path \in Inodes
      BY <1>0, <1>2, <2>5 DEF Inodes
    <3>2. content[path] = f
      BY <1>3, <3>1
    <3>3. ASSUME written % 2 = 1
          PROVE  Pos(f[written]) = written
      <4>1. written \in 1 .. written
        BY <1>0, <3>3
      <4>2. QED
        BY <1>1, <4>1
    <3>4. QED
      BY <1>1, <3>2, <3>3
  <2>6. QED
    BY <2>1, <2>2, <2>3, <2>4, <2>5, Zenon DEF FilesInv
<1>8. RotationInv
  BY DEF Init, RotationInv
<1>9. CarryInv
  BY DEF Init, CarryInv
<1>10. AheadInv
  BY DEF Init, AheadInv
<1>11. QED
  BY <1>5, <1>6, <1>7, <1>8, <1>9, <1>10 DEF IInv

LEMMA NextKeeps == IInv /\ [Next]_vars => IInv'
<1> SUFFICES ASSUME IInv, [Next]_vars
             PROVE  IInv'
  OBVIOUS
<1>1. TypeOK /\ PathInv
  BY DEF IInv
<1>2. TypeOK' /\ PathInv'
  BY <1>1, TypeKept, PathKept
<1>3. ASSUME ~truncated'
      PROVE  (FilesInv /\ RotationInv /\ CarryInv /\ AheadInv)'
  <2>1. ~truncated
    <3>1. CASE EngineStep
      BY <1>3, <3>1 DEF EngineStep, AppendPiece, Create, Remove, Truncate
    <3>2. CASE ReaderStep \/ Restart \/ UNCHANGED vars
      BY <1>3, <3>2, ReaderLeavesFiles
    <3>3. QED
      BY <3>1, <3>2 DEF Next
  <2>2. FilesInv /\ RotationInv /\ CarryInv /\ AheadInv
    BY <2>1 DEF IInv
  <2>3. QED
    BY <1>1, <1>3, <2>2, FilesKept, RotationKept, CarryKept, AheadKept
<1>4. QED
  BY <1>2, <1>3 DEF IInv

(***************************************************************************)
(* The invariant holds in every state, for any number of files, lines and  *)
(* restarts.                                                               *)
(***************************************************************************)
THEOREM Invariance == Spec => []IInv
BY InitHolds, NextKeeps, PTL DEF Spec

(***************************************************************************)
(* No line is handed downstream in part, twice or out of order, whatever   *)
(* the engine appends, rotates or removes between two steps of a poll,     *)
(* unless it truncated a log in place.                                     *)
(***************************************************************************)
THEOREM LinesHold == Spec => []LinesInOrder
<1>1. ASSUME IInv
      PROVE  LinesInOrder
  <2>1. ASSUME ~truncated
        PROVE  /\ \A k \in 1 .. Len(delivered) : Whole(delivered[k]) \/ Rest(delivered[k])
               /\ \A j, k \in 1 .. Len(delivered) :
                    j < k => Number(delivered[j]) < Number(delivered[k])
    <3>1. AheadInv
      BY <1>1, <2>1 DEF IInv
    <3>2. \A k \in 1 .. Len(delivered) : Whole(delivered[k]) \/ Rest(delivered[k])
      BY <3>1, Zenon DEF AheadInv
    <3>3. ASSUME NEW j \in 1 .. Len(delivered), NEW k \in 1 .. Len(delivered), j < k
          PROVE  Number(delivered[j]) < Number(delivered[k])
      <4>1. j \in 1 .. k - 1
        BY <3>3
      <4>2. QED
        BY <3>1, <4>1, Zenon DEF AheadInv
    <3>4. QED
      BY <3>2, <3>3
  <2>2. QED
    BY <2>1, Zenon DEF LinesInOrder
<1>2. QED
  BY <1>1, Invariance, PTL
=============================================================================
