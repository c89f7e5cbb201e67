--------------------------- MODULE ChatHostProofs ---------------------------
(***************************************************************************)
(* Proofs about ChatHost, for any requests, users and limits.              *)
(*                                                                         *)
(* The steps that touch the lists are few: one makes a conversation, four  *)
(* append, one makes a trimmed list and one assigns it.  What each of them *)
(* does is said once, and every part of the invariant is then kept step by *)
(* step.                                                                   *)
(***************************************************************************)
EXTENDS ChatHostInv, SequenceTheorems, FiniteSetTheorems, WellFoundedInduction, TLAPS

-----------------------------------------------------------------------------
(* Turns: what an append and a trim do to a history. *)

\* The fields of a message.
LEMMA MessageType ==
  ASSUME NEW m \in Messages
  PROVE  m.kind \in Kinds /\ m.by \in Requests /\ m.round \in Nat /\ m.n \in Nat
BY DEF Messages

\* There is a least number in a set of numbers.
LEMMA Least ==
  ASSUME NEW T \in SUBSET Nat, T # {}
  PROVE  \E x \in T : \A y \in T : x <= y
<1> DEFINE R == {ss \in Nat \X Nat : ss[1] < ss[2]}
<1>1. IsWellFoundedOn(R, Nat)
  BY NatLessThanWellFounded, Zenon DEF OpToRel
<1> HIDE DEF R
<1>2. PICK x \in T : \A y \in T : ~(<<y, x>> \in R)
  BY <1>1, WFMin, Zenon
<1> USE DEF R
<1>3. \A y \in T : ~(y < x)
  BY <1>2
<1>4. QED
  BY <1>3

\* What is said of a call and of a result holds of every longer history.
LEMMA Longer ==
  ASSUME NEW h, NEW t, Len(h) \in Nat, Len(t) \in Nat, Len(t) >= Len(h),
         \A i \in 1 .. Len(h) : t[i] = h[i] /\ h[i] \in Messages,
         NEW p \in Nat, TurnsBut(h, p), NEW i \in 1 .. Len(h)
  PROVE  /\ t[i].kind = "calls" /\ i # p => Answered(t, i)
         /\ t[i].kind = "result" => Belongs(t, i)
<1>1. t[i] = h[i] /\ h[i].n \in Nat
  BY MessageType
<1>2. ASSUME t[i].kind = "calls", i # p
      PROVE  Answered(t, i)
  <2>1. Answered(h, i)
    BY <1>1, <1>2 DEF TurnsBut
  <2>2. i + h[i].n <= Len(h) /\ i + t[i].n <= Len(t)
    BY <1>1, <2>1 DEF Answered
  <2>3. ASSUME NEW k \in 1 .. h[i].n
        PROVE  t[i + k] = [kind |-> "result", by |-> h[i].by, round |-> h[i].round, n |-> k]
    <3>1. i + k \in 1 .. Len(h)
      BY <1>1, <2>2
    <3>2. t[i + k] = h[i + k]
      BY <3>1
    <3>3. QED
      BY <2>1, <3>2 DEF Answered
  <2>4. QED
    BY <1>1, <2>2, <2>3, Zenon DEF Answered
<1>3. ASSUME t[i].kind = "result"
      PROVE  Belongs(t, i)
  <2>1. Belongs(h, i)
    BY <1>1, <1>3 DEF TurnsBut
  <2>2. i - h[i].n \in 1 .. Len(h)
    BY <2>1 DEF Belongs
  <2>3. t[i - h[i].n] = h[i - h[i].n]
    BY <2>2
  <2>4. QED
    BY <1>1, <2>1, <2>3 DEF Belongs
<1>4. QED
  BY <1>2, <1>3

\* A message that is neither a call nor a result.
LEMMA PlainAppended ==
  ASSUME NEW h, NEW t, Len(h) \in Nat, Len(t) = Len(h) + 1,
         \A i \in 1 .. Len(h) : t[i] = h[i] /\ h[i] \in Messages,
         t[Len(h) + 1].kind \in {"user", "reply"}, TurnsBut(h, 0)
  PROVE  TurnsBut(t, 0)
<1> SUFFICES ASSUME NEW i \in 1 .. Len(t)
             PROVE  /\ t[i].kind = "calls" => Answered(t, i)
                    /\ t[i].kind = "result" => Belongs(t, i)
  BY DEF TurnsBut
<1>1. CASE i = Len(h) + 1
  BY <1>1
<1>2. CASE i \in 1 .. Len(h)
  <2>1. Len(t) \in Nat /\ Len(t) >= Len(h) /\ 0 \in Nat /\ i # 0
    BY <1>2
  <2>2. QED
    BY <1>2, <2>1, Longer
<1>3. QED
  BY <1>1, <1>2

\* A call opens a turn.
LEMMA CallAppended ==
  ASSUME NEW h, NEW t, NEW m \in Messages, Len(h) \in Nat, Len(t) = Len(h) + 1,
         \A i \in 1 .. Len(h) : t[i] = h[i] /\ h[i] \in Messages,
         t[Len(h) + 1] = m, m.kind = "calls", TurnsBut(h, 0)
  PROVE  OpenTurn(t, 0, m)
<1>1. ASSUME NEW i \in 1 .. Len(t)
      PROVE  /\ t[i].kind = "calls" /\ i # Len(t) => Answered(t, i)
             /\ t[i].kind = "result" => Belongs(t, i)
  <2>1. CASE i = Len(h) + 1
    BY <2>1
  <2>2. CASE i \in 1 .. Len(h)
    <3>1. Len(t) \in Nat /\ Len(t) >= Len(h) /\ 0 \in Nat /\ i # 0
      BY <2>2
    <3>2. QED
      BY <2>2, <3>1, Longer
  <2>3. QED
    BY <2>1, <2>2
<1>2. TurnsBut(t, Len(t))
  BY <1>1 DEF TurnsBut
<1>3. Len(t) - 0 = Len(t) /\ Len(t) > 0 /\ t[Len(t)] = m /\ \A j : j \notin 1 .. 0
  OBVIOUS
<1>4. QED
  BY <1>2, <1>3, Zenon DEF OpenTurn

\* A result goes on with the turn.
LEMMA ResultAppended ==
  ASSUME NEW h, NEW t, NEW k \in Nat, NEW m \in Messages, Len(h) \in Nat, Len(t) = Len(h) + 1,
         \A i \in 1 .. Len(h) : t[i] = h[i] /\ h[i] \in Messages,
         t[Len(h) + 1] = [kind |-> "result", by |-> m.by, round |-> m.round, n |-> k + 1],
         m.kind = "calls", k < m.n, OpenTurn(h, k, m)
  PROVE  OpenTurn(t, k + 1, m)
<1> DEFINE p == Len(h) - k
<1>0. Len(h) > k
  BY DEF OpenTurn
<1>1. /\ p \in 1 .. Len(h) /\ Len(t) - (k + 1) = p /\ Len(t) > k + 1
      /\ p + k = Len(h) /\ p + (k + 1) = Len(t)
  BY <1>0
<1>2. /\ h[p] = m
      /\ \A j \in 1 .. k : h[p + j] = [kind |-> "result", by |-> m.by, round |-> m.round, n |-> j]
      /\ TurnsBut(h, p)
  BY Zenon DEF OpenTurn
<1> HIDE DEF p
<1>3. t[p] = m
  BY <1>1, <1>2
<1>4. ASSUME NEW j \in 1 .. k + 1
      PROVE  t[p + j] = [kind |-> "result", by |-> m.by, round |-> m.round, n |-> j]
  <2>1. CASE j = k + 1
    BY <1>1, <2>1
  <2>2. CASE j \in 1 .. k
    <3>1. p + j \in 1 .. Len(h)
      BY <1>1, <2>2
    <3>2. t[p + j] = h[p + j]
      BY <3>1
    <3>3. QED
      BY <1>2, <2>2, <3>2
  <2>3. QED
    BY <2>1, <2>2
<1>5. ASSUME NEW i \in 1 .. Len(t)
      PROVE  /\ t[i].kind = "calls" /\ i # p => Answered(t, i)
             /\ t[i].kind = "result" => Belongs(t, i)
  <2>1. CASE i = Len(h) + 1
    <3>1. t[i].kind = "result" /\ t[i].n = k + 1 /\ t[i].by = m.by /\ t[i].round = m.round
      BY <2>1
    <3>2. i - (k + 1) = p /\ k + 1 \in 1 .. i - 1 /\ k + 1 <= m.n
      BY <1>1, <2>1, MessageType
    <3>3. QED
      BY <1>3, <3>1, <3>2 DEF Belongs
  <2>2. CASE i \in 1 .. Len(h)
    <3>1. Len(t) \in Nat /\ Len(t) >= Len(h) /\ p \in Nat
      BY <1>1
    <3>2. QED
      BY <1>2, <2>2, <3>1, Longer
  <2>3. QED
    BY <2>1, <2>2
<1>6. TurnsBut(t, p)
  BY <1>5 DEF TurnsBut
<1>7. QED
  BY <1>1, <1>3, <1>4, <1>6, Zenon DEF OpenTurn

\* The last result closes it.
LEMMA TurnClosed ==
  ASSUME NEW h, NEW m \in Messages, Len(h) \in Nat, m.kind = "calls", OpenTurn(h, m.n, m)
  PROVE  TurnsBut(h, 0)
<1> DEFINE p == Len(h) - m.n
<1>1. /\ m.n \in Nat /\ p \in 1 .. Len(h) /\ h[p] = m /\ p + m.n = Len(h)
      /\ \A j \in 1 .. m.n : h[p + j] = [kind |-> "result", by |-> m.by, round |-> m.round, n |-> j]
      /\ TurnsBut(h, p)
  BY MessageType DEF OpenTurn
<1> HIDE DEF p
<1>2. Answered(h, p)
  BY <1>1 DEF Answered
<1>3. QED
  BY <1>1, <1>2 DEF TurnsBut

\* The trimmed history is an end of the history that no result begins.
LEMMA TrimmedIs ==
  ASSUME NEW h \in Seq(Messages), Len(h) > max_messages
  PROVE  \E f \in 1 .. Len(h) + 1 :
           /\ f <= Len(h) => h[f].kind # "result"
           /\ Trimmed(h) \in Seq(Messages)
           /\ Len(Trimmed(h)) = Len(h) + 1 - f
           /\ \A i \in 1 .. Len(h) + 1 - f : Trimmed(h)[i] = h[f + i - 1]
<1> DEFINE over == Len(h) - max_messages
           OK(i) == /\ i <= Len(h) => h[i].kind # "result"
                    /\ \A j \in over + 1 .. i - 1 : h[j].kind = "result"
           T == {i \in over + 1 .. Len(h) + 1 : i <= Len(h) => h[i].kind # "result"}
<1>1. Len(h) \in Nat /\ max_messages \in Nat /\ over \in Nat /\ over + 1 <= Len(h) + 1
  BY ChatAssumption, LenProperties
<1>2. T \in SUBSET Nat /\ Len(h) + 1 \in T
  BY <1>1
<1>3. PICK x \in T : \A y \in T : x <= y
  BY <1>2, Least
<1>4. x \in over + 1 .. Len(h) + 1 /\ OK(x)
  <2>1. x \in over + 1 .. Len(h) + 1 /\ (x <= Len(h) => h[x].kind # "result")
    OBVIOUS
  <2>2. ASSUME NEW j \in over + 1 .. x - 1
        PROVE  h[j].kind = "result"
    <3>1. j \in over + 1 .. Len(h) + 1 /\ j < x /\ j <= Len(h)
      BY <1>1, <2>1
    <3>2. j \notin T
      BY <1>3, <3>1
    <3>3. QED
      BY <3>1, <3>2
  <2>3. QED
    BY <2>1, <2>2
<1> DEFINE f == CHOOSE i \in over + 1 .. Len(h) + 1 : OK(i)
<1>5. f \in over + 1 .. Len(h) + 1 /\ OK(f)
  BY <1>4, Zenon
<1>6. Trimmed(h) = SubSeq(h, f, Len(h))
  <2>1. ~(Len(h) <= max_messages)
    BY <1>1
  <2>2. QED
    BY <2>1, Zenon DEF Trimmed
<1>7. f \in 1 .. Len(h) + 1 /\ (f <= Len(h) => h[f].kind # "result")
  BY <1>1, <1>5
<1> HIDE DEF f, over, OK, T
<1>8. /\ SubSeq(h, f, Len(h)) \in Seq(Messages)
      /\ Len(SubSeq(h, f, Len(h))) = IF f <= Len(h) THEN Len(h) - f + 1 ELSE 0
      /\ \A i \in 1 .. Len(h) - f + 1 : SubSeq(h, f, Len(h))[i] = h[f + i - 1]
  <2>1. \A i \in f .. Len(h) : h[i] \in Messages
    BY <1>1, <1>7, ElementOfSeq
  <2>2. f \in Int /\ Len(h) \in Int
    BY <1>1, <1>7
  <2>3. QED
    BY <2>1, <2>2, SubSeqProperties
<1>9. Len(h) + 1 - f = Len(h) - f + 1 /\ (~(f <= Len(h)) => Len(h) + 1 - f = 0)
  BY <1>1, <1>7
<1>10. QED
  BY <1>1, <1>6, <1>7, <1>8, <1>9

\* Every message of it is a message of the history.
LEMMA TrimmedFrom ==
  ASSUME NEW h \in Seq(Messages), Len(h) > max_messages
  PROVE  \A i \in 1 .. Len(Trimmed(h)) : \E j \in 1 .. Len(h) : Trimmed(h)[i] = h[j]
<1>1. PICK f \in 1 .. Len(h) + 1 :
        /\ Len(Trimmed(h)) = Len(h) + 1 - f
        /\ \A i \in 1 .. Len(h) + 1 - f : Trimmed(h)[i] = h[f + i - 1]
  BY TrimmedIs
<1>2. Len(h) \in Nat
  BY LenProperties
<1>3. ASSUME NEW i \in 1 .. Len(Trimmed(h))
      PROVE  \E j \in 1 .. Len(h) : Trimmed(h)[i] = h[j]
  <2>1. i \in 1 .. Len(h) + 1 - f /\ f + i - 1 \in 1 .. Len(h)
    BY <1>1, <1>2
  <2>2. Trimmed(h)[i] = h[f + i - 1]
    BY <1>1, <2>1
  <2>3. QED
    BY <2>1, <2>2
<1>4. QED
  BY <1>3

\* The cut leaves whole turns: the first message that is left is no result, so
\* that the results of a call that was cut off are cut off with it.
LEMMA TrimmedWhole ==
  ASSUME NEW h \in Seq(Messages), Len(h) > max_messages, TurnsBut(h, 0)
  PROVE  TurnsBut(Trimmed(h), 0)
<1> DEFINE t == Trimmed(h)
<1>1. PICK f \in 1 .. Len(h) + 1 :
        /\ f <= Len(h) => h[f].kind # "result"
        /\ Len(t) = Len(h) + 1 - f
        /\ \A i \in 1 .. Len(h) + 1 - f : t[i] = h[f + i - 1]
  BY TrimmedIs
<1>2. Len(h) \in Nat /\ \A i \in 1 .. Len(h) : h[i] \in Messages
  BY LenProperties, ElementOfSeq
<1> HIDE DEF t
<1> SUFFICES ASSUME NEW i \in 1 .. Len(t)
             PROVE  /\ t[i].kind = "calls" => Answered(t, i)
                    /\ t[i].kind = "result" => Belongs(t, i)
  BY DEF TurnsBut, t
<1> DEFINE j == f + i - 1
<1>3. j \in f .. Len(h) /\ j \in 1 .. Len(h) /\ t[i] = h[j] /\ i = j + 1 - f
  BY <1>1, <1>2
<1>4. h[j].n \in Nat
  BY <1>2, <1>3, MessageType
<1> HIDE DEF j
<1>5. ASSUME t[i].kind = "calls"
      PROVE  Answered(t, i)
  <2>1. Answered(h, j)
    BY <1>3, <1>5 DEF TurnsBut
  <2>2. i + h[j].n <= Len(t)
    BY <1>1, <1>2, <1>3, <1>4, <2>1 DEF Answered
  <2>3. ASSUME NEW k \in 1 .. h[j].n
        PROVE  t[i + k] = h[j + k]
    <3>1. i + k \in 1 .. Len(h) + 1 - f /\ f + (i + k) - 1 = j + k
      BY <1>1, <1>2, <1>3, <1>4, <2>2
    <3>2. QED
      BY <1>1, <3>1
  <2>4. QED
    BY <1>3, <2>1, <2>2, <2>3 DEF Answered
<1>6. ASSUME t[i].kind = "result"
      PROVE  Belongs(t, i)
  <2> DEFINE c == j - h[j].n
  <2>1. /\ h[j].n \in 1 .. j - 1 /\ c \in 1 .. Len(h) /\ c < j
        /\ h[c].kind = "calls" /\ h[c].by = h[j].by /\ h[c].round = h[j].round
        /\ h[j].n <= h[c].n /\ h[c].n \in Nat
    <3>1. Belongs(h, j)
      BY <1>3, <1>6 DEF TurnsBut
    <3>2. c \in 1 .. Len(h) /\ c < j
      BY <1>3, <3>1 DEF Belongs
    <3>3. QED
      BY <1>2, <3>1, <3>2, MessageType DEF Belongs
  <2>0. c = j - h[j].n
    OBVIOUS
  <2> HIDE DEF c
  <2>2. Answered(h, c)
    BY <2>1 DEF TurnsBut
  <2>3. c >= f
    <3> SUFFICES ASSUME c < f
                 PROVE  FALSE
      BY <1>1, <2>1
    <3>1. c \in Int /\ f \in Int /\ j \in Int /\ f <= j /\ j <= Len(h) /\ Len(h) \in Nat
      BY <1>1, <1>2, <1>3, <2>1
    <3>2. f - c \in 1 .. h[c].n /\ c + (f - c) = f /\ f <= Len(h)
      <4>1. ASSUME NEW x \in Int, NEW y \in Int, NEW z \in Int, NEW u \in Int, NEW v \in Int,
                   x = z - u, u <= v, x < y, y <= z
            PROVE  y - x \in 1 .. v /\ x + (y - x) = y
        BY <4>1
      <4>2. h[j].n \in Int /\ h[c].n \in Int /\ h[j].n <= h[c].n
        BY <1>4, <2>1
      <4>3. f - c \in 1 .. h[c].n /\ c + (f - c) = f
        BY <2>0, <3>1, <4>1, <4>2
      <4>4. QED
        BY <3>1, <4>3
    <3>3. h[c + (f - c)] = [kind |-> "result", by |-> h[c].by, round |-> h[c].round, n |-> f - c]
      BY <2>2, <3>2, Zenon DEF Answered
    <3>4. h[f].kind = "result" /\ f <= Len(h)
      BY <3>2, <3>3
    <3>5. QED
      BY <1>1, <3>4
  <2>4. h[j].n \in 1 .. i - 1 /\ i - h[j].n = c + 1 - f /\ c + 1 - f \in 1 .. Len(h) + 1 - f
    BY <1>1, <1>2, <1>3, <2>1, <2>3 DEF c
  <2>5. t[i - h[j].n] = h[c]
    <3>1. f + (c + 1 - f) - 1 = c
      BY <1>1, <2>1
    <3>2. QED
      BY <1>1, <2>4, <3>1
  <2>6. QED
    BY <1>3, <2>1, <2>4, <2>5 DEF Belongs
<1>7. QED
  BY <1>5, <1>6

-----------------------------------------------------------------------------
(* What a step does, entry by entry. *)

SameCounts(r) == rounds'[r] = rounds[r] /\ asked'[r] = asked[r] /\ done'[r] = done[r]

Same(q) ==
  /\ pc'[q] = pc[q] /\ conv'[q] = conv[q] /\ fetched'[q] = fetched[q] /\ since'[q] = since[q]
  /\ SameCounts(q)

\* What holds of every step of a request.
Frame(r) ==
  /\ pc[r] \notin Finished /\ pc'[r] # "idle"
  /\ \A q \in Requests \ {r} : Same(q)
  /\ audit \subseteq audit' /\ shared \subseteq shared'
  /\ resets' = resets /\ crossed' = crossed
  /\ pc[r] # "idle" => conv'[r] = conv[r] /\ since'[r] = since[r] /\ shared' = shared

NoLists == UNCHANGED <<owner, messages, lists>>

\* The arrival.
Arrives(r) ==
  /\ pc[r] = "idle" /\ fetched'[r] = fetched[r] /\ since'[r] = resets
  /\ SameCounts(r)

Made(r) ==
  /\ Arrives(r) /\ pc'[r] = "question" /\ shared' = shared
  /\ stored = 0 /\ stored' = Len(owner) + 1 /\ conv'[r] = Len(owner) + 1
  /\ owner' \in Seq({UserOf[q] : q \in Requests}) /\ Len(owner') = Len(owner) + 1
  /\ \A c \in Objects : owner'[c] = owner[c]
  /\ owner'[Len(owner) + 1] = UserOf[r]
  /\ messages' \in Seq(1 .. Len(lists) + 1) /\ Len(messages') = Len(owner) + 1
  /\ \A c \in Objects : messages'[c] = messages[c]
  /\ messages'[Len(owner) + 1] = Len(lists) + 1
  /\ lists' \in Seq(Seq(Messages)) /\ Len(lists') = Len(lists) + 1
  /\ \A l \in 1 .. Len(lists) : lists'[l] = lists[l]
  /\ lists'[Len(lists) + 1] = << >>

Took(r) ==
  /\ Arrives(r) /\ pc'[r] = "question" /\ NoLists
  /\ stored # 0 /\ owner[stored] = UserOf[r] /\ stored' = stored /\ conv'[r] = stored
  /\ shared' = shared \cup ({conv[q] : q \in Serving} \cap {stored})

Denied(r) ==
  /\ Arrives(r) /\ pc'[r] = "denied" /\ NoLists
  /\ stored' = stored /\ conv'[r] = conv[r] /\ shared' = shared

\* A step that leaves the lists alone.
Walks(r) ==
  /\ NoLists /\ stored' = stored /\ fetched'[r] = fetched[r]
  /\ \/ /\ pc[r] = "denied" /\ pc'[r] = "refused" /\ SameCounts(r)
        /\ <<"access_denied", r, rounds[r], 0>> \in audit'
     \/ /\ pc[r] = "question" /\ pc'[r] = "ask" /\ SameCounts(r)
        /\ <<"question", r, rounds[r], 0>> \in audit'
     \/ /\ pc[r] = "tool" /\ pc'[r] = "result" /\ SameCounts(r)
        /\ <<"tool_call", r, rounds[r], done[r] + 1>> \in audit'
     \/ /\ pc[r] \in {"denied", "question", "connect", "complete"} /\ pc'[r] = "failed"
        /\ SameCounts(r)
     \/ pc[r] = "tool" /\ pc'[r] = "torn" /\ SameCounts(r)
     \/ pc[r] \in {"connect", "loop"} /\ pc'[r] = "complete" /\ done'[r] = done[r]
     \/ pc[r] \in {"connect", "loop"} /\ pc'[r] = "save" /\ SameCounts(r)
     \/ /\ pc[r] = "complete" /\ rounds'[r] = rounds[r] /\ done'[r] = 0
        /\ <<"model_round", r, rounds[r], 0>> \in audit'
        /\ (pc'[r] = "reply" \/ (pc'[r] = "calls" /\ asked'[r] > 0))
     \/ pc[r] = "save" /\ pc'[r] = "assign" /\ SameCounts(r)

Fetches(r) ==
  /\ pc[r] \in {"ask", "reply", "calls", "result"} /\ pc'[r] = pc[r]
  /\ NoLists /\ stored' = stored /\ SameCounts(r)
  /\ conv[r] \in Objects /\ fetched'[r] = messages[conv[r]]

\* The list t is h with one more message.
Grows(h, t, m) ==
  /\ Len(t) = Len(h) + 1 /\ t[Len(h) + 1] = m
  /\ \A i \in 1 .. Len(h) : t[i] = h[i]

\* An append: where the request is tells what message it is.
Says(r, m) ==
  \/ /\ pc[r] = "ask" /\ pc'[r] = "connect" /\ m = Message("user", r, 0)
     /\ done'[r] = done[r]
  \/ /\ pc[r] = "reply" /\ pc'[r] = "save" /\ m = Message("reply", r, 0)
     /\ done'[r] = done[r]
  \/ /\ pc[r] = "calls" /\ pc'[r] = "tool" /\ m = Message("calls", r, asked[r])
     /\ done'[r] = done[r]
  \/ /\ pc[r] = "result" /\ m = Message("result", r, done[r] + 1)
     /\ done'[r] = done[r] + 1
     /\ \/ pc'[r] = "tool" /\ done'[r] < asked[r]
        \/ pc'[r] = "loop" /\ ~(done'[r] < asked[r])

Extends(r, m) ==
  /\ m \in Messages /\ m.by = r /\ Says(r, m)
  /\ fetched[r] \in 1 .. Len(lists) /\ fetched'[r] = 0
  /\ rounds'[r] = rounds[r] /\ asked'[r] = asked[r]
  /\ UNCHANGED <<stored, owner, messages, audit>>
  /\ lists' \in Seq(Seq(Messages)) /\ Len(lists') = Len(lists)
  /\ \A l \in 1 .. Len(lists) : l # fetched[r] => lists'[l] = lists[l]
  /\ Grows(lists[fetched[r]], lists'[fetched[r]], m)

\* A trimmed list is made.
Cuts(r) ==
  /\ pc[r] = "save" /\ pc'[r] = "assign" /\ SameCounts(r)
  /\ UNCHANGED <<stored, owner, messages, audit>>
  /\ conv[r] \in Objects /\ Len(History(r)) > max_messages
  /\ fetched'[r] = Len(lists) + 1
  /\ lists' \in Seq(Seq(Messages)) /\ Len(lists') = Len(lists) + 1
  /\ \A l \in 1 .. Len(lists) : lists'[l] = lists[l]
  /\ lists'[Len(lists) + 1] = Trimmed(History(r))

\* It is assigned, if there is one, and the conversation stored.
Saves(r) ==
  /\ pc[r] = "assign" /\ pc'[r] = "answered" /\ SameCounts(r)
  /\ UNCHANGED <<owner, lists, audit>>
  /\ conv[r] \in Objects /\ stored' = conv[r] /\ fetched'[r] = 0
  /\ messages' \in Seq(1 .. Len(lists)) /\ Len(messages') = Len(messages)
  /\ \A c \in Objects :
       messages'[c] = IF c = conv[r] /\ fetched[r] # 0 THEN fetched[r] ELSE messages[c]

\* A conversation has a list, and a list has messages.
LEMMA ListTypes ==
  ASSUME TypeOK
  PROVE  /\ Len(owner) \in Nat /\ Len(lists) \in Nat
         /\ \A c \in Objects : messages[c] \in 1 .. Len(lists)
         /\ \A l \in 1 .. Len(lists) :
              /\ lists[l] \in Seq(Messages) /\ Len(lists[l]) \in Nat
              /\ \A i \in 1 .. Len(lists[l]) : lists[l][i] \in Messages
<1>1. Len(owner) \in Nat /\ Len(lists) \in Nat
  BY LenProperties DEF TypeOK
<1>2. ASSUME NEW c \in Objects
      PROVE  messages[c] \in 1 .. Len(lists)
  <2>1. messages \in Seq(1 .. Len(lists)) /\ c \in 1 .. Len(messages)
    BY <1>2 DEF TypeOK, Objects
  <2>2. QED
    BY <2>1, ElementOfSeq
<1>3. ASSUME NEW l \in 1 .. Len(lists)
      PROVE  /\ lists[l] \in Seq(Messages) /\ Len(lists[l]) \in Nat
             /\ \A i \in 1 .. Len(lists[l]) : lists[l][i] \in Messages
  <2>1. lists[l] \in Seq(Messages)
    BY ElementOfSeq DEF TypeOK
  <2>2. QED
    BY <2>1, LenProperties, ElementOfSeq
<1>4. QED
  BY <1>1, <1>2, <1>3

\* The entries of the functions.
LEMMA EntryTypes ==
  ASSUME TypeOK, NEW r \in Requests
  PROVE  /\ pc[r] \in RequestPc /\ conv[r] \in 0 .. Len(owner)
         /\ fetched[r] \in 0 .. Len(lists) /\ rounds[r] \in Nat /\ asked[r] \in Nat
         /\ done[r] \in Nat /\ since[r] \in Nat
         /\ conv[r] # 0 => conv[r] \in Objects
         /\ fetched[r] # 0 => fetched[r] \in 1 .. Len(lists)
<1>1. max_tool_rounds \in Nat /\ CallCounts \subseteq Nat /\ MaxResets \in Nat
  BY ChatAssumption
<1>2. Len(owner) \in Nat /\ Len(lists) \in Nat
  BY ListTypes
<1>3. /\ pc[r] \in RequestPc /\ conv[r] \in 0 .. Len(owner) /\ fetched[r] \in 0 .. Len(lists)
      /\ rounds[r] \in 0 .. max_tool_rounds /\ asked[r] \in CallCounts
      /\ done[r] \in Nat /\ since[r] \in 0 .. MaxResets
  BY Zenon DEF TypeOK
<1>4. /\ conv[r] # 0 => conv[r] \in 1 .. Len(owner)
      /\ fetched[r] # 0 => fetched[r] \in 1 .. Len(lists)
  BY <1>2, <1>3
<1>5. rounds[r] \in Nat /\ asked[r] \in Nat /\ done[r] \in Nat /\ since[r] \in Nat
  <2>1. rounds[r] \in Nat /\ since[r] \in Nat
    BY <1>1, <1>3, SMT
  <2>2. asked[r] \in Nat
    BY <1>1, <1>3, Zenon
  <2>3. QED
    BY <1>3, <2>1, <2>2, Zenon
<1>6. QED
  BY <1>3, <1>4, <1>5, Zenon DEF Objects

\* Every step of a request leaves the others alone.
LEMMA FrameFacts ==
  ASSUME TypeOK, NEW r \in Requests, RequestStep(r)
  PROVE  Frame(r)
<1> USE DEF TypeOK, Frame, Same, SameCounts, Goto, Finished
<1>1. CASE GetsNew(r) \/ GetsStored(r) \/ IsDenied(r)
  BY <1>1 DEF GetsNew, GetsStored, IsDenied, Arrive
<1>2. CASE Refuse(r) \/ AuditQuestion(r) \/ RunTool(r) \/ Complete(r)
  BY <1>2 DEF Refuse, AuditQuestion, RunTool, Complete, Writes, store, history
<1>3. CASE Fails(r) \/ NextRound(r) \/ OutOfRounds(r) \/ Fetch(r)
  BY <1>3 DEF Fails, NextRound, OutOfRounds, Fetch, store, history, local
<1>4. CASE AppendQuestion(r) \/ AppendReply(r) \/ AppendCalls(r) \/ AppendResult(r)
  BY <1>4 DEF AppendQuestion, AppendReply, AppendCalls, AppendResult, Appends, history
<1>5. CASE SaveBegin(r) \/ SaveEnd(r)
  BY <1>5 DEF SaveBegin, SaveEnd, history
<1>6. QED
  BY <1>1, <1>2, <1>3, <1>4, <1>5, Zenon DEF RequestStep

\* A new conversation.
LEMMA MadeFacts ==
  ASSUME TypeOK, NEW r \in Requests, GetsNew(r)
  PROVE  Made(r)
<1> DEFINE US == {UserOf[q] : q \in Requests}
<1>1. /\ owner \in Seq(US) /\ messages \in Seq(1 .. Len(lists)) /\ Len(messages) = Len(owner)
      /\ lists \in Seq(Seq(Messages)) /\ UserOf[r] \in US /\ << >> \in Seq(Messages)
  BY EmptySeq DEF TypeOK
<1>2. Len(owner) \in Nat /\ Len(lists) \in Nat
  BY ListTypes
<1>3. messages \in Seq(1 .. Len(lists) + 1) /\ Len(lists) + 1 \in 1 .. Len(lists) + 1
  <2>1. 1 .. Len(lists) \subseteq 1 .. Len(lists) + 1
    BY <1>2
  <2>2. QED
    BY <1>1, <1>2, <2>1, SeqMonotonic
<1>4. /\ owner' = Append(owner, UserOf[r]) /\ lists' = Append(lists, << >>)
      /\ messages' = Append(messages, Len(lists) + 1)
      /\ stored = 0 /\ stored' = Len(owner) + 1
  BY DEF GetsNew
<1>5. /\ Arrives(r) /\ pc'[r] = "question" /\ shared' = shared /\ conv'[r] = Len(owner) + 1
  BY DEF GetsNew, Arrive, Arrives, TypeOK, Goto, SameCounts
<1> HIDE DEF US
<1>6. /\ owner' \in Seq(US) /\ Len(owner') = Len(owner) + 1
      /\ \A c \in Objects : owner'[c] = owner[c]
      /\ owner'[Len(owner) + 1] = UserOf[r]
  BY <1>1, <1>4, AppendProperties DEF Objects
<1>7. /\ messages' \in Seq(1 .. Len(lists) + 1) /\ Len(messages') = Len(owner) + 1
      /\ \A c \in Objects : messages'[c] = messages[c]
      /\ messages'[Len(owner) + 1] = Len(lists) + 1
  <2> DEFINE LS == 1 .. Len(lists) + 1
             n == Len(lists) + 1
  <2>1. messages \in Seq(LS) /\ n \in LS
    BY <1>3
  <2>2. messages' = Append(messages, n)
    BY <1>4
  <2> HIDE DEF LS, n
  <2>3. /\ messages' \in Seq(LS) /\ Len(messages') = Len(messages) + 1
        /\ \A c \in 1 .. Len(messages) : messages'[c] = messages[c]
        /\ messages'[Len(messages) + 1] = n
    BY <2>1, <2>2, AppendProperties
  <2>4. QED
    BY <1>1, <2>3 DEF LS, n, Objects
<1>8. /\ lists' \in Seq(Seq(Messages)) /\ Len(lists') = Len(lists) + 1
      /\ \A l \in 1 .. Len(lists) : lists'[l] = lists[l]
      /\ lists'[Len(lists) + 1] = << >>
  BY <1>1, <1>4, AppendProperties
<1>9. QED
  BY <1>4, <1>5, <1>6, <1>7, <1>8, Zenon DEF Made, US

\* A stored conversation, or none.
LEMMA TookFacts ==
  ASSUME TypeOK, NEW r \in Requests
  PROVE  /\ GetsStored(r) => Took(r)
         /\ IsDenied(r) => Denied(r)
BY DEF GetsStored, IsDenied, Arrive, Took, Denied, Arrives, TypeOK, Goto, SameCounts, NoLists

\* The steps that leave the lists alone.
LEMMA WalkFacts ==
  ASSUME TypeOK, NEW r \in Requests,
         \/ Refuse(r) \/ AuditQuestion(r) \/ RunTool(r) \/ Fails(r)
         \/ NextRound(r) \/ OutOfRounds(r) \/ Complete(r)
  PROVE  Walks(r)
<1> USE DEF TypeOK, Walks, NoLists, SameCounts, Goto
<1>1. CASE Refuse(r)
  BY <1>1 DEF Refuse, Writes, store
<1>2. CASE AuditQuestion(r)
  BY <1>2 DEF AuditQuestion, Writes, store
<1>3. CASE RunTool(r)
  BY <1>3 DEF RunTool, Writes, store
<1>4. CASE Fails(r)
  BY <1>4 DEF Fails, store, local
<1>5. CASE NextRound(r)
  BY <1>5 DEF NextRound, store
<1>6. CASE OutOfRounds(r)
  BY <1>6 DEF OutOfRounds, store, local
<1>7. CASE Complete(r)
  <2>1. PICK n \in CallCounts :
          /\ asked' = [asked EXCEPT ![r] = n]
          /\ pc' = [pc EXCEPT ![r] = IF n = 0 THEN "reply" ELSE "calls"]
    BY <1>7 DEF Complete
  <2>2. n \in Nat
    BY ChatAssumption
  <2>3. asked'[r] = n /\ pc'[r] = (IF n = 0 THEN "reply" ELSE "calls")
    BY <2>1
  <2>4. /\ pc[r] = "complete" /\ rounds'[r] = rounds[r] /\ done'[r] = 0
        /\ <<"model_round", r, rounds[r], 0>> \in audit'
        /\ NoLists /\ stored' = stored /\ fetched'[r] = fetched[r]
    BY <1>7 DEF Complete, Writes, store
  <2>5. pc'[r] = "reply" \/ (pc'[r] = "calls" /\ asked'[r] > 0)
    BY <2>2, <2>3
  <2>6. QED
    BY <2>4, <2>5
<1>8. QED
  BY <1>1, <1>2, <1>3, <1>4, <1>5, <1>6, <1>7

\* The list is fetched.
LEMMA FetchFacts ==
  ASSUME TypeOK, PlaceInv, NEW r \in Requests, Fetch(r)
  PROVE  Fetches(r)
<1>1. pc[r] \in {"ask", "reply", "calls", "result"} /\ conv[r] # 0
  BY DEF Fetch, PlaceInv
<1>2. conv[r] \in Objects
  BY <1>1, EntryTypes
<1>3. QED
  BY <1>1, <1>2 DEF Fetch, Fetches, NoLists, SameCounts, TypeOK, store

\* An append in general.
LEMMA AppendFacts ==
  ASSUME TypeOK, NEW r \in Requests, NEW m \in Messages, Appends(r, m)
  PROVE  /\ fetched[r] \in 1 .. Len(lists) /\ fetched'[r] = 0
         /\ rounds'[r] = rounds[r] /\ asked'[r] = asked[r]
         /\ UNCHANGED <<stored, owner, messages, audit>>
         /\ lists' \in Seq(Seq(Messages)) /\ Len(lists') = Len(lists)
         /\ \A l \in 1 .. Len(lists) : l # fetched[r] => lists'[l] = lists[l]
         /\ Grows(lists[fetched[r]], lists'[fetched[r]], m)
<1> DEFINE f == fetched[r]
<1>1. f \in 1 .. Len(lists)
  BY EntryTypes DEF Appends
<1>2. lists \in Seq(Seq(Messages)) /\ lists[f] \in Seq(Messages)
  BY <1>1, ListTypes DEF TypeOK
<1>3. /\ Append(lists[f], m) \in Seq(Messages)
      /\ Grows(lists[f], Append(lists[f], m), m)
  BY <1>2, AppendProperties DEF Grows
<1>4. lists' = [lists EXCEPT ![f] = Append(lists[f], m)]
  <2>1. lists' = [lists EXCEPT ![f] = Append(@, m)]
    BY DEF Appends
  <2>2. QED
    BY <2>1
<1> HIDE DEF f
<1>5. /\ lists' \in Seq(Seq(Messages)) /\ Len(lists') = Len(lists)
      /\ \A l \in 1 .. Len(lists) : lists'[l] = IF l = f THEN Append(lists[f], m) ELSE lists[l]
  BY <1>1, <1>2, <1>3, <1>4, ExceptSeq
<1>6. /\ fetched'[r] = 0 /\ rounds'[r] = rounds[r] /\ asked'[r] = asked[r]
      /\ UNCHANGED <<stored, owner, messages, audit>>
  BY DEF Appends, TypeOK
<1>7. QED
  BY <1>1, <1>3, <1>5, <1>6 DEF f

\* A message of a request.
LEMMA MessageFacts ==
  ASSUME TypeOK, NEW r \in Requests, NEW kind \in Kinds, NEW n \in Nat
  PROVE  /\ Message(kind, r, n) \in Messages
         /\ Message(kind, r, n).kind = kind /\ Message(kind, r, n).by = r
         /\ Message(kind, r, n).round = rounds[r] /\ Message(kind, r, n).n = n
BY EntryTypes DEF Message, Messages

\* The four appends.
LEMMA ExtendFacts ==
  ASSUME TypeOK, NEW r \in Requests,
         AppendQuestion(r) \/ AppendReply(r) \/ AppendCalls(r) \/ AppendResult(r)
  PROVE  \E m \in Messages : Extends(r, m)
<1>1. asked[r] \in Nat /\ done[r] \in Nat /\ done[r] + 1 \in Nat /\ 0 \in Nat
  BY EntryTypes
<1>2. "user" \in Kinds /\ "reply" \in Kinds /\ "calls" \in Kinds /\ "result" \in Kinds
  BY DEF Kinds
<1>3. ASSUME NEW m \in Messages, m.by = r, Appends(r, m), Says(r, m)
      PROVE  Extends(r, m)
  BY <1>3, AppendFacts, Zenon DEF Extends
<1>4. CASE AppendQuestion(r)
  <2>1. Message("user", r, 0) \in Messages /\ Message("user", r, 0).by = r
    BY <1>1, <1>2, MessageFacts
  <2>2. Appends(r, Message("user", r, 0)) /\ Says(r, Message("user", r, 0))
    BY <1>4 DEF AppendQuestion, Says, Goto, TypeOK
  <2>3. QED
    BY <1>3, <2>1, <2>2, Zenon
<1>5. CASE AppendReply(r)
  <2>1. Message("reply", r, 0) \in Messages /\ Message("reply", r, 0).by = r
    BY <1>1, <1>2, MessageFacts
  <2>2. Appends(r, Message("reply", r, 0)) /\ Says(r, Message("reply", r, 0))
    BY <1>5 DEF AppendReply, Says, Goto, TypeOK
  <2>3. QED
    BY <1>3, <2>1, <2>2, Zenon
<1>6. CASE AppendCalls(r)
  <2>1. Message("calls", r, asked[r]) \in Messages /\ Message("calls", r, asked[r]).by = r
    BY <1>1, <1>2, MessageFacts
  <2>2. Appends(r, Message("calls", r, asked[r])) /\ Says(r, Message("calls", r, asked[r]))
    BY <1>6 DEF AppendCalls, Says, Goto, TypeOK
  <2>3. QED
    BY <1>3, <2>1, <2>2, Zenon
<1>7. CASE AppendResult(r)
  <2>1. /\ Message("result", r, done[r] + 1) \in Messages
        /\ Message("result", r, done[r] + 1).by = r
    BY <1>1, <1>2, MessageFacts
  <2>2. /\ Appends(r, Message("result", r, done[r] + 1))
        /\ Says(r, Message("result", r, done[r] + 1))
    BY <1>7 DEF AppendResult, Says, Goto, TypeOK
  <2>3. QED
    BY <1>3, <2>1, <2>2, Zenon
<1>8. QED
  BY <1>4, <1>5, <1>6, <1>7

\* A save begins.
LEMMA BeginFacts ==
  ASSUME TypeOK, PlaceInv, NEW r \in Requests, SaveBegin(r)
  PROVE  Walks(r) \/ Cuts(r)
<1>1. pc[r] = "save" /\ pc'[r] = "assign" /\ SameCounts(r) /\ UNCHANGED <<stored, owner, messages, audit>>
  BY DEF SaveBegin, SameCounts, TypeOK, Goto
<1>2. conv[r] \in Objects
  <2>1. conv[r] # 0
    BY <1>1 DEF PlaceInv
  <2>2. QED
    BY <2>1, EntryTypes
<1>3. CASE UNCHANGED <<lists, fetched>>
  BY <1>1, <1>3 DEF Walks, NoLists
<1>4. CASE /\ Len(History(r)) > max_messages
           /\ lists' = Append(lists, Trimmed(History(r)))
           /\ fetched' = [fetched EXCEPT ![r] = Len(lists')]
  <2>1. lists \in Seq(Seq(Messages)) /\ History(r) \in Seq(Messages)
    BY <1>2, ListTypes DEF TypeOK, History
  <2>2. Trimmed(History(r)) \in Seq(Messages)
    BY <1>4, <2>1, TrimmedIs
  <2>3. /\ lists' \in Seq(Seq(Messages)) /\ Len(lists') = Len(lists) + 1
        /\ \A l \in 1 .. Len(lists) : lists'[l] = lists[l]
        /\ lists'[Len(lists) + 1] = Trimmed(History(r))
    BY <1>4, <2>1, <2>2, AppendProperties
  <2>4. fetched'[r] = Len(lists) + 1
    BY <1>4, <2>3 DEF TypeOK
  <2>5. QED
    BY <1>1, <1>2, <1>4, <2>3, <2>4, Zenon DEF Cuts
<1>5. QED
  BY <1>3, <1>4 DEF SaveBegin

\* A save ends.
LEMMA SaveFacts ==
  ASSUME TypeOK, PlaceInv, NEW r \in Requests, SaveEnd(r)
  PROVE  Saves(r)
<1>1. /\ pc[r] = "assign" /\ pc'[r] = "answered" /\ SameCounts(r) /\ UNCHANGED <<owner, lists, audit>>
      /\ stored' = conv[r] /\ fetched'[r] = 0
  BY DEF SaveEnd, SameCounts, TypeOK, Goto
<1>2. conv[r] \in Objects
  <2>1. conv[r] # 0
    BY <1>1 DEF PlaceInv
  <2>2. QED
    BY <2>1, EntryTypes
<1>3. messages \in Seq(1 .. Len(lists)) /\ Len(messages) = Len(owner) /\ conv[r] \in 1 .. Len(messages)
  BY <1>2 DEF TypeOK, Objects
<1>4. CASE fetched[r] = 0
  <2>1. messages' = messages
    BY <1>4 DEF SaveEnd
  <2>2. QED
    BY <1>1, <1>2, <1>3, <1>4, <2>1 DEF Saves
<1>5. CASE fetched[r] # 0
  <2>1. messages' = [messages EXCEPT ![conv[r]] = fetched[r]]
    BY <1>5 DEF SaveEnd
  <2>2. fetched[r] \in 1 .. Len(lists)
    BY <1>5, EntryTypes
  <2>3. /\ messages' \in Seq(1 .. Len(lists)) /\ Len(messages') = Len(messages)
        /\ \A c \in 1 .. Len(messages) : messages'[c] = IF c = conv[r] THEN fetched[r] ELSE messages[c]
    BY <1>3, <2>1, <2>2, ExceptSeq
  <2>4. QED
    BY <1>1, <1>2, <1>3, <1>5, <2>3 DEF Saves, Objects
<1>6. QED
  BY <1>4, <1>5

\* The steps of a request.
LEMMA StepFacts ==
  ASSUME TypeOK, PlaceInv, NEW r \in Requests, RequestStep(r)
  PROVE  /\ Frame(r)
         /\ \/ Made(r) \/ Took(r) \/ Denied(r) \/ Walks(r) \/ Fetches(r)
            \/ (\E m \in Messages : Extends(r, m)) \/ Cuts(r) \/ Saves(r)
BY FrameFacts, MadeFacts, TookFacts, WalkFacts, FetchFacts, ExtendFacts, BeginFacts, SaveFacts
   DEF RequestStep

-----------------------------------------------------------------------------
(* Types. *)

\* The sequences, and how long they are.
LEMMA SeqTypes ==
  ASSUME TypeOK, PlaceInv, NEW r \in Requests, RequestStep(r)
  PROVE  /\ owner' \in Seq({UserOf[q] : q \in Requests})
         /\ messages' \in Seq(1 .. Len(lists')) /\ Len(messages') = Len(owner')
         /\ lists' \in Seq(Seq(Messages))
         /\ Len(owner) \in Nat /\ Len(owner') \in Nat /\ Len(owner) <= Len(owner')
         /\ Len(lists) \in Nat /\ Len(lists') \in Nat /\ Len(lists) <= Len(lists')
         /\ stored' \in 0 .. Len(owner')
<1> DEFINE US == {UserOf[q] : q \in Requests}
<1>1. /\ Len(owner) \in Nat /\ Len(lists) \in Nat
      /\ owner \in Seq(US) /\ messages \in Seq(1 .. Len(lists)) /\ Len(messages) = Len(owner)
      /\ lists \in Seq(Seq(Messages)) /\ stored \in 0 .. Len(owner)
  BY ListTypes DEF TypeOK
<1>2. CASE Made(r)
  <2>1. /\ owner' \in Seq(US) /\ Len(owner') = Len(owner) + 1 /\ Len(messages') = Len(owner) + 1
        /\ messages' \in Seq(1 .. Len(lists) + 1) /\ lists' \in Seq(Seq(Messages))
        /\ Len(lists') = Len(lists) + 1 /\ stored' = Len(owner) + 1
    BY <1>2 DEF Made
  <2> HIDE DEF US
  <2>2. QED
    BY <1>1, <2>1 DEF US
<1> HIDE DEF US
<1>3. CASE Took(r) \/ Denied(r) \/ Walks(r) \/ Fetches(r)
  BY <1>1, <1>3 DEF Took, Denied, Walks, Fetches, NoLists, US
<1>4. CASE \E m \in Messages : Extends(r, m)
  <2>1. /\ lists' \in Seq(Seq(Messages)) /\ Len(lists') = Len(lists)
        /\ UNCHANGED <<stored, owner, messages>>
    BY <1>4 DEF Extends
  <2>2. QED
    BY <1>1, <2>1 DEF US
<1>5. CASE Cuts(r)
  <2>1. /\ lists' \in Seq(Seq(Messages)) /\ Len(lists') = Len(lists) + 1
        /\ UNCHANGED <<stored, owner, messages>>
    BY <1>5 DEF Cuts
  <2>2. 1 .. Len(lists) \subseteq 1 .. Len(lists')
    BY <1>1, <2>1
  <2>3. messages' \in Seq(1 .. Len(lists'))
    BY <1>1, <2>1, <2>2, SeqMonotonic
  <2>4. QED
    BY <1>1, <2>1, <2>3 DEF US
<1>6. CASE Saves(r)
  <2>1. /\ messages' \in Seq(1 .. Len(lists)) /\ Len(messages') = Len(messages)
        /\ UNCHANGED <<owner, lists>> /\ stored' = conv[r]
    BY <1>6 DEF Saves
  <2>2. conv[r] \in 0 .. Len(owner)
    BY EntryTypes
  <2>3. QED
    BY <1>1, <2>1, <2>2 DEF US
<1>7. QED
  BY <1>2, <1>3, <1>4, <1>5, <1>6, StepFacts

\* The steps that change no function but the place of the request and its counts.
LEMMA CountTypes ==
  ASSUME TypeOK, NEW r \in Requests, RequestStep(r)
  PROVE  /\ pc' \in [Requests -> RequestPc]
         /\ rounds' \in [Requests -> 0 .. max_tool_rounds]
         /\ asked' \in [Requests -> CallCounts]
         /\ done' \in [Requests -> Nat]
         /\ since' \in [Requests -> 0 .. MaxResets]
         /\ resets' \in 0 .. MaxResets /\ crossed' \in BOOLEAN
<1>1. /\ pc \in [Requests -> RequestPc] /\ rounds \in [Requests -> 0 .. max_tool_rounds]
      /\ asked \in [Requests -> CallCounts] /\ done \in [Requests -> Nat]
      /\ since \in [Requests -> 0 .. MaxResets] /\ resets \in 0 .. MaxResets /\ crossed \in BOOLEAN
  BY DEF TypeOK
<1>2. max_tool_rounds \in Nat /\ done[r] + 1 \in Nat /\ rounds[r] \in 0 .. max_tool_rounds
  BY <1>1, ChatAssumption
<1> USE DEF RequestPc, Goto, Finished
<1>3. CASE GetsNew(r) \/ GetsStored(r) \/ IsDenied(r)
  BY <1>1, <1>3 DEF GetsNew, GetsStored, IsDenied, Arrive
<1>4. CASE Refuse(r) \/ AuditQuestion(r) \/ RunTool(r)
  BY <1>1, <1>4 DEF Refuse, AuditQuestion, RunTool, Writes, history
<1>5. CASE Complete(r)
  BY <1>1, <1>5 DEF Complete, Writes, history
<1>6. CASE Fails(r) \/ OutOfRounds(r) \/ Fetch(r)
  BY <1>1, <1>6 DEF Fails, OutOfRounds, Fetch, history, local
<1>7. CASE NextRound(r)
  <2>1. rounds[r] + 1 \in 0 .. max_tool_rounds
    BY <1>2, <1>7 DEF NextRound
  <2>2. QED
    BY <1>1, <1>7, <2>1 DEF NextRound, history
<1>8. CASE AppendQuestion(r) \/ AppendReply(r) \/ AppendCalls(r)
  BY <1>1, <1>8 DEF AppendQuestion, AppendReply, AppendCalls, Appends, history
<1>9. CASE AppendResult(r)
  BY <1>1, <1>2, <1>9 DEF AppendResult, Appends, history
<1>10. CASE SaveBegin(r) \/ SaveEnd(r)
  BY <1>1, <1>10 DEF SaveBegin, SaveEnd, history
<1>11. QED
  BY <1>3, <1>4, <1>5, <1>6, <1>7, <1>8, <1>9, <1>10, Zenon DEF RequestStep

\* What a request refers to exists.
LEMMA ReferenceTypes ==
  ASSUME TypeOK, PlaceInv, NEW r \in Requests, RequestStep(r)
  PROVE  /\ conv' \in [Requests -> 0 .. Len(owner')]
         /\ fetched' \in [Requests -> 0 .. Len(lists')]
         /\ shared' \subseteq 1 .. Len(owner')
<1>1. /\ conv \in [Requests -> 0 .. Len(owner)] /\ fetched \in [Requests -> 0 .. Len(lists)]
      /\ shared \subseteq 1 .. Len(owner) /\ stored \in 0 .. Len(owner)
  BY DEF TypeOK, Objects
<1>2. /\ Len(owner) \in Nat /\ Len(owner') \in Nat /\ Len(owner) <= Len(owner')
      /\ Len(lists) \in Nat /\ Len(lists') \in Nat /\ Len(lists) <= Len(lists')
      /\ stored' \in 0 .. Len(owner')
  BY SeqTypes
<1>3. /\ conv \in [Requests -> 0 .. Len(owner')] /\ fetched \in [Requests -> 0 .. Len(lists')]
      /\ shared \subseteq 1 .. Len(owner')
  <2>1. 0 .. Len(owner) \subseteq 0 .. Len(owner') /\ 0 .. Len(lists) \subseteq 0 .. Len(lists')
        /\ 1 .. Len(owner) \subseteq 1 .. Len(owner')
    BY <1>2
  <2>2. QED
    BY <1>1, <2>1
<1>4. CASE GetsNew(r)
  BY <1>2, <1>3, <1>4 DEF GetsNew, Arrive
<1>5. CASE GetsStored(r)
  <2>1. stored' = stored /\ stored # 0 /\ stored \in 1 .. Len(owner')
    BY <1>2, <1>5 DEF GetsStored
  <2>2. /\ conv' = [conv EXCEPT ![r] = stored] /\ fetched' = fetched
        /\ shared' = shared \cup ({conv[q] : q \in Serving} \cap {stored})
    BY <1>5 DEF GetsStored, Arrive
  <2>3. conv' \in [Requests -> 0 .. Len(owner')]
    BY <1>2, <1>3, <2>1, <2>2
  <2>4. shared' \subseteq 1 .. Len(owner')
    BY <1>3, <2>1, <2>2, Zenon
  <2>5. QED
    BY <1>3, <2>2, <2>3, <2>4
<1>6. CASE IsDenied(r)
  BY <1>3, <1>6 DEF IsDenied, Arrive
<1>7. CASE Refuse(r) \/ AuditQuestion(r) \/ RunTool(r) \/ Complete(r)
  BY <1>3, <1>7 DEF Refuse, AuditQuestion, RunTool, Complete, Writes, history
<1>8. CASE Fails(r) \/ NextRound(r) \/ OutOfRounds(r)
  BY <1>3, <1>8 DEF Fails, NextRound, OutOfRounds, history, local
<1>9. CASE Fetch(r)
  <2>1. Fetches(r)
    BY <1>9, FetchFacts
  <2>2. messages[conv[r]] \in 0 .. Len(lists')
    BY <1>2, <2>1, ListTypes DEF Fetches
  <2>3. QED
    BY <1>3, <1>9, <2>2 DEF Fetch, history
<1>10. CASE AppendQuestion(r) \/ AppendReply(r) \/ AppendCalls(r) \/ AppendResult(r)
  <2>1. conv' = conv /\ shared' = shared /\ fetched' = [fetched EXCEPT ![r] = 0]
    BY <1>10 DEF AppendQuestion, AppendReply, AppendCalls, AppendResult, Appends, history
  <2>2. QED
    BY <1>2, <1>3, <2>1
<1>11. CASE SaveBegin(r)
  <2>1. fetched' = fetched \/ fetched' = [fetched EXCEPT ![r] = Len(lists')]
    BY <1>11 DEF SaveBegin
  <2>2. Len(lists') \in 0 .. Len(lists')
    BY <1>2
  <2>3. fetched' \in [Requests -> 0 .. Len(lists')]
    BY <1>3, <2>1, <2>2
  <2>4. QED
    BY <1>3, <1>11, <2>3 DEF SaveBegin, history
<1>12. CASE SaveEnd(r)
  BY <1>2, <1>3, <1>12 DEF SaveEnd, history
<1>13. QED
  BY <1>4, <1>5, <1>6, <1>7, <1>8, <1>9, <1>10, <1>11, <1>12, Zenon DEF RequestStep

\* The lines of the audit log, and the lock.
LEMMA AuditTypes ==
  ASSUME TypeOK, NEW r \in Requests, RequestStep(r)
  PROVE  audit' \subseteq Entries /\ lock' \in SUBSET Requests /\ Cardinality(lock') <= 1
<1>1. audit \subseteq Entries /\ lock \in SUBSET Requests /\ Cardinality(lock) <= 1
  BY DEF TypeOK
<1>2. rounds[r] \in Nat /\ done[r] + 1 \in Nat /\ 0 \in Nat
  BY EntryTypes
<1>3. CASE GetsNew(r) \/ GetsStored(r) \/ IsDenied(r)
  BY <1>1, <1>3 DEF GetsNew, GetsStored, IsDenied, Arrive
<1>4. CASE Refuse(r) \/ AuditQuestion(r) \/ RunTool(r) \/ Complete(r)
  <2>1. lock' = lock
    BY <1>4 DEF Refuse, AuditQuestion, RunTool, Complete, Writes, store
  <2>2. PICK kind \in {"access_denied", "question", "model_round", "tool_call"}, n \in Nat :
          audit' = audit \cup {<<kind, r, rounds[r], n>>}
    BY <1>2, <1>4 DEF Refuse, AuditQuestion, RunTool, Complete, Writes
  <2>3. <<kind, r, rounds[r], n>> \in Entries
    BY <1>2 DEF Entries
  <2>4. QED
    BY <1>1, <2>1, <2>2, <2>3
<1>5. CASE Fails(r) \/ NextRound(r) \/ OutOfRounds(r) \/ Fetch(r)
  BY <1>1, <1>5 DEF Fails, NextRound, OutOfRounds, Fetch, store
<1>6. CASE AppendQuestion(r) \/ AppendReply(r) \/ AppendCalls(r) \/ AppendResult(r)
  BY <1>1, <1>6 DEF AppendQuestion, AppendReply, AppendCalls, AppendResult, Appends
<1>7. CASE SaveBegin(r)
  <2>1. lock' = {r} /\ audit' = audit
    BY <1>7 DEF SaveBegin
  <2>2. Cardinality({r}) = 1
    BY FS_Singleton
  <2>3. QED
    BY <1>1, <2>1, <2>2
<1>8. CASE SaveEnd(r)
  <2>1. lock' = {} /\ audit' = audit
    BY <1>8 DEF SaveEnd
  <2>2. Cardinality({}) = 0
    BY FS_EmptySet
  <2>3. QED
    BY <1>1, <2>1, <2>2
<1>9. QED
  BY <1>3, <1>4, <1>5, <1>6, <1>7, <1>8, Zenon DEF RequestStep

\* A request keeps the types.
LEMMA TypeStep ==
  ASSUME TypeOK, PlaceInv, NEW r \in Requests, RequestStep(r)
  PROVE  TypeOK'
BY SeqTypes, CountTypes, ReferenceTypes, AuditTypes, Zenon DEF TypeOK, Objects

\* So does a reset, which leaves everything but what is stored.
LEMMA TypeReset ==
  ASSUME TypeOK, Reset
  PROVE  TypeOK'
<1>1. /\ stored' = 0 /\ resets' = resets + 1 /\ resets < MaxResets
      /\ UNCHANGED <<lock, owner, messages, lists, pc, local, since, shared>>
      /\ crossed' = (crossed \/ Serving # {})
  BY DEF Reset
<1>2. resets' \in 1 .. MaxResets /\ resets' \in 0 .. MaxResets /\ 0 \in 0 .. Len(owner)
  BY <1>1, ChatAssumption, ListTypes DEF TypeOK
<1>3. audit' \subseteq Entries
  <2>1. <<"reset", resets'>> \in Entries
    BY <1>2 DEF Entries
  <2>2. audit' = audit \/ audit' = audit \cup {<<"reset", resets'>>}
    BY DEF Reset
  <2>3. QED
    BY <2>1, <2>2 DEF TypeOK
<1>4. crossed' \in BOOLEAN
  BY <1>1
<1>5. QED
  BY <1>1, <1>2, <1>3, <1>4, Zenon DEF TypeOK, Objects, local

-----------------------------------------------------------------------------
(* Where a request is, and whose the lists are. *)

\* What a request has at its place.
LEMMA PlaceStep ==
  ASSUME TypeOK, PlaceInv, NEW r \in Requests, RequestStep(r)
  PROVE  PlaceInv'
<1> DEFINE Placed(q) ==
      /\ pc[q] \in {"idle", "denied"} => conv[q] = 0
      /\ conv[q] = 0 => pc[q] \in {"idle", "denied", "refused", "failed"}
      /\ pc[q] \in {"idle", "denied", "question", "ask"} => rounds[q] = 0
      /\ fetched[q] # 0 => pc[q] \in {"ask", "reply", "calls", "result", "assign"}
      /\ pc[q] = "calls" => done[q] = 0 /\ asked[q] > 0
      /\ pc[q] \in {"tool", "result"} => done[q] < asked[q]
<1>1. ASSUME NEW q \in Requests \ {r}
      PROVE  Placed(q)'
  BY StepFacts DEF PlaceInv, Frame, Same, SameCounts
<1>2. Placed(r)'
  <2>1. Frame(r) /\ Placed(r)
    BY FrameFacts DEF PlaceInv
  <2>2. Len(owner) \in Nat /\ done[r] \in Nat
    BY ListTypes, EntryTypes
  <2>3. CASE Made(r) \/ Took(r) \/ Denied(r)
    BY <2>1, <2>2, <2>3 DEF Made, Took, Denied, Arrives, SameCounts
  <2>4. CASE Walks(r)
    BY <2>1, <2>4 DEF Walks, SameCounts, Frame
  <2>5. CASE Fetches(r)
    BY <2>1, <2>5 DEF Fetches, SameCounts, Frame, Objects
  <2>6. CASE \E m \in Messages : Extends(r, m)
    BY <2>1, <2>2, <2>6 DEF Extends, Says, Frame
  <2>7. CASE Cuts(r) \/ Saves(r)
    BY <2>1, <2>7 DEF Cuts, Saves, SameCounts, Frame, Objects
  <2>8. QED
    BY <2>3, <2>4, <2>5, <2>6, <2>7, StepFacts
<1>3. \A q \in Requests : Placed(q)'
  BY <1>1, <1>2
<1>4. QED
  BY <1>3 DEF PlaceInv

\* A new conversation is one more object.
LEMMA MadeObjects ==
  ASSUME TypeOK, NEW r \in Requests, Made(r)
  PROVE  Objects' = Objects \cup {Len(owner) + 1} /\ Len(owner) + 1 \notin Objects
<1>1. Len(owner) \in Nat /\ Len(owner') = Len(owner) + 1
  BY ListTypes DEF Made
<1>2. 1 .. Len(owner) + 1 = 1 .. Len(owner) \cup {Len(owner) + 1}
  BY <1>1
<1>3. QED
  BY <1>1, <1>2 DEF Objects

\* A list is of one conversation.
LEMMA ApartStep ==
  ASSUME TypeOK, PlaceInv, ApartInv, NEW r \in Requests, RequestStep(r)
  PROVE  ApartInv'
<1>1. Frame(r)
  BY FrameFacts
<1>2. /\ Len(owner) \in Nat /\ Len(lists) \in Nat
      /\ \A c \in Objects : messages[c] \in 1 .. Len(lists)
      /\ \A q \in Requests : conv[q] \in 0 .. Len(owner) /\ fetched[q] \in 0 .. Len(lists)
  BY ListTypes, EntryTypes
<1>3. /\ \A c, d \in Objects : messages[c] = messages[d] => c = d
      /\ \A p \in Requests, c \in Objects : messages[c] = fetched[p] => c = conv[p]
      /\ \A p, q \in Requests : fetched[p] = fetched[q] /\ fetched[p] # 0 => conv[p] = conv[q]
  BY DEF ApartInv
<1>4. \A q \in Requests \ {r} : conv'[q] = conv[q] /\ fetched'[q] = fetched[q]
  BY <1>1 DEF Frame, Same
<1>5. pc[r] = "idle" => fetched[r] = 0
  BY DEF PlaceInv
<1>6. CASE Made(r)
  <2>1. /\ Objects' = Objects \cup {Len(owner) + 1} /\ Len(owner) + 1 \notin Objects
        /\ \A c \in Objects : messages'[c] = messages[c]
        /\ messages'[Len(owner) + 1] = Len(lists) + 1
        /\ fetched[r] = 0 /\ fetched'[r] = 0
    BY <1>5, <1>6, MadeObjects DEF Made, Arrives
  <2>2. \A q \in Requests : fetched'[q] = fetched[q] /\ fetched[q] # Len(lists) + 1
    BY <1>2, <1>4, <2>1
  <2>3. \A c \in Objects : messages[c] # Len(lists) + 1 /\ messages[c] # 0
    BY <1>2
  <2>4. Len(lists) + 1 # 0
    BY <1>2
  <2>5. \A c, d \in Objects' : messages'[c] = messages'[d] => c = d
    BY <1>3, <2>1, <2>3
  <2>6. \A q \in Requests, c \in Objects' : messages'[c] = fetched'[q] => c = conv'[q]
    BY <1>3, <1>4, <2>1, <2>2, <2>3, <2>4
  <2>7. \A p, q \in Requests : fetched'[p] = fetched'[q] /\ fetched'[p] # 0 => conv'[p] = conv'[q]
    BY <1>3, <1>4, <2>1, <2>2
  <2>8. QED
    BY <2>5, <2>6, <2>7, Zenon DEF ApartInv
<1>7. CASE Took(r) \/ Denied(r) \/ Walks(r)
  <2>1. owner' = owner /\ messages' = messages /\ lists' = lists /\ fetched'[r] = fetched[r]
    BY <1>7 DEF Took, Denied, Walks, NoLists, Arrives
  <2>2. fetched[r] = 0 \/ conv'[r] = conv[r]
    BY <1>1, <1>5 DEF Frame
  <2>3. \A c \in Objects : messages[c] # 0
    BY <1>2
  <2>4. Objects' = Objects
    BY <2>1 DEF Objects
  <2>5. \A q \in Requests : fetched'[q] = fetched[q] /\ (fetched[q] = 0 \/ conv'[q] = conv[q])
    BY <1>4, <2>1, <2>2
  <2>6. QED
    BY <1>3, <2>1, <2>3, <2>4, <2>5 DEF ApartInv
<1>8. CASE Fetches(r)
  <2>1. /\ owner' = owner /\ messages' = messages /\ Objects' = Objects
        /\ conv[r] \in Objects /\ fetched'[r] = messages[conv[r]] /\ conv'[r] = conv[r]
    BY <1>1, <1>8 DEF Fetches, NoLists, Frame, Objects
  <2>2. \A q \in Requests : conv'[q] = conv[q]
    BY <1>4, <2>1
  <2>3. \A q \in Requests, c \in Objects : messages[c] = fetched'[q] => c = conv[q]
    BY <1>3, <1>4, <2>1
  <2>4. \A p, q \in Requests : fetched'[p] = fetched'[q] /\ fetched'[p] # 0 => conv[p] = conv[q]
    <3> SUFFICES ASSUME NEW p \in Requests, NEW q \in Requests,
                        fetched'[p] = fetched'[q], fetched'[p] # 0
                 PROVE  conv[p] = conv[q]
      OBVIOUS
    <3>1. CASE p = r \/ q = r
      BY <2>1, <2>3, <3>1
    <3>2. CASE p # r /\ q # r
      BY <1>3, <1>4, <3>2
    <3>3. QED
      BY <3>1, <3>2
  <2>5. QED
    BY <1>3, <2>1, <2>2, <2>3, <2>4 DEF ApartInv
<1>9. CASE \E m \in Messages : Extends(r, m)
  <2>1. /\ owner' = owner /\ messages' = messages /\ Objects' = Objects
        /\ fetched'[r] = 0 /\ conv'[r] = conv[r]
    BY <1>1, <1>9 DEF Extends, Says, Frame, Objects
  <2>2. \A q \in Requests : conv'[q] = conv[q] /\ (fetched'[q] = 0 \/ fetched'[q] = fetched[q])
    BY <1>4, <2>1
  <2>3. \A c \in Objects : messages[c] # 0
    BY <1>2
  <2>4. QED
    BY <1>3, <2>1, <2>2, <2>3 DEF ApartInv
<1>10. CASE Cuts(r)
  <2>1. /\ owner' = owner /\ messages' = messages /\ Objects' = Objects
        /\ fetched'[r] = Len(lists) + 1 /\ conv'[r] = conv[r]
    BY <1>1, <1>10 DEF Cuts, Frame, Objects
  <2>2. \A q \in Requests : conv'[q] = conv[q] /\ fetched[q] # Len(lists) + 1
    BY <1>2, <1>4, <2>1
  <2>3. \A c \in Objects : messages[c] # Len(lists) + 1
    BY <1>2
  <2>4. \A q \in Requests, c \in Objects : messages[c] = fetched'[q] => c = conv[q]
    BY <1>3, <1>4, <2>1, <2>3
  <2>5. \A p, q \in Requests : fetched'[p] = fetched'[q] /\ fetched'[p] # 0 => conv[p] = conv[q]
    BY <1>3, <1>4, <2>1, <2>2
  <2>6. QED
    BY <1>3, <2>1, <2>2, <2>4, <2>5 DEF ApartInv
<1>11. CASE Saves(r)
  <2>1. /\ owner' = owner /\ Objects' = Objects
        /\ conv[r] \in Objects /\ fetched'[r] = 0 /\ conv'[r] = conv[r]
        /\ \A c \in Objects :
             messages'[c] = IF c = conv[r] /\ fetched[r] # 0 THEN fetched[r] ELSE messages[c]
    BY <1>1, <1>11 DEF Saves, Frame, Objects
  <2>2. \A q \in Requests : conv'[q] = conv[q] /\ (fetched'[q] = 0 \/ (q # r /\ fetched'[q] = fetched[q]))
    BY <1>4, <2>1
  <2>3. \A c \in Objects : messages'[c] # 0
    BY <1>2, <2>1
  <2>4. \A c, d \in Objects : messages'[c] = messages'[d] => c = d
    BY <1>3, <2>1
  <2>5. \A q \in Requests, c \in Objects : messages'[c] = fetched'[q] => c = conv[q]
    BY <1>3, <2>1, <2>2, <2>3
  <2>6. \A p, q \in Requests : fetched'[p] = fetched'[q] /\ fetched'[p] # 0 => conv[p] = conv[q]
    BY <1>3, <2>2
  <2>7. QED
    BY <2>1, <2>2, <2>4, <2>5, <2>6 DEF ApartInv
<1>12. QED
  BY <1>6, <1>7, <1>8, <1>9, <1>10, <1>11, StepFacts

\* An append goes to no other conversation's list.
LEMMA OthersList ==
  ASSUME TypeOK, ApartInv, NEW r \in Requests, NEW m \in Messages, Extends(r, m),
         NEW c \in Objects, c # conv[r]
  PROVE  messages[c] # fetched[r] /\ lists'[messages[c]] = lists[messages[c]]
<1>1. messages[c] \in 1 .. Len(lists) /\ messages[c] # fetched[r]
  BY ListTypes DEF ApartInv
<1>2. QED
  BY <1>1 DEF Extends

\* Messages of one user.
LEMMA UsersStep ==
  ASSUME TypeOK, PlaceInv, ApartInv, UsersInv, NEW r \in Requests, RequestStep(r)
  PROVE  UsersInv'
<1>1. Frame(r)
  BY FrameFacts
<1>2. /\ Len(owner) \in Nat /\ Len(lists) \in Nat
      /\ \A c \in Objects : messages[c] \in 1 .. Len(lists)
      /\ \A q \in Requests : /\ conv[q] # 0 => conv[q] \in Objects
                             /\ fetched[q] # 0 => fetched[q] \in 1 .. Len(lists)
  BY ListTypes, EntryTypes
<1>3. /\ \A q \in Requests : conv[q] # 0 => owner[conv[q]] = UserOf[q]
      /\ \A c \in Objects : OnlyBy(messages[c], owner[c])
      /\ \A q \in Requests : fetched[q] # 0 => OnlyBy(fetched[q], UserOf[q])
  BY DEF UsersInv
<1>4. \A q \in Requests \ {r} : conv'[q] = conv[q] /\ fetched'[q] = fetched[q]
  BY <1>1 DEF Frame, Same
<1>5. ASSUME NEW l \in 1 .. Len(lists), NEW u, lists'[l] = lists[l], OnlyBy(l, u)
      PROVE  OnlyBy(l, u)'
  BY <1>5 DEF OnlyBy
<1>6. CASE Made(r)
  <2> DEFINE new == Len(owner) + 1
  <2>1. /\ Objects' = Objects \cup {new} /\ new \notin Objects
        /\ \A c \in Objects : messages'[c] = messages[c] /\ owner'[c] = owner[c]
        /\ messages'[new] = Len(lists) + 1 /\ owner'[new] = UserOf[r]
        /\ conv'[r] = new /\ fetched'[r] = 0
        /\ \A l \in 1 .. Len(lists) : lists'[l] = lists[l]
        /\ lists'[Len(lists) + 1] = << >>
    BY <1>6, MadeObjects DEF Made, Arrives, PlaceInv
  <2> HIDE DEF new
  <2>2. \A i \in 1 .. Len(lists'[Len(lists) + 1]) : UserOf[lists'[Len(lists) + 1][i].by] = UserOf[r]
    <3>1. Len(lists'[Len(lists) + 1]) = 0
      BY <2>1, EmptySeq
    <3>2. QED
      BY <3>1
  <2>3. \A q \in Requests : conv'[q] # 0 => owner'[conv'[q]] = UserOf[q]
    BY <1>2, <1>3, <1>4, <2>1
  <2>4. \A c \in Objects' : OnlyBy(messages[c], owner[c])'
    <3> SUFFICES ASSUME NEW c \in Objects'
                 PROVE  OnlyBy(messages[c], owner[c])'
      OBVIOUS
    <3>1. CASE c = new
      BY <2>1, <2>2, <3>1 DEF OnlyBy
    <3>2. CASE c \in Objects
      <4>1. OnlyBy(messages[c], owner[c]) /\ messages[c] \in 1 .. Len(lists)
            /\ messages'[c] = messages[c] /\ owner'[c] = owner[c]
            /\ lists'[messages[c]] = lists[messages[c]]
        BY <1>2, <1>3, <2>1, <3>2
      <4>2. QED
        BY <4>1 DEF OnlyBy
    <3>3. QED
      BY <2>1, <3>1, <3>2
  <2>5. \A q \in Requests : fetched'[q] # 0 => OnlyBy(fetched[q], UserOf[q])'
    <3> SUFFICES ASSUME NEW q \in Requests, fetched'[q] # 0
                 PROVE  OnlyBy(fetched[q], UserOf[q])'
      OBVIOUS
    <3>1. /\ fetched'[q] = fetched[q] /\ OnlyBy(fetched[q], UserOf[q])
          /\ lists'[fetched[q]] = lists[fetched[q]]
      BY <1>2, <1>3, <1>4, <2>1
    <3>2. QED
      BY <3>1 DEF OnlyBy
  <2>6. QED
    BY <2>3, <2>4, <2>5 DEF UsersInv
<1>7. CASE Took(r) \/ Denied(r) \/ Walks(r)
  <2>1. /\ owner' = owner /\ messages' = messages /\ lists' = lists /\ fetched'[r] = fetched[r]
        /\ Objects' = Objects
    BY <1>7 DEF Took, Denied, Walks, NoLists, Arrives, Objects
  <2>2. conv'[r] # 0 => owner[conv'[r]] = UserOf[r]
    BY <1>1, <1>3, <1>7 DEF Took, Denied, Walks, Frame
  <2>3. \A q \in Requests : /\ fetched'[q] = fetched[q]
                            /\ conv'[q] # 0 => owner[conv'[q]] = UserOf[q]
    BY <1>3, <1>4, <2>1, <2>2
  <2>4. QED
    BY <1>3, <2>1, <2>3 DEF UsersInv, OnlyBy
<1>8. CASE Fetches(r)
  <2>1. /\ owner' = owner /\ messages' = messages /\ lists' = lists /\ Objects' = Objects
        /\ conv[r] \in Objects /\ fetched'[r] = messages[conv[r]] /\ conv'[r] = conv[r]
    BY <1>1, <1>8 DEF Fetches, NoLists, Frame, Objects
  <2>2. conv[r] # 0 /\ \A q \in Requests : conv'[q] = conv[q]
    BY <1>2, <1>4, <2>1 DEF Objects
  <2>3. \A q \in Requests : fetched'[q] # 0 => OnlyBy(fetched'[q], UserOf[q])
    BY <1>3, <1>4, <2>1, <2>2
  <2>4. QED
    BY <1>3, <2>1, <2>2, <2>3 DEF UsersInv, OnlyBy
<1>9. CASE \E m \in Messages : Extends(r, m)
  <2>1. PICK m \in Messages : Extends(r, m)
    BY <1>9
  <2>2. /\ owner' = owner /\ messages' = messages /\ Objects' = Objects
        /\ fetched'[r] = 0 /\ conv'[r] = conv[r] /\ m.by = r
        /\ fetched[r] \in 1 .. Len(lists) /\ fetched[r] # 0
        /\ \A l \in 1 .. Len(lists) : l # fetched[r] => lists'[l] = lists[l]
        /\ Grows(lists[fetched[r]], lists'[fetched[r]], m)
    BY <1>1, <1>2, <2>1 DEF Extends, Says, Frame, Objects
  <2>3. OnlyBy(fetched[r], UserOf[r]) /\ conv[r] # 0
    BY <1>3, <2>2 DEF PlaceInv
  <2>4. \A u : \A l \in 1 .. Len(lists) : OnlyBy(l, u) /\ (l = fetched[r] => u = UserOf[r]) =>
          \A i \in 1 .. Len(lists'[l]) : UserOf[lists'[l][i].by] = u
    <3> SUFFICES ASSUME NEW u, NEW l \in 1 .. Len(lists),
                        OnlyBy(l, u), l = fetched[r] => u = UserOf[r],
                        NEW i \in 1 .. Len(lists'[l])
                 PROVE  UserOf[lists'[l][i].by] = u
      OBVIOUS
    <3>1. CASE l # fetched[r]
      BY <2>2, <3>1 DEF OnlyBy
    <3>2. CASE l = fetched[r]
      <4>1. Len(lists[l]) \in Nat /\ Len(lists'[l]) = Len(lists[l]) + 1
            /\ lists'[l][Len(lists[l]) + 1] = m
            /\ \A k \in 1 .. Len(lists[l]) : lists'[l][k] = lists[l][k]
        BY <2>2, <3>2, ListTypes DEF Grows
      <4>2. CASE i \in 1 .. Len(lists[l])
        BY <4>1, <4>2 DEF OnlyBy
      <4>3. CASE i = Len(lists[l]) + 1
        BY <2>2, <3>2, <4>1, <4>3
      <4>4. QED
        BY <4>1, <4>2, <4>3
    <3>3. QED
      BY <3>1, <3>2
  <2>5. \A c \in Objects : messages[c] = fetched[r] => owner[c] = UserOf[r]
    BY <1>3, <2>2, <2>3 DEF ApartInv
  <2>6. \A q \in Requests : fetched[q] = fetched[r] => UserOf[q] = UserOf[r]
    <3> SUFFICES ASSUME NEW q \in Requests, fetched[q] = fetched[r]
                 PROVE  UserOf[q] = UserOf[r]
      OBVIOUS
    <3>1. conv[q] = conv[r]
      BY <2>2 DEF ApartInv
    <3>2. QED
      BY <1>3, <2>3, <3>1
  <2>7. \A c \in Objects : OnlyBy(messages[c], owner[c])'
    <3> SUFFICES ASSUME NEW c \in Objects
                 PROVE  OnlyBy(messages[c], owner[c])'
      OBVIOUS
    <3>1. \A i \in 1 .. Len(lists'[messages[c]]) : UserOf[lists'[messages[c]][i].by] = owner[c]
      BY <1>2, <1>3, <2>4, <2>5
    <3>2. QED
      BY <2>2, <3>1 DEF OnlyBy
  <2>8. \A q \in Requests : fetched'[q] # 0 => OnlyBy(fetched[q], UserOf[q])'
    <3> SUFFICES ASSUME NEW q \in Requests, fetched'[q] # 0
                 PROVE  OnlyBy(fetched[q], UserOf[q])'
      OBVIOUS
    <3>1. fetched'[q] = fetched[q] /\ fetched[q] # 0
      BY <1>4, <2>2
    <3>2. \A i \in 1 .. Len(lists'[fetched[q]]) : UserOf[lists'[fetched[q]][i].by] = UserOf[q]
      BY <1>2, <1>3, <2>4, <2>6, <3>1
    <3>3. QED
      BY <3>1, <3>2 DEF OnlyBy
  <2>9. \A q \in Requests : conv'[q] # 0 => owner'[conv'[q]] = UserOf[q]
    BY <1>3, <1>4, <2>2
  <2>10. QED
    BY <2>2, <2>7, <2>8, <2>9 DEF UsersInv
<1>10. CASE Cuts(r)
  <2>1. /\ owner' = owner /\ messages' = messages /\ Objects' = Objects
        /\ fetched'[r] = Len(lists) + 1 /\ conv'[r] = conv[r] /\ conv[r] \in Objects
        /\ \A l \in 1 .. Len(lists) : lists'[l] = lists[l]
        /\ lists'[Len(lists) + 1] = Trimmed(lists[messages[conv[r]]])
        /\ Len(lists[messages[conv[r]]]) > max_messages
    BY <1>1, <1>10 DEF Cuts, Frame, Objects, History
  <2> DEFINE h == lists[messages[conv[r]]]
  <2>2. h \in Seq(Messages) /\ Len(h) > max_messages /\ conv[r] # 0
    BY <1>2, <2>1, ListTypes DEF Objects
  <2>3. \A i \in 1 .. Len(h) : UserOf[h[i].by] = UserOf[r]
    BY <1>3, <2>1, <2>2 DEF OnlyBy
  <2>4. \A i \in 1 .. Len(lists'[Len(lists) + 1]) : UserOf[lists'[Len(lists) + 1][i].by] = UserOf[r]
    <3> HIDE DEF h
    <3>1. lists'[Len(lists) + 1] = Trimmed(h)
      BY <2>1 DEF h
    <3>2. QED
      BY <2>2, <2>3, <3>1, TrimmedFrom
  <2>5. \A q \in Requests : conv'[q] # 0 => owner'[conv'[q]] = UserOf[q]
    BY <1>3, <1>4, <2>1
  <2>6. \A c \in Objects : OnlyBy(messages[c], owner[c])'
    <3> SUFFICES ASSUME NEW c \in Objects
                 PROVE  OnlyBy(messages[c], owner[c])'
      OBVIOUS
    <3>1. /\ OnlyBy(messages[c], owner[c]) /\ messages'[c] = messages[c] /\ owner'[c] = owner[c]
          /\ lists'[messages[c]] = lists[messages[c]]
      BY <1>2, <1>3, <2>1
    <3>2. QED
      BY <3>1 DEF OnlyBy
  <2>7. \A q \in Requests : fetched'[q] # 0 => OnlyBy(fetched[q], UserOf[q])'
    <3> SUFFICES ASSUME NEW q \in Requests, fetched'[q] # 0
                 PROVE  OnlyBy(fetched[q], UserOf[q])'
      OBVIOUS
    <3>1. CASE q = r
      BY <2>1, <2>4, <3>1 DEF OnlyBy
    <3>2. CASE q # r
      <4>1. /\ OnlyBy(fetched[q], UserOf[q]) /\ fetched'[q] = fetched[q]
            /\ lists'[fetched[q]] = lists[fetched[q]]
        BY <1>2, <1>3, <1>4, <2>1, <3>2
      <4>2. QED
        BY <4>1 DEF OnlyBy
    <3>3. QED
      BY <3>1, <3>2
  <2>8. QED
    BY <2>1, <2>5, <2>6, <2>7 DEF UsersInv
<1>11. CASE Saves(r)
  <2>1. /\ owner' = owner /\ lists' = lists /\ Objects' = Objects
        /\ conv[r] \in Objects /\ fetched'[r] = 0 /\ conv'[r] = conv[r] /\ conv[r] # 0
        /\ \A c \in Objects :
             messages'[c] = IF c = conv[r] /\ fetched[r] # 0 THEN fetched[r] ELSE messages[c]
    BY <1>1, <1>2, <1>11 DEF Saves, Frame, Objects
  <2>2. \A q \in Requests : conv'[q] = conv[q] /\ (fetched'[q] = 0 \/ fetched'[q] = fetched[q])
    BY <1>4, <2>1
  <2>3. \A c \in Objects : OnlyBy(messages'[c], owner[c])
    BY <1>3, <2>1
  <2>4. \A q \in Requests : fetched'[q] # 0 => OnlyBy(fetched'[q], UserOf[q])
    BY <1>3, <2>2
  <2>5. QED
    BY <1>3, <2>1, <2>2, <2>3, <2>4 DEF UsersInv, OnlyBy
<1>12. QED
  BY <1>6, <1>7, <1>8, <1>9, <1>10, <1>11, StepFacts

-----------------------------------------------------------------------------
(* The audit log. *)

\* A message of a list was in a list before, or has just been appended.
LEMMA Origin ==
  ASSUME TypeOK, PlaceInv, NEW r \in Requests, RequestStep(r),
         NEW l \in 1 .. Len(lists'), NEW i \in 1 .. Len(lists'[l])
  PROVE  \/ \E k \in 1 .. Len(lists) : \E j \in 1 .. Len(lists[k]) : lists'[l][i] = lists[k][j]
         \/ \E m \in Messages : Extends(r, m) /\ lists'[l][i] = m
<1>1. /\ Len(lists) \in Nat
      /\ \A k \in 1 .. Len(lists) : lists[k] \in Seq(Messages) /\ Len(lists[k]) \in Nat
      /\ \A c \in Objects : messages[c] \in 1 .. Len(lists)
  BY ListTypes
<1>2. CASE Made(r)
  <2>1. /\ Len(lists') = Len(lists) + 1 /\ \A k \in 1 .. Len(lists) : lists'[k] = lists[k]
        /\ Len(lists'[Len(lists) + 1]) = 0
    BY <1>2, EmptySeq DEF Made
  <2>2. l \in 1 .. Len(lists)
    BY <1>1, <2>1
  <2>3. QED
    BY <2>1, <2>2
<1>3. CASE Took(r) \/ Denied(r) \/ Walks(r) \/ Fetches(r) \/ Saves(r)
  <2>1. lists' = lists
    BY <1>3 DEF Took, Denied, Walks, Fetches, Saves, NoLists
  <2>2. QED
    BY <2>1
<1>4. CASE \E m \in Messages : Extends(r, m)
  <2>1. PICK m \in Messages : Extends(r, m)
    BY <1>4
  <2>2. /\ Len(lists') = Len(lists) /\ fetched[r] \in 1 .. Len(lists)
        /\ \A k \in 1 .. Len(lists) : k # fetched[r] => lists'[k] = lists[k]
        /\ Grows(lists[fetched[r]], lists'[fetched[r]], m)
    BY <2>1 DEF Extends
  <2>3. CASE l # fetched[r]
    BY <2>2, <2>3
  <2>4. CASE l = fetched[r]
    <3>1. /\ Len(lists[l]) \in Nat /\ Len(lists'[l]) = Len(lists[l]) + 1
          /\ lists'[l][Len(lists[l]) + 1] = m /\ l \in 1 .. Len(lists)
          /\ \A k \in 1 .. Len(lists[l]) : lists'[l][k] = lists[l][k]
      BY <1>1, <2>2, <2>4 DEF Grows
    <3>2. CASE i \in 1 .. Len(lists[l])
      BY <3>1, <3>2
    <3>3. CASE i = Len(lists[l]) + 1
      BY <2>1, <3>1, <3>3
    <3>4. QED
      BY <3>1, <3>2, <3>3
  <2>5. QED
    BY <2>3, <2>4
<1>5. CASE Cuts(r)
  <2> DEFINE h == History(r)
  <2>1. /\ Len(lists') = Len(lists) + 1 /\ \A k \in 1 .. Len(lists) : lists'[k] = lists[k]
        /\ lists'[Len(lists) + 1] = Trimmed(h)
        /\ Len(h) > max_messages /\ conv[r] \in Objects
    BY <1>5 DEF Cuts
  <2>2. CASE l \in 1 .. Len(lists)
    BY <2>1, <2>2
  <2>3. CASE l = Len(lists) + 1
    <3>1. h \in Seq(Messages) /\ messages[conv[r]] \in 1 .. Len(lists) /\ h = lists[messages[conv[r]]]
      BY <1>1, <2>1 DEF History
    <3> HIDE DEF h
    <3>2. \E j \in 1 .. Len(h) : lists'[l][i] = h[j]
      BY <2>1, <2>3, <3>1, TrimmedFrom
    <3>3. QED
      BY <3>1, <3>2
  <2>4. QED
    BY <1>1, <2>1, <2>2, <2>3
<1>6. QED
  BY <1>2, <1>3, <1>4, <1>5, StepFacts

\* A line stays in the log.
LEMMA ToldKept ==
  ASSUME NEW m \in Messages, audit \subseteq audit', Told(m)
  PROVE  Told(m)'
<1>1. m.kind \in {"user", "reply", "calls", "result"}
  BY MessageType DEF Kinds
<1>2. QED
  BY <1>1 DEF Told

\* The line of a message that is appended is there already.
LEMMA ToldSaid ==
  ASSUME TypeOK, PlaceInv, AuditInv, NEW r \in Requests, NEW m \in Messages, Extends(r, m)
  PROVE  Told(m)
<1>1. rounds[r] \in Nat /\ asked[r] \in Nat /\ done[r] + 1 \in Nat
  BY EntryTypes
<1>2. Says(r, m)
  BY DEF Extends
<1>3. CASE pc[r] = "ask" /\ m = Message("user", r, 0)
  <2>1. <<"question", r, 0, 0>> \in audit
    BY <1>3 DEF AuditInv
  <2>2. QED
    BY <1>3, <2>1 DEF Told, Message
<1>4. CASE pc[r] = "reply" /\ m = Message("reply", r, 0)
  <2>1. <<"model_round", r, rounds[r], 0>> \in audit
    BY <1>4 DEF AuditInv
  <2>2. QED
    BY <1>4, <2>1 DEF Told, Message
<1>5. CASE pc[r] = "calls" /\ m = Message("calls", r, asked[r])
  <2>1. <<"model_round", r, rounds[r], 0>> \in audit
    BY <1>5 DEF AuditInv
  <2>2. QED
    BY <1>5, <2>1 DEF Told, Message
<1>6. CASE pc[r] = "result" /\ m = Message("result", r, done[r] + 1)
  <2>1. <<"tool_call", r, rounds[r], done[r] + 1>> \in audit
    BY <1>6 DEF AuditInv
  <2>2. QED
    BY <1>6, <2>1 DEF Told, Message
<1>7. QED
  BY <1>2, <1>3, <1>4, <1>5, <1>6 DEF Says

\* The lines a request has written at its place.
LEMMA LinesStep ==
  ASSUME TypeOK, PlaceInv, AuditInv, NEW r \in Requests, RequestStep(r), NEW q \in Requests
  PROVE  /\ pc'[q] = "refused" => <<"access_denied", q, 0, 0>> \in audit'
         /\ pc'[q] = "ask" => <<"question", q, 0, 0>> \in audit'
         /\ pc'[q] \in {"reply", "calls"} => <<"model_round", q, rounds'[q], 0>> \in audit'
         /\ pc'[q] = "result" => <<"tool_call", q, rounds'[q], done'[q] + 1>> \in audit'
<1>1. Frame(r) /\ audit \subseteq audit'
  BY FrameFacts DEF Frame
<1>2. /\ pc[q] = "refused" => <<"access_denied", q, 0, 0>> \in audit
      /\ pc[q] = "ask" => <<"question", q, 0, 0>> \in audit
      /\ pc[q] \in {"reply", "calls"} => <<"model_round", q, rounds[q], 0>> \in audit
      /\ pc[q] = "result" => <<"tool_call", q, rounds[q], done[q] + 1>> \in audit
  BY DEF AuditInv
<1>3. CASE q # r
  BY <1>1, <1>2, <1>3 DEF Frame, Same, SameCounts
<1>4. CASE q = r
  <2>1. pc[r] \in {"idle", "denied", "question", "ask"} => rounds[r] = 0
    BY DEF PlaceInv
  <2>2. CASE Made(r) \/ Took(r) \/ Denied(r)
    BY <1>4, <2>2 DEF Made, Took, Denied, Arrives
  <2>3. CASE Walks(r)
    BY <1>4, <2>1, <2>3 DEF Walks, SameCounts
  <2>4. CASE Fetches(r)
    BY <1>1, <1>2, <1>4, <2>4 DEF Fetches, SameCounts
  <2>5. CASE \E m \in Messages : Extends(r, m)
    BY <1>4, <2>5 DEF Extends, Says
  <2>6. CASE Cuts(r) \/ Saves(r)
    BY <1>4, <2>6 DEF Cuts, Saves
  <2>7. QED
    BY <2>2, <2>3, <2>4, <2>5, <2>6, StepFacts
<1>5. QED
  BY <1>3, <1>4

\* No message without its line.
LEMMA AuditStep ==
  ASSUME TypeOK, PlaceInv, AuditInv, NEW r \in Requests, RequestStep(r)
  PROVE  AuditInv'
<1>1. audit \subseteq audit'
  BY FrameFacts DEF Frame
<1>2. ASSUME NEW l \in 1 .. Len(lists'), NEW i \in 1 .. Len(lists'[l])
      PROVE  Told(lists[l][i])'
  <2>1. CASE \E k \in 1 .. Len(lists) : \E j \in 1 .. Len(lists[k]) : lists'[l][i] = lists[k][j]
    <3>1. PICK k \in 1 .. Len(lists) : \E j \in 1 .. Len(lists[k]) : lists'[l][i] = lists[k][j]
      BY <2>1
    <3>2. PICK j \in 1 .. Len(lists[k]) : lists'[l][i] = lists[k][j]
      BY <3>1
    <3>3. lists[k][j] \in Messages /\ Told(lists[k][j])
      BY ListTypes DEF AuditInv
    <3>4. PICK m \in Messages : m = lists[k][j] /\ Told(m)
      BY <3>3
    <3>5. Told(m)'
      BY <1>1, <3>4, ToldKept
    <3>6. QED
      BY <3>2, <3>4, <3>5 DEF Told
  <2>2. CASE \E m \in Messages : Extends(r, m) /\ lists'[l][i] = m
    <3>1. PICK m \in Messages : Extends(r, m) /\ lists'[l][i] = m
      BY <2>2
    <3>2. Told(m)'
      BY <1>1, <3>1, ToldSaid, ToldKept
    <3>3. QED
      BY <3>1, <3>2 DEF Told
  <2>3. QED
    BY <2>1, <2>2, Origin
<1>3. QED
  BY <1>2, LinesStep DEF AuditInv

-----------------------------------------------------------------------------
(* Resets. *)

\* A request that is being served was so before, or has just arrived.
LEMMA ServedBefore ==
  ASSUME TypeOK, NEW r \in Requests, Frame(r)
  PROVE  /\ \A q \in Requests : q \in Serving' /\ q # r => q \in Serving
         /\ pc[r] # "idle" => r \in Serving
         /\ Serving' \subseteq Requests /\ Serving \subseteq Requests
BY DEF Frame, Same, Serving

\* What a message says of its request stays so.
LEMMA SinceKept ==
  ASSUME TypeOK, ResetInv, NEW r \in Requests, Frame(r),
         NEW l \in 1 .. Len(lists), NEW i \in 1 .. Len(lists[l])
  PROVE  /\ pc'[lists[l][i].by] # "idle"
         /\ since'[lists[l][i].by] = since[lists[l][i].by]
<1>1. lists[l][i].by \in Requests
  BY ListTypes, MessageType
<1>2. pc[lists[l][i].by] # "idle"
  BY DEF ResetInv
<1>3. QED
  BY <1>1, <1>2 DEF Frame, Same

\* A conversation is no older than the last reset.
LEMMA ResetStep ==
  ASSUME TypeOK, PlaceInv, ApartInv, ResetInv, NEW r \in Requests, RequestStep(r)
  PROVE  ResetInv'
<1>1. Frame(r) /\ resets' = resets /\ crossed' = crossed
  BY FrameFacts DEF Frame
<1>2. ASSUME NEW l \in 1 .. Len(lists'), NEW i \in 1 .. Len(lists'[l])
      PROVE  pc'[lists'[l][i].by] # "idle"
  <2>1. CASE \E k \in 1 .. Len(lists) : \E j \in 1 .. Len(lists[k]) : lists'[l][i] = lists[k][j]
    BY <1>1, <2>1, SinceKept
  <2>2. CASE \E m \in Messages : Extends(r, m) /\ lists'[l][i] = m
    BY <1>1, <2>2 DEF Extends, Frame
  <2>3. QED
    BY <2>1, <2>2, Origin
<1> DEFINE Fresh(t) == \A i \in 1 .. Len(t) : since'[t[i].by] = resets
<1>3. ASSUME ~crossed
      PROVE  /\ \A q \in Serving' : since'[q] = resets /\ conv'[q] \in {0, stored'}
             /\ stored' # 0 => Fresh(lists'[messages'[stored']])
             /\ \A q \in Requests : fetched'[q] # 0 => Fresh(lists'[fetched'[q]])
  <2>1. /\ \A q \in Serving : since[q] = resets /\ conv[q] \in {0, stored}
        /\ stored # 0 => Recent(messages[stored])
        /\ \A q \in Requests : fetched[q] # 0 => Recent(fetched[q])
    BY <1>3 DEF ResetInv
  <2>2. /\ Len(owner) \in Nat /\ Len(lists) \in Nat
        /\ \A c \in Objects : messages[c] \in 1 .. Len(lists)
        /\ stored # 0 => stored \in Objects
        /\ \A q \in Requests : fetched[q] # 0 => fetched[q] \in 1 .. Len(lists)
    <3>1. stored \in 0 .. Len(owner) /\ Len(owner) \in Nat
      BY ListTypes DEF TypeOK
    <3>2. QED
      BY <3>1, ListTypes, EntryTypes DEF Objects
  <2>3. ASSUME NEW l \in 1 .. Len(lists), Recent(l)
        PROVE  Fresh(lists[l])
    BY <1>1, <2>3, SinceKept DEF Recent
  <2> HIDE DEF Fresh
  <2>4. \A q \in Requests \ {r} :
          /\ conv'[q] = conv[q] /\ fetched'[q] = fetched[q] /\ since'[q] = since[q]
          /\ q \in Serving' => q \in Serving
    BY <1>1, ServedBefore DEF Frame, Same
  <2>5. \A q \in Serving' : q # r => since'[q] = resets /\ conv'[q] \in {0, stored}
    BY <1>1, <2>1, <2>4, ServedBefore
  <2>6. CASE Made(r)
    <3>1. /\ stored = 0 /\ stored' = Len(owner) + 1 /\ conv'[r] = Len(owner) + 1
          /\ messages'[stored'] = Len(lists) + 1 /\ lists'[Len(lists) + 1] = << >>
          /\ since'[r] = resets /\ fetched'[r] = fetched[r]
          /\ \A l \in 1 .. Len(lists) : lists'[l] = lists[l]
      BY <2>6 DEF Made, Arrives
    <3>2. Fresh(lists'[messages'[stored']])
      <4>1. Len(lists'[messages'[stored']]) = 0
        BY <3>1, EmptySeq
      <4>2. QED
        BY <4>1 DEF Fresh
    <3>3. \A q \in Requests : fetched'[q] # 0 => Fresh(lists'[fetched'[q]])
      BY <2>1, <2>2, <2>3, <2>4, <3>1
    <3>4. \A q \in Serving' : since'[q] = resets /\ conv'[q] \in {0, stored'}
      BY <2>5, <3>1
    <3>5. QED
      BY <3>2, <3>3, <3>4
  <2>7. CASE Took(r) \/ Denied(r) \/ Walks(r)
    <3>1. /\ stored' = stored /\ messages' = messages /\ lists' = lists /\ fetched'[r] = fetched[r]
      BY <2>7 DEF Took, Denied, Walks, NoLists, Arrives
    <3>2. r \in Serving' => since'[r] = resets /\ conv'[r] \in {0, stored}
      <4>1. CASE Took(r)
        BY <4>1 DEF Took, Arrives
      <4>2. CASE Denied(r)
        BY <4>2 DEF Denied, Arrives, PlaceInv
      <4>3. CASE Walks(r)
        <5>1. pc[r] # "idle"
          BY <4>3 DEF Walks
        <5>2. r \in Serving /\ since'[r] = since[r] /\ conv'[r] = conv[r]
          BY <1>1, <5>1, ServedBefore DEF Frame
        <5>3. QED
          BY <2>1, <5>2
      <4>4. QED
        BY <2>7, <4>1, <4>2, <4>3
    <3>3. \A q \in Serving' : since'[q] = resets /\ conv'[q] \in {0, stored'}
      BY <2>5, <3>1, <3>2
    <3>4. \A q \in Requests : fetched'[q] # 0 => Fresh(lists'[fetched'[q]])
      BY <2>1, <2>2, <2>3, <2>4, <3>1
    <3>5. stored' # 0 => Fresh(lists'[messages'[stored']])
      BY <2>1, <2>2, <2>3, <3>1
    <3>6. QED
      BY <3>3, <3>4, <3>5
  <2>8. ASSUME pc[r] # "idle"
        PROVE  /\ r \in Serving /\ since'[r] = resets /\ conv'[r] = conv[r] /\ since[r] = resets
               /\ conv[r] \in {0, stored}
    <3>1. r \in Serving /\ since'[r] = since[r] /\ conv'[r] = conv[r]
      BY <1>1, <2>8, ServedBefore DEF Frame
    <3>2. QED
      BY <2>1, <3>1
  <2>9. CASE Fetches(r)
    <3>1. /\ stored' = stored /\ messages' = messages /\ lists' = lists /\ pc[r] # "idle"
          /\ conv[r] \in Objects /\ fetched'[r] = messages[conv[r]]
      BY <2>9 DEF Fetches, NoLists
    <3>2. conv[r] = stored /\ stored # 0
      BY <2>2, <2>8, <3>1 DEF Objects
    <3>3. \A q \in Serving' : since'[q] = resets /\ conv'[q] \in {0, stored'}
      BY <2>5, <2>8, <3>1
    <3>4. stored' # 0 => Fresh(lists'[messages'[stored']])
      BY <2>1, <2>2, <2>3, <3>1
    <3>5. Fresh(lists'[fetched'[r]])
      BY <3>1, <3>2, <3>4
    <3>6. \A q \in Requests : fetched'[q] # 0 => Fresh(lists'[fetched'[q]])
      BY <2>1, <2>2, <2>3, <2>4, <3>1, <3>5
    <3>7. QED
      BY <3>3, <3>4, <3>6
  <2>10. CASE \E m \in Messages : Extends(r, m)
    <3>1. PICK m \in Messages : Extends(r, m)
      BY <2>10
    <3>2. /\ stored' = stored /\ messages' = messages /\ pc[r] # "idle" /\ m.by = r
          /\ fetched[r] \in 1 .. Len(lists) /\ fetched[r] # 0 /\ fetched'[r] = 0
          /\ \A l \in 1 .. Len(lists) : l # fetched[r] => lists'[l] = lists[l]
          /\ Grows(lists[fetched[r]], lists'[fetched[r]], m)
      BY <2>2, <3>1 DEF Extends, Says
    <3>3. Fresh(lists[fetched[r]])
      BY <2>1, <2>3, <3>2
    <3>4. Fresh(lists'[fetched[r]])
      <4> DEFINE h == lists[fetched[r]]
                 t == lists'[fetched[r]]
      <4>1. Len(h) \in Nat /\ Grows(h, t, m) /\ Fresh(h)
        BY <3>2, <3>3, ListTypes
      <4> HIDE DEF h, t
      <4>2. ASSUME NEW i \in 1 .. Len(t)
            PROVE  since'[t[i].by] = resets
        <5>1. CASE i \in 1 .. Len(h)
          BY <4>1, <5>1 DEF Grows, Fresh
        <5>2. CASE i = Len(h) + 1
          BY <2>8, <3>2, <4>1, <5>2 DEF Grows
        <5>3. QED
          BY <4>1, <5>1, <5>2 DEF Grows
      <4>3. QED
        BY <4>2 DEF Fresh, t
    <3>5. ASSUME NEW l \in 1 .. Len(lists), Recent(l)
          PROVE  Fresh(lists'[l])
      BY <2>3, <3>2, <3>4, <3>5
    <3>6. \A q \in Serving' : since'[q] = resets /\ conv'[q] \in {0, stored'}
      BY <2>5, <2>8, <3>2
    <3>7. stored' # 0 => Fresh(lists'[messages'[stored']])
      BY <2>1, <2>2, <3>2, <3>5
    <3>8. \A q \in Requests : fetched'[q] # 0 => Fresh(lists'[fetched'[q]])
      BY <2>1, <2>2, <2>4, <3>2, <3>5
    <3>9. QED
      BY <3>6, <3>7, <3>8
  <2>11. CASE Cuts(r)
    <3> DEFINE h == History(r)
    <3>1. /\ stored' = stored /\ messages' = messages /\ pc[r] # "idle"
          /\ conv[r] \in Objects /\ fetched'[r] = Len(lists) + 1
          /\ \A l \in 1 .. Len(lists) : lists'[l] = lists[l]
          /\ lists'[Len(lists) + 1] = Trimmed(h) /\ Len(h) > max_messages
      BY <2>11 DEF Cuts
    <3>2. conv[r] = stored /\ stored # 0
      BY <2>2, <2>8, <3>1 DEF Objects
    <3>3. h = lists[messages[conv[r]]] /\ h \in Seq(Messages) /\ Fresh(h)
      BY <2>1, <2>2, <2>3, <3>1, <3>2, ListTypes DEF History
    <3> HIDE DEF h
    <3>4. Fresh(Trimmed(h))
      BY <3>1, <3>3, TrimmedFrom DEF Fresh
    <3>5. \A q \in Serving' : since'[q] = resets /\ conv'[q] \in {0, stored'}
      BY <2>5, <2>8, <3>1
    <3>6. stored' # 0 => Fresh(lists'[messages'[stored']])
      BY <2>1, <2>2, <2>3, <3>1
    <3>7. \A q \in Requests : fetched'[q] # 0 => Fresh(lists'[fetched'[q]])
      BY <2>1, <2>2, <2>3, <2>4, <3>1, <3>4
    <3>8. QED
      BY <3>5, <3>6, <3>7
  <2>12. CASE Saves(r)
    <3>1. /\ lists' = lists /\ pc[r] # "idle" /\ stored' = conv[r] /\ conv[r] \in Objects
          /\ fetched'[r] = 0
          /\ messages'[conv[r]] = IF fetched[r] # 0 THEN fetched[r] ELSE messages[conv[r]]
      BY <2>12 DEF Saves
    <3>2. conv[r] = stored /\ stored # 0
      BY <2>2, <2>8, <3>1 DEF Objects
    <3>3. \A q \in Serving' : since'[q] = resets /\ conv'[q] \in {0, stored'}
      BY <2>5, <2>8, <3>1, <3>2
    <3>4. stored' # 0 => Fresh(lists'[messages'[stored']])
      BY <2>1, <2>2, <2>3, <3>1, <3>2
    <3>5. \A q \in Requests : fetched'[q] # 0 => Fresh(lists'[fetched'[q]])
      BY <2>1, <2>2, <2>3, <2>4, <3>1
    <3>6. QED
      BY <3>3, <3>4, <3>5
  <2>13. QED
    BY <2>6, <2>7, <2>9, <2>10, <2>11, <2>12, StepFacts
<1>4. QED
  BY <1>1, <1>2, <1>3 DEF ResetInv, Recent

-----------------------------------------------------------------------------
(* Turns. *)

\* Two requests at once share the conversation.
LEMMA SharedStep ==
  ASSUME TypeOK, PlaceInv, SharedInv, NEW r \in Requests, RequestStep(r)
  PROVE  SharedInv'
<1>1. Frame(r) /\ shared \subseteq shared'
  BY FrameFacts DEF Frame
<1>2. /\ \A p \in Serving' : p \in Requests /\ (p # r => p \in Serving /\ conv'[p] = conv[p])
      /\ pc[r] # "idle" => r \in Serving /\ conv'[r] = conv[r]
  BY <1>1, ServedBefore DEF Frame, Same
<1>3. \A p, q \in Serving : p # q /\ conv[p] = conv[q] /\ conv[q] # 0 => conv[q] \in shared
  BY DEF SharedInv
<1>4. ASSUME NEW p \in Serving', p # r, conv[p] = conv'[r], conv'[r] # 0, r \in Serving'
      PROVE  conv'[r] \in shared'
  <2>1. p \in Serving /\ p \in Requests
    BY <1>2, <1>4
  <2>2. conv[p] \in 0 .. Len(owner) /\ Len(owner) \in Nat
    BY <2>1, EntryTypes, ListTypes
  <2>3. CASE pc[r] # "idle"
    BY <1>1, <1>2, <1>3, <1>4, <2>1, <2>3
  <2>4. CASE Made(r)
    BY <1>4, <2>2, <2>4 DEF Made
  <2>5. CASE Took(r)
    <3>1. conv[p] \in {conv[q] : q \in Serving} /\ conv[p] = stored /\ conv'[r] = stored
          /\ shared' = shared \cup ({conv[q] : q \in Serving} \cap {stored})
      BY <1>4, <2>1, <2>5 DEF Took
    <3>2. QED
      BY <3>1
  <2>6. CASE Denied(r)
    BY <1>4, <2>6 DEF Denied, Arrives, PlaceInv
  <2>7. pc[r] # "idle" \/ Made(r) \/ Took(r) \/ Denied(r)
    BY StepFacts DEF Walks, Fetches, Extends, Says, Cuts, Saves
  <2>8. QED
    BY <2>3, <2>4, <2>5, <2>6, <2>7
<1>5. ASSUME NEW p \in Serving', NEW q \in Serving', p # q, conv'[p] = conv'[q], conv'[q] # 0
      PROVE  conv'[q] \in shared'
  <2>1. CASE p # r /\ q # r
    BY <1>1, <1>2, <1>3, <1>5, <2>1
  <2>2. CASE p = r
    BY <1>2, <1>4, <1>5, <2>2
  <2>3. CASE q = r
    BY <1>2, <1>4, <1>5, <2>3
  <2>4. QED
    BY <2>1, <2>2, <2>3
<1>6. QED
  BY <1>5 DEF SharedInv

\* A conversation that is used by one request and not torn was so before.
LEMMA AloneBefore ==
  ASSUME TypeOK, NEW r \in Requests, Frame(r), NEW c, Alone(c)'
  PROVE  Alone(c)
<1>1. shared \subseteq shared' /\ pc[r] # "torn" /\ \A q \in Requests \ {r} : Same(q)
  BY DEF Frame, Finished
<1>2. \A q \in Requests : pc[q] = "torn" => pc'[q] = "torn" /\ conv'[q] = conv[q]
  BY <1>1 DEF Same
<1>3. QED
  BY <1>1, <1>2 DEF Alone, Torn

\* The other requests have nothing to do with it.
LEMMA NobodyElse ==
  ASSUME TypeOK, PlaceInv, SharedInv, NEW r \in Requests, r \in Serving,
         conv[r] \in Objects, conv[r] \notin shared, NEW q \in Requests, q # r, conv[q] = conv[r]
  PROVE  fetched[q] = 0 /\ ~InTurn(q)
<1>1. conv[r] # 0
  BY DEF Objects
<1>2. q \notin Serving
  BY <1>1 DEF SharedInv
<1>3. pc[q] \in Finished \cup {"idle"}
  BY <1>2 DEF Serving
<1>4. QED
  BY <1>3 DEF PlaceInv, Finished, InTurn

\* A step leaves alone the conversations that its request did not have.
LEMMA Untouched ==
  ASSUME TypeOK, NEW r \in Requests, Frame(r), NEW c \in Objects,
         conv[r] # c, conv'[r] = c => TurnOf(c, r)', TurnsAt(c),
         messages'[c] = messages[c], lists'[messages[c]] = lists[messages[c]],
         \A q \in Requests : conv[q] = c /\ fetched[q] # 0 => lists'[fetched[q]] = lists[fetched[q]]
  PROVE  TurnsAt(c)'
<1>1. \A q \in Requests \ {r} :
        /\ conv'[q] = conv[q] /\ pc'[q] = pc[q] /\ fetched'[q] = fetched[q]
        /\ done'[q] = done[q] /\ rounds'[q] = rounds[q] /\ asked'[q] = asked[q]
  BY DEF Frame, Same, SameCounts
<1>2. ASSUME NEW q \in Requests, q # r, conv'[q] = c
      PROVE  TurnOf(c, q)'
  <2>1. q # r /\ conv[q] = c
    BY <1>1, <1>2
  <2>2. TurnOf(c, q)
    BY <2>1 DEF TurnsAt
  <2>3. /\ pc'[q] = pc[q] /\ fetched'[q] = fetched[q]
        /\ done'[q] = done[q] /\ rounds'[q] = rounds[q] /\ asked'[q] = asked[q]
        /\ fetched[q] # 0 => lists'[fetched[q]] = lists[fetched[q]]
    BY <1>1, <2>1
  <2>4. Message("calls", q, asked[q])' = Message("calls", q, asked[q])
    BY <2>3 DEF Message
  <2>5. InTurn(q)' <=> InTurn(q)
    BY <2>3 DEF InTurn
  <2>6. InTurn(q)' => OpenTurn(lists'[messages'[c]], done'[q], Message("calls", q, asked[q])')
    BY <2>2, <2>3, <2>4, <2>5 DEF TurnOf
  <2>7. fetched'[q] # 0 => IF pc'[q] = "assign" THEN TurnsBut(lists'[fetched'[q]], 0)
                           ELSE fetched'[q] = messages'[c]
    BY <2>2, <2>3 DEF TurnOf
  <2>8. QED
    BY <2>6, <2>7, Zenon DEF TurnOf, OpenTurn, TurnsBut, Answered, Belongs, InTurn, Message
<1>3. \A q \in Requests : conv'[q] = c => TurnOf(c, q)'
  BY <1>2
<1>4. CASE \E q \in Requests : conv[q] = c /\ InTurn(q)
  <2>1. PICK q \in Requests : conv[q] = c /\ InTurn(q)
    BY <1>4
  <2>2. conv'[q] = c /\ InTurn(q)'
    BY <1>1, <2>1 DEF InTurn
  <2>3. QED
    BY <1>3, <2>2, Zenon DEF TurnsAt
<1>5. CASE TurnsBut(lists[messages[c]], 0)
  <2>1. TurnsBut(lists'[messages'[c]], 0)
    BY <1>5
  <2>2. TurnsBut(lists[messages[c]], 0)'
    BY <2>1 DEF TurnsBut, Answered, Belongs
  <2>3. QED
    BY <1>3, <2>2, Zenon DEF TurnsAt
<1>6. QED
  BY <1>4, <1>5 DEF TurnsAt

\* The request that takes the step is the only one that counts.
LEMMA OwnTurn ==
  ASSUME TypeOK, PlaceInv, SharedInv, NEW r \in Requests, Frame(r), r \in Serving,
         NEW c \in Objects, c = conv[r], conv'[r] = c, c \notin shared,
         TurnOf(c, r)', InTurn(r)' \/ TurnsBut(lists[messages[c]], 0)'
  PROVE  TurnsAt(c)'
<1>1. ASSUME NEW q \in Requests, q # r, conv'[q] = c
      PROVE  TurnOf(c, q)'
  <2>1. conv[q] = c /\ fetched'[q] = fetched[q] /\ pc'[q] = pc[q]
    BY <1>1 DEF Frame, Same
  <2>2. fetched[q] = 0 /\ ~InTurn(q)
    BY <1>1, <2>1, NobodyElse
  <2>3. QED
    BY <2>1, <2>2 DEF TurnOf, InTurn
<1>2. \A q \in Requests : conv'[q] = c => TurnOf(c, q)'
  BY <1>1
<1>3. QED
  BY <1>2, Zenon DEF TurnsAt

\* Its history is whole while it is not between a call and its last result.
LEMMA OwnWhole ==
  ASSUME TypeOK, PlaceInv, SharedInv, NEW r \in Requests, r \in Serving,
         NEW c \in Objects, c = conv[r], c \notin shared, TurnsAt(c), ~InTurn(r)
  PROVE  TurnsBut(lists[messages[c]], 0)
<1>1. ASSUME NEW q \in Requests, conv[q] = c
      PROVE  ~InTurn(q)
  <2>1. CASE q = r
    BY <2>1
  <2>2. CASE q # r
    BY <1>1, <2>2, NobodyElse
  <2>3. QED
    BY <2>1, <2>2
<1>2. QED
  BY <1>1 DEF TurnsAt

\* A request that is not between a call and its last result, and has no list in
\* hand.
LEMMA PlainTurn ==
  ASSUME NEW r \in Requests, NEW c, ~InTurn(r)', fetched'[r] = 0
  PROVE  TurnOf(c, r)'
BY DEF TurnOf

\* A step that leaves the lists alone.
LEMMA WalkTurn ==
  ASSUME TypeOK, PlaceInv, SharedInv, NEW r \in Requests, Frame(r), Walks(r),
         NEW c \in Objects, c = conv[r], Alone(c), Alone(c)', TurnsAt(c)
  PROVE  TurnsAt(c)'
<1>1. pc[r] # "idle"
  BY DEF Walks
<1>2. /\ r \in Serving /\ conv'[r] = c /\ c \notin shared
      /\ messages' = messages /\ lists' = lists /\ fetched'[r] = fetched[r]
  BY <1>1, ServedBefore DEF Frame, Alone, Walks, NoLists
<1>3. TurnOf(c, r)
  BY DEF TurnsAt
<1>4. fetched[r] = 0
  BY DEF Walks, PlaceInv
<1>5. pc'[r] # "torn"
  BY <1>2 DEF Alone, Torn
<1>6. CASE pc[r] = "tool"
  <2>1. pc'[r] = "result" /\ SameCounts(r)
    BY <1>5, <1>6 DEF Walks
  <2>2. OpenTurn(lists[messages[c]], done[r], Message("calls", r, asked[r]))
    BY <1>3, <1>6 DEF TurnOf, InTurn
  <2>3. /\ Message("calls", r, asked[r])' = Message("calls", r, asked[r])
        /\ done'[r] = done[r] /\ lists'[messages'[c]] = lists[messages[c]]
    BY <1>2, <2>1 DEF Message, SameCounts
  <2>4. OpenTurn(lists'[messages'[c]], done'[r], Message("calls", r, asked[r])')
    BY <2>2, <2>3
  <2>5. InTurn(r)' /\ fetched'[r] = 0
    BY <1>2, <1>4, <2>1 DEF InTurn
  <2>6. TurnOf(c, r)'
    BY <2>4, <2>5, Zenon DEF TurnOf, OpenTurn, TurnsBut, Answered, Belongs, Message
  <2>7. QED
    BY <1>2, <2>5, <2>6, OwnTurn
<1>7. CASE pc[r] # "tool"
  <2>1. ~InTurn(r) /\ ~InTurn(r)'
    BY <1>7 DEF Walks, InTurn
  <2>2. TurnsBut(lists[messages[c]], 0)
    BY <1>2, <2>1, OwnWhole
  <2>3. TurnsBut(lists'[messages'[c]], 0)
    BY <1>2, <2>2
  <2>4. TurnsBut(lists[messages[c]], 0)'
    BY <2>3 DEF TurnsBut, Answered, Belongs
  <2>5. TurnOf(c, r)'
    BY <1>2, <1>4, <2>1, PlainTurn
  <2>6. QED
    BY <1>2, <2>4, <2>5, OwnTurn
<1>8. QED
  BY <1>6, <1>7

\* The list is fetched.
LEMMA FetchTurn ==
  ASSUME TypeOK, PlaceInv, SharedInv, NEW r \in Requests, Frame(r), Fetches(r),
         NEW c \in Objects, c = conv[r], Alone(c), TurnsAt(c)
  PROVE  TurnsAt(c)'
<1>1. pc[r] # "idle" /\ pc[r] # "assign" /\ pc'[r] = pc[r] /\ SameCounts(r)
  BY DEF Fetches
<1>2. /\ r \in Serving /\ conv'[r] = c /\ c \notin shared
      /\ messages' = messages /\ lists' = lists /\ fetched'[r] = messages[c]
  BY <1>1, ServedBefore DEF Frame, Alone, Fetches, NoLists
<1>3. InTurn(r)' <=> InTurn(r)
  BY <1>1 DEF InTurn
<1>4. /\ Message("calls", r, asked[r])' = Message("calls", r, asked[r])
      /\ done'[r] = done[r] /\ lists'[messages'[c]] = lists[messages[c]]
  BY <1>1, <1>2 DEF Message, SameCounts
<1>5. InTurn(r)' => OpenTurn(lists'[messages'[c]], done'[r], Message("calls", r, asked[r])')
  BY <1>3, <1>4 DEF TurnsAt, TurnOf
<1>6. pc'[r] # "assign" /\ fetched'[r] = messages'[c]
  BY <1>1, <1>2
<1>7. TurnOf(c, r)'
  BY <1>5, <1>6, Zenon DEF TurnOf, OpenTurn, TurnsBut, Answered, Belongs, Message, InTurn
<1>8. InTurn(r)' \/ TurnsBut(lists[messages[c]], 0)'
  <2>1. CASE InTurn(r)
    BY <1>3, <2>1
  <2>2. CASE ~InTurn(r)
    <3>1. TurnsBut(lists'[messages'[c]], 0)
      BY <1>2, <1>4, <2>2, OwnWhole
    <3>2. QED
      BY <3>1 DEF TurnsBut, Answered, Belongs
  <2>3. QED
    BY <2>1, <2>2
<1>9. QED
  BY <1>2, <1>7, <1>8, OwnTurn

\* An append: it opens, goes on with or closes a turn, or has none to do with.
LEMMA ExtendTurn ==
  ASSUME TypeOK, PlaceInv, SharedInv, NEW r \in Requests, Frame(r),
         NEW m \in Messages, Extends(r, m),
         NEW c \in Objects, c = conv[r], Alone(c), TurnsAt(c)
  PROVE  TurnsAt(c)'
<1> DEFINE h == lists[messages[c]]
           t == lists'[messages'[c]]
<1>1. /\ Says(r, m) /\ pc[r] # "idle" /\ pc[r] # "assign"
      /\ fetched[r] # 0 /\ fetched'[r] = 0 /\ messages' = messages
      /\ rounds'[r] = rounds[r] /\ asked'[r] = asked[r]
      /\ Grows(lists[fetched[r]], lists'[fetched[r]], m)
  <2>1. fetched[r] \in 1 .. Len(lists) /\ Len(lists) \in Nat
    BY ListTypes DEF Extends
  <2>2. fetched[r] # 0
    BY <2>1
  <2>3. QED
    BY <2>2 DEF Extends, Says
<1>2. r \in Serving /\ conv'[r] = c /\ c \notin shared
  BY <1>1, ServedBefore DEF Frame, Alone
<1>3. TurnOf(c, r)
  BY DEF TurnsAt
<1>4. fetched[r] = messages[c]
  BY <1>1, <1>3 DEF TurnOf
<1>5. Grows(h, t, m)
  BY <1>1, <1>4
<1>6. Len(h) \in Nat /\ \A i \in 1 .. Len(h) : h[i] \in Messages
  BY ListTypes
<1>7. /\ asked[r] \in Nat /\ done[r] \in Nat /\ rounds[r] \in Nat
      /\ Message("calls", r, asked[r])' = Message("calls", r, asked[r])
      /\ Message("calls", r, asked[r]) \in Messages
      /\ Message("calls", r, asked[r]).kind = "calls" /\ Message("calls", r, asked[r]).by = r
      /\ Message("calls", r, asked[r]).round = rounds[r] /\ Message("calls", r, asked[r]).n = asked[r]
  <2>1. asked[r] \in Nat /\ done[r] \in Nat /\ rounds[r] \in Nat
    BY EntryTypes
  <2>2. "calls" \in Kinds
    BY DEF Kinds
  <2>3. Message("calls", r, asked[r])' = Message("calls", r, asked[r])
    BY <1>1 DEF Message
  <2>4. QED
    BY <2>1, <2>2, <2>3, MessageFacts
<1>8. InTurn(r)' => fetched'[r] = 0
  BY <1>1
<1>9. ASSUME InTurn(r)', OpenTurn(t, done'[r], Message("calls", r, asked[r])')
      PROVE  TurnsAt(c)'
  <2>1. TurnOf(c, r)'
    BY <1>1, <1>9, Zenon DEF TurnOf, OpenTurn, TurnsBut, Answered, Belongs, Message
  <2>2. QED
    BY <1>2, <1>9, <2>1, OwnTurn
<1>10. ASSUME ~InTurn(r)', TurnsBut(t, 0)
       PROVE  TurnsAt(c)'
  <2>1. TurnOf(c, r)'
    BY <1>1, <1>10, PlainTurn
  <2>2. TurnsBut(lists[messages[c]], 0)'
    BY <1>10 DEF TurnsBut, Answered, Belongs
  <2>3. QED
    BY <1>2, <2>1, <2>2, OwnTurn
<1>11. ~InTurn(r) => TurnsBut(h, 0)
  BY <1>2, OwnWhole
<1> HIDE DEF h, t
<1>12. /\ Len(t) = Len(h) + 1 /\ t[Len(h) + 1] = m
       /\ \A i \in 1 .. Len(h) : t[i] = h[i] /\ h[i] \in Messages
  BY <1>5, <1>6 DEF Grows
<1>13. CASE pc[r] \in {"ask", "reply"}
  <2>1. m.kind \in {"user", "reply"} /\ pc'[r] \in {"connect", "save"}
    BY <1>1, <1>13 DEF Says, Message
  <2>2. ~InTurn(r) /\ ~InTurn(r)'
    BY <1>13, <2>1 DEF InTurn
  <2>3. TurnsBut(t, 0)
    BY <1>6, <1>11, <1>12, <2>1, <2>2, PlainAppended
  <2>4. QED
    BY <1>10, <2>2, <2>3
<1>14. CASE pc[r] = "calls"
  <2>1. m = Message("calls", r, asked[r]) /\ pc'[r] = "tool" /\ done'[r] = 0
    BY <1>1, <1>14 DEF Says, PlaceInv
  <2>2. ~InTurn(r) /\ InTurn(r)'
    BY <1>14, <2>1 DEF InTurn
  <2>3. OpenTurn(t, 0, m)
    BY <1>6, <1>7, <1>11, <1>12, <2>1, <2>2, CallAppended
  <2>4. QED
    BY <1>7, <1>9, <2>1, <2>2, <2>3
<1>15. CASE pc[r] = "result"
  <2> DEFINE k == done[r]
             calls == Message("calls", r, asked[r])
  <2>1. /\ m = Message("result", r, k + 1) /\ done'[r] = k + 1
        /\ \/ pc'[r] = "tool" /\ k + 1 < asked[r]
           \/ pc'[r] = "loop" /\ ~(k + 1 < asked[r])
    BY <1>1, <1>15 DEF Says
  <2>2. OpenTurn(h, k, calls) /\ k < asked[r]
    BY <1>3, <1>15 DEF TurnOf, InTurn, PlaceInv, h
  <2>3. /\ k \in Nat /\ calls \in Messages /\ calls.kind = "calls" /\ k < calls.n
        /\ calls.n = asked[r]
        /\ t[Len(h) + 1] = [kind |-> "result", by |-> calls.by, round |-> calls.round, n |-> k + 1]
    BY <1>7, <1>12, <2>1, <2>2 DEF Message
  <2>4. calls' = calls
    BY <1>7
  <2> HIDE DEF calls
  <2>5. OpenTurn(t, k + 1, calls)
    BY <1>6, <1>12, <2>2, <2>3, ResultAppended
  <2>6. CASE pc'[r] = "tool" /\ k + 1 < asked[r]
    <3>1. InTurn(r)'
      BY <2>6 DEF InTurn
    <3>2. QED
      BY <1>9, <2>1, <2>4, <2>5, <3>1 DEF calls
  <2>7. CASE pc'[r] = "loop" /\ ~(k + 1 < asked[r])
    <3>1. k + 1 = asked[r]
      BY <1>7, <2>2, <2>7
    <3>2. Len(t) \in Nat /\ OpenTurn(t, calls.n, calls)
      BY <1>6, <1>12, <2>3, <2>5, <3>1
    <3>3. TurnsBut(t, 0)
      BY <2>3, <3>2, TurnClosed
    <3>4. ~InTurn(r)'
      BY <2>7 DEF InTurn
    <3>5. QED
      BY <1>10, <3>3, <3>4
  <2>8. QED
    BY <2>1, <2>6, <2>7
<1>16. pc[r] \in {"ask", "reply", "calls", "result"}
  BY <1>1 DEF Says
<1>17. QED
  BY <1>13, <1>14, <1>15, <1>16

\* A trimmed list is made.
LEMMA CutTurn ==
  ASSUME TypeOK, PlaceInv, SharedInv, NEW r \in Requests, Frame(r), Cuts(r),
         NEW c \in Objects, c = conv[r], Alone(c), TurnsAt(c)
  PROVE  TurnsAt(c)'
<1> DEFINE h == lists[messages[c]]
           n == Len(lists) + 1
<1>1. /\ pc[r] = "save" /\ pc'[r] = "assign" /\ messages' = messages
      /\ fetched'[r] = n /\ lists'[n] = Trimmed(h) /\ Len(h) > max_messages
      /\ \A l \in 1 .. Len(lists) : lists'[l] = lists[l]
  BY DEF Cuts, History
<1>2. r \in Serving /\ conv'[r] = c /\ c \notin shared
  BY <1>1, ServedBefore DEF Frame, Alone
<1>3. messages[c] \in 1 .. Len(lists) /\ h \in Seq(Messages)
  BY ListTypes
<1>4. ~InTurn(r) /\ ~InTurn(r)'
  BY <1>1 DEF InTurn
<1>5. TurnsBut(h, 0)
  BY <1>2, <1>4, OwnWhole
<1>6. lists'[messages'[c]] = h
  BY <1>1, <1>3
<1>7. TurnsBut(lists[messages[c]], 0)'
  <2>1. TurnsBut(lists'[messages'[c]], 0)
    BY <1>5, <1>6
  <2>2. QED
    BY <2>1 DEF TurnsBut, Answered, Belongs
<1> HIDE DEF h
<1>8. TurnsBut(lists'[fetched'[r]], 0)
  BY <1>1, <1>3, <1>5, TrimmedWhole
<1>9. TurnOf(c, r)'
  BY <1>1, <1>4, <1>8, Zenon DEF TurnOf, TurnsBut, Answered, Belongs
<1>10. QED
  BY <1>2, <1>7, <1>9, OwnTurn

\* It is assigned.
LEMMA SaveTurn ==
  ASSUME TypeOK, PlaceInv, SharedInv, NEW r \in Requests, Frame(r), Saves(r),
         NEW c \in Objects, c = conv[r], Alone(c), TurnsAt(c)
  PROVE  TurnsAt(c)'
<1>1. /\ pc[r] = "assign" /\ pc'[r] = "answered" /\ lists' = lists /\ fetched'[r] = 0
      /\ messages'[c] = IF fetched[r] # 0 THEN fetched[r] ELSE messages[c]
  BY DEF Saves
<1>2. r \in Serving /\ conv'[r] = c /\ c \notin shared
  BY <1>1, ServedBefore DEF Frame, Alone
<1>3. ~InTurn(r) /\ ~InTurn(r)'
  BY <1>1 DEF InTurn
<1>4. TurnsBut(lists[messages[c]], 0)
  BY <1>2, <1>3, OwnWhole
<1>5. fetched[r] # 0 => TurnsBut(lists[fetched[r]], 0)
  BY <1>1 DEF TurnsAt, TurnOf
<1>6. TurnsBut(lists'[messages'[c]], 0)
  BY <1>1, <1>4, <1>5
<1>7. TurnsBut(lists[messages[c]], 0)'
  BY <1>6 DEF TurnsBut, Answered, Belongs
<1>8. TurnOf(c, r)'
  BY <1>1, <1>3, PlainTurn
<1>9. QED
  BY <1>2, <1>7, <1>8, OwnTurn

\* A conversation that is made has no history.
LEMMA MadeTurn ==
  ASSUME TypeOK, PlaceInv, NEW r \in Requests, Frame(r), Made(r),
         NEW c, c = Len(owner) + 1
  PROVE  TurnsAt(c)'
<1>1. /\ Len(lists'[messages'[c]]) = 0 /\ pc'[r] = "question" /\ fetched'[r] = fetched[r]
      /\ pc[r] = "idle"
  BY EmptySeq DEF Made, Arrives
<1>2. TurnsBut(lists[messages[c]], 0)'
  BY <1>1 DEF TurnsBut
<1>3. fetched'[r] = 0 /\ ~InTurn(r)'
  BY <1>1 DEF PlaceInv, InTurn
<1>4. TurnOf(c, r)'
  BY <1>3, PlainTurn
<1>5. ASSUME NEW q \in Requests, q # r
      PROVE  conv'[q] # c
  <2>1. conv'[q] = conv[q]
    BY <1>5 DEF Frame, Same
  <2>2. conv[q] \in 0 .. Len(owner) /\ Len(owner) \in Nat
    BY EntryTypes, ListTypes
  <2>3. QED
    BY <2>1, <2>2
<1>6. \A q \in Requests : conv'[q] = c => TurnOf(c, q)'
  BY <1>4, <1>5
<1>7. QED
  BY <1>2, <1>6, Zenon DEF TurnsAt

\* The lists of the other conversations stay.
LEMMA OtherTurns ==
  ASSUME TypeOK, PlaceInv, ApartInv, NEW r \in Requests, RequestStep(r),
         NEW c \in Objects, conv[r] # c, TurnsAt(c)
  PROVE  TurnsAt(c)'
<1>1. Frame(r)
  BY FrameFacts
<1>2. messages[c] \in 1 .. Len(lists)
  BY ListTypes
<1>3. \A q \in Requests : fetched[q] # 0 => fetched[q] \in 1 .. Len(lists)
  BY EntryTypes
<1>4. conv'[r] = c => TurnOf(c, r)'
  <2> SUFFICES ASSUME conv'[r] = c
               PROVE  TurnOf(c, r)'
    OBVIOUS
  <2>1. pc[r] = "idle"
    BY <1>1 DEF Frame
  <2>2. Made(r) \/ Took(r) \/ Denied(r)
    BY <2>1, StepFacts DEF Walks, Fetches, Extends, Says, Cuts, Saves
  <2>3. fetched'[r] = 0 /\ ~InTurn(r)'
    BY <2>1, <2>2 DEF Made, Took, Denied, Arrives, PlaceInv, InTurn
  <2>4. QED
    BY <2>3, PlainTurn
<1>5. /\ messages'[c] = messages[c] /\ lists'[messages[c]] = lists[messages[c]]
      /\ \A q \in Requests : conv[q] = c /\ fetched[q] # 0 => lists'[fetched[q]] = lists[fetched[q]]
  <2>1. CASE Made(r)
    BY <1>2, <1>3, <2>1 DEF Made
  <2>2. CASE Took(r) \/ Denied(r) \/ Walks(r) \/ Fetches(r)
    BY <2>2 DEF Took, Denied, Walks, Fetches, NoLists
  <2>3. CASE \E m \in Messages : Extends(r, m)
    <3>1. PICK m \in Messages : Extends(r, m)
      BY <2>3
    <3>2. messages' = messages /\ lists'[messages[c]] = lists[messages[c]]
      BY <3>1, OthersList DEF Extends
    <3>3. ASSUME NEW q \in Requests, conv[q] = c, fetched[q] # 0
          PROVE  lists'[fetched[q]] = lists[fetched[q]]
      <4>1. fetched[q] # fetched[r] /\ fetched[q] \in 1 .. Len(lists)
        BY <1>3, <3>3 DEF ApartInv
      <4>2. QED
        BY <3>1, <4>1 DEF Extends
    <3>4. QED
      BY <3>2, <3>3
  <2>4. CASE Cuts(r)
    BY <1>2, <1>3, <2>4 DEF Cuts
  <2>5. CASE Saves(r)
    BY <2>5 DEF Saves
  <2>6. QED
    BY <2>1, <2>2, <2>3, <2>4, <2>5, StepFacts
<1>6. QED
  BY <1>1, <1>4, <1>5, Untouched

\* Turns stay together.
LEMMA TurnsStep ==
  ASSUME TypeOK, PlaceInv, ApartInv, SharedInv, TurnsInv, NEW r \in Requests, RequestStep(r)
  PROVE  TurnsInv'
<1>1. Frame(r)
  BY FrameFacts
<1>2. SUFFICES ASSUME NEW c \in Objects', Alone(c)'
               PROVE  TurnsAt(c)'
  BY DEF TurnsInv
<1>3. CASE c \in Objects
  <2>1. Alone(c) /\ TurnsAt(c)
    BY <1>1, <1>2, <1>3, AloneBefore DEF TurnsInv
  <2>2. CASE conv[r] # c
    BY <1>3, <2>1, <2>2, OtherTurns
  <2>3. CASE conv[r] = c
    <3>1. ~Made(r) /\ ~Took(r) /\ ~Denied(r)
      <4>1. pc[r] # "idle"
        <5>1. conv[r] # 0
          BY <1>3, <2>3 DEF Objects
        <5>2. QED
          BY <5>1 DEF PlaceInv
      <4>2. QED
        BY <4>1 DEF Made, Took, Denied, Arrives
    <3>2. QED
      BY <1>1, <1>2, <1>3, <2>1, <2>3, <3>1, StepFacts,
         WalkTurn, FetchTurn, ExtendTurn, CutTurn, SaveTurn
  <2>4. QED
    BY <2>2, <2>3
<1>4. CASE c \notin Objects
  <2>1. Made(r)
    <3>1. owner' # owner
      BY <1>2, <1>4 DEF Objects
    <3>2. QED
      BY <3>1, StepFacts DEF Took, Denied, Walks, Fetches, Extends, Cuts, Saves, NoLists
  <2>2. c = Len(owner) + 1
    BY <1>2, <1>4, <2>1, MadeObjects
  <2>3. QED
    BY <1>1, <2>1, <2>2, MadeTurn
<1>5. QED
  BY <1>3, <1>4

-----------------------------------------------------------------------------
(* The invariant. *)

\* There is nothing at first.
LEMMA InitInv == Init => IInv
<1> SUFFICES ASSUME Init
             PROVE  IInv
  OBVIOUS
<1> USE DEF Init
<1>1. Len(owner) = 0 /\ Len(lists) = 0 /\ Len(messages) = 0 /\ Objects = {}
  <2>1. Len(<< >>) = 0
    BY EmptySeq
  <2>2. QED
    BY <2>1 DEF Objects
<1>2. \A x : x \notin 1 .. 0
  OBVIOUS
<1>3. TypeOK
  <2>1. /\ owner \in Seq({UserOf[r] : r \in Requests}) /\ messages \in Seq(1 .. Len(lists))
        /\ lists \in Seq(Seq(Messages))
    BY EmptySeq, Zenon
  <2>2. lock \in SUBSET Requests /\ Cardinality(lock) <= 1
    BY FS_EmptySet
  <2>3. /\ 0 \in 0 .. max_tool_rounds /\ 0 \in CallCounts /\ 0 \in 0 .. MaxResets
        /\ 0 \in 0 .. 0
    BY ChatAssumption
  <2>4. /\ stored \in 0 .. Len(owner) /\ conv \in [Requests -> 0 .. Len(owner)]
        /\ fetched \in [Requests -> 0 .. Len(lists)]
    BY <1>1, <2>3
  <2>5. /\ pc \in [Requests -> RequestPc] /\ rounds \in [Requests -> 0 .. max_tool_rounds]
        /\ asked \in [Requests -> CallCounts] /\ done \in [Requests -> Nat]
        /\ since \in [Requests -> 0 .. MaxResets] /\ resets \in 0 .. MaxResets
    BY <2>3 DEF RequestPc
  <2>6. audit \subseteq Entries /\ shared \subseteq Objects /\ crossed \in BOOLEAN
        /\ Len(messages) = Len(owner)
    BY <1>1
  <2>7. QED
    BY <2>1, <2>2, <2>4, <2>5, <2>6, Zenon DEF TypeOK
<1>4. PlaceInv
  BY DEF PlaceInv
<1>5. ApartInv /\ UsersInv
  BY <1>1 DEF ApartInv, UsersInv
<1>6. AuditInv
  BY <1>1, <1>2 DEF AuditInv
<1>7. Serving = {}
  BY DEF Serving
<1>8. ResetInv /\ SharedInv
  BY <1>1, <1>2, <1>7 DEF ResetInv, SharedInv
<1>9. TurnsInv
  BY <1>1 DEF TurnsInv
<1>10. QED
  BY <1>3, <1>4, <1>5, <1>6, <1>8, <1>9, Zenon DEF IInv

\* Turns are about the lists and the requests.
LEMMA TurnsKept ==
  ASSUME TurnsInv,
         owner' = owner, messages' = messages, lists' = lists, pc' = pc, conv' = conv,
         fetched' = fetched, rounds' = rounds, asked' = asked, done' = done, shared' = shared
  PROVE  TurnsInv'
<1>1. SUFFICES ASSUME NEW c \in Objects', Alone(c)'
               PROVE  TurnsAt(c)'
  BY DEF TurnsInv
<1>2. c \in Objects /\ Alone(c)
  BY <1>1 DEF Objects, Alone, Torn
<1>3. TurnsAt(c)
  BY <1>2 DEF TurnsInv
<1>4. ASSUME NEW r \in Requests, TurnOf(c, r)
      PROVE  TurnOf(c, r)'
  <2>1. /\ Message("calls", r, asked[r])' = Message("calls", r, asked[r])
        /\ InTurn(r)' <=> InTurn(r)
    BY DEF Message, InTurn
  <2>2. InTurn(r)' => OpenTurn(lists'[messages'[c]], done'[r], Message("calls", r, asked[r])')
    BY <1>4, <2>1 DEF TurnOf
  <2>3. fetched'[r] # 0 => IF pc'[r] = "assign" THEN TurnsBut(lists'[fetched'[r]], 0)
                           ELSE fetched'[r] = messages'[c]
    BY <1>4 DEF TurnOf
  <2>4. QED
    BY <2>2, <2>3, Zenon DEF TurnOf, OpenTurn, TurnsBut, Answered, Belongs, InTurn, Message
<1>5. \A r \in Requests : conv'[r] = c => TurnOf(c, r)'
  BY <1>3, <1>4 DEF TurnsAt
<1>6. CASE \E r \in Requests : conv[r] = c /\ InTurn(r)
  <2>1. \E r \in Requests : conv'[r] = c /\ InTurn(r)'
    BY <1>6 DEF InTurn
  <2>2. QED
    BY <1>5, <2>1, Zenon DEF TurnsAt
<1>7. CASE TurnsBut(lists[messages[c]], 0)
  <2>1. TurnsBut(lists'[messages'[c]], 0)
    BY <1>7
  <2>2. TurnsBut(lists[messages[c]], 0)'
    BY <2>1 DEF TurnsBut, Answered, Belongs
  <2>3. QED
    BY <1>5, <2>2, Zenon DEF TurnsAt
<1>8. QED
  BY <1>3, <1>6, <1>7 DEF TurnsAt

\* A reset forgets what is stored, and touches nothing that is being served.
LEMMA ResetKeeps ==
  ASSUME IInv, Reset
  PROVE  IInv'
<1>1. /\ stored' = 0 /\ resets' = resets + 1 /\ crossed' = (crossed \/ Serving # {})
      /\ owner' = owner /\ messages' = messages /\ lists' = lists /\ pc' = pc
      /\ conv' = conv /\ fetched' = fetched /\ rounds' = rounds /\ asked' = asked /\ done' = done
      /\ since' = since /\ shared' = shared /\ audit \subseteq audit'
  BY DEF Reset, local
<1>2. TypeOK'
  BY TypeReset DEF IInv
<1>3. PlaceInv'
  BY <1>1 DEF IInv, PlaceInv
<1>4. Objects' = Objects /\ Serving' = Serving
  BY <1>1 DEF Objects, Serving
<1>5. ApartInv'
  BY <1>1, <1>4 DEF IInv, ApartInv
<1>6. UsersInv'
  BY <1>1, <1>4 DEF IInv, UsersInv, OnlyBy
<1>7. AuditInv'
  <2>1. ASSUME NEW l \in 1 .. Len(lists'), NEW i \in 1 .. Len(lists'[l])
        PROVE  Told(lists[l][i])'
    <3>1. lists[l][i] \in Messages /\ Told(lists[l][i])
      BY <1>1, ListTypes DEF IInv, AuditInv
    <3>2. PICK m \in Messages : m = lists[l][i] /\ Told(m)
      BY <3>1
    <3>3. Told(m)'
      BY <1>1, <3>2, ToldKept
    <3>4. QED
      BY <1>1, <3>2, <3>3 DEF Told
  <2>2. \A r \in Requests :
          /\ pc'[r] = "refused" => <<"access_denied", r, 0, 0>> \in audit'
          /\ pc'[r] = "ask" => <<"question", r, 0, 0>> \in audit'
          /\ pc'[r] \in {"reply", "calls"} => <<"model_round", r, rounds'[r], 0>> \in audit'
          /\ pc'[r] = "result" => <<"tool_call", r, rounds'[r], done'[r] + 1>> \in audit'
    BY <1>1 DEF IInv, AuditInv
  <2>3. QED
    BY <2>1, <2>2 DEF AuditInv
<1>8. ResetInv'
  <2>1. \A l \in 1 .. Len(lists') : \A i \in 1 .. Len(lists'[l]) : pc'[lists'[l][i].by] # "idle"
    BY <1>1 DEF IInv, ResetInv
  <2>2. ASSUME ~crossed'
        PROVE  Serving = {} /\ \A r \in Requests : fetched[r] = 0
    <3>1. Serving = {}
      BY <1>1, <2>2
    <3>2. \A r \in Requests : fetched[r] # 0 => r \in Serving
      BY DEF IInv, PlaceInv, Serving, Finished
    <3>3. QED
      BY <3>1, <3>2
  <2>3. QED
    BY <1>1, <1>4, <2>1, <2>2 DEF ResetInv
<1>9. SharedInv'
  BY <1>1, <1>4 DEF IInv, SharedInv
<1>10. TurnsInv'
  BY <1>1, TurnsKept DEF IInv
<1>11. QED
  BY <1>2, <1>3, <1>5, <1>6, <1>7, <1>8, <1>9, <1>10, Zenon DEF IInv

\* Nothing happens.
LEMMA StutterKeeps ==
  ASSUME IInv, UNCHANGED vars
  PROVE  IInv'
<1>1. /\ stored' = stored /\ lock' = lock /\ owner' = owner /\ messages' = messages
      /\ lists' = lists /\ audit' = audit /\ pc' = pc /\ conv' = conv /\ fetched' = fetched
      /\ rounds' = rounds /\ asked' = asked /\ done' = done /\ resets' = resets
      /\ since' = since /\ shared' = shared /\ crossed' = crossed
  BY DEF vars, store, local, history
<1>2. TypeOK' /\ PlaceInv' /\ ApartInv' /\ UsersInv'
  <2>1. TypeOK'
    BY <1>1 DEF IInv, TypeOK, Objects
  <2>2. PlaceInv' /\ ApartInv' /\ UsersInv'
    BY <1>1 DEF IInv, Objects, PlaceInv, ApartInv, UsersInv, OnlyBy
  <2>3. QED
    BY <2>1, <2>2
<1>3. AuditInv' /\ ResetInv' /\ SharedInv'
  BY <1>1 DEF IInv, AuditInv, Told, ResetInv, Recent, Serving, SharedInv
<1>4. TurnsInv'
  BY <1>1, TurnsKept DEF IInv
<1>5. QED
  BY <1>2, <1>3, <1>4, Zenon DEF IInv

\* Every step keeps the invariant.
LEMMA StepInv == IInv /\ [Next]_vars => IInv'
<1> SUFFICES ASSUME IInv, [Next]_vars
             PROVE  IInv'
  OBVIOUS
<1>1. ASSUME NEW r \in Requests, RequestStep(r)
      PROVE  IInv'
  <2>1. /\ TypeOK /\ PlaceInv /\ ApartInv /\ UsersInv /\ AuditInv /\ ResetInv
        /\ SharedInv /\ TurnsInv
    BY DEF IInv
  <2>2. TypeOK' /\ PlaceInv' /\ ApartInv' /\ UsersInv'
    BY <1>1, <2>1, TypeStep, PlaceStep, ApartStep, UsersStep
  <2>3. AuditInv' /\ ResetInv' /\ SharedInv' /\ TurnsInv'
    BY <1>1, <2>1, AuditStep, ResetStep, SharedStep, TurnsStep
  <2>4. QED
    BY <2>2, <2>3, Zenon DEF IInv
<1>2. CASE Reset
  BY <1>2, ResetKeeps
<1>3. CASE AllServed \/ UNCHANGED vars
  BY <1>3, StutterKeeps DEF AllServed
<1>4. QED
  BY <1>1, <1>2, <1>3 DEF Next

(***************************************************************************)
(* The invariant holds of every run, for any requests, users and limits.   *)
(***************************************************************************)
THEOREM Invariance == Spec => []IInv
BY InitInv, StepInv, PTL DEF Spec

-----------------------------------------------------------------------------
(* What it says to the users. *)

(***************************************************************************)
(* The history that is sent for a user holds that user's messages only.    *)
(***************************************************************************)
THEOREM OwnMessages == Spec => []OwnMessagesOnly
<1>1. ASSUME IInv
      PROVE  OwnMessagesOnly
  <2> SUFFICES ASSUME NEW r \in Requests, pc[r] = "complete",
                      NEW i \in 1 .. Len(History(r))
               PROVE  UserOf[History(r)[i].by] = UserOf[r]
    BY DEF OwnMessagesOnly
  <2>1. TypeOK /\ PlaceInv /\ UsersInv
    BY <1>1 DEF IInv
  <2>2. conv[r] \in Objects /\ conv[r] # 0
    BY <2>1, EntryTypes DEF PlaceInv
  <2>3. owner[conv[r]] = UserOf[r] /\ OnlyBy(messages[conv[r]], owner[conv[r]])
    BY <2>1, <2>2 DEF UsersInv
  <2>4. QED
    BY <2>3 DEF OnlyBy, History
<1>2. QED
  BY <1>1, Invariance, PTL

(***************************************************************************)
(* Every message of every history has its line in the audit log, and every *)
(* refusal has one.                                                        *)
(***************************************************************************)
THEOREM AuditHolds == Spec => []AuditComplete
<1>1. ASSUME IInv
      PROVE  AuditComplete
  BY <1>1 DEF IInv, AuditInv, AuditComplete, Told
<1>2. QED
  BY <1>1, Invariance, PTL

(***************************************************************************)
(* A reset that came while nothing was served is final: no message of an   *)
(* earlier conversation is sent again.                                     *)
(***************************************************************************)
THEOREM ResetIsFinal == Spec => []ResetForgets
<1>1. ASSUME IInv
      PROVE  ResetForgets
  <2> SUFFICES ASSUME ~crossed, NEW r \in Requests, pc[r] = "complete",
                      NEW i \in 1 .. Len(History(r))
               PROVE  since[History(r)[i].by] = since[r]
    BY DEF ResetForgets
  <2>1. TypeOK /\ PlaceInv /\ ResetInv
    BY <1>1 DEF IInv
  <2>2. r \in Serving /\ conv[r] # 0
    BY <2>1 DEF Serving, Finished, PlaceInv
  <2>3. since[r] = resets /\ conv[r] = stored /\ Recent(messages[stored])
    BY <2>1, <2>2 DEF ResetInv
  <2>4. QED
    BY <2>3 DEF Recent, History
<1>2. QED
  BY <1>1, Invariance, PTL

(***************************************************************************)
(* What a request sends to the provider has every tool call next to all of *)
(* its results, in a conversation that no two requests used at a time and  *)
(* that no failure tore apart.                                             *)
(***************************************************************************)
THEOREM TurnsHold == Spec => []TurnsStayWhole
<1>1. ASSUME IInv
      PROVE  TurnsStayWhole
  <2> SUFFICES ASSUME NEW r \in Requests, pc[r] = "complete",
                      conv[r] \notin shared, ~Torn(conv[r])
               PROVE  WholeTurns(History(r))
    BY DEF TurnsStayWhole
  <2> DEFINE h == lists[messages[conv[r]]]
  <2>1. TypeOK /\ PlaceInv /\ SharedInv /\ TurnsInv
    BY <1>1 DEF IInv
  <2>2. r \in Serving /\ conv[r] \in Objects /\ ~InTurn(r)
    BY <2>1, EntryTypes DEF Serving, Finished, PlaceInv, InTurn
  <2>3. TurnsAt(conv[r])
    BY <2>1, <2>2 DEF TurnsInv, Alone
  <2>4. TurnsBut(h, 0)
    BY <2>1, <2>2, <2>3, OwnWhole
  <2>5. Len(h) \in Nat /\ \A i \in 1 .. Len(h) : h[i].n \in Nat
    BY <2>1, <2>2, ListTypes, MessageType
  <2> HIDE DEF h
  <2>6. ASSUME NEW i \in 1 .. Len(h)
        PROVE  /\ h[i].kind = "calls" => Answered(h, i)
               /\ h[i].kind = "result" => Belongs(h, i)
    BY <2>4 DEF TurnsBut
  <2>7. ASSUME NEW i \in 1 .. Len(h), h[i].kind = "result"
        PROVE  i > h[i].n
    <3>1. h[i].n \in 1 .. i - 1
      BY <2>6, <2>7 DEF Belongs
    <3>2. QED
      BY <3>1
  <2>8. WholeTurns(h)
    BY <2>6, <2>7, Zenon DEF WholeTurns, Answered, Belongs
  <2>9. QED
    BY <2>8 DEF h, History
<1>2. QED
  BY <1>1, Invariance, PTL
=============================================================================
