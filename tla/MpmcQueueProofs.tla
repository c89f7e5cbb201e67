--------------------------- MODULE MpmcQueueProofs ---------------------------
(***************************************************************************)
(* Proofs about MpmcQueue, for any sets of threads and elements and any    *)
(* number of cells.                                                        *)
(***************************************************************************)
EXTENDS MpmcQueueInv, TLAPS

-----------------------------------------------------------------------------
(* The cell of a ticket: pos & mask_. *)

\* Multiplication by the capacity distributes over a difference.
LEMMA Distribute ==
  ASSUME NEW x \in Int, NEW y \in Int
  PROVE  Capacity * (x - y) = Capacity * x - Capacity * y
BY QueueAssumption, SMT

\* A multiple of Capacity strictly between -Capacity and Capacity is zero.
LEMMA SmallMultiple ==
  ASSUME NEW m \in Int, Capacity * m < Capacity, -Capacity < Capacity * m
  PROVE  m = 0
<1>1. CASE m >= 1
  <2>1. Capacity * m = Capacity + Capacity * (m - 1)
    BY QueueAssumption, SMT
  <2>2. Capacity * (m - 1) >= 0
    BY QueueAssumption, <1>1, SMT
  <2>3. QED
    BY <2>1, <2>2, QueueAssumption, SMT
<1>2. CASE m <= -1
  <2>1. Capacity * m = Capacity * (m + 1) - Capacity
    BY QueueAssumption, SMT
  <2>2. Capacity * (m + 1) <= 0
    BY QueueAssumption, <1>2, SMT
  <2>3. QED
    BY <2>1, <2>2, QueueAssumption, SMT
<1>3. QED
  BY <1>1, <1>2

\* A ticket is its lap times the capacity plus its cell.
LEMMA Division ==
  ASSUME NEW n \in Nat
  PROVE  /\ n = Capacity * (n \div Capacity) + Cell(n)
         /\ n \div Capacity \in Int
         /\ Cell(n) \in Cells
         /\ Cell(n) \in Nat /\ Cell(n) < Capacity
BY QueueAssumption, SMT DEF Cell, Cells

\* The mask picks a cell of the ring.
LEMMA CellInRange ==
  ASSUME NEW n \in Nat
  PROVE  Cell(n) \in Cells
BY Division

\* Two tickets less than a lap apart use different cells.
LEMMA CellsDiffer ==
  ASSUME NEW m \in Nat, NEW n \in Nat, m < n, n < m + Capacity
  PROVE  Cell(m) # Cell(n)
<1> SUFFICES ASSUME Cell(m) = Cell(n) PROVE FALSE
  OBVIOUS
<1> DEFINE k == (n \div Capacity) - (m \div Capacity)
<1>1. k \in Int
  BY Division
<1>2. n - m = Capacity * k
  BY Division, Distribute, QueueAssumption, SMT DEF Cell
<1>3. k = 0
  BY SmallMultiple, <1>1, <1>2, QueueAssumption, SMT
<1>4. QED
  BY <1>2, <1>3, QueueAssumption, SMT

\* Tickets less than a lap apart have different cells.
LEMMA WithinLap ==
  ASSUME NEW m \in Nat, NEW n \in Nat, m # n, m < n + Capacity, n < m + Capacity
  PROVE  Cell(m) # Cell(n)
<1>1. CASE m < n
  BY <1>1, CellsDiffer
<1>2. CASE n < m
  BY <1>2, CellsDiffer
<1>3. QED
  BY <1>1, <1>2

\* Tickets one lap apart use the same cell.
LEMMA CellNextLap ==
  ASSUME NEW n \in Nat
  PROVE  Cell(n + Capacity) = Cell(n)
<1> DEFINE k == ((n + Capacity) \div Capacity) - (n \div Capacity)
<1>1. k \in Int /\ n + Capacity \in Nat
  BY Division, QueueAssumption
<1>2. Capacity = Capacity * k + (Cell(n + Capacity) - Cell(n))
  BY <1>1, Division, Distribute, QueueAssumption, SMT DEF Cell
<1>3. Capacity * (1 - k) = Cell(n + Capacity) - Cell(n)
  BY <1>1, <1>2, Division, Distribute, QueueAssumption, SMT DEF Cell
<1>4. 1 - k = 0
  BY <1>1, <1>3, SmallMultiple, Division, QueueAssumption, SMT DEF Cell
<1>5. Capacity * (1 - k) = 0
  BY <1>4, QueueAssumption, SMT
<1>6. QED
  BY <1>1, <1>3, <1>5, Division, QueueAssumption, SMT DEF Cell

-----------------------------------------------------------------------------

(* Types *)

\* Every step keeps the types.
LEMMA TypeStep ==
  ASSUME TypeOK, [Next]_vars
  PROVE  TypeOK'
<1> USE QueueAssumption DEF TypeOK, Threads, PushPc, PopPc, Results
<1>1. ASSUME NEW p \in Producers, NEW v \in Values, PushBegin(p, v)
      PROVE  TypeOK'
  BY SMTT(30), <1>1 DEF PushBegin, Goto
<1>2. ASSUME NEW p \in Producers, PushLoadSeq(p)
      PROVE  TypeOK'
  BY ZenonT(60), <1>2 DEF PushLoadSeq, Goto
<1>3. ASSUME NEW p \in Producers, PushReload(p)
      PROVE  TypeOK'
  BY SMTT(30), <1>3 DEF PushReload, Goto
<1>4. ASSUME NEW p \in Producers, PushClaim(p)
      PROVE  TypeOK'
  BY SMTT(30), <1>4 DEF PushClaim, Goto
<1>5. ASSUME NEW p \in Producers, PushClaimFails(p)
      PROVE  TypeOK'
  BY SMTT(30), <1>5 DEF PushClaimFails, Goto
<1>6. ASSUME NEW p \in Producers, PushWrite(p)
      PROVE  TypeOK'
  BY <1>6 DEF PushWrite, Goto
<1>7. ASSUME NEW p \in Producers, PushPublish(p)
      PROVE  TypeOK'
  <2>1. seq' \in [Cells -> Nat]
    <3>1. pos[p] + 1 \in Nat
      OBVIOUS
    <3>2. QED
      BY <1>7, <3>1 DEF PushPublish
  <2>2. QED
    BY <1>7, <2>1 DEF PushPublish, Goto
<1>8. ASSUME NEW c \in Consumers, PopBegin(c)
      PROVE  TypeOK'
  BY SMTT(30), <1>8 DEF PopBegin, Goto
<1>9. ASSUME NEW c \in Consumers, PopLoadSeq(c)
      PROVE  TypeOK'
  BY ZenonT(60), <1>9 DEF PopLoadSeq, Goto
<1>10. ASSUME NEW c \in Consumers, PopReload(c)
      PROVE  TypeOK'
  BY SMTT(30), <1>10 DEF PopReload, Goto
<1>11. ASSUME NEW c \in Consumers, PopClaim(c)
      PROVE  TypeOK'
  BY SMTT(30), <1>11 DEF PopClaim, Goto
<1>12. ASSUME NEW c \in Consumers, PopClaimFails(c)
      PROVE  TypeOK'
  BY <1>12 DEF PopClaimFails, Goto
<1>13. ASSUME NEW c \in Consumers, PopRead(c)
      PROVE  TypeOK'
  <2>1. Cell(pos[c]) \in Cells
    BY CellInRange
  <2>2. data[Cell(pos[c])] \in Values \cup {NoValue}
    BY <2>1
  <2>3. QED
    BY <1>13, <2>1, <2>2 DEF PopRead, Goto
<1>14. ASSUME NEW c \in Consumers, PopRelease(c)
      PROVE  TypeOK'
  <2>1. seq' \in [Cells -> Nat]
    <3>1. pos[c] + Capacity \in Nat
      OBVIOUS
    <3>2. QED
      BY <1>14, <3>1 DEF PopRelease
  <2>2. QED
    BY <1>14, <2>1 DEF PopRelease, Goto
<1>15. CASE UNCHANGED vars
  BY <1>15 DEF vars
<1>16. QED
  BY <1>1, <1>2, <1>3, <1>4, <1>5, <1>6, <1>7, <1>8, <1>9, <1>10, <1>11, <1>12, <1>13, <1>14, <1>15 DEF Next, PushStep, PopStep

(* Steps that only move a thread inside the search loop, before its claim. *)

\* Such a step keeps the invariant.
LEMMA SearchStep ==
  ASSUME IInv, TypeOK', LocalCopyInv', CasInv',
         UNCHANGED <<enqueue_pos, dequeue_pos, seq, data, out, sent>>,
         \A p \in Producers :
           /\ pc'[p] # pc[p] => ~PushHolds(p) /\ ~PushHolds(p)'
           /\ PushHolds(p) => pos'[p] = pos[p] /\ arg'[p] = arg[p],
         \A c \in Consumers :
           /\ pc'[c] # pc[c] => ~PopHolds(c) /\ ~PopHolds(c)'
           /\ PopHolds(c) => pos'[c] = pos[c]
  PROVE  IInv'
<1>1. ASSUME NEW p \in Producers
      PROVE  /\ PushHolds(p)' <=> PushHolds(p)
             /\ PushHolds(p) => pc'[p] = pc[p] /\ pos'[p] = pos[p] /\ arg'[p] = arg[p]
  BY DEF PushHolds
<1>2. ASSUME NEW c \in Consumers
      PROVE  /\ PopHolds(c)' <=> PopHolds(c)
             /\ PopHolds(c) => pc'[c] = pc[c] /\ pos'[c] = pos[c]
  BY DEF PopHolds
<1>3. PositionsInv'
  BY DEF IInv, PositionsInv
<1>4. TicketsInv'
  BY <1>1, <1>2 DEF IInv, TicketsInv
<1>5. PushersInv'
  BY <1>1 DEF IInv, PushersInv, Cell
<1>6. PoppersInv'
  BY <1>2 DEF IInv, PoppersInv, Cell
<1>7. CellsInv'
  <2>1. \A n : (PushInFlight(n)' <=> PushInFlight(n)) /\ (PopInFlight(n)' <=> PopInFlight(n))
    BY <1>1, <1>2 DEF PushInFlight, PopInFlight
  <2>2. QED
    BY <2>1 DEF IInv, CellsInv, CellOfPushed, CellOfPopped, Cell
<1>8. PassedInv'
  BY DEF IInv, PassedInv, Cell
<1>9. QED
  BY <1>3, <1>4, <1>5, <1>6, <1>7, <1>8 DEF IInv

\* A push before its claim.
LEMMA PushSearch ==
  ASSUME IInv, NEW p \in Producers,
         \/ \E v \in Values : PushBegin(p, v)
         \/ PushLoadSeq(p) \/ PushReload(p) \/ PushClaimFails(p)
  PROVE  IInv'
<1> USE QueueAssumption DEF Threads, PushPc, PopPc, Results
<1>1. TypeOK /\ LocalCopyInv /\ CasInv
  BY DEF IInv
<1>2. TypeOK'
  BY <1>1, TypeStep DEF Next, PushStep
<1>3. LocalCopyInv'
  <2>1. pos' = pos \/ pos' = [pos EXCEPT ![p] = enqueue_pos]
    BY DEF PushBegin, PushLoadSeq, PushReload, PushClaimFails
  <2>2. enqueue_pos' = enqueue_pos /\ dequeue_pos' = dequeue_pos
    BY DEF PushBegin, PushLoadSeq, PushReload, PushClaimFails
  <2>3. ASSUME NEW q \in Producers PROVE pos'[q] <= enqueue_pos
    <3>1. CASE q = p /\ pos' # pos
      BY SMTT(30), <1>1, <2>1, <3>1 DEF TypeOK
    <3>2. CASE q # p \/ pos' = pos
      BY SMTT(30), <1>1, <2>1, <3>2 DEF TypeOK, LocalCopyInv
    <3>3. QED
      BY <3>1, <3>2
  <2>4. ASSUME NEW c \in Consumers PROVE pos'[c] <= dequeue_pos
    BY ZenonT(60), <1>1, <2>1 DEF TypeOK, LocalCopyInv
  <2>5. QED
    BY <2>2, <2>3, <2>4 DEF LocalCopyInv
<1>4. CasInv'
  BY ZenonT(60), <1>1 DEF TypeOK, CasInv, PushBegin, PushLoadSeq, PushReload, PushClaimFails, Goto, Cell
<1>5. UNCHANGED <<enqueue_pos, dequeue_pos, seq, data, out, sent>>
  BY DEF PushBegin, PushLoadSeq, PushReload, PushClaimFails
<1>6. \A q \in Producers :
        /\ pc'[q] # pc[q] => ~PushHolds(q) /\ ~PushHolds(q)'
        /\ PushHolds(q) => pos'[q] = pos[q] /\ arg'[q] = arg[q]
  BY <1>1 DEF TypeOK, PushHolds, PushBegin, PushLoadSeq, PushReload, PushClaimFails, Goto
<1>7. \A c \in Consumers :
        /\ pc'[c] # pc[c] => ~PopHolds(c) /\ ~PopHolds(c)'
        /\ PopHolds(c) => pos'[c] = pos[c]
  BY <1>1 DEF TypeOK, PopHolds, PushBegin, PushLoadSeq, PushReload, PushClaimFails, Goto
<1>8. QED
  BY <1>2, <1>3, <1>4, <1>5, <1>6, <1>7, SearchStep

\* A pop before its claim.
LEMMA PopSearch ==
  ASSUME IInv, NEW c \in Consumers,
         PopBegin(c) \/ PopLoadSeq(c) \/ PopReload(c) \/ PopClaimFails(c)
  PROVE  IInv'
<1> USE QueueAssumption DEF Threads, PushPc, PopPc, Results
<1>1. TypeOK /\ LocalCopyInv /\ CasInv
  BY DEF IInv
<1>2. TypeOK'
  BY <1>1, TypeStep DEF Next, PopStep
<1>3. LocalCopyInv'
  <2>1. pos' = pos \/ pos' = [pos EXCEPT ![c] = dequeue_pos]
    BY DEF PopBegin, PopLoadSeq, PopReload, PopClaimFails
  <2>2. enqueue_pos' = enqueue_pos /\ dequeue_pos' = dequeue_pos
    BY DEF PopBegin, PopLoadSeq, PopReload, PopClaimFails
  <2>3. ASSUME NEW d \in Consumers PROVE pos'[d] <= dequeue_pos
    <3>1. CASE d = c /\ pos' # pos
      BY SMTT(30), <1>1, <2>1, <3>1 DEF TypeOK
    <3>2. CASE d # c \/ pos' = pos
      BY SMTT(30), <1>1, <2>1, <3>2 DEF TypeOK, LocalCopyInv
    <3>3. QED
      BY <3>1, <3>2
  <2>4. ASSUME NEW p \in Producers PROVE pos'[p] <= enqueue_pos
    BY ZenonT(60), <1>1, <2>1 DEF TypeOK, LocalCopyInv
  <2>5. QED
    BY <2>2, <2>3, <2>4 DEF LocalCopyInv
<1>4. CasInv'
  BY ZenonT(60), <1>1 DEF TypeOK, CasInv, PopBegin, PopLoadSeq, PopReload, PopClaimFails, Goto, Cell
<1>5. UNCHANGED <<enqueue_pos, dequeue_pos, seq, data, out, sent>>
  BY DEF PopBegin, PopLoadSeq, PopReload, PopClaimFails
<1>6. \A p \in Producers :
        /\ pc'[p] # pc[p] => ~PushHolds(p) /\ ~PushHolds(p)'
        /\ PushHolds(p) => pos'[p] = pos[p] /\ arg'[p] = arg[p]
  BY <1>1 DEF TypeOK, PushHolds, PopBegin, PopLoadSeq, PopReload, PopClaimFails, Goto
<1>7. \A d \in Consumers :
        /\ pc'[d] # pc[d] => ~PopHolds(d) /\ ~PopHolds(d)'
        /\ PopHolds(d) => pos'[d] = pos[d]
  BY <1>1 DEF TypeOK, PopHolds, PopBegin, PopLoadSeq, PopReload, PopClaimFails, Goto
<1>8. QED
  BY <1>2, <1>3, <1>4, <1>5, <1>6, <1>7, SearchStep

-----------------------------------------------------------------------------
(* What a thread knows when its CAS can succeed. *)

\* The cell shows the push ticket: the ticket is less than a lap ahead of the
\* pops, and the pop that used the cell last has released it.
LEMMA CanPush ==
  ASSUME IInv, seq[Cell(enqueue_pos)] = enqueue_pos
  PROVE  enqueue_pos < dequeue_pos + Capacity /\ ~PopInFlight(enqueue_pos - Capacity)
<1> USE QueueAssumption
<1>1. enqueue_pos \in Nat /\ dequeue_pos \in Nat /\ PositionsInv
  BY DEF IInv, TypeOK
<1>2. enqueue_pos # dequeue_pos + Capacity
  <2> SUFFICES ASSUME enqueue_pos = dequeue_pos + Capacity PROVE FALSE
    OBVIOUS
  <2>1. dequeue_pos \in dequeue_pos .. enqueue_pos - 1
    BY <1>1
  <2>2. CellOfPushed(dequeue_pos)
    BY <2>1 DEF IInv, CellsInv
  <2>3. Cell(enqueue_pos) = Cell(dequeue_pos)
    BY <1>1, CellNextLap
  <2>4. QED
    BY <1>1, <2>2, <2>3 DEF CellOfPushed
<1>3. enqueue_pos < dequeue_pos + Capacity
  BY <1>1, <1>2 DEF PositionsInv
<1>4. enqueue_pos \in enqueue_pos .. dequeue_pos + Capacity - 1
  BY <1>1, <1>3
<1>5. CellOfPopped(enqueue_pos)
  BY <1>4 DEF IInv, CellsInv
<1>6. QED
  BY <1>1, <1>3, <1>5 DEF CellOfPopped

\* The cell shows the published ticket: there is an element, complete.
LEMMA CanPop ==
  ASSUME IInv, seq[Cell(dequeue_pos)] = dequeue_pos + 1
  PROVE  /\ dequeue_pos < enqueue_pos
         /\ ~PushInFlight(dequeue_pos)
         /\ data[Cell(dequeue_pos)] = sent[dequeue_pos + 1]
<1> USE QueueAssumption
<1>1. enqueue_pos \in Nat /\ dequeue_pos \in Nat /\ PositionsInv
  BY DEF IInv, TypeOK
<1>2. dequeue_pos # enqueue_pos
  <2> SUFFICES ASSUME dequeue_pos = enqueue_pos PROVE FALSE
    OBVIOUS
  <2>1. enqueue_pos \in enqueue_pos .. dequeue_pos + Capacity - 1
    BY <1>1
  <2>2. CellOfPopped(enqueue_pos)
    BY <2>1 DEF IInv, CellsInv
  <2>3. QED
    BY <1>1, <2>2 DEF CellOfPopped
<1>3. dequeue_pos \in dequeue_pos .. enqueue_pos - 1
  BY <1>1, <1>2 DEF PositionsInv
<1>4. CellOfPushed(dequeue_pos)
  BY <1>3 DEF IInv, CellsInv
<1>5. QED
  BY <1>1, <1>3, <1>4 DEF CellOfPushed

-----------------------------------------------------------------------------
(* The steps of a push that change the queue. *)

\* A push claims the next ticket (mpmc_queue.hpp, the compare-and-swap of try_push).
LEMMA PushClaimStep ==
  ASSUME IInv, NEW p \in Producers, PushClaim(p)
  PROVE  IInv'
<1> USE QueueAssumption
<1> DEFINE E == enqueue_pos  D == dequeue_pos
<1>1. /\ TypeOK /\ E \in Nat /\ D \in Nat /\ pos \in [Threads -> Nat]
      /\ sent \in Seq(Values) /\ arg[p] \in Values /\ Len(sent) = E /\ D <= E
  BY DEF IInv, TypeOK, PushClaim, PositionsInv
<1>2. /\ pos[p] = E /\ enqueue_pos' = E + 1 /\ sent' = Append(sent, arg[p])
      /\ UNCHANGED <<dequeue_pos, seq, data, pos, arg, out>>
      /\ pc[p] = "push_cas" /\ pc' = [pc EXCEPT ![p] = "push_write"]
  BY DEF PushClaim, Goto
<1>3. seq[Cell(E)] = E
  BY <1>2 DEF IInv, CasInv
<1>4. E < D + Capacity /\ ~PopInFlight(E - Capacity)
  BY <1>3, CanPush
<1>5. /\ \A q \in Producers \ {p} : pc'[q] = pc[q]
      /\ \A c \in Consumers : pc'[c] = pc[c]
      /\ pc'[p] = "push_write"
  BY <1>1, <1>2 DEF TypeOK, Threads
<1>6. sent'[E + 1] = arg[p] /\ \A n \in Nat : n < E => sent'[n + 1] = sent[n + 1]
  BY <1>1, <1>2
<1>7. TypeOK'
  BY <1>1, TypeStep DEF Next, PushStep
<1>8. PositionsInv'
  BY <1>1, <1>2, <1>4 DEF PositionsInv
<1>9. \A q \in Producers : pos[q] \in Nat /\ pos[q] <= E
  BY <1>1 DEF IInv, LocalCopyInv, Threads
<1>10. \A c \in Consumers : pos[c] \in Nat /\ pos[c] <= D
  BY <1>1 DEF IInv, LocalCopyInv, Threads
<1>11. LocalCopyInv'
  BY <1>1, <1>2, <1>9, <1>10 DEF LocalCopyInv
<1>12. TicketsInv'
  BY <1>1, <1>2, <1>5, <1>9 DEF IInv, TicketsInv, PushersInv, PushHolds, PopHolds
<1>13. PushersInv'
  BY <1>1, <1>2, <1>5, <1>6, <1>9 DEF IInv, PushersInv, PushHolds, Cell
<1>14. PoppersInv'
  <2> SUFFICES ASSUME NEW c \in Consumers, PopHolds(c)
               PROVE  /\ pos[c] < D /\ E + 1 <= pos[c] + Capacity
                      /\ pc[c] = "pop_read" => data[Cell(pos[c])] = sent'[pos[c] + 1]
                      /\ pc[c] = "pop_release" => out[c] = sent'[pos[c] + 1]
    BY <1>2, <1>5 DEF PoppersInv, PopHolds, Cell
  <2>1. /\ pos[c] < D /\ E <= pos[c] + Capacity
        /\ pc[c] = "pop_read" => data[Cell(pos[c])] = sent[pos[c] + 1]
        /\ pc[c] = "pop_release" => out[c] = sent[pos[c] + 1]
    BY DEF IInv, PoppersInv
  <2>2. pos[c] # E - Capacity
    BY <1>4 DEF PopInFlight
  <2>3. sent'[pos[c] + 1] = sent[pos[c] + 1]
    BY <1>1, <1>6, <1>10, <2>1
  <2>4. QED
    BY SMTT(30), <1>1, <1>10, <2>1, <2>2, <2>3
<1>15. CellsInv'
  <2>1. \A n : n # E => (PushInFlight(n)' <=> PushInFlight(n))
    BY <1>2, <1>5 DEF PushInFlight, PushHolds
  <2>2. \A n : n = E => PushInFlight(n)'
    BY <1>2, <1>5 DEF PushInFlight, PushHolds
  <2>3. \A n : PopInFlight(n)' <=> PopInFlight(n)
    BY <1>2, <1>5 DEF PopInFlight, PopHolds
  <2>4. ASSUME NEW n \in Nat, D <= n, n < E PROVE CellOfPushed(n)'
    <3>1. CellOfPushed(n)
      BY <1>1, <2>4 DEF IInv, CellsInv
    <3>2. QED
      BY <1>1, <1>2, <1>6, <2>1, <2>4, <3>1 DEF CellOfPushed, Cell
  <2>5. ASSUME NEW n \in Nat, n = E PROVE CellOfPushed(n)'
    BY <1>2, <1>3, <2>2, <2>5 DEF CellOfPushed, Cell
  <2>6. ASSUME NEW n \in Nat, E <= n, n < D + Capacity PROVE CellOfPopped(n)'
    <3>1. CellOfPopped(n)
      BY <1>1, <2>6 DEF IInv, CellsInv
    <3>2. QED
      BY <1>1, <1>2, <2>3, <3>1 DEF CellOfPopped, Cell
  <2>7. QED
    BY <1>1, <1>2, <2>4, <2>5, <2>6 DEF CellsInv
<1>16. CasInv'
  BY <1>1, <1>2, <1>5, <1>9 DEF IInv, CasInv, Cell
<1>17. PassedInv'
  BY <1>2 DEF IInv, PassedInv, Cell
<1>18. QED
  BY <1>7, <1>8, <1>11, <1>12, <1>13, <1>14, <1>15, <1>16, <1>17 DEF IInv

\* Facts every step lemma below starts from.
LEMMA Ranges ==
  ASSUME IInv
  PROVE  /\ enqueue_pos \in Nat /\ dequeue_pos \in Nat
         /\ Len(sent) = enqueue_pos /\ dequeue_pos <= enqueue_pos
         /\ enqueue_pos <= dequeue_pos + Capacity
         /\ \A p \in Producers :
              /\ p \in Threads /\ p \notin Consumers
              /\ pos[p] \in Nat /\ Cell(pos[p]) \in Cells /\ pos[p] <= enqueue_pos
              /\ PushHolds(p) => dequeue_pos <= pos[p] /\ pos[p] < enqueue_pos
         /\ \A c \in Consumers :
              /\ c \in Threads /\ c \notin Producers
              /\ pos[c] \in Nat /\ Cell(pos[c]) \in Cells /\ pos[c] <= dequeue_pos
              /\ PopHolds(c) => pos[c] < dequeue_pos /\ enqueue_pos <= pos[c] + Capacity
<1>1. /\ TypeOK /\ PositionsInv /\ LocalCopyInv /\ PushersInv /\ PoppersInv
  BY DEF IInv
<1>2. enqueue_pos \in Nat /\ dequeue_pos \in Nat /\ pos \in [Threads -> Nat]
  BY <1>1 DEF TypeOK
<1>3. \A t \in Threads : pos[t] \in Nat /\ Cell(pos[t]) \in Cells
  BY <1>2, CellInRange
<1>4. /\ \A p \in Producers : p \in Threads /\ p \notin Consumers
      /\ \A c \in Consumers : c \in Threads /\ c \notin Producers
  BY QueueAssumption DEF Threads
<1>5. QED
  BY <1>1, <1>2, <1>3, <1>4 DEF PositionsInv, LocalCopyInv, PushersInv, PoppersInv

\* It writes the cell it claimed.
LEMMA PushWriteStep ==
  ASSUME IInv, NEW p \in Producers, PushWrite(p)
  PROVE  IInv'
<1> USE QueueAssumption
<1> DEFINE E == enqueue_pos  D == dequeue_pos  t == pos[p]
<1>1. /\ data' = [data EXCEPT ![Cell(t)] = arg[p]]
      /\ UNCHANGED <<enqueue_pos, dequeue_pos, seq, pos, arg, out, sent>>
      /\ pc[p] = "push_write" /\ pc' = [pc EXCEPT ![p] = "push_publish"]
      /\ PushHolds(p)
  BY DEF PushWrite, Goto, PushHolds
<1>2. TypeOK /\ TypeOK'
  BY TypeStep DEF IInv, Next, PushStep
<1>3. /\ \A q \in Producers \ {p} : pc'[q] = pc[q]
      /\ \A c \in Consumers : pc'[c] = pc[c]
      /\ pc'[p] = "push_publish"
  BY <1>1, <1>2, Ranges DEF TypeOK
<1>4. data'[Cell(t)] = arg[p] /\ arg[p] = sent[t + 1]
  BY <1>1, <1>2, Ranges DEF TypeOK, IInv, PushersInv
<1>5. ASSUME NEW n \in Nat, n # t, n < t + Capacity, t < n + Capacity
      PROVE  data'[Cell(n)] = data[Cell(n)]
  <2>1. Cell(n) # Cell(t)
    BY <1>5, WithinLap, Ranges
  <2>2. Cell(n) \in Cells
    BY CellInRange
  <2>3. QED
    BY <1>1, <1>2, <2>1, <2>2 DEF TypeOK
<1>6. \A q \in Producers : PushHolds(q)' <=> PushHolds(q)
  BY <1>1, <1>3 DEF PushHolds
<1>7. \A c \in Consumers : PopHolds(c)' <=> PopHolds(c)
  BY <1>3 DEF PopHolds
<1>8. PositionsInv' /\ LocalCopyInv' /\ TicketsInv'
  BY <1>1, <1>6, <1>7 DEF IInv, PositionsInv, LocalCopyInv, TicketsInv
<1>9. PushersInv'
  <2>1. ASSUME NEW q \in Producers, PushHolds(q), q # p, pc[q] = "push_publish"
        PROVE  data'[Cell(pos[q])] = sent[pos[q] + 1]
    <3>1. pos[q] # t
      BY <1>1, <2>1 DEF IInv, TicketsInv
    <3>2. /\ pos[q] \in Nat /\ t \in Nat /\ Capacity \in Nat /\ D \in Nat /\ E \in Nat
          /\ D <= pos[q] /\ pos[q] < E /\ D <= t /\ t < E /\ E <= D + Capacity
      BY <1>1, <2>1, Ranges
    <3>3. pos[q] < t + Capacity /\ t < pos[q] + Capacity
      BY <3>2
    <3>4. data'[Cell(pos[q])] = data[Cell(pos[q])]
      BY <1>5, <3>1, <3>2, <3>3
    <3>5. QED
      BY <2>1, <3>4 DEF IInv, PushersInv
  <2>2. QED
    BY <1>1, <1>3, <1>4, <1>6, <2>1 DEF IInv, PushersInv, Cell
<1>10. PoppersInv'
  <2>1. ASSUME NEW c \in Consumers, PopHolds(c)
        PROVE  data'[Cell(pos[c])] = data[Cell(pos[c])]
    <3>1. /\ pos[c] \in Nat /\ t \in Nat /\ Capacity \in Nat /\ D \in Nat /\ E \in Nat
          /\ pos[c] < D /\ E <= pos[c] + Capacity
          /\ D <= t /\ t < E
      BY <1>1, <2>1, Ranges
    <3>2. pos[c] # t /\ pos[c] < t + Capacity /\ t < pos[c] + Capacity
      BY <3>1
    <3>3. QED
      BY <1>5, <3>1, <3>2
  <2>2. QED
    BY <1>1, <1>3, <1>7, <2>1 DEF IInv, PoppersInv, Cell
<1>11. CellsInv'
  <2>1. \A n : (PushInFlight(n)' <=> PushInFlight(n)) /\ (PopInFlight(n)' <=> PopInFlight(n))
    BY <1>1, <1>6, <1>7 DEF PushInFlight, PopInFlight
  <2>2. ASSUME NEW n \in Nat, D <= n, n < E PROVE CellOfPushed(n)'
    <3>1. CellOfPushed(n)
      BY <2>2, Ranges DEF IInv, CellsInv
    <3>2. CASE n = t
      BY <1>1, <2>1, <3>1, <3>2 DEF CellOfPushed, PushInFlight, Cell
    <3>3. CASE n # t
      <4>1. data'[Cell(n)] = data[Cell(n)]
        BY <1>1, <1>5, <2>2, <3>3, Ranges
      <4>2. QED
        BY <1>1, <2>1, <3>1, <4>1 DEF CellOfPushed, Cell
    <3>4. QED
      BY <3>2, <3>3
  <2>3. ASSUME NEW n \in Nat, E <= n, n < D + Capacity PROVE CellOfPopped(n)'
    <3>1. CellOfPopped(n)
      BY <2>3, Ranges DEF IInv, CellsInv
    <3>2. QED
      BY <1>1, <2>1, <3>1 DEF CellOfPopped, Cell
  <2>4. QED
    BY <1>1, <2>2, <2>3, Ranges DEF CellsInv
<1>12. CasInv'
  BY <1>1, <1>3 DEF IInv, CasInv, Cell
<1>13. PassedInv'
  BY <1>1 DEF IInv, PassedInv, Cell
<1>14. QED
  BY <1>2, <1>8, <1>9, <1>10, <1>11, <1>12, <1>13 DEF IInv

\* It hands the cell over to the pop of the same ticket.
LEMMA PushPublishStep ==
  ASSUME IInv, NEW p \in Producers, PushPublish(p)
  PROVE  IInv'
<1> USE QueueAssumption
<1> DEFINE E == enqueue_pos  D == dequeue_pos  t == pos[p]
<1>1. /\ seq' = [seq EXCEPT ![Cell(t)] = t + 1]
      /\ UNCHANGED <<enqueue_pos, dequeue_pos, data, pos, arg, out, sent>>
      /\ pc[p] = "push_publish" /\ pc' = [pc EXCEPT ![p] = "idle"]
      /\ PushHolds(p)
  BY DEF PushPublish, Goto, PushHolds
<1>2. TypeOK /\ TypeOK'
  BY TypeStep DEF IInv, Next, PushStep
<1>3. /\ \A q \in Producers \ {p} : pc'[q] = pc[q]
      /\ \A c \in Consumers : pc'[c] = pc[c]
      /\ pc'[p] = "idle"
  BY <1>1, <1>2, Ranges DEF TypeOK
<1>4. seq'[Cell(t)] = t + 1 /\ data[Cell(t)] = sent[t + 1]
  BY <1>1, <1>2, Ranges DEF TypeOK, IInv, PushersInv
<1>5. ASSUME NEW n \in Nat, n # t, n < t + Capacity, t < n + Capacity
      PROVE  seq'[Cell(n)] = seq[Cell(n)]
  <2>1. Cell(n) # Cell(t)
    BY <1>5, WithinLap, Ranges
  <2>2. Cell(n) \in Cells
    BY CellInRange
  <2>3. QED
    BY <1>1, <1>2, <2>1, <2>2 DEF TypeOK
<1>6. /\ \A q \in Producers \ {p} : PushHolds(q)' <=> PushHolds(q)
      /\ ~PushHolds(p)'
      /\ \A q \in Producers \ {p} : PushHolds(q) => pos[q] # t
  BY <1>1, <1>3 DEF PushHolds, IInv, TicketsInv
<1>7. \A c \in Consumers : PopHolds(c)' <=> PopHolds(c)
  BY <1>3 DEF PopHolds
<1>8. PositionsInv' /\ LocalCopyInv'
  BY <1>1 DEF IInv, PositionsInv, LocalCopyInv
<1>9. TicketsInv'
  BY <1>1, <1>6, <1>7 DEF IInv, TicketsInv
<1>10. PushersInv'
  BY <1>1, <1>3, <1>6 DEF IInv, PushersInv, Cell
<1>11. PoppersInv'
  BY <1>1, <1>3, <1>7 DEF IInv, PoppersInv, Cell
<1>12. CellsInv'
  <2>1. \A n : n # t => (PushInFlight(n)' <=> PushInFlight(n))
    BY <1>1, <1>6 DEF PushInFlight
  <2>2. \A n : n = t => ~PushInFlight(n)'
    BY <1>1, <1>6 DEF PushInFlight
  <2>3. \A n : PopInFlight(n)' <=> PopInFlight(n)
    BY <1>1, <1>7 DEF PopInFlight
  <2>4. ASSUME NEW n \in Nat, D <= n, n < E PROVE CellOfPushed(n)'
    <3>1. CASE n = t
      BY <1>1, <1>4, <2>2, <3>1 DEF CellOfPushed, Cell
    <3>2. CASE n # t
      <4>1. CellOfPushed(n)
        BY <2>4, Ranges DEF IInv, CellsInv
      <4>2. /\ t \in Nat /\ Capacity \in Nat /\ D \in Nat /\ E \in Nat
            /\ D <= t /\ t < E /\ E <= D + Capacity
        BY <1>1, Ranges
      <4>3. n < t + Capacity /\ t < n + Capacity
        BY <2>4, <4>2
      <4>4. seq'[Cell(n)] = seq[Cell(n)]
        BY <1>5, <2>4, <3>2, <4>3
      <4>5. QED
        BY <1>1, <2>1, <3>2, <4>1, <4>4 DEF CellOfPushed, Cell
    <3>3. QED
      BY <3>1, <3>2
  <2>5. ASSUME NEW n \in Nat, E <= n, n < D + Capacity PROVE CellOfPopped(n)'
    <3>1. CellOfPopped(n)
      BY <2>5, Ranges DEF IInv, CellsInv
    <3>2. seq'[Cell(n)] = seq[Cell(n)]
      BY <1>1, <1>5, <2>5, Ranges
    <3>3. QED
      BY <1>1, <2>3, <3>1, <3>2 DEF CellOfPopped, Cell
  <2>6. QED
    BY <1>1, <2>4, <2>5, Ranges DEF CellsInv
<1>13. CasInv'
  <2>1. ASSUME NEW q \in Producers, pc'[q] = "push_cas", pos[q] = E
        PROVE  seq'[Cell(pos[q])] = pos[q]
    <3>1. pc[q] = "push_cas" /\ seq[Cell(E)] = E
      BY <1>3, <2>1 DEF IInv, CasInv
    <3>2. E < D + Capacity
      BY <3>1, CanPush
    <3>3. seq'[Cell(E)] = seq[Cell(E)]
      BY <1>1, <1>5, <3>2, Ranges
    <3>4. QED
      BY <2>1, <3>1, <3>3
  <2>2. ASSUME NEW c \in Consumers, pc'[c] = "pop_cas", pos[c] = D
        PROVE  seq'[Cell(pos[c])] = pos[c] + 1
    <3>1. seq[Cell(D)] = D + 1
      BY <1>3, <2>2 DEF IInv, CasInv
    <3>2. CASE t = D
      BY <1>4, <2>2, <3>2
    <3>3. CASE t # D
      <4>1. seq'[Cell(D)] = seq[Cell(D)]
        BY <1>1, <1>5, <3>3, Ranges
      <4>2. QED
        BY <2>2, <3>1, <4>1
    <3>4. QED
      BY <3>2, <3>3
  <2>3. QED
    BY <1>1, <2>1, <2>2 DEF CasInv, Cell
<1>14. PassedInv'
  <2> SUFFICES ASSUME NEW n \in Nat, n < D PROVE seq'[Cell(n)] > n
    BY <1>1, Ranges DEF PassedInv, Cell
  <2>1. CASE Cell(n) = Cell(t)
    BY <1>1, <1>4, <2>1, Ranges
  <2>2. CASE Cell(n) # Cell(t)
    <3>1. seq[Cell(n)] > n /\ Cell(n) \in Cells
      BY CellInRange, Ranges DEF IInv, PassedInv
    <3>2. QED
      BY <1>1, <1>2, <2>2, <3>1 DEF TypeOK
  <2>3. QED
    BY <2>1, <2>2
<1>15. QED
  BY <1>2, <1>8, <1>9, <1>10, <1>11, <1>12, <1>13, <1>14 DEF IInv

-----------------------------------------------------------------------------
(* The steps of a pop that change the queue. *)

\* A pop claims the next ticket (the compare-and-swap of try_pop).
LEMMA PopClaimStep ==
  ASSUME IInv, NEW c \in Consumers, PopClaim(c)
  PROVE  IInv'
<1> USE QueueAssumption
<1> DEFINE E == enqueue_pos  D == dequeue_pos
<1>1. /\ pos[c] = D /\ dequeue_pos' = D + 1
      /\ UNCHANGED <<enqueue_pos, seq, data, pos, arg, out, sent>>
      /\ pc[c] = "pop_cas" /\ pc' = [pc EXCEPT ![c] = "pop_read"]
      /\ ~PopHolds(c)
  BY DEF PopClaim, Goto, PopHolds
<1>2. TypeOK /\ TypeOK'
  BY TypeStep DEF IInv, Next, PopStep
<1>3. /\ \A d \in Consumers \ {c} : pc'[d] = pc[d]
      /\ \A p \in Producers : pc'[p] = pc[p]
      /\ pc'[c] = "pop_read"
  BY <1>1, <1>2, Ranges DEF TypeOK
<1>4. seq[Cell(D)] = D + 1
  BY <1>1 DEF IInv, CasInv
<1>5. D < E /\ ~PushInFlight(D) /\ data[Cell(D)] = sent[D + 1]
  BY <1>4, CanPop
<1>6. \A p \in Producers : PushHolds(p)' <=> PushHolds(p)
  BY <1>3 DEF PushHolds
<1>7. PopHolds(c)' /\ \A d \in Consumers \ {c} : PopHolds(d)' <=> PopHolds(d)
  BY <1>3 DEF PopHolds
<1>8. PositionsInv' /\ LocalCopyInv'
  BY <1>1, <1>5, Ranges DEF PositionsInv, LocalCopyInv
<1>9. TicketsInv'
  BY <1>1, <1>6, <1>7, Ranges DEF IInv, TicketsInv
<1>10. PushersInv'
  <2>1. ASSUME NEW p \in Producers, PushHolds(p)
        PROVE  D + 1 <= pos[p]
    BY <1>5, <2>1, Ranges DEF PushInFlight
  <2>2. QED
    BY <1>1, <1>3, <1>6, <2>1 DEF IInv, PushersInv, Cell
<1>11. PoppersInv'
  <2>1. E <= pos[c] + Capacity /\ pos[c] < D + 1
    BY <1>1, Ranges
  <2>2. \A d \in Consumers \ {c} : PopHolds(d) => pos[d] < D + 1
    BY Ranges
  <2>3. QED
    BY <1>1, <1>3, <1>5, <1>7, <2>1, <2>2 DEF IInv, PoppersInv, Cell
<1>12. CellsInv'
  <2>1. \A n : n # D => (PopInFlight(n)' <=> PopInFlight(n))
    BY <1>1, <1>7 DEF PopInFlight
  <2>2. \A n : n = D => PopInFlight(n)'
    BY <1>1, <1>7 DEF PopInFlight
  <2>3. \A n : PushInFlight(n)' <=> PushInFlight(n)
    BY <1>1, <1>6 DEF PushInFlight
  <2>4. ASSUME NEW n \in Nat, D + 1 <= n, n < E PROVE CellOfPushed(n)'
    <3>1. CellOfPushed(n)
      BY <2>4, Ranges DEF IInv, CellsInv
    <3>2. QED
      BY <1>1, <2>3, <3>1 DEF CellOfPushed, Cell
  <2>5. ASSUME NEW n \in Nat, E <= n, n < D + 1 + Capacity PROVE CellOfPopped(n)'
    <3>1. CASE n = D + Capacity
      <4>1. n - Capacity = D /\ Cell(n) = Cell(D)
        BY <3>1, CellNextLap, Ranges
      <4>2. QED
        BY <1>1, <1>4, <2>2, <4>1 DEF CellOfPopped, Cell
    <3>2. CASE n # D + Capacity
      <4>1. CellOfPopped(n) /\ n - Capacity # D
        BY <2>5, <3>2, Ranges DEF IInv, CellsInv
      <4>2. QED
        BY <1>1, <2>1, <4>1 DEF CellOfPopped, Cell
    <3>3. QED
      BY <3>1, <3>2
  <2>6. QED
    BY <1>1, <2>4, <2>5, Ranges DEF CellsInv
<1>13. CasInv'
  BY <1>1, <1>3, Ranges DEF IInv, CasInv, Cell
<1>14. PassedInv'
  <2> SUFFICES ASSUME NEW n \in Nat, n < D + 1 PROVE seq[Cell(n)] > n
    BY <1>1, Ranges DEF PassedInv, Cell
  <2>1. CASE n = D
    BY <1>4, <2>1, Ranges
  <2>2. CASE n # D
    BY <2>2, Ranges DEF IInv, PassedInv
  <2>3. QED
    BY <2>1, <2>2
<1>15. QED
  BY <1>2, <1>8, <1>9, <1>10, <1>11, <1>12, <1>13, <1>14 DEF IInv

\* It takes the value out of the cell it claimed.
LEMMA PopReadStep ==
  ASSUME IInv, NEW c \in Consumers, PopRead(c)
  PROVE  IInv'
<1> USE QueueAssumption
<1> DEFINE E == enqueue_pos  D == dequeue_pos  t == pos[c]
<1>1. /\ data' = [data EXCEPT ![Cell(t)] = NoValue]
      /\ out' = [out EXCEPT ![c] = data[Cell(t)]]
      /\ UNCHANGED <<enqueue_pos, dequeue_pos, seq, pos, arg, sent>>
      /\ pc[c] = "pop_read" /\ pc' = [pc EXCEPT ![c] = "pop_release"]
      /\ PopHolds(c)
  BY DEF PopRead, Goto, PopHolds
<1>2. TypeOK /\ TypeOK'
  BY TypeStep DEF IInv, Next, PopStep
<1>3. /\ \A d \in Consumers \ {c} : pc'[d] = pc[d] /\ out'[d] = out[d]
      /\ \A p \in Producers : pc'[p] = pc[p]
      /\ pc'[c] = "pop_release"
  BY <1>1, <1>2, Ranges DEF TypeOK
<1>4. out'[c] = sent[t + 1]
  BY <1>1, <1>2 DEF TypeOK, IInv, PoppersInv
<1>5. ASSUME NEW n \in Nat, n # t, n < t + Capacity, t < n + Capacity
      PROVE  data'[Cell(n)] = data[Cell(n)]
  <2>1. Cell(n) # Cell(t)
    BY <1>5, WithinLap, Ranges
  <2>2. Cell(n) \in Cells
    BY CellInRange
  <2>3. QED
    BY <1>1, <1>2, <2>1, <2>2 DEF TypeOK
<1>6. \A p \in Producers : PushHolds(p)' <=> PushHolds(p)
  BY <1>3 DEF PushHolds
<1>7. \A d \in Consumers : PopHolds(d)' <=> PopHolds(d)
  BY <1>1, <1>3 DEF PopHolds
<1>8. PositionsInv' /\ LocalCopyInv' /\ TicketsInv'
  BY <1>1, <1>6, <1>7 DEF IInv, PositionsInv, LocalCopyInv, TicketsInv
<1>9. PushersInv'
  <2>1. ASSUME NEW p \in Producers, PushHolds(p)
        PROVE  data'[Cell(pos[p])] = data[Cell(pos[p])]
    BY <1>1, <1>5, <2>1, Ranges
  <2>2. QED
    BY <1>1, <1>3, <1>6, <2>1 DEF IInv, PushersInv, Cell
<1>10. PoppersInv'
  <2>1. ASSUME NEW d \in Consumers, PopHolds(d), d # c
        PROVE  data'[Cell(pos[d])] = data[Cell(pos[d])]
    <3>1. pos[d] # t
      BY <1>1, <2>1 DEF IInv, TicketsInv
    <3>2. QED
      BY <1>1, <1>5, <2>1, <3>1, Ranges
  <2>2. QED
    BY <1>1, <1>3, <1>4, <1>7, <2>1 DEF IInv, PoppersInv, Cell
<1>11. CellsInv'
  <2>1. \A n : (PushInFlight(n)' <=> PushInFlight(n)) /\ (PopInFlight(n)' <=> PopInFlight(n))
    BY <1>1, <1>6, <1>7 DEF PushInFlight, PopInFlight
  <2>2. ASSUME NEW n \in Nat, D <= n, n < E PROVE CellOfPushed(n)'
    <3>1. CellOfPushed(n)
      BY <2>2, Ranges DEF IInv, CellsInv
    <3>2. data'[Cell(n)] = data[Cell(n)]
      BY <1>1, <1>5, <2>2, Ranges
    <3>3. QED
      BY <1>1, <2>1, <3>1, <3>2 DEF CellOfPushed, Cell
  <2>3. ASSUME NEW n \in Nat, E <= n, n < D + Capacity PROVE CellOfPopped(n)'
    <3>1. CellOfPopped(n)
      BY <2>3, Ranges DEF IInv, CellsInv
    <3>2. QED
      BY <1>1, <2>1, <3>1 DEF CellOfPopped, Cell
  <2>4. QED
    BY <1>1, <2>2, <2>3, Ranges DEF CellsInv
<1>12. CasInv'
  BY <1>1, <1>3 DEF IInv, CasInv, Cell
<1>13. PassedInv'
  BY <1>1 DEF IInv, PassedInv, Cell
<1>14. QED
  BY <1>2, <1>8, <1>9, <1>10, <1>11, <1>12, <1>13 DEF IInv

\* It hands the cell over to the push one lap later.
LEMMA PopReleaseStep ==
  ASSUME IInv, NEW c \in Consumers, PopRelease(c)
  PROVE  IInv'
<1> USE QueueAssumption
<1> DEFINE E == enqueue_pos  D == dequeue_pos  t == pos[c]  u == pos[c] + Capacity
<1>1. /\ seq' = [seq EXCEPT ![Cell(t)] = u]
      /\ UNCHANGED <<enqueue_pos, dequeue_pos, data, pos, arg, out, sent>>
      /\ pc[c] = "pop_release" /\ pc' = [pc EXCEPT ![c] = "idle"]
      /\ PopHolds(c)
  BY DEF PopRelease, Goto, PopHolds
<1>2. TypeOK /\ TypeOK'
  BY TypeStep DEF IInv, Next, PopStep
<1>3. /\ \A d \in Consumers \ {c} : pc'[d] = pc[d]
      /\ \A p \in Producers : pc'[p] = pc[p]
      /\ pc'[c] = "idle"
  BY <1>1, <1>2, Ranges DEF TypeOK
<1>4. /\ u \in Nat /\ E <= u /\ u < D + Capacity
      /\ Cell(u) = Cell(t) /\ seq'[Cell(u)] = u
  <2>1. u \in Nat /\ E <= u /\ u < D + Capacity
    BY <1>1, Ranges
  <2>2. Cell(u) = Cell(t)
    BY CellNextLap, Ranges
  <2>3. seq'[Cell(t)] = u
    BY <1>1, <1>2, Ranges DEF TypeOK
  <2>4. QED
    BY <2>1, <2>2, <2>3
<1>5. ASSUME NEW n \in Nat, n # u, D <= n, n < D + Capacity
      PROVE  seq'[Cell(n)] = seq[Cell(n)]
  <2>1. Cell(n) # Cell(u)
    BY <1>4, <1>5, WithinLap, Ranges
  <2>2. Cell(n) \in Cells
    BY CellInRange
  <2>3. QED
    BY <1>1, <1>2, <1>4, <2>1, <2>2 DEF TypeOK
<1>6. \A p \in Producers : PushHolds(p)' <=> PushHolds(p)
  BY <1>3 DEF PushHolds
<1>7. /\ \A d \in Consumers \ {c} : PopHolds(d)' <=> PopHolds(d)
      /\ ~PopHolds(c)'
      /\ \A d \in Consumers \ {c} : PopHolds(d) => pos[d] # t
  BY <1>1, <1>3 DEF PopHolds, IInv, TicketsInv
<1>8. PositionsInv' /\ LocalCopyInv'
  BY <1>1 DEF IInv, PositionsInv, LocalCopyInv
<1>9. TicketsInv'
  BY <1>1, <1>6, <1>7 DEF IInv, TicketsInv
<1>10. PushersInv'
  BY <1>1, <1>3, <1>6 DEF IInv, PushersInv, Cell
<1>11. PoppersInv'
  BY <1>1, <1>3, <1>7 DEF IInv, PoppersInv, Cell
<1>12. CellsInv'
  <2>1. \A n : n # t => (PopInFlight(n)' <=> PopInFlight(n))
    BY <1>1, <1>7 DEF PopInFlight
  <2>2. \A n : n = t => ~PopInFlight(n)'
    BY <1>1, <1>7 DEF PopInFlight
  <2>3. \A n : PushInFlight(n)' <=> PushInFlight(n)
    BY <1>1, <1>6 DEF PushInFlight
  <2>4. ASSUME NEW n \in Nat, D <= n, n < E PROVE CellOfPushed(n)'
    <3>1. CellOfPushed(n)
      BY <2>4, Ranges DEF IInv, CellsInv
    <3>2. seq'[Cell(n)] = seq[Cell(n)]
      BY <1>4, <1>5, <2>4, Ranges
    <3>3. QED
      BY <1>1, <2>3, <3>1, <3>2 DEF CellOfPushed, Cell
  <2>5. ASSUME NEW n \in Nat, E <= n, n < D + Capacity PROVE CellOfPopped(n)'
    <3>1. CASE n = u
      <4>1. n - Capacity = t
        BY <3>1, Ranges
      <4>2. QED
        BY <1>1, <1>4, <2>2, <3>1, <4>1 DEF CellOfPopped, Cell
    <3>2. CASE n # u
      <4>1. CellOfPopped(n) /\ n - Capacity # t
        BY <2>5, <3>2, Ranges DEF IInv, CellsInv
      <4>2. seq'[Cell(n)] = seq[Cell(n)]
        BY <1>5, <2>5, <3>2, Ranges
      <4>3. QED
        BY <1>1, <2>1, <4>1, <4>2 DEF CellOfPopped, Cell
    <3>3. QED
      BY <3>1, <3>2
  <2>6. QED
    BY <1>1, <2>4, <2>5, Ranges DEF CellsInv
<1>13. CasInv'
  <2>1. ASSUME NEW p \in Producers, pc'[p] = "push_cas", pos[p] = E
        PROVE  seq'[Cell(pos[p])] = pos[p]
    <3>1. pc[p] = "push_cas" /\ seq[Cell(E)] = E
      BY <1>3, <2>1 DEF IInv, CasInv
    <3>2. E < D + Capacity
      BY <3>1, CanPush
    <3>3. CASE E = u
      BY <1>4, <2>1, <3>3
    <3>4. CASE E # u
      <4>1. seq'[Cell(E)] = seq[Cell(E)]
        BY <1>5, <3>2, <3>4, Ranges
      <4>2. QED
        BY <2>1, <3>1, <4>1
    <3>5. QED
      BY <3>3, <3>4
  <2>2. ASSUME NEW d \in Consumers, pc'[d] = "pop_cas", pos[d] = D
        PROVE  seq'[Cell(pos[d])] = pos[d] + 1
    <3>1. seq[Cell(D)] = D + 1
      BY <1>3, <2>2 DEF IInv, CasInv
    <3>2. D < E
      BY <3>1, CanPop
    <3>3. seq'[Cell(D)] = seq[Cell(D)]
      BY <1>4, <1>5, <3>2, Ranges
    <3>4. QED
      BY <2>2, <3>1, <3>3
  <2>3. QED
    BY <1>1, <2>1, <2>2 DEF CasInv, Cell
<1>14. PassedInv'
  <2> SUFFICES ASSUME NEW n \in Nat, n < D PROVE seq'[Cell(n)] > n
    BY <1>1, Ranges DEF PassedInv, Cell
  <2>1. CASE Cell(n) = Cell(t)
    BY <1>4, <2>1, Ranges
  <2>2. CASE Cell(n) # Cell(t)
    <3>1. seq[Cell(n)] > n /\ Cell(n) \in Cells
      BY CellInRange, Ranges DEF IInv, PassedInv
    <3>2. QED
      BY <1>1, <1>2, <2>2, <3>1 DEF TypeOK
  <2>3. QED
    BY <2>1, <2>2
<1>15. QED
  BY <1>2, <1>8, <1>9, <1>10, <1>11, <1>12, <1>13, <1>14 DEF IInv

-----------------------------------------------------------------------------
(* The theorems. *)

(***************************************************************************)
(* The variables of the queue and the threads' locals keep their types.    *)
(***************************************************************************)
THEOREM TypeCorrect == Spec => []TypeOK
<1>1. Init => TypeOK
  BY QueueAssumption DEF Init, TypeOK, Threads, Cells, PushPc, PopPc, Results
<1>2. TypeOK /\ [Next]_vars => TypeOK'
  BY TypeStep
<1>3. QED
  BY <1>1, <1>2, PTL DEF Spec

\* The invariant holds of the empty queue.
LEMMA InitInv == Init => IInv
<1> SUFFICES ASSUME Init PROVE IInv
  OBVIOUS
<1> USE QueueAssumption
<1>1. TypeOK
  BY DEF Init, TypeOK, Threads, Cells, PushPc, PopPc, Results
<1>2. /\ enqueue_pos = 0 /\ dequeue_pos = 0 /\ sent = << >>
      /\ \A t \in Threads : pc[t] = "idle" /\ pos[t] = 0
      /\ \A i \in Cells : seq[i] = i
  BY DEF Init
<1>3. \A p \in Producers : ~PushHolds(p) /\ pc[p] # "push_cas" /\ pos[p] = 0
  BY <1>2 DEF PushHolds, Threads
<1>4. \A c \in Consumers : ~PopHolds(c) /\ pc[c] # "pop_cas" /\ pos[c] = 0
  BY <1>2 DEF PopHolds, Threads
<1>5. PositionsInv /\ LocalCopyInv /\ TicketsInv /\ PushersInv /\ PoppersInv /\ CasInv
  BY <1>2, <1>3, <1>4 DEF PositionsInv, LocalCopyInv, TicketsInv, PushersInv, PoppersInv, CasInv
<1>6. CellsInv
  <2>1. ASSUME NEW n \in Nat, n < Capacity PROVE CellOfPopped(n)
    <3>1. Cell(n) = n /\ n \in Cells
      BY <2>1, SMT DEF Cell, Cells
    <3>2. ~PopInFlight(n - Capacity)
      BY <1>4 DEF PopInFlight
    <3>3. QED
      BY <1>2, <3>1, <3>2 DEF CellOfPopped
  <2>2. QED
    BY <1>2, <2>1 DEF CellsInv
<1>7. PassedInv
  BY <1>2 DEF PassedInv
<1>8. QED
  BY <1>1, <1>5, <1>6, <1>7 DEF IInv

\* Every step keeps it.
LEMMA NextInv == IInv /\ [Next]_vars => IInv'
<1> SUFFICES ASSUME IInv, [Next]_vars PROVE IInv'
  OBVIOUS
<1>1. ASSUME NEW p \in Producers, PushStep(p) \/ \E v \in Values : PushBegin(p, v)
      PROVE  IInv'
  BY <1>1, PushSearch, PushClaimStep, PushWriteStep, PushPublishStep DEF PushStep
<1>2. ASSUME NEW c \in Consumers, PopStep(c) \/ PopBegin(c)
      PROVE  IInv'
  BY <1>2, PopSearch, PopClaimStep, PopReadStep, PopReleaseStep DEF PopStep
<1>3. CASE UNCHANGED vars
  BY <1>3 DEF vars, IInv, TypeOK, PositionsInv, LocalCopyInv, TicketsInv, PushersInv,
       PoppersInv, CellsInv, CellOfPushed, CellOfPopped, CasInv, PassedInv, PushInFlight,
       PopInFlight, PushHolds, PopHolds, Cell
<1>4. QED
  BY <1>1, <1>2, <1>3 DEF Next

(***************************************************************************)
(* The inductive invariant: every cell shows the ticket it should.         *)
(***************************************************************************)
THEOREM Invariance == Spec => []IInv
  BY InitInv, NextInv, PTL DEF Spec

(***************************************************************************)
(* No two threads ever use the same cell between claim and publish (or     *)
(* release): the plain field `data' is never accessed by two at once.      *)
(***************************************************************************)
THEOREM NoDataRace == Spec => []OneOwnerPerCell
<1>1. IInv => OneOwnerPerCell
  <2> SUFFICES ASSUME IInv, NEW t \in Threads, NEW u \in Threads, t # u, Holds(t), Holds(u)
               PROVE  Cell(pos[t]) # Cell(pos[u])
    BY DEF OneOwnerPerCell
  <2> USE QueueAssumption
  <2>1. /\ \A p \in Producers : ~PopHolds(p)
        /\ \A c \in Consumers : ~PushHolds(c)
    BY DEF IInv, TypeOK, PushHolds, PopHolds, PushPc, PopPc
  <2>2. CASE t \in Producers /\ u \in Producers
    <3>1. pos[t] # pos[u]
      BY <2>1, <2>2 DEF IInv, TicketsInv, Holds
    <3>2. QED
      BY <2>1, <2>2, <3>1, Ranges, WithinLap DEF Holds
  <2>3. CASE t \in Consumers /\ u \in Consumers
    <3>1. pos[t] # pos[u]
      BY <2>1, <2>3 DEF IInv, TicketsInv, Holds
    <3>2. QED
      BY <2>1, <2>3, <3>1, Ranges, WithinLap DEF Holds
  <2>4. CASE t \in Producers /\ u \in Consumers
    BY <2>1, <2>4, Ranges, WithinLap DEF Holds
  <2>5. CASE t \in Consumers /\ u \in Producers
    BY <2>1, <2>5, Ranges, WithinLap DEF Holds
  <2>6. QED
    BY <2>2, <2>3, <2>4, <2>5 DEF Threads
<1>2. QED
  BY <1>1, Invariance, PTL

(***************************************************************************)
(* A pop hands out the element that was pushed with its ticket: nothing is *)
(* lost, doubled or reordered between try_push and try_pop.                *)
(***************************************************************************)
THEOREM TicketOrder == Spec => []PopsInTicketOrder
<1>1. IInv => PopsInTicketOrder
  <2> SUFFICES ASSUME IInv, NEW c \in Consumers, pc[c] = "pop_release"
               PROVE  pos[c] < Len(sent) /\ out[c] = sent[pos[c] + 1]
    BY DEF PopsInTicketOrder
  <2>1. PopHolds(c)
    BY DEF PopHolds
  <2>2. out[c] = sent[pos[c] + 1]
    BY <2>1 DEF IInv, PoppersInv
  <2>3. QED
    BY <2>1, <2>2, Ranges
<1>2. QED
  BY <1>1, Invariance, PTL

(***************************************************************************)
(* An element that no pop has claimed is never overwritten.                *)
(***************************************************************************)
THEOREM NoOverwrite == Spec => []UnreadStaysIntact
<1>1. IInv => UnreadStaysIntact
  <2> SUFFICES ASSUME IInv, NEW n \in dequeue_pos .. enqueue_pos - 1,
                      \A p \in Producers : PushHolds(p) => pos[p] # n
               PROVE  data[Cell(n)] = sent[n + 1]
    BY DEF UnreadStaysIntact
  <2>1. CellOfPushed(n)
    BY DEF IInv, CellsInv
  <2>2. QED
    BY <2>1 DEF CellOfPushed, PushInFlight
<1>2. QED
  BY <1>1, Invariance, PTL

-----------------------------------------------------------------------------
(* What an answer means. *)

\* try_push saw "full": the cell it needs is still held by an element or pop.
LEMMA RefusedAt ==
  ASSUME IInv, NEW p \in Producers, seq[Cell(pos[p])] < pos[p]
  PROVE  /\ pos[p] = enqueue_pos
         /\ \/ enqueue_pos = dequeue_pos + Capacity
            \/ PopInFlight(enqueue_pos - Capacity)
<1> USE QueueAssumption
<1>1. pos[p] >= dequeue_pos
  <2>1. seq[Cell(pos[p])] \in Nat
    BY Ranges DEF IInv, TypeOK
  <2>2. QED
    BY <2>1, Ranges DEF IInv, PassedInv
<1>2. pos[p] = enqueue_pos
  <2> SUFFICES ASSUME pos[p] < enqueue_pos PROVE FALSE
    BY Ranges
  <2>1. CellOfPushed(pos[p])
    BY <1>1, Ranges DEF IInv, CellsInv
  <2>2. QED
    BY <2>1, Ranges DEF CellOfPushed
<1>3. ASSUME enqueue_pos < dequeue_pos + Capacity
      PROVE  PopInFlight(enqueue_pos - Capacity)
  <2>1. CellOfPopped(enqueue_pos)
    BY <1>3, Ranges DEF IInv, CellsInv
  <2>2. QED
    BY <1>2, <2>1, Ranges DEF CellOfPopped
<1>4. QED
  BY <1>2, <1>3, Ranges

\* try_pop saw "empty": no element, or the oldest one is still being pushed.
LEMMA MissedAt ==
  ASSUME IInv, NEW c \in Consumers, seq[Cell(pos[c])] < pos[c] + 1
  PROVE  /\ pos[c] = dequeue_pos
         /\ dequeue_pos = enqueue_pos \/ PushInFlight(dequeue_pos)
<1> USE QueueAssumption
<1>1. seq \in [Cells -> Nat] /\ seq[Cell(pos[c])] \in Nat
  BY Ranges DEF IInv, TypeOK
<1>2. pos[c] = dequeue_pos
  BY <1>1, Ranges DEF IInv, PassedInv
<1>3. ASSUME dequeue_pos < enqueue_pos
      PROVE  PushInFlight(dequeue_pos)
  <2>1. CellOfPushed(dequeue_pos)
    BY <1>3, Ranges DEF IInv, CellsInv
  <2>2. QED
    BY <1>2, <2>1, Ranges DEF CellOfPushed
<1>4. QED
  BY <1>2, <1>3, Ranges

\* The step in which a pop returns FALSE.
LEMMA MissStep ==
  ASSUME IInv, [Next]_vars, NEW c \in Consumers, pc[c] = "pop_seq", pc'[c] = "idle"
  PROVE  seq[Cell(pos[c])] < pos[c] + 1
<1> USE QueueAssumption DEF Threads
<1>1. TypeOK
  BY DEF IInv
<1>2. ASSUME NEW p \in Producers, PushStep(p) \/ \E v \in Values : PushBegin(p, v)
      PROVE  pc'[c] = pc[c]
  BY <1>1, <1>2 DEF TypeOK, PushStep, PushBegin, PushLoadSeq, PushReload, PushClaim,
       PushClaimFails, PushWrite, PushPublish, Goto
<1>3. ASSUME NEW d \in Consumers, d # c, PopStep(d) \/ PopBegin(d)
      PROVE  pc'[c] = pc[c]
  BY <1>1, <1>3 DEF TypeOK, PopStep, PopBegin, PopLoadSeq, PopReload, PopClaim,
       PopClaimFails, PopRead, PopRelease, Goto
<1>4. PopStep(c) \/ PopBegin(c)
  BY <1>2, <1>3 DEF Next, vars
<1>5. PopLoadSeq(c)
  BY <1>4 DEF PopStep, PopBegin, PopReload, PopClaim, PopClaimFails, PopRead, PopRelease
<1>6. QED
  BY <1>1, <1>5 DEF PopLoadSeq, Goto, TypeOK

\* The step in which a push returns FALSE.
LEMMA RefuseStep ==
  ASSUME IInv, [Next]_vars, NEW p \in Producers, pc[p] = "push_seq", pc'[p] = "idle"
  PROVE  seq[Cell(pos[p])] < pos[p]
<1> USE QueueAssumption DEF Threads
<1>1. TypeOK
  BY DEF IInv
<1>2. ASSUME NEW c \in Consumers, PopStep(c) \/ PopBegin(c)
      PROVE  pc'[p] = pc[p]
  BY <1>1, <1>2 DEF TypeOK, PopStep, PopBegin, PopLoadSeq, PopReload, PopClaim,
       PopClaimFails, PopRead, PopRelease, Goto
<1>3. ASSUME NEW q \in Producers, q # p, PushStep(q) \/ \E v \in Values : PushBegin(q, v)
      PROVE  pc'[p] = pc[p]
  BY <1>1, <1>3 DEF TypeOK, PushStep, PushBegin, PushLoadSeq, PushReload, PushClaim,
       PushClaimFails, PushWrite, PushPublish, Goto
<1>4. PushStep(p) \/ \E v \in Values : PushBegin(p, v)
  BY <1>2, <1>3 DEF Next, vars
<1>5. PushLoadSeq(p)
  BY <1>4 DEF PushStep, PushBegin, PushReload, PushClaim, PushClaimFails, PushWrite, PushPublish
<1>6. QED
  BY <1>1, <1>5 DEF PushLoadSeq, Goto, TypeOK

(***************************************************************************)
(* When no push is half done, a pop that reports "empty" is right: the     *)
(* final drain of main.cpp, run after the adapters were joined, leaves     *)
(* nothing in the queue.                                                   *)
(***************************************************************************)
THEOREM DrainIsComplete == Spec => EmptyMeansDrained
<1>1. ASSUME IInv, [Next]_vars, NEW c \in Consumers, pc[c] = "pop_seq", pc'[c] = "idle",
             \A p \in Producers : ~PushHolds(p)
      PROVE  dequeue_pos = enqueue_pos
  BY <1>1, MissStep, MissedAt DEF PushInFlight
<1>2. IInv /\ [Next]_vars =>
        [\A c \in Consumers :
           /\ pc[c] = "pop_seq" /\ pc'[c] = "idle"
           /\ \A p \in Producers : ~PushHolds(p)
           => dequeue_pos = enqueue_pos]_vars
  BY <1>1
<1>3. QED
  BY <1>2, Invariance, PTL DEF Spec, EmptyMeansDrained

(***************************************************************************)
(* A push is refused only by a queue whose next cell is in use: Capacity   *)
(* elements wait, or a pop is about to leave that very cell.               *)
(***************************************************************************)
THEOREM RefusalIsHonest == Spec => FullMeansFull
<1>1. ASSUME IInv, [Next]_vars,
             NEW p \in Producers, pc[p] = "push_seq", pc'[p] = "idle"
      PROVE  \/ enqueue_pos - dequeue_pos = Capacity
             \/ \E c \in Consumers : PopHolds(c) /\ pos[c] = enqueue_pos - Capacity
  <2>1. enqueue_pos = dequeue_pos + Capacity \/ PopInFlight(enqueue_pos - Capacity)
    BY <1>1, RefuseStep, RefusedAt
  <2>2. CASE enqueue_pos = dequeue_pos + Capacity
    BY <1>1, <2>2, Ranges, QueueAssumption
  <2>3. CASE PopInFlight(enqueue_pos - Capacity)
    BY <2>3 DEF PopInFlight
  <2>4. QED
    BY <2>1, <2>2, <2>3
<1>2. IInv /\ [Next]_vars =>
        [\A p \in Producers :
           pc[p] = "push_seq" /\ pc'[p] = "idle" =>
             \/ enqueue_pos - dequeue_pos = Capacity
             \/ \E c \in Consumers :
                  PopHolds(c) /\ pos[c] = enqueue_pos - Capacity]_vars
  BY <1>1
<1>3. QED
  BY <1>2, Invariance, PTL DEF Spec, FullMeansFull

-----------------------------------------------------------------------------
(* Refinement: every step is a step of BoundedFifo or a stutter. *)

\* A thread holds its place from its claim to its return; the others' places
\* do not move.
LEMMA PlaceOf ==
  ASSUME IInv
  PROVE  /\ \A p \in Producers :
              HeldPlace[p] = IF PushHolds(p) THEN pos[p] + 1 ELSE 0
         /\ \A c \in Consumers :
              HeldPlace[c] = IF PopHolds(c) THEN pos[c] + 1 ELSE 0
<1>1. /\ \A p \in Producers : p \in Threads /\ ~PopHolds(p)
      /\ \A c \in Consumers : c \in Threads /\ ~PushHolds(c)
  BY DEF IInv, TypeOK, PushHolds, PopHolds, PushPc, PopPc, Threads
<1>2. QED
  BY <1>1 DEF HeldPlace, Holds

\* Every step of a push is one of the abstract queue, or leaves it as it is.
LEMMA PushStepRefines ==
  ASSUME IInv, NEW p \in Producers, PushStep(p) \/ \E v \in Values : PushBegin(p, v)
  PROVE  Fifo!Next \/ UNCHANGED Fifo!vars
<1> USE QueueAssumption DEF Fifo!Threads, Threads, PushPc, PopPc
<1>1. TypeOK /\ HeldPlace \in [Threads -> Nat] /\ p \in Threads
  BY DEF IInv, TypeOK, HeldPlace
<1>2. ASSUME NEW v \in Values, PushBegin(p, v)
      PROVE  Fifo!Call(p)
  <2>1. ~Holds(p) /\ ~Holds(p)'
    BY <1>1, <1>2 DEF PushBegin, Goto, Holds, PushHolds, PopHolds, TypeOK
  <2>2. HeldPlace' = HeldPlace /\ HeldPlace[p] = 0
    BY <1>1, <1>2, <2>1 DEF PushBegin, Goto, HeldPlace, Holds, PushHolds, PopHolds, TypeOK
  <2>3. QED
    BY <1>2, <2>2 DEF PushBegin, Fifo!Call
<1>3. ASSUME PushReload(p) \/ PushClaimFails(p) \/ PushWrite(p)
      PROVE  UNCHANGED Fifo!vars
  <2>1. HeldPlace' = HeldPlace
    BY <1>1, <1>3 DEF PushReload, PushClaimFails, PushWrite, Goto, HeldPlace, Holds,
         PushHolds, PopHolds, TypeOK
  <2>2. QED
    BY <1>3, <2>1 DEF PushReload, PushClaimFails, PushWrite, Fifo!vars
<1>4. ASSUME PushLoadSeq(p)
      PROVE  Fifo!Refuse(p) \/ UNCHANGED Fifo!vars
  <2>1. HeldPlace' = HeldPlace /\ HeldPlace[p] = 0
    BY <1>1, <1>4 DEF PushLoadSeq, Goto, HeldPlace, Holds, PushHolds, PopHolds, TypeOK
  <2>2. CASE ret' = ret
    BY <1>4, <2>1, <2>2 DEF PushLoadSeq, Fifo!vars
  <2>3. CASE ret' # ret
    <3>1. seq[Cell(pos[p])] < pos[p] /\ ret' = [ret EXCEPT ![p] = "false"]
      BY <1>4, <2>3 DEF PushLoadSeq
    <3>2. ret[p] = "pending"
      BY <1>1, <1>4 DEF PushLoadSeq, TypeOK
    <3>3. /\ \/ enqueue_pos = dequeue_pos + Capacity
             \/ PopInFlight(enqueue_pos - Capacity)
      BY <3>1, RefusedAt
    <3>4. ~Fifo!HasRoom
      <4>1. CASE enqueue_pos = dequeue_pos + Capacity
        BY <4>1, Ranges DEF Fifo!HasRoom, Fifo!Emptied
      <4>2. CASE PopInFlight(enqueue_pos - Capacity)
        BY <4>2, Ranges, PlaceOf DEF Fifo!HasRoom, Fifo!Emptied, PopInFlight
      <4>3. QED
        BY <3>3, <4>1, <4>2
    <3>5. QED
      BY <1>4, <2>1, <3>1, <3>2, <3>4 DEF PushLoadSeq, Fifo!Refuse
  <2>4. QED
    BY <2>2, <2>3
<1>5. ASSUME PushClaim(p)
      PROVE  \E v \in Values : Fifo!Accept(p, v)
  <2>1. /\ pos[p] = enqueue_pos /\ pc[p] = "push_cas" /\ pc' = [pc EXCEPT ![p] = "push_write"]
        /\ pos' = pos /\ arg[p] \in Values /\ ret[p] = "pending"
    BY <1>1, <1>5 DEF PushClaim, Goto, TypeOK
  <2>2. enqueue_pos < dequeue_pos + Capacity /\ ~PopInFlight(enqueue_pos - Capacity)
    BY <2>1, CanPush DEF IInv, CasInv
  <2>3. Fifo!HasRoom
    <3> SUFFICES ASSUME Len(sent) >= Capacity PROVE Fifo!Emptied(Len(sent) + 1 - Capacity)
      BY Ranges DEF Fifo!HasRoom
    <3>1. ASSUME NEW c \in Consumers PROVE HeldPlace[c] # Len(sent) + 1 - Capacity
      BY SMTT(40), <2>2, Ranges, PlaceOf DEF PopInFlight
    <3>2. QED
      BY <2>2, <3>1, Ranges DEF Fifo!Emptied
  <2>4. HeldPlace[p] = 0
    BY <2>1, PlaceOf DEF PushHolds
  <2>5. HeldPlace' = [HeldPlace EXCEPT ![p] = Len(sent) + 1]
    <3>1. HeldPlace'[p] = pos[p] + 1
      BY <1>1, <2>1 DEF HeldPlace, Holds, PushHolds, TypeOK
    <3>2. \A t \in Threads \ {p} : HeldPlace'[t] = HeldPlace[t]
      BY <1>1, <2>1 DEF HeldPlace, Holds, PushHolds, PopHolds, TypeOK
    <3>3. QED
      BY <1>1, <2>1, <3>1, <3>2, Ranges DEF HeldPlace
  <2>6. QED
    BY <1>5, <2>1, <2>3, <2>4, <2>5 DEF PushClaim, Fifo!Accept
<1>6. ASSUME PushPublish(p)
      PROVE  Fifo!Return(p)
  <2>1. pos' = pos /\ pc' = [pc EXCEPT ![p] = "idle"] /\ PushHolds(p)
    BY <1>6 DEF PushPublish, Goto, PushHolds
  <2>2. HeldPlace[p] # 0
    BY <2>1, PlaceOf, Ranges
  <2>3. HeldPlace' = [HeldPlace EXCEPT ![p] = 0]
    <3>1. HeldPlace'[p] = 0
      BY <1>1, <2>1 DEF HeldPlace, Holds, PushHolds, PopHolds, TypeOK
    <3>2. \A t \in Threads \ {p} : HeldPlace'[t] = HeldPlace[t]
      BY <1>1, <2>1 DEF HeldPlace, Holds, PushHolds, PopHolds, TypeOK
    <3>3. QED
      BY <3>1, <3>2 DEF HeldPlace
  <2>4. QED
    BY <1>6, <2>2, <2>3 DEF PushPublish, Fifo!Return
<1>7. QED
  BY <1>2, <1>3, <1>4, <1>5, <1>6 DEF PushStep, Fifo!Next

\* So is every step of a pop.
LEMMA PopStepRefines ==
  ASSUME IInv, NEW c \in Consumers, PopStep(c) \/ PopBegin(c)
  PROVE  Fifo!Next \/ UNCHANGED Fifo!vars
<1> USE QueueAssumption DEF Fifo!Threads, Threads, PushPc, PopPc
<1>1. TypeOK /\ HeldPlace \in [Threads -> Nat] /\ c \in Threads
  BY DEF IInv, TypeOK, HeldPlace
<1>2. ASSUME PopBegin(c)
      PROVE  Fifo!Call(c)
  <2>1. ~Holds(c) /\ ~Holds(c)'
    BY <1>1, <1>2 DEF PopBegin, Goto, Holds, PushHolds, PopHolds, TypeOK
  <2>2. HeldPlace' = HeldPlace /\ HeldPlace[c] = 0
    BY <1>1, <1>2, <2>1 DEF PopBegin, Goto, HeldPlace, Holds, PushHolds, PopHolds, TypeOK
  <2>3. QED
    BY <1>2, <2>2 DEF PopBegin, Fifo!Call
<1>3. ASSUME PopReload(c) \/ PopClaimFails(c)
      PROVE  UNCHANGED Fifo!vars
  <2>1. HeldPlace' = HeldPlace
    BY <1>1, <1>3 DEF PopReload, PopClaimFails, Goto, HeldPlace, Holds, PushHolds,
         PopHolds, TypeOK
  <2>2. QED
    BY <1>3, <2>1 DEF PopReload, PopClaimFails, Fifo!vars
<1>4. ASSUME PopLoadSeq(c)
      PROVE  Fifo!Miss(c) \/ UNCHANGED Fifo!vars
  <2>1. HeldPlace' = HeldPlace /\ HeldPlace[c] = 0
    BY <1>1, <1>4 DEF PopLoadSeq, Goto, HeldPlace, Holds, PushHolds, PopHolds, TypeOK
  <2>2. CASE ret' = ret
    BY <1>4, <2>1, <2>2 DEF PopLoadSeq, Fifo!vars
  <2>3. CASE ret' # ret
    <3>1. seq[Cell(pos[c])] < pos[c] + 1 /\ ret' = [ret EXCEPT ![c] = "false"]
      BY <1>4, <2>3 DEF PopLoadSeq
    <3>2. ret[c] = "pending"
      BY <1>1, <1>4 DEF PopLoadSeq, TypeOK
    <3>3. dequeue_pos = enqueue_pos \/ PushInFlight(dequeue_pos)
      BY <3>1, MissedAt
    <3>4. ~Fifo!HasFront
      <4>1. CASE dequeue_pos = enqueue_pos
        BY <4>1, Ranges DEF Fifo!HasFront
      <4>2. CASE PushInFlight(dequeue_pos)
        BY <4>2, Ranges, PlaceOf DEF Fifo!HasFront, Fifo!Filled, PushInFlight
      <4>3. QED
        BY <3>3, <4>1, <4>2
    <3>5. QED
      BY <1>4, <2>1, <3>1, <3>2, <3>4 DEF PopLoadSeq, Fifo!Miss
  <2>4. QED
    BY <2>2, <2>3
<1>5. ASSUME PopClaim(c)
      PROVE  Fifo!Take(c)
  <2>1. /\ pos[c] = dequeue_pos /\ pc[c] = "pop_cas" /\ pc' = [pc EXCEPT ![c] = "pop_read"]
        /\ pos' = pos /\ ret[c] = "pending"
    BY <1>1, <1>5 DEF PopClaim, Goto, TypeOK
  <2>2. dequeue_pos < enqueue_pos /\ ~PushInFlight(dequeue_pos)
    BY <2>1, CanPop DEF IInv, CasInv
  <2>3. Fifo!HasFront
    <3>1. ASSUME NEW p \in Producers PROVE HeldPlace[p] # dequeue_pos + 1
      BY <2>2, Ranges, PlaceOf DEF PushInFlight
    <3>2. QED
      BY <2>2, <3>1, Ranges DEF Fifo!HasFront, Fifo!Filled
  <2>4. HeldPlace[c] = 0
    BY <2>1, PlaceOf DEF PopHolds
  <2>5. HeldPlace' = [HeldPlace EXCEPT ![c] = dequeue_pos + 1]
    <3>1. HeldPlace'[c] = pos[c] + 1
      BY <1>1, <2>1 DEF HeldPlace, Holds, PopHolds, TypeOK
    <3>2. \A t \in Threads \ {c} : HeldPlace'[t] = HeldPlace[t]
      BY <1>1, <2>1 DEF HeldPlace, Holds, PushHolds, PopHolds, TypeOK
    <3>3. QED
      BY <1>1, <2>1, <3>1, <3>2 DEF HeldPlace
  <2>6. QED
    BY <1>5, <2>1, <2>3, <2>4, <2>5 DEF PopClaim, Fifo!Take
<1>6. ASSUME PopRead(c)
      PROVE  Fifo!Receive(c)
  <2>1. pos' = pos /\ pc[c] = "pop_read" /\ pc' = [pc EXCEPT ![c] = "pop_release"] /\ PopHolds(c)
    BY <1>6 DEF PopRead, Goto, PopHolds
  <2>2. HeldPlace[c] = pos[c] + 1 /\ HeldPlace[c] # 0
    BY <2>1, PlaceOf, Ranges
  <2>3. HeldPlace' = HeldPlace
    BY <1>1, <2>1 DEF HeldPlace, Holds, PushHolds, PopHolds, TypeOK
  <2>4. data[Cell(pos[c])] = sent[pos[c] + 1]
    BY <2>1 DEF IInv, PoppersInv
  <2>5. QED
    BY <1>6, <2>2, <2>3, <2>4 DEF PopRead, Fifo!Receive
<1>7. ASSUME PopRelease(c)
      PROVE  Fifo!Return(c)
  <2>1. pos' = pos /\ pc[c] = "pop_release" /\ pc' = [pc EXCEPT ![c] = "idle"] /\ PopHolds(c)
    BY <1>7 DEF PopRelease, Goto, PopHolds
  <2>2. HeldPlace[c] = pos[c] + 1 /\ HeldPlace[c] # 0 /\ out[c] = sent[pos[c] + 1]
    BY <2>1, PlaceOf, Ranges DEF IInv, PoppersInv
  <2>3. HeldPlace' = [HeldPlace EXCEPT ![c] = 0]
    <3>1. HeldPlace'[c] = 0
      BY <1>1, <2>1 DEF HeldPlace, Holds, PushHolds, PopHolds, TypeOK
    <3>2. \A t \in Threads \ {c} : HeldPlace'[t] = HeldPlace[t]
      BY <1>1, <2>1 DEF HeldPlace, Holds, PushHolds, PopHolds, TypeOK
    <3>3. QED
      BY <3>1, <3>2 DEF HeldPlace
  <2>4. QED
    BY <1>7, <2>2, <2>3 DEF PopRelease, Fifo!Return
<1>8. QED
  BY <1>2, <1>3, <1>4, <1>5, <1>6, <1>7 DEF PopStep, Fifo!Next

(***************************************************************************)
(* MpmcQueue implements BoundedFifo: with the claims as the moments at     *)
(* which operations take effect, every push, pop and refusal of the code   *)
(* is one the abstract queue allows at that moment.                        *)
(***************************************************************************)
THEOREM Refinement == Spec => ImplementsFifo
<1>1. Init => Fifo!Init
  BY DEF Init, Fifo!Init, Fifo!Threads, Threads, HeldPlace, Holds, PushHolds, PopHolds
<1>2. IInv /\ [Next]_vars => [Fifo!Next]_(Fifo!vars)
  <2> SUFFICES ASSUME IInv, [Next]_vars PROVE Fifo!Next \/ UNCHANGED Fifo!vars
    OBVIOUS
  <2>1. CASE UNCHANGED vars
    BY <2>1 DEF vars, Fifo!vars, HeldPlace, Holds, PushHolds, PopHolds
  <2>2. QED
    BY <2>1, PushStepRefines, PopStepRefines DEF Next
<1>3. QED
  BY <1>1, <1>2, Invariance, PTL DEF Spec, ImplementsFifo, Fifo!Spec

=============================================================================
