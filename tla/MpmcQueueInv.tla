---------------------------- MODULE MpmcQueueInv ----------------------------
(***************************************************************************)
(* The inductive invariant of MpmcQueue: which value of `seq' every cell   *)
(* has, in terms of the two positions and of the operations in progress.   *)
(* MpmcQueueProofs proves it for every number of threads and cells; TLC    *)
(* checks it on the instances of MCMpmcQueue.                              *)
(***************************************************************************)
EXTENDS MpmcQueue

PushInFlight(n) == \E p \in Producers : PushHolds(p) /\ pos[p] = n
PopInFlight(n)  == \E c \in Consumers : PopHolds(c) /\ pos[c] = n

\* The positions are at most a lap apart, and `sent' records every claim.
PositionsInv ==
  /\ Len(sent) = enqueue_pos
  /\ dequeue_pos <= enqueue_pos
  /\ enqueue_pos <= dequeue_pos + Capacity

\* A local copy of a position is never ahead of the position itself.
LocalCopyInv ==
  /\ \A p \in Producers : pos[p] <= enqueue_pos
  /\ \A c \in Consumers : pos[c] <= dequeue_pos

\* A claimed ticket belongs to one thread.
TicketsInv ==
  /\ \A p, q \in Producers :
       p # q /\ PushHolds(p) /\ PushHolds(q) => pos[p] # pos[q]
  /\ \A c, d \in Consumers :
       c # d /\ PopHolds(c) /\ PopHolds(d) => pos[c] # pos[d]

\* A push in flight lies between the positions and knows its element.
PushersInv ==
  \A p \in Producers : PushHolds(p) =>
    /\ dequeue_pos <= pos[p] /\ pos[p] < enqueue_pos
    /\ arg[p] = sent[pos[p] + 1]
    /\ pc[p] = "push_publish" => data[Cell(pos[p])] = sent[pos[p] + 1]

\* A pop in flight is within a lap of the pushes.
PoppersInv ==
  \A c \in Consumers : PopHolds(c) =>
    /\ pos[c] < dequeue_pos /\ enqueue_pos <= pos[c] + Capacity
    /\ pc[c] = "pop_read" => data[Cell(pos[c])] = sent[pos[c] + 1]
    /\ pc[c] = "pop_release" => out[c] = sent[pos[c] + 1]

\* Cell(n) is the cell of ticket n, the next one to use it, and of ticket
\* n - Capacity, the last one that did (none, if that is negative).
CellOfPushed(n) ==
  \/ PushInFlight(n) /\ seq[Cell(n)] = n
  \/ ~PushInFlight(n) /\ seq[Cell(n)] = n + 1 /\ data[Cell(n)] = sent[n + 1]

CellOfPopped(n) ==
  \/ PopInFlight(n - Capacity) /\ seq[Cell(n)] = n - Capacity + 1
  \/ ~PopInFlight(n - Capacity) /\ seq[Cell(n)] = n

CellsInv ==
  /\ \A n \in dequeue_pos .. enqueue_pos - 1 : CellOfPushed(n)
  /\ \A n \in enqueue_pos .. dequeue_pos + Capacity - 1 : CellOfPopped(n)

\* What was seen in `seq' before the CAS still holds if the CAS can succeed.
CasInv ==
  /\ \A p \in Producers :
       pc[p] = "push_cas" /\ pos[p] = enqueue_pos => seq[Cell(pos[p])] = pos[p]
  /\ \A c \in Consumers :
       pc[c] = "pop_cas" /\ pos[c] = dequeue_pos => seq[Cell(pos[c])] = pos[c] + 1

\* A thread that uses an old position sees that its ticket is gone.
PassedInv == \A n \in 0 .. dequeue_pos - 1 : seq[Cell(n)] > n

(***************************************************************************)
(* The parts together determine every cell, hence every answer of the      *)
(* queue; each step of the code preserves them only jointly.               *)
(***************************************************************************)
IInv ==
  /\ TypeOK
  /\ PositionsInv
  /\ LocalCopyInv
  /\ TicketsInv
  /\ PushersInv
  /\ PoppersInv
  /\ CellsInv
  /\ CasInv
  /\ PassedInv

=============================================================================
