------------------------------ MODULE MpmcQueue ------------------------------
(***************************************************************************)
(* The bounded lock-free queue between the log adapters and the pipeline   *)
(* (include/fixmon/mpmc_queue.hpp), one action per access to shared        *)
(* memory.  A push claims ticket `pos' by moving enqueue_pos_ past it,     *)
(* fills cell pos & mask_, and publishes it by storing pos + 1 in the      *)
(* cell's `seq'; a pop claims ticket `pos' by moving dequeue_pos_, moves   *)
(* the element out, and frees the cell by storing pos + mask_ + 1.         *)
(* Capacity is a power of two, so pos & mask_ is pos % Capacity.           *)
(*                                                                         *)
(* Threads interleave at these accesses (sequential consistency): the      *)
(* acquire/release pairs on `seq' order the plain accesses to `data', and  *)
(* a stale relaxed load of a position is one that is used late, which the  *)
(* interleaving covers.  Positions are 64 bit in the code and Nat here.    *)
(***************************************************************************)
EXTENDS Integers, Sequences

CONSTANTS
  Producers,   \* threads that call try_push
  Consumers,   \* threads that call try_pop
  Values,      \* the elements
  NoValue,     \* default-constructed or moved-from element
  Capacity,    \* number of cells
  MaxPush      \* bound: no new push starts once this many tickets are claimed

ASSUME QueueAssumption ==
  /\ Producers \cap Consumers = {}
  /\ NoValue \notin Values
  /\ Capacity \in Nat /\ Capacity >= 2
  /\ MaxPush \in Nat

VARIABLES
  enqueue_pos,  \* next ticket to be pushed
  dequeue_pos,  \* next ticket to be popped
  seq,          \* the cells' sequence numbers
  data,         \* the cells' elements
  pc,           \* where each thread is in its operation
  pos,          \* each thread's local `pos'
  arg,          \* the element each producer is pushing
  out,          \* the `out' parameter of each consumer's last pop
  ret,          \* "pending" during a call, else what the last one returned
  sent          \* history: the elements in the order of their tickets

vars == <<enqueue_pos, dequeue_pos, seq, data, pc, pos, arg, out, ret, sent>>

Threads == Producers \cup Consumers
Cells   == 0 .. Capacity - 1

PushPc == {"idle", "push_seq", "push_cas", "push_reload", "push_write", "push_publish"}
PopPc  == {"idle", "pop_seq", "pop_cas", "pop_reload", "pop_read", "pop_release"}

Results == {"none", "pending", "true", "false"}

\* buffer_[pos & mask_]
Cell(ticket) == ticket % Capacity

Goto(t, label) == pc' = [pc EXCEPT ![t] = label]

TypeOK ==
  /\ enqueue_pos \in Nat
  /\ dequeue_pos \in Nat
  /\ seq \in [Cells -> Nat]
  /\ data \in [Cells -> Values \cup {NoValue}]
  /\ pc \in [Threads -> PushPc \cup PopPc]
  /\ \A p \in Producers : pc[p] \in PushPc
  /\ \A c \in Consumers : pc[c] \in PopPc
  /\ pos \in [Threads -> Nat]
  /\ arg \in [Producers -> Values \cup {NoValue}]
  /\ \A p \in Producers : pc[p] # "idle" => arg[p] \in Values
  /\ out \in [Consumers -> Values \cup {NoValue}]
  /\ ret \in [Threads -> Results]
  /\ \A t \in Threads : pc[t] # "idle" => ret[t] = "pending"
  /\ sent \in Seq(Values)

Init ==
  /\ enqueue_pos = 0
  /\ dequeue_pos = 0
  /\ seq = [i \in Cells |-> i]
  /\ data = [i \in Cells |-> NoValue]
  /\ pc = [t \in Threads |-> "idle"]
  /\ pos = [t \in Threads |-> 0]
  /\ arg = [p \in Producers |-> NoValue]
  /\ out = [c \in Consumers |-> NoValue]
  /\ ret = [t \in Threads |-> "none"]
  /\ sent = << >>

-----------------------------------------------------------------------------
(* try_push *)

\* The call, up to the first load of enqueue_pos_.
PushBegin(p, v) ==
  /\ pc[p] = "idle"
  /\ enqueue_pos < MaxPush
  /\ arg' = [arg EXCEPT ![p] = v]
  /\ pos' = [pos EXCEPT ![p] = enqueue_pos]
  /\ ret' = [ret EXCEPT ![p] = "pending"]
  /\ Goto(p, "push_seq")
  /\ UNCHANGED <<enqueue_pos, dequeue_pos, seq, data, out, sent>>

\* Mutant of PushLoadSeq: a ticket that is gone counts as "full".
PushLoadSeq_LostRaceIsFull(p) ==
  LET s == seq[Cell(pos[p])] IN
  /\ pc[p] = "push_seq"
  /\ \/ s = pos[p] /\ Goto(p, "push_cas") /\ UNCHANGED ret
     \/ s # pos[p] /\ Goto(p, "idle") /\ ret' = [ret EXCEPT ![p] = "false"]
  /\ UNCHANGED <<enqueue_pos, dequeue_pos, seq, data, pos, arg, out, sent>>

\* Load cell->seq and decide: the cell is free for this ticket, still in use
\* from the round before (full), or already claimed by another producer.
PushLoadSeq(p) ==
  LET s == seq[Cell(pos[p])] IN
  /\ pc[p] = "push_seq"
  /\ \/ s = pos[p] /\ Goto(p, "push_cas") /\ UNCHANGED ret
     \/ s < pos[p] /\ Goto(p, "idle") /\ ret' = [ret EXCEPT ![p] = "false"]
     \/ s > pos[p] /\ Goto(p, "push_reload") /\ UNCHANGED ret
  /\ UNCHANGED <<enqueue_pos, dequeue_pos, seq, data, pos, arg, out, sent>>

\* Mutant of PushReload: the loop continues with the old position.
PushReload_KeepsPos(p) ==
  /\ pc[p] = "push_reload"
  /\ Goto(p, "push_seq")
  /\ UNCHANGED <<enqueue_pos, dequeue_pos, seq, data, pos, arg, out, ret, sent>>

PushReload(p) ==
  /\ pc[p] = "push_reload"
  /\ pos' = [pos EXCEPT ![p] = enqueue_pos]
  /\ Goto(p, "push_seq")
  /\ UNCHANGED <<enqueue_pos, dequeue_pos, seq, data, arg, out, ret, sent>>

\* Mutant of PushClaim: a plain store instead of a compare-and-swap.
PushClaim_PlainStore(p) ==
  /\ pc[p] = "push_cas"
  /\ enqueue_pos' = pos[p] + 1
  /\ sent' = Append(sent, arg[p])
  /\ Goto(p, "push_write")
  /\ UNCHANGED <<dequeue_pos, seq, data, pos, arg, out, ret>>

\* compare_exchange_weak succeeds: the ticket is this producer's.
PushClaim(p) ==
  /\ pc[p] = "push_cas"
  /\ enqueue_pos = pos[p]
  /\ enqueue_pos' = pos[p] + 1
  /\ sent' = Append(sent, arg[p])
  /\ Goto(p, "push_write")
  /\ UNCHANGED <<dequeue_pos, seq, data, pos, arg, out, ret>>

\* compare_exchange_weak fails, because another producer was faster or
\* spuriously; either way it leaves the current value in `pos'.
PushClaimFails(p) ==
  /\ pc[p] = "push_cas"
  /\ pos' = [pos EXCEPT ![p] = enqueue_pos]
  /\ Goto(p, "push_seq")
  /\ UNCHANGED <<enqueue_pos, dequeue_pos, seq, data, arg, out, ret, sent>>

\* cell->data = std::move(value)
PushWrite(p) ==
  /\ pc[p] = "push_write"
  /\ data' = [data EXCEPT ![Cell(pos[p])] = arg[p]]
  /\ Goto(p, "push_publish")
  /\ UNCHANGED <<enqueue_pos, dequeue_pos, seq, pos, arg, out, ret, sent>>

\* Mutant of PushPublish: the store to `seq' is missing.
PushPublish_NoStore(p) ==
  /\ pc[p] = "push_publish"
  /\ ret' = [ret EXCEPT ![p] = "true"]
  /\ Goto(p, "idle")
  /\ UNCHANGED <<enqueue_pos, dequeue_pos, seq, data, pos, arg, out, sent>>

\* cell->seq.store(pos + 1, release) and return true
PushPublish(p) ==
  /\ pc[p] = "push_publish"
  /\ seq' = [seq EXCEPT ![Cell(pos[p])] = pos[p] + 1]
  /\ ret' = [ret EXCEPT ![p] = "true"]
  /\ Goto(p, "idle")
  /\ UNCHANGED <<enqueue_pos, dequeue_pos, data, pos, arg, out, sent>>

-----------------------------------------------------------------------------
(* try_pop *)

PopBegin(c) ==
  /\ pc[c] = "idle"
  /\ pos' = [pos EXCEPT ![c] = dequeue_pos]
  /\ ret' = [ret EXCEPT ![c] = "pending"]
  /\ Goto(c, "pop_seq")
  /\ UNCHANGED <<enqueue_pos, dequeue_pos, seq, data, arg, out, sent>>

\* Mutant of PopLoadSeq: a ticket that another pop took counts as "empty".
PopLoadSeq_LostRaceIsEmpty(c) ==
  LET s == seq[Cell(pos[c])] IN
  /\ pc[c] = "pop_seq"
  /\ \/ s = pos[c] + 1 /\ Goto(c, "pop_cas") /\ UNCHANGED ret
     \/ s # pos[c] + 1 /\ Goto(c, "idle") /\ ret' = [ret EXCEPT ![c] = "false"]
  /\ UNCHANGED <<enqueue_pos, dequeue_pos, seq, data, pos, arg, out, sent>>

\* Load cell->seq and decide: published for this ticket, not yet (empty), or
\* already claimed by another consumer.
PopLoadSeq(c) ==
  LET s == seq[Cell(pos[c])] IN
  /\ pc[c] = "pop_seq"
  /\ \/ s = pos[c] + 1 /\ Goto(c, "pop_cas") /\ UNCHANGED ret
     \/ s < pos[c] + 1 /\ Goto(c, "idle") /\ ret' = [ret EXCEPT ![c] = "false"]
     \/ s > pos[c] + 1 /\ Goto(c, "pop_reload") /\ UNCHANGED ret
  /\ UNCHANGED <<enqueue_pos, dequeue_pos, seq, data, pos, arg, out, sent>>

PopReload(c) ==
  /\ pc[c] = "pop_reload"
  /\ pos' = [pos EXCEPT ![c] = dequeue_pos]
  /\ Goto(c, "pop_seq")
  /\ UNCHANGED <<enqueue_pos, dequeue_pos, seq, data, arg, out, ret, sent>>

PopClaim(c) ==
  /\ pc[c] = "pop_cas"
  /\ dequeue_pos = pos[c]
  /\ dequeue_pos' = pos[c] + 1
  /\ Goto(c, "pop_read")
  /\ UNCHANGED <<enqueue_pos, seq, data, pos, arg, out, ret, sent>>

PopClaimFails(c) ==
  /\ pc[c] = "pop_cas"
  /\ pos' = [pos EXCEPT ![c] = dequeue_pos]
  /\ Goto(c, "pop_seq")
  /\ UNCHANGED <<enqueue_pos, dequeue_pos, seq, data, arg, out, ret, sent>>

\* out = std::move(cell->data): the cell keeps a moved-from element.
PopRead(c) ==
  LET i == Cell(pos[c]) IN
  /\ pc[c] = "pop_read"
  /\ out' = [out EXCEPT ![c] = data[i]]
  /\ data' = [data EXCEPT ![i] = NoValue]
  /\ Goto(c, "pop_release")
  /\ UNCHANGED <<enqueue_pos, dequeue_pos, seq, pos, arg, ret, sent>>

\* Mutants of PopRelease: `pos + mask_' instead of `pos + mask_ + 1', and one
\* more than that.
PopRelease_OffByOne(c) ==
  /\ pc[c] = "pop_release"
  /\ seq' = [seq EXCEPT ![Cell(pos[c])] = pos[c] + Capacity - 1]
  /\ ret' = [ret EXCEPT ![c] = "true"]
  /\ Goto(c, "idle")
  /\ UNCHANGED <<enqueue_pos, dequeue_pos, data, pos, arg, out, sent>>

PopRelease_OneMore(c) ==
  /\ pc[c] = "pop_release"
  /\ seq' = [seq EXCEPT ![Cell(pos[c])] = pos[c] + Capacity + 1]
  /\ ret' = [ret EXCEPT ![c] = "true"]
  /\ Goto(c, "idle")
  /\ UNCHANGED <<enqueue_pos, dequeue_pos, data, pos, arg, out, sent>>

\* cell->seq.store(pos + mask_ + 1, release) and return true
PopRelease(c) ==
  /\ pc[c] = "pop_release"
  /\ seq' = [seq EXCEPT ![Cell(pos[c])] = pos[c] + Capacity]
  /\ ret' = [ret EXCEPT ![c] = "true"]
  /\ Goto(c, "idle")
  /\ UNCHANGED <<enqueue_pos, dequeue_pos, data, pos, arg, out, sent>>

-----------------------------------------------------------------------------

PushStep(p) ==
  \/ PushLoadSeq(p)
  \/ PushReload(p)
  \/ PushClaim(p)
  \/ PushClaimFails(p)
  \/ PushWrite(p)
  \/ PushPublish(p)

PopStep(c) ==
  \/ PopLoadSeq(c)
  \/ PopReload(c)
  \/ PopClaim(c)
  \/ PopClaimFails(c)
  \/ PopRead(c)
  \/ PopRelease(c)

Next ==
  \/ \E p \in Producers : PushStep(p) \/ \E v \in Values : PushBegin(p, v)
  \/ \E c \in Consumers : PopStep(c) \/ PopBegin(c)

Spec == Init /\ [][Next]_vars

(***************************************************************************)
(* A thread inside an operation is scheduled again, and the weak CAS does  *)
(* not fail spuriously for ever.  A consumer polls again after it returned *)
(* (the pipeline loop); a producer need not push.                          *)
(***************************************************************************)
Fairness ==
  /\ \A p \in Producers : WF_vars(PushStep(p)) /\ SF_vars(PushClaim(p))
  /\ \A c \in Consumers :
       WF_vars(PopStep(c) \/ PopBegin(c)) /\ SF_vars(PopClaim(c))

FairSpec == Spec /\ Fairness

-----------------------------------------------------------------------------
(* Properties *)

PushHolds(p) == pc[p] \in {"push_write", "push_publish"}
PopHolds(c)  == pc[c] \in {"pop_read", "pop_release"}
Holds(t)     == PushHolds(t) \/ PopHolds(t)

(***************************************************************************)
(* `data' is a plain field: between a successful CAS and the store to      *)
(* `seq' a cell belongs to the one thread that claimed it, so no two       *)
(* threads ever access the same element at once.                           *)
(***************************************************************************)
OneOwnerPerCell ==
  \A t, u \in Threads :
    t # u /\ Holds(t) /\ Holds(u) => Cell(pos[t]) # Cell(pos[u])

(***************************************************************************)
(* A pop that claimed ticket n hands out the element pushed with ticket n. *)
(* Tickets are claimed once, so nothing is lost, doubled or reordered, and *)
(* every producer's elements come out in the order it pushed them.         *)
(***************************************************************************)
PopsInTicketOrder ==
  \A c \in Consumers :
    pc[c] = "pop_release" => /\ pos[c] < Len(sent)
                             /\ out[c] = sent[pos[c] + 1]

(***************************************************************************)
(* An element that was pushed and not yet claimed by a pop is still in its *)
(* cell: a producer a lap ahead never overwrites it.                       *)
(***************************************************************************)
UnreadStaysIntact ==
  \A n \in dequeue_pos .. enqueue_pos - 1 :
    (\A p \in Producers : PushHolds(p) => pos[p] # n)
      => data[Cell(n)] = sent[n + 1]

(***************************************************************************)
(* The final drain of main.cpp pops until try_pop fails, after the         *)
(* adapters were joined.  If no push is between its claim and its publish, *)
(* a pop that reports "empty" leaves nothing behind.                       *)
(***************************************************************************)
EmptyMeansDrained ==
  [][\A c \in Consumers :
       /\ pc[c] = "pop_seq" /\ pc'[c] = "idle"
       /\ \A p \in Producers : ~PushHolds(p)
       => dequeue_pos = enqueue_pos]_vars

(***************************************************************************)
(* A push is refused only when the cell it needs is in use: Capacity       *)
(* elements wait, or a pop is just leaving that cell.  The back-pressure   *)
(* of the sink never starts on a queue with a free next cell, however      *)
(* stale the position was when the push loaded it.                         *)
(***************************************************************************)
FullMeansFull ==
  [][\A p \in Producers :
       pc[p] = "push_seq" /\ pc'[p] = "idle" =>
         \/ enqueue_pos - dequeue_pos = Capacity
         \/ \E c \in Consumers :
              PopHolds(c) /\ pos[c] = enqueue_pos - Capacity]_vars

(***************************************************************************)
(* Every push returns: a producer does not spin for ever on a cell that    *)
(* another thread keeps moving (the pushes are bounded here; with endless  *)
(* competing pushes the loop is only lock-free).                           *)
(***************************************************************************)
PushReturns == \A p \in Producers : pc[p] # "idle" ~> pc[p] = "idle"

(***************************************************************************)
(* Everything accepted is handed out while the consumers keep polling.     *)
(***************************************************************************)
EverythingTaken ==
  \A n \in 1 .. MaxPush : Len(sent) >= n ~> dequeue_pos >= n

(***************************************************************************)
(* The queue implements BoundedFifo: an operation takes effect when its    *)
(* CAS succeeds, and FALSE is returned only when the abstract queue allows *)
(* it at the moment `seq' was loaded.                                      *)
(***************************************************************************)
HeldPlace == [t \in Threads |-> IF Holds(t) THEN pos[t] + 1 ELSE 0]

Fifo == INSTANCE BoundedFifo WITH
  items <- sent,
  taken <- dequeue_pos,
  slot  <- HeldPlace

ImplementsFifo == Fifo!Spec

=============================================================================
