----------------------------- MODULE BoundedFifo -----------------------------
(***************************************************************************)
(* What MpmcQueue<T> (include/fixmon/mpmc_queue.hpp) promises to the       *)
(* threads that call it.  The elements accepted so far form one sequence,  *)
(* in the order in which the pushes took effect, and the pops hand them    *)
(* out in that order, each exactly once.  What the queue does NOT promise  *)
(* is stated here too: an operation that is still in progress keeps its    *)
(* place, so a push may be refused although fewer than Capacity elements   *)
(* are inside (a slow pop still holds the slot that is needed next), and a *)
(* pop may report "empty" although elements are inside (the push of the    *)
(* oldest one has not finished).                                           *)
(*                                                                         *)
(* What an operation returned is in `ret', which is "pending" during the   *)
(* call.  Between taking effect and returning, the operation of thread t   *)
(* holds place slot[t] of the sequence.  The sets of threads are disjoint  *)
(* and Capacity is at least 2: next_pow2 of config.cpp returns no less.    *)
(***************************************************************************)
EXTENDS Integers, Sequences

CONSTANTS
  Producers,   \* threads that push
  Consumers,   \* threads that pop
  Values,      \* what is pushed
  NoValue,     \* the content of an `out' parameter before the first pop
  Capacity     \* number of cells

VARIABLES
  items,       \* every element accepted so far, in order
  taken,       \* how many of them the pops have claimed
  slot,        \* the place in `items' an operation in progress holds, or 0
  ret,         \* "pending" during a call, else the result of the last one
  out          \* the element a consumer received last

vars == <<items, taken, slot, ret, out>>

Threads == Producers \cup Consumers

Results == {"none", "pending", "true", "false"}

\* Place i is filled: its push has returned (or is about to).
Filled(i) == \A p \in Producers : slot[p] # i

\* Place i is emptied: a pop took it and has let go of the slot.
Emptied(i) == i <= taken /\ \A c \in Consumers : slot[c] # i

\* The slot the next element needs was never used, or is free again.
HasRoom ==
  \/ Len(items) < Capacity
  \/ Emptied(Len(items) + 1 - Capacity)

\* The oldest element is there and its push is complete.
HasFront == taken < Len(items) /\ Filled(taken + 1)

TypeOK ==
  /\ items \in Seq(Values)
  /\ taken \in 0 .. Len(items)
  /\ slot \in [Threads -> 0 .. Len(items)]
  /\ ret \in [Threads -> Results]
  /\ out \in [Consumers -> Values \cup {NoValue}]

Init ==
  /\ items = << >>
  /\ taken = 0
  /\ slot = [t \in Threads |-> 0]
  /\ ret = [t \in Threads |-> "none"]
  /\ out = [c \in Consumers |-> NoValue]

Call(t) ==
  /\ slot[t] = 0
  /\ ret' = [ret EXCEPT ![t] = "pending"]
  /\ UNCHANGED <<items, taken, slot, out>>

Accept(p, v) ==
  /\ ret[p] = "pending"
  /\ slot[p] = 0
  /\ HasRoom
  /\ items' = Append(items, v)
  /\ slot' = [slot EXCEPT ![p] = Len(items) + 1]
  /\ UNCHANGED <<taken, ret, out>>

\* A push is refused only while the slot it needs is still in use.
Refuse(p) ==
  /\ ret[p] = "pending"
  /\ slot[p] = 0
  /\ ~HasRoom
  /\ ret' = [ret EXCEPT ![p] = "false"]
  /\ UNCHANGED <<items, taken, slot, out>>

Take(c) ==
  /\ ret[c] = "pending"
  /\ slot[c] = 0
  /\ HasFront
  /\ taken' = taken + 1
  /\ slot' = [slot EXCEPT ![c] = taken + 1]
  /\ UNCHANGED <<items, ret, out>>

\* A pop comes back empty-handed only while no complete element is at the front.
Miss(c) ==
  /\ ret[c] = "pending"
  /\ slot[c] = 0
  /\ ~HasFront
  /\ ret' = [ret EXCEPT ![c] = "false"]
  /\ UNCHANGED <<items, taken, slot, out>>

Receive(c) ==
  /\ slot[c] # 0
  /\ out' = [out EXCEPT ![c] = items[slot[c]]]
  /\ UNCHANGED <<items, taken, slot, ret>>

Return(t) ==
  /\ slot[t] # 0
  /\ t \in Consumers => out[t] = items[slot[t]]
  /\ slot' = [slot EXCEPT ![t] = 0]
  /\ ret' = [ret EXCEPT ![t] = "true"]
  /\ UNCHANGED <<items, taken, out>>

Next ==
  \/ \E t \in Threads : Call(t) \/ Return(t)
  \/ \E p \in Producers : Refuse(p) \/ \E v \in Values : Accept(p, v)
  \/ \E c \in Consumers : Take(c) \/ Miss(c) \/ Receive(c)

Spec == Init /\ [][Next]_vars

=============================================================================
