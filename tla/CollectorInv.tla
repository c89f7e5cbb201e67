---------------------------- MODULE CollectorInv ----------------------------
(***************************************************************************)
(* The inductive invariant of Collector: where every event is between the  *)
(* log and the database, in terms of the places of the threads.            *)
(* CollectorProofs proves it for any adapters and bounds.                  *)
(***************************************************************************)
EXTENDS Collector

\* The main thread holds an event it has popped and not applied.
Holding == slot[Main] # 0 \/ mpc \in {"apply", "drain_apply"}

\* A thread that has a line in hand has read it, and may try again.
LinesInv ==
  \A a \in Adapters :
    /\ parse_errors[a] <= lines_read[a]
    /\ apc[a] \in {"push", "pushed", "wait"} => lines_read[a] > 0
    /\ apc[a] = "wait" => tries[a] < WaitBound

\* A thread runs from its start to the clearing of its flag, and the join waits
\* for it: from the final drain on no thread is left.
ThreadsInv ==
  /\ \A a \in Adapters :
       /\ running[a] => apc[a] \notin {"off", "exited"}
       /\ ~running[a] /\ mpc \notin {"join", "abort_join"} => apc[a] \in {"off", "exited"}
       /\ mpc # "start" => apc[a] # "off"
  /\ mpc \in {"drain", "drain_apply", "final", "done"} =>
       \A a \in Adapters : ~running[a]

\* What each thread holds of the queue.  The accepted elements are those taken
\* and at most Capacity more.
SlotsInv ==
  /\ \A a \in Adapters : apc[a] # "pushed" => slot[a] = 0
  /\ slot[Main] # 0 => mpc \in {"pop", "drain"} /\ slot[Main] = taken
  /\ Len(items) <= taken + Capacity

\* The queue holds the events of a log in the order of its lines; the line in
\* hand is younger.
OrderInv ==
  /\ \A i, j \in 1 .. Len(items) :
       i < j /\ items[i][1] = items[j][1] => items[i][2] < items[j][2]
  /\ \A i \in 1 .. Len(items) :
       /\ items[i][2] <= lines_read[items[i][1]]
       /\ apc[items[i][1]] \in {"push", "wait"} => items[i][2] < lines_read[items[i][1]]

\* The events are applied in the order of the queue; the one taken last may be
\* in the hand of the main thread.
AppliedInv ==
  /\ taken = Len(applied) + IF Holding THEN 1 ELSE 0
  /\ \A i \in 1 .. Len(applied) : applied[i] = items[i]
  /\ mpc \in {"apply", "drain_apply"} => out[Main] = items[taken]

\* What was applied is committed or staged, and less than a batch is staged
\* until the final drain.
StoreInv ==
  /\ write_errors = 0 => rows \o staged = applied
  /\ mpc \notin {"flush", "drain", "drain_apply", "final"} => Len(staged) < Batch
  /\ mpc = "flush" => Len(staged) <= Batch
  /\ mpc \in {"drain", "drain_apply", "final"} =>
       Len(staged) + (Len(items) - Len(applied)) < Batch + Capacity

\* The final drain leaves nothing in the queue, and the last flush nothing staged.
DrainedInv ==
  /\ mpc \in {"final", "done"} => Len(applied) = Len(items)
  /\ mpc = "done" => staged = << >> /\ mirrored = dropped

(***************************************************************************)
(* The parts together follow every event from its line to its row, through *)
(* retries, drops, failed flushes and the shutdown; no part is preserved   *)
(* by the steps of the code without the others.                            *)
(***************************************************************************)
IInv ==
  /\ TypeOK
  /\ LinesInv
  /\ ThreadsInv
  /\ SlotsInv
  /\ OrderInv
  /\ AppliedInv
  /\ StoreInv
  /\ DrainedInv
  /\ EveryLineAccounted

=============================================================================
