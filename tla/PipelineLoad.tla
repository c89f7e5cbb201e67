----------------------------- MODULE PipelineLoad -----------------------------
(***************************************************************************)
(* The pipeline of main.cpp under a load that does not end: logs that      *)
(* always have another line.  Collector follows every event and therefore  *)
(* bounds the logs; here events are only counted, so that behaviours are   *)
(* infinite and the question can be asked what the main loop keeps doing   *)
(* while the adapters are faster than it is, and how it comes to an end.   *)
(*                                                                         *)
(* A queue operation is one step.  Only the difference between the drop    *)
(* counter and its published value matters, so `unpublished' stands for    *)
(* both.                                                                   *)
(***************************************************************************)
EXTENDS Integers, FiniteSets

CONSTANTS
  Adapters,    \* the log adapters
  Capacity,    \* cfg.queue_capacity
  WaitBound,   \* cfg.queue_full_wait_ms
  BatchSize    \* cfg.batch_size

ASSUME LoadAssumption ==
  /\ Adapters # {}
  /\ Capacity \in Nat \ {0} /\ WaitBound \in Nat /\ BatchSize \in Nat \ {0}

VARIABLES
  queued,       \* events in the queue
  busy,         \* the logs have further lines
  g_stop,       \* the flag the signal handler sets
  running,      \* the adapters whose running_ is set
  apc,          \* each adapter: between polls, in a poll, in the sink's retry loop, ended
  tries,        \* its retries
  mpc,          \* where the main thread is
  staged,       \* rows staged in the store
  unpublished   \* dropped exceeds fixmon_events_dropped_total

adapterVars == <<apc, tries>>
mainVars    == <<running, mpc, staged>>
vars == <<queued, busy, g_stop, adapterVars, mainVars, unpublished>>

Init ==
  /\ queued = 0
  /\ busy = TRUE /\ g_stop = FALSE
  /\ running = Adapters
  /\ apc = [a \in Adapters |-> "between"]
  /\ tries = [a \in Adapters |-> 0]
  /\ mpc = "start"
  /\ staged = 0
  /\ unpublished = FALSE

\* The traffic ends: every log has been read to its end.
Quiet ==
  /\ busy /\ busy' = FALSE
  /\ UNCHANGED <<queued, g_stop, adapterVars, mainVars, unpublished>>

Signal ==
  /\ ~g_stop /\ g_stop' = TRUE
  /\ UNCHANGED <<queued, busy, adapterVars, mainVars, unpublished>>

-----------------------------------------------------------------------------
(* An adapter's thread, and the sink it calls for each line *)

AdapterAt(a, l, n) ==
  /\ apc' = [apc EXCEPT ![a] = l]
  /\ tries' = [tries EXCEPT ![a] = n]
  /\ UNCHANGED <<busy, g_stop, mainVars>>

\* The loop of run(): running_ is looked at between two polls only.
PollBegins(a) ==
  /\ apc[a] = "between"
  /\ AdapterAt(a, IF a \in running THEN "poll" ELSE "ended", 0)
  /\ UNCHANGED <<queued, unpublished>>

\* The poll has read to the end of the log.
PollEnds(a) ==
  /\ apc[a] = "poll"
  /\ AdapterAt(a, "between", 0)
  /\ UNCHANGED <<queued, unpublished>>

HasEvent(a) == apc[a] = "wait" \/ (apc[a] = "poll" /\ busy)

Push(a) ==
  /\ HasEvent(a) /\ queued < Capacity
  /\ queued' = queued + 1
  /\ AdapterAt(a, "poll", 0)
  /\ UNCHANGED unpublished

\* try_push refuses: sleep and retry.
Retry(a) ==
  /\ HasEvent(a) /\ queued = Capacity
  /\ ~g_stop /\ tries[a] < WaitBound
  /\ AdapterAt(a, "wait", tries[a] + 1)
  /\ UNCHANGED <<queued, unpublished>>

\* Mutant of GiveUp: only a signal ends the retries.
GiveUp_NoBound(a) ==
  /\ HasEvent(a) /\ queued = Capacity
  /\ g_stop
  /\ AdapterAt(a, "poll", 0)
  /\ unpublished' = TRUE
  /\ UNCHANGED queued

\* The bound is reached, or the collector is to stop: drop the event, count it.
GiveUp(a) ==
  /\ HasEvent(a) /\ queued = Capacity
  /\ g_stop \/ tries[a] = WaitBound
  /\ AdapterAt(a, "poll", 0)
  /\ unpublished' = TRUE
  /\ UNCHANGED queued

InSink(a) == Push(a) \/ Retry(a) \/ GiveUp(a)

-----------------------------------------------------------------------------
(* The main thread *)

At(from, to) == mpc = from /\ mpc' = to

HttpStart ==
  /\ At("start", "loop") \/ At("start", "abort")
  /\ UNCHANGED <<queued, busy, g_stop, adapterVars, running, staged, unpublished>>

LoopTop ==
  /\ mpc = "loop"
  /\ mpc' = IF g_stop THEN "stop" ELSE "pop"
  /\ UNCHANGED <<queued, busy, g_stop, adapterVars, running, staged, unpublished>>

\* The inner loop, and the one of the final drain.
Pop ==
  /\ mpc \in {"pop", "drain"}
  /\ \/ /\ queued > 0 /\ queued' = queued - 1
        /\ mpc' = IF mpc = "pop" THEN "apply" ELSE "drain_apply"
     \/ /\ queued = 0 /\ UNCHANGED queued
        /\ mpc' = IF mpc = "pop" THEN "timers" ELSE "final"
  /\ UNCHANGED <<busy, g_stop, adapterVars, running, staged, unpublished>>

\* Mutant of Apply: a full batch waits for the timer.
Apply_NoFlush ==
  /\ At("apply", "pop") \/ At("drain_apply", "drain")
  /\ staged' = IF staged < BatchSize THEN staged + 1 ELSE staged
  /\ UNCHANGED <<queued, busy, g_stop, adapterVars, running, unpublished>>

\* apply, update_metrics and stage.  In the loop a full batch is flushed at
\* once; the drain stages on (any number beyond the batch size is one case).
Apply ==
  /\ \/ /\ At("apply", "pop")
        /\ staged' = IF staged + 1 >= BatchSize THEN 0 ELSE staged + 1
     \/ /\ At("drain_apply", "drain")
        /\ staged' = IF staged < BatchSize THEN staged + 1 ELSE staged
  /\ UNCHANGED <<queued, busy, g_stop, adapterVars, running, unpublished>>

\* Mutant of FlushTimer: dropped is not among the mirrored counters.
FlushTimer_NoMirror ==
  /\ At("timers", "loop")
  /\ staged' = 0
  /\ UNCHANGED <<queued, busy, g_stop, adapterVars, running, unpublished>>

\* batch_flush_ms have passed: flush, staleness, gauges, mirrored counters.
FlushTimer ==
  /\ At("timers", "loop")
  /\ staged' = 0 /\ unpublished' = FALSE
  /\ UNCHANGED <<queued, busy, g_stop, adapterVars, running>>

NoTimer ==
  /\ At("timers", "loop")
  /\ UNCHANGED <<queued, busy, g_stop, adapterVars, running, staged, unpublished>>

\* stop() of one adapter after the other: clear its flag, join its thread.  The
\* destructors do it after a failed start.
StopAdapter(a) ==
  /\ mpc \in {"stop", "abort"}
  /\ \A b \in Adapters \ running : apc[b] = "ended"
  /\ a \in running /\ running' = running \ {a}
  /\ UNCHANGED <<queued, busy, g_stop, adapterVars, mpc, staged, unpublished>>

Stopped ==
  /\ At("stop", "drain") \/ At("abort", "failed")
  /\ running = {} /\ \A a \in Adapters : apc[a] = "ended"
  /\ UNCHANGED <<queued, busy, g_stop, adapterVars, running, staged, unpublished>>

\* The last flush and the last mirrors; the server and the store are closed.
Finish ==
  /\ At("final", "done")
  /\ staged' = 0 /\ unpublished' = FALSE
  /\ UNCHANGED <<queued, busy, g_stop, adapterVars, running>>

MainStep ==
  \/ HttpStart \/ LoopTop \/ Pop \/ Apply \/ FlushTimer \/ NoTimer
  \/ (\E a \in Adapters : StopAdapter(a)) \/ Stopped \/ Finish

Terminated == mpc \in {"done", "failed"} /\ UNCHANGED vars

Next ==
  \/ \E a \in Adapters : PollBegins(a) \/ PollEnds(a) \/ InSink(a)
  \/ MainStep
  \/ Quiet \/ Signal
  \/ Terminated

Spec == Init /\ [][Next]_vars

(***************************************************************************)
(* Every thread is scheduled again and again; a poll ends when there is    *)
(* nothing left to read, which only the end of the traffic is sure to      *)
(* bring about; and a main loop that gets to its timers often enough finds *)
(* the flush timer elapsed.                                                *)
(***************************************************************************)
Fairness ==
  /\ \A a \in Adapters : WF_vars(PollBegins(a)) /\ WF_vars(InSink(a))
  /\ \A a \in Adapters : WF_vars(PollEnds(a) /\ ~busy)
  /\ WF_vars(MainStep)
  /\ SF_vars(FlushTimer)

FairSpec == Spec /\ Fairness

-----------------------------------------------------------------------------
(* Properties *)

(***************************************************************************)
(* Once the load has ended nothing is left halfway: what the queue took is *)
(* applied and committed and every drop is published, at the latest by the *)
(* shutdown, unless the start failed.  While the load lasts a drop may     *)
(* stay unpublished: the inner loop may never be left.                     *)
(***************************************************************************)
SettlesAtRest ==
  <>~busy => <>[](mpc = "failed" \/ (queued = 0 /\ staged = 0 /\ ~unpublished))

(***************************************************************************)
(* Rows do not wait in memory for ever, however long the inner loop stays  *)
(* away from the flush timer: a full batch is flushed inside it.  (After a *)
(* signal they wait for the adapters to be joined, and so for the load to  *)
(* end: a poll that always finds another line is not interrupted.)         *)
(***************************************************************************)
RowsCommitted == ([]~g_stop \/ <>~busy) => []<>(staged = 0)

(***************************************************************************)
(* A signal, and a failed start, end the collector once the load has       *)
(* ended: no adapter waits for ever for room in a queue that nobody drains *)
(* any more ("shutdown would deadlock"), and each is joined.               *)
(***************************************************************************)
CollectorEnds ==
  <>~busy =>
    /\ g_stop ~> mpc \in {"done", "failed"}
    /\ mpc = "abort" ~> mpc = "failed"

=============================================================================
