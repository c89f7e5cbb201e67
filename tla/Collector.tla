------------------------------ MODULE Collector ------------------------------
(***************************************************************************)
(* The collector process of main.cpp: one thread per log (adapters.hpp)    *)
(* that reads lines and pushes an event for each, the bounded queue, and   *)
(* the main thread that pops, applies and stages the events and commits    *)
(* them in batches; start, signal, shutdown and a failed start included.   *)
(*                                                                         *)
(* The queue is the abstract one (BoundedFifo, which MpmcQueue implements) *)
(* with its operations in several steps.  An event is the pair of its log  *)
(* and its line number there.  What apply and the store do with an event   *)
(* is modelled elsewhere; here it is the order and the fate of the events. *)
(***************************************************************************)
EXTENDS Integers, Sequences, FiniteSets, Functions

CONSTANTS
  Adapters,     \* the log adapters, each with a thread
  MessageLogs,  \* those that read a message log (a line may be noise there)
  Main,         \* the main thread
  NoEvent,      \* the content of `ev' before the first pop
  Capacity,     \* cfg.queue_capacity
  WaitBound,    \* cfg.queue_full_wait_ms: retries of one push
  BatchSize,    \* cfg.batch_size
  MaxLines,     \* bound: lines the engine writes to one log
  MaxErrors     \* bound: failures of the database

ASSUME CollectorAssumption ==
  /\ MessageLogs \subseteq Adapters /\ Main \notin Adapters
  /\ IsFiniteSet(Adapters)
  /\ Capacity \in Nat /\ Capacity >= 2
  /\ WaitBound \in Nat /\ BatchSize \in Nat /\ MaxLines \in Nat /\ MaxErrors \in Nat

Events == Adapters \X (1 .. MaxLines)

VARIABLES
  items, taken, slot, ret, out,   \* the queue (BoundedFifo)
  g_stop,        \* the flag the signal handler sets
  running,       \* the adapters' running_ flags
  apc,           \* where each adapter thread is
  disk,          \* complete lines in each log
  upto,          \* how far the current read of the log went
  lines_read, parse_errors,       \* the adapters' counters
  tries,         \* retries of the push in progress (i of the sink's loop)
  queue_waits, dropped,           \* counters of the sink
  mpc,           \* where the main thread is
  applied,       \* history: the events in the order they were applied
  staged,        \* EventStore::staged_
  rows,          \* history: the events committed
  write_errors,  \* EventStore::write_errors_
  mirrored       \* fixmon_events_dropped_total as last published

queueVars   == <<items, taken, slot, ret, out>>
adapterVars == <<apc, disk, upto, lines_read, parse_errors, tries, queue_waits, dropped>>
storeVars   == <<staged, rows, write_errors>>
vars == <<queueVars, g_stop, running, adapterVars, mpc, applied, storeVars, mirrored>>

Queue == INSTANCE BoundedFifo WITH
  Producers <- Adapters,
  Consumers <- {Main},
  Values    <- Events,
  NoValue   <- NoEvent

\* "off" is before start(), "exited" is a thread that returned from run().
AdapterPc == {"off", "check", "poll", "line", "push", "pushed", "wait", "exited"}

\* The main thread: starting the adapters, the pipeline loop, the shutdown
\* sequence; and the return after http.start failed, which runs destructors.
MainPc == {"start", "loop", "pop", "apply", "flush", "timers", "stop", "join",
           "drain", "drain_apply", "final", "done",
           "abort", "abort_join", "failed"}

\* A batch size of 0 makes batches of one event, as does 1.
Batch == IF BatchSize = 0 THEN 1 ELSE BatchSize

AdapterTypeOK ==
  /\ running \in [Adapters -> BOOLEAN]
  /\ apc \in [Adapters -> AdapterPc]
  /\ disk \in [Adapters -> 0 .. MaxLines]
  /\ upto \in [Adapters -> 0 .. MaxLines]
  /\ lines_read \in [Adapters -> 0 .. MaxLines]
  /\ parse_errors \in [Adapters -> 0 .. MaxLines]
  /\ tries \in [Adapters -> 0 .. WaitBound]
  /\ queue_waits \in Nat
  /\ dropped \in Nat

\* The rows not committed yet are bounded: less than a batch, and what was left
\* in the queue at the shutdown, whose drain does not flush.
MainTypeOK ==
  /\ g_stop \in BOOLEAN
  /\ mpc \in MainPc
  /\ applied \in Seq(Events)
  /\ staged \in Seq(Events) /\ Len(staged) < Batch + Capacity
  /\ rows \in Seq(Events)
  /\ write_errors \in Nat
  /\ mirrored \in Nat

TypeOK == Queue!TypeOK /\ AdapterTypeOK /\ MainTypeOK

Init ==
  /\ Queue!Init
  /\ g_stop = FALSE
  /\ running = [a \in Adapters |-> FALSE]
  /\ apc = [a \in Adapters |-> "off"]
  /\ disk = [a \in Adapters |-> 0]
  /\ upto = [a \in Adapters |-> 0]
  /\ lines_read = [a \in Adapters |-> 0]
  /\ parse_errors = [a \in Adapters |-> 0]
  /\ tries = [a \in Adapters |-> 0]
  /\ queue_waits = 0
  /\ dropped = 0
  /\ mpc = "start"
  /\ applied = << >>
  /\ staged = << >>
  /\ rows = << >>
  /\ write_errors = 0
  /\ mirrored = 0

-----------------------------------------------------------------------------
(* The environment: the engine writes, the operator stops the collector. *)

WriteLine(a) ==
  /\ disk[a] < MaxLines
  /\ disk' = [disk EXCEPT ![a] = @ + 1]
  /\ UNCHANGED <<queueVars, g_stop, running, apc, upto, lines_read, parse_errors,
                 tries, queue_waits, dropped, mpc, applied, storeVars, mirrored>>

Signal ==
  /\ ~g_stop
  /\ g_stop' = TRUE
  /\ UNCHANGED <<queueVars, running, adapterVars, mpc, applied, storeVars, mirrored>>

-----------------------------------------------------------------------------
(* An adapter thread: run(), the callback of TailReader::poll, the sink. *)

AdapterGoto(a, label) == apc' = [apc EXCEPT ![a] = label]

otherThanAdapter == <<g_stop, running, mpc, applied, storeVars, mirrored>>

\* `while (running_)' is read once per poll, not per line.
CheckRunning(a) ==
  /\ apc[a] = "check"
  /\ AdapterGoto(a, IF running[a] THEN "poll" ELSE "exited")
  /\ UNCHANGED <<queueVars, otherThanAdapter, disk, upto, lines_read, parse_errors,
                 tries, queue_waits, dropped>>

\* One read of the file; its lines are then handed out one at a time.  A read
\* that fills the buffer is followed by another one.
Read(a) ==
  /\ \/ apc[a] = "poll"
     \/ apc[a] = "line" /\ lines_read[a] = upto[a] /\ upto[a] < disk[a]
  /\ upto' = [upto EXCEPT ![a] = disk[a]]
  /\ AdapterGoto(a, "line")
  /\ UNCHANGED <<queueVars, otherThanAdapter, disk, lines_read, parse_errors,
                 tries, queue_waits, dropped>>

PollReturns(a) ==
  /\ apc[a] = "line"
  /\ lines_read[a] = upto[a]
  /\ AdapterGoto(a, "check")
  /\ UNCHANGED <<queueVars, otherThanAdapter, disk, upto, lines_read, parse_errors,
                 tries, queue_waits, dropped>>

\* The line becomes an event, which goes to the sink: the first try_push.  The
\* event log adapter accepts every line and counts those no rule matches.
LineParsed(a) ==
  /\ apc[a] = "line"
  /\ lines_read[a] < upto[a]
  /\ lines_read' = [lines_read EXCEPT ![a] = @ + 1]
  /\ \/ UNCHANGED parse_errors
     \/ a \notin MessageLogs /\ parse_errors' = [parse_errors EXCEPT ![a] = @ + 1]
  /\ tries' = [tries EXCEPT ![a] = 0]
  /\ AdapterGoto(a, "push")
  /\ Queue!Call(a)
  /\ UNCHANGED <<otherThanAdapter, disk, upto, queue_waits, dropped>>

\* MessageLogAdapter::parse_line refuses the line.
LineRefused(a) ==
  /\ apc[a] = "line"
  /\ a \in MessageLogs
  /\ lines_read[a] < upto[a]
  /\ lines_read' = [lines_read EXCEPT ![a] = @ + 1]
  /\ parse_errors' = [parse_errors EXCEPT ![a] = @ + 1]
  /\ UNCHANGED <<queueVars, otherThanAdapter, apc, disk, upto, tries, queue_waits, dropped>>

\* Mutant of PushAccepted: the sink does not return after a successful retry.
PushAccepted_NoReturn(a) ==
  /\ apc[a] \in {"push", "pushed"}
  /\ IF slot[a] = 0
     THEN Queue!Accept(a, <<a, lines_read[a]>>) /\ AdapterGoto(a, "pushed")
     ELSE Queue!Return(a) /\ AdapterGoto(a, IF tries[a] < WaitBound THEN "wait" ELSE "line")
  /\ UNCHANGED <<otherThanAdapter, disk, upto, lines_read, parse_errors,
                 tries, queue_waits, dropped>>

PushAccepted(a) ==
  /\ apc[a] = "push"
  /\ Queue!Accept(a, <<a, lines_read[a]>>)
  /\ AdapterGoto(a, "pushed")
  /\ UNCHANGED <<otherThanAdapter, disk, upto, lines_read, parse_errors,
                 tries, queue_waits, dropped>>

PushReturns(a) ==
  /\ apc[a] = "pushed"
  /\ Queue!Return(a)
  /\ AdapterGoto(a, "line")
  /\ UNCHANGED <<otherThanAdapter, disk, upto, lines_read, parse_errors,
                 tries, queue_waits, dropped>>

\* Mutant of PushRefused: a line that is given up is not counted.
PushRefused_NotCounted(a) ==
  /\ apc[a] = "push"
  /\ Queue!Refuse(a)
  /\ queue_waits' = IF tries[a] = 0 THEN queue_waits + 1 ELSE queue_waits
  /\ AdapterGoto(a, IF tries[a] < WaitBound THEN "wait" ELSE "line")
  /\ UNCHANGED <<otherThanAdapter, disk, upto, lines_read, parse_errors, tries, dropped>>

\* The first refusal counts a wait.  The retries end after WaitBound of them.
PushRefused(a) ==
  /\ apc[a] = "push"
  /\ Queue!Refuse(a)
  /\ queue_waits' = IF tries[a] = 0 THEN queue_waits + 1 ELSE queue_waits
  /\ \/ tries[a] < WaitBound /\ AdapterGoto(a, "wait") /\ UNCHANGED dropped
     \/ tries[a] = WaitBound /\ AdapterGoto(a, "line") /\ dropped' = dropped + 1
  /\ UNCHANGED <<otherThanAdapter, disk, upto, lines_read, parse_errors, tries>>

\* Sleep a millisecond and try again, unless the collector is stopping.
Retry(a) ==
  /\ apc[a] = "wait"
  /\ ~g_stop
  /\ tries' = [tries EXCEPT ![a] = @ + 1]
  /\ AdapterGoto(a, "push")
  /\ Queue!Call(a)
  /\ UNCHANGED <<otherThanAdapter, disk, upto, lines_read, parse_errors,
                 queue_waits, dropped>>

\* Mutant of GiveUp: no last attempt after the sleep.
GiveUp_AfterSleep(a) ==
  /\ apc[a] = "wait"
  /\ dropped' = dropped + 1
  /\ AdapterGoto(a, "line")
  /\ UNCHANGED <<queueVars, otherThanAdapter, disk, upto, lines_read, parse_errors,
                 tries, queue_waits>>

GiveUp(a) ==
  /\ apc[a] = "wait"
  /\ g_stop
  /\ dropped' = dropped + 1
  /\ AdapterGoto(a, "line")
  /\ UNCHANGED <<queueVars, otherThanAdapter, disk, upto, lines_read, parse_errors,
                 tries, queue_waits>>

AdapterStep(a) ==
  \/ CheckRunning(a) \/ Read(a) \/ PollReturns(a) \/ LineParsed(a) \/ LineRefused(a)
  \/ PushAccepted(a) \/ PushReturns(a) \/ PushRefused(a) \/ Retry(a) \/ GiveUp(a)

-----------------------------------------------------------------------------
(* The main thread: start. *)

MainGoto(label) == mpc' = label

\* Every adapter is started before the HTTP server is.
StartAdapter(a) ==
  /\ mpc = "start"
  /\ apc[a] = "off"
  /\ running' = [running EXCEPT ![a] = TRUE]
  /\ AdapterGoto(a, "check")
  /\ UNCHANGED <<queueVars, g_stop, disk, upto, lines_read, parse_errors, tries,
                 queue_waits, dropped, mpc, applied, storeVars, mirrored>>

AllStarted == \A a \in Adapters : apc[a] # "off"

HttpStarts ==
  /\ mpc = "start" /\ AllStarted
  /\ MainGoto("loop")
  /\ UNCHANGED <<queueVars, g_stop, running, adapterVars, applied, storeVars, mirrored>>

\* http.start failed: the store is closed and main returns.
HttpFails ==
  /\ mpc = "start" /\ AllStarted
  /\ MainGoto("abort")
  /\ UNCHANGED <<queueVars, g_stop, running, adapterVars, applied, storeVars, mirrored>>

-----------------------------------------------------------------------------
(* The main thread: the pipeline loop, and the final drain. *)

StoreStep == UNCHANGED <<g_stop, running, adapterVars>>

\* The place of position i among the positions in K.
Rank(K, i) == Cardinality({j \in K : j <= i})

\* The rows of the staged events outside `failed', in their order.
RowsWithout(failed) ==
  LET kept == {i \in 1 .. Len(staged) : i \notin failed}
  IN  [k \in 1 .. Cardinality(kept) |-> staged[CHOOSE i \in kept : Rank(kept, i) = k]]

\* EventStore::flush: some inserts may fail, each counted; or BEGIN fails, or
\* COMMIT after some inserts did, counted once more, and the whole batch is
\* gone.  staged_ is cleared anyway.
Flush ==
  /\ staged' = << >>
  /\ \E failed \in SUBSET (1 .. Len(staged)) :
       \/ /\ rows' = rows \o RowsWithout(failed)
          /\ write_errors' = write_errors + Cardinality(failed)
       \/ /\ staged # << >>
          /\ write_errors' = write_errors + Cardinality(failed) + 1
          /\ UNCHANGED rows
  /\ write_errors' <= MaxErrors

LoopTop ==
  /\ mpc = "loop"
  /\ \/ g_stop /\ MainGoto("stop") /\ UNCHANGED queueVars
     \/ ~g_stop /\ MainGoto("pop") /\ Queue!Call(Main)
  /\ UNCHANGED <<g_stop, running, adapterVars, applied, storeVars, mirrored>>

\* try_pop in progress, called from the loop or from the final drain.
PopTakes ==
  /\ mpc \in {"pop", "drain"}
  /\ Queue!Take(Main)
  /\ UNCHANGED <<g_stop, running, adapterVars, mpc, applied, storeVars, mirrored>>

PopReceives ==
  /\ mpc \in {"pop", "drain"}
  /\ Queue!Receive(Main)
  /\ UNCHANGED <<g_stop, running, adapterVars, mpc, applied, storeVars, mirrored>>

PopReturns ==
  /\ mpc \in {"pop", "drain"}
  /\ Queue!Return(Main)
  /\ MainGoto(IF mpc = "pop" THEN "apply" ELSE "drain_apply")
  /\ UNCHANGED <<g_stop, running, adapterVars, applied, storeVars, mirrored>>

PopFails ==
  /\ mpc \in {"pop", "drain"}
  /\ Queue!Miss(Main)
  /\ MainGoto(IF mpc = "pop" THEN "timers" ELSE "final")
  /\ UNCHANGED <<g_stop, running, adapterVars, applied, storeVars, mirrored>>

\* Mutant of Apply: the test for a full batch is missing.
Apply_NoBatch ==
  /\ mpc \in {"apply", "drain_apply"}
  /\ applied' = Append(applied, out[Main])
  /\ staged' = Append(staged, out[Main])
  /\ MainGoto(IF mpc = "apply" THEN "pop" ELSE "drain")
  /\ Queue!Call(Main)
  /\ UNCHANGED <<g_stop, running, adapterVars, rows, write_errors, mirrored>>

\* sessions.apply, update_metrics and store.stage, then try_pop again; in the
\* loop a full batch is flushed first.  The loop does not look at g_stop here.
Apply ==
  /\ mpc \in {"apply", "drain_apply"}
  /\ applied' = Append(applied, out[Main])
  /\ staged' = Append(staged, out[Main])
  /\ \/ /\ mpc = "apply" /\ Len(staged') >= BatchSize
        /\ MainGoto("flush")
        /\ UNCHANGED queueVars
     \/ /\ mpc = "apply" => Len(staged') < BatchSize
        /\ MainGoto(IF mpc = "apply" THEN "pop" ELSE "drain")
        /\ Queue!Call(Main)
  /\ UNCHANGED <<g_stop, running, adapterVars, rows, write_errors, mirrored>>

FlushBatch ==
  /\ mpc = "flush"
  /\ Flush
  /\ MainGoto("pop")
  /\ Queue!Call(Main)
  /\ UNCHANGED <<g_stop, running, adapterVars, applied, mirrored>>

\* The flush timer has run out: flush and publish the counters.
FlushTimer ==
  /\ mpc = "timers"
  /\ Flush
  /\ mirrored' = dropped
  /\ MainGoto("loop")
  /\ UNCHANGED <<queueVars, g_stop, running, adapterVars, applied>>

\* The retention timer alone has run out: the purge flushes what is staged, and
\* publishes nothing.
PurgeTimer ==
  /\ mpc = "timers"
  /\ Flush
  /\ MainGoto("loop")
  /\ UNCHANGED <<queueVars, g_stop, running, adapterVars, applied, mirrored>>

NoTimer ==
  /\ mpc = "timers"
  /\ MainGoto("loop")
  /\ UNCHANGED <<queueVars, g_stop, running, adapterVars, applied, storeVars, mirrored>>

-----------------------------------------------------------------------------
(* The main thread: shutdown, and the end after a failed start. *)

\* stop() of one adapter: clear its flag, then join its thread.
StopAdapter(a) ==
  /\ mpc \in {"stop", "abort"}
  /\ running[a]
  /\ running' = [running EXCEPT ![a] = FALSE]
  /\ MainGoto(IF mpc = "stop" THEN "join" ELSE "abort_join")
  /\ UNCHANGED <<queueVars, g_stop, adapterVars, applied, storeVars, mirrored>>

\* Mutant of Joined: stop() returns without joining the thread.
Joined_NoWait ==
  /\ mpc \in {"join", "abort_join"}
  /\ MainGoto(IF mpc = "join" THEN "stop" ELSE "abort")
  /\ UNCHANGED <<queueVars, g_stop, running, adapterVars, applied, storeVars, mirrored>>

Joined ==
  /\ mpc \in {"join", "abort_join"}
  /\ \A a \in Adapters : ~running[a] => apc[a] = "exited"
  /\ MainGoto(IF mpc = "join" THEN "stop" ELSE "abort")
  /\ UNCHANGED <<queueVars, g_stop, running, adapterVars, applied, storeVars, mirrored>>

NoneRunning == \A a \in Adapters : ~running[a]

StartDrain ==
  /\ mpc = "stop" /\ NoneRunning
  /\ MainGoto("drain")
  /\ Queue!Call(Main)
  /\ UNCHANGED <<g_stop, running, adapterVars, applied, storeVars, mirrored>>

\* The last flush and the last mirrors; http.stop and store.close follow.
Finish ==
  /\ mpc = "final"
  /\ Flush
  /\ mirrored' = dropped
  /\ MainGoto("done")
  /\ UNCHANGED <<queueVars, g_stop, running, adapterVars, applied>>

\* The queue is destroyed with what is still in it.
Fail ==
  /\ mpc = "abort" /\ NoneRunning
  /\ MainGoto("failed")
  /\ UNCHANGED <<queueVars, g_stop, running, adapterVars, applied, storeVars, mirrored>>

MainStep ==
  \/ \E a \in Adapters : StartAdapter(a) \/ StopAdapter(a)
  \/ HttpStarts \/ HttpFails
  \/ LoopTop \/ PopTakes \/ PopReceives \/ PopReturns \/ PopFails
  \/ Apply \/ FlushBatch \/ FlushTimer \/ PurgeTimer \/ NoTimer
  \/ Joined \/ StartDrain \/ Finish \/ Fail

Terminated == mpc \in {"done", "failed"} /\ UNCHANGED vars

Next ==
  \/ \E a \in Adapters : AdapterStep(a) \/ WriteLine(a)
  \/ MainStep
  \/ Signal
  \/ Terminated

Spec == Init /\ [][Next]_vars

-----------------------------------------------------------------------------
(* Properties *)

\* Adapters that read a line whose event is neither accepted nor dropped.
InHand == {a \in Adapters : apc[a] \in {"push", "wait"}}

(***************************************************************************)
(* Every line read is accounted for: it was refused by the parser, dropped *)
(* and counted, accepted by the queue, or is in the hand of its adapter.   *)
(* `dropped' is one counter for all threads, over retries, signals and the *)
(* shutdown ("past the bound we drop and count").                          *)
(***************************************************************************)
EveryLineAccounted ==
  SumFunctionOnSet(lines_read, Adapters) =
    SumFunctionOnSet(parse_errors, MessageLogs) + dropped + Len(items) + Cardinality(InHand)

(***************************************************************************)
(* The events of one log are applied in the order of its lines, each at    *)
(* most once, whatever was retried or dropped on the way: the sequence     *)
(* numbers apply compares are those of consecutive lines.                  *)
(***************************************************************************)
LogOrder ==
  \A i, j \in 1 .. Len(applied) :
    i < j /\ applied[i][1] = applied[j][1] => applied[i][2] < applied[j][2]

(***************************************************************************)
(* A shutdown loses nothing in silence: every event the queue accepted is  *)
(* in the database, in the order it was applied, unless the database       *)
(* reported an error, and the published drop counter is final.  No adapter *)
(* pushes after the final drain or drops after the last mirror.            *)
(***************************************************************************)
ShutdownLosesNothing ==
  mpc = "done" => /\ rows = items \/ write_errors > 0
                  /\ mirrored = dropped

(***************************************************************************)
(* Without a shutdown an event is dropped only when the pipeline is behind *)
(* by the whole queue: Capacity accepted events are not applied yet.       *)
(***************************************************************************)
DropMeansBehind ==
  [][dropped' > dropped /\ ~g_stop => Len(items) - Len(applied) >= Capacity]_vars

=============================================================================
