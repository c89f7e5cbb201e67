# Verification of fix_monitor and fixmon-chat

TLA+ specifications of the FIX log collector in `src/fix_monitor` and of the
chat host in `src/fixmon-chat`, the TLC configurations that check them on small
instances, and proofs for TLAPS.

Modules are named after the parts of the program, variables and actions after
the members and functions they stand for. `PROJECT.json` maps every definition
to its source lines and lists the runs, the mutants of the code that each
property catches, the hazards and the findings.

## 1. The system

`fix_monitor` watches FIX sessions of a trading engine by reading two log files
per session: the *message log* (raw FIX messages of both directions) and the
*event log* (the engine's prose). It keeps a state per session, exposes metrics
and that state over HTTP, and stores every event in SQLite.

    engine --writes--> message log --TailReader--> MessageLogAdapter thread --\
    engine --writes--> event log   --TailReader--> EventLogAdapter thread   --+-> sink
                                                                              |
              MpmcQueue (bounded, lock-free) <--try_push, retry, or drop -----/
                   |
              main thread: try_pop -> SessionRegistry::apply -> update_metrics
                   |                                         -> EventStore::stage
                   |--- batch full: EventStore::flush (one transaction)
                   |--- queue empty and timer: flush, staleness, gauges, mirrored counters,
                   |                           snapshots, purge
                   \--- g_stop: stop and join adapters, drain, flush, stop HTTP, close

              HttpServer thread: /metrics (MetricRegistry), /sessions (SessionRegistry)

| component | state | operations | what makes it correct |
|---|---|---|---|
| Event queue (`mpmc_queue.hpp`) | cells with `seq` and `data`, `enqueue_pos_`, `dequeue_pos_` | `try_push`, `try_pop` from any number of threads | no two threads on one cell; elements come out once and in the order of their tickets; "full" and "empty" are honest |
| Pipeline, sink, shutdown (`main.cpp`) | `g_stop`, `dropped`, `queue_waits`, timers | sink with bounded back-pressure, pop loop, batch flush, timer branch, shutdown, failed start | every line is accounted for; shutdown ends and loses nothing it accepted; drops are published |
| Log adapters (`*_log_adapter.cpp`) | `running_`, counters, the reused `Event` | `start`, `stop`, `run`, `parse_line` | lines of one log reach the sink in order; `stop` joins |
| Tail reader (`tail_reader.cpp`) | stream, `carry_`, `inode_`, `last_size_` | `open_stream`, `detect_rotation`, `poll` | whole lines, once, in order, across rotation |
| Session registry (`session_state.cpp`) | one record per session | `apply`, `evaluate_staleness`, `snapshot` | the record agrees with the engine once both logs are read |
| Event store (`event_store.cpp`) | `staged_`, counters, the connection's transaction | `stage`, `flush`, `write_snapshot`, `purge_before` | what is lost is counted; a purge deletes what it is asked to and nothing else, and is whole or reported |
| Metric registry (`metrics.cpp`) | families of counters and gauges, rejected and redacted counts | `counter`, `gauge`, `expose`, `series_count` | the cap on series holds under concurrent use; counters never fall |
| HTTP server (`http_server.cpp`) | listening socket, `running_` | `start`, `stop`, `run`, `handle_client` | whoever asks is answered; `stop` returns; no handler runs after it |
| Configuration (`config.cpp`, `quickfix_config.cpp`) | the resolved `AppConfig` | INI and QuickFIX files, log discovery, merging | precedence and inheritance; a session reads its own logs where it has any; no credential survives |
| Redaction (`redact.cpp`), parser (`fix_parser.cpp`) | none | `mask_fix_body`, `redact_free_text`, `parse_fix_fields` | credential tags are masked whatever the policy |
| Chat host (`fixmon-chat/app`) | conversations, audit log | chat, reset, tool calls | a tool call is never separated from its result; a conversation belongs to one user |

Where the behaviour is hard: the queue (lock-free, all orders of access); the
handshake of sink, pipeline and shutdown (waiting on a queue nobody drains,
drops racing the last publication); the tail reader (the engine rotates the file
between any two system calls); the registry (two logs with no common order); the
store (partial failures); the HTTP server (one thread for all clients, stopped by
closing the socket it sleeps on); configuration and redaction (sequential, but with
more cases than tests have). `PROJECT.json` lists these hazards one by one, each at
its line and with the properties that cover it.

## 2. Modules

| module | models | uses |
|---|---|---|
| `BoundedFifo` | what the queue promises: an abstract FIFO whose operations take effect at one moment and hold their place until they return | |
| `MpmcQueue` | `try_push` and `try_pop`, one action per access to shared memory | implements `BoundedFifo` |
| `MpmcQueueInv` | the inductive invariant of `MpmcQueue` | `MpmcQueue` |
| `MpmcQueueProofs` | theorems and proofs about `MpmcQueue` | `MpmcQueueInv` |
| `MCMpmcQueue` | symmetry for TLC | `MpmcQueueInv` |
| `Collector` | adapters, sink, pipeline loop, shutdown and failed start | `BoundedFifo` as its queue |
| `CollectorInv`, `CollectorProofs` | its inductive invariant; theorems and proofs | `Collector` |
| `PipelineLoad` | the pipeline counted instead of followed, so that the load can be endless | |
| `SessionRegistry` | `apply` and `evaluate_staleness` as operators on a session's record | |
| `SessionTracking` | an engine that writes two logs, and the registry that reads them | `SessionRegistry` |
| `SessionTrackingInv`, `SessionTrackingProofs` | its inductive invariant; theorems and proofs | `SessionTracking` |
| `TailReader` | following one path while the engine appends, rotates, removes, truncates, and the collector restarts | |
| `TailReaderInv`, `TailReaderProofs` | its inductive invariant; theorems and proofs | `TailReader` |
| `EventStore` | batches, snapshots and purges on one SQLite connection, statement by statement | |
| `EventStoreInv`, `EventStoreProofs` | its inductive invariant; theorems and proofs | `EventStore` |
| `ChatHost` | concurrent requests to the chat host, the stored conversation, the audit log | |
| `ChatHostInv`, `ChatHostProofs` | its inductive invariant; theorems and proofs | `ChatHost` |
| `MCChatHost` | who sent the requests, and symmetry, for TLC | `ChatHostInv` |
| `MetricRegistry` | get-or-create under the cap, updates, scrapes cell by cell | |
| `HttpServer` | the server's thread, its owner, its clients | |
| `Exposition` | `/metrics` as Prometheus sees it: writers, registry, server, clients | `MetricRegistry`, `HttpServer` |
| `ExpositionInv`, `ExpositionProofs` | its inductive invariant; theorems and proofs | `Exposition` |
| `Redaction` | `mask_fix_body` and `redact_free_text` | |
| `EngineSettings` | the engine's configuration file, its sessions and their log files | |
| `CollectorConfig` | `next_pow2`, the collector's own file, merging it with the engine's | `EngineSettings` |
| `MCFunctions` | feeds the functions every input up to a length | `CollectorConfig`, `Redaction` |
| `FunctionProofs` | theorems and proofs about the functions, for inputs of every length | `MCFunctions` |

### 2.1 The queue

A push is `PushBegin` (load `enqueue_pos_`), `PushLoadSeq` (load `seq` and
compare), `PushClaim` or `PushClaimFails` (the weak CAS, which may fail for no
reason), `PushReload`, `PushWrite` (`cell->data = std::move(value)`) and
`PushPublish` (the release store); a pop has the same shape. Steps of different
threads interleave freely. This is sequential consistency at the level of
single accesses: the code's only plain data, `cell->data`, is ordered by the
acquire load and release store of `seq`, and the relaxed loads of the positions
may be stale, which the model has too, because a loaded position may be used
any time later. Positions are natural numbers; the code's 64 bit counters would
have to wrap to differ.

`BoundedFifo` is the specification a caller may rely on. It is weaker than a
textbook bounded buffer in one way the code forces: a push may be refused
although fewer than `Capacity` elements are inside, while a slow pop still holds
the one cell that is needed, and a pop may report "empty" although an element
is inside, while its push has not finished. The refinement maps an operation's
place in the sequence to `pos + 1` between its CAS and its return.

### 2.2 The collector

`Collector` has a process per adapter and the main thread. An adapter reads the
log to its end (`Read`), turns each line into an event (`LineParsed`) or refuses
it (`LineRefused`; the event log adapter refuses none, it counts the lines no
rule matches and pushes them all the same), and runs the sink: `PushAccepted`,
`PushRefused`, `Retry` after the sleep, `GiveUp` when `g_stop` is set. The order
of checks is that of the code: one attempt, then up to `WaitBound` times the
check of `g_stop`, the sleep, and another attempt. The queue is the abstract
one with its operations in several steps, so that an element can be claimed but
not yet visible, and "empty" and "full" can be answered early.

The main thread starts the adapters, then the HTTP server, which may fail
(`HttpFails`: `main` returns and the adapters' destructors stop and join them);
then loops: `LoopTop`, pop, `Apply`, `FlushBatch` when a batch is full, and the
timer branch (`FlushTimer`, `PurgeTimer`, `NoTimer`) only when a pop found the
queue empty. After a signal it stops and joins the adapters one by one, drains,
flushes and mirrors the counters. `Flush` may lose any of its rows to failing
inserts or all of them to a failing BEGIN or COMMIT, and clears `staged` in every
case. A configured batch size of 0 is read as 1 (`config.cpp:269`), which is `Batch`.

An event is the pair of its log and line number; what `apply` makes of it is in
`SessionTracking`. Not in the model: the writing of snapshots, and sleeping.

`PipelineLoad` asks what a bounded log cannot: what the collector does when there
is always another line, and how it comes to an end. Events are only counted, a
queue operation is one step, and the counter `dropped` and its mirror are reduced to
whether they differ. An adapter looks at `running_` between two polls only, and a poll
ends when there is nothing left to read. All liveness of the pipeline, its shutdown and
its failed start is checked here.

### 2.3 Sessions

`SessionRegistry` has no state: `Apply(s, ev)` is the record after the event,
`GapSize(s, ev)` what `apply` returns, `Evaluated(s, now)` the staleness check
for one session. The registry's calls that write come from the pipeline thread
only and no call touches a record of another session, so one record is enough.

`SessionTracking` adds an engine that writes what `tools/gen_logs.py` writes
(logon, reset of sequence numbers at logon, refused logon, traffic, gap with
ResendRequest, disconnect with or without a logout) plus resent messages. An
action appends to both logs, each log is read in its order, and nothing orders
one log against the other: that is what `Collector!LogOrder` and the two
independent pollers give. `kept_up` remembers whether the collector had applied
every line each time the engine wrote.

### 2.4 The tail reader

A line reaches the file in two pieces, the second with the newline. `stat` and
`open` of the path are separate steps, since the engine may rotate the file
between any two. `open_stream` is `OpenStream`, `OpenId`, `OpenSize`, whoever
called it; `detect_rotation` is `Exists`, `GetId`, `GetSize`; the reading loop
is `Read`. `truncated` remembers that a log was truncated in place: what can be
promised then is less.

`from_beginning` has either value. `Restart` ends the collector at any moment and
starts it again; nothing the reader knows outlives it. `skipped` and `cut` remember where
a stream that was opened at the end started, and which line it started inside. A reader
that starts from the beginning delivers everything again, so what it delivered before
is forgotten.

### 2.5 The event store

`flush` is `FlushBegin`, an `Insert` per row, `FlushCommit` and `FlushRollback`;
`purge_before` is a flush, then `PurgeBegin`, two `Delete`s and `PurgeCommit`. All
of them run on the pipeline thread, so no two overlap, but they share one
connection: `disk` is what is committed, `view` what the connection sees, `txn`
whether it is inside a transaction. A statement that fails of itself (full disk, I/O
error, busy) may leave the transaction open or have rolled it back; BEGIN inside a
transaction and COMMIT outside of one fail as well, and a statement outside of one
commits itself. What the code checks, it checks in the model: `flush` looks at every
result, `purge_before` ignores those of BEGIN and COMMIT. A crash ends the process
between any two statements.

A row is stored with the time of its log line (`event_store.cpp:171`), so rows come in any order of age, old ones
after a purge too (a log that is replayed or lags), and the cutoff of a purge is any time. `Rows` are therefore pairs of a
number and a time, and `Arrives` lets the next one have any time.

### 2.6 The chat host

Each request runs in a thread of its own, from `get_or_create` to its answer or its
exception. `RequestPc` follows the handler: audit line, append, provider call,
append of the calls, then for each call the tool, its audit line and its result,
and `save`. A conversation is an object whose `messages` refers to a list; `save`
replaces the list while other requests may hold the old one, and stores the object
again, also after a reset has removed it. The one lock is that of
`ConversationStore`: `get_or_create` and `reset` are atomic, `save` is two steps
with the lock held. Appends take no lock. `Fails` is an exception of the audit log,
the database or the provider. The provider's choices are `asked`, how many tools a
completion calls.

The history variables `shared` (objects that two requests used at once) and `crossed`
(a reset came while a request ran) only serve to say what the properties except.

### 2.7 Metrics over HTTP

`counter()` and `gauge()` are three steps: `Ask` (the check of the labels, which may refuse), `Lookup`
under the shared lock, and `Create` under the unique lock, which looks again, checks the
cap and makes the cell. `Use` writes through the pointer without any lock. `expose()` holds
the shared lock from `BeginExpose` to `EndExpose` and reads one cell per `Render`, while cells
go on changing. Counters are added to, gauges are set, and a *mirrored* counter is set to
what a counter owned elsewhere read when the caller asked. In the program only the main
thread writes; the second writer of the run is what the class, with its locks, allows, but
for mirroring, which the run leaves to main. Which series an event touches
(`update_metrics`, `publish_state`) is left open: any, in any order.

`HttpServer` is the accept loop. A client connects, may stay silent, sends its request, may
leave at any time. `stop` is three steps, `Stop`, `Close`, `Join`. The operating system's part is
external: closing the listening socket wakes a sleeping `accept` on Windows (`CloseWakes`) and does not on Linux,
where the socket lives on until that `accept` returns. Writing to a client that has left may end the process
(SIGPIPE, which nothing ignores): `hpc = "killed"`. `Exposition` joins both: the main thread starts
and stops the server between two updates, and the handler of `/metrics` is the scrape.

### 2.8 Algorithms

The modules `Redaction`, `EngineSettings` and `CollectorConfig` have no state: they are the code's
loops as folds over lines, fields, tokens, blocks and sessions, each beside a definition that
says the result without the loop (`Scrubs`, `Masks`, `Inherits`, `ReadsOwnLog`, `RoundsUp`, `Merges`).
`MCFunctions` builds every input up to a length, one element per step, out of small sets of tokens, fields, lines, blocks
and file names; for TLC the length is bounded, for the proofs (5.8) it is not. A failing input is a behaviour of a few
steps, each of which adds the next element.

Abstractions: a token is its kind (credential noun, stop word, other word, punctuation, pair of
noun and value); a FIX body is the chunks between separators, so that a value may contain
separators, but a declared length that ends inside a chunk is left out; a file name is its
parts between dashes, what it logs and its suffix, so that comp ids with a dash are left out; sub
ids stand for location ids too, and two of the flags and the texts for those treated alike.

## 3. Checks

All runs use the modules as they are; the values of the constants are in the
`.cfg` files. Times are for two workers.

| run | instance | shows |
|---|---|---|
| `MpmcQueue_safety` | 2 producers, 2 consumers, 2 values, 2 cells, 4 tickets; 590 thousand states, 30 s | no shared cell, the inductive invariant (ticket order and no overwrite follow from it by proof), honest "empty" and "full", refinement of `BoundedFifo` |
| `MpmcQueue_liveness` | the same with one value and 3 tickets, no symmetry; 45 s | every push returns, everything is handed out |
| `Collector_safety` | a message log and an event log with 2 lines each, 2 cells, 1 retry, batches of 2, 1 database failure; 1.6 million states, 25 s | the inductive invariant, accounting, order, a shutdown that loses nothing in silence, bounded memory, a drop means the pipeline is a whole queue behind |
| `PipelineLoad_endless` | 3 adapters, 2 cells, 2 retries, batches of 3 | rows are committed under endless load; once it ends everything is committed and published, and a signal or a failed start ends the collector |
| `SessionTracking_tracked` | 7 lines per log, clock up to 3, tolerance 1; 1.3 million states, 65 s | counters agree with the engine in every interleaving; state and staleness do if the collector kept up |
| `SessionTracking_state` | 6 lines per log | finding: the link state does not without that |
| `TailReader_rotation` | 3 files, 2 lines in 4 pieces, 1 restart, both settings of `from_beginning`, start at any moment; 790 thousand states, 100 s | lines whole but for the one the reader starts in, in order, once, arriving |
| `ChatHost_requests` | 3 requests of 2 users, 2 rounds, up to 1 call a round, 3 messages kept, 1 reset, 1 exception; 5.8 million states, 95 s | own messages only, complete audit trail, reset forgets, whole turns over rounds and trims |
| `ChatHost_shared` | 2 requests of one user | finding: concurrent requests tear turns apart |
| `EventStore_failures` | 3 rows of any of 3 times, any cutoffs, 2 failing statements, 1 crash; 15 million states, 95 s | losses counted, honest row counter, a purge that deletes what it is asked to for good and nothing else, and is whole unless it reports an error |
| `Exposition_scrapes` | 2 writers, 4 series (a counter, a gauge, a mirrored counter, a refused one), a cap of 1, 2 updates, 2 clients of which one may leave, Linux sockets; 93 thousand states, 45 s | the inductive invariant with the cap, accounting of updates, current pages, counters that never fall, clients answered, `stop` returns |
| `Functions_bounded` | texts of 7 tokens, bodies of 4 groups of fields, 5 lines of an engine's file, 5 blocks over three files, 3 files in a directory, sizes of 8 bits; 375 thousand inputs, 30 s | each algorithm agrees with its definition |

The inductive invariants (`IInv`) of `SessionTracking`, `TailReader`, `ChatHost` and `EventStore`, type invariants
included, hold in all states of their runs, too. They are not listed there, because the proofs of section 5
say more; to see TLC check one, add `INVARIANT IInv` to `SessionTracking_tracked.cfg`, `ChatHost_requests.cfg` or
`EventStore_failures.cfg`, or run `TailReaderInv` with `TailReader_rotation.cfg` and that line.

Why the bounds are enough. *Queue*: two cells and four tickets make every cell go
round twice with two threads of each kind competing, so a thread can be a lap
behind; the proofs remove the bound. *Collector*: four lines on a queue of two
make it full, refuse, retry and drop, with the other adapter in any phase; two
lines per log are what order needs; the failure hits any row of a batch, BEGIN or
COMMIT. *PipelineLoad*: no bound on behaviours, the state space is finite; three adapters can refill
two cells between any two pops. *Session
tracking*: seven lines allow two gaps, or a gap, a disconnect and a new logon
with the sequence reset; the clock can pass the tolerance twice. *Tail reader*:
three files allow a rotation while another is being handled; a restart
may fall into any step of it, inside a line or between two; one line before it and one after is what
order across it needs. *Event store*: two failures
can hit a purge's BEGIN or COMMIT and then the flush that follows it, or two statements of one purge; three rows are two
before a purge, in a batch or in both tables, and one after, and three times put each of them before, at and after a cutoff. *Chat host*: a third request, of another user, can
take over the conversation id after a reset while the first still works; three messages
make every second request trim; two rounds of a call each put a cut at every place in a turn.
*Exposition*: two updates and a cap of one make two writers race for the last series, or for the same one; one client can be served, one wait, and
either be the one that leaves or that wakes the closed socket. *Functions*: seven tokens hold a noun, four stop words and the word
behind the window; four groups put every field before and after every length and its data; five lines hold a default, two sessions and settings between
them; five blocks put the same session in the operator's file and in both of the engine's;
three files have a better, an equal and a worse name; 8 bits include sizes no power reaches.

Deadlock is checked in every run but `Functions_bounded`; where the program ends (`Collector`) the
final state is a named disjunct, `Terminated`, and so are served requests (`AllServed`) and the end of
the process (`Ended`). `Functions_bounded` does not check it: the inputs end at their bounds.

### Fairness

Each thread is scheduled (weak fairness of its steps). On top of that: a weak
CAS that is tried again and again succeeds some time (strong fairness of
`PushClaim` and `PopClaim`; other threads may beat it only finitely often, because the
tickets are bounded); a main loop that reaches its timers again and again finds
the flush timer elapsed (strong fairness of `FlushTimer` in `PipelineLoad`,
justified by the steady clock). The engine, the signal and the failure of HTTP
have no fairness, nor has the end of the load, an arriving failure or a reset. A poll of an adapter
is sure to end only when there is nothing left to read, that is after the load has ended.

In `Exposition` the server's thread, `Close` and `Join` are scheduled, and the backlog is first in first
out (strong fairness of `Accept`: a client is not passed over for ever). Two things are assumed of the clients.
Whoever has connected sends its request: the code has no timeout on `recv`, and a client that never does blocks
every other and `stop`. And some client connects again while the socket lives: Prometheus scrapes periodically.
`stop` on Linux needs the second, because closing the socket does not wake `accept`; it waits for one more client.
With `CloseWakes = TRUE` it is not needed; without it and with `FALSE`, TLC shows the collector asleep in `accept` for ever.

### Mutants

Each property is paired in `PROJECT.json` with a mutated action or operator (defined
just before the original, with a suffix that names the bug) that makes TLC
violate it: a plain store for the CAS, an off-by-one in the release, a retry that
does not return, a join that does not wait, a rotation that keeps `carry_`, and
so on.

## 4. Findings

Disagreements between the code and what its documentation says, met while
modelling. Each has a run whose counterexample shows it.

1. *Link state by arrival* (`SessionTracking_state`). `apply` sets the state in
   order of arrival. After a reconnect, an older line of the other log can put
   the state back, and no later line corrects it.
2. *Concurrent requests tear turns apart* (`ChatHost_shared`). Two requests that name the
   same conversation append to one list without a lock (`main.py:111`, `:149`, `:171`). A
   question of one lands between a tool call of the other and its results; `store.py:62`
   says the provider rejects such a history. It stays in the conversation.

Seen in the same code, without a run of their own:

- *Pipeline.* The inner loop `while (queue.try_pop(ev))` (`main.cpp:488`) is left only when
  the queue is empty. While adapters keep up with it, no timer is looked at: no counter is
  mirrored, no gauge set, no session evaluated. Drops do not reach
  `fixmon_events_dropped_total`, the alert's metric, while they happen; `SettlesAtRest`
  says what is true. After a signal under such a load, rows wait in memory until the adapters are joined, and
  an adapter that always finds another line does not return from its poll (`RowsCommitted`, `CollectorEnds`).
- *Tail reader.* `seekg(end)` may land inside a line, and its rest is delivered as a line
  (`tail_reader.cpp:55`), although `tail_reader.hpp:12` says a line is "never handed downstream half-parsed"; `LinesInOrder` says
  that this is the only case. `inode_` is taken from the path after the stream was opened, so it may
  belong to the next file, and the rotation is never noticed (`:53`). On a new inode the old
  stream is dropped unread (`:71`); `LinesArrive` promises nothing for those lines. A log
  truncated in place that grows past its old size between two polls is read on at the old
  offset, and one truncated while it is being opened is delivered twice
  (`LinesInOrder` says `~truncated` for this reason). A log that
  appears after the start is opened at its end when `from_beginning` is off (`:80`).
- *Registry.* One ResendRequest adds two to a session's `resend_requests`, once per log
  (`session_state.cpp:89` and `:141`), although the metrics keep the two apart; a session
  with only an event log goes stale by the time of its last event (`:163`).
- *Event store.* `purge_before` ignores the result of its BEGIN. If that fails, or a DELETE that fails takes the transaction
  with it, the other DELETE commits itself, against `event_store.cpp:296` ("One transaction: a purge interrupted halfway
  would otherwise leave snapshots pointing at events that are already gone"): `PurgeIsOneTransaction`, added to the
  invariants of `EventStore_failures.cfg`, is violated. It commits after a DELETE that failed, too, which sets `err`. Its
  COMMIT is not looked at, and one that fails leaves the transaction open: every later
  batch fails at BEGIN and is lost, though counted, until the next purge commits
  (`event_store.cpp:302`). `LossIsCounted` and `WholeOrNothing` say what is true. A batch of which an insert failed is
  committed without that row, which is counted. Rows older than a past cutoff come back when a log is replayed, and stay until the next purge.
- *Chat host.* A reset during a request is undone by the request's `save` (`store.py:71`). An
  audit log that fails between a call and its result leaves a torn turn for good
  (`main.py:157`). A request that ends with an exception is never trimmed.
- *HTTP server.* `http_server.hpp:5` speaks of a thread per connection; the code serves one client after the other on
  one thread (`http_server.cpp:100`), without a timeout. See section 3 for what that and `close` on Linux mean for `stop`.
- *Metrics.* Two `[session]` blocks for one session have adapters with equal labels, whose counts are mirrored into
  one counter in turn (`main.cpp:529`): it goes up and down, against `metrics.hpp:36`.
- *Configuration.* `next_pow2` never ends for more than 2^63 (`config.cpp:43`). A `[DEFAULT]` after a session does not
  reach it, and the names of credentials in an unknown section are put down to the next session (`quickfix_config.cpp:322`).
  Of two descriptions of a session the heartbeat is that of the last one, even if it is only the default, and all else
  that of the first (`config.cpp:66`).
- *Logs of others.* `scan_for_log` takes any two parts of the identity, such as the version and the sender, although
  `quickfix_config.cpp:86` says it "Requires at least sender and target to line up": a session without a log of its own reads
  another's and is charged with its events. `OwnLogsFound` says which; `ScanNeedsCompIds`, added to `Functions_bounded.cfg`, is
  violated. A qualified session without logs of its own reads those under the unqualified names (`quickfix_config.cpp:351`).
- *Redaction.* Of the length-prefixed pairs only three are known to `data_tag_for_length_tag` (`redact.cpp:101`); the
  encrypted passwords (1401/1402, 1403/1404) and the encoded issuer and security (348/349, 350/351), which may hold separators, are not.

## 5. Proofs

Every invariant and every action property of the passing runs, and the refinement of the queue, is a theorem, for every
value of the constants that the modules' named assumptions allow. Those about a component with state are not inductive
as they stand. Each such component has a module with its inductive invariant `IInv`, a conjunction of named parts, and a module that proves
`Init => IInv`, `IInv /\ [Next]_vars => IInv'` and what follows from it. A part that an
action can disturb has a step for that action, in a lemma of its own.

| module | theorem | states |
|---|---|---|
| `MpmcQueueProofs` | `TypeCorrect`, `Invariance` | `TypeOK`, `IInv` |
| | `NoDataRace`, `TicketOrder`, `NoOverwrite` | `OneOwnerPerCell`, `PopsInTicketOrder`, `UnreadStaysIntact` |
| | `DrainIsComplete`, `RefusalIsHonest` | `EmptyMeansDrained`, `FullMeansFull` (action properties) |
| | `Refinement` | `Spec => ImplementsFifo` |
| `CollectorProofs` | `TypeCorrect`, `Invariance` | `TypeOK`, `IInv` |
| | `LinesAccounted`, `AppliedInLogOrder`, `NothingLostAtShutdown` | `EveryLineAccounted`, `LogOrder`, `ShutdownLosesNothing` |
| | `DropsMeanBehind` | `DropMeansBehind` (action property) |
| | `QueueProtocolKept` | `Spec => Queue!Spec`: threads use the queue only as `BoundedFifo` allows |
| `EventStoreProofs` | `Invariance` | `IInv` |
| | `LossesCounted`, `RowCountReal`, `PurgeHolds` | `LossIsCounted`, `RowsWrittenReal`, `PurgeIsExact` |
| | `WholeOrReported` | `WholeOrNothing` (action property) |
| `ExpositionProofs` | `TypeCorrect`, `Invariance` | `TypeOK`, `IInv` |
| | `NoUpdateLost`, `PagesCurrent` | `UpdatesAccounted`, `PageIsCurrent` |
| | `CountersGrow` | `CountersNeverFall` (action property) |
| `SessionTrackingProofs` | `Invariance` | `IInv` |
| | `StateInStep`, `CountersMeet`, `StaleIsSilent` | `InStepStateFollows`, `CountersAgree`, `StaleMeansSilent` |
| `ChatHostProofs` | `Invariance` | `IInv` |
| | `OwnMessages`, `AuditHolds`, `ResetIsFinal`, `TurnsHold` | `OwnMessagesOnly`, `AuditComplete`, `ResetForgets`, `TurnsStayWhole` |
| `TailReaderProofs` | `Invariance` | `IInv` |
| | `LinesHold` | `LinesInOrder` |
| `FunctionProofs` | `CapacityIsRight` | `CapacityIsPowerOfTwo` |
| | `ProseIsScrubbed`, `BodiesAreMasked` | `ScrubsWindow`, `MasksByField` |
| | `BlocksInheritAlways`, `OperatorAlwaysWins`, `OwnLogsAreRead` | `BlocksInherit`, `OperatorWins`, `OwnLogsFound` |

Beyond the assumptions of the modules there is one hypothesis: the theorems of
`SessionTrackingProofs` say `Attached = Logs`, both logs of the session are read. Without the
message log its gaps are not seen and the time of the last inbound message is that of an event.

`Queue!Spec` and `ImplementsFifo` are the two halves of one argument: the lock-free queue does
what `BoundedFifo` says, and the collector, proved on `BoundedFifo`, uses it as it allows.

### 5.1 The queue

- `PositionsInv`, `LocalCopyInv`: the positions are at most `Capacity` apart, `sent` has a
  ticket's element, and a thread's copy of a position is never ahead of it.
- `TicketsInv`: no two threads hold the same ticket.
- `PushersInv`, `PoppersInv`: the ticket a thread holds lies in the window in which its cell can
  still be its own, and `seq` there still has the value the claim saw.
- `CellsInv`: for each ticket of the last round on a cell, the exact value of `seq` and
  `data`, depending on who is in flight.
- `CasInv`, `PassedInv`: what a thread about to CAS knows if the position has not moved, and that
  a cell seen ahead of `pos` means the ticket is gone.

The argument rests on one arithmetical fact: two tickets less than `Capacity` apart
that map to the same cell are equal. The action properties and the refinement follow from
`IInv`, the former by looking at the one step in which a call answers FALSE.

### 5.2 The collector

`EveryLineAccounted` is an equation of sums over the adapters. The community modules' sum is a fold with a
`CHOOSE` in it, so the first part of `CollectorProofs` shows that it does not depend on the choice, then how it changes when
one term does; for that the set of adapters has to be finite. The rest follows an event from place to place: `AppliedInv`
says that what was applied is a prefix of what was accepted, with one event more in the hand of the main thread;
`StoreInv` that rows and staged events make up what was applied, and that less than a batch is staged. For the
shutdown, `ThreadsInv` says who may still push in each phase. From the final drain on nobody does, so a
pop that reports "empty" is believed (`DrainedInv`). Before, "empty" proves nothing, since a push may be in progress.
A drop needs a refused push, and a refusal without a signal needs `Capacity` accepted events that were not applied.

### 5.3 The event store

`OrderInv` puts the staged rows in the order of their coming, so no two are the same and a row still to come is nowhere yet; it says nothing of
their times. `InsertedInv` and `CommittedInv` place each row of the flush in progress: seen by the connection, not on disk, as long as the
transaction is open. `CountedInv` says that until an error is counted the flush still has its transaction, hence a failed COMMIT cannot lose rows
that nobody counts; `rows_written` against the number of committed rows is an argument about cardinalities. `AtomicInv` says that nothing of
an open transaction is on disk. `PurgedInv` follows the rows a complete purge was to delete (`purged`): they were flushed
before it, so none is still staged, and until `err` is set the tables it has passed hold nothing older than the cutoff.
`KeptInv` is the other direction: what is younger than every cutoff so far (`reach`) is on disk once committed, and in what the connection sees.

### 5.4 Metrics over HTTP

Registry and server share only the scrape, so the invariant is two, and each step is shown to keep one while it leaves the variables of
the other alone or begins and ends a scrape. `UpdatesAccounted` needs that a cell is never removed between `Lookup` and `Use`
(`WritersInv`); `PageIsCurrent` and `CountersNeverFall` need that only one thread mirrors (`MirrorsInv`): with two, the smaller of
two readings could be stored last. The updates are counted as a set of pairs of a series and a number (`Updates`): an update that gets its
cell adds one pair to it.

### 5.5 Sessions

The counters are cardinalities of sets of lines: `GapLines(s, n)` and `Told(s, type, n)`, of the first `n` lines of a log. `SequenceInv` says what the
expected sequence number is after any prefix, so what `apply` has counted is the set for the lines read, and what the engine
has counted is the set for all lines. They agree when all is read. The link state cannot be said of a prefix, because the
logs have no common order; `DownInv`, `LogonInv` and `UpInv` name the lines that may be unread in each phase if the collector
kept up, and show that no order of those lines leads to another state.

### 5.6 The chat host

A list of messages belongs to one conversation for ever (`ApartInv`), although requests may hold an old list of it; so what is said of the
messages of a list survives every append. `Told` links a message to its audit line, which is written first. Resets are counted, and
`Recent` compares the count a request began with. Whole turns are the long part: `TurnsBut(h, p)` says that all calls but the one at
`p` have their results and every result its call, which appends keep because `SharedInv` excludes a second request in the
turn, and the trim of `save` keeps because its cut, at the first message that is no result, does not
fall between a call and its results.

### 5.7 The tail reader

`FilesInv` says that the files, taken one after the other, hold whole lines in the order they were written, and that only the newest one may
end inside a line. The path leads to the newest file or to none (`PathInv`), so a reader that opens it never goes back. The
point of `RotationInv` is that it does not open the same file again: while the path leads to the file that is open, its
inode is the one the reader knows, and its size was never seen larger. Between the steps of `open_stream` this need not hold yet, and the identity
taken may be the next file's: the parts are conditions on where the reader is. `CarryInv` says that a carry is the first piece of the line at the
reader's offset, and that a stream that starts inside a line is recorded in `cut`. `AheadInv` then puts every delivered line behind all
that can be read next. All of this only as long as no log was truncated in place.

### 5.8 The algorithms

The properties speak of what a loop returns for the input built so far, so there is nothing to carry from state to state but
`InputOK`: what the input is made of (lemma `InputAlwaysOK`). The induction is inside the state, over the rounds of a loop. The provers cannot
instantiate the library's induction rules, which take an operator; it is done with a least counterexample instead, a minimal
element of the set of rounds at which a statement fails, which well-foundedness (`WFMin`) provides. The loops are folds of
the community modules, and those are `CHOOSE`s of a recursive function. `LoopExists` and the lemmas after it show that
there is one, so that the history `h` of a loop (`IsLoop`: what it carries after each round) can be taken
in hand; each algorithm then has an invariant over its rounds.

- *`next_pow2`* (`Shifted`): `p` is the next power of two in every round before the width and 0 from then on, so what is never
  reached before the width is never reached. The number asked for is any of the width, and the width any of two bits or more.
- *Scrubbing* (`ScrubState`): what was written is what `Scrubs` says of the tokens so far, and `pending` is the
  room left in the window of the last noun (`KnowsWindow`), or 0 if another word or `kWindow` stop words came after it. Since
  the marker that replaces a word is no noun, a second pass changes nothing.
- *Masking* (`FieldsDone`): the walk stands at the first chunk of the next field, with the announced length, if the last field
  announced this one, equal to the field's length; so it never begins a field inside a value. This needs that the body was written by somebody who
  counts (`Exact`): a length field that announces the next one says its length. The field groups of `MCFunctions` are of this kind and are
  `Closed`: no group ends with a length that the next group's first field could be taken for.
- *Inheritance* (`Parsed`): after `i` lines the parser is in the section of the last header, its defaults hold the last value of
  every key in the `[DEFAULT]`s so far, the block at hand those since the header, and the finished blocks are one per
  finished `[SESSION]`, in order.
- *Merging* (`Merged`, `Listed`): after `k` descriptions the list has the operator's sessions at its beginning and then one session for each
  description of something new, in order; each is what it was plus what the first `k` descriptions say
  (`SaidOf`). A description goes to the first session of its name, so a second block of the operator for the same
  session never changes.
- *Logs*: no loop, but an order of candidates and a maximum of scores. If the directory has a log of the session, a candidate that exists is
  found and it is the most specific of the session's own, the unqualified names counting as a qualified session's own, after the others
  (`OwnLogIsRead`). If it has none, no candidate exists, and the scan finds a file with the highest score, whoever's it is (`NearestLogIsRead`).

What remains bounded is the alphabet: the sets of tokens, groups of fields, lines, blocks and file names of `MCFunctions`. The lemmas about the
loops themselves are more general: masking is proved for all closed runs of fields over any tags and lengths (`IsRun`), inheritance for
any keys and values, merging for any sessions.

### 5.9 Only model-checked

- Liveness: `PushReturns`, `EverythingTaken`, `SettlesAtRest`, `RowsCommitted`, `CollectorEnds`, `LinesArrive`, `StopReturns`, `ClientsServed`. TLAPS
  does not reason about fairness.
- The two findings, which are counterexamples.

## 6. Plan

- `IInv` of `Exposition` says nothing of the backlog's order or of who closes what: more of the server (nothing handled after
  `stop` has returned) could be proved from the same parts.
- `PipelineLoad` counts the events that `Collector` follows. That it is an abstraction of `Collector` is argued in section 2.2 and
  not proved; a refinement mapping has to merge a queue operation's steps into one.
- `SessionTracking` with one log: which of the three theorems remain when only the message log is read.

## 7. Not modelled

Regular expressions and tag scanning (`parse_line` is abstracted to the events it yields; `fix_parser.cpp` cuts text),
timestamps, the expansion of wildcard sessions from file names, the search for directories, settings that are only copied,
JSON and exposition formats, snapshots of sessions, the chat host's tools (read-only queries) and the providers' message
formats, authentication, dashboards, deployment and the test programs.
