---------------------------- MODULE EventStoreInv ----------------------------
(***************************************************************************)
(* The inductive invariant of EventStore: where each staged event is while *)
(* the statements of a flush or a purge run, fail or are cut off by a      *)
(* crash.  EventStoreProofs proves it for any bounds.                      *)
(***************************************************************************)
EXTENDS EventStore

Flushing == pc \in {"insert", "commit", "rollback"}
Purging  == pc \in {"purge_begin", "delete_events", "delete_snapshots", "purge_commit"}

\* The rows the flush in progress has inserted.
Inserted == {staged[i] : i \in 1 .. written}

\* What is staged is in the order of its coming, and a row still to come is
\* nowhere yet.
OrderInv ==
  /\ \A i, j \in 1 .. Len(staged) : i < j => staged[i].id < staged[j].id
  /\ \A i \in 1 .. Len(staged) : staged[i] \in accepted
  /\ \A row \in accepted \cup disk.events \cup view.events \cup purged : row.id <= arrived

\* Outside a flush nothing is inserted, before its COMMIT everything is; a purge
\* and the next process start with nothing staged.
PhasesInv ==
  /\ ~Flushing => written = 0
  /\ pc = "commit" => written = Len(staged)
  /\ Purging \/ pc = "down" => staged = << >>

\* The events of this process on disk are the ones recorded as committed; what
\* the connection sees beyond them was inserted by the flush in progress.
CommittedInv ==
  /\ committed \subseteq accepted
  /\ disk.events \cap accepted \subseteq committed
  /\ view.events \cap accepted \subseteq committed \cup Inserted

\* While the transaction of a flush is open its rows are seen and not committed;
\* a row not inserted yet never is.
InsertedInv ==
  /\ pc \in {"insert", "commit"} /\ txn => Inserted \subseteq view.events
  /\ \A i \in 1 .. Len(staged) : txn \/ i > written => staged[i] \notin committed

\* Until an error is counted nothing is lost: the flush in progress has its
\* transaction, and every event is committed or staged.
CountedInv ==
  /\ pc = "rollback" => write_errors > 0
  /\ pc \in {"insert", "commit"} /\ write_errors = 0 => txn
  /\ pc # "down" /\ write_errors = 0 => accepted \subseteq committed \cup Range(staged)
  /\ pc # "down" => rows_written <= Cardinality(committed)
  /\ pc # "down" /\ write_errors = 0 => rows_written = Cardinality(committed)

\* As long as the transaction of a flush or purge is open nothing of it is on disk.
AtomicInv ==
  txn /\ pc \in {"insert", "commit", "delete_events", "delete_snapshots", "purge_commit"} =>
    disk = before

\* A row that was to be purged is in no table and will not be put there; the
\* purge in progress has emptied the tables it has passed.
PurgedInv ==
  /\ \A i \in 1 .. Len(staged) : staged[i] \notin purged
  /\ (disk.events \cup disk.snapshots \cup view.events \cup view.snapshots) \cap purged = {}
  /\ ~err /\ pc \in {"delete_snapshots", "purge_commit"} =>
       \A row \in view.events : row.ts_ns >= cutoff
  /\ ~err /\ pc = "purge_commit" => \A row \in view.snapshots : row.ts_ns >= cutoff

\* A committed event too young for every purge so far is on disk, and no
\* transaction has deleted it.
KeptInv ==
  /\ cutoff <= reach
  /\ \A row \in committed : row.ts_ns >= reach => row \in disk.events
  /\ \A row \in disk.events : row.ts_ns >= reach => row \in view.events

(***************************************************************************)
(* The properties of EventStore follow from the parts together.  None *)
(* is preserved alone: that a loss is counted needs to know which rows the *)
(* open transaction holds, and that needs the order of their coming.       *)
(***************************************************************************)
IInv ==
  /\ TypeOK
  /\ OrderInv
  /\ PhasesInv
  /\ CommittedInv
  /\ InsertedInv
  /\ CountedInv
  /\ AtomicInv
  /\ PurgedInv
  /\ KeptInv

=============================================================================
