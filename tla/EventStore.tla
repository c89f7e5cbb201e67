----------------------------- MODULE EventStore -----------------------------
(***************************************************************************)
(* EventStore (event_store.cpp) on one SQLite connection: batches, session *)
(* snapshots and the purge, statement by statement, with every statement   *)
(* able to fail and the process able to crash between any two.             *)
(*                                                                         *)
(* A row is the number it comes as and the time it is stored with, which   *)
(* is the log line's own (or the caller's, for a snapshot) and follows no  *)
(* order: a log that is replayed brings old rows late.  `disk' is what is  *)
(* committed, `view' what the connection sees.  A statement that fails may *)
(* leave the transaction open or roll it back, as SQLite does for a full   *)
(* disk or an I/O error.  The counts of purged rows are left out.          *)
(***************************************************************************)
EXTENDS Integers, Sequences, FiniteSets, Functions

CONSTANTS
  MaxRows,      \* bound: events and snapshots
  MaxTime,      \* bound: the times they are stored with
  MaxFailures,  \* bound: statements that fail of themselves
  MaxCrashes    \* bound: crashes of the process

ASSUME StoreAssumption ==
  /\ MaxRows \in Nat /\ MaxTime \in Nat
  /\ MaxFailures \in Nat /\ MaxCrashes \in Nat

VARIABLES
  disk,          \* the tables as committed
  view,          \* the tables as the connection sees them
  txn,           \* whether the connection has a transaction open
  staged,        \* staged_
  written,       \* rows inserted by the flush in progress
  rows_written,  \* rows_written_
  write_errors,  \* write_errors_
  pc,            \* the next statement; "up" between calls, "down" without a process
  after,         \* where flush returns to
  cutoff,        \* the argument of the purge in progress
  err,           \* whether that purge has set err
  arrived,       \* how many rows have come
  failures,      \* how many statements failed of themselves
  crashes,
  accepted,      \* history: the events staged since the process started
  committed,     \* history: those of them that were on disk at some time
  before,        \* history: disk when the flush or purge in progress began
  purged,        \* history: the rows some complete purge was to delete
  reach          \* history: the highest cutoff of any purge

db      == <<disk, view, txn, failures>>
object  == <<staged, written, rows_written, write_errors>>
call    == <<after, cutoff, err>>
purges  == <<purged, reach>>
history == <<accepted, committed, before, purges>>
vars    == <<db, object, pc, call, arrived, crashes, history>>

Times  == 1 .. MaxTime
Rows   == [id : 1 .. MaxRows, ts_ns : Times]
Tables == [events : SUBSET Rows, snapshots : SUBSET Rows]

StorePc == {"up", "begin", "insert", "commit", "rollback", "purge_begin",
            "delete_events", "delete_snapshots", "purge_commit", "close", "down"}

TablesTypeOK ==
  /\ disk \in Tables /\ view \in Tables /\ before \in Tables
  /\ txn \in BOOLEAN /\ (txn \/ view = disk)

TypeOK ==
  /\ TablesTypeOK
  /\ staged \in Seq(Rows)
  /\ written \in 0 .. Len(staged)
  /\ rows_written \in Nat /\ write_errors \in Nat
  /\ pc \in StorePc
  /\ after \in {"up", "purge_begin", "close"}
  /\ cutoff \in 0 .. MaxTime /\ err \in BOOLEAN
  /\ arrived \in 0 .. MaxRows
  /\ failures \in 0 .. MaxFailures /\ crashes \in 0 .. MaxCrashes
  /\ accepted \subseteq Rows /\ committed \subseteq Rows
  /\ purged \subseteq Rows /\ reach \in 0 .. MaxTime

Empty == [events |-> {}, snapshots |-> {}]

Init ==
  /\ disk = Empty /\ view = Empty /\ txn = FALSE
  /\ staged = << >> /\ written = 0 /\ rows_written = 0 /\ write_errors = 0
  /\ pc = "up" /\ after = "up" /\ cutoff = 0 /\ err = FALSE
  /\ arrived = 0 /\ failures = 0 /\ crashes = 0
  /\ accepted = {} /\ committed = {}
  /\ before = Empty /\ purged = {} /\ reach = 0

-----------------------------------------------------------------------------
(* The connection. *)

BeginOk == ~txn /\ txn' = TRUE /\ UNCHANGED <<disk, view, failures>>

\* A statement fails of itself; `keeps' tells whether the transaction survives.
Breaks(keeps) ==
  /\ failures < MaxFailures
  /\ failures' = failures + 1
  /\ txn' = (txn /\ keeps)
  /\ view' = IF txn' THEN view ELSE disk
  /\ UNCHANGED disk

\* BEGIN fails inside a transaction, too.
BeginFails ==
  \/ txn /\ UNCHANGED db
  \/ ~txn /\ Breaks(FALSE)

\* Without a transaction a statement commits itself.
Changes(tables) ==
  /\ view' = tables
  /\ disk' = IF txn THEN disk ELSE tables
  /\ UNCHANGED <<txn, failures>>

StatementFails == \E keeps \in BOOLEAN : Breaks(keeps)

CommitOk == txn /\ disk' = view /\ txn' = FALSE /\ UNCHANGED <<view, failures>>

\* COMMIT fails without a transaction, too.
CommitFails ==
  \/ ~txn /\ UNCHANGED db
  \/ txn /\ StatementFails

\* An error, if there is no transaction; exec ignores it.
RollsBack == txn' = FALSE /\ view' = disk /\ UNCHANGED <<disk, failures>>

-----------------------------------------------------------------------------
(* stage, flush *)

Records == committed' = committed \cup (disk'.events \cap accepted)

\* The next row to come, with any time: engine_ts_ns of its line, or ts_ns.
Arrives(row) ==
  /\ row \in Rows /\ row.id = arrived + 1
  /\ arrived' = arrived + 1

Stage ==
  /\ pc = "up"
  /\ \E row \in Rows :
       /\ Arrives(row)
       /\ staged' = Append(staged, row)
       /\ accepted' = accepted \cup {row}
  /\ UNCHANGED <<db, written, rows_written, write_errors, pc, call, crashes,
                 committed, before, purges>>

\* flush is called for a full batch or by the timer, in purge_before and in
\* close; it does nothing when nothing is staged.
CallFlush(return) ==
  /\ after' = return
  /\ pc' = IF staged = << >> THEN return ELSE "begin"
  /\ UNCHANGED <<db, object, arrived, crashes, accepted, committed, before, purged>>

Flush == pc = "up" /\ staged # << >> /\ CallFlush("up") /\ UNCHANGED <<cutoff, err, reach>>

Returns == pc' = after /\ staged' = << >> /\ written' = 0

\* Mutant of FlushBegin: a BEGIN that failed is not counted.
FlushBegin_NotCounted ==
  /\ pc = "begin"
  /\ \/ BeginOk /\ pc' = "insert" /\ UNCHANGED object
     \/ BeginFails /\ Returns /\ UNCHANGED <<rows_written, write_errors>>
  /\ before' = disk
  /\ UNCHANGED <<call, arrived, crashes, accepted, committed, purges>>

FlushBegin ==
  /\ pc = "begin"
  /\ \/ BeginOk /\ pc' = "insert" /\ UNCHANGED object
     \/ /\ BeginFails
        /\ write_errors' = write_errors + 1
        /\ Returns
        /\ UNCHANGED rows_written
  /\ before' = disk
  /\ UNCHANGED <<call, arrived, crashes, accepted, committed, purges>>

\* The rows in their order.  A row that failed is taken out of `staged' here,
\* which the code does not look at again.
Insert ==
  /\ pc = "insert" /\ written < Len(staged)
  /\ \/ /\ Changes([view EXCEPT !.events = @ \cup {staged[written + 1]}])
        /\ written' = written + 1
        /\ UNCHANGED <<staged, write_errors>>
     \/ /\ StatementFails
        /\ staged' = [i \in 1 .. Len(staged) - 1 |->
                        IF i <= written THEN staged[i] ELSE staged[i + 1]]
        /\ write_errors' = write_errors + 1
        /\ UNCHANGED written
  /\ Records
  /\ UNCHANGED <<rows_written, pc, call, arrived, crashes, accepted, before, purges>>

InsertDone ==
  /\ pc = "insert" /\ written = Len(staged)
  /\ pc' = "commit"
  /\ UNCHANGED <<db, object, call, arrived, crashes, history>>

\* Mutant of FlushCommit: the rows are counted although COMMIT failed.
FlushCommit_CountsAnyway ==
  /\ pc = "commit"
  /\ \/ CommitOk /\ Returns /\ UNCHANGED write_errors
     \/ CommitFails /\ pc' = "rollback" /\ write_errors' = write_errors + 1
        /\ UNCHANGED <<staged, written>>
  /\ rows_written' = rows_written + written
  /\ Records
  /\ UNCHANGED <<call, arrived, crashes, accepted, before, purges>>

FlushCommit ==
  /\ pc = "commit"
  /\ \/ /\ CommitOk
        /\ Returns
        /\ rows_written' = rows_written + written
        /\ UNCHANGED write_errors
     \/ /\ CommitFails
        /\ pc' = "rollback"
        /\ write_errors' = write_errors + 1
        /\ UNCHANGED <<staged, written, rows_written>>
  /\ Records
  /\ UNCHANGED <<call, arrived, crashes, accepted, before, purges>>

FlushRollback ==
  /\ pc = "rollback"
  /\ RollsBack
  /\ Returns
  /\ UNCHANGED <<rows_written, write_errors, call, arrived, crashes, history>>

\* One row outside the batches: it commits itself, unless a transaction is open.
WriteSnapshot ==
  /\ pc = "up"
  /\ \E row \in Rows :
       /\ Arrives(row)
       /\ \/ /\ Changes([view EXCEPT !.snapshots = @ \cup {row}])
             /\ UNCHANGED write_errors
          \/ StatementFails /\ write_errors' = write_errors + 1
  /\ UNCHANGED <<staged, written, rows_written, pc, call, crashes, history>>

-----------------------------------------------------------------------------
(* purge_before *)

\* Any cutoff: the caller's retention counts back from its own time.
Asks ==
  /\ cutoff' \in Times
  /\ reach' = IF cutoff' > reach THEN cutoff' ELSE reach

\* Mutant of Purge: what is staged is not flushed first.
Purge_NoFlush ==
  /\ pc = "up"
  /\ Asks
  /\ err' = FALSE
  /\ pc' = "purge_begin" /\ UNCHANGED after
  /\ UNCHANGED <<db, object, arrived, crashes, accepted, committed, before, purged>>

Purge ==
  /\ pc = "up"
  /\ Asks
  /\ err' = FALSE
  /\ CallFlush("purge_begin")

\* The result of BEGIN is ignored.
PurgeBegin ==
  /\ pc = "purge_begin"
  /\ BeginOk \/ BeginFails
  /\ pc' = "delete_events"
  /\ before' = disk
  /\ UNCHANGED <<object, call, arrived, crashes, accepted, committed, purges>>

\* Mutant of Delete: a statement that failed leaves err as it is.
Delete_Silent(table, here, next) ==
  /\ pc = here
  /\ \/ Changes([view EXCEPT ![table] = {row \in @ : row.ts_ns >= cutoff}])
     \/ StatementFails
  /\ pc' = next
  /\ Records
  /\ UNCHANGED <<object, call, arrived, crashes, accepted, before, purges>>

Delete(table, here, next) ==
  /\ pc = here
  /\ \/ Changes([view EXCEPT ![table] = {row \in @ : row.ts_ns >= cutoff}]) /\ UNCHANGED err
     \/ StatementFails /\ err' = TRUE
  /\ pc' = next
  /\ Records
  /\ UNCHANGED <<object, after, cutoff, arrived, crashes, accepted, before, purges>>

\* The rows that have come and that the purge in progress is to delete.
Due == {row \in Rows : row.id <= arrived /\ row.ts_ns < cutoff}

\* So is the result of COMMIT.  A transaction that is left open is the caller's.
PurgeCommit ==
  /\ pc = "purge_commit"
  /\ \/ CommitOk /\ purged' = IF err THEN purged ELSE purged \cup Due
     \/ CommitFails /\ UNCHANGED purged
  /\ pc' = "up"
  /\ Records
  /\ UNCHANGED <<object, call, arrived, crashes, accepted, before, reach>>

-----------------------------------------------------------------------------
(* The end of the process, and the next one. *)

Close == pc = "up" /\ CallFlush("close") /\ UNCHANGED <<cutoff, err, reach>>

Ends ==
  /\ RollsBack
  /\ staged' = << >> /\ written' = 0
  /\ pc' = "down"

\* sqlite3_close rolls an open transaction back.
Closed ==
  /\ pc = "close" /\ Ends
  /\ UNCHANGED <<rows_written, write_errors, call, arrived, crashes, history>>

Crash ==
  /\ pc # "down" /\ crashes < MaxCrashes
  /\ crashes' = crashes + 1
  /\ Ends
  /\ UNCHANGED <<rows_written, write_errors, call, arrived, history>>

Open ==
  /\ pc = "down"
  /\ pc' = "up"
  /\ rows_written' = 0 /\ write_errors' = 0
  /\ accepted' = {} /\ committed' = {}
  /\ UNCHANGED <<db, staged, written, call, arrived, crashes, before, purges>>

-----------------------------------------------------------------------------

Next ==
  \/ Stage \/ Flush \/ FlushBegin \/ Insert \/ InsertDone \/ FlushCommit \/ FlushRollback
  \/ WriteSnapshot
  \/ Purge \/ PurgeBegin \/ PurgeCommit
  \/ Delete("events", "delete_events", "delete_snapshots")
  \/ Delete("snapshots", "delete_snapshots", "purge_commit")
  \/ Close \/ Closed \/ Crash \/ Open

Spec == Init /\ [][Next]_vars

-----------------------------------------------------------------------------
(* Properties *)

\* Events that were staged and are neither on disk nor waiting; those a purge
\* asked for are not counted.
Lost == {t \in accepted : t \notin committed \cup Range(staged)}

(***************************************************************************)
(* No event is lost without an error being counted: not by an insert, nor  *)
(* a BEGIN or COMMIT that failed, nor by a transaction that SQLite or an   *)
(* earlier purge ended or left open.                                       *)
(***************************************************************************)
LossIsCounted == pc \in {"up", "close"} /\ Lost # {} => write_errors > 0

(***************************************************************************)
(* rows_written_ never exceeds the rows that reached the disk, and equals  *)
(* their number while no error has been counted.                           *)
(***************************************************************************)
RowsWrittenReal ==
  pc \in {"up", "close"} =>
    /\ rows_written <= Cardinality(committed)
    /\ write_errors = 0 => rows_written = Cardinality(committed)

\* The rows older than the cutoff, of either table.
Old(tables) == {row \in tables.events \cup tables.snapshots : row.ts_ns < cutoff}

(***************************************************************************)
(* A process that ends in the middle of a batch or of a purge ("a purge    *)
(* interrupted halfway") undoes all of it if its transaction is still      *)
(* open; and a purge that returns without setting err has deleted nothing  *)
(* or every older row of both tables, whichever of BEGIN and COMMIT, the   *)
(* results of which it ignores, have failed.                               *)
(***************************************************************************)
WholeOrNothing ==
  [][/\ /\ txn /\ pc' = "down"
        /\ pc \in {"insert", "commit", "delete_events", "delete_snapshots", "purge_commit"}
        => disk' = before
     /\ pc = "purge_commit" /\ pc' = "up" /\ ~err => disk' = before \/ Old(disk') = {}]_vars

(***************************************************************************)
(* A purge deletes what it is asked to, for good, and nothing else: a row  *)
(* that had come before a complete purge and is older than its cutoff is   *)
(* never in a table again, also not when it was only staged then; and a    *)
(* committed event that no purge has asked for is still there.  An old row *)
(* that comes after the purge stays until the next one.                    *)
(***************************************************************************)
PurgeIsExact ==
  /\ (disk.events \cup disk.snapshots) \cap purged = {}
  /\ \A row \in committed : row.ts_ns >= reach => row \in disk.events

(***************************************************************************)
(* "One transaction: a purge interrupted halfway would otherwise leave     *)
(* snapshots pointing at events that are already gone": nothing of a purge *)
(* is on disk before its COMMIT.  The result of BEGIN is ignored, so that  *)
(* this does not hold when it fails.                                       *)
(***************************************************************************)
PurgeIsOneTransaction ==
  pc \in {"delete_events", "delete_snapshots", "purge_commit"} => disk = before

=============================================================================
