--------------------------- MODULE EventStoreProofs ---------------------------
(***************************************************************************)
(* EventStore keeps its inductive invariant (EventStoreInv), and so its    *)
(* safety properties, for any number of events, times, failed statements   *)
(* and crashes.  One lemma per part of the invariant, one step per         *)
(* statement.                                                              *)
(***************************************************************************)
EXTENDS EventStoreInv, FiniteSetTheorems, TLAPS

(* What the statements that change a table do, and what they leave when they *)
(* fail, written out in the fields of the tables.                            *)

\* A statement that failed changed nothing, or took its transaction with it.
Failed ==
  /\ disk' = disk /\ txn' \in BOOLEAN
  /\ txn' => txn /\ view' = view
  /\ ~txn' => view' = disk

Written == disk' = (IF txn THEN disk ELSE view') /\ view' \in Tables /\ UNCHANGED txn

RowInserted ==
  /\ Written
  /\ view'.events = view.events \cup {staged[written + 1]}
  /\ view'.snapshots = view.snapshots
  /\ written' = written + 1 /\ UNCHANGED <<staged, write_errors>>

RowFailed ==
  /\ Failed
  /\ staged' \in Seq(Rows) /\ Len(staged') = Len(staged) - 1
  /\ \A i \in 1 .. Len(staged) - 1 :
       staged'[i] = IF i <= written THEN staged[i] ELSE staged[i + 1]
  /\ written' = written /\ write_errors' = write_errors + 1

RowStaged(row) ==
  /\ row.id = arrived + 1
  /\ Len(staged) \in Nat /\ staged' \in Seq(Rows) /\ Len(staged') = Len(staged) + 1
  /\ \A i \in 1 .. Len(staged') : \/ i \in 1 .. Len(staged) /\ staged'[i] = staged[i]
                                  \/ i = Len(staged) + 1 /\ staged'[i] = row
  /\ accepted' = accepted \cup {row}
  /\ Range(staged) \cup {row} \subseteq Range(staged')

SnapshotStored ==
  /\ Written
  /\ view'.events = view.events
  /\ \E row \in Rows : row.id = arrived + 1 /\ view'.snapshots = view.snapshots \cup {row}
  /\ UNCHANGED write_errors

SnapshotFailed == Failed /\ write_errors' = write_errors + 1

EventsDeleted ==
  /\ Written
  /\ view'.events = {row \in view.events : row.ts_ns >= cutoff}
  /\ view'.snapshots = view.snapshots
  /\ UNCHANGED err

SnapshotsDeleted ==
  /\ Written
  /\ view'.events = view.events
  /\ view'.snapshots = {row \in view.snapshots : row.ts_ns >= cutoff}
  /\ UNCHANGED err

DeleteFailed == Failed /\ err' = TRUE

\* The fields of a row.
LEMMA RowFields ==
  \A row \in Rows : row.id \in Nat /\ row.id \in 1 .. MaxRows /\ row.ts_ns \in Nat
BY StoreAssumption DEF Rows, Times

\* The failure of a statement.
LEMMA FailFacts ==
  ASSUME TypeOK, StatementFails
  PROVE  Failed /\ failures' \in 0 .. MaxFailures
BY StoreAssumption DEF StatementFails, Breaks, TypeOK, TablesTypeOK, Failed

\* A row is inserted, or taken out of the batch with an error counted.
LEMMA InsertFacts ==
  ASSUME TypeOK, Insert
  PROVE  /\ RowInserted \/ RowFailed
         /\ pc = "insert" /\ pc' = "insert" /\ Len(staged) \in Nat
         /\ written + 1 \in 1 .. Len(staged) /\ staged[written + 1] \in Rows
         /\ committed' = committed \cup (disk'.events \cap accepted)
         /\ UNCHANGED <<rows_written, call, arrived, crashes, accepted, before, purges>>
         /\ failures' \in 0 .. MaxFailures
<1>1. /\ pc = "insert" /\ pc' = "insert" /\ Len(staged) \in Nat
      /\ written + 1 \in 1 .. Len(staged) /\ staged[written + 1] \in Rows
      /\ committed' = committed \cup (disk'.events \cap accepted)
      /\ UNCHANGED <<rows_written, call, arrived, crashes, accepted, before, purges>>
  BY DEF Insert, TypeOK, Records
<1>2. CASE /\ Changes([view EXCEPT !.events = @ \cup {staged[written + 1]}])
           /\ written' = written + 1 /\ UNCHANGED <<staged, write_errors>>
  <2> DEFINE new == [view EXCEPT !.events = @ \cup {staged[written + 1]}]
  <2>1. new \in Tables /\ new.events = view.events \cup {staged[written + 1]}
        /\ new.snapshots = view.snapshots
    BY <1>1 DEF TypeOK, TablesTypeOK, Tables
  <2> HIDE DEF new
  <2>2. view' = new /\ disk' = (IF txn THEN disk ELSE new) /\ UNCHANGED <<txn, failures>>
    BY <1>2 DEF Changes, new
  <2>3. RowInserted
    BY <1>2, <2>1, <2>2 DEF RowInserted, Written
  <2>4. QED
    BY <1>1, <2>2, <2>3 DEF TypeOK
<1>3. CASE /\ StatementFails
           /\ staged' = [i \in 1 .. Len(staged) - 1 |->
                           IF i <= written THEN staged[i] ELSE staged[i + 1]]
           /\ write_errors' = write_errors + 1 /\ UNCHANGED written
  <2>1. staged \in Seq(Rows) /\ Len(staged) - 1 \in Nat /\ written \in Nat
    BY <1>1 DEF TypeOK
  <2>2. \A i \in 1 .. Len(staged) - 1 :
          (IF i <= written THEN staged[i] ELSE staged[i + 1]) \in Rows
    BY <2>1
  <2>3. /\ staged' \in Seq(Rows) /\ Len(staged') = Len(staged) - 1
        /\ \A i \in 1 .. Len(staged) - 1 :
             staged'[i] = IF i <= written THEN staged[i] ELSE staged[i + 1]
    BY <1>3, <2>1, <2>2
  <2>4. Failed /\ failures' \in 0 .. MaxFailures
    BY <1>3, FailFacts
  <2>5. QED
    BY <1>1, <1>3, <2>3, <2>4 DEF RowFailed
<1>4. QED
  BY <1>1, <1>2, <1>3 DEF Insert

\* A snapshot is stored, outside the transactions of the batches, or counted as
\* an error.
LEMMA SnapshotFacts ==
  ASSUME TypeOK, WriteSnapshot
  PROVE  /\ SnapshotStored \/ SnapshotFailed
         /\ pc = "up" /\ arrived' = arrived + 1 /\ arrived' \in 1 .. MaxRows
         /\ UNCHANGED <<staged, written, rows_written, pc, call, crashes, history>>
         /\ failures' \in 0 .. MaxFailures
<1>1. PICK row \in Rows :
        /\ Arrives(row)
        /\ \/ /\ Changes([view EXCEPT !.snapshots = @ \cup {row}])
              /\ UNCHANGED write_errors
           \/ StatementFails /\ write_errors' = write_errors + 1
  BY DEF WriteSnapshot
<1>2. /\ pc = "up" /\ row.id = arrived + 1 /\ arrived' = arrived + 1 /\ arrived' \in 1 .. MaxRows
      /\ UNCHANGED <<staged, written, rows_written, pc, call, crashes, history>>
  BY <1>1 DEF WriteSnapshot, Arrives, Rows
<1>3. CASE Changes([view EXCEPT !.snapshots = @ \cup {row}]) /\ UNCHANGED write_errors
  <2> DEFINE new == [view EXCEPT !.snapshots = @ \cup {row}]
  <2>1. /\ new \in Tables /\ new.events = view.events
        /\ new.snapshots = view.snapshots \cup {row}
    BY <1>1 DEF TypeOK, TablesTypeOK, Tables
  <2> HIDE DEF new
  <2>2. view' = new /\ disk' = (IF txn THEN disk ELSE new) /\ UNCHANGED <<txn, failures>>
    BY <1>3 DEF Changes, new
  <2>3. Written /\ view'.events = view.events /\ UNCHANGED write_errors
    BY <1>3, <2>1, <2>2 DEF Written
  <2>4. row.id = arrived + 1 /\ view'.snapshots = view.snapshots \cup {row}
    BY <1>2, <2>1, <2>2
  <2>5. SnapshotStored
    BY <1>1, <2>3, <2>4 DEF SnapshotStored
  <2>6. QED
    BY <1>2, <2>2, <2>5 DEF TypeOK
<1>4. CASE StatementFails /\ write_errors' = write_errors + 1
  BY <1>2, <1>4, FailFacts DEF SnapshotFailed
<1>5. QED
  BY <1>1, <1>3, <1>4

\* The next row is staged.
LEMMA StageFacts ==
  ASSUME TypeOK, Stage
  PROVE  /\ \E row \in Rows : RowStaged(row)
         /\ pc = "up" /\ arrived' = arrived + 1 /\ arrived' \in 1 .. MaxRows
         /\ UNCHANGED <<disk, view, txn, failures, written, rows_written, write_errors, pc,
                        after, cutoff, err, crashes, committed, before, purged, reach>>
<1>1. PICK row \in Rows : /\ Arrives(row)
                          /\ staged' = Append(staged, row)
                          /\ accepted' = accepted \cup {row}
  BY DEF Stage
<1>2. /\ Len(staged) \in Nat /\ staged' \in Seq(Rows) /\ Len(staged') = Len(staged) + 1
      /\ \A i \in 1 .. Len(staged') : \/ i \in 1 .. Len(staged) /\ staged'[i] = staged[i]
                                      \/ i = Len(staged) + 1 /\ staged'[i] = row
  BY <1>1 DEF TypeOK
<1>3. row.id = arrived + 1 /\ arrived' = arrived + 1 /\ arrived' \in 1 .. MaxRows
  BY <1>1, RowFields DEF Arrives
<1>4. /\ pc = "up"
      /\ UNCHANGED <<disk, view, txn, failures, written, rows_written, write_errors, pc,
                     after, cutoff, err, crashes, committed, before, purged, reach>>
  BY DEF Stage, db, call, purges
<1>5. Range(staged) \cup {row} \subseteq Range(staged')
  <2>1. /\ DOMAIN staged = 1 .. Len(staged) /\ DOMAIN staged' = 1 .. Len(staged) + 1
        /\ \A i \in 1 .. Len(staged) : staged'[i] = staged[i]
        /\ staged'[Len(staged) + 1] = row /\ Len(staged) \in Nat
    BY <1>1 DEF TypeOK
  <2>2. 1 .. Len(staged) \subseteq 1 .. Len(staged) + 1 /\ Len(staged) + 1 \in 1 .. Len(staged) + 1
    BY <2>1
  <2>3. QED
    BY <2>1, <2>2 DEF Range
<1>6. QED
  BY <1>1, <1>2, <1>3, <1>4, <1>5 DEF RowStaged

\* A table is emptied of the rows older than the cutoff, or the purge has failed.
LEMMA DeleteFacts ==
  ASSUME TypeOK, NEW here, NEW next
  PROVE  /\ Delete("events", here, next) => EventsDeleted \/ DeleteFailed
         /\ Delete("snapshots", here, next) => SnapshotsDeleted \/ DeleteFailed
         /\ \A table \in {"events", "snapshots"} : Delete(table, here, next) =>
              /\ pc = here /\ pc' = next
              /\ committed' = committed \cup (disk'.events \cap accepted)
              /\ UNCHANGED <<object, after, cutoff, arrived, crashes, accepted, before, purges>>
              /\ failures' \in 0 .. MaxFailures /\ err' \in BOOLEAN
<1> DEFINE new(table) == [view EXCEPT ![table] = {row \in @ : row.ts_ns >= cutoff}]
<1>1. /\ new("events") \in Tables
      /\ new("events").events = {row \in view.events : row.ts_ns >= cutoff}
      /\ new("events").snapshots = view.snapshots
  BY DEF TypeOK, TablesTypeOK, Tables
<1>2. /\ new("snapshots") \in Tables
      /\ new("snapshots").snapshots = {row \in view.snapshots : row.ts_ns >= cutoff}
      /\ new("snapshots").events = view.events
  BY DEF TypeOK, TablesTypeOK, Tables
<1>3. \A table \in {"events", "snapshots"} : Delete(table, here, next) =>
        /\ \/ Changes(new(table)) /\ UNCHANGED err
           \/ StatementFails /\ err' = TRUE
        /\ pc = here /\ pc' = next
        /\ committed' = committed \cup (disk'.events \cap accepted)
        /\ UNCHANGED <<object, after, cutoff, arrived, crashes, accepted, before, purges>>
  BY DEF Delete, Records
<1> HIDE DEF new
<1>4. \A table : Changes(new(table)) =>
        /\ view' = new(table) /\ disk' = (IF txn THEN disk ELSE new(table))
        /\ UNCHANGED <<txn, failures>>
  BY DEF Changes
<1>5. Delete("events", here, next) => EventsDeleted \/ DeleteFailed
  <2>1. SUFFICES ASSUME Changes(new("events")), UNCHANGED err
                 PROVE  EventsDeleted
    BY <1>3, FailFacts DEF DeleteFailed
  <2>2. QED
    BY <1>1, <1>4, <2>1 DEF EventsDeleted, Written
<1>6. Delete("snapshots", here, next) => SnapshotsDeleted \/ DeleteFailed
  <2>1. SUFFICES ASSUME Changes(new("snapshots")), UNCHANGED err
                 PROVE  SnapshotsDeleted
    BY <1>3, FailFacts DEF DeleteFailed
  <2>2. QED
    BY <1>2, <1>4, <2>1 DEF SnapshotsDeleted, Written
<1>7. failures \in 0 .. MaxFailures /\ err \in BOOLEAN
  BY DEF TypeOK
<1>8. QED
  BY <1>3, <1>4, <1>5, <1>6, <1>7, FailFacts

-----------------------------------------------------------------------------
\* The tables keep their types.
LEMMA TablesTypeStep ==
  ASSUME TypeOK, OrderInv, [Next]_vars
  PROVE  TablesTypeOK'
<1> USE StoreAssumption, RowFields DEF db, object, call, purges, history, OrderInv, TypeOK, TablesTypeOK, StorePc, Tables
<1>1. CASE Stage
  BY <1>1, StageFacts
<1>2. CASE Flush
  BY <1>2 DEF Flush, CallFlush
<1>3. CASE FlushBegin
  BY <1>3 DEF FlushBegin, Returns, BeginOk, BeginFails, Breaks
<1>4. CASE Insert
  <2>1. /\ pc = "insert" /\ pc' = "insert" /\ Len(staged) \in Nat
        /\ written + 1 \in 1 .. Len(staged) /\ staged[written + 1] \in Rows
        /\ committed' = committed \cup (disk'.events \cap accepted)
        /\ UNCHANGED <<rows_written, call, arrived, crashes, accepted, before, purges>>
        /\ failures' \in 0 .. MaxFailures
    BY <1>4, InsertFacts
  <2>2. CASE RowInserted
    BY <2>1, <2>2 DEF RowInserted, Written
  <2>3. CASE RowFailed
    BY <2>1, <2>3 DEF RowFailed, Failed
  <2>4. QED
    BY <1>4, <2>2, <2>3, InsertFacts
<1>5. CASE InsertDone
  BY <1>5 DEF InsertDone
<1>6. CASE FlushCommit
  BY <1>6 DEF FlushCommit, CommitOk, CommitFails, StatementFails, Breaks, Returns,
    Records
<1>7. CASE FlushRollback
  BY <1>7 DEF FlushRollback, RollsBack, Returns
<1>8. CASE WriteSnapshot
  <2>1. /\ pc = "up" /\ arrived' = arrived + 1 /\ arrived' \in 1 .. MaxRows
        /\ UNCHANGED <<staged, written, rows_written, pc, call, crashes, history>>
        /\ failures' \in 0 .. MaxFailures
    BY <1>8, SnapshotFacts
  <2>2. CASE SnapshotStored
    BY <2>1, <2>2 DEF SnapshotStored, Written
  <2>3. CASE SnapshotFailed
    BY <2>1, <2>3 DEF SnapshotFailed, Failed
  <2>4. QED
    BY <1>8, <2>2, <2>3, SnapshotFacts
<1>9. CASE Purge
  BY <1>9 DEF Purge, Asks, CallFlush
<1>10. CASE PurgeBegin
  BY <1>10 DEF PurgeBegin, BeginOk, BeginFails, Breaks
<1>11. CASE Delete("events", "delete_events", "delete_snapshots")
  <2>1. /\ pc = "delete_events" /\ pc' = "delete_snapshots"
        /\ committed' = committed \cup (disk'.events \cap accepted)
        /\ UNCHANGED <<object, after, cutoff, arrived, crashes, accepted, before, purges>>
        /\ failures' \in 0 .. MaxFailures /\ err' \in BOOLEAN
    BY <1>11, DeleteFacts
  <2>2. CASE EventsDeleted
    BY <2>1, <2>2 DEF EventsDeleted, Written
  <2>3. CASE DeleteFailed
    BY <2>1, <2>3 DEF DeleteFailed, Failed
  <2>4. QED
    BY <1>11, <2>2, <2>3, DeleteFacts
<1>12. CASE Delete("snapshots", "delete_snapshots", "purge_commit")
  <2>1. /\ pc = "delete_snapshots" /\ pc' = "purge_commit"
        /\ committed' = committed \cup (disk'.events \cap accepted)
        /\ UNCHANGED <<object, after, cutoff, arrived, crashes, accepted, before, purges>>
        /\ failures' \in 0 .. MaxFailures /\ err' \in BOOLEAN
    BY <1>12, DeleteFacts
  <2>2. CASE SnapshotsDeleted
    BY <2>1, <2>2 DEF SnapshotsDeleted, Written
  <2>3. CASE DeleteFailed
    BY <2>1, <2>3 DEF DeleteFailed, Failed
  <2>4. QED
    BY <1>12, <2>2, <2>3, DeleteFacts
<1>13. CASE PurgeCommit
  BY <1>13 DEF PurgeCommit, CommitOk, CommitFails, StatementFails, Breaks, Records
<1>14. CASE Close
  BY <1>14 DEF Close, CallFlush
<1>15. CASE Closed
  BY <1>15 DEF Closed, Ends, RollsBack
<1>16. CASE Crash
  BY <1>16 DEF Crash, Ends, RollsBack
<1>17. CASE Open
  BY <1>17 DEF Open
<1>18. CASE UNCHANGED vars
  BY <1>18 DEF vars, db, object, call, purges, history
<1>19. QED
  BY <1>1, <1>2, <1>3, <1>4, <1>5, <1>6, <1>7, <1>8, <1>9, <1>10, <1>11, <1>12,
     <1>13, <1>14, <1>15, <1>16, <1>17, <1>18
     DEF Next

\* So does the rest of the state.
LEMMA TypeStep ==
  ASSUME TypeOK, OrderInv, TablesTypeOK', [Next]_vars
  PROVE  TypeOK'
<1>0. Tables = [events : SUBSET Rows, snapshots : SUBSET Rows]
  BY DEF Tables
<1> USE StoreAssumption, RowFields DEF db, object, call, purges, history, OrderInv, TypeOK, StorePc
<1>1. CASE Stage
  <2>0. PICK row \in Rows : RowStaged(row)
    BY <1>1, StageFacts
  <2>1. /\ row.id = arrived + 1
        /\ Len(staged) \in Nat /\ staged' \in Seq(Rows) /\ Len(staged') = Len(staged) + 1
        /\ \A i \in 1 .. Len(staged') : \/ i \in 1 .. Len(staged) /\ staged'[i] = staged[i]
                                        \/ i = Len(staged) + 1 /\ staged'[i] = row
        /\ accepted' = accepted \cup {row}
    BY <2>0 DEF RowStaged
  <2>2. staged' \in Seq(Rows) /\ written' \in 0 .. Len(staged')
    BY <1>1, <2>1, StageFacts
  <2>3. accepted' \subseteq Rows
    BY <2>1
  <2>4. arrived' \in 0 .. MaxRows
    BY <1>1, StageFacts
  <2>5. QED
    BY <1>1, <2>2, <2>3, <2>4, StageFacts
<1>2. CASE Flush
  BY <1>2 DEF Flush, CallFlush
<1>3. CASE FlushBegin
  <2>1. CASE BeginOk /\ pc' = "insert" /\ UNCHANGED object
    BY <1>3, <2>1 DEF FlushBegin, BeginOk
  <2>2. CASE BeginFails /\ write_errors' = write_errors + 1 /\ Returns /\ UNCHANGED rows_written
    <3>1. failures' \in 0 .. MaxFailures
      BY <2>2 DEF BeginFails, Breaks
    <3>2. staged' = << >> /\ written' = 0 /\ pc' = after
      BY <2>2 DEF Returns
    <3>3. QED
      BY <1>3, <2>2, <3>1, <3>2 DEF FlushBegin
  <2>3. QED
    BY <1>3, <2>1, <2>2 DEF FlushBegin
<1>4. CASE Insert
  <2>1. /\ pc = "insert" /\ pc' = "insert" /\ Len(staged) \in Nat
        /\ written + 1 \in 1 .. Len(staged) /\ staged[written + 1] \in Rows
        /\ committed' = committed \cup (disk'.events \cap accepted)
        /\ UNCHANGED <<rows_written, call, arrived, crashes, accepted, before, purges>>
        /\ failures' \in 0 .. MaxFailures
    BY <1>4, InsertFacts
  <2>2. committed' \subseteq Rows
    BY <2>1
  <2>3. CASE RowInserted
    BY <2>1, <2>2, <2>3 DEF RowInserted
  <2>4. CASE RowFailed
    <3>1. staged' \in Seq(Rows) /\ written' \in 0 .. Len(staged') /\ write_errors' \in Nat
      BY <2>1, <2>4 DEF RowFailed
    <3>2. QED
      BY <2>1, <2>2, <3>1
  <2>5. QED
    BY <1>4, <2>3, <2>4, InsertFacts
<1>5. CASE InsertDone
  BY <1>5 DEF InsertDone
<1>6. CASE FlushCommit
  <2>1. accepted' = accepted /\ committed' \subseteq Rows
    BY <1>6 DEF FlushCommit, Records
  <2>2. failures' \in 0 .. MaxFailures
    BY <1>6 DEF FlushCommit, CommitOk, CommitFails, StatementFails, Breaks
  <2>3. CASE Returns /\ rows_written' = rows_written + written /\ UNCHANGED write_errors
    BY <1>6, <2>1, <2>2, <2>3 DEF FlushCommit, Returns
  <2>4. CASE /\ pc' = "rollback" /\ write_errors' = write_errors + 1
             /\ UNCHANGED <<staged, written, rows_written>>
    BY <1>6, <2>1, <2>2, <2>4 DEF FlushCommit
  <2>5. QED
    BY <1>6, <2>3, <2>4 DEF FlushCommit
<1>7. CASE FlushRollback
  BY <1>7 DEF FlushRollback, RollsBack, Returns
<1>8. CASE WriteSnapshot
  <2>1. /\ pc = "up" /\ arrived' = arrived + 1 /\ arrived' \in 1 .. MaxRows
        /\ UNCHANGED <<staged, written, rows_written, pc, call, crashes, history>>
        /\ failures' \in 0 .. MaxFailures
    BY <1>8, SnapshotFacts
  <2>2. write_errors' \in Nat
    BY <1>8, SnapshotFacts DEF SnapshotStored, SnapshotFailed
  <2>3. QED
    BY <2>1, <2>2
<1>9. CASE Purge
  <2>1. pc' \in {"purge_begin", "begin"} /\ after' = "purge_begin" /\ err' = FALSE
    BY <1>9 DEF Purge, Asks, CallFlush
  <2>2. cutoff' \in 0 .. MaxTime /\ reach' \in 0 .. MaxTime
    BY <1>9 DEF Purge, Asks, Times
  <2>3. QED
    BY <1>9, <2>1, <2>2 DEF Purge, Asks, CallFlush
<1>10. CASE PurgeBegin
  BY <1>10 DEF PurgeBegin, BeginOk, BeginFails, Breaks
<1>11. CASE Delete("events", "delete_events", "delete_snapshots")
  <2>1. /\ pc = "delete_events" /\ pc' = "delete_snapshots"
        /\ committed' = committed \cup (disk'.events \cap accepted)
        /\ UNCHANGED <<object, after, cutoff, arrived, crashes, accepted, before, purges>>
        /\ failures' \in 0 .. MaxFailures /\ err' \in BOOLEAN
    BY <1>11, DeleteFacts
  <2>2. CASE EventsDeleted
    BY <2>1, <2>2 DEF EventsDeleted, Written
  <2>3. CASE DeleteFailed
    BY <2>1, <2>3 DEF DeleteFailed, Failed
  <2>4. QED
    BY <1>11, <2>2, <2>3, DeleteFacts
<1>12. CASE Delete("snapshots", "delete_snapshots", "purge_commit")
  <2>1. /\ pc = "delete_snapshots" /\ pc' = "purge_commit"
        /\ committed' = committed \cup (disk'.events \cap accepted)
        /\ UNCHANGED <<object, after, cutoff, arrived, crashes, accepted, before, purges>>
        /\ failures' \in 0 .. MaxFailures /\ err' \in BOOLEAN
    BY <1>12, DeleteFacts
  <2>2. CASE SnapshotsDeleted
    BY <2>1, <2>2 DEF SnapshotsDeleted, Written
  <2>3. CASE DeleteFailed
    BY <2>1, <2>3 DEF DeleteFailed, Failed
  <2>4. QED
    BY <1>12, <2>2, <2>3, DeleteFacts
<1>13. CASE PurgeCommit
  <2>1. accepted' = accepted /\ committed' \subseteq Rows
    BY <1>13 DEF PurgeCommit, Records
  <2>2. failures' \in 0 .. MaxFailures
    BY <1>13 DEF PurgeCommit, CommitOk, CommitFails, StatementFails, Breaks
  <2>3. purged' \subseteq Rows /\ pc' = "up"
    BY <1>13 DEF PurgeCommit, Due
  <2>4. QED
    BY <1>13, <2>1, <2>2, <2>3 DEF PurgeCommit
<1>14. CASE Close
  BY <1>14 DEF Close, CallFlush
<1>15. CASE Closed
  BY <1>15 DEF Closed, Ends, RollsBack
<1>16. CASE Crash
  BY <1>16 DEF Crash, Ends, RollsBack
<1>17. CASE Open
  BY <1>17 DEF Open
<1>18. CASE UNCHANGED vars
  BY <1>18 DEF vars, db, object, call, purges, history
<1>19. QED
  BY <1>1, <1>2, <1>3, <1>4, <1>5, <1>6, <1>7, <1>8, <1>9, <1>10, <1>11, <1>12,
     <1>13, <1>14, <1>15, <1>16, <1>17, <1>18
     DEF Next

\* The order of the staged events is preserved, and that of the rows to come.
LEMMA OrderStep ==
  ASSUME TypeOK, OrderInv, PhasesInv, [Next]_vars
  PROVE  OrderInv'
<1> USE StoreAssumption, RowFields DEF db, object, call, purges, history, OrderInv, PhasesInv, Flushing, Purging, TypeOK, TablesTypeOK, StorePc, Tables
<1>1. CASE Stage
  <2>0. PICK row \in Rows : RowStaged(row)
    BY <1>1, StageFacts
  <2>1. /\ row.id = arrived + 1
        /\ Len(staged) \in Nat /\ staged' \in Seq(Rows) /\ Len(staged') = Len(staged) + 1
        /\ \A i \in 1 .. Len(staged') : \/ i \in 1 .. Len(staged) /\ staged'[i] = staged[i]
                                        \/ i = Len(staged) + 1 /\ staged'[i] = row
        /\ accepted' = accepted \cup {row}
    BY <2>0 DEF RowStaged
  <2>2. ASSUME NEW i \in 1 .. Len(staged'), NEW j \in 1 .. Len(staged'), i < j
        PROVE  staged'[i].id < staged'[j].id
    <3>1. i # Len(staged) + 1
      BY <2>1, <2>2
    <3>2. i \in 1 .. Len(staged) /\ staged'[i] = staged[i]
      BY <2>1, <3>1
    <3>3. CASE j \in 1 .. Len(staged) /\ staged'[j] = staged[j]
      BY <2>2, <3>2, <3>3
    <3>4. CASE staged'[j] = row
      <4>1. staged[i] \in accepted /\ staged[i] \in Rows
        BY <3>2
      <4>2. staged[i].id <= arrived /\ staged[i].id \in Nat
        BY <4>1
      <4>3. QED
        BY <2>1, <3>2, <3>4, <4>2
    <3>5. QED
      BY <2>1, <3>3, <3>4
  <2>3. \A i \in 1 .. Len(staged') : staged'[i] \in accepted'
    BY <2>1
  <2>4. \A x \in accepted' \cup disk'.events \cup view'.events \cup purged' : x.id <= arrived'
    <3>1. \A x \in accepted \cup disk.events \cup view.events \cup purged :
            x.id <= arrived /\ x.id \in Nat
      OBVIOUS
    <3>2. QED
      BY <1>1, <2>1, <3>1, StageFacts
  <2>5. QED
    BY <2>2, <2>3, <2>4
<1>2. CASE Flush
  BY <1>2 DEF Flush, CallFlush
<1>3. CASE FlushBegin
  BY <1>3 DEF FlushBegin, Returns, BeginOk, BeginFails, Breaks
<1>4. CASE Insert
  <2>1. /\ pc = "insert" /\ pc' = "insert" /\ Len(staged) \in Nat
        /\ written + 1 \in 1 .. Len(staged) /\ staged[written + 1] \in Rows
        /\ committed' = committed \cup (disk'.events \cap accepted)
        /\ UNCHANGED <<rows_written, call, arrived, crashes, accepted, before, purges>>
        /\ failures' \in 0 .. MaxFailures
    BY <1>4, InsertFacts
  <2>2. CASE RowInserted
    BY <2>1, <2>2 DEF RowInserted, Written
  <2>3. CASE RowFailed
    <3> DEFINE n == Len(staged)
               p(i) == IF i <= written THEN i ELSE i + 1
    <3>1. /\ n \in Nat /\ written \in Nat /\ Len(staged') = n - 1
          /\ \A i \in 1 .. n - 1 :
               p(i) \in 1 .. n /\ staged'[i] = staged[p(i)] /\ staged[p(i)].id \in Nat
      <4>1. /\ n \in Nat /\ written \in Nat /\ Len(staged') = n - 1
            /\ \A i \in 1 .. n : staged[i].id \in Nat
        BY <2>1, <2>3 DEF RowFailed
      <4>2. ASSUME NEW i \in 1 .. n - 1
            PROVE  staged'[i] = staged[p(i)]
        BY <2>3 DEF RowFailed
      <4>3. \A i \in 1 .. n - 1 : p(i) \in 1 .. n
        BY <4>1
      <4> HIDE DEF p
      <4>4. QED
        BY <4>1, <4>2, <4>3
    <3>2. \A i, j \in 1 .. n - 1 : i < j => p(i) < p(j)
      BY <3>1
    <3>3. \A i, j \in 1 .. n : i < j => staged[i].id < staged[j].id
      OBVIOUS
    <3>4. \A i \in 1 .. n : staged[i] \in accepted
      OBVIOUS
    <3> HIDE DEF p
    <3>5. \A i, j \in 1 .. n - 1 : i < j => staged'[i].id < staged'[j].id
      BY <3>1, <3>2, <3>3
    <3>6. \A i \in 1 .. n - 1 : staged'[i] \in accepted
      BY <3>1, <3>4
    <3>7. \A row \in disk'.events \cup view'.events \cup purged' : row.id <= arrived'
      BY <2>1, <2>3 DEF RowFailed, Failed
    <3>8. QED
      BY <2>1, <3>1, <3>5, <3>6, <3>7
  <2>4. QED
    BY <1>4, <2>2, <2>3, InsertFacts
<1>5. CASE InsertDone
  BY <1>5 DEF InsertDone
<1>6. CASE FlushCommit
  BY <1>6 DEF FlushCommit, CommitOk, CommitFails, StatementFails, Breaks, Returns,
    Records
<1>7. CASE FlushRollback
  BY <1>7 DEF FlushRollback, RollsBack, Returns
<1>8. CASE WriteSnapshot
  <2>1. /\ pc = "up" /\ arrived' = arrived + 1 /\ arrived' \in 1 .. MaxRows
        /\ UNCHANGED <<staged, written, rows_written, pc, call, crashes, history>>
        /\ failures' \in 0 .. MaxFailures
    BY <1>8, SnapshotFacts
  <2>2. disk'.events \cup view'.events \subseteq disk.events \cup view.events
    BY <1>8, SnapshotFacts DEF SnapshotStored, SnapshotFailed, Written, Failed
  <2>3. \A row \in accepted \cup disk.events \cup view.events \cup purged :
          row.id <= arrived /\ row.id \in Nat
    OBVIOUS
  <2>4. \A row \in accepted' \cup disk'.events \cup view'.events \cup purged' : row.id <= arrived'
    BY <2>1, <2>2, <2>3
  <2>5. QED
    BY <2>1, <2>4
<1>9. CASE Purge
  BY <1>9 DEF Purge, Asks, CallFlush
<1>10. CASE PurgeBegin
  BY <1>10 DEF PurgeBegin, BeginOk, BeginFails, Breaks
<1>11. CASE Delete("events", "delete_events", "delete_snapshots")
  <2>1. /\ pc = "delete_events" /\ pc' = "delete_snapshots"
        /\ committed' = committed \cup (disk'.events \cap accepted)
        /\ UNCHANGED <<object, after, cutoff, arrived, crashes, accepted, before, purges>>
        /\ failures' \in 0 .. MaxFailures /\ err' \in BOOLEAN
    BY <1>11, DeleteFacts
  <2>2. CASE EventsDeleted
    BY <2>1, <2>2 DEF EventsDeleted, Written
  <2>3. CASE DeleteFailed
    BY <2>1, <2>3 DEF DeleteFailed, Failed
  <2>4. QED
    BY <1>11, <2>2, <2>3, DeleteFacts
<1>12. CASE Delete("snapshots", "delete_snapshots", "purge_commit")
  <2>1. /\ pc = "delete_snapshots" /\ pc' = "purge_commit"
        /\ committed' = committed \cup (disk'.events \cap accepted)
        /\ UNCHANGED <<object, after, cutoff, arrived, crashes, accepted, before, purges>>
        /\ failures' \in 0 .. MaxFailures /\ err' \in BOOLEAN
    BY <1>12, DeleteFacts
  <2>2. CASE SnapshotsDeleted
    BY <2>1, <2>2 DEF SnapshotsDeleted, Written
  <2>3. CASE DeleteFailed
    BY <2>1, <2>3 DEF DeleteFailed, Failed
  <2>4. QED
    BY <1>12, <2>2, <2>3, DeleteFacts
<1>13. CASE PurgeCommit
  <2>1. /\ disk' \in {disk, view} /\ view' \in {disk, view}
        /\ purged' \subseteq purged \cup Due
        /\ UNCHANGED <<staged, accepted, arrived>>
    BY <1>13 DEF PurgeCommit, CommitOk, CommitFails, StatementFails, Breaks
  <2>2. \A row \in purged' : row.id <= arrived
    BY <2>1 DEF Due
  <2>3. QED
    BY <2>1, <2>2
<1>14. CASE Close
  BY <1>14 DEF Close, CallFlush
<1>15. CASE Closed
  BY <1>15 DEF Closed, Ends, RollsBack
<1>16. CASE Crash
  BY <1>16 DEF Crash, Ends, RollsBack
<1>17. CASE Open
  BY <1>17 DEF Open
<1>18. CASE UNCHANGED vars
  BY <1>18 DEF vars, db, object, call, purges, history
<1>19. QED
  BY <1>1, <1>2, <1>3, <1>4, <1>5, <1>6, <1>7, <1>8, <1>9, <1>10, <1>11, <1>12,
     <1>13, <1>14, <1>15, <1>16, <1>17, <1>18
     DEF Next

\* Flushes and purges start with nothing inserted.
LEMMA PhasesStep ==
  ASSUME TypeOK, PhasesInv, [Next]_vars
  PROVE  PhasesInv'
<1> USE StoreAssumption, RowFields DEF db, object, call, purges, history, PhasesInv, Flushing, Purging, TypeOK, StorePc
<1>1. CASE Stage
  BY <1>1, StageFacts
<1>2. CASE Flush
  BY <1>2 DEF Flush, CallFlush
<1>3. CASE FlushBegin
  BY <1>3 DEF FlushBegin, Returns, BeginOk, BeginFails, Breaks
<1>4. CASE Insert
  <2>1. /\ pc = "insert" /\ pc' = "insert" /\ Len(staged) \in Nat
        /\ written + 1 \in 1 .. Len(staged) /\ staged[written + 1] \in Rows
        /\ committed' = committed \cup (disk'.events \cap accepted)
        /\ UNCHANGED <<rows_written, call, arrived, crashes, accepted, before, purges>>
        /\ failures' \in 0 .. MaxFailures
    BY <1>4, InsertFacts
  <2>2. CASE RowInserted
    BY <2>1, <2>2 DEF RowInserted, Written
  <2>3. CASE RowFailed
    BY <2>1, <2>3 DEF RowFailed, Failed
  <2>4. QED
    BY <1>4, <2>2, <2>3, InsertFacts
<1>5. CASE InsertDone
  BY <1>5 DEF InsertDone
<1>6. CASE FlushCommit
  BY <1>6 DEF FlushCommit, CommitOk, CommitFails, StatementFails, Breaks, Returns,
    Records
<1>7. CASE FlushRollback
  BY <1>7 DEF FlushRollback, RollsBack, Returns
<1>8. CASE WriteSnapshot
  <2>1. /\ pc = "up" /\ arrived' = arrived + 1 /\ arrived' \in 1 .. MaxRows
        /\ UNCHANGED <<staged, written, rows_written, pc, call, crashes, history>>
        /\ failures' \in 0 .. MaxFailures
    BY <1>8, SnapshotFacts
  <2>2. CASE SnapshotStored
    BY <2>1, <2>2 DEF SnapshotStored, Written
  <2>3. CASE SnapshotFailed
    BY <2>1, <2>3 DEF SnapshotFailed, Failed
  <2>4. QED
    BY <1>8, <2>2, <2>3, SnapshotFacts
<1>9. CASE Purge
  BY <1>9 DEF Purge, Asks, CallFlush
<1>10. CASE PurgeBegin
  BY <1>10 DEF PurgeBegin, BeginOk, BeginFails, Breaks
<1>11. CASE Delete("events", "delete_events", "delete_snapshots")
  <2>1. /\ pc = "delete_events" /\ pc' = "delete_snapshots"
        /\ committed' = committed \cup (disk'.events \cap accepted)
        /\ UNCHANGED <<object, after, cutoff, arrived, crashes, accepted, before, purges>>
        /\ failures' \in 0 .. MaxFailures /\ err' \in BOOLEAN
    BY <1>11, DeleteFacts
  <2>2. CASE EventsDeleted
    BY <2>1, <2>2 DEF EventsDeleted, Written
  <2>3. CASE DeleteFailed
    BY <2>1, <2>3 DEF DeleteFailed, Failed
  <2>4. QED
    BY <1>11, <2>2, <2>3, DeleteFacts
<1>12. CASE Delete("snapshots", "delete_snapshots", "purge_commit")
  <2>1. /\ pc = "delete_snapshots" /\ pc' = "purge_commit"
        /\ committed' = committed \cup (disk'.events \cap accepted)
        /\ UNCHANGED <<object, after, cutoff, arrived, crashes, accepted, before, purges>>
        /\ failures' \in 0 .. MaxFailures /\ err' \in BOOLEAN
    BY <1>12, DeleteFacts
  <2>2. CASE SnapshotsDeleted
    BY <2>1, <2>2 DEF SnapshotsDeleted, Written
  <2>3. CASE DeleteFailed
    BY <2>1, <2>3 DEF DeleteFailed, Failed
  <2>4. QED
    BY <1>12, <2>2, <2>3, DeleteFacts
<1>13. CASE PurgeCommit
  BY <1>13 DEF PurgeCommit, CommitOk, CommitFails, StatementFails, Breaks, Records
<1>14. CASE Close
  BY <1>14 DEF Close, CallFlush
<1>15. CASE Closed
  BY <1>15 DEF Closed, Ends, RollsBack
<1>16. CASE Crash
  BY <1>16 DEF Crash, Ends, RollsBack
<1>17. CASE Open
  BY <1>17 DEF Open
<1>18. CASE UNCHANGED vars
  BY <1>18 DEF vars, db, object, call, purges, history
<1>19. QED
  BY <1>1, <1>2, <1>3, <1>4, <1>5, <1>6, <1>7, <1>8, <1>9, <1>10, <1>11, <1>12,
     <1>13, <1>14, <1>15, <1>16, <1>17, <1>18
     DEF Next

\* As long as its transaction is open nothing of a flush or purge is on disk.
LEMMA AtomicStep ==
  ASSUME TypeOK, AtomicInv, [Next]_vars
  PROVE  AtomicInv'
<1> USE StoreAssumption, RowFields DEF db, object, call, purges, history, AtomicInv, TypeOK, TablesTypeOK, StorePc
<1>1. CASE Stage
  BY <1>1, StageFacts
<1>2. CASE Flush
  BY <1>2 DEF Flush, CallFlush
<1>3. CASE FlushBegin
  BY <1>3 DEF FlushBegin, Returns, BeginOk, BeginFails, Breaks
<1>4. CASE Insert
  <2>1. /\ pc = "insert" /\ pc' = "insert" /\ Len(staged) \in Nat
        /\ written + 1 \in 1 .. Len(staged) /\ staged[written + 1] \in Rows
        /\ committed' = committed \cup (disk'.events \cap accepted)
        /\ UNCHANGED <<rows_written, call, arrived, crashes, accepted, before, purges>>
        /\ failures' \in 0 .. MaxFailures
    BY <1>4, InsertFacts
  <2>2. CASE RowInserted
    BY <2>1, <2>2 DEF RowInserted, Written
  <2>3. CASE RowFailed
    BY <2>1, <2>3 DEF RowFailed, Failed
  <2>4. QED
    BY <1>4, <2>2, <2>3, InsertFacts
<1>5. CASE InsertDone
  BY <1>5 DEF InsertDone
<1>6. CASE FlushCommit
  BY <1>6 DEF FlushCommit, CommitOk, CommitFails, StatementFails, Breaks, Returns,
    Records
<1>7. CASE FlushRollback
  BY <1>7 DEF FlushRollback, RollsBack, Returns
<1>8. CASE WriteSnapshot
  <2>1. /\ pc = "up" /\ arrived' = arrived + 1 /\ arrived' \in 1 .. MaxRows
        /\ UNCHANGED <<staged, written, rows_written, pc, call, crashes, history>>
        /\ failures' \in 0 .. MaxFailures
    BY <1>8, SnapshotFacts
  <2>2. CASE SnapshotStored
    BY <2>1, <2>2 DEF SnapshotStored, Written
  <2>3. CASE SnapshotFailed
    BY <2>1, <2>3 DEF SnapshotFailed, Failed
  <2>4. QED
    BY <1>8, <2>2, <2>3, SnapshotFacts
<1>9. CASE Purge
  BY <1>9 DEF Purge, Asks, CallFlush
<1>10. CASE PurgeBegin
  BY <1>10 DEF PurgeBegin, BeginOk, BeginFails, Breaks
<1>11. CASE Delete("events", "delete_events", "delete_snapshots")
  <2>1. /\ pc = "delete_events" /\ pc' = "delete_snapshots"
        /\ committed' = committed \cup (disk'.events \cap accepted)
        /\ UNCHANGED <<object, after, cutoff, arrived, crashes, accepted, before, purges>>
        /\ failures' \in 0 .. MaxFailures /\ err' \in BOOLEAN
    BY <1>11, DeleteFacts
  <2>2. CASE EventsDeleted
    BY <2>1, <2>2 DEF EventsDeleted, Written
  <2>3. CASE DeleteFailed
    BY <2>1, <2>3 DEF DeleteFailed, Failed
  <2>4. QED
    BY <1>11, <2>2, <2>3, DeleteFacts
<1>12. CASE Delete("snapshots", "delete_snapshots", "purge_commit")
  <2>1. /\ pc = "delete_snapshots" /\ pc' = "purge_commit"
        /\ committed' = committed \cup (disk'.events \cap accepted)
        /\ UNCHANGED <<object, after, cutoff, arrived, crashes, accepted, before, purges>>
        /\ failures' \in 0 .. MaxFailures /\ err' \in BOOLEAN
    BY <1>12, DeleteFacts
  <2>2. CASE SnapshotsDeleted
    BY <2>1, <2>2 DEF SnapshotsDeleted, Written
  <2>3. CASE DeleteFailed
    BY <2>1, <2>3 DEF DeleteFailed, Failed
  <2>4. QED
    BY <1>12, <2>2, <2>3, DeleteFacts
<1>13. CASE PurgeCommit
  BY <1>13 DEF PurgeCommit, CommitOk, CommitFails, StatementFails, Breaks, Records
<1>14. CASE Close
  BY <1>14 DEF Close, CallFlush
<1>15. CASE Closed
  BY <1>15 DEF Closed, Ends, RollsBack
<1>16. CASE Crash
  BY <1>16 DEF Crash, Ends, RollsBack
<1>17. CASE Open
  BY <1>17 DEF Open
<1>18. CASE UNCHANGED vars
  BY <1>18 DEF vars, db, object, call, purges, history
<1>19. QED
  BY <1>1, <1>2, <1>3, <1>4, <1>5, <1>6, <1>7, <1>8, <1>9, <1>10, <1>11, <1>12,
     <1>13, <1>14, <1>15, <1>16, <1>17, <1>18
     DEF Next

\* No row that was to be purged comes back.
LEMMA PurgedStep ==
  ASSUME TypeOK, OrderInv, PhasesInv, PurgedInv, [Next]_vars
  PROVE  PurgedInv'
<1> USE StoreAssumption, RowFields DEF db, object, call, purges, history, OrderInv, PhasesInv, Purging, PurgedInv, TypeOK, TablesTypeOK, StorePc, Tables
<1>1. CASE Stage
  <2>0. PICK row \in Rows : RowStaged(row)
    BY <1>1, StageFacts
  <2>1. /\ row.id = arrived + 1
        /\ Len(staged) \in Nat /\ staged' \in Seq(Rows) /\ Len(staged') = Len(staged) + 1
        /\ \A i \in 1 .. Len(staged') : \/ i \in 1 .. Len(staged) /\ staged'[i] = staged[i]
                                        \/ i = Len(staged) + 1 /\ staged'[i] = row
        /\ accepted' = accepted \cup {row}
    BY <2>0 DEF RowStaged
  <2>2. row \notin purged
    BY <2>1
  <2>3. \A i \in 1 .. Len(staged') : staged'[i] \notin purged
    BY <2>1, <2>2
  <2>4. QED
    BY <1>1, <2>3, StageFacts
<1>2. CASE Flush
  BY <1>2 DEF Flush, CallFlush
<1>3. CASE FlushBegin
  BY <1>3 DEF FlushBegin, Returns, BeginOk, BeginFails, Breaks
<1>4. CASE Insert
  <2>1. /\ pc = "insert" /\ pc' = "insert" /\ Len(staged) \in Nat
        /\ written + 1 \in 1 .. Len(staged) /\ staged[written + 1] \in Rows
        /\ committed' = committed \cup (disk'.events \cap accepted)
        /\ UNCHANGED <<rows_written, call, arrived, crashes, accepted, before, purges>>
        /\ failures' \in 0 .. MaxFailures
    BY <1>4, InsertFacts
  <2>2. CASE RowInserted
    BY <2>1, <2>2 DEF RowInserted, Written
  <2>3. CASE RowFailed
    <3>1. ASSUME NEW i \in 1 .. Len(staged')
          PROVE  staged'[i] \notin purged'
      <4>1. i \in 1 .. Len(staged) /\ i + 1 \in 1 .. Len(staged)
        BY <2>1, <2>3 DEF RowFailed
      <4>2. staged'[i] = staged[i] \/ staged'[i] = staged[i + 1]
        BY <2>1, <2>3 DEF RowFailed
      <4>3. QED
        BY <2>1, <4>1, <4>2
    <3>2. (disk'.events \cup disk'.snapshots \cup view'.events \cup view'.snapshots)
            \cap purged' = {}
      BY <2>1, <2>3 DEF RowFailed, Failed
    <3>3. QED
      BY <2>1, <3>1, <3>2
  <2>4. QED
    BY <1>4, <2>2, <2>3, InsertFacts
<1>5. CASE InsertDone
  BY <1>5 DEF InsertDone
<1>6. CASE FlushCommit
  BY <1>6 DEF FlushCommit, CommitOk, CommitFails, StatementFails, Breaks, Returns,
    Records
<1>7. CASE FlushRollback
  BY <1>7 DEF FlushRollback, RollsBack, Returns
<1>8. CASE WriteSnapshot
  <2>1. /\ pc = "up" /\ arrived' = arrived + 1 /\ arrived' \in 1 .. MaxRows
        /\ UNCHANGED <<staged, written, rows_written, pc, call, crashes, history>>
        /\ failures' \in 0 .. MaxFailures
    BY <1>8, SnapshotFacts
  <2>2. CASE SnapshotStored
    BY <2>1, <2>2 DEF SnapshotStored, Written
  <2>3. CASE SnapshotFailed
    BY <2>1, <2>3 DEF SnapshotFailed, Failed
  <2>4. QED
    BY <1>8, <2>2, <2>3, SnapshotFacts
<1>9. CASE Purge
  BY <1>9 DEF Purge, Asks, CallFlush
<1>10. CASE PurgeBegin
  BY <1>10 DEF PurgeBegin, BeginOk, BeginFails, Breaks
<1>11. CASE Delete("events", "delete_events", "delete_snapshots")
  <2>1. /\ pc = "delete_events" /\ pc' = "delete_snapshots"
        /\ committed' = committed \cup (disk'.events \cap accepted)
        /\ UNCHANGED <<object, after, cutoff, arrived, crashes, accepted, before, purges>>
        /\ failures' \in 0 .. MaxFailures /\ err' \in BOOLEAN
    BY <1>11, DeleteFacts
  <2>2. CASE EventsDeleted
    BY <2>1, <2>2 DEF EventsDeleted, Written
  <2>3. CASE DeleteFailed
    BY <2>1, <2>3 DEF DeleteFailed, Failed
  <2>4. QED
    BY <1>11, <2>2, <2>3, DeleteFacts
<1>12. CASE Delete("snapshots", "delete_snapshots", "purge_commit")
  <2>1. /\ pc = "delete_snapshots" /\ pc' = "purge_commit"
        /\ committed' = committed \cup (disk'.events \cap accepted)
        /\ UNCHANGED <<object, after, cutoff, arrived, crashes, accepted, before, purges>>
        /\ failures' \in 0 .. MaxFailures /\ err' \in BOOLEAN
    BY <1>12, DeleteFacts
  <2>2. CASE SnapshotsDeleted
    BY <2>1, <2>2 DEF SnapshotsDeleted, Written
  <2>3. CASE DeleteFailed
    BY <2>1, <2>3 DEF DeleteFailed, Failed
  <2>4. QED
    BY <1>12, <2>2, <2>3, DeleteFacts
<1>13. CASE PurgeCommit
  <2>1. UNCHANGED <<cutoff, err, staged>> /\ pc = "purge_commit" /\ pc' = "up" /\ staged = << >>
    BY <1>13 DEF PurgeCommit
  <2>2. CASE CommitFails /\ UNCHANGED purged
    BY <2>1, <2>2 DEF CommitFails, StatementFails, Breaks
  <2>3. CASE CommitOk /\ purged' = IF err THEN purged ELSE purged \cup Due
    <3>1. disk' = view /\ view' = view
      BY <2>3 DEF CommitOk
    <3>2. ~err => (view.events \cup view.snapshots) \cap Due = {}
      <4>1. SUFFICES ASSUME ~err, NEW row \in view.events \cup view.snapshots
                     PROVE  row \notin Due
        OBVIOUS
      <4>2. row \in Rows /\ row.ts_ns >= cutoff /\ cutoff \in Nat
        BY <2>1, <4>1
      <4>3. QED
        BY <4>2 DEF Due
    <3>3. QED
      BY <2>1, <2>3, <3>1, <3>2
  <2>4. QED
    BY <1>13, <2>2, <2>3 DEF PurgeCommit
<1>14. CASE Close
  BY <1>14 DEF Close, CallFlush
<1>15. CASE Closed
  BY <1>15 DEF Closed, Ends, RollsBack
<1>16. CASE Crash
  BY <1>16 DEF Crash, Ends, RollsBack
<1>17. CASE Open
  BY <1>17 DEF Open
<1>18. CASE UNCHANGED vars
  BY <1>18 DEF vars, db, object, call, purges, history
<1>19. QED
  BY <1>1, <1>2, <1>3, <1>4, <1>5, <1>6, <1>7, <1>8, <1>9, <1>10, <1>11, <1>12,
     <1>13, <1>14, <1>15, <1>16, <1>17, <1>18
     DEF Next

\* A committed event too young for every purge stays.
LEMMA KeptStep ==
  ASSUME TypeOK, OrderInv, PhasesInv, CommittedInv, KeptInv, [Next]_vars
  PROVE  KeptInv'
<1> USE StoreAssumption, RowFields DEF db, object, call, purges, history, OrderInv, PhasesInv, Purging, CommittedInv, KeptInv, TypeOK, TablesTypeOK, StorePc, Tables
<1>1. CASE Stage
  BY <1>1, StageFacts
<1>2. CASE Flush
  BY <1>2 DEF Flush, CallFlush
<1>3. CASE FlushBegin
  BY <1>3 DEF FlushBegin, Returns, BeginOk, BeginFails, Breaks
<1>4. CASE Insert
  <2>1. /\ pc = "insert" /\ pc' = "insert" /\ Len(staged) \in Nat
        /\ written + 1 \in 1 .. Len(staged) /\ staged[written + 1] \in Rows
        /\ committed' = committed \cup (disk'.events \cap accepted)
        /\ UNCHANGED <<rows_written, call, arrived, crashes, accepted, before, purges>>
        /\ failures' \in 0 .. MaxFailures
    BY <1>4, InsertFacts
  <2>2. CASE RowInserted
    BY <2>1, <2>2 DEF RowInserted, Written
  <2>3. CASE RowFailed
    BY <2>1, <2>3 DEF RowFailed, Failed
  <2>4. QED
    BY <1>4, <2>2, <2>3, InsertFacts
<1>5. CASE InsertDone
  BY <1>5 DEF InsertDone
<1>6. CASE FlushCommit
  BY <1>6 DEF FlushCommit, CommitOk, CommitFails, StatementFails, Breaks, Returns,
    Records
<1>7. CASE FlushRollback
  BY <1>7 DEF FlushRollback, RollsBack, Returns
<1>8. CASE WriteSnapshot
  <2>1. /\ pc = "up" /\ arrived' = arrived + 1 /\ arrived' \in 1 .. MaxRows
        /\ UNCHANGED <<staged, written, rows_written, pc, call, crashes, history>>
        /\ failures' \in 0 .. MaxFailures
    BY <1>8, SnapshotFacts
  <2>2. CASE SnapshotStored
    BY <2>1, <2>2 DEF SnapshotStored, Written
  <2>3. CASE SnapshotFailed
    BY <2>1, <2>3 DEF SnapshotFailed, Failed
  <2>4. QED
    BY <1>8, <2>2, <2>3, SnapshotFacts
<1>9. CASE Purge
  <2>1. /\ cutoff' \in 1 .. MaxTime /\ reach' = IF cutoff' > reach THEN cutoff' ELSE reach
        /\ UNCHANGED <<disk, view, committed>>
    BY <1>9 DEF Purge, Asks, CallFlush, Times
  <2>2. reach \in Nat /\ reach' \in Nat /\ cutoff' <= reach' /\ reach <= reach'
    BY <2>1
  <2>3. \A row \in committed \cup disk.events : row.ts_ns \in Nat
    OBVIOUS
  <2>4. \A row \in committed \cup disk.events : row.ts_ns >= reach' => row.ts_ns >= reach
    BY <2>2, <2>3
  <2>5. QED
    BY <2>1, <2>2, <2>4
<1>10. CASE PurgeBegin
  BY <1>10 DEF PurgeBegin, BeginOk, BeginFails, Breaks
<1>11. CASE Delete("events", "delete_events", "delete_snapshots")
  <2>1. /\ pc = "delete_events" /\ pc' = "delete_snapshots"
        /\ committed' = committed \cup (disk'.events \cap accepted)
        /\ UNCHANGED <<object, after, cutoff, arrived, crashes, accepted, before, purges>>
        /\ failures' \in 0 .. MaxFailures /\ err' \in BOOLEAN
    BY <1>11, DeleteFacts
  <2>2. CASE EventsDeleted
    BY <2>1, <2>2 DEF EventsDeleted, Written
  <2>3. CASE DeleteFailed
    BY <2>1, <2>3 DEF DeleteFailed, Failed
  <2>4. QED
    BY <1>11, <2>2, <2>3, DeleteFacts
<1>12. CASE Delete("snapshots", "delete_snapshots", "purge_commit")
  <2>1. /\ pc = "delete_snapshots" /\ pc' = "purge_commit"
        /\ committed' = committed \cup (disk'.events \cap accepted)
        /\ UNCHANGED <<object, after, cutoff, arrived, crashes, accepted, before, purges>>
        /\ failures' \in 0 .. MaxFailures /\ err' \in BOOLEAN
    BY <1>12, DeleteFacts
  <2>2. CASE SnapshotsDeleted
    BY <2>1, <2>2 DEF SnapshotsDeleted, Written
  <2>3. CASE DeleteFailed
    BY <2>1, <2>3 DEF DeleteFailed, Failed
  <2>4. QED
    BY <1>12, <2>2, <2>3, DeleteFacts
<1>13. CASE PurgeCommit
  BY <1>13 DEF PurgeCommit, CommitOk, CommitFails, StatementFails, Breaks, Records
<1>14. CASE Close
  BY <1>14 DEF Close, CallFlush
<1>15. CASE Closed
  BY <1>15 DEF Closed, Ends, RollsBack
<1>16. CASE Crash
  BY <1>16 DEF Crash, Ends, RollsBack
<1>17. CASE Open
  BY <1>17 DEF Open
<1>18. CASE UNCHANGED vars
  BY <1>18 DEF vars, db, object, call, purges, history
<1>19. QED
  BY <1>1, <1>2, <1>3, <1>4, <1>5, <1>6, <1>7, <1>8, <1>9, <1>10, <1>11, <1>12,
     <1>13, <1>14, <1>15, <1>16, <1>17, <1>18
     DEF Next

-----------------------------------------------------------------------------
\* The rows inserted so far, when one more is or one fails.
LEMMA InsertedFacts ==
  ASSUME staged \in Seq(Rows), written \in Nat, written + 1 \in 1 .. Len(staged)
  PROVE  /\ RowInserted => Inserted' = Inserted \cup {staged[written + 1]}
         /\ RowFailed => Inserted' = Inserted
<1>1. ASSUME RowInserted
      PROVE  Inserted' = Inserted \cup {staged[written + 1]}
  <2>1. staged' = staged /\ written' = written + 1
    BY <1>1 DEF RowInserted
  <2>2. 1 .. written + 1 = (1 .. written) \cup {written + 1}
    OBVIOUS
  <2>3. QED
    BY <2>1, <2>2 DEF Inserted
<1>2. ASSUME RowFailed
      PROVE  Inserted' = Inserted
  <2>1. written' = written /\ \A i \in 1 .. written : staged'[i] = staged[i]
    BY <1>2 DEF RowFailed
  <2>2. QED
    BY <2>1 DEF Inserted
<1>3. QED
  BY <1>1, <1>2

\* What is on disk is recorded as committed.
LEMMA CommittedStep ==
  ASSUME TypeOK, OrderInv, PhasesInv, CommittedInv, [Next]_vars
  PROVE  CommittedInv'
<1> USE StoreAssumption, RowFields DEF db, object, call, purges, history, TypeOK, TablesTypeOK, OrderInv, PhasesInv, Flushing, Purging, CommittedInv, Tables
<1>1. CASE Stage
  <2>0. PICK row \in Rows : RowStaged(row)
    BY <1>1, StageFacts
  <2>1. /\ row.id = arrived + 1
        /\ Len(staged) \in Nat /\ staged' \in Seq(Rows) /\ Len(staged') = Len(staged) + 1
        /\ \A i \in 1 .. Len(staged') : \/ i \in 1 .. Len(staged) /\ staged'[i] = staged[i]
                                        \/ i = Len(staged) + 1 /\ staged'[i] = row
        /\ accepted' = accepted \cup {row}
    BY <2>0 DEF RowStaged
  <2>2. Inserted' = Inserted
    BY <1>1, <2>1, StageFacts DEF Inserted
  <2>3. row \notin disk.events \cup view.events \cup accepted
    BY <2>1
  <2>4. QED
    BY <1>1, <2>1, <2>2, <2>3, StageFacts
<1>2. CASE Flush
  BY <1>2 DEF Flush, CallFlush, Inserted
<1>3. CASE FlushBegin
  BY <1>3 DEF FlushBegin, Returns, BeginOk, BeginFails, Breaks, Inserted
<1>4. CASE Insert
  <2>1. /\ pc = "insert" /\ pc' = "insert" /\ Len(staged) \in Nat
        /\ written + 1 \in 1 .. Len(staged) /\ staged[written + 1] \in Rows
        /\ committed' = committed \cup (disk'.events \cap accepted)
        /\ UNCHANGED <<rows_written, call, arrived, crashes, accepted, before, purges>>
        /\ failures' \in 0 .. MaxFailures
    BY <1>4, InsertFacts
  <2>2. /\ RowInserted => Inserted' = Inserted \cup {staged[written + 1]}
        /\ RowFailed => Inserted' = Inserted
    BY <2>1, InsertedFacts
  <2>3. staged[written + 1] \in accepted
    BY <2>1
  <2>4. CASE RowInserted
    <3>1. Inserted' = Inserted \cup {staged[written + 1]}
      BY <2>2, <2>4
    <3>2. /\ view'.events = view.events \cup {staged[written + 1]}
          /\ disk'.events = IF txn THEN disk.events ELSE view'.events
      BY <2>4 DEF RowInserted, Written
    <3>3. txn \/ view.events = disk.events
      OBVIOUS
    <3>4. QED
      BY <2>1, <2>3, <3>1, <3>2, <3>3
  <2>5. CASE RowFailed
    <3>1. Inserted' = Inserted
      BY <2>2, <2>5
    <3>2. disk' = disk /\ view' \in {view, disk}
      BY <2>5 DEF RowFailed, Failed
    <3>3. QED
      BY <2>1, <3>1, <3>2
  <2>6. QED
    BY <1>4, <2>4, <2>5, InsertFacts
<1>5. CASE InsertDone
  BY <1>5 DEF InsertDone, Inserted
<1>6. CASE FlushCommit
  BY <1>6 DEF FlushCommit, CommitOk, CommitFails, StatementFails, Breaks, Returns,
    Records, Inserted
<1>7. CASE FlushRollback
  BY <1>7 DEF FlushRollback, RollsBack, Returns, Inserted
<1>8. CASE WriteSnapshot
  <2>1. /\ pc = "up" /\ arrived' = arrived + 1 /\ arrived' \in 1 .. MaxRows
        /\ UNCHANGED <<staged, written, rows_written, pc, call, crashes, history>>
        /\ failures' \in 0 .. MaxFailures
    BY <1>8, SnapshotFacts
  <2>2. Inserted' = Inserted
    BY <2>1 DEF Inserted
  <2>3. CASE SnapshotStored
    BY <2>1, <2>2, <2>3 DEF SnapshotStored, Written
  <2>4. CASE SnapshotFailed
    BY <2>1, <2>2, <2>4 DEF SnapshotFailed, Failed
  <2>5. QED
    BY <1>8, <2>3, <2>4, SnapshotFacts
<1>9. CASE Purge
  BY <1>9 DEF Purge, Asks, CallFlush, Inserted
<1>10. CASE PurgeBegin
  BY <1>10 DEF PurgeBegin, BeginOk, BeginFails, Breaks, Inserted
<1>11. CASE Delete("events", "delete_events", "delete_snapshots")
  <2>1. /\ pc = "delete_events" /\ pc' = "delete_snapshots"
        /\ committed' = committed \cup (disk'.events \cap accepted)
        /\ UNCHANGED <<object, after, cutoff, arrived, crashes, accepted, before, purges>>
        /\ failures' \in 0 .. MaxFailures /\ err' \in BOOLEAN
    BY <1>11, DeleteFacts
  <2>2. Inserted' = Inserted
    BY <2>1 DEF Inserted
  <2>3. CASE EventsDeleted
    BY <2>1, <2>2, <2>3 DEF EventsDeleted, Written
  <2>4. CASE DeleteFailed
    BY <2>1, <2>2, <2>4 DEF DeleteFailed, Failed
  <2>5. QED
    BY <1>11, <2>3, <2>4, DeleteFacts
<1>12. CASE Delete("snapshots", "delete_snapshots", "purge_commit")
  <2>1. /\ pc = "delete_snapshots" /\ pc' = "purge_commit"
        /\ committed' = committed \cup (disk'.events \cap accepted)
        /\ UNCHANGED <<object, after, cutoff, arrived, crashes, accepted, before, purges>>
        /\ failures' \in 0 .. MaxFailures /\ err' \in BOOLEAN
    BY <1>12, DeleteFacts
  <2>2. Inserted' = Inserted
    BY <2>1 DEF Inserted
  <2>3. CASE SnapshotsDeleted
    BY <2>1, <2>2, <2>3 DEF SnapshotsDeleted, Written
  <2>4. CASE DeleteFailed
    BY <2>1, <2>2, <2>4 DEF DeleteFailed, Failed
  <2>5. QED
    BY <1>12, <2>3, <2>4, DeleteFacts
<1>13. CASE PurgeCommit
  BY <1>13 DEF PurgeCommit, CommitOk, CommitFails, StatementFails, Breaks, Records,
    Inserted
<1>14. CASE Close
  BY <1>14 DEF Close, CallFlush, Inserted
<1>15. CASE Closed
  BY <1>15 DEF Closed, Ends, RollsBack, Inserted
<1>16. CASE Crash
  BY <1>16 DEF Crash, Ends, RollsBack, Inserted
<1>17. CASE Open
  BY <1>17 DEF Open, Inserted
<1>18. CASE UNCHANGED vars
  BY <1>18 DEF vars, db, object, call, purges, history, Inserted
<1>19. QED
  BY <1>1, <1>2, <1>3, <1>4, <1>5, <1>6, <1>7, <1>8, <1>9, <1>10, <1>11, <1>12,
     <1>13, <1>14, <1>15, <1>16, <1>17, <1>18
     DEF Next

\* The rows inserted are seen by the connection and not committed before their COMMIT.
LEMMA InsertedStep ==
  ASSUME TypeOK, OrderInv, PhasesInv, CommittedInv, InsertedInv, [Next]_vars
  PROVE  InsertedInv'
<1> USE StoreAssumption, RowFields DEF db, object, call, purges, history, TypeOK, TablesTypeOK, OrderInv, PhasesInv, Flushing, Purging, CommittedInv, Tables, InsertedInv
<1>1. CASE Stage
  <2>0. PICK row \in Rows : RowStaged(row)
    BY <1>1, StageFacts
  <2>1. /\ row.id = arrived + 1
        /\ Len(staged) \in Nat /\ staged' \in Seq(Rows) /\ Len(staged') = Len(staged) + 1
        /\ \A i \in 1 .. Len(staged') : \/ i \in 1 .. Len(staged) /\ staged'[i] = staged[i]
                                        \/ i = Len(staged) + 1 /\ staged'[i] = row
        /\ accepted' = accepted \cup {row}
    BY <2>0 DEF RowStaged
  <2>2. row \notin disk.events \cup view.events \cup accepted
    BY <2>1
  <2>3. \A i \in 1 .. Len(staged') : txn \/ i > written => staged'[i] \notin committed
    BY <2>1, <2>2
  <2>4. pc' = "up" /\ UNCHANGED <<txn, written, committed>>
    BY <1>1, StageFacts
  <2>5. QED
    BY <2>3, <2>4
<1>2. CASE Flush
  BY <1>2 DEF Flush, CallFlush, Inserted
<1>3. CASE FlushBegin
  BY <1>3 DEF FlushBegin, Returns, BeginOk, BeginFails, Breaks, Inserted
<1>4. CASE Insert
  <2>1. /\ pc = "insert" /\ pc' = "insert" /\ Len(staged) \in Nat
        /\ written + 1 \in 1 .. Len(staged) /\ staged[written + 1] \in Rows
        /\ committed' = committed \cup (disk'.events \cap accepted)
        /\ UNCHANGED <<rows_written, call, arrived, crashes, accepted, before, purges>>
        /\ failures' \in 0 .. MaxFailures
    BY <1>4, InsertFacts
  <2>2. /\ RowInserted => Inserted' = Inserted \cup {staged[written + 1]}
        /\ RowFailed => Inserted' = Inserted
    BY <2>1, InsertedFacts
  <2>3. CASE RowInserted
    <3>1. Inserted' = Inserted \cup {staged[written + 1]}
      BY <2>2, <2>3
    <3>2. /\ view'.events = view.events \cup {staged[written + 1]}
          /\ disk'.events = IF txn THEN disk.events ELSE view'.events
          /\ UNCHANGED <<txn, staged>> /\ written' = written + 1
      BY <2>3 DEF RowInserted, Written
    <3>3. txn => Inserted' \subseteq view'.events
      BY <2>1, <3>1, <3>2
    <3>4. ASSUME NEW i \in 1 .. Len(staged'), txn' \/ i > written'
          PROVE  staged'[i] \notin committed'
      <4>1. staged[i] \notin committed
        BY <3>2, <3>4
      <4>2. CASE txn
        BY <2>1, <3>2, <4>1, <4>2
      <4>3. CASE ~txn
        <5>1. staged[i] # staged[written + 1]
          BY <2>1, <3>2, <3>4, <4>3
        <5>2. staged[i] \notin view'.events \cap accepted
          <6>1. view.events \cap accepted \subseteq committed
            BY <4>3
          <6>2. QED
            BY <3>2, <4>1, <5>1, <6>1
        <5>3. QED
          BY <2>1, <3>2, <4>1, <4>3, <5>2
      <4>4. QED
        BY <4>2, <4>3
    <3>5. QED
      BY <2>1, <3>2, <3>3, <3>4
  <2>4. CASE RowFailed
    <3>1. Inserted' = Inserted
      BY <2>2, <2>4
    <3>2. /\ disk' = disk /\ (txn' => txn /\ view' = view) /\ written' = written
          /\ Len(staged') = Len(staged) - 1
      BY <2>4 DEF RowFailed, Failed
    <3>3. txn' => Inserted' \subseteq view'.events
      BY <2>1, <3>1, <3>2
    <3>4. committed' = committed
      BY <2>1, <3>2
    <3>5. ASSUME NEW i \in 1 .. Len(staged'), txn' \/ i > written'
          PROVE  staged'[i] \notin committed'
      <4>1. i \in 1 .. Len(staged) /\ i + 1 \in 1 .. Len(staged)
        BY <2>1, <3>2
      <4>2. staged'[i] = IF i <= written THEN staged[i] ELSE staged[i + 1]
        BY <2>4, <3>2, <3>5 DEF RowFailed
      <4>3. CASE i <= written
        BY <3>2, <3>4, <3>5, <4>1, <4>2, <4>3
      <4>4. CASE ~(i <= written)
        BY <3>2, <3>4, <3>5, <4>1, <4>2, <4>4
      <4>5. QED
        BY <4>3, <4>4
    <3>6. QED
      BY <2>1, <3>2, <3>3, <3>5
  <2>5. QED
    BY <1>4, <2>3, <2>4, InsertFacts
<1>5. CASE InsertDone
  BY <1>5 DEF InsertDone, Inserted
<1>6. CASE FlushCommit
  BY <1>6 DEF FlushCommit, CommitOk, CommitFails, StatementFails, Breaks, Returns,
    Records, Inserted
<1>7. CASE FlushRollback
  BY <1>7 DEF FlushRollback, RollsBack, Returns, Inserted
<1>8. CASE WriteSnapshot
  <2>1. /\ pc = "up" /\ arrived' = arrived + 1 /\ arrived' \in 1 .. MaxRows
        /\ UNCHANGED <<staged, written, rows_written, pc, call, crashes, history>>
        /\ failures' \in 0 .. MaxFailures
    BY <1>8, SnapshotFacts
  <2>2. Inserted' = Inserted
    BY <2>1 DEF Inserted
  <2>3. CASE SnapshotStored
    BY <2>1, <2>2, <2>3 DEF SnapshotStored, Written
  <2>4. CASE SnapshotFailed
    BY <2>1, <2>2, <2>4 DEF SnapshotFailed, Failed
  <2>5. QED
    BY <1>8, <2>3, <2>4, SnapshotFacts
<1>9. CASE Purge
  BY <1>9 DEF Purge, Asks, CallFlush, Inserted
<1>10. CASE PurgeBegin
  BY <1>10 DEF PurgeBegin, BeginOk, BeginFails, Breaks, Inserted
<1>11. CASE Delete("events", "delete_events", "delete_snapshots")
  <2>1. /\ pc = "delete_events" /\ pc' = "delete_snapshots"
        /\ committed' = committed \cup (disk'.events \cap accepted)
        /\ UNCHANGED <<object, after, cutoff, arrived, crashes, accepted, before, purges>>
        /\ failures' \in 0 .. MaxFailures /\ err' \in BOOLEAN
    BY <1>11, DeleteFacts
  <2>2. Inserted' = Inserted
    BY <2>1 DEF Inserted
  <2>3. CASE EventsDeleted
    BY <2>1, <2>2, <2>3 DEF EventsDeleted, Written
  <2>4. CASE DeleteFailed
    BY <2>1, <2>2, <2>4 DEF DeleteFailed, Failed
  <2>5. QED
    BY <1>11, <2>3, <2>4, DeleteFacts
<1>12. CASE Delete("snapshots", "delete_snapshots", "purge_commit")
  <2>1. /\ pc = "delete_snapshots" /\ pc' = "purge_commit"
        /\ committed' = committed \cup (disk'.events \cap accepted)
        /\ UNCHANGED <<object, after, cutoff, arrived, crashes, accepted, before, purges>>
        /\ failures' \in 0 .. MaxFailures /\ err' \in BOOLEAN
    BY <1>12, DeleteFacts
  <2>2. Inserted' = Inserted
    BY <2>1 DEF Inserted
  <2>3. CASE SnapshotsDeleted
    BY <2>1, <2>2, <2>3 DEF SnapshotsDeleted, Written
  <2>4. CASE DeleteFailed
    BY <2>1, <2>2, <2>4 DEF DeleteFailed, Failed
  <2>5. QED
    BY <1>12, <2>3, <2>4, DeleteFacts
<1>13. CASE PurgeCommit
  BY <1>13 DEF PurgeCommit, CommitOk, CommitFails, StatementFails, Breaks, Records,
    Inserted
<1>14. CASE Close
  BY <1>14 DEF Close, CallFlush, Inserted
<1>15. CASE Closed
  BY <1>15 DEF Closed, Ends, RollsBack, Inserted
<1>16. CASE Crash
  BY <1>16 DEF Crash, Ends, RollsBack, Inserted
<1>17. CASE Open
  BY <1>17 DEF Open, Inserted
<1>18. CASE UNCHANGED vars
  BY <1>18 DEF vars, db, object, call, purges, history, Inserted
<1>19. QED
  BY <1>1, <1>2, <1>3, <1>4, <1>5, <1>6, <1>7, <1>8, <1>9, <1>10, <1>11, <1>12,
     <1>13, <1>14, <1>15, <1>16, <1>17, <1>18
     DEF Next

-----------------------------------------------------------------------------
\* The rows inserted by a flush are distinct: there are `written' of them.
LEMMA InsertedCount ==
  ASSUME TypeOK, OrderInv
  PROVE  IsFiniteSet(Inserted) /\ Cardinality(Inserted) = written
<1>1. /\ written \in Nat /\ written <= Len(staged)
      /\ \A i \in 1 .. Len(staged) : staged[i].id \in Nat
      /\ \A i, j \in 1 .. Len(staged) : i < j => staged[i].id < staged[j].id
  <2>1. staged \in Seq(Rows) /\ written \in 0 .. Len(staged)
    BY DEF TypeOK
  <2>2. \A i, j \in 1 .. Len(staged) : i < j => staged[i].id < staged[j].id
    BY DEF OrderInv
  <2>3. \A i \in 1 .. Len(staged) : staged[i].id \in Nat
    BY <2>1, RowFields
  <2>4. QED
    BY <2>1, <2>2, <2>3, StoreAssumption
<1> DEFINE f == [i \in 1 .. written |-> staged[i]]
<1>2. f \in [1 .. written -> Inserted]
  BY DEF Inserted
<1>3. \A i, j \in 1 .. written : f[i] = f[j] => i = j
  <2>1. SUFFICES ASSUME NEW i \in 1 .. written, NEW j \in 1 .. written, staged[i] = staged[j]
                 PROVE  i = j
    OBVIOUS
  <2>2. /\ i \in 1 .. Len(staged) /\ j \in 1 .. Len(staged)
        /\ staged[i].id \in Nat /\ staged[j].id \in Nat
    BY <1>1
  <2>3. ~(i < j) /\ ~(j < i)
    BY <1>1, <2>1, <2>2
  <2>4. QED
    BY <1>1, <2>3
<1>4. \A x \in Inserted : \E i \in 1 .. written : f[i] = x
  BY DEF Inserted
<1> HIDE DEF f
<1>5. f \in Bijection(1 .. written, Inserted)
  BY <1>2, <1>3, <1>4 DEF Bijection, Injection, Surjection, IsInjective
<1>6. IsFiniteSet(1 .. written) /\ Cardinality(1 .. written) = written
  BY <1>1, FS_Interval
<1>7. QED
  BY <1>5, <1>6, FS_Bijection DEF ExistsBijection

\* There are finitely many rows.
LEMMA RowsFinite == IsFiniteSet(Rows)
<1> DEFINE Pairs == (1 .. MaxRows) \X Times
           f == [p \in Pairs |-> [id |-> p[1], ts_ns |-> p[2]]]
<1>1. IsFiniteSet(Pairs)
  <2>1. IsFiniteSet(1 .. MaxRows) /\ IsFiniteSet(Times)
    BY StoreAssumption, FS_Interval DEF Times
  <2>2. QED
    BY <2>1, FS_Product
<1>2. f \in [Pairs -> Rows]
  BY DEF Rows
<1>3. ASSUME NEW row \in Rows
      PROVE  \E p \in Pairs : f[p] = row
  <2>1. <<row.id, row.ts_ns>> \in Pairs /\ row = [id |-> row.id, ts_ns |-> row.ts_ns]
    BY DEF Rows
  <2>2. f[<<row.id, row.ts_ns>>] = row
    BY <2>1
  <2>3. QED
    BY <2>1, <2>2
<1> HIDE DEF f, Pairs
<1>4. f \in Surjection(Pairs, Rows)
  BY <1>2, <1>3 DEF Surjection
<1>5. QED
  BY <1>1, <1>4, FS_Surjection

\* The committed rows are finitely many.
LEMMA CommittedCount ==
  ASSUME TypeOK
  PROVE  IsFiniteSet(committed) /\ Cardinality(committed) \in Nat
BY RowsFinite, FS_Subset, FS_CardinalityType DEF TypeOK

\* A COMMIT that succeeds adds the rows of the batch, and none was there before.
LEMMA CommitCount ==
  ASSUME TypeOK, OrderInv, CommittedInv, InsertedInv, pc = "commit", txn,
         committed' = committed \cup (view.events \cap accepted)
  PROVE  /\ committed' = committed \cup Inserted
         /\ Cardinality(committed') = Cardinality(committed) + written
<1>1. Inserted \subseteq accepted /\ Inserted \cap committed = {}
  <2>1. \A i \in 1 .. written : i \in 1 .. Len(staged)
    BY DEF TypeOK
  <2>2. \A i \in 1 .. written : staged[i] \in accepted /\ staged[i] \notin committed
    BY <2>1 DEF OrderInv, InsertedInv
  <2>3. QED
    BY <2>2 DEF Inserted
<1>2. Inserted \subseteq view.events
  BY DEF InsertedInv
<1>3. view.events \cap accepted \subseteq committed \cup Inserted
  BY DEF CommittedInv
<1>4. committed' = committed \cup Inserted
  BY <1>1, <1>2, <1>3
<1>5. /\ IsFiniteSet(committed) /\ Cardinality(committed) \in Nat
      /\ IsFiniteSet(Inserted) /\ Cardinality(Inserted) = written /\ written \in Nat
  BY InsertedCount, CommittedCount DEF TypeOK
<1>6. Cardinality(committed \cap Inserted) = 0
  BY <1>1, FS_EmptySet
<1>7. Cardinality(committed \cup Inserted) = Cardinality(committed) + written
  <2>1. Cardinality(committed \cup Inserted) =
          Cardinality(committed) + Cardinality(Inserted) - Cardinality(committed \cap Inserted)
    BY <1>5, FS_Union
  <2> DEFINE c == Cardinality(committed)
  <2>2. c \in Nat /\ written \in Nat /\ Cardinality(committed \cup Inserted) = c + written - 0
    BY <1>5, <1>6, <2>1
  <2> HIDE DEF c
  <2>3. Cardinality(committed \cup Inserted) = c + written
    BY <2>2
  <2>4. QED
    BY <2>3 DEF c
<1>8. QED
  BY <1>4, <1>7

\* Every loss is counted, and the rows written are those committed.
LEMMA CountedStep ==
  ASSUME TypeOK, OrderInv, PhasesInv, CommittedInv, InsertedInv, CountedInv, TypeOK', [Next]_vars
  PROVE  CountedInv'
<1>0. Cardinality(committed) \in Nat
  BY CommittedCount
<1> USE <1>0, StoreAssumption DEF db, object, call, purges, history, TypeOK, TablesTypeOK, PhasesInv, Flushing, Purging, CountedInv
<1>1. CASE Stage
  <2>0. PICK row \in Rows : RowStaged(row)
    BY <1>1, StageFacts
  <2>1. /\ row.id = arrived + 1
        /\ Len(staged) \in Nat /\ staged' \in Seq(Rows) /\ Len(staged') = Len(staged) + 1
        /\ \A i \in 1 .. Len(staged') : \/ i \in 1 .. Len(staged) /\ staged'[i] = staged[i]
                                        \/ i = Len(staged) + 1 /\ staged'[i] = row
        /\ accepted' = accepted \cup {row}
    BY <2>0 DEF RowStaged
  <2>2. Range(staged) \cup {row} \subseteq Range(staged')
    BY <2>0 DEF RowStaged
  <2>3. QED
    BY <1>1, <2>1, <2>2, StageFacts
<1>2. CASE Flush
  BY <1>2 DEF Flush, CallFlush
<1>3. CASE FlushBegin
  BY <1>3 DEF FlushBegin, Returns, BeginOk, BeginFails, Breaks
<1>4. CASE Insert
  <2>1. /\ pc = "insert" /\ pc' = "insert" /\ Len(staged) \in Nat
        /\ written + 1 \in 1 .. Len(staged) /\ staged[written + 1] \in Rows
        /\ committed' = committed \cup (disk'.events \cap accepted)
        /\ UNCHANGED <<rows_written, call, arrived, crashes, accepted, before, purges>>
        /\ failures' \in 0 .. MaxFailures
    BY <1>4, InsertFacts
  <2>2. CASE RowInserted
    <3>1. UNCHANGED <<staged, write_errors, txn>> /\ disk' = IF txn THEN disk ELSE view'
      BY <2>2 DEF RowInserted, Written
    <3>2. txn => committed' = committed
      BY <2>1, <3>1 DEF CommittedInv
    <3>3. Cardinality(committed') \in Nat /\ Cardinality(committed) <= Cardinality(committed')
      <4>1. IsFiniteSet(committed')
        BY RowsFinite, FS_Subset
      <4>2. QED
        BY <2>1, <4>1, FS_Subset, FS_CardinalityType
    <3>4. accepted \subseteq committed \cup Range(staged) =>
            accepted' \subseteq committed' \cup Range(staged')
      BY <2>1, <3>1
    <3>5. write_errors = 0 => txn /\ rows_written' = Cardinality(committed')
      BY <2>1, <3>2
    <3>6. rows_written' <= Cardinality(committed')
      BY <2>1, <3>3
    <3>7. QED
      BY <2>1, <3>1, <3>4, <3>5, <3>6
  <2>3. CASE RowFailed
    <3>1. disk' = disk /\ write_errors' = write_errors + 1
      BY <2>3 DEF RowFailed, Failed
    <3>2. committed' = committed
      BY <2>1, <3>1 DEF CommittedInv
    <3>3. write_errors' # 0
      BY <3>1
    <3>4. rows_written' = rows_written /\ pc = "insert" /\ pc' = "insert"
      BY <2>1
    <3>5. rows_written' <= Cardinality(committed')
      BY <3>2, <3>4
    <3>6. QED
      BY <3>3, <3>4, <3>5
  <2>4. QED
    BY <1>4, <2>2, <2>3, InsertFacts
<1>5. CASE InsertDone
  BY <1>5 DEF InsertDone
<1>6. CASE FlushCommit
  <2>1. CASE CommitOk /\ Returns /\ rows_written' = rows_written + written /\ UNCHANGED write_errors
    <3>1. /\ txn /\ disk' = view /\ pc = "commit" /\ staged' = << >>
          /\ committed' = committed \cup (view.events \cap accepted)
          /\ UNCHANGED accepted
      BY <1>6, <2>1 DEF FlushCommit, CommitOk, Returns, Records
    <3>2. /\ committed' = committed \cup Inserted
          /\ Cardinality(committed') = Cardinality(committed) + written
      BY <3>1, CommitCount
    <3>3. Range(staged) \subseteq Inserted
      <4>1. written = Len(staged) /\ DOMAIN staged = 1 .. Len(staged)
        BY <3>1
      <4>2. QED
        BY <4>1 DEF Range, Inserted
    <3>4. pc' \in {"up", "purge_begin", "close"}
      BY <2>1 DEF Returns
    <3>5. QED
      BY <2>1, <3>1, <3>2, <3>3, <3>4
  <2>2. CASE CommitFails /\ pc' = "rollback" /\ write_errors' = write_errors + 1
    <3>1. disk' = disk /\ UNCHANGED <<accepted, rows_written>>
      BY <1>6, <2>2 DEF FlushCommit, CommitFails, StatementFails, Breaks
    <3>2. committed' = committed
      BY <1>6, <3>1 DEF FlushCommit, Records, CommittedInv
    <3>3. QED
      BY <1>6, <2>2, <3>1, <3>2 DEF FlushCommit
  <2>3. QED
    BY <1>6, <2>1, <2>2 DEF FlushCommit
<1>7. CASE FlushRollback
  BY <1>7 DEF FlushRollback, RollsBack, Returns
<1>8. CASE WriteSnapshot
  <2>1. /\ pc = "up" /\ arrived' = arrived + 1 /\ arrived' \in 1 .. MaxRows
        /\ UNCHANGED <<staged, written, rows_written, pc, call, crashes, history>>
        /\ failures' \in 0 .. MaxFailures
    BY <1>8, SnapshotFacts
  <2>2. write_errors \in Nat /\ write_errors' \in {write_errors, write_errors + 1}
    BY <1>8, SnapshotFacts DEF SnapshotStored, SnapshotFailed
  <2>3. QED
    BY <2>1, <2>2
<1>9. CASE Purge
  BY <1>9 DEF Purge, Asks, CallFlush
<1>10. CASE PurgeBegin
  BY <1>10 DEF PurgeBegin, BeginOk, BeginFails, Breaks
<1>11. CASE Delete("events", "delete_events", "delete_snapshots")
  <2>1. /\ pc = "delete_events" /\ pc' = "delete_snapshots"
        /\ committed' = committed \cup (disk'.events \cap accepted)
        /\ UNCHANGED <<object, after, cutoff, arrived, crashes, accepted, before, purges>>
        /\ failures' \in 0 .. MaxFailures /\ err' \in BOOLEAN
    BY <1>11, DeleteFacts
  <2>2. disk'.events \subseteq disk.events
    BY <1>11, DeleteFacts DEF EventsDeleted, DeleteFailed, Written, Failed
  <2>3. committed' = committed
    BY <2>1, <2>2 DEF CommittedInv
  <2>4. QED
    BY <2>1, <2>3
<1>12. CASE Delete("snapshots", "delete_snapshots", "purge_commit")
  <2>1. /\ pc = "delete_snapshots" /\ pc' = "purge_commit"
        /\ committed' = committed \cup (disk'.events \cap accepted)
        /\ UNCHANGED <<object, after, cutoff, arrived, crashes, accepted, before, purges>>
        /\ failures' \in 0 .. MaxFailures /\ err' \in BOOLEAN
    BY <1>12, DeleteFacts
  <2>2. disk'.events \subseteq disk.events
    BY <1>12, DeleteFacts DEF SnapshotsDeleted, DeleteFailed, Written, Failed
  <2>3. committed' = committed
    BY <2>1, <2>2 DEF CommittedInv
  <2>4. QED
    BY <2>1, <2>3
<1>13. CASE PurgeCommit
  <2>1. /\ pc' = "up" /\ disk' \in {disk, view} /\ committed' = committed \cup (disk'.events \cap accepted)
        /\ UNCHANGED <<staged, rows_written, write_errors, accepted>>
    BY <1>13 DEF PurgeCommit, CommitOk, CommitFails, StatementFails, Breaks, Records
  <2>2. Inserted = {}
    BY <1>13 DEF Inserted, PurgeCommit
  <2>3. committed' = committed
    BY <2>1, <2>2 DEF CommittedInv
  <2>4. QED
    BY <1>13, <2>1, <2>3 DEF PurgeCommit
<1>14. CASE Close
  BY <1>14 DEF Close, CallFlush
<1>15. CASE Closed
  BY <1>15 DEF Closed, Ends, RollsBack
<1>16. CASE Crash
  BY <1>16 DEF Crash, Ends, RollsBack
<1>17. CASE Open
  <2>1. /\ accepted' = {} /\ committed' = {} /\ rows_written' = 0 /\ pc' = "up"
        /\ write_errors' = 0
    BY <1>17 DEF Open
  <2>2. Cardinality(committed') = 0
    BY <2>1, FS_EmptySet
  <2>3. QED
    BY <2>1, <2>2
<1>18. CASE UNCHANGED vars
  BY <1>18 DEF vars, db, object, call, purges, history
<1>19. QED
  BY <1>1, <1>2, <1>3, <1>4, <1>5, <1>6, <1>7, <1>8, <1>9, <1>10, <1>11, <1>12,
     <1>13, <1>14, <1>15, <1>16, <1>17, <1>18
     DEF Next

\* A process ends by a crash or after close, and neither changes the disk.
LEMMA OnlyTheEndIsDown ==
  ASSUME TypeOK, Next, pc # "down", pc' = "down"
  PROVE  disk' = disk
<1>1. after # "down"
  BY DEF TypeOK
<1>2. Closed \/ Crash
  BY <1>1 DEF Next, Stage, Flush, CallFlush, FlushBegin, Returns, Insert, InsertDone,
    FlushCommit, FlushRollback, WriteSnapshot, Purge, PurgeBegin, PurgeCommit, Delete, Close, Open
<1>3. QED
  BY <1>2 DEF Closed, Crash, Ends, RollsBack

\* A purge returns by its COMMIT.
LEMMA OnlyCommitEndsPurge ==
  ASSUME Next, pc = "purge_commit", pc' = "up"
  PROVE  PurgeCommit
BY DEF Next, Stage, Flush, CallFlush, FlushBegin, Insert, InsertDone, FlushCommit,
  FlushRollback, WriteSnapshot, Purge, PurgeBegin, Delete, Close, Closed, Crash, Ends, Open

-----------------------------------------------------------------------------
(* The theorems. *)

\* The invariant holds when the first process starts.
LEMMA InitInv == Init => IInv
<1> SUFFICES ASSUME Init PROVE IInv
  OBVIOUS
<1> USE StoreAssumption, RowFields DEF Init, Empty
<1>1. disk = view /\ view.events = {} /\ view.snapshots = {} /\ staged = << >> /\ written = 0
  OBVIOUS
<1>2. TablesTypeOK
  BY DEF TablesTypeOK, Tables
<1>3. staged \in Seq(Rows) /\ written \in 0 .. Len(staged)
  OBVIOUS
<1>4. TypeOK
  <2>1. /\ pc \in StorePc /\ after \in {"up", "purge_begin", "close"}
        /\ err \in BOOLEAN /\ accepted \subseteq Rows /\ committed \subseteq Rows
        /\ purged \subseteq Rows
    BY DEF StorePc
  <2>2. /\ cutoff \in 0 .. MaxTime /\ reach \in 0 .. MaxTime
        /\ arrived \in 0 .. MaxRows /\ rows_written \in Nat /\ write_errors \in Nat
        /\ failures \in 0 .. MaxFailures /\ crashes \in 0 .. MaxCrashes
    OBVIOUS
  <2>3. QED
    BY <1>2, <1>3, <2>1, <2>2 DEF TypeOK
<1>5. OrderInv /\ PhasesInv
  BY <1>1 DEF OrderInv, PhasesInv, Flushing, Purging
<1>6. CommittedInv /\ InsertedInv
  BY <1>1 DEF CommittedInv, InsertedInv
<1>7. CountedInv
  BY FS_EmptySet DEF CountedInv
<1>8. AtomicInv /\ PurgedInv /\ KeptInv
  BY <1>1 DEF AtomicInv, PurgedInv, KeptInv
<1>9. QED
  BY <1>4, <1>5, <1>6, <1>7, <1>8 DEF IInv

\* Every statement, whether it succeeds or fails, and every crash preserves it.
LEMMA StepInv ==
  ASSUME IInv, [Next]_vars
  PROVE  IInv'
<1> USE DEF IInv
<1>1. TypeOK'
  BY TablesTypeStep, TypeStep
<1>2. OrderInv' /\ PhasesInv'
  BY OrderStep, PhasesStep
<1>3. CommittedInv' /\ InsertedInv'
  BY CommittedStep, InsertedStep
<1>4. CountedInv'
  BY <1>1, CountedStep
<1>5. AtomicInv' /\ PurgedInv' /\ KeptInv'
  BY AtomicStep, PurgedStep, KeptStep
<1>6. QED
  BY <1>1, <1>2, <1>3, <1>4, <1>5

\* The inductive invariant holds after any sequence of calls, failed statements
\* and crashes, of any length.
THEOREM Invariance == Spec => []IInv
<1>1. Init => IInv
  BY InitInv
<1>2. IInv /\ [Next]_vars => IInv'
  BY StepInv
<1>3. QED
  BY <1>1, <1>2, PTL DEF Spec

\* An event that was staged and is neither committed nor waiting makes
\* write_errors positive.
THEOREM LossesCounted == Spec => []LossIsCounted
<1>1. IInv => LossIsCounted
  <2>1. SUFFICES ASSUME IInv, pc \in {"up", "close"}, write_errors = 0
                 PROVE  Lost = {}
    BY DEF LossIsCounted, IInv, TypeOK
  <2>2. accepted \subseteq committed \cup Range(staged)
    BY <2>1 DEF IInv, CountedInv
  <2>3. QED
    BY <2>2 DEF Lost
<1>2. QED
  BY <1>1, Invariance, PTL

\* rows_written counts rows that reached the disk, all of them without an error.
THEOREM RowCountReal == Spec => []RowsWrittenReal
<1>1. IInv => RowsWrittenReal
  BY DEF IInv, CountedInv, RowsWrittenReal
<1>2. QED
  BY <1>1, Invariance, PTL

\* A process that ends while the transaction of a batch or purge is open leaves
\* nothing of it, and a purge that reports no error did all of it or nothing,
\* whichever of its BEGIN and COMMIT failed.
THEOREM WholeOrReported == Spec => WholeOrNothing
<1> DEFINE Step ==
      /\ /\ txn /\ pc' = "down"
         /\ pc \in {"insert", "commit", "delete_events", "delete_snapshots", "purge_commit"}
         => disk' = before
      /\ pc = "purge_commit" /\ pc' = "up" /\ ~err => disk' = before \/ Old(disk') = {}
<1>1. ASSUME IInv, Next
      PROVE  Step
  <2>1. ASSUME txn, pc' = "down",
               pc \in {"insert", "commit", "delete_events", "delete_snapshots", "purge_commit"}
        PROVE  disk' = before
    <3>1. disk' = disk
      BY <1>1, <2>1, OnlyTheEndIsDown DEF IInv
    <3>2. QED
      BY <1>1, <2>1, <3>1 DEF IInv, AtomicInv
  <2>2. ASSUME pc = "purge_commit", pc' = "up", ~err
        PROVE  disk' = before \/ Old(disk') = {}
    <3>1. PurgeCommit
      BY <1>1, <2>2, OnlyCommitEndsPurge
    <3>2. (CommitOk \/ CommitFails) /\ UNCHANGED cutoff
      BY <3>1 DEF PurgeCommit, call
    <3>3. \A row \in view.events \cup view.snapshots : row.ts_ns >= cutoff
      BY <1>1, <2>2 DEF IInv, PurgedInv
    <3>4. view \in Tables /\ cutoff \in Nat /\ (txn \/ view = disk)
      BY <1>1, StoreAssumption DEF IInv, TypeOK, TablesTypeOK
    <3>5. ASSUME disk' = view
          PROVE  Old(disk') = {}
      <4>1. \A row \in view.events \cup view.snapshots : row.ts_ns \in Nat
        BY <3>4, StoreAssumption DEF Tables, Rows, Times
      <4>2. QED
        BY <3>2, <3>3, <3>4, <3>5, <4>1 DEF Old
    <3>6. CASE CommitOk
      BY <3>5, <3>6 DEF CommitOk
    <3>7. CASE CommitFails
      <4>1. disk' = disk
        BY <3>7 DEF CommitFails, StatementFails, Breaks, db
      <4>2. CASE txn
        BY <1>1, <2>2, <4>1, <4>2 DEF IInv, AtomicInv
      <4>3. CASE ~txn
        BY <3>4, <3>5, <4>1, <4>3
      <4>4. QED
        BY <4>2, <4>3
    <3>8. QED
      BY <3>2, <3>6, <3>7
  <2>3. QED
    BY <2>1, <2>2
<1>2. IInv /\ [Next]_vars => [Step]_vars
  BY <1>1
<1>3. QED
  BY <1>2, Invariance, PTL DEF Spec, WholeOrNothing

\* What a complete purge was to delete never comes back, and a committed event
\* disappears only by a purge that asked for it.
THEOREM PurgeHolds == Spec => []PurgeIsExact
<1>1. IInv => PurgeIsExact
  BY DEF IInv, PurgedInv, KeptInv, PurgeIsExact
<1>2. QED
  BY <1>1, Invariance, PTL

=============================================================================
