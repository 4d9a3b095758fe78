-------------------------- MODULE SqliteConnection --------------------------
(***************************************************************************)
(* The one SQLite connection of the plugin.  dependencies.cpp opens it     *)
(* once and every client shares it, so the UI thread and the forecast      *)
(* loading thread run statements on the SAME connection.  SQLite and       *)
(* SQLiteCpp are external: this is what the calls made in                  *)
(* clients/db_client.cpp rely on.  SQLite's default serialized mode makes  *)
(* one exec atomic; nothing in the plugin makes two of them so.            *)
(*                                                                         *)
(* disk   what survives the process                                        *)
(* view   what a statement on this connection reads: disk and the writes   *)
(*        of the transaction that is open, whichever thread made them      *)
(* inTxn  a BEGIN has been executed and not yet ended                      *)
(***************************************************************************)
EXTENDS Integers

\* SQLite may answer a failing statement (disk full, I/O error, no memory) by
\* rolling back the whole open transaction and not just the statement.
CONSTANT AutoRollback

ASSUME AutoRollbackAssumption == AutoRollback \in BOOLEAN

VARIABLES disk, view, inTxn

connVars == <<disk, view, inTxn>>

\* The tables of create_tables.sql.  A row is abstracted to what tells it from
\* the others: forecasts.id, forecast_records.forecast_id and the position of
\* the record in the batch, or the serial number of a depth or safe point batch.
Table == {"forecasts", "forecast_records", "depths", "safe_points"}
Row == [table : Table, key : Nat, index : Nat]

ConnTypeOK == /\ disk \subseteq Row
              /\ view \subseteq Row
              /\ inTxn \in BOOLEAN

ConnInit == /\ disk = {}
            /\ view = {}
            /\ inTxn = FALSE

-----------------------------------------------------------------------------
\* Database::exec of one INSERT: it joins the transaction that is open, or is
\* committed on its own.
Exec(rows) == /\ view' = view \cup rows
              /\ disk' = IF inTxn THEN disk ELSE disk \cup rows
              /\ UNCHANGED inTxn

\* ROLLBACK: every write since BEGIN is forgotten.
Rollback == /\ inTxn
            /\ view' = disk
            /\ inTxn' = FALSE
            /\ UNCHANGED disk

\* A statement that throws leaves nothing of its own behind.
ExecFails == \/ UNCHANGED connVars
             \/ AutoRollback /\ Rollback

\* The constructor of SQLite::Transaction.
Begin == /\ ~inTxn
         /\ inTxn' = TRUE
         /\ UNCHANGED <<disk, view>>

\* Transaction::commit.
Commit == /\ inTxn
          /\ disk' = view
          /\ inTxn' = FALSE
          /\ UNCHANGED view

\* The process dies, or closes the file, and opens it again: SQLite's journal
\* undoes the transaction that was open.
Reopen == /\ view' = disk
          /\ inTxn' = FALSE
          /\ UNCHANGED disk

=============================================================================
