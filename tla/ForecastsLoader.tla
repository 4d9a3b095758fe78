--------------------------- MODULE ForecastsLoader ---------------------------
(***************************************************************************)
(* cases/forecasts_loader.cpp and everything its background thread does    *)
(* (clients/esimo.cpp, clients/db_client.cpp), run next to the handlers of *)
(* the UI thread that write through the same database connection: "Load    *)
(* depth" and "Add safe point".                                            *)
(*                                                                         *)
(* Two threads.  ui is where the UI thread is, worker where the loading    *)
(* thread is.  A step of either is one call on the connection or one call  *)
(* that can block; the code between two such calls touches only data of    *)
(* its own thread.                                                         *)
(***************************************************************************)
EXTENDS SqliteConnection, FiniteSets

CONSTANTS
  BatchSize,     \* BATCH_SIZE of MakeBatchQuery
  MaxForecasts,  \* bound: forecasts stored over all runs of the program
  MaxRecords,    \* bound: records one process parses
  MaxUiRows      \* bound: rows the UI thread writes

ASSUME BatchSizeAssumption == BatchSize \in Nat \ {0}
ASSUME BoundsAssumption == /\ MaxForecasts \in Nat
                           /\ MaxRecords \in Nat
                           /\ MaxUiRows \in Nat

VARIABLES
  ui,         \* where the UI thread is
  depthLeft,  \* batches InsertDepthPointBatch still has to write
  worker,     \* where the loading thread is
  joinable,   \* load_thread_.joinable()
  ready,      \* future_ is ready
  records,    \* records_.size() of the EsimoProvider
  forecastId, \* forecastId of the task
  written,    \* records of the task already handed to exec
  lastId,     \* last forecasts.id SQLite handed out (AUTOINCREMENT)
  issued,     \* UI rows issued so far, the serial number of the last one
  \* what the properties remember:
  handed,     \* forecast id -> how many records its task had to store
  completed,  \* forecasts whose task returned without an exception
  disturbed,  \* forecasts whose transaction a failing UI statement ended
  acked,      \* UI rows reported as written, with no transaction open
  exposed     \* UI rows reported as written inside the transaction of a load,
              \* each with the forecast of that load

uiVars == <<ui, depthLeft, issued, acked, exposed>>
taskVars == <<records, forecastId, written, lastId, handed, completed>>
threadVars == <<worker, joinable, ready>>
vars == <<connVars, uiVars, taskVars, threadVars, disturbed>>

\* "selecting" is where a SELECT leaves the UI thread: CheckDuringLoad.
UiPlace == {"idle", "joining", "depth", "closing", "closed", "selecting"}

\* The places of the task at which the thread still has work to do.
Working == {"post", "insertForecast", "begin", "batch", "commit", "rollback"}
WorkerPlace == Working \cup {"none", "returned", "exited"}

ForecastRow(f) == [table |-> "forecasts", key |-> f, index |-> 0]
RecordRow(f, i) == [table |-> "forecast_records", key |-> f, index |-> i]

\* The records of forecast f that a set of rows holds.
Stored(rows, f) ==
  {r.index : r \in {q \in rows : q.table = "forecast_records" /\ q.key = f}}

Init ==
  /\ ConnInit
  /\ ui = "idle" /\ depthLeft = 0 /\ issued = 0
  /\ acked = {} /\ exposed = {} /\ disturbed = {}
  /\ worker = "none" /\ joinable = FALSE /\ ready = FALSE
  /\ records = 0 /\ forecastId = 0 /\ written = 0
  /\ lastId = 0 /\ handed = [f \in {} |-> 0] /\ completed = {}

-----------------------------------------------------------------------------
(* ForecastsLoader::Load, on the UI thread                                 *)

\* A new packaged_task, its future and its thread.
StartTask == /\ worker' = "post"
             /\ joinable' = TRUE
             /\ ready' = FALSE

MayStart == lastId < MaxForecasts    \* bound

\* The first click: no thread to join.
LoadFirst == /\ ui = "idle" /\ ~joinable /\ MayStart
             /\ StartTask
             /\ UNCHANGED <<connVars, uiVars, taskVars, disturbed>>

\* "esimo forecast loading not finished yet": OnLoadForecastsClicked catches it.
LoadRefused == /\ ui = "idle" /\ joinable /\ ~ready
               /\ UNCHANGED vars

\* The task is over, but its thread may not have ended yet: the handler enters
\* join() ...
LoadJoins == /\ ui = "idle" /\ joinable /\ ready /\ MayStart
             /\ ui' = "joining"
             /\ UNCHANGED <<connVars, depthLeft, issued, acked, exposed,
                            taskVars, threadVars, disturbed>>

\* ... and starts the next task when join() returns.
LoadAfterJoin == /\ ui = "joining" /\ worker = "exited"
                 /\ ui' = "idle"
                 /\ StartTask
                 /\ UNCHANGED <<connVars, depthLeft, issued, acked, exposed,
                                taskVars, disturbed>>

-----------------------------------------------------------------------------
(* The task, on the loading thread                                         *)

\* The packaged_task stores the result or the exception: the future is ready.
Finish == /\ worker' = "returned"
          /\ ready' = TRUE
          /\ UNCHANGED joinable

Goto(place) == /\ worker' = place
               /\ UNCHANGED <<joinable, ready>>

\* LoadForecasts: the reply is saved to a file and csv_parse appends its n
\* accepted rows to records_, which nobody ever clears.
PostReplies ==
  /\ worker = "post"
  /\ \E n \in 0 .. (MaxRecords - records) : records' = records + n
  /\ Goto("insertForecast")
  /\ UNCHANGED <<connVars, uiVars, forecastId, written, lastId, handed,
                 completed, disturbed>>

\* Post or SaveData fails: the exception leaves the task before its try block.
PostFails ==
  /\ worker = "post"
  /\ Finish
  /\ UNCHANGED <<connVars, uiVars, taskVars, disturbed>>

\* Faulty variant: the id is not the one SQLite handed out.
InsertForecastWrongId ==
  /\ worker = "insertForecast"
  /\ Exec({ForecastRow(lastId + 1)})
  /\ lastId' = lastId + 1
  /\ forecastId' = lastId + 2
  /\ written' = 0
  /\ handed' = [f \in 1 .. lastId + 1 |->
                  IF f = lastId + 1 THEN records ELSE handed[f]]
  /\ Goto("begin")
  /\ UNCHANGED <<uiVars, records, completed, disturbed>>

\* InsertForecast, in autocommit.
InsertForecast ==
  /\ worker = "insertForecast"
  /\ Exec({ForecastRow(lastId + 1)})
  /\ lastId' = lastId + 1
  /\ forecastId' = lastId + 1
  /\ written' = 0
  /\ handed' = [f \in 1 .. lastId + 1 |->
                  IF f = lastId + 1 THEN records ELSE handed[f]]
  /\ Goto("begin")
  /\ UNCHANGED <<uiVars, records, completed, disturbed>>

InsertForecastFails ==
  /\ worker = "insertForecast"
  /\ ExecFails
  /\ Finish
  /\ UNCHANGED <<uiVars, taskVars, disturbed>>

\* Faulty variant: no transaction, as in InsertDepthPointBatch.
BeginNothing ==
  /\ worker = "begin"
  /\ Goto("batch")
  /\ UNCHANGED <<connVars, uiVars, taskVars, disturbed>>

\* InsertForecastRecordBatch: SQLite::Transaction trans(*db_).
BeginTransaction ==
  /\ worker = "begin"
  /\ Begin
  /\ Goto("batch")
  /\ UNCHANGED <<uiVars, taskVars, disturbed>>

\* The constructor throws: there is no Transaction object to roll back.
BeginFails ==
  /\ worker = "begin"
  /\ Finish
  /\ UNCHANGED <<connVars, uiVars, taskVars, disturbed>>

\* Where the batch that follows record i ends.
BatchEnd(i) == IF i + BatchSize < records THEN i + BatchSize ELSE records

ExecBatch ==
  /\ worker = "batch" /\ written < records
  /\ Exec({RecordRow(forecastId, i) : i \in (written + 1) .. BatchEnd(written)})
  /\ written' = BatchEnd(written)
  /\ UNCHANGED <<uiVars, records, forecastId, lastId, handed, completed,
                 threadVars, disturbed>>

\* exec throws: the stack unwinds to the destructor of the Transaction.
ExecBatchFails ==
  /\ worker = "batch" /\ written < records
  /\ ExecFails
  /\ Goto("rollback")
  /\ UNCHANGED <<uiVars, taskVars, disturbed>>

BatchesDone ==
  /\ worker = "batch" /\ written >= records
  /\ Goto("commit")
  /\ UNCHANGED <<connVars, uiVars, taskVars, disturbed>>

CommitTransaction ==
  /\ worker = "commit"
  /\ Commit
  /\ completed' = completed \cup {forecastId}
  /\ Finish
  /\ UNCHANGED <<uiVars, records, forecastId, written, lastId, handed, disturbed>>

\* Faulty variant: the error of COMMIT is ignored.
CommitFailsIgnored ==
  /\ worker = "commit"
  /\ ExecFails
  /\ completed' = completed \cup {forecastId}
  /\ Goto("rollback")
  /\ UNCHANGED <<uiVars, records, forecastId, written, lastId, handed, disturbed>>

\* Faulty variant: a failed COMMIT is retried without a limit.
CommitFailsRetried ==
  /\ worker = "commit"
  /\ ExecFails
  /\ Goto("begin")
  /\ UNCHANGED <<uiVars, taskVars, disturbed>>

\* COMMIT throws; it always does when the transaction is no longer open.
CommitFails ==
  /\ worker = "commit"
  /\ ExecFails
  /\ Goto("rollback")
  /\ UNCHANGED <<uiVars, taskVars, disturbed>>

\* Faulty variant: the destructor keeps what was written so far.
TransactionDestroyedKeeps ==
  /\ worker = "rollback"
  /\ IF inTxn THEN Commit ELSE UNCHANGED connVars
  /\ Finish
  /\ UNCHANGED <<uiVars, taskVars, disturbed>>

\* ~Transaction rolls back and swallows the error there is when nothing is
\* open; the task's catch block logs and rethrows into the future.
TransactionDestroyed ==
  /\ worker = "rollback"
  /\ IF inTxn THEN Rollback ELSE UNCHANGED connVars
  /\ Finish
  /\ UNCHANGED <<uiVars, taskVars, disturbed>>

\* The thread ends some time after the future became ready.
ThreadExits ==
  /\ worker = "returned"
  /\ Goto("exited")
  /\ UNCHANGED <<connVars, uiVars, taskVars, disturbed>>

-----------------------------------------------------------------------------
(* The other writers, on the UI thread                                     *)

UiRow(table) == [table |-> table, key |-> issued + 1, index |-> 0]

\* One exec of the UI thread that returns.
UiInsert(table) ==
  /\ Exec({UiRow(table)})
  /\ issued' = issued + 1
  /\ IF inTxn
       THEN /\ exposed' = exposed \cup
                            {[row |-> UiRow(table), forecast |-> forecastId]}
            /\ UNCHANGED acked
       ELSE /\ acked' = acked \cup {UiRow(table)}
            /\ UNCHANGED exposed
  /\ UNCHANGED disturbed

\* One exec of the UI thread that throws; it may end the transaction of the
\* loading thread.
UiInsertFails ==
  /\ ExecFails
  /\ disturbed' = IF inTxn /\ ~inTxn' THEN disturbed \cup {forecastId}
                                      ELSE disturbed
  /\ issued' = issued + 1
  /\ UNCHANGED <<acked, exposed>>

\* OnLoadDepthClicked: the file is read and the first of n batches is due.
LoadDepth ==
  /\ ui = "idle"
  /\ \E n \in 1 .. (MaxUiRows - issued) : depthLeft' = n
  /\ ui' = "depth"
  /\ UNCHANGED <<connVars, issued, acked, exposed, taskVars, threadVars,
                 disturbed>>

\* InsertDepthPointBatch: each batch is on its own and logged as progress.
ExecDepthBatch ==
  /\ ui = "depth" /\ depthLeft > 0
  /\ UiInsert("depths")
  /\ depthLeft' = depthLeft - 1
  /\ UNCHANGED <<ui, taskVars, threadVars>>

\* The handler catches: the batches before this one stay.
ExecDepthBatchFails ==
  /\ ui = "depth" /\ depthLeft > 0
  /\ UiInsertFails
  /\ depthLeft' = 0
  /\ UNCHANGED <<ui, taskVars, threadVars>>

DepthLoaded ==
  /\ ui = "depth" /\ depthLeft = 0
  /\ ui' = "idle"
  /\ UNCHANGED <<connVars, depthLeft, issued, acked, exposed, taskVars,
                 threadVars, disturbed>>

\* OnAddSafePoint -> SafePointManager::Load -> InsertSafePoints.
AddSafePoint ==
  /\ ui = "idle" /\ issued < MaxUiRows
  /\ \/ UiInsert("safe_points")
     \/ UiInsertFails
  /\ UNCHANGED <<ui, depthLeft, taskVars, threadVars>>

-----------------------------------------------------------------------------
(* The end of the process and the next one                                 *)

\* ~ForecastsLoader runs when the plugin object goes away.
Close ==
  /\ ui = "idle"
  /\ ui' = "closing"
  /\ UNCHANGED <<connVars, depthLeft, issued, acked, exposed, taskVars,
                 threadVars, disturbed>>

\* Faulty variant: the thread is left behind.
CloseDetaches ==
  /\ ui = "closing"
  /\ ui' = "closed"
  /\ joinable' = FALSE
  /\ UNCHANGED <<connVars, depthLeft, issued, acked, exposed, taskVars,
                 worker, ready, disturbed>>

\* It joins the thread, if there is one; nothing stops the task early.
CloseReturns ==
  /\ ui = "closing"
  /\ joinable => worker = "exited"
  /\ ui' = "closed"
  /\ joinable' = FALSE
  /\ UNCHANGED <<connVars, depthLeft, issued, acked, exposed, taskVars,
                 worker, ready, disturbed>>

\* What a new process starts with.
Fresh == /\ Reopen
         /\ ui' = "idle" /\ depthLeft' = 0
         /\ worker' = "none" /\ joinable' = FALSE /\ ready' = FALSE
         /\ records' = 0 /\ forecastId' = 0 /\ written' = 0
         /\ UNCHANGED <<issued, acked, exposed, lastId, handed, completed,
                        disturbed>>

Restart == ui = "closed" /\ Fresh

\* The process dies, wherever its threads are, and is started again.
Crash == ui # "closed" /\ Fresh

-----------------------------------------------------------------------------
\* The HTTP request comes back, one way or the other.
PostReturns == PostReplies \/ PostFails

\* What the task does from then on.
TaskContinues ==
  \/ InsertForecast \/ InsertForecastFails
  \/ BeginTransaction \/ BeginFails
  \/ ExecBatch \/ ExecBatchFails \/ BatchesDone
  \/ CommitTransaction \/ CommitFails \/ TransactionDestroyed
  \/ ThreadExits

WorkerStep == PostReturns \/ TaskContinues

\* What a handler of the UI thread does without waiting for the user.
UiContinues ==
  \/ LoadAfterJoin
  \/ ExecDepthBatch \/ ExecDepthBatchFails \/ DepthLoaded
  \/ CloseReturns

UiClicks ==
  \/ LoadFirst \/ LoadRefused \/ LoadJoins
  \/ LoadDepth \/ AddSafePoint \/ Close

Next == WorkerStep \/ UiContinues \/ UiClicks \/ Restart \/ Crash

Spec == Init /\ [][Next]_vars

-----------------------------------------------------------------------------
\* The type invariant.
TypeOK ==
  /\ ConnTypeOK
  /\ ui \in UiPlace /\ depthLeft \in Nat /\ issued \in Nat
  /\ acked \subseteq Row
  /\ exposed \subseteq [row : Row, forecast : 0 .. lastId]
  /\ worker \in WorkerPlace /\ joinable \in BOOLEAN /\ ready \in BOOLEAN
  /\ records \in Nat /\ written \in Nat
  /\ lastId \in Nat /\ forecastId \in 0 .. lastId
  /\ handed \in [1 .. lastId -> Nat]
  /\ completed \subseteq 1 .. lastId
  /\ disturbed \subseteq 0 .. lastId

\* The file holds the records of a forecast completely or not at all, at every
\* instant and so after any crash, rollback or failed statement: the reason
\* InsertForecastRecordBatch opens a transaction.  The one exception is a
\* transaction that a failing statement of the UI thread ended under the
\* loading thread, whose later batches are then committed one by one.
AllOrNothing ==
  \A f \in 1 .. lastId :
    f \notin disturbed => Stored(disk, f) \in {{}, 1 .. handed[f]}

\* A load that ended without an exception has all its records in the file, and
\* they stay, whatever the UI thread wrote or broke on the same connection in
\* the middle of it.
CompletedIsStored ==
  \A f \in completed : Stored(disk, f) = 1 .. handed[f]

\* A transaction is open only between BEGIN and the end of the Transaction
\* object: the next load never issues BEGIN inside one, and the UI thread's
\* statements are on their own again.
TransactionIsBracketed == inTxn => worker \in {"batch", "commit", "rollback"}

\* Clicking "Download forecasts" never blocks the window on a running task:
\* Load enters join() only when the task is over.
JoinIsShort == ui = "joining" => worker \notin Working

\* A depth batch or safe point reported as written while no load had a
\* transaction open is in the file for good.
AckedIsDurable == acked \subseteq disk

\* One reported as written inside the transaction of a load shares the fate of
\* that load: it is in the file if and only if the load completed.  (The depth
\* loader's progress log and the safe point dialog do not wait for that.)
ExposedSharesFate ==
  \A e \in exposed : e.row \in disk <=> e.forecast \in completed

\* After the destructor's join() the file misses nothing a statement could read:
\* closing the plugin never cuts a transaction off.
CleanClose == ui = "closed" => view = disk

\* The protocol of the two threads.
ThreadsAreOrderly == TransactionIsBracketed /\ JoinIsShort /\ CleanClose

\* What the UI thread's own reports ("depth load progress", the safe point dialog)
\* are worth.
ReportedRowsAreKept == AckedIsDurable /\ ExposedSharesFate

-----------------------------------------------------------------------------
\* The loader implements the atomic ForecastStore: what the file holds of the
\* forecasts that no foreign statement disturbed.
StoredPairs ==
  {<<r.key, r.index>> :
     r \in {q \in disk : q.table = "forecast_records" /\ q.key \notin disturbed}}

Store == INSTANCE ForecastStore
           WITH stored <- StoredPairs, Id <- 1 .. MaxForecasts, Size <- 1 .. MaxRecords

\* Every step of the two threads, of a crash and of a restart is one atomic
\* publication of a whole forecast, or leaves the stored forecasts alone.
ImplementsStore == Store!Spec

=============================================================================
