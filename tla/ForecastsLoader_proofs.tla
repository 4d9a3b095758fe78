----------------------- MODULE ForecastsLoader_proofs -----------------------
(***************************************************************************)
(* Theorems about ForecastsLoader, for every batch size, every number of   *)
(* forecasts, records and UI rows, and for both answers of SQLite to a     *)
(* failing statement; then about CheckDuringLoad, a SELECT that steps      *)
(* through the rows on the UI thread while the loading thread writes, for  *)
(* every number of points as well.                                         *)
(***************************************************************************)
EXTENDS CheckDuringLoad, FiniteSetTheorems, TLAPS

(* The inductive invariant, in parts.                                      *)

\* Where the threads can be at the same time.
Places ==
  /\ ready => worker \in {"returned", "exited"}
  /\ ~joinable => worker \in {"none", "exited"}
  /\ ui = "closed" => worker \in {"none", "exited"}
  /\ JoinIsShort
  /\ TransactionIsBracketed

\* The file is what the connection reads unless a transaction is open.
Connection ==
  /\ disk \subseteq view
  /\ ~inTxn => view = disk

\* The ids and serial numbers in use are those handed out.
Numbering ==
  /\ records <= MaxRecords /\ lastId <= MaxForecasts
  /\ worker \in {"post", "insertForecast"} \/ ui = "joining" => lastId < MaxForecasts
  /\ \A r \in view : r.table = "forecast_records" => r.key \in 1 .. lastId
  /\ \A r \in view : r.table \in {"depths", "safe_points"} => r.key <= issued
  /\ \A e \in exposed : /\ e.row.table \in {"depths", "safe_points"}
                        /\ e.row.key <= issued

\* What is stored of the forecast the task is about.
Task ==
  /\ worker \in {"begin", "batch", "commit", "rollback"} =>
       /\ forecastId \in 1 .. lastId
       /\ forecastId \notin completed
       /\ handed[forecastId] = records
  /\ worker = "begin" =>
       /\ written = 0
       /\ Stored(view, forecastId) = {}
       /\ forecastId \notin disturbed
       /\ \A e \in exposed : e.forecast # forecastId
  /\ worker \in {"batch", "commit"} =>
       /\ written <= records
       /\ inTxn => /\ Stored(disk, forecastId) = {}
                   /\ Stored(view, forecastId) = 1 .. written
                   /\ forecastId \notin disturbed
       /\ ~inTxn => forecastId \in disturbed
  /\ worker = "commit" => written = records
  /\ worker = "rollback" /\ inTxn =>
       /\ Stored(disk, forecastId) = {}
       /\ Stored(view, forecastId) = 1 .. written
       /\ forecastId \notin disturbed

\* A UI row written inside the open transaction is in it and not in the file;
\* every other exposed row shares the fate of its load.
Exposed ==
  \A e \in exposed :
    IF inTxn /\ e.forecast = forecastId
      THEN e.row \in view /\ e.row \notin disk
      ELSE /\ e.row \in view <=> e.forecast \in completed
           /\ e.row \in disk <=> e.forecast \in completed

\* The only forecast records that are not in the file yet are the task's.
Pending ==
  \A r \in view \ disk : r.table = "forecast_records" => r.key = forecastId

\* The file holds nothing of a load that did not complete.
FailedIsAbsent ==
  \A f \in 1 .. lastId : f \notin completed \cup disturbed => Stored(disk, f) = {}

IInv == /\ TypeOK /\ Places /\ Connection /\ Numbering /\ Task /\ Exposed /\ Pending
        /\ AllOrNothing /\ CompletedIsStored /\ FailedIsAbsent /\ AckedIsDurable

-----------------------------------------------------------------------------
(* Rows.                                                                   *)

LEMMA RowTypes ==
  /\ \A f \in Nat : ForecastRow(f) \in Row
  /\ \A f, i \in Nat : RecordRow(f, i) \in Row
  /\ issued \in Nat => UiRow("depths") \in Row /\ UiRow("safe_points") \in Row
<1>1. \A f \in Nat : ForecastRow(f) \in Row
  BY DEF ForecastRow, Row, Table
<1>2. \A f, i \in Nat : RecordRow(f, i) \in Row
  BY DEF RecordRow, Row, Table
<1>3. issued \in Nat => UiRow("depths") \in Row /\ UiRow("safe_points") \in Row
  BY DEF UiRow, Row, Table
<1> QED BY <1>1, <1>2, <1>3

\* A batch adds its positions to its own forecast, and nothing to another.
LEMMA StoredBatch ==
  ASSUME NEW S, NEW I, NEW f, NEW g
  PROVE  Stored(S \cup {RecordRow(f, i) : i \in I}, g)
           = Stored(S, g) \cup (IF f = g THEN I ELSE {})
<1> DEFINE new == {RecordRow(f, i) : i \in I}
           of(R) == {q \in R : q.table = "forecast_records" /\ q.key = g}
<1>1. of(S \cup new) = of(S) \cup of(new)
  OBVIOUS
<1>2. \A i \in I : /\ RecordRow(f, i).table = "forecast_records"
                   /\ RecordRow(f, i).key = f
                   /\ RecordRow(f, i).index = i
  BY DEF RecordRow
<1>3. of(new) = IF f = g THEN new ELSE {}
  BY <1>2
<1>4. {r.index : r \in new} = I
  BY <1>2
<1> HIDE DEF of, new
<1>5. {r.index : r \in of(S) \cup of(new)}
        = {r.index : r \in of(S)} \cup {r.index : r \in of(new)}
  OBVIOUS
<1>6. {r.index : r \in of(new)} = IF f = g THEN I ELSE {}
  BY <1>3, <1>4
<1> QED BY <1>1, <1>5, <1>6 DEF Stored, of, new

-----------------------------------------------------------------------------
LEMMA TypeStep ==
  ASSUME TypeOK, Task, [Next]_vars
  PROVE  TypeOK'
<1> USE RowTypes, BatchSizeAssumption, BoundsAssumption
<1> USE DEF TypeOK, ConnTypeOK, UiPlace, WorkerPlace, Working
<1>1. CASE UNCHANGED vars
  BY <1>1 DEF vars, connVars, uiVars, taskVars, threadVars
<1>2. CASE WorkerStep
  <2>1. CASE PostReplies
    BY <2>1 DEF PostReplies, Goto, connVars, uiVars
  <2>2. CASE PostFails \/ BeginFails \/ BatchesDone \/ ThreadExits
    BY <2>2 DEF PostFails, BeginFails, BatchesDone, ThreadExits, Goto, Finish,
                connVars, uiVars, taskVars
  <2>3. CASE InsertForecast
    BY <2>3 DEF InsertForecast, Exec, Goto, uiVars
  <2>4. CASE InsertForecastFails \/ BeginTransaction \/ ExecBatchFails
               \/ CommitFails \/ TransactionDestroyed
    BY <2>4 DEF InsertForecastFails, BeginTransaction, ExecBatchFails, CommitFails,
                TransactionDestroyed, ExecFails, Begin, Rollback, Goto, Finish,
                connVars, uiVars, taskVars
  <2>5. CASE ExecBatch
    <3> DEFINE new == {RecordRow(forecastId, i) : i \in (written + 1) .. BatchEnd(written)}
    <3>1. BatchEnd(written) \in Nat /\ forecastId \in Nat
      BY DEF BatchEnd
    <3>2. new \subseteq Row
      BY <3>1
    <3> HIDE DEF new
    <3>3. Exec(new)
      BY <2>5 DEF ExecBatch, new
    <3> QED BY <2>5, <3>1, <3>2, <3>3 DEF ExecBatch, Exec, uiVars, threadVars
  <2>6. CASE CommitTransaction
    BY <2>6 DEF CommitTransaction, Commit, Finish, Task, uiVars
  <2> QED BY <1>2, <2>1, <2>2, <2>3, <2>4, <2>5, <2>6 DEF WorkerStep, PostReturns, TaskContinues
<1>3. ASSUME NEW table \in {"depths", "safe_points"}, UiInsert(table)
      PROVE  /\ ConnTypeOK' /\ issued' \in Nat /\ acked' \subseteq Row
             /\ exposed' \subseteq [row : Row, forecast : 0 .. lastId]
             /\ disturbed' \subseteq 0 .. lastId
  <2>1. UiRow(table) \in Row
    OBVIOUS
  <2>2. [row |-> UiRow(table), forecast |-> forecastId] \in [row : Row, forecast : 0 .. lastId]
    BY <2>1
  <2> QED BY <1>3, <2>1, <2>2 DEF UiInsert, Exec
<1>4. ASSUME UiInsertFails
      PROVE  /\ ConnTypeOK' /\ issued' \in Nat /\ acked' \subseteq Row
             /\ exposed' \subseteq [row : Row, forecast : 0 .. lastId]
             /\ disturbed' \subseteq 0 .. lastId
  <2>1. CASE UNCHANGED connVars
    BY <1>4, <2>1 DEF UiInsertFails, connVars
  <2>2. CASE Rollback
    <3>1. ConnTypeOK'
      BY <2>2 DEF Rollback
    <3>2. disturbed' \subseteq disturbed \cup {forecastId}
      BY <1>4 DEF UiInsertFails
    <3>3. issued' \in Nat /\ acked' = acked /\ exposed' = exposed
      BY <1>4 DEF UiInsertFails
    <3> QED BY <3>1, <3>2, <3>3
  <2> QED BY <1>4, <2>1, <2>2 DEF UiInsertFails, ExecFails
<1>5. CASE UiContinues
  <2>1. CASE LoadAfterJoin \/ DepthLoaded \/ CloseReturns
    BY <2>1 DEF LoadAfterJoin, DepthLoaded, CloseReturns, StartTask, connVars,
                taskVars, threadVars
  <2>2. CASE ExecDepthBatch
    BY <2>2, <1>3 DEF ExecDepthBatch, taskVars, threadVars
  <2>3. CASE ExecDepthBatchFails
    BY <2>3, <1>4 DEF ExecDepthBatchFails, taskVars, threadVars
  <2> QED BY <1>5, <2>1, <2>2, <2>3 DEF UiContinues
<1>6. CASE UiClicks
  <2>1. CASE LoadFirst \/ LoadJoins \/ Close
    BY <2>1 DEF LoadFirst, LoadJoins, Close, StartTask, connVars, uiVars, taskVars,
                threadVars
  <2>2. CASE LoadRefused
    BY <2>2, <1>1 DEF LoadRefused
  <2>3. CASE LoadDepth
    <3>1. depthLeft' \in Nat /\ ui' = "depth"
      BY <2>3 DEF LoadDepth
    <3> QED BY <2>3, <3>1 DEF LoadDepth, connVars, taskVars, threadVars
  <2>4. CASE AddSafePoint
    BY <2>4, <1>3, <1>4 DEF AddSafePoint, taskVars, threadVars
  <2> QED BY <1>6, <2>1, <2>2, <2>3, <2>4 DEF UiClicks
<1>7. CASE Fresh
  <2>1. ConnTypeOK'
    BY <1>7 DEF Fresh, Reopen
  <2>2. /\ ui' \in UiPlace /\ worker' \in WorkerPlace
        /\ joinable' \in BOOLEAN /\ ready' \in BOOLEAN
    BY <1>7 DEF Fresh
  <2> QED BY <1>7, <2>1, <2>2 DEF Fresh
<1>8. CASE Restart \/ Crash
  BY <1>7, <1>8 DEF Restart, Crash
<1> QED BY <1>1, <1>2, <1>5, <1>6, <1>8 DEF Next

-----------------------------------------------------------------------------
LEMMA PlacesStep ==
  ASSUME TypeOK, Places, [Next]_vars
  PROVE  Places'
<1> USE DEF Places, JoinIsShort, TransactionIsBracketed, Working
<1>1. CASE UNCHANGED vars
  BY <1>1 DEF vars, connVars, uiVars, threadVars
<1>2. CASE WorkerStep
  <2>1. CASE PostReplies \/ PostFails \/ BeginFails \/ BatchesDone \/ ThreadExits
    BY <2>1 DEF PostReplies, PostFails, BeginFails, BatchesDone, ThreadExits, Goto,
                Finish, connVars, uiVars
  <2>2. CASE InsertForecast
    BY <2>2 DEF InsertForecast, Exec, Goto, uiVars
  <2>3. CASE BeginTransaction
    BY <2>3 DEF BeginTransaction, Begin, Goto, uiVars
  <2>4. CASE ExecBatch
    BY <2>4 DEF ExecBatch, Exec, threadVars, uiVars
  <2>5. CASE CommitTransaction
    BY <2>5 DEF CommitTransaction, Commit, Finish, uiVars
  <2>6. CASE InsertForecastFails \/ ExecBatchFails \/ CommitFails
    BY <2>6 DEF InsertForecastFails, ExecBatchFails, CommitFails, ExecFails, Rollback,
                Goto, Finish, connVars, uiVars
  <2>7. CASE TransactionDestroyed
    BY <2>7 DEF TransactionDestroyed, Rollback, Finish, connVars, uiVars
  <2> QED BY <1>2, <2>1, <2>2, <2>3, <2>4, <2>5, <2>6, <2>7 DEF WorkerStep, PostReturns, TaskContinues
<1>3. ASSUME NEW table, UiInsert(table)  PROVE inTxn' = inTxn
  BY <1>3 DEF UiInsert, Exec
<1>4. ASSUME UiInsertFails  PROVE inTxn' => inTxn
  BY <1>4 DEF UiInsertFails, ExecFails, Rollback, connVars
<1>5. CASE UiContinues
  <2>1. CASE LoadAfterJoin \/ DepthLoaded
    BY <2>1 DEF LoadAfterJoin, DepthLoaded, StartTask, connVars, threadVars
  <2>2. CASE CloseReturns
    BY <2>2 DEF CloseReturns, connVars
  <2>3. CASE ExecDepthBatch \/ ExecDepthBatchFails
    BY <2>3, <1>3, <1>4 DEF ExecDepthBatch, ExecDepthBatchFails, threadVars
  <2> QED BY <1>5, <2>1, <2>2, <2>3 DEF UiContinues
<1>6. CASE UiClicks
  <2>1. CASE LoadFirst \/ LoadJoins \/ LoadDepth \/ Close
    BY <2>1 DEF LoadFirst, LoadJoins, LoadDepth, Close, StartTask, connVars,
                threadVars, uiVars
  <2>2. CASE LoadRefused
    BY <2>2, <1>1 DEF LoadRefused
  <2>3. CASE AddSafePoint
    BY <2>3, <1>3, <1>4 DEF AddSafePoint, threadVars
  <2> QED BY <1>6, <2>1, <2>2, <2>3 DEF UiClicks
<1>7. CASE Restart \/ Crash
  BY <1>7 DEF Restart, Crash, Fresh, Reopen
<1> QED BY <1>1, <1>2, <1>5, <1>6, <1>7 DEF Next

-----------------------------------------------------------------------------
(* What a step does to the connection, whichever thread makes it.          *)

ConnStep == \/ UNCHANGED connVars
            \/ \E rows : Exec(rows)
            \/ Begin \/ Commit \/ Rollback \/ Reopen

LEMMA NextIsConnStep ==
  ASSUME [Next]_vars
  PROVE  ConnStep
<1> USE DEF ConnStep
<1>1. CASE UNCHANGED vars
  BY <1>1 DEF vars
<1>2. CASE WorkerStep
  BY <1>2 DEF WorkerStep, PostReturns, TaskContinues, PostReplies, PostFails, InsertForecast, InsertForecastFails,
              BeginTransaction, BeginFails, ExecBatch, ExecBatchFails, BatchesDone,
              CommitTransaction, CommitFails, TransactionDestroyed, ThreadExits, ExecFails
<1>3. CASE UiContinues
  BY <1>3 DEF UiContinues, LoadAfterJoin, ExecDepthBatch, ExecDepthBatchFails,
              DepthLoaded, CloseReturns, UiInsert, UiInsertFails, ExecFails
<1>4. CASE UiClicks
  BY <1>4 DEF UiClicks, LoadFirst, LoadRefused, LoadJoins, LoadDepth, AddSafePoint,
              Close, UiInsert, UiInsertFails, ExecFails, vars
<1>5. CASE Restart \/ Crash
  BY <1>5 DEF Restart, Crash, Fresh
<1> QED BY <1>1, <1>2, <1>3, <1>4, <1>5 DEF Next

LEMMA ConnectionStep ==
  ASSUME ConnTypeOK, Connection, [Next]_vars
  PROVE  /\ Connection'
         /\ disk \subseteq disk'
<1>1. ConnStep
  BY NextIsConnStep
<1>2. CASE UNCHANGED connVars
  BY <1>2 DEF connVars, Connection
<1>3. ASSUME NEW rows, Exec(rows)
      PROVE  Connection' /\ disk \subseteq disk'
  BY <1>3 DEF Exec, Connection, ConnTypeOK
<1>4. CASE Begin
  BY <1>4 DEF Begin, Connection
<1>5. CASE Commit
  BY <1>5 DEF Commit, Connection
<1>6. CASE Rollback \/ Reopen
  BY <1>6 DEF Rollback, Reopen, Connection
<1> QED BY <1>1, <1>2, <1>3, <1>4, <1>5, <1>6 DEF ConnStep

-----------------------------------------------------------------------------
\* The bounds, and the numbers in the rows.
LEMMA NumberingStep ==
  ASSUME TypeOK, Places, Connection, Numbering, Task, [Next]_vars
  PROVE  Numbering'
<1> DEFINE Known(rows, id, serial) ==
             \A r \in rows :
               /\ r.table = "forecast_records" => r.key \in 1 .. id
               /\ r.table \in {"depths", "safe_points"} => r.key <= serial
           KnownExposed(es, serial) ==
             \A e \in es : /\ e.row.table \in {"depths", "safe_points"}
                           /\ e.row.key <= serial
           Room == worker \in {"post", "insertForecast"} \/ ui = "joining"
                     => lastId < MaxForecasts
           Within == records <= MaxRecords /\ lastId <= MaxForecasts
<1> SUFFICES /\ Known(view, lastId, issued)' /\ KnownExposed(exposed, issued)'
             /\ Room' /\ Within'
  BY DEF Numbering
<1>0. /\ Known(view, lastId, issued) /\ KnownExposed(exposed, issued)
      /\ Room /\ Within /\ disk \subseteq view
      /\ lastId \in Nat /\ records \in Nat /\ issued \in Nat /\ MaxRecords \in Nat
  BY BoundsAssumption DEF Numbering, Connection, TypeOK
<1>1. CASE UNCHANGED vars
  BY <1>0, <1>1 DEF vars, connVars, uiVars, taskVars, threadVars
<1>2. CASE WorkerStep
  <2>1. CASE PostReplies
    BY <1>0, <2>1 DEF PostReplies, Goto, connVars, uiVars
  <2>2. CASE PostFails \/ BeginFails \/ BatchesDone \/ ThreadExits
    BY <1>0, <2>2 DEF PostFails, BeginFails, BatchesDone, ThreadExits, Goto, Finish,
                      connVars, uiVars, taskVars
  <2>3. CASE InsertForecast
    <3>1. ForecastRow(lastId + 1).table = "forecasts"
      BY DEF ForecastRow
    <3>2. ui # "joining"
      BY <2>3 DEF InsertForecast, Places, JoinIsShort, Working
    <3>3. /\ lastId' = lastId + 1 /\ issued' = issued /\ exposed' = exposed
          /\ view' = view \cup {ForecastRow(lastId + 1)} /\ records' = records
          /\ worker' = "begin" /\ ui' = ui /\ lastId < MaxForecasts
      BY <1>0, <2>3 DEF InsertForecast, Exec, Goto, uiVars
    <3>4. Known(view, lastId, issued)'
      BY <1>0, <3>1, <3>3
    <3>5. Room' /\ Within'
      BY <1>0, <3>2, <3>3, BoundsAssumption
    <3> QED BY <1>0, <3>3, <3>4, <3>5
  <2>4. CASE InsertForecastFails \/ BeginTransaction \/ ExecBatchFails \/ CommitFails
               \/ TransactionDestroyed
    <3>1. view' \subseteq view
      BY <1>0, <2>4 DEF InsertForecastFails, BeginTransaction, ExecBatchFails, CommitFails,
               TransactionDestroyed, ExecFails, Begin, Rollback, connVars
    <3>2. UNCHANGED <<uiVars, taskVars>> /\ worker' \notin {"post", "insertForecast"}
      BY <2>4 DEF InsertForecastFails, BeginTransaction, ExecBatchFails, CommitFails,
               TransactionDestroyed, Goto, Finish
    <3> QED BY <1>0, <3>1, <3>2 DEF uiVars, taskVars
  <2>5. CASE ExecBatch
    <3> DEFINE new == {RecordRow(forecastId, i) : i \in (written + 1) .. BatchEnd(written)}
    <3>1. forecastId \in 1 .. lastId
      BY <2>5 DEF ExecBatch, Task
    <3>2. \A r \in new : r.table = "forecast_records" /\ r.key = forecastId
      BY DEF RecordRow
    <3> HIDE DEF new
    <3>3. view' = view \cup new /\ UNCHANGED <<uiVars, threadVars, records, lastId>>
      BY <2>5 DEF ExecBatch, Exec, new
    <3>4. Known(view, lastId, issued)'
      BY <1>0, <3>1, <3>2, <3>3 DEF uiVars
    <3> QED BY <1>0, <3>3, <3>4 DEF uiVars, threadVars
  <2>6. CASE CommitTransaction
    BY <1>0, <2>6 DEF CommitTransaction, Commit, Finish, uiVars
  <2> QED BY <1>2, <2>1, <2>2, <2>3, <2>4, <2>5, <2>6 DEF WorkerStep, PostReturns, TaskContinues
<1>a. /\ \A r \in view : r.key \in Nat
      /\ \A e \in exposed : e.row.key \in Nat
  BY DEF TypeOK, ConnTypeOK, Row
<1>3. ASSUME NEW table \in {"depths", "safe_points"}, UiInsert(table), UNCHANGED taskVars
      PROVE  Known(view, lastId, issued)' /\ KnownExposed(exposed, issued)' /\ Within'
  <2>1. UiRow(table).table = table /\ UiRow(table).key = issued + 1
    BY DEF UiRow
  <2>2. /\ view' = view \cup {UiRow(table)} /\ issued' = issued + 1
        /\ exposed' \subseteq exposed \cup {[row |-> UiRow(table), forecast |-> forecastId]}
    BY <1>3 DEF UiInsert, Exec
  <2>3. UNCHANGED <<records, lastId>>
    BY <1>3 DEF taskVars
  <2>4. Known(view, lastId, issued)'
    BY <1>0, <1>a, <2>1, <2>2, <2>3
  <2>5. KnownExposed(exposed, issued)'
    BY <1>0, <1>a, <2>1, <2>2
  <2> QED BY <1>0, <2>3, <2>4, <2>5
<1>4. ASSUME UiInsertFails, UNCHANGED taskVars
      PROVE  Known(view, lastId, issued)' /\ KnownExposed(exposed, issued)' /\ Within'
  <2>1. view' \subseteq view
    BY <1>0, <1>4 DEF UiInsertFails, ExecFails, Rollback, connVars
  <2>2. issued' = issued + 1 /\ exposed' = exposed /\ UNCHANGED <<records, lastId>>
    BY <1>4 DEF UiInsertFails, taskVars
  <2> QED BY <1>0, <1>a, <2>1, <2>2
<1>5. CASE UiContinues
  <2>1. CASE LoadAfterJoin \/ DepthLoaded \/ CloseReturns
    BY <1>0, <2>1 DEF LoadAfterJoin, DepthLoaded, CloseReturns, StartTask, connVars,
                      taskVars, threadVars
  <2>2. CASE ExecDepthBatch \/ ExecDepthBatchFails
    BY <1>0, <2>2, <1>3, <1>4 DEF ExecDepthBatch, ExecDepthBatchFails, taskVars, threadVars
  <2> QED BY <1>5, <2>1, <2>2 DEF UiContinues
<1>6. CASE UiClicks
  <2>1. CASE LoadFirst \/ LoadJoins \/ LoadDepth \/ Close
    BY <1>0, <2>1 DEF LoadFirst, LoadJoins, LoadDepth, Close, StartTask, MayStart,
                      connVars, taskVars, threadVars, uiVars
  <2>2. CASE LoadRefused
    BY <2>2, <1>1 DEF LoadRefused
  <2>3. CASE AddSafePoint
    BY <1>0, <2>3, <1>3, <1>4 DEF AddSafePoint, taskVars, threadVars
  <2> QED BY <1>6, <2>1, <2>2, <2>3 DEF UiClicks
<1>7. CASE Fresh
  BY <1>0, <1>7 DEF Fresh, Reopen
<1> QED BY <1>1, <1>2, <1>5, <1>6, <1>7 DEF Next, Restart, Crash

-----------------------------------------------------------------------------
\* A row of the UI thread is no record of a forecast.
LEMMA UiInsertStores ==
  ASSUME NEW table \in {"depths", "safe_points"}, UiInsert(table), NEW f
  PROVE  /\ Stored(view', f) = Stored(view, f)
         /\ Stored(disk', f) = Stored(disk, f)
<1> DEFINE new == {UiRow(table)}
<1>1. \A r \in new : r.table # "forecast_records"
  BY DEF UiRow
<1>2. view' = view \cup new /\ disk' \in {disk, disk \cup new}
  BY DEF UiInsert, Exec
<1> HIDE DEF new
<1>3. Stored(view \cup new, f) = Stored(view, f)
  BY <1>1 DEF Stored
<1>4. Stored(disk \cup new, f) = Stored(disk, f)
  BY <1>1 DEF Stored
<1> QED BY <1>2, <1>3, <1>4

\* Nothing is stored yet under an id that was not handed out.
LEMMA StoredNew ==
  ASSUME TypeOK, Numbering
  PROVE  Stored(view, lastId + 1) = {}
<1>1. \A r \in view : r.table = "forecast_records" => r.key # lastId + 1
  BY DEF Numbering, TypeOK
<1> QED BY <1>1 DEF Stored

LEMMA TaskStep ==
  ASSUME TypeOK, Places, Connection, Numbering, Task, [Next]_vars
  PROVE  Task'
<1> USE DEF TypeOK
<1>1. CASE UNCHANGED vars
  BY <1>1 DEF vars, connVars, uiVars, taskVars, threadVars, Task, Stored
<1>2. CASE WorkerStep
  <2>1. CASE PostReplies \/ PostFails \/ InsertForecastFails \/ BeginFails
               \/ CommitTransaction \/ TransactionDestroyed \/ ThreadExits
    BY <2>1 DEF PostReplies, PostFails, InsertForecastFails, BeginFails,
                CommitTransaction, TransactionDestroyed, ThreadExits, Goto, Finish, Task
  <2>2. CASE InsertForecast
    <3>1. /\ worker' = "begin" /\ written' = 0
          /\ forecastId' = lastId + 1 /\ lastId' = lastId + 1
          /\ handed'[lastId + 1] = records /\ records' = records
          /\ view' = view \cup {ForecastRow(lastId + 1)}
          /\ UNCHANGED <<completed, disturbed, exposed>>
      BY <2>2 DEF InsertForecast, Exec, Goto, uiVars
    <3>2. \A r \in {ForecastRow(lastId + 1)} : r.table # "forecast_records"
      BY DEF ForecastRow
    <3>a. Stored(view \cup {ForecastRow(lastId + 1)}, lastId + 1) = Stored(view, lastId + 1)
      BY <3>2 DEF Stored
    <3>3. Stored(view', lastId + 1) = {}
      BY <3>1, <3>a, StoredNew
    <3>4. lastId + 1 \notin completed /\ lastId + 1 \notin disturbed
      OBVIOUS
    <3>5. \A e \in exposed : e.forecast # lastId + 1
      OBVIOUS
    <3>6. /\ Stored(view', forecastId') = {}
          /\ forecastId' \notin completed' /\ forecastId' \notin disturbed'
          /\ \A e \in exposed' : e.forecast # forecastId'
      BY <3>1, <3>3, <3>4, <3>5
    <3>7. forecastId' \in 1 .. lastId' /\ handed'[forecastId'] = records'
      BY <3>1
    <3> QED BY <3>1, <3>6, <3>7 DEF Task
  <2>3. CASE BeginTransaction
    <3>1. worker = "begin" /\ worker' = "batch" /\ inTxn' = TRUE
          /\ view = disk /\ UNCHANGED <<disk, view, uiVars, taskVars, disturbed>>
      BY <2>3 DEF BeginTransaction, Begin, Goto, Connection
    <3>2. Stored(view', forecastId) = {} /\ Stored(disk', forecastId) = {}
      BY <3>1 DEF Task
    <3> QED BY <3>1, <3>2 DEF Task, taskVars
  <2>4. CASE ExecBatch
    <3> DEFINE I == (written + 1) .. BatchEnd(written)
               new == {RecordRow(forecastId, i) : i \in I}
    <3>1. /\ worker = "batch" /\ written < records /\ Exec(new)
          /\ written' = BatchEnd(written)
          /\ UNCHANGED <<worker, records, forecastId, lastId, handed, completed, disturbed>>
      BY <2>4 DEF ExecBatch, threadVars
    <3>2. /\ BatchEnd(written) \in Nat /\ BatchEnd(written) <= records
          /\ written <= BatchEnd(written)
      BY <3>1, BatchSizeAssumption DEF BatchEnd
    <3> HIDE DEF I
    <3>3. Stored(view \cup new, forecastId) = Stored(view, forecastId) \cup I
      BY StoredBatch, SMTT(60)
    <3> HIDE DEF new
    <3>4. inTxn' = inTxn /\ view' = view \cup new /\ (inTxn => disk' = disk)
      BY <3>1 DEF Exec
    <3>5. ASSUME inTxn  PROVE Stored(view', forecastId) = 1 .. written'
      <4>1. Stored(view, forecastId) = 1 .. written
        BY <3>1, <3>5 DEF Task
      <4>2. (1 .. written) \cup I = 1 .. BatchEnd(written)
        BY <3>2 DEF I
      <4> QED BY <3>1, <3>3, <3>4, <4>1, <4>2
    <3> QED BY <3>1, <3>2, <3>4, <3>5 DEF Task
  <2>5. CASE ExecBatchFails \/ CommitFails
    <3>1. /\ worker \in {"batch", "commit"} /\ worker' = "rollback"
          /\ disk' = disk /\ (inTxn' => inTxn /\ view' = view)
          /\ UNCHANGED <<taskVars, disturbed>>
      BY <2>5 DEF ExecBatchFails, CommitFails, ExecFails, Rollback, Goto, connVars
    <3> QED BY <3>1 DEF Task, taskVars
  <2>6. CASE BatchesDone
    <3>1. worker = "batch" /\ worker' = "commit" /\ written >= records
          /\ UNCHANGED <<disk, view, inTxn, taskVars, disturbed>>
      BY <2>6 DEF BatchesDone, Goto, connVars
    <3> QED BY <3>1 DEF Task, taskVars
  <2> QED BY <1>2, <2>1, <2>2, <2>3, <2>4, <2>5, <2>6 DEF WorkerStep, PostReturns, TaskContinues
<1>3. ASSUME NEW table \in {"depths", "safe_points"}, UiInsert(table),
             UNCHANGED <<taskVars, threadVars>>
      PROVE  Task'
  <2>1. inTxn' = inTxn /\ disturbed' = disturbed /\ (~inTxn => exposed' = exposed)
    BY <1>3 DEF UiInsert, Exec
  <2>2. worker = "begin" => ~inTxn
    BY DEF Places, TransactionIsBracketed
  <2>3. /\ Stored(view', forecastId) = Stored(view, forecastId)
        /\ Stored(disk', forecastId) = Stored(disk, forecastId)
    BY <1>3, UiInsertStores
  <2> QED BY <1>3, <2>1, <2>2, <2>3 DEF Task, taskVars, threadVars
<1>4. ASSUME UiInsertFails, UNCHANGED <<taskVars, threadVars>>
      PROVE  Task'
  <2>1. CASE UNCHANGED connVars
    BY <1>4, <2>1 DEF UiInsertFails, Task, taskVars, threadVars, connVars
  <2>2. CASE Rollback
    <3>1. inTxn /\ ~inTxn' /\ disk' = disk /\ disturbed' = disturbed \cup {forecastId}
      BY <1>4, <2>2 DEF UiInsertFails, Rollback
    <3>2. worker # "begin"
      BY <3>1 DEF Places, TransactionIsBracketed
    <3> QED BY <1>4, <3>1, <3>2 DEF Task, taskVars, threadVars
  <2> QED BY <1>4, <2>1, <2>2 DEF UiInsertFails, ExecFails
<1>5. CASE UiContinues
  <2>1. CASE LoadAfterJoin
    BY <2>1 DEF LoadAfterJoin, StartTask, Task
  <2>2. CASE DepthLoaded \/ CloseReturns
    BY <2>2 DEF DepthLoaded, CloseReturns, connVars, taskVars, threadVars, Task
  <2>3. CASE ExecDepthBatch \/ ExecDepthBatchFails
    BY <2>3, <1>3, <1>4 DEF ExecDepthBatch, ExecDepthBatchFails
  <2> QED BY <1>5, <2>1, <2>2, <2>3 DEF UiContinues
<1>6. CASE UiClicks
  <2>1. CASE LoadFirst
    BY <2>1 DEF LoadFirst, StartTask, Task
  <2>2. CASE LoadJoins \/ LoadDepth \/ Close
    BY <2>2 DEF LoadJoins, LoadDepth, Close, connVars, taskVars, threadVars, Task
  <2>3. CASE LoadRefused
    BY <2>3, <1>1 DEF LoadRefused
  <2>4. CASE AddSafePoint
    BY <2>4, <1>3, <1>4 DEF AddSafePoint
  <2> QED BY <1>6, <2>1, <2>2, <2>3, <2>4 DEF UiClicks
<1>7. CASE Fresh
  BY <1>7 DEF Fresh, Task
<1> QED BY <1>1, <1>2, <1>5, <1>6, <1>7 DEF Next, Restart, Crash

-----------------------------------------------------------------------------
LEMMA PendingStep ==
  ASSUME TypeOK, Places, Connection, Pending, [Next]_vars
  PROVE  Pending'
<1>1. CASE view' = disk'
  BY <1>1 DEF Pending
<1>2. CASE UNCHANGED <<disk, view, forecastId>>
  BY <1>2 DEF Pending
<1>3. CASE WorkerStep
  <2>1. CASE PostReplies \/ PostFails \/ BeginFails \/ BatchesDone \/ ThreadExits
    BY <1>2, <2>1 DEF PostReplies, PostFails, BeginFails, BatchesDone, ThreadExits, connVars, taskVars
  <2>2. CASE InsertForecast
    BY <1>1, <2>2 DEF InsertForecast, Exec, Connection, Places, TransactionIsBracketed
  <2>3. CASE InsertForecastFails \/ ExecBatchFails \/ CommitFails \/ TransactionDestroyed
    BY <1>1, <1>2, <2>3 DEF InsertForecastFails, ExecBatchFails, CommitFails,
             TransactionDestroyed, ExecFails, Rollback, connVars, taskVars
  <2>4. CASE BeginTransaction
    BY <1>2, <2>4 DEF BeginTransaction, Begin, taskVars
  <2>5. CASE ExecBatch
    <3> DEFINE new == {RecordRow(forecastId, i) : i \in (written + 1) .. BatchEnd(written)}
    <3>1. \A r \in new : r.key = forecastId
      BY DEF RecordRow
    <3> HIDE DEF new
    <3>2. view' = view \cup new /\ disk \subseteq disk' /\ forecastId' = forecastId
      BY <2>5 DEF ExecBatch, Exec, new
    <3> QED BY <3>1, <3>2 DEF Pending
  <2>6. CASE CommitTransaction
    BY <1>1, <2>6 DEF CommitTransaction, Commit
  <2> QED BY <1>3, <2>1, <2>2, <2>3, <2>4, <2>5, <2>6 DEF WorkerStep, PostReturns, TaskContinues
<1>4. ASSUME NEW table \in {"depths", "safe_points"}, UiInsert(table), forecastId' = forecastId
      PROVE  Pending'
  <2>1. UiRow(table).table # "forecast_records"
    BY DEF UiRow
  <2>2. view' = view \cup {UiRow(table)} /\ disk \subseteq disk'
    BY <1>4 DEF UiInsert, Exec
  <2> QED BY <1>4, <2>1, <2>2 DEF Pending
<1>5. ASSUME UiInsertFails, forecastId' = forecastId
      PROVE  Pending'
  BY <1>1, <1>2, <1>5 DEF UiInsertFails, ExecFails, Rollback, connVars
<1>6. CASE UiContinues
  BY <1>2, <1>4, <1>5, <1>6 DEF UiContinues, LoadAfterJoin, DepthLoaded, CloseReturns,
           ExecDepthBatch, ExecDepthBatchFails, connVars, taskVars
<1>7. CASE UiClicks
  BY <1>2, <1>4, <1>5, <1>7 DEF UiClicks, LoadFirst, LoadRefused, LoadJoins, LoadDepth, Close,
           AddSafePoint, connVars, taskVars, vars
<1>8. CASE Restart \/ Crash
  BY <1>1, <1>8 DEF Restart, Crash, Fresh, Reopen
<1>9. CASE UNCHANGED vars
  BY <1>2, <1>9 DEF vars, connVars, taskVars
<1> QED BY <1>3, <1>6, <1>7, <1>8, <1>9 DEF Next

-----------------------------------------------------------------------------
LEMMA ExposedStep ==
  ASSUME TypeOK, Places, Connection, Numbering, Task, Exposed, [Next]_vars
  PROVE  Exposed'
<1>a. \A e \in exposed : /\ e.row.table \in {"depths", "safe_points"}
                         /\ e.row.key \in Nat /\ e.row.key <= issued
  BY DEF TypeOK, Numbering, Row
<1>b. inTxn => forecastId \notin completed
  BY DEF Places, TransactionIsBracketed, Task
<1>1. CASE UNCHANGED <<connVars, forecastId, exposed, completed>>
  BY <1>1 DEF connVars, Exposed
\* What rolls the open transaction back.
<1>2. ASSUME disk' = disk, view' = disk, ~inTxn', UNCHANGED <<exposed, completed>>
      PROVE  Exposed'
  BY <1>2, <1>b DEF Exposed, Connection
\* What inserts rows of other tables.
<1>3. ASSUME NEW rows, Exec(rows), \A e \in exposed : e.row \notin rows,
             forecastId' = forecastId \/ ~inTxn, UNCHANGED <<exposed, completed>>
      PROVE  Exposed'
  BY <1>3 DEF Exec, Exposed
<1>4. CASE WorkerStep
  <2>1. CASE PostReplies \/ PostFails \/ BeginFails \/ BatchesDone \/ ThreadExits
    BY <1>1, <2>1 DEF PostReplies, PostFails, BeginFails, BatchesDone, ThreadExits,
             taskVars, uiVars
  <2>2. CASE InsertForecast
    <3>1. ForecastRow(lastId + 1).table = "forecasts"
      BY DEF ForecastRow
    <3>2. ~inTxn
      BY <2>2 DEF InsertForecast, Places, TransactionIsBracketed
    <3> QED BY <1>3, <1>a, <2>2, <3>1, <3>2 DEF InsertForecast, uiVars
  <2>3. CASE InsertForecastFails \/ ExecBatchFails \/ CommitFails \/ TransactionDestroyed
    BY <1>1, <1>2, <2>3 DEF InsertForecastFails, ExecBatchFails, CommitFails,
             TransactionDestroyed, ExecFails, Rollback, taskVars, uiVars
  <2>4. CASE BeginTransaction
    BY <2>4 DEF BeginTransaction, Begin, Task, Exposed, taskVars, uiVars
  <2>5. CASE ExecBatch
    <3> DEFINE new == {RecordRow(forecastId, i) : i \in (written + 1) .. BatchEnd(written)}
    <3>1. \A r \in new : r.table = "forecast_records"
      BY DEF RecordRow
    <3> HIDE DEF new
    <3>2. \A e \in exposed : e.row \notin new
      BY <1>a, <3>1
    <3>3. Exec(new) /\ UNCHANGED <<forecastId, exposed, completed>>
      BY <2>5 DEF ExecBatch, new, uiVars
    <3> QED BY <1>3, <3>2, <3>3
  <2>6. CASE CommitTransaction
    BY <2>6 DEF CommitTransaction, Commit, Exposed, uiVars
  <2> QED BY <1>4, <2>1, <2>2, <2>3, <2>4, <2>5, <2>6 DEF WorkerStep, PostReturns, TaskContinues
<1>5. ASSUME NEW table \in {"depths", "safe_points"}, UiInsert(table),
             UNCHANGED <<forecastId, completed>>
      PROVE  Exposed'
  <2> DEFINE r == UiRow(table)
             new == [row |-> r, forecast |-> forecastId]
  <2>1. r.table = table /\ r.key = issued + 1
    BY DEF UiRow
  <2>2. \A e \in exposed : e.row # r
    BY <1>a, <2>1 DEF TypeOK
  <2>3. r \notin view /\ r \notin disk
    <3>1. r.table # "forecast_records" /\ ~(r.key <= issued)
      BY <2>1 DEF TypeOK
    <3> QED BY <2>1, <3>1 DEF Numbering, Connection
  <2> HIDE DEF r
  <2>4. CASE ~inTxn
    BY <1>3, <1>5, <2>2, <2>4 DEF UiInsert, r
  <2>5. CASE inTxn
    <3>1. /\ view' = view \cup {r} /\ disk' = disk /\ inTxn'
          /\ exposed' = exposed \cup {new}
      BY <1>5, <2>5 DEF UiInsert, Exec, r
    <3>2. new.row = r /\ new.forecast = forecastId
      OBVIOUS
    <3> HIDE DEF new
    <3> QED BY <1>5, <2>2, <2>3, <2>5, <3>1, <3>2 DEF Exposed
  <2> QED BY <2>4, <2>5
<1>6. ASSUME UiInsertFails, UNCHANGED <<forecastId, completed>>
      PROVE  Exposed'
  BY <1>1, <1>2, <1>6 DEF UiInsertFails, ExecFails, Rollback
<1>7. CASE UiContinues
  BY <1>1, <1>5, <1>6, <1>7 DEF UiContinues, LoadAfterJoin, DepthLoaded, CloseReturns,
           ExecDepthBatch, ExecDepthBatchFails, taskVars
<1>8. CASE UiClicks
  BY <1>1, <1>5, <1>6, <1>8 DEF UiClicks, LoadFirst, LoadRefused, LoadJoins, LoadDepth, Close,
           AddSafePoint, taskVars, uiVars, vars
<1>9. CASE Restart \/ Crash
  BY <1>2, <1>9 DEF Restart, Crash, Fresh, Reopen
<1>10. CASE UNCHANGED vars
  BY <1>1, <1>10 DEF vars, taskVars, uiVars
<1> QED BY <1>4, <1>7, <1>8, <1>9, <1>10 DEF Next

-----------------------------------------------------------------------------
(* What the file holds of each forecast.                                   *)

\* A step that stores nothing of any forecast keeps both promises.
LEMMA NothingStored ==
  ASSUME AllOrNothing, CompletedIsStored, FailedIsAbsent,
         \A f : Stored(disk', f) = Stored(disk, f),
         UNCHANGED <<lastId, handed, completed>>, disturbed \subseteq disturbed'
  PROVE  AllOrNothing' /\ CompletedIsStored' /\ FailedIsAbsent'
BY DEF AllOrNothing, CompletedIsStored, FailedIsAbsent

\* A batch stores nothing of another forecast.
LEMMA BatchIsOwn ==
  ASSUME ExecBatch, NEW f, f # forecastId
  PROVE  Stored(disk', f) = Stored(disk, f)
<1> DEFINE I == (written + 1) .. BatchEnd(written)
           new == {RecordRow(forecastId, i) : i \in I}
<1>1. disk' = disk \/ disk' = disk \cup new
  BY DEF ExecBatch, Exec
<1>2. \A r \in new : r.key # f
  BY DEF RecordRow
<1> HIDE DEF new
<1>3. Stored(disk \cup new, f) = Stored(disk, f)
  BY <1>2 DEF Stored
<1> QED BY <1>1, <1>3

LEMMA StoredStep ==
  ASSUME TypeOK, Places, Connection, Numbering, Task, Pending,
         AllOrNothing, CompletedIsStored, FailedIsAbsent, [Next]_vars
  PROVE  AllOrNothing' /\ CompletedIsStored' /\ FailedIsAbsent'
<1>1. ASSUME disk' = disk, UNCHANGED <<lastId, handed, completed>>,
             disturbed \subseteq disturbed'
      PROVE  AllOrNothing' /\ CompletedIsStored' /\ FailedIsAbsent'
  BY <1>1, NothingStored
<1>2. CASE WorkerStep
  <2>1. CASE PostReplies \/ PostFails \/ BeginTransaction \/ BeginFails \/ BatchesDone
               \/ ThreadExits \/ InsertForecastFails \/ ExecBatchFails \/ CommitFails
               \/ TransactionDestroyed
    BY <1>1, <2>1 DEF PostReplies, PostFails, BeginTransaction, BeginFails, BatchesDone,
             ThreadExits, InsertForecastFails, ExecBatchFails, CommitFails,
             TransactionDestroyed, Begin, ExecFails, Rollback, connVars, taskVars
  <2>2. CASE InsertForecast
    <3> DEFINE new == ForecastRow(lastId + 1)
    <3>1. \A r \in {new} : r.table # "forecast_records"
      BY DEF ForecastRow
    <3>2. \A f : Stored(disk \cup {new}, f) = Stored(disk, f)
      BY <3>1 DEF Stored
    <3>3. ~inTxn
      BY <2>2 DEF InsertForecast, Places, TransactionIsBracketed
    <3> HIDE DEF new
    <3>4. /\ disk' = disk \cup {new} /\ lastId' = lastId + 1
          /\ completed' = completed /\ disturbed' = disturbed
          /\ \A f \in 1 .. lastId : handed'[f] = handed[f]
      BY <2>2, <3>3 DEF InsertForecast, Exec, new, TypeOK
    <3>5. Stored(disk', lastId + 1) = {}
      BY <3>2, <3>3, <3>4, StoredNew DEF Connection
    <3>6. AllOrNothing'
      <4> SUFFICES ASSUME NEW f \in 1 .. lastId', f \notin disturbed'
                   PROVE  Stored(disk', f) \in {{}, 1 .. handed'[f]}
        BY DEF AllOrNothing
      <4>1. CASE f = lastId + 1
        BY <3>5, <4>1
      <4>2. CASE f # lastId + 1
        <5>1. f \in 1 .. lastId /\ f \notin disturbed
          BY <3>4, <4>2 DEF TypeOK
        <5>2. Stored(disk, f) \in {{}, 1 .. handed[f]}
          BY <5>1 DEF AllOrNothing
        <5>3. Stored(disk', f) = Stored(disk, f) /\ handed'[f] = handed[f]
          BY <3>2, <3>4, <5>1
        <5> QED BY <5>2, <5>3
      <4> QED BY <4>1, <4>2
    <3>7. CompletedIsStored'
      BY <3>2, <3>4 DEF CompletedIsStored, TypeOK
    <3>8. FailedIsAbsent'
      <4> SUFFICES ASSUME NEW f \in 1 .. lastId', f \notin completed' \cup disturbed'
                   PROVE  Stored(disk', f) = {}
        BY DEF FailedIsAbsent
      <4>1. CASE f = lastId + 1
        BY <3>5, <4>1
      <4>2. CASE f # lastId + 1
        <5>1. f \in 1 .. lastId /\ f \notin completed \cup disturbed
          BY <3>4, <4>2 DEF TypeOK
        <5> QED BY <3>2, <3>4, <5>1 DEF FailedIsAbsent
      <4> QED BY <4>1, <4>2
    <3> QED BY <3>6, <3>7, <3>8
  <2>3. CASE ExecBatch
    <3>1. /\ worker = "batch" /\ (inTxn => disk' = disk)
          /\ UNCHANGED <<lastId, handed, completed, disturbed>>
      BY <2>3 DEF ExecBatch, Exec
    <3>2. CASE inTxn
      BY <1>1, <3>1, <3>2
    <3>3. CASE ~inTxn
      <4>1. forecastId \in disturbed /\ forecastId \notin completed
        BY <3>1, <3>3 DEF Task
      <4>2. \A f : f # forecastId => Stored(disk', f) = Stored(disk, f)
        BY <2>3, BatchIsOwn
      <4> QED BY <3>1, <4>1, <4>2 DEF AllOrNothing, CompletedIsStored, FailedIsAbsent
    <3> QED BY <3>2, <3>3
  <2>4. CASE CommitTransaction
    <3>1. /\ worker = "commit" /\ inTxn /\ disk' = view
          /\ completed' = completed \cup {forecastId}
          /\ UNCHANGED <<lastId, handed, disturbed>>
      BY <2>4 DEF CommitTransaction, Commit
    <3>2. Stored(disk', forecastId) = 1 .. handed[forecastId]
      BY <3>1 DEF Task
    <3>3. ASSUME NEW f, f # forecastId
          PROVE  Stored(disk', f) = Stored(disk, f)
      <4>1. \A r : r.table = "forecast_records" /\ r.key = f => (r \in view <=> r \in disk)
        BY <3>3 DEF Pending, Connection
      <4> QED BY <3>1, <4>1 DEF Stored
    <3> QED BY <3>1, <3>2, <3>3 DEF AllOrNothing, CompletedIsStored, FailedIsAbsent
  <2> QED BY <1>2, <2>1, <2>2, <2>3, <2>4 DEF WorkerStep, PostReturns, TaskContinues
<1>3. ASSUME NEW table \in {"depths", "safe_points"}, UiInsert(table), UNCHANGED taskVars
      PROVE  AllOrNothing' /\ CompletedIsStored' /\ FailedIsAbsent'
  BY <1>3, UiInsertStores, NothingStored DEF UiInsert, taskVars
<1>4. ASSUME UiInsertFails, UNCHANGED taskVars
      PROVE  AllOrNothing' /\ CompletedIsStored' /\ FailedIsAbsent'
  BY <1>1, <1>4 DEF UiInsertFails, ExecFails, Rollback, connVars, taskVars
<1>5. CASE UiContinues
  BY <1>1, <1>3, <1>4, <1>5 DEF UiContinues, LoadAfterJoin, DepthLoaded, CloseReturns,
           ExecDepthBatch, ExecDepthBatchFails, connVars, taskVars
<1>6. CASE UiClicks
  BY <1>1, <1>3, <1>4, <1>6 DEF UiClicks, LoadFirst, LoadRefused, LoadJoins, LoadDepth, Close,
           AddSafePoint, connVars, taskVars, vars
<1>7. CASE Restart \/ Crash
  BY <1>1, <1>7 DEF Restart, Crash, Fresh, Reopen
<1>8. CASE UNCHANGED vars
  BY <1>1, <1>8 DEF vars, connVars, taskVars
<1> QED BY <1>2, <1>5, <1>6, <1>7, <1>8 DEF Next

LEMMA AckedStep ==
  ASSUME TypeOK, Connection, AckedIsDurable, [Next]_vars
  PROVE  AckedIsDurable'
<1>1. disk \subseteq disk'
  BY ConnectionStep DEF TypeOK
<1>2. acked' \subseteq acked \cup disk'
  <2>1. ASSUME NEW table, UiInsert(table)  PROVE acked' \subseteq acked \cup disk'
    BY <2>1 DEF UiInsert, Exec
  <2>2. ASSUME UiInsertFails  PROVE acked' = acked
    BY <2>2 DEF UiInsertFails
  <2>3. CASE WorkerStep
    BY <2>3 DEF WorkerStep, PostReturns, TaskContinues, PostReplies, PostFails, InsertForecast, InsertForecastFails,
              BeginTransaction, BeginFails, ExecBatch, ExecBatchFails, BatchesDone,
              CommitTransaction, CommitFails, TransactionDestroyed, ThreadExits, uiVars
  <2>4. CASE UiContinues \/ UiClicks
    BY <2>1, <2>2, <2>4 DEF UiContinues, UiClicks, LoadAfterJoin, ExecDepthBatch,
              ExecDepthBatchFails, DepthLoaded, CloseReturns, LoadFirst, LoadRefused,
              LoadJoins, LoadDepth, AddSafePoint, Close, uiVars, vars
  <2>5. CASE Restart \/ Crash \/ UNCHANGED vars
    BY <2>5 DEF Restart, Crash, Fresh, vars, uiVars
  <2> QED BY <2>3, <2>4, <2>5 DEF Next
<1> QED BY <1>1, <1>2 DEF AckedIsDurable

-----------------------------------------------------------------------------
LEMMA InitIInv == Init => IInv
<1> SUFFICES ASSUME Init PROVE IInv
  OBVIOUS
<1> USE DEF Init, ConnInit
<1>1. TypeOK
  <2>1. handed \in [1 .. lastId -> Nat]
    OBVIOUS
  <2>2. ConnTypeOK /\ acked \subseteq Row /\ exposed \subseteq [row : Row, forecast : 0 .. lastId]
    BY DEF ConnTypeOK
  <2>3. ui \in UiPlace /\ worker \in WorkerPlace
    BY DEF UiPlace, WorkerPlace
  <2>4. /\ depthLeft \in Nat /\ issued \in Nat /\ records \in Nat /\ written \in Nat
        /\ lastId \in Nat /\ forecastId \in 0 .. lastId
    OBVIOUS
  <2>5. joinable \in BOOLEAN /\ ready \in BOOLEAN
    OBVIOUS
  <2>6. completed \subseteq 1 .. lastId /\ disturbed \subseteq 0 .. lastId
    OBVIOUS
  <2> HIDE DEF Init, ConnInit
  <2> QED BY <2>1, <2>2, <2>3, <2>4, <2>5, <2>6 DEF TypeOK
<1>2. Places /\ Connection /\ Exposed /\ Pending
  BY DEF Places, JoinIsShort, TransactionIsBracketed, Connection, Exposed, Pending
<1>3. Numbering /\ Task
  BY BoundsAssumption DEF Numbering, Task
<1>4. AllOrNothing /\ CompletedIsStored /\ FailedIsAbsent /\ AckedIsDurable
  BY DEF AllOrNothing, CompletedIsStored, FailedIsAbsent, AckedIsDurable
<1> QED BY <1>1, <1>2, <1>3, <1>4 DEF IInv

LEMMA StepIInv == IInv /\ [Next]_vars => IInv'
BY TypeStep, PlacesStep, ConnectionStep, NumberingStep, TaskStep, ExposedStep, PendingStep,
   StoredStep, AckedStep
   DEF IInv, TypeOK

\* The inductive invariant holds in every reachable state.
THEOREM Invariance == Spec => []IInv
BY InitIInv, StepIInv, PTL DEF Spec

\* The variables have their types: in particular the task's forecast id is one
\* that SQLite handed out.
THEOREM TypeCorrect == Spec => []TypeOK
<1>1. IInv => TypeOK
  BY DEF IInv
<1> QED BY <1>1, Invariance, PTL

\* However the loading thread, the UI thread, failing statements and crashes
\* interleave, a forecast that no UI statement disturbed is in the file with all
\* its records or with none.
THEOREM ForecastsAreAtomic == Spec => []AllOrNothing
<1>1. IInv => AllOrNothing
  BY DEF IInv
<1> QED BY <1>1, Invariance, PTL

\* A load that returned without an exception is in the file completely, for good.
THEOREM CompletedLoadsAreDurable == Spec => []CompletedIsStored
<1>1. IInv => CompletedIsStored
  BY DEF IInv
<1> QED BY <1>1, Invariance, PTL

\* Rows the UI thread reported as written: those written outside a load's transaction
\* stay, those written inside it are in the file exactly if the load completed.
THEOREM ReportsHold == Spec => []ReportedRowsAreKept
<1>1. IInv => ReportedRowsAreKept
  <2>1. IInv => \A e \in exposed : inTxn /\ e.forecast = forecastId => e.forecast \notin completed
    BY DEF IInv, Places, TransactionIsBracketed, Task
  <2> QED BY <2>1 DEF IInv, Exposed, ExposedSharesFate, ReportedRowsAreKept
<1> QED BY <1>1, Invariance, PTL

\* The threads: no transaction outlives its task, no click waits for a running
\* task, and closing the plugin leaves nothing uncommitted.
THEOREM ThreadsStayOrderly == Spec => []ThreadsAreOrderly
<1>1. IInv => ThreadsAreOrderly
  BY DEF IInv, Places, TransactionIsBracketed, Connection, CleanClose, ThreadsAreOrderly
<1> QED BY <1>1, Invariance, PTL

-----------------------------------------------------------------------------
(* The loader implements ForecastStore.                                    *)

\* What a reader sees of forecast f: nothing, once it was disturbed.
LEMMA PairsMember ==
  \A x : x \in StoredPairs <=> \E f, i : /\ x = <<f, i>> /\ f \notin disturbed
                                         /\ i \in Stored(disk, f)
BY DEF StoredPairs, Stored

LEMMA PairsMemberNext ==
  \A x : x \in StoredPairs' <=> \E f, i : /\ x = <<f, i>> /\ f \notin disturbed'
                                          /\ i \in Stored(disk', f)
BY DEF StoredPairs, Stored

LEMMA SamePairs ==
  ASSUME \A f : f \notin disturbed' => f \notin disturbed /\ Stored(disk', f) = Stored(disk, f),
         \A f \in disturbed' \ disturbed : Stored(disk, f) = {}
  PROVE  UNCHANGED StoredPairs
<1>1. \A x : x \in StoredPairs' <=> x \in StoredPairs
  BY PairsMember, PairsMemberNext
<1>2. (\A x : x \in StoredPairs' <=> x \in StoredPairs) => StoredPairs' = StoredPairs
  BY DEF StoredPairs
<1> QED BY <1>1, <1>2

\* COMMIT publishes the forecast of the task, if it has any record.
LEMMA CommitPublishes ==
  ASSUME IInv, CommitTransaction
  PROVE  [Store!Next]_StoredPairs
<1> DEFINE pairs == {forecastId} \X (1 .. records)
<1>1. /\ worker = "commit" /\ inTxn /\ disk' = view /\ disturbed' = disturbed
  BY DEF CommitTransaction, Commit
<1>2. /\ Stored(disk, forecastId) = {} /\ Stored(view, forecastId) = 1 .. records
      /\ forecastId \notin disturbed /\ forecastId \in 1 .. lastId
  BY <1>1 DEF IInv, Task
<1>3. \A f : f # forecastId => Stored(disk', f) = Stored(disk, f)
  <2>1. ASSUME NEW f, f # forecastId
        PROVE  Stored(view, f) = Stored(disk, f)
    <3>1. \A r : r.table = "forecast_records" /\ r.key = f => (r \in view <=> r \in disk)
      BY <2>1 DEF IInv, Pending, Connection
    <3> QED BY <3>1 DEF Stored
  <2> QED BY <1>1, <2>1
<1>4. \A x : x \in StoredPairs' <=> x \in StoredPairs \cup pairs
  <2>1. \A x : x \in pairs <=> \E i \in 1 .. records : x = <<forecastId, i>>
    OBVIOUS
  <2> HIDE DEF pairs
  <2>2. Stored(disk', forecastId) = 1 .. records
    BY <1>1, <1>2
  <2>3. ASSUME NEW f, NEW i
        PROVE  f \notin disturbed' /\ i \in Stored(disk', f)
                 <=> \/ f \notin disturbed /\ i \in Stored(disk, f)
                     \/ f = forecastId /\ i \in 1 .. records
    BY <1>1, <1>2, <1>3, <2>2
  <2>4. ASSUME NEW x \in StoredPairs'  PROVE x \in StoredPairs \cup pairs
    BY <2>1, <2>3, <2>4, PairsMember, PairsMemberNext
  <2>5. ASSUME NEW x \in StoredPairs  PROVE x \in StoredPairs'
    BY <2>3, <2>5, PairsMember, PairsMemberNext
  <2>6. ASSUME NEW x \in pairs  PROVE x \in StoredPairs'
    BY <2>1, <2>3, <2>6, PairsMemberNext
  <2> QED BY <2>4, <2>5, <2>6
<1>5. StoredPairs' = StoredPairs \cup pairs
  <2> HIDE DEF pairs
  <2>1. (\A x : x \in StoredPairs' <=> x \in StoredPairs \cup pairs)
          => StoredPairs' = StoredPairs \cup pairs
    BY DEF StoredPairs
  <2> QED BY <1>4, <2>1
<1>6. ~Store!Published(forecastId)
  <2>1. \A p \in StoredPairs : p[1] # forecastId
    BY <1>2, PairsMember
  <2> QED BY <2>1 DEF Store!Published
<1>7. records \in Nat /\ records <= MaxRecords /\ forecastId \in 1 .. MaxForecasts
  BY <1>2, BoundsAssumption DEF IInv, TypeOK, Numbering
<1>8. CASE records = 0
  <2>1. pairs = {}
    BY <1>8
  <2> QED BY <1>5, <2>1
<1>9. CASE records # 0
  <2>1. records \in 1 .. MaxRecords
    BY <1>7, <1>9, BoundsAssumption
  <2>2. Store!Publish(forecastId, records)
    BY <1>5, <1>6 DEF Store!Publish
  <2> QED BY <1>7, <2>1, <2>2 DEF Store!Next
<1> QED BY <1>8, <1>9

LEMMA StoreStep ==
  ASSUME IInv, [Next]_vars
  PROVE  [Store!Next]_StoredPairs
<1>0. TypeOK /\ Places /\ Connection /\ Numbering /\ Task
  BY DEF IInv
<1>1. ASSUME disk' = disk, disturbed' = disturbed
      PROVE  UNCHANGED StoredPairs
  BY <1>1 DEF StoredPairs
<1>2. CASE WorkerStep
  <2>1. CASE PostReplies \/ PostFails \/ BeginTransaction \/ BeginFails \/ BatchesDone
               \/ ThreadExits \/ InsertForecastFails \/ ExecBatchFails \/ CommitFails
               \/ TransactionDestroyed
    BY <1>1, <2>1 DEF PostReplies, PostFails, BeginTransaction, BeginFails, BatchesDone,
             ThreadExits, InsertForecastFails, ExecBatchFails, CommitFails,
             TransactionDestroyed, Begin, ExecFails, Rollback, connVars
  <2>2. CASE InsertForecast
    <3>1. \A r \in {ForecastRow(lastId + 1)} : r.table # "forecast_records"
      BY DEF ForecastRow
    <3>2. \A f : Stored(disk \cup {ForecastRow(lastId + 1)}, f) = Stored(disk, f)
      BY <3>1 DEF Stored
    <3>3. disk' \in {disk, disk \cup {ForecastRow(lastId + 1)}} /\ disturbed' = disturbed
      BY <2>2 DEF InsertForecast, Exec
    <3>4. \A f : Stored(disk', f) = Stored(disk, f)
      BY <3>2, <3>3
    <3> QED BY <3>3, <3>4, SamePairs
  <2>3. CASE ExecBatch
    <3>1. worker = "batch" /\ disturbed' = disturbed /\ (inTxn => disk' = disk)
      BY <2>3 DEF ExecBatch, Exec
    <3>2. CASE inTxn
      BY <1>1, <3>1, <3>2
    <3>3. CASE ~inTxn
      <4>1. forecastId \in disturbed
        BY <1>0, <3>1, <3>3 DEF Task
      <4>2. \A f : f # forecastId => Stored(disk', f) = Stored(disk, f)
        BY <2>3, BatchIsOwn
      <4>3. /\ \A f : f \notin disturbed' =>
                        f \notin disturbed /\ Stored(disk', f) = Stored(disk, f)
            /\ \A f \in disturbed' \ disturbed : Stored(disk, f) = {}
        BY <3>1, <4>1, <4>2
      <4> QED BY <4>3, SamePairs
    <3> QED BY <3>2, <3>3
  <2>4. CASE CommitTransaction
    BY <2>4, CommitPublishes
  <2> QED BY <1>2, <2>1, <2>2, <2>3, <2>4 DEF WorkerStep, PostReturns, TaskContinues
<1>3. ASSUME NEW table \in {"depths", "safe_points"}, UiInsert(table)
      PROVE  UNCHANGED StoredPairs
  <2>1. \A f : Stored(disk', f) = Stored(disk, f)
    BY <1>3, UiInsertStores
  <2>2. disturbed' = disturbed
    BY <1>3 DEF UiInsert
  <2> QED BY <2>1, <2>2, SamePairs
<1>4. ASSUME UiInsertFails
      PROVE  UNCHANGED StoredPairs
  <2>1. CASE UNCHANGED connVars
    BY <1>1, <1>4, <2>1 DEF UiInsertFails, connVars
  <2>2. CASE Rollback
    <3>1. inTxn /\ disk' = disk /\ disturbed' = disturbed \cup {forecastId}
      BY <1>4, <2>2 DEF UiInsertFails, Rollback
    <3>2. Stored(disk, forecastId) = {}
      BY <1>0, <3>1 DEF Places, TransactionIsBracketed, Task
    <3>3. /\ \A f : Stored(disk', f) = Stored(disk, f)
          /\ \A f \in disturbed' \ disturbed : f = forecastId
          /\ \A f : f \notin disturbed' => f \notin disturbed
      BY <3>1
    <3> QED BY <3>2, <3>3, SamePairs
  <2> QED BY <1>4, <2>1, <2>2 DEF UiInsertFails, ExecFails
<1>5. CASE UiContinues
  BY <1>1, <1>3, <1>4, <1>5 DEF UiContinues, LoadAfterJoin, DepthLoaded, CloseReturns,
           ExecDepthBatch, ExecDepthBatchFails, connVars
<1>6. CASE UiClicks
  BY <1>1, <1>3, <1>4, <1>6 DEF UiClicks, LoadFirst, LoadRefused, LoadJoins, LoadDepth, Close,
           AddSafePoint, connVars, vars
<1>7. CASE Restart \/ Crash
  BY <1>1, <1>7 DEF Restart, Crash, Fresh, Reopen
<1>8. CASE UNCHANGED vars
  BY <1>1, <1>8 DEF vars, connVars
<1> QED BY <1>2, <1>5, <1>6, <1>7, <1>8 DEF Next

\* The loader implements the atomic store: whatever the threads, failures and
\* crashes do, a reader of the file sees forecasts appear whole, each under a new
\* id, and never change or vanish, as long as no UI statement disturbs them.
THEOREM Refinement == Spec => ImplementsStore
<1>1. Init => Store!Init
  BY DEF Init, ConnInit, Store!Init, StoredPairs
<1>2. IInv /\ [Next]_vars => [Store!Next]_StoredPairs
  BY StoreStep
<1> QED BY <1>1, <1>2, Invariance, PTL DEF Spec, ImplementsStore, Store!Spec

-----------------------------------------------------------------------------
(* A SELECT during a load: the inductive invariant, on top of IInv.        *)

\* The statement and what the UI thread may know about it.
Statement ==
  /\ point \in Nat /\ (ui = "selecting" => point # 0)
  /\ cursor \in (0 .. lastId) \X Nat
  /\ seen \subseteq Nat \X (1 .. lastId) \X Nat
  /\ \A t \in seen : t[1] <= point
  /\ before \subseteq completed

\* The loads that can complete while a SELECT runs: the one that was running when it
\* began, because starting the next takes the UI thread.
NoLoadStarts ==
  ui = "selecting" =>
    /\ completed \subseteq before \cup {forecastId}
    /\ worker \in {"post", "insertForecast"} => completed \subseteq before

\* The cursor against the rows that the current point has seen of forecast f, all of
\* them being the first n.
AtCursor(f, n) ==
  /\ cursor[1] > f => Seen(point, f) = 1 .. n
  /\ cursor[1] = f => Seen(point, f) = 1 .. cursor[2] /\ cursor[2] <= n
  /\ cursor[1] < f => Seen(point, f) = {}

OldIsSeen ==
  ui = "selecting" =>
    \A f \in before :
      /\ \A p \in Scanned : Seen(p, f) = 1 .. handed[f]
      /\ AtCursor(f, handed[f])

\* The forecast that is being loaded: a point has its first records.
LoadingIsPrefix ==
  ui = "selecting" /\ forecastId \in (1 .. lastId) \ (before \cup disturbed) =>
    \/ /\ \A p \in 1 .. point : Seen(p, forecastId) = {}
       /\ cursor[1] # forecastId
    \/ /\ worker \notin {"post", "insertForecast"}
       /\ \A p \in Scanned : \E n \in Nat : Seen(p, forecastId) = 1 .. n
       /\ \E n \in Nat : AtCursor(forecastId, n)

\* No point has a row of a load that failed.
FailedIsUnseen ==
  ui = "selecting" =>
    \A f \in (1 .. lastId) \ (before \cup disturbed) :
      f # forecastId => \A p \in 1 .. point : Seen(p, f) = {}

SInv == /\ IInv /\ Statement /\ NoLoadStarts
        /\ OldIsSeen /\ LoadingIsPrefix /\ FailedIsUnseen

-----------------------------------------------------------------------------
(* The loader's invariant under the steps of the SELECT.                   *)

\* A step that at most rolls the open transaction back, as a failing statement may.
LEMMA QuietStep ==
  ASSUME IInv, ui \in {"idle", "selecting"}, ui' \in {"idle", "selecting"},
         UNCHANGED <<depthLeft, issued, acked, exposed, taskVars, threadVars>>,
         \/ UNCHANGED <<connVars, disturbed>>
         \/ Rollback /\ disturbed' = disturbed \cup {forecastId}
  PROVE  IInv' /\ UNCHANGED StoredPairs
<1>0. /\ TypeOK /\ Places /\ Connection /\ Numbering /\ Task /\ Exposed /\ Pending
      /\ AllOrNothing /\ CompletedIsStored /\ FailedIsAbsent /\ AckedIsDurable
  BY DEF IInv
<1>1. CASE UNCHANGED <<connVars, disturbed>>
  <2>1. UNCHANGED <<disk, view, inTxn, disturbed, depthLeft, issued, acked, exposed, worker,
                    joinable, ready, records, forecastId, written, lastId, handed, completed>>
    BY <1>1 DEF connVars, taskVars, threadVars
  <2>2. TypeOK'
    BY <1>0, <2>1 DEF TypeOK, ConnTypeOK, UiPlace
  <2>3. Places' /\ Numbering'
    BY <1>0, <2>1 DEF Places, JoinIsShort, TransactionIsBracketed, Numbering
  <2>4. Connection' /\ Exposed' /\ Pending' /\ AckedIsDurable'
    BY <1>0, <2>1 DEF Connection, Exposed, Pending, AckedIsDurable
  <2>5. Task' /\ AllOrNothing' /\ CompletedIsStored' /\ FailedIsAbsent'
    BY <1>0, <2>1 DEF Task, AllOrNothing, CompletedIsStored, FailedIsAbsent, Stored
  <2> QED BY <2>1, <2>2, <2>3, <2>4, <2>5 DEF IInv, StoredPairs
<1>2. CASE Rollback /\ disturbed' = disturbed \cup {forecastId}
  <2>1. /\ UNCHANGED <<disk, depthLeft, issued, acked, exposed, worker, joinable, ready,
                       records, forecastId, written, lastId, handed, completed>>
        /\ inTxn /\ view' = disk /\ ~inTxn' /\ inTxn' \in BOOLEAN
        /\ disturbed' = disturbed \cup {forecastId}
    BY <1>2 DEF Rollback, taskVars, threadVars
  <2>2. TypeOK'
    BY <1>0, <2>1 DEF TypeOK, ConnTypeOK, UiPlace
  <2>3. Places' /\ Connection' /\ Pending' /\ AckedIsDurable'
    BY <1>0, <2>1 DEF Places, JoinIsShort, TransactionIsBracketed, Connection, Pending,
                      AckedIsDurable
  <2>4. Numbering'
    BY <1>0, <2>1 DEF Numbering, Connection
  <2>5. worker \in {"batch", "commit", "rollback"} /\ forecastId \notin completed
        /\ Stored(disk, forecastId) = {}
    BY <1>0, <2>1 DEF Places, TransactionIsBracketed, Task
  <2>6. Task'
    BY <1>0, <2>1, <2>5 DEF Task
  <2>7. Exposed'
    BY <1>0, <2>1, <2>5 DEF Exposed, Connection
  <2>8. AllOrNothing' /\ CompletedIsStored' /\ FailedIsAbsent'
    BY <1>0, <2>1 DEF AllOrNothing, CompletedIsStored, FailedIsAbsent, Stored
  <2>9. UNCHANGED StoredPairs
    <3>1. /\ \A f : f \notin disturbed' => f \notin disturbed /\ Stored(disk', f) = Stored(disk, f)
          /\ \A f \in disturbed' \ disturbed : Stored(disk, f) = {}
      BY <2>1, <2>5
    <3> QED BY <3>1, SamePairs
  <2> QED BY <2>2, <2>3, <2>4, <2>6, <2>7, <2>8, <2>9 DEF IInv
<1> QED BY <1>1, <1>2

\* The SELECT leaves the loader's invariant and the stored forecasts alone.
LEMMA LoaderStep ==
  ASSUME IInv, [CheckNext]_allVars
  PROVE  IInv' /\ [Store!Next]_StoredPairs
<1>1. CASE Next
  BY <1>1, StepIInv, StoreStep
<1>2. CASE UNCHANGED vars
  BY <1>2, StepIInv, StoreStep
<1>3. CASE StartSelect \/ EndSelect
  BY <1>3, QuietStep DEF StartSelect, EndSelect
<1>4. CASE StepFails
  <2>1. \/ UNCHANGED <<connVars, disturbed>>
        \/ Rollback /\ disturbed' = disturbed \cup {forecastId}
    BY <1>4 DEF StepFails, ExecFails, Rollback, connVars
  <2> QED BY <1>4, <2>1, QuietStep DEF StepFails
<1>5. CASE StepRow \/ NextPoint
  BY <1>2, <1>5 DEF StepRow, NextPoint
<1> QED BY <1>1, <1>2, <1>3, <1>4, <1>5 DEF CheckNext, Select, allVars

-----------------------------------------------------------------------------
(* What the connection reads of each forecast.                             *)

LEMMA Readable ==
  ASSUME IInv
  PROVE  /\ \A f \in completed : Stored(view, f) = 1 .. handed[f] /\ handed[f] \in Nat
         /\ \A f \in (1 .. lastId) \ (completed \cup disturbed) :
              f # forecastId \/ worker \in {"post", "insertForecast"} => Stored(view, f) = {}
         /\ forecastId \in (1 .. lastId) \ disturbed =>
              \E n \in Nat : Stored(view, forecastId) = 1 .. n
<1>0. /\ TypeOK /\ Places /\ Connection /\ Task /\ Pending
      /\ AllOrNothing /\ CompletedIsStored /\ FailedIsAbsent
  BY DEF IInv
<1>1. ASSUME NEW f, f # forecastId \/ ~inTxn
      PROVE  Stored(view, f) = Stored(disk, f)
  <2>1. \A r : r.table = "forecast_records" /\ r.key = f => (r \in view <=> r \in disk)
    BY <1>0, <1>1 DEF Pending, Connection
  <2> QED BY <2>1 DEF Stored
<1>2. inTxn => worker \in {"batch", "commit", "rollback"} /\ forecastId \notin completed
  BY <1>0 DEF Places, TransactionIsBracketed, Task
<1>3. \A f \in completed : Stored(view, f) = 1 .. handed[f] /\ handed[f] \in Nat
  BY <1>0, <1>1, <1>2 DEF CompletedIsStored, TypeOK
<1>4. \A f \in (1 .. lastId) \ (completed \cup disturbed) :
        f # forecastId \/ worker \in {"post", "insertForecast"} => Stored(view, f) = {}
  BY <1>0, <1>1, <1>2 DEF FailedIsAbsent
<1>5. ASSUME forecastId \in (1 .. lastId) \ disturbed
      PROVE  \E n \in Nat : Stored(view, forecastId) = 1 .. n
  <2>1. CASE inTxn
    BY <1>0, <1>2, <1>5, <2>1 DEF Task, TypeOK
  <2>2. CASE ~inTxn
    <3>1. Stored(view, forecastId) \in {{}, 1 .. handed[forecastId]}
      BY <1>0, <1>1, <1>5, <2>2 DEF AllOrNothing
    <3>2. {} = 1 .. 0 /\ handed[forecastId] \in Nat
      BY <1>0, <1>5 DEF TypeOK
    <3> QED BY <3>1, <3>2
  <2> QED BY <2>1, <2>2
<1> QED BY <1>3, <1>4, <1>5

LEMMA SeenMember ==
  ASSUME Statement
  PROVE  \A p, f, i : i \in Seen(p, f) <=> <<p, f, i>> \in seen
<1>1. \A t \in seen : t = <<t[1], t[2], t[3]>>
  BY DEF Statement
<1> QED BY <1>1 DEF Seen

\* A point has seen no forecast that does not exist, and a later point nothing.
LEMMA Unseen ==
  ASSUME Statement
  PROVE  /\ \A p, f : f \notin 1 .. lastId => Seen(p, f) = {}
         /\ \A p \in Nat : \A f : p > point => Seen(p, f) = {}
<1>1. \A t \in seen : t[2] \in 1 .. lastId /\ t[1] <= point /\ point \in Nat
  BY DEF Statement
<1>2. ASSUME NEW p, NEW f, f \notin 1 .. lastId
      PROVE  Seen(p, f) = {}
  <2>1. {u \in seen : u[1] = p /\ u[2] = f} = {}
    BY <1>1, <1>2
  <2> QED BY <2>1 DEF Seen
<1>3. ASSUME NEW p \in Nat, NEW f, p > point
      PROVE  Seen(p, f) = {}
  <2>1. {u \in seen : u[1] = p /\ u[2] = f} = {}
    BY <1>1, <1>3
  <2> QED BY <2>1 DEF Seen
<1> QED BY <1>2, <1>3

-----------------------------------------------------------------------------
(* The steps of the statement.                                             *)

\* The row a step reads is the next one of its forecast, and it skips none.
LEMMA RowRead ==
  ASSUME IInv, Statement, StepRow, NEW f \in 1 .. lastId,
         NEW n \in Nat, Stored(view, f) = 1 .. n,
         NEW m \in Nat, AtCursor(f, m)
  PROVE  /\ m = n => AtCursor(f, n)'
         /\ \E k \in Nat : AtCursor(f, k)'
         /\ \A p : p # point => Seen(p, f)' = Seen(p, f)
<1>1. PICK r \in Ahead :
        /\ \A q \in Ahead : q.key > r.key \/ (q.key = r.key /\ q.index >= r.index)
        /\ cursor' = <<r.key, r.index>>
        /\ seen' = seen \cup {<<point, r.key, r.index>>}
  BY DEF StepRow
<1>2. /\ r \in view /\ r.table = "forecast_records"
      /\ r.key > cursor[1] \/ (r.key = cursor[1] /\ r.index > cursor[2])
      /\ r.key \in 1 .. lastId /\ r.index \in Nat
  BY DEF Ahead, IInv, TypeOK, ConnTypeOK, Row, Numbering
<1>3. /\ cursor[1] \in 0 .. lastId /\ cursor[2] \in Nat /\ point \in Nat /\ lastId \in Nat
      /\ point' = point /\ cursor'[1] = r.key /\ cursor'[2] = r.index
  BY <1>1 DEF Statement, StepRow, IInv, TypeOK
<1>4. \A i \in 1 .. n : /\ f > cursor[1] \/ (f = cursor[1] /\ i > cursor[2])
                        => f > r.key \/ (f = r.key /\ i >= r.index)
  <2> SUFFICES ASSUME NEW i \in 1 .. n, f > cursor[1] \/ (f = cursor[1] /\ i > cursor[2])
               PROVE  f > r.key \/ (f = r.key /\ i >= r.index)
    OBVIOUS
  <2>1. PICK q \in view : q.table = "forecast_records" /\ q.key = f /\ q.index = i
    BY DEF Stored
  <2>2. q \in Ahead
    BY <2>1 DEF Ahead
  <2> QED BY <1>1, <2>1, <2>2
<1>5. f = r.key => r.index \in 1 .. n
  BY <1>2 DEF Stored
<1>6. \A p : Seen(p, f)' = Seen(p, f) \cup (IF p = point /\ f = r.key THEN {r.index} ELSE {})
  <2> DEFINE new == <<point, r.key, r.index>>
  <2>1. new[1] = point /\ new[2] = r.key /\ new[3] = r.index
    OBVIOUS
  <2> HIDE DEF new
  <2>2. seen' = seen \cup {new}
    BY <1>1 DEF new
  <2>3. ASSUME NEW p
        PROVE  Seen(p, f)' = Seen(p, f) \cup (IF p = point /\ f = r.key THEN {r.index} ELSE {})
    <3>1. {u \in seen' : u[1] = p /\ u[2] = f}
            = {u \in seen : u[1] = p /\ u[2] = f}
                \cup (IF p = point /\ f = r.key THEN {new} ELSE {})
      BY <2>1, <2>2
    <3> QED BY <2>1, <3>1 DEF Seen
  <2> QED BY <2>3
<1>a. Seen(point, f)' = Seen(point, f) \cup (IF f = r.key THEN {r.index} ELSE {})
  <2>1. {t[3] : t \in {u \in seen' : u[1] = point /\ u[2] = f}}
          = Seen(point, f) \cup (IF f = r.key THEN {r.index} ELSE {})
    BY <1>6 DEF Seen
  <2> QED BY <1>3, <2>1 DEF Seen
<1>7. CASE f = r.key
  <2>1. Seen(point, f) = 1 .. r.index - 1 /\ r.index >= 1
    <3>1. CASE cursor[1] = f
      <4>1. r.index = cursor[2] + 1
        <5>1. r.index > cursor[2] /\ cursor[2] + 1 \in 1 .. n
          BY <1>2, <1>3, <1>5, <1>7, <3>1
        <5>2. cursor[2] + 1 >= r.index
          BY <1>2, <1>3, <1>4, <1>7, <3>1, <5>1
        <5> QED BY <1>2, <1>3, <5>1, <5>2
      <4> QED BY <1>3, <3>1, <4>1 DEF AtCursor
    <3>2. CASE cursor[1] < f
      <4>1. 1 \in 1 .. n
        BY <1>5, <1>7
      <4>2. r.index = 1
        BY <1>2, <1>3, <1>4, <1>5, <1>7, <3>2, <4>1
      <4> QED BY <1>3, <3>2, <4>2 DEF AtCursor
    <3> QED BY <1>2, <1>3, <1>7, <3>1, <3>2
  <2>2. Seen(point, f)' = 1 .. r.index
    BY <1>2, <1>a, <1>7, <2>1
  <2>3. r.index <= n
    BY <1>5, <1>7
  <2>4. \A k \in {n, r.index} : AtCursor(f, k)'
    BY <1>2, <1>3, <1>7, <2>2, <2>3 DEF AtCursor
  <2> QED BY <1>2, <1>6, <2>4
<1>8. CASE f # r.key
  <2>1. \A p : Seen(p, f)' = Seen(p, f)
    BY <1>6, <1>8
  <2>2. Seen(point, f)' = Seen(point, f)
    BY <1>a, <1>8
  <2>3. CASE f > r.key
    <3>1. Seen(point, f) = {}
      BY <1>2, <1>3, <2>3 DEF AtCursor
    <3>2. \A k \in Nat : AtCursor(f, k)'
      BY <1>2, <1>3, <2>2, <2>3, <3>1 DEF AtCursor
    <3> QED BY <2>1, <3>2
  <2>4. CASE f < r.key
    <3>1. \E k \in Nat : Seen(point, f) = 1 .. k /\ (m = n => k = n)
      <4>1. CASE cursor[1] > f
        BY <4>1 DEF AtCursor
      <4>2. CASE cursor[1] = f
        <5>1. ~(n > cursor[2])
          <6>1. n > cursor[2] => n \in 1 .. n /\ f = cursor[1]
            BY <1>3, <4>2
          <6> QED BY <1>2, <1>4, <2>4, <6>1
        <5> QED BY <1>3, <4>2, <5>1 DEF AtCursor
      <4>3. CASE cursor[1] < f
        <5>1. n = 0
          <6>1. n # 0 => n \in 1 .. n
            OBVIOUS
          <6> QED BY <1>2, <1>4, <2>4, <4>3, <6>1
        <5> QED BY <4>3, <5>1 DEF AtCursor
      <4> QED BY <1>3, <4>1, <4>2, <4>3
    <3>2. PICK k \in Nat : Seen(point, f) = 1 .. k /\ (m = n => k = n)
      BY <3>1
    <3>3. AtCursor(f, k)'
      BY <1>2, <1>3, <2>2, <2>4, <3>2 DEF AtCursor
    <3> QED BY <2>1, <3>2, <3>3
  <2> QED BY <1>2, <1>8, <2>3, <2>4
<1> QED BY <1>7, <1>8

\* When no row is left, the point has seen the whole forecast, and the next point nothing.
LEMMA RowsDone ==
  ASSUME IInv, Statement, NextPoint, NEW f \in 1 .. lastId,
         NEW n \in Nat, Stored(view, f) = 1 .. n,
         NEW m \in Nat, AtCursor(f, m)
  PROVE  /\ m = n => Seen(point, f) = 1 .. n
         /\ \E k \in Nat : Seen(point, f) = 1 .. k
         /\ \A k \in Nat : AtCursor(f, k)'
         /\ cursor'[1] = 0 /\ Seen(point + 1, f) = {}
<1>1. /\ cursor[1] \in 0 .. lastId /\ cursor[2] \in Nat /\ point \in Nat /\ lastId \in Nat
      /\ point' = point + 1 /\ cursor' = <<0, 0>> /\ seen' = seen /\ Ahead = {}
  BY DEF Statement, NextPoint, IInv, TypeOK
<1>2. \A i \in 1 .. n : ~(f > cursor[1] \/ (f = cursor[1] /\ i > cursor[2]))
  BY <1>1 DEF Ahead, Stored
<1>3. \E k \in Nat : Seen(point, f) = 1 .. k /\ (m = n => k = n)
  <2>1. CASE cursor[1] > f
    BY <2>1 DEF AtCursor
  <2>2. CASE cursor[1] = f
    <3>1. n # 0 => n \in 1 .. n
      OBVIOUS
    <3>2. ~(n > cursor[2])
      BY <1>1, <1>2, <2>2, <3>1
    <3> QED BY <1>1, <2>2, <3>2 DEF AtCursor
  <2>3. CASE cursor[1] < f
    <3>1. n # 0 => n \in 1 .. n
      OBVIOUS
    <3>2. n = 0
      BY <1>1, <1>2, <2>3, <3>1
    <3> QED BY <2>3, <3>2 DEF AtCursor
  <2> QED BY <1>1, <2>1, <2>2, <2>3
<1>4. Seen(point + 1, f) = {}
  BY <1>1, Unseen
<1>5. Seen(point, f)' = {}
  BY <1>1, <1>4 DEF Seen
<1>6. \A k \in Nat : AtCursor(f, k)'
  BY <1>1, <1>5 DEF AtCursor
<1> QED BY <1>1, <1>3, <1>4, <1>6

\* While a SELECT runs only the loading thread moves; it can number one new forecast
\* and complete the one it is loading.
LEMMA WhileSelecting ==
  ASSUME IInv, Next, ui' = "selecting"
  PROVE  /\ ui = "selecting" /\ UNCHANGED disturbed
         /\ \/ /\ worker = "insertForecast" /\ worker' = "begin"
               /\ lastId' = lastId + 1 /\ forecastId' = lastId + 1
               /\ completed' = completed
               /\ \A f \in 1 .. lastId : handed'[f] = handed[f]
            \/ /\ UNCHANGED <<lastId, forecastId, handed>>
               /\ worker' \in {"post", "insertForecast"} =>
                    worker \in {"post", "insertForecast"} /\ completed' = completed
               /\ worker \in {"post", "insertForecast"} => completed' = completed
               /\ completed \subseteq completed' /\ completed' \subseteq completed \cup {forecastId}
<1>1. WorkerStep
  BY DEF Next, UiContinues, LoadAfterJoin, ExecDepthBatch, ExecDepthBatchFails, DepthLoaded,
         CloseReturns, UiClicks, LoadFirst, LoadRefused, LoadJoins, LoadDepth, AddSafePoint,
         Close, Restart, Crash, Fresh, vars, uiVars
<1>2. CASE InsertForecast
  BY <1>2 DEF InsertForecast, Goto, uiVars, IInv, TypeOK
<1>3. CASE CommitTransaction
  BY <1>3 DEF CommitTransaction, Finish, uiVars
<1>4. CASE ExecBatch
  BY <1>4 DEF ExecBatch, uiVars, threadVars
<1> QED BY <1>1, <1>2, <1>3, <1>4
        DEF WorkerStep, PostReturns, TaskContinues, PostReplies, PostFails, InsertForecastFails, BeginTransaction, BeginFails,
            ExecBatchFails, BatchesDone, CommitFails, TransactionDestroyed, ThreadExits,
            Goto, Finish, uiVars, taskVars

\* The loading thread leaves what the SELECT has seen as the invariant says it is.
LEMMA LoadUnderSelect ==
  ASSUME SInv, Next, ui' = "selecting", UNCHANGED checkVars
  PROVE  Statement' /\ NoLoadStarts' /\ OldIsSeen' /\ LoadingIsPrefix' /\ FailedIsUnseen'
<1>0. /\ ui = "selecting" /\ UNCHANGED <<disturbed, point, cursor, seen, before>>
      /\ lastId \in Nat /\ forecastId \in 0 .. lastId /\ completed \subseteq 1 .. lastId
      /\ Statement /\ point \in Nat /\ cursor[1] \in 0 .. lastId /\ before \subseteq completed
      /\ UNCHANGED Scanned
  BY WhileSelecting DEF SInv, IInv, TypeOK, Statement, checkVars, Scanned
<1>1. \A p, f : Seen(p, f)' = Seen(p, f)
  BY <1>0 DEF Seen
<1>2. \A f, n : AtCursor(f, n)' <=> AtCursor(f, n)
  <2>1. \A f : Seen(point, f)' = Seen(point, f)
    BY <1>0 DEF Seen
  <2> QED BY <1>0, <2>1 DEF AtCursor
<1>3. CASE /\ worker = "insertForecast" /\ worker' = "begin"
           /\ lastId' = lastId + 1 /\ forecastId' = lastId + 1
           /\ completed' = completed
           /\ \A f \in 1 .. lastId : handed'[f] = handed[f]
  <2>1. Statement' /\ NoLoadStarts'
    BY <1>0, <1>3 DEF SInv, Statement, NoLoadStarts
  <2>2. OldIsSeen'
    BY <1>0, <1>1, <1>2, <1>3 DEF SInv, OldIsSeen
  <2>3. LoadingIsPrefix'
    <3>1. \A p : Seen(p, lastId + 1) = {}
      BY <1>0, Unseen
    <3>2. forecastId' = lastId + 1 /\ cursor'[1] # lastId + 1 /\ point' = point
      BY <1>0, <1>3
    <3>3. \A p \in 1 .. point' : Seen(p, forecastId)' = {}
      BY <1>0, <3>1, <3>2 DEF Seen
    <3> QED BY <3>2, <3>3 DEF LoadingIsPrefix
  <2>4. FailedIsUnseen'
    <3> SUFFICES ASSUME NEW f \in (1 .. lastId') \ (before \cup disturbed), f # forecastId',
                        NEW p \in 1 .. point
                 PROVE  Seen(p, f)' = {}
      BY <1>0 DEF FailedIsUnseen
    <3>1. f \in 1 .. lastId
      BY <1>0, <1>3
    <3>2. Seen(p, f) = {}
      BY <1>0, <1>3, <3>1 DEF SInv, LoadingIsPrefix, FailedIsUnseen
    <3> QED BY <1>1, <3>2
  <2> QED BY <2>1, <2>2, <2>3, <2>4
<1>4. CASE /\ UNCHANGED <<lastId, forecastId, handed>>
           /\ worker' \in {"post", "insertForecast"} =>
                worker \in {"post", "insertForecast"} /\ completed' = completed
           /\ worker \in {"post", "insertForecast"} => completed' = completed
           /\ completed \subseteq completed' /\ completed' \subseteq completed \cup {forecastId}
  <2>1. Statement' /\ NoLoadStarts'
    BY <1>0, <1>4 DEF SInv, Statement, NoLoadStarts
  <2>2. OldIsSeen'
    BY <1>0, <1>1, <1>2, <1>4 DEF SInv, OldIsSeen
  <2>3. LoadingIsPrefix'
    <3>1. \A p : Seen(p, forecastId)' = Seen(p, forecastId)
      BY <1>0, <1>4 DEF Seen
    <3>2. \A n : AtCursor(forecastId, n)' <=> AtCursor(forecastId, n)
      <4>1. Seen(point, forecastId)' = Seen(point, forecastId)
        BY <1>0, <1>4 DEF Seen
      <4> QED BY <1>0, <1>4, <4>1 DEF AtCursor
    <3> QED BY <1>0, <1>4, <3>1, <3>2 DEF SInv, LoadingIsPrefix
  <2>4. FailedIsUnseen'
    BY <1>0, <1>1, <1>4 DEF SInv, FailedIsUnseen
  <2> QED BY <2>1, <2>2, <2>3, <2>4
<1> QED BY <1>3, <1>4, WhileSelecting DEF SInv

LEMMA StepRowKeeps ==
  ASSUME SInv, StepRow
  PROVE  Statement' /\ NoLoadStarts' /\ OldIsSeen' /\ LoadingIsPrefix' /\ FailedIsUnseen'
<1>1. PICK r \in Ahead : /\ cursor' = <<r.key, r.index>>
                         /\ seen' = seen \cup {<<point, r.key, r.index>>}
  BY DEF StepRow
<1>2. /\ ui = "selecting"
      /\ UNCHANGED <<ui, point, before, completed, disturbed, forecastId, worker, lastId, handed>>
      /\ UNCHANGED Scanned /\ Scanned \subseteq 1 .. point /\ point \notin Scanned
      /\ lastId \in Nat /\ point \in Nat \ {0} /\ forecastId \in 0 .. lastId
      /\ before \subseteq completed /\ completed \subseteq 1 .. lastId
  BY DEF StepRow, vars, uiVars, taskVars, threadVars, SInv, IInv, TypeOK, Statement, Scanned
<1>3. /\ r \in view /\ r.table = "forecast_records" /\ r.key \in 1 .. lastId /\ r.index \in Nat
      /\ r.index \in Stored(view, r.key) /\ cursor'[1] = r.key
  BY <1>1 DEF Ahead, SInv, IInv, TypeOK, ConnTypeOK, Row, Numbering, Stored
<1>4. Statement' /\ NoLoadStarts'
  <2>1. seen' \subseteq Nat \X (1 .. lastId) \X Nat /\ \A t \in seen' : t[1] <= point
    BY <1>1, <1>2, <1>3 DEF SInv, Statement
  <2>2. cursor' \in (0 .. lastId) \X Nat
    BY <1>1, <1>2, <1>3
  <2> QED BY <1>2, <2>1, <2>2 DEF SInv, Statement, NoLoadStarts
<1>5. \A f, p : f # r.key => Seen(p, f)' = Seen(p, f)
  <2>1. ASSUME NEW f, NEW p, f # r.key
        PROVE  {u \in seen' : u[1] = p /\ u[2] = f} = {u \in seen : u[1] = p /\ u[2] = f}
    BY <1>1, <2>1
  <2> QED BY <2>1 DEF Seen
<1>6. OldIsSeen'
  <2> SUFFICES ASSUME NEW f \in before
               PROVE  /\ \A p \in Scanned : Seen(p, f)' = 1 .. handed[f]
                      /\ AtCursor(f, handed[f])'
    BY <1>2 DEF OldIsSeen
  <2>1. /\ f \in 1 .. lastId /\ handed[f] \in Nat /\ Stored(view, f) = 1 .. handed[f]
    BY <1>2, Readable DEF SInv
  <2>2. AtCursor(f, handed[f]) /\ \A p \in Scanned : Seen(p, f) = 1 .. handed[f]
    BY <1>2 DEF SInv, OldIsSeen
  <2> DEFINE n == handed[f]
  <2>3. AtCursor(f, n) /\ n \in Nat /\ Stored(view, f) = 1 .. n /\ n' = n
    BY <1>2, <2>1, <2>2
  <2> HIDE DEF n
  <2>4. n = n => AtCursor(f, n)'
    <3>1. \A k \in Nat : AtCursor(f, k) /\ Stored(view, f) = 1 .. k => AtCursor(f, k)'
      BY <2>1, RowRead DEF SInv
    <3> QED BY <2>3, <3>1 DEF AtCursor
  <2>5. \A p : p # point => Seen(p, f)' = Seen(p, f)
    BY <2>1, <2>3, RowRead DEF SInv
  <2> QED BY <1>2, <2>2, <2>4, <2>5 DEF n
<1>7. LoadingIsPrefix'
  <2> SUFFICES ASSUME forecastId \in (1 .. lastId) \ (before \cup disturbed)
               PROVE  LoadingIsPrefix'
    BY <1>2 DEF LoadingIsPrefix
  <2>1. CASE worker \in {"post", "insertForecast"}
    <3>1. Stored(view, forecastId) = {}
      BY <1>2, <2>1, Readable DEF SInv, NoLoadStarts
    <3>2. r.key # forecastId
      BY <1>3, <3>1
    <3>3. \A p : Seen(p, forecastId)' = Seen(p, forecastId)
      BY <1>2, <1>5, <3>2 DEF Seen
    <3> QED BY <1>2, <1>3, <2>1, <3>2, <3>3 DEF SInv, LoadingIsPrefix
  <2>2. CASE worker \notin {"post", "insertForecast"}
    <3>1. PICK n \in Nat : Stored(view, forecastId) = 1 .. n
      BY Readable DEF SInv
    <3>2. /\ \A p \in Scanned : \E k \in Nat : Seen(p, forecastId) = 1 .. k
          /\ \E k \in Nat : AtCursor(forecastId, k)
      <4>1. CASE /\ \A p \in 1 .. point : Seen(p, forecastId) = {}
                 /\ cursor[1] # forecastId
        <5>1. {} = 1 .. 0
          OBVIOUS
        <5>2. Seen(point, forecastId) = {} /\ 0 \in Nat
          BY <1>2, <4>1
        <5>3. AtCursor(forecastId, 0)
          BY <4>1, <5>1, <5>2 DEF AtCursor
        <5>4. \A p \in Scanned : Seen(p, forecastId) = 1 .. 0
          BY <1>2, <4>1, <5>1
        <5> QED BY <5>2, <5>3, <5>4
      <4>2. CASE ~(/\ \A p \in 1 .. point : Seen(p, forecastId) = {}
                   /\ cursor[1] # forecastId)
        BY <1>2, <4>2 DEF SInv, LoadingIsPrefix
      <4> QED BY <4>1, <4>2
    <3>3. PICK m \in Nat : AtCursor(forecastId, m)
      BY <3>2
    <3>4. ASSUME NEW f \in 1 .. lastId, f = forecastId
          PROVE  /\ \E k \in Nat : AtCursor(f, k)'
                 /\ \A p : p # point => Seen(p, f)' = Seen(p, f)
      BY <3>1, <3>3, <3>4, RowRead DEF SInv
    <3>5. /\ \E k \in Nat : AtCursor(forecastId, k)'
          /\ \A p : p # point => Seen(p, forecastId)' = Seen(p, forecastId)
      BY <1>2, <3>4 DEF AtCursor, Seen
    <3> QED BY <1>2, <2>2, <3>2, <3>5 DEF LoadingIsPrefix
  <2> QED BY <2>1, <2>2
<1>8. FailedIsUnseen'
  <2> SUFFICES ASSUME NEW f \in (1 .. lastId) \ (before \cup disturbed), f # forecastId,
                      NEW p \in 1 .. point
               PROVE  Seen(p, f)' = {}
    BY <1>2 DEF FailedIsUnseen
  <2>1. f \notin completed
    BY <1>2 DEF SInv, NoLoadStarts
  <2>2. Stored(view, f) = {}
    BY <2>1, Readable DEF SInv
  <2>3. f # r.key
    BY <1>3, <2>2
  <2> QED BY <1>2, <1>5, <2>3 DEF SInv, FailedIsUnseen
<1> QED BY <1>4, <1>6, <1>7, <1>8

LEMMA NextPointKeeps ==
  ASSUME SInv, NextPoint
  PROVE  Statement' /\ NoLoadStarts' /\ OldIsSeen' /\ LoadingIsPrefix' /\ FailedIsUnseen'
<1>1. /\ ui = "selecting" /\ point' = point + 1 /\ cursor' = <<0, 0>>
      /\ UNCHANGED <<ui, seen, before, completed, disturbed, forecastId, worker, lastId, handed>>
      /\ lastId \in Nat /\ point \in Nat \ {0} /\ forecastId \in 0 .. lastId
      /\ before \subseteq completed /\ completed \subseteq 1 .. lastId
      /\ Scanned = 1 .. point - 1 /\ Scanned' = 1 .. point
      /\ 1 .. point = Scanned \cup {point} /\ 1 .. point + 1 = (1 .. point) \cup {point + 1}
  BY DEF NextPoint, vars, uiVars, taskVars, threadVars, SInv, IInv, TypeOK, Statement, Scanned
<1>2. Statement' /\ NoLoadStarts'
  <2>1. cursor' \in (0 .. lastId) \X Nat
    BY <1>1
  <2>2. point' \in Nat /\ point' # 0 /\ \A t \in seen : t[1] <= point'
    <3>1. \A t \in seen : t[1] \in Nat /\ t[1] <= point
      BY DEF SInv, Statement
    <3> QED BY <1>1, <3>1
  <2>3. Statement'
    BY <1>1, <2>1, <2>2 DEF SInv, Statement
  <2>4. NoLoadStarts'
    BY <1>1 DEF SInv, NoLoadStarts
  <2> QED BY <2>3, <2>4
<1>3. \A p, f : Seen(p, f)' = Seen(p, f)
  BY <1>1 DEF Seen
<1>4. \A f : Seen(point + 1, f) = {}
  BY <1>1, Unseen DEF SInv
<1>5. \A f : f # 0 => cursor'[1] # f
  BY <1>1
<1>6. OldIsSeen'
  <2> SUFFICES ASSUME NEW f \in before
               PROVE  /\ \A p \in 1 .. point : Seen(p, f)' = 1 .. handed[f]
                      /\ AtCursor(f, handed[f])'
    BY <1>1 DEF OldIsSeen
  <2>1. /\ f \in 1 .. lastId /\ handed[f] \in Nat /\ Stored(view, f) = 1 .. handed[f]
        /\ AtCursor(f, handed[f]) /\ \A p \in Scanned : Seen(p, f) = 1 .. handed[f]
    BY <1>1, Readable DEF SInv, OldIsSeen
  <2>2. Seen(point, f) = 1 .. handed[f] /\ \A k \in Nat : AtCursor(f, k)'
    BY <2>1, RowsDone DEF SInv
  <2>3. handed'[f] \in Nat
    BY <1>1, <2>1
  <2>4. AtCursor(f, handed[f])'
    BY <2>2, <2>3 DEF AtCursor
  <2> QED BY <1>1, <1>3, <2>1, <2>2, <2>4
<1>7. LoadingIsPrefix'
  <2> SUFFICES ASSUME forecastId \in (1 .. lastId) \ (before \cup disturbed)
               PROVE  LoadingIsPrefix'
    BY <1>1 DEF LoadingIsPrefix
  <2>1. \A p : Seen(p, forecastId)' = Seen(p, forecastId)
    BY <1>1 DEF Seen
  <2>2. CASE /\ \A p \in 1 .. point : Seen(p, forecastId) = {}
             /\ cursor[1] # forecastId
    BY <1>1, <1>4, <1>5, <2>1, <2>2 DEF LoadingIsPrefix
  <2>3. CASE ~(/\ \A p \in 1 .. point : Seen(p, forecastId) = {}
               /\ cursor[1] # forecastId)
    <3>1. PICK m \in Nat : AtCursor(forecastId, m)
      BY <1>1, <2>3 DEF SInv, LoadingIsPrefix
    <3>2. PICK n \in Nat : Stored(view, forecastId) = 1 .. n
      BY Readable DEF SInv
    <3>3. ASSUME NEW f \in 1 .. lastId, f = forecastId
          PROVE  /\ \E k \in Nat : Seen(point, f) = 1 .. k
                 /\ AtCursor(f, 0)'
      BY <3>1, <3>2, <3>3, RowsDone DEF SInv
    <3>4. /\ \E k \in Nat : Seen(point, forecastId) = 1 .. k
          /\ \E k \in Nat : AtCursor(forecastId, k)'
      BY <1>1, <3>3 DEF AtCursor, Seen
    <3> QED BY <1>1, <2>1, <2>3, <3>4 DEF SInv, LoadingIsPrefix
  <2> QED BY <2>2, <2>3
<1>8. FailedIsUnseen'
  BY <1>1, <1>3, <1>4 DEF SInv, FailedIsUnseen
<1> QED BY <1>2, <1>6, <1>7, <1>8

LEMMA StartSelectBegins ==
  ASSUME SInv, StartSelect
  PROVE  Statement' /\ NoLoadStarts' /\ OldIsSeen' /\ LoadingIsPrefix' /\ FailedIsUnseen'
<1>1. /\ point' = 1 /\ cursor' = <<0, 0>> /\ seen' = {} /\ before' = completed
      /\ UNCHANGED <<completed, disturbed, forecastId, worker, lastId, handed>>
      /\ lastId \in Nat /\ completed \subseteq 1 .. lastId
  BY DEF StartSelect, taskVars, threadVars, SInv, IInv, TypeOK
<1>2. \A p, f : Seen(p, f)' = {}
  BY <1>1 DEF Seen
<1>3. Statement' /\ NoLoadStarts'
  <2>1. cursor' \in (0 .. lastId) \X Nat
    BY <1>1
  <2> QED BY <1>1, <2>1 DEF Statement, NoLoadStarts
<1>4. \A f \in 1 .. lastId : cursor'[1] < f
  BY <1>1
<1>5. OldIsSeen'
  <2> SUFFICES ASSUME NEW f \in completed
               PROVE  (\A p \in Scanned : Seen(p, f) = 1 .. handed[f])' /\ AtCursor(f, handed[f])'
    BY <1>1 DEF OldIsSeen
  <2>1. Scanned' = {}
    BY <1>1 DEF Scanned
  <2>2. Seen(point, f)' = {} /\ f \in 1 .. lastId /\ lastId \in Nat
    BY <1>1 DEF Seen
  <2>3. ~(cursor'[1] > f) /\ cursor'[1] # f
    BY <1>4, <2>2, <1>1
  <2>4. AtCursor(f, handed[f])'
    BY <2>2, <2>3 DEF AtCursor
  <2> QED BY <2>1, <2>4
<1>6. LoadingIsPrefix'
  <2>1. \A p : Seen(p, forecastId)' = {}
    BY <1>1 DEF Seen
  <2> QED BY <1>1, <1>4, <2>1 DEF LoadingIsPrefix
<1>7. FailedIsUnseen'
  BY <1>2 DEF FailedIsUnseen
<1> QED BY <1>3, <1>5, <1>6, <1>7

\* With its statement gone, a handler that is not selecting has seen nothing.
LEMMA Finalized ==
  ASSUME IInv', Finalize, ui' # "selecting"
  PROVE  Statement' /\ NoLoadStarts' /\ OldIsSeen' /\ LoadingIsPrefix' /\ FailedIsUnseen'
<1>1. lastId' \in Nat /\ cursor' = <<0, 0>> /\ point' = 0 /\ seen' = {} /\ before' = {}
  BY DEF IInv, TypeOK, Finalize
<1>2. cursor' \in (0 .. lastId') \X Nat
  BY <1>1
<1> QED BY <1>1, <1>2 DEF Statement, NoLoadStarts, OldIsSeen, LoadingIsPrefix, FailedIsUnseen

LEMMA InitSInv == CheckInit => SInv
<1> SUFFICES ASSUME CheckInit PROVE SInv
  OBVIOUS
<1>1. IInv
  BY InitIInv DEF CheckInit
<1>2. lastId = 0 /\ cursor = <<0, 0>> /\ point = 0 /\ seen = {} /\ before = {} /\ ui = "idle"
  BY DEF CheckInit, Init
<1>3. cursor \in (0 .. lastId) \X Nat
  BY <1>2
<1> QED BY <1>1, <1>2, <1>3
        DEF SInv, Statement, NoLoadStarts, OldIsSeen, LoadingIsPrefix, FailedIsUnseen

LEMMA StepSInv ==
  ASSUME SInv, [CheckNext]_allVars
  PROVE  SInv'
<1>1. IInv'
  BY LoaderStep DEF SInv
<1>2. CASE Next /\ IF ui' = "selecting" THEN UNCHANGED checkVars ELSE Finalize
  BY <1>1, <1>2, LoadUnderSelect, Finalized DEF SInv
<1>3. CASE StartSelect
  BY <1>1, <1>3, StartSelectBegins DEF SInv
<1>4. CASE StepRow
  BY <1>1, <1>4, StepRowKeeps DEF SInv
<1>5. CASE NextPoint
  BY <1>1, <1>5, NextPointKeeps DEF SInv
<1>6. CASE StepFails \/ EndSelect
  BY <1>1, <1>6, Finalized DEF SInv, StepFails, EndSelect
<1>7. CASE UNCHANGED allVars
  <2>1. UNCHANGED <<ui, worker, forecastId, lastId, handed, completed, disturbed,
                    point, cursor, seen, before>>
    BY <1>7 DEF allVars, vars, uiVars, taskVars, threadVars, checkVars
  <2>2. Statement' /\ NoLoadStarts'
    BY <2>1 DEF SInv, Statement, NoLoadStarts
  <2>3. OldIsSeen'
    BY <2>1 DEF SInv, OldIsSeen, AtCursor, Seen, Scanned
  <2>4. LoadingIsPrefix'
    <3>1. \A p, f : Seen(p, f)' = Seen(p, f)
      BY <2>1 DEF Seen
    <3>2. \A f, n : AtCursor(f, n)' <=> AtCursor(f, n)
      BY <2>1, <3>1 DEF AtCursor
    <3>3. Scanned' = Scanned
      BY <2>1 DEF Scanned
    <3> QED BY <2>1, <3>1, <3>2, <3>3, Zenon DEF SInv, LoadingIsPrefix
  <2>5. FailedIsUnseen'
    BY <2>1 DEF SInv, FailedIsUnseen, Seen
  <2> QED BY <1>1, <2>2, <2>3, <2>4, <2>5 DEF SInv
<1> QED BY <1>2, <1>3, <1>4, <1>5, <1>6, <1>7 DEF CheckNext, Select

-----------------------------------------------------------------------------
\* In every state of a load with a SELECT going on, the loader's own invariant holds,
\* and the rows the check has seen are those the connection showed it on its way.
THEOREM SelectInvariance == CheckSpec => []SInv
BY InitSInv, StepSInv, PTL DEF CheckSpec

\* However the loading thread writes, commits or rolls back between two rows, the check
\* reads every forecast whose load was over when it began, whole and for every point.
THEOREM CompletedAreSeen == CheckSpec => []CompletedBeforeIsSeen
<1>1. SInv => CompletedBeforeIsSeen
  BY DEF SInv, OldIsSeen, CompletedBeforeIsSeen, Scanned
<1> QED BY <1>1, SelectInvariance, PTL

\* What the check reads beyond that is the beginning of the one load that is running.
THEOREM TransientIsLoading == CheckSpec => []OnlyLoadingIsTransient
<1>1. ASSUME SInv
      PROVE  OnlyLoadingIsTransient
  <2> SUFFICES ASSUME NEW p \in Scanned, NEW f \in (1 .. lastId) \ (before \cup disturbed)
               PROVE  Seen(p, f) = IF f = forecastId THEN 1 .. Cardinality(Seen(p, f)) ELSE {}
    BY DEF OnlyLoadingIsTransient
  <2>1. ui = "selecting" /\ p \in 1 .. point
    BY <1>1 DEF Scanned, SInv, Statement
  <2>2. CASE f # forecastId
    BY <1>1, <2>1, <2>2 DEF SInv, FailedIsUnseen
  <2>3. CASE f = forecastId
    <3>1. \E n \in Nat : Seen(p, f) = 1 .. n
      <4>1. {} = 1 .. 0
        OBVIOUS
      <4> QED BY <1>1, <2>1, <2>3, <4>1 DEF SInv, LoadingIsPrefix
    <3>2. \A n \in Nat : Cardinality(1 .. n) = n
      BY FS_Interval
    <3> QED BY <2>3, <3>1, <3>2
  <2> QED BY <2>2, <2>3
<1> QED BY <1>1, SelectInvariance, PTL

\* The SELECT changes nothing: with it the loader still implements the atomic store.
THEOREM SelectRefinement == CheckSpec => ImplementsStore
<1>1. CheckInit => Store!Init
  BY DEF CheckInit, Init, ConnInit, Store!Init, StoredPairs
<1>2. SInv /\ [CheckNext]_allVars => [Store!Next]_StoredPairs
  BY LoaderStep DEF SInv
<1> QED BY <1>1, <1>2, SelectInvariance, PTL DEF CheckSpec, ImplementsStore, Store!Spec

=============================================================================
