---------------------------- MODULE CheckDuringLoad ----------------------------
(***************************************************************************)
(* DbClient::SelectClosestForecasts on the UI thread ("Check path", "Make  *)
(* best route") while the loading thread writes: the SELECT steps through  *)
(* its rows one by one on the connection that has the load's transaction   *)
(* open.  It scans forecast_records once for every point of the route, in  *)
(* the order of the row ids, which is the order of insertion.  Between two *)
(* steps the loading thread may do anything; the UI thread does nothing    *)
(* else.                                                                   *)
(***************************************************************************)
EXTENDS ForecastsLoader

CONSTANT Points    \* how many points the route has

ASSUME PointsAssumption == Points \in Nat \ {0}

VARIABLES
  point,    \* the point the SELECT is at
  cursor,   \* the last row read for it: forecast, record
  seen,     \* the rows read: point, forecast, record
  before    \* history: the forecasts completed when the SELECT began

checkVars == <<point, cursor, seen, before>>
allVars == <<vars, checkVars>>

CheckInit ==
  /\ Init
  /\ point = 0 /\ cursor = <<0, 0>> /\ seen = {} /\ before = {}

\* The statement is destroyed with its handler.
Finalize == point' = 0 /\ cursor' = <<0, 0>> /\ seen' = {} /\ before' = {}

\* The rows of forecast_records a step of the statement can come to.
Ahead ==
  {r \in view : /\ r.table = "forecast_records"
                /\ r.key > cursor[1] \/ (r.key = cursor[1] /\ r.index > cursor[2])}

StartSelect ==
  /\ ui = "idle"
  /\ ui' = "selecting"
  /\ point' = 1 /\ cursor' = <<0, 0>> /\ seen' = {} /\ before' = completed
  /\ UNCHANGED <<connVars, depthLeft, issued, acked, exposed, taskVars, threadVars, disturbed>>

\* Faulty variant: the statement is reset before every step.
StepRowReset ==
  /\ ui = "selecting" /\ point <= Points
  /\ \E r \in Ahead : seen' = seen \cup {<<point, r.key, r.index>>}
  /\ UNCHANGED <<vars, point, cursor, before>>

\* executeStep returns a row.
StepRow ==
  /\ ui = "selecting" /\ point <= Points
  /\ \E r \in Ahead :
       /\ \A q \in Ahead : q.key > r.key \/ (q.key = r.key /\ q.index >= r.index)
       /\ cursor' = <<r.key, r.index>>
       /\ seen' = seen \cup {<<point, r.key, r.index>>}
  /\ UNCHANGED <<vars, point, before>>

\* No row is left for this point.
NextPoint ==
  /\ ui = "selecting" /\ point <= Points /\ Ahead = {}
  /\ point' = point + 1 /\ cursor' = <<0, 0>>
  /\ UNCHANGED <<vars, seen, before>>

\* executeStep throws; like any failing statement it may end the open transaction.
StepFails ==
  /\ ui = "selecting" /\ point <= Points
  /\ ExecFails
  /\ disturbed' = IF inTxn /\ ~inTxn' THEN disturbed \cup {forecastId} ELSE disturbed
  /\ ui' = "idle" /\ Finalize
  /\ UNCHANGED <<depthLeft, issued, acked, exposed, taskVars, threadVars>>

EndSelect ==
  /\ ui = "selecting" /\ point > Points
  /\ ui' = "idle" /\ Finalize
  /\ UNCHANGED <<connVars, depthLeft, issued, acked, exposed, taskVars, threadVars, disturbed>>

Select == StartSelect \/ StepRow \/ NextPoint \/ StepFails \/ EndSelect

CheckNext ==
  \/ Select
  \/ Next /\ IF ui' = "selecting" THEN UNCHANGED checkVars ELSE Finalize

CheckSpec == CheckInit /\ [][CheckNext]_allVars

\* Both threads are scheduled.  Nothing says that an HTTP request returns, for the client
\* sets no timeout: PostReturns is left unfair.  That a statement fails is not relied on
\* where the code can go on.
CheckFairSpec ==
  /\ CheckSpec
  /\ WF_allVars(TaskContinues /\ UNCHANGED checkVars)
  /\ WF_allVars((UiContinues /\ UNCHANGED checkVars) \/ StepRow \/ NextPoint \/ EndSelect)

-----------------------------------------------------------------------------
Seen(p, f) == {t[3] : t \in {u \in seen : u[1] = p /\ u[2] = f}}

\* The points whose rows have all been read.
Scanned == IF ui = "selecting" THEN 1 .. point - 1 ELSE {}

\* A forecast whose load was over when the SELECT began is seen whole, at every point,
\* whatever is being written or rolled back meanwhile.
CompletedBeforeIsSeen ==
  \A p \in Scanned, f \in before : Seen(p, f) = 1 .. handed[f]

\* Of the loads before the latest no point gets a row but from those that were complete
\* when the SELECT began.  Only the latest one, running or just failed, can be seen without
\* being stored: in part, by one point more than by another, and it may be rolled back
\* afterwards; but what a point sees of it are its first records, without a gap.  (Not of a
\* load whose transaction a failing statement of the UI thread ended.)
OnlyLoadingIsTransient ==
  \A p \in Scanned, f \in (1 .. lastId) \ (before \cup disturbed) :
    Seen(p, f) = IF f = forecastId THEN 1 .. Cardinality(Seen(p, f)) ELSE {}

\* A load whose requests were answered ends, whatever fails after that, so that the button
\* works again.  (One whose server never answers refuses every later click.)
LoadEnds == worker \in Working \ {"post"} ~> worker \notin Working

\* The window comes back: from the join in Load, from a depth load, and from a SELECT
\* although rows are added ahead of it, even while a request is never answered; and from the
\* destructor's join unless it is such a request that the destructor waits for.
HandlersEnd ==
  /\ \A place \in {"joining", "depth", "selecting"} : ui = place ~> ui # place
  /\ ui = "closing" /\ worker # "post" ~> ui # "closing"

=============================================================================
