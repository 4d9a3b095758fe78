---------------------------- MODULE BestRouteMaker ----------------------------
(***************************************************************************)
(* cases/best_route_maker.cpp with cases/scorers/time_scorer.cpp: the best *)
(* route is searched with Dijkstra's algorithm on the points of a grid.    *)
(* The grid, the dangerous points and the forecasts are read before the    *)
(* search and do not change during it.  One step is one turn of a loop.    *)
(***************************************************************************)
EXTENDS ForecastAccessor, FiniteSets

CONSTANTS
  Points,            \* ids of the points of the FindRouteGrid
  Adj,               \* GetAdjencyPointIds
  WaveHeights,       \* wave heights the forecasts speak of
  Forecasts,         \* what SelectClosestForecasts returned for each point
  Duration(_, _, _), \* seconds from a point to another, in waves of a height
  DangerChoices,     \* the sets of points that may have a shallow near them
  Routes,            \* the routes that may be selected: sequences of segments
  DepartTime,        \* the departure time the user entered
  kMaxScore          \* IScorer::kMaxScore, 1e12 in the code

ASSUME PointsAssumption == Points \subseteq Nat /\ IsFiniteSet(Points)

\* No point of the grid is its own neighbour.
ASSUME AdjAssumption == /\ Adj \in [Points -> SUBSET Points]
                        /\ \A p \in Points : p \notin Adj[p]

\* select_closest_forecasts.sql: no forecast that ends before the departure.
ASSUME ForecastsAssumption ==
  /\ 0 \in WaveHeights
  /\ Forecasts \in [Points -> Seq([end_at : Nat, wave : WaveHeights])]
  /\ \A p \in Points : \A i \in DOMAIN Forecasts[p] :
       Forecasts[p][i].end_at >= DepartTime

\* The speed is positive.  (The form accepts other values; the code then divides
\* by zero or gets negative scores.)
ASSUME DurationAssumption ==
  \A p, q \in Points, w \in WaveHeights : Duration(p, q, w) \in Nat

ASSUME InputAssumption ==
  /\ kMaxScore \in Nat \ {0}
  /\ DepartTime \in Nat
  /\ \A D \in DangerChoices : D \subseteq Points
  /\ Routes \subseteq Seq([start : Points, end : Points]) \ {<<>>}

VARIABLES
  route, danger,  \* the selected route; danger_depth_points_
  pc,             \* the loop the function is in
  dp, expected_time, prev, order,
  result,         \* the points of the route found so far, in sailing order
  point_id,       \* cursor of the loop that rebuilds the route
  settled         \* history: the points whose neighbours were looked at

inputVars == <<route, danger>>
labelVars == <<dp, expected_time, prev>>
vars == <<inputVars, labelVars, pc, order, result, point_id, settled>>

\* GetSegments()[0], each end moved to the closest point of the grid.
StartId == route[1].start
EndId == route[1].end

NoPoint == -1

-----------------------------------------------------------------------------
\* The time a leg takes, with the forecast of its first point.
Travel(p, q, depart_time) ==
  Duration(p, q, GetClosestForecast(Forecasts[p], depart_time).wave)

\* Faulty variants: danger is marked by -1; the wrong end of the leg is looked at.
GetScoreMarked(p, q, depart_time) ==
  IF q \in danger THEN -1 ELSE Travel(p, q, depart_time)
GetScoreOfStart(p, q, depart_time) ==
  IF p \in danger THEN kMaxScore ELSE Travel(p, q, depart_time)

\* A point with a shallow near it costs so much that it is never entered.
GetScore(p, q, depart_time) ==
  IF q \in danger THEN kMaxScore ELSE Travel(p, q, depart_time)

GetArrivalTime(p, q, depart_time) == depart_time + Travel(p, q, depart_time)

-----------------------------------------------------------------------------
\* MakeBestRoute up to the search.  A route of several segments is not refused:
\* the exception for it is built and never thrown.
Init ==
  /\ route \in Routes /\ danger \in DangerChoices
  /\ pc = "search"
  /\ dp = [p \in Points |-> IF p = StartId THEN 0 ELSE kMaxScore]
  /\ expected_time = [p \in Points |-> 0]
  /\ prev = [p \in Points |-> NoPoint]
  /\ order = {<<0, StartId>>}
  /\ result = <<>> /\ point_id = EndId /\ settled = {}

\* Faulty variant: the queue without std::greater.
IsTopGreatest(e) ==
  /\ e \in order
  /\ \A f \in order : e[1] > f[1] \/ (e[1] = f[1] /\ e[2] >= f[2])

\* order.top(): the pairs <<score, point>> are compared lexicographically.
IsTop(e) ==
  /\ e \in order
  /\ \A f \in order : e[1] < f[1] \/ (e[1] = f[1] /\ e[2] <= f[2])

IsStale(e) == dp[e[2]] # e[1]

\* continue: the point got a better score after this entry was pushed.
PopStale ==
  /\ pc = "search"
  /\ \E e \in order : IsTop(e) /\ IsStale(e) /\ order' = order \ {e}
  /\ UNCHANGED <<inputVars, labelVars, pc, result, point_id, settled>>

\* Faulty variant: the search stops as soon as the end has a label.
StopSearchEarly ==
  /\ pc = "search"
  /\ order = {} \/ EndId = StartId \/ prev[EndId] # NoPoint
  /\ pc' = "rebuild"
  /\ UNCHANGED <<inputVars, labelVars, order, result, point_id, settled>>

\* break: the end is reached, or nothing is left to look at.
StopSearch ==
  /\ pc = "search"
  /\ \/ order = {} /\ UNCHANGED order
     \/ \E e \in order : /\ IsTop(e) /\ ~IsStale(e) /\ e[2] = EndId
                         /\ order' = order \ {e}
  /\ pc' = "rebuild"
  /\ UNCHANGED <<inputVars, labelVars, result, point_id, settled>>

\* The score of q by way of p, when p is reached with a score.
ScoreVia(score, p, q) == score + GetScore(p, q, expected_time[p])

\* Faulty variants: equal scores count as better; a labelled point keeps its
\* first label.
ImprovedOrEqual(score, p) == {q \in Adj[p] : dp[q] >= ScoreVia(score, p, q)}
ImprovedOnce(score, p) ==
  {q \in Adj[p] : dp[q] = kMaxScore /\ kMaxScore > ScoreVia(score, p, q)}

\* The neighbours of p that get a better score.
Improved(score, p) == {q \in Adj[p] : dp[q] > ScoreVia(score, p, q)}

\* The new labels of the neighbours of p that get a better score.
Relax(score, p, better) ==
  /\ dp' = [q \in Points |-> IF q \in better THEN ScoreVia(score, p, q) ELSE dp[q]]
  /\ prev' = [q \in Points |-> IF q \in better THEN p ELSE prev[q]]
  /\ expected_time' = [q \in Points |->
       IF q \in better THEN GetArrivalTime(p, q, expected_time[p])
                       ELSE expected_time[q]]

\* The loop over the neighbours of the point on top.  Each neighbour is looked
\* at once and none is the point itself, so their order makes no difference.
Expand ==
  /\ pc = "search"
  /\ \E e \in order :
       LET score == e[1]
           p == e[2]
           better == Improved(score, p)
       IN  /\ IsTop(e) /\ ~IsStale(e) /\ p # EndId
           /\ Relax(score, p, better)
           /\ order' = (order \ {e}) \cup {<<ScoreVia(score, p, q), q>> : q \in better}
           /\ settled' = settled \cup {p}
  /\ UNCHANGED <<inputVars, pc, result, point_id>>

\* Faulty variant: the list is not reversed.
RebuildBackwards ==
  /\ pc = "rebuild" /\ point_id # NoPoint
  /\ result' = Append(result, point_id)
  /\ point_id' = prev[point_id]
  /\ UNCHANGED <<inputVars, labelVars, pc, order, settled>>

\* Back from the end along prev; the code reverses the list when it is complete.
Rebuild ==
  /\ pc = "rebuild" /\ point_id # NoPoint
  /\ result' = <<point_id>> \o result
  /\ point_id' = prev[point_id]
  /\ UNCHANGED <<inputVars, labelVars, pc, order, settled>>

Return ==
  /\ pc = "rebuild" /\ point_id = NoPoint
  /\ pc' = "done"
  /\ UNCHANGED <<inputVars, labelVars, order, result, point_id, settled>>

Next == PopStale \/ StopSearch \/ Expand \/ Rebuild \/ Return

Spec == Init /\ [][Next]_vars
FairSpec == Spec /\ WF_vars(Next)

-----------------------------------------------------------------------------
Reached == {p \in Points : p = StartId \/ prev[p] # NoPoint}

\* The type invariant.
TypeOK ==
  /\ route \in Routes /\ danger \in DangerChoices
  /\ pc \in {"search", "rebuild", "done"}
  /\ dp \in [Points -> Nat]
  /\ expected_time \in [Points -> Nat]
  /\ prev \in [Points -> Points \cup {NoPoint}]
  /\ order \subseteq Nat \X Points
  /\ result \in Seq(Points)
  /\ point_id \in Points \cup {NoPoint}
  /\ settled \subseteq Points

\* The search never labels a point with a shallow near it, whatever way round
\* costs: only the start may be one.
NeverIntoDanger == Reached \cap danger \subseteq {StartId}

\* Every label is a real way: the score of a reached point is the score of the
\* settled neighbour it was reached from and the time of the leg between them.
LabelsAreWays ==
  \A q \in Reached \ {StartId} :
    /\ prev[q] \in settled
    /\ q \in Adj[prev[q]]
    /\ dp[q] = ScoreVia(dp[prev[q]], prev[q], q)

\* No leg out of a settled point would improve a label.
NothingToImprove ==
  \A p \in settled : \A q \in Adj[p] : dp[q] <= ScoreVia(dp[p], p, q)

\* The times the scorer is given are seconds since the departure, not the clock
\* time the forecasts are stored with: DepartTime does not enter them.
TimesAreElapsed == \A p \in Reached : expected_time[p] = dp[p]

\* What the labels are worth while the search runs.
LabelsAreSound == LabelsAreWays /\ NothingToImprove /\ TimesAreElapsed

\* A settled point keeps its score, its time and the way it was reached.
KeepSettled == \A p \in settled : /\ dp'[p] = dp[p]
                                  /\ prev'[p] = prev[p]
                                  /\ expected_time'[p] = expected_time[p]
SettledIsFinal == [][KeepSettled]_vars

\* What MakeBestRoute returns is a way from the start to the end over
\* neighbouring points, none but the start near a shallow; or, when there is
\* no such way, the bare end.
RouteIsSound ==
  pc = "done" =>
    /\ result[Len(result)] = EndId
    /\ \/ result[1] = StartId
       \/ Len(result) = 1 /\ EndId \notin Reached
    /\ \A i \in 1 .. Len(result) - 1 :
         /\ result[i + 1] \in Adj[result[i]]
         /\ result[i + 1] \notin danger

\* One leg more than some ways have, into no danger, at the speed of a calm sea.
OneMoreLeg(ways) ==
  UNION {{<<q, way[2] + Duration(way[1], q, 0)>> : q \in Adj[way[1]] \ danger} : way \in ways}

\* Calm[n]: the ends and the times of the ways of at most n legs from the start
\* that enter no danger, as if no forecast was ever stored.
Calm[n \in Nat] ==
  IF n = 0 THEN {<<StartId, 0>>} ELSE Calm[n - 1] \cup OneMoreLeg(Calm[n - 1])

\* A time of sailing for which, read as a clock time, every stored forecast is still
\* too far in the future: in the code, every voyage of less than some fifty years.
IsPresent(t) == t < kMaxScore /\ t + kTooLate < DepartTime

\* The returned route is one of the fastest, among all ways of the grid, at the
\* speed of a CALM sea: the forecasts have no influence on it.
ReturnsFastestCalmRoute ==
  pc = "done" =>
    LET times == {way[2] : way \in {w \in Calm[Cardinality(Points) - 1] : w[1] = EndId}}
    IN  /\ EndId \in Reached /\ IsPresent(dp[EndId]) => dp[EndId] \in times
        /\ \A t \in times : IsPresent(t) => EndId \in Reached /\ dp[EndId] <= t

\* The function returns: the search ends and prev has no cycle.
Terminates == <>(pc = "done")

\* "route must have only one segment", says the exception MakeBestRoute builds: a
\* way is returned for no other route.
RouteHasOneSegment == pc = "done" => Len(route) = 1

=============================================================================
