-------------------------- MODULE BestRouteBuilderPanel --------------------------
(***************************************************************************)
(* dialogs/panels/best_route_builder.cpp with its two SelectRoutePanels:   *)
(* the user picks a zone and a route by name and clicks "Make best route". *)
(* No handler here catches anything: an exception ends the program.  Of    *)
(* the way that is found we keep the ends; the points between are those of *)
(* BestRouteMaker.                                                         *)
(***************************************************************************)
EXTENDS Integers, Sequences, FiniteSets, SequencesExt

CONSTANTS
  Charts,       \* the routes the user has drawn: name, waypoints ([x, y])
  Forms,        \* the ship form: danger_height, speed, each <<a number>> or NoValue
  kStep, kMaxCheckCount, kMaxVertexCount,
  MaxResults    \* BOUND: routes the panel has added and nobody has deleted

ASSUME StepAssumption == kStep \in Nat \ {0} /\ kMaxCheckCount \in Nat /\ kMaxVertexCount \in Nat
ASSUME ChartsAssumption == Charts \subseteq Seq([name : STRING, waypoints : Seq([x : Int, y : Int])])

VARIABLES
  drawings, results,             \* the routes on the chart, by the user and by the panel
  zone_list, zone, route_list, route,   \* of the two panels: the lines and GetSelection
  form,
  ended,                         \* "no", or by "exception", "database" or "undefined" behaviour
  asked                          \* history: the bounds and the leg of the search just made
lists == <<zone_list, zone, route_list, route>>
vars == <<drawings, results, lists, form, ended, asked>>

NotFound == 0    \* wxNOT_FOUND
NoValue == <<>>  \* a field that is empty or no number
Nameless == ""
NoSearch == [bounds |-> <<>>, leg |-> <<>>]

Grid == INSTANCE FindRouteGrid WITH
  Polygons <- {}, drawn <- <<>>, grid <- [points |-> {}, adjacency_list_ |-> <<>>]

\* MakeRouteFromBestRouteResult gives the route no name.
Chart == drawings \o [i \in DOMAIN results |-> [name |-> Nameless, waypoints |-> results[i]]]
GetRouteNames == [i \in DOMAIN Chart |-> Chart[i].name]

\* The waypoints of ALL routes of the name, one after another.
GetWaypoints(name) ==
  FlattenSeq([i \in DOMAIN Chart |-> IF Chart[i].name = name THEN Chart[i].waypoints ELSE <<>>])

\* The lists of a new panel are empty.
Init ==
  /\ drawings \in Charts /\ form \in Forms /\ results = <<>>
  /\ zone_list = <<>> /\ zone = NotFound /\ route_list = <<>> /\ route = NotFound
  /\ ended = "no" /\ asked = NoSearch

OnRefresh ==
  /\ \/ zone_list' = GetRouteNames /\ zone' = NotFound /\ UNCHANGED <<route_list, route>>
     \/ route_list' = GetRouteNames /\ route' = NotFound /\ UNCHANGED <<zone_list, zone>>
  /\ asked' = NoSearch /\ UNCHANGED <<drawings, results, form, ended>>

SelectLine ==
  /\ \/ zone' \in DOMAIN zone_list /\ UNCHANGED route
     \/ route' \in DOMAIN route_list /\ UNCHANGED zone
  /\ asked' = NoSearch /\ UNCHANGED <<drawings, results, zone_list, route_list, form, ended>>

\* In the chart plotter's own windows; what the panel added can be deleted there too.
HostEditsChart ==
  /\ drawings' \in Charts /\ results' \in {results, <<>>}
  /\ asked' = NoSearch /\ UNCHANGED <<lists, form, ended>>

EditForm ==
  /\ form' \in Forms
  /\ asked' = NoSearch /\ UNCHANGED <<drawings, results, lists, ended>>

\* Faulty variant: the last leg of the route.
GetSegmentLast(waypoints) == SubSeq(waypoints, Len(waypoints) - 1, Len(waypoints))

\* GetSegments()[0].
GetSegment(waypoints) == SubSeq(waypoints, 1, 2)

\* Faulty variant: the limit on the columns is compared with >= instead of >.
MakeGridStrict(bounds) ==
  LET xs == {Grid!Truncate(bounds[i].x) : i \in DOMAIN bounds}
  IN  IF \E a, b \in xs : a - b + 1 >= kMaxCheckCount THEN Grid!NoGrid ELSE Grid!MakeGrid(bounds)

\* Faulty variant: the grid is a column off.
MakeGridShifted(bounds) ==
  Grid!MakeGrid([i \in DOMAIN bounds |-> [x |-> bounds[i].x + kStep, y |-> bounds[i].y]])

\* The constructor throws, for bounds that are too big and for none.
MakeFindRouteGrid(bounds) == Grid!MakeGrid(bounds)

\* TimeScorer asks for the danger height; a form without speed is left unread as a
\* whole, after a message.
CanScore == form.danger_height # NoValue /\ form.speed # NoValue

\* The form lets every number from -1e5 to 1e5 through.
CanSail == form.speed[1] > 0

\* The search asks for no score where it starts at its end.
IsThere(points, leg) == Grid!GetClosestPoint(points, leg[1]) = Grid!GetClosestPoint(points, leg[2])

\* The end points of the way, in the coordinates of the chart; without a way the end alone.
Ways(points, leg) ==
  LET At(p) == [x |-> p.x * kStep, y |-> p.y * kStep]
      start == At(Grid!GetClosestPoint(points, leg[1]))
      end == At(Grid!GetClosestPoint(points, leg[2]))
  IN  {<<end>>, IF start = end THEN <<end>> ELSE <<start, end>>}

\* Nothing selected is a message.  Otherwise, in this order: the grid throws; the
\* route has no segment, whose first one is then read through a null pointer; a
\* value is missing, or a SELECT fails; or one more route is added to the chart.  For a
\* ship that does not sail forwards a score is a quotient by zero, or the scores fall
\* without an end; or it comes to a route all the same, by luck or because every
\* neighbour is shallow.
OnMakeBestRoute ==
  /\ zone # NotFound /\ route # NotFound /\ Len(results) < MaxResults
  /\ LET bounds == GetWaypoints(zone_list[zone])
         waypoints == GetWaypoints(route_list[route])
         grid == MakeFindRouteGrid(bounds)
     IN  \/ grid.points = {} /\ ended' = "exception" /\ asked' = NoSearch /\ UNCHANGED results
         \/ grid.points # {} /\ Len(waypoints) < 2 /\ ended' = "undefined" /\ asked' = NoSearch /\ UNCHANGED results
         \/ /\ grid.points # {} /\ Len(waypoints) >= 2
            /\ asked' = [bounds |-> bounds, leg |-> GetSegment(waypoints)]
            /\ \/ ~CanScore /\ ended' = "exception" /\ UNCHANGED results
               \/ CanScore /\ ended' = "database" /\ UNCHANGED results
               \/ CanScore /\ ~CanSail /\ ~IsThere(grid.points, asked'.leg) /\ ended' = "undefined" /\ UNCHANGED results
               \/ /\ CanScore /\ UNCHANGED ended
                  /\ \E way \in Ways(grid.points, asked'.leg) : results' = Append(results, way)
  /\ UNCHANGED <<drawings, lists, form>>

Next ==
  /\ ended = "no"
  /\ OnRefresh \/ SelectLine \/ HostEditsChart \/ EditForm \/ OnMakeBestRoute

Spec == Init /\ [][Next]_vars

-----------------------------------------------------------------------------
Named(name) == {i \in DOMAIN Chart : Chart[i].name = name}

\* The leg that is searched is the first leg of ONE route on the chart, however old
\* the list and however many routes share the name, the panel's own nameless ones
\* included; unless one of these routes is a single point, as the panel adds it
\* where there is no way: then it is glued to the next.
LegIsDrawn ==
  [][ asked' # NoSearch =>
        LET named == Named(route_list[route])
        IN  \/ \E i \in named : asked'.leg = SubSeq(Chart[i].waypoints, 1, 2)
            \/ \E i \in named : Len(Chart[i].waypoints) < 2 ]_vars

Squared(p, q) == (p.x - q.x) * (p.x - q.x) + (p.y - q.y) * (p.y - q.y)

\* A corner as the grid has it, in the coordinates of the chart.
Corner(c) == [x |-> Grid!Truncate(c.x) * kStep, y |-> Grid!Truncate(c.y) * kStep]

\* A route the panel adds stays within a step of the bounds that were picked, and ends
\* as near to the end of the leg as any corner of them.
ResultIsInZone ==
  [][ Len(results') > Len(results) =>
        LET result == Last(results')
            bounds == asked'.bounds
        IN  /\ \A k \in DOMAIN result : \A axis \in {"x", "y"} : \E i, j \in DOMAIN bounds :
                 bounds[i][axis] - kStep < result[k][axis] /\ result[k][axis] < bounds[j][axis] + kStep
            /\ \A i \in DOMAIN bounds :
                 Squared(asked'.leg[2], Last(result)) <= Squared(asked'.leg[2], Corner(bounds[i])) ]_vars

\* The largest distance of two corners on an axis, and the whole steps that touches.
Extent(bounds, axis) ==
  LET cs == {bounds[i][axis] : i \in DOMAIN bounds}
  IN  CHOOSE e \in {c - d : c, d \in cs} : \A c, d \in cs : c - d <= e
Steps(bounds, axis) == Extent(bounds, axis) \div kStep + 1

\* With a full form and a positive speed, a route of two waypoints and a zone that as it
\* is DRAWN spans fewer steps than the limits allow, only the database can end the program.
SoundInputIsSearched ==
  [][ ended' \in {"exception", "undefined"} =>
        LET bounds == GetWaypoints(zone_list[zone])
        IN  \/ form.danger_height = NoValue \/ form.speed = NoValue \/ ~CanSail
            \/ Len(GetWaypoints(route_list[route])) < 2
            \/ bounds = <<>>
            \/ Steps(bounds, "x") >= kMaxCheckCount \/ Steps(bounds, "y") >= kMaxCheckCount
            \/ (Steps(bounds, "x") + 1) * (Steps(bounds, "y") + 1) > kMaxVertexCount ]_vars

=============================================================================
