---------------------- MODULE BestRouteBuilderPanel_proofs ----------------------
(***************************************************************************)
(* Theorems about BestRouteBuilderPanel, for every chart, form, step and   *)
(* limit of the grid: what is searched is what was drawn, what is found    *)
(* lies where it was drawn, and what the program can end of.               *)
(***************************************************************************)
EXTENDS BestRouteBuilderPanel, InductionLemmas, FiniteSetTheorems, TLAPS

\* The lemmas about the grid.
G == INSTANCE FindRouteGrid_proofs WITH
  Polygons <- {}, drawn <- <<>>, grid <- [points |-> {}, adjacency_list_ |-> <<>>]

Point == [x : Int, y : Int]
Corners == Seq(Point)

\* What the user drew, and what the panel added, has whole coordinates.
ChartInv == drawings \in Charts /\ results \in Seq(Corners)

-----------------------------------------------------------------------------
(* The look-up by name.                                                    *)

\* Every route on the chart, the panel's own included, is one of corners.
LEMMA ChartType ==
  ASSUME ChartInv
  PROVE  /\ DOMAIN Chart = 1 .. Len(Chart) /\ Len(Chart) \in Nat
         /\ \A i \in DOMAIN Chart : Chart[i].waypoints \in Corners
<1> DEFINE R == [name : STRING \cup {Nameless}, waypoints : Corners]
           added == [i \in DOMAIN results |-> [name |-> Nameless, waypoints |-> results[i]]]
<1>1. drawings \in Seq(R)
  <2> DEFINE Drawn == [name : STRING, waypoints : Corners]
  <2>1. drawings \in Seq(Drawn)
    BY ChartsAssumption DEF ChartInv, Corners, Point
  <2>2. Drawn \subseteq R
    OBVIOUS
  <2> HIDE DEF Drawn, R
  <2> QED BY <2>1, <2>2
<1>2. results \in Seq(Corners) /\ DOMAIN results = 1 .. Len(results) /\ Len(results) \in Nat
  BY DEF ChartInv
<1>3. \A i \in DOMAIN results : results[i] \in Corners
  BY <1>2, ElementType
<1>4. \A i \in DOMAIN results : added[i] \in R
  BY <1>3
<1>5. added \in Seq(R)
  <2> HIDE DEF R
  <2>1. added \in [1 .. Len(results) -> R]
    BY <1>2, <1>4
  <2> HIDE DEF added
  <2> QED BY <1>2, <2>1
<1> HIDE DEF added
<1>6. drawings \o added \in Seq(R)
  <2> HIDE DEF R
  <2> QED BY <1>1, <1>5
<1>7. Chart \in Seq(R)
  BY <1>6 DEF Chart, added
<1>8. \A i \in DOMAIN Chart : Chart[i] \in R
  BY <1>7, ElementType
<1>9. \A r \in R : r.waypoints \in Corners
  OBVIOUS
<1>10. DOMAIN Chart = 1 .. Len(Chart) /\ Len(Chart) \in Nat
  <2> HIDE DEF R
  <2> QED BY <1>7
<1> QED BY <1>8, <1>9, <1>10

\* What a name stands for.
Parts(name) == [i \in DOMAIN Chart |-> IF Chart[i].name = name THEN Chart[i].waypoints ELSE <<>>]

\* A look-up joins them.
LEMMA PartsType ==
  ASSUME ChartInv, NEW name
  PROVE  /\ Parts(name) \in Seq(Corners) /\ DOMAIN Parts(name) = DOMAIN Chart
         /\ GetWaypoints(name) = FlattenSeq(Parts(name))
         /\ GetWaypoints(name) \in Corners
<1>1. DOMAIN Chart = 1 .. Len(Chart) /\ Len(Chart) \in Nat
  BY ChartType
<1>2. \A i \in DOMAIN Chart : Parts(name)[i] \in Corners
  BY ChartType, EmptyElements DEF Parts, Corners
<1>3. Parts(name) \in [1 .. Len(Chart) -> Corners]
  BY <1>1, <1>2 DEF Parts
<1>4. Parts(name) \in Seq(Corners) /\ DOMAIN Parts(name) = DOMAIN Chart
  BY <1>1, <1>3
<1>5. GetWaypoints(name) = FlattenSeq(Parts(name))
  BY DEF GetWaypoints, Parts
<1>6. FlattenSeq(Parts(name)) \in Corners
  BY <1>4, FlattenElements DEF Corners
<1> QED BY <1>4, <1>5, <1>6

\* The first leg of what a name stands for is that of the first route of the name, if
\* this one has a leg.
LEMMA FirstLeg ==
  ASSUME ChartInv, NEW name, Len(GetWaypoints(name)) >= 2,
         \A i \in Named(name) : Len(Chart[i].waypoints) >= 2
  PROVE  \E i \in Named(name) : GetSegment(GetWaypoints(name)) = SubSeq(Chart[i].waypoints, 1, 2)
<1> DEFINE parts == Parts(name)
           flat == GetWaypoints(name)
<1>1. /\ parts \in Seq(Corners) /\ DOMAIN parts = DOMAIN Chart
      /\ flat = FlattenSeq(parts) /\ flat \in Corners
  BY PartsType
<1>2. DOMAIN Chart = 1 .. Len(Chart) /\ Len(Chart) \in Nat
  BY ChartType
<1>3. /\ \A i \in Named(name) : parts[i] = Chart[i].waypoints
      /\ \A i \in DOMAIN Chart \ Named(name) : parts[i] = <<>>
  BY DEF Parts, Named
<1>4. Named(name) # {}
  <2> SUFFICES ASSUME Named(name) = {} PROVE FALSE
    OBVIOUS
  <2> HIDE DEF parts, flat
  <2>1. \A i \in DOMAIN parts : ToSet(parts[i]) = {}
    BY <1>1, <1>3, EmptyElements
  <2>2. ToSet(flat) = {}
    <3>1. UNION {ToSet(parts[i]) : i \in DOMAIN parts} = {}
      BY <2>1
    <3> QED BY <1>1, <3>1, FlattenElements DEF Corners
  <2>3. 1 \in DOMAIN flat
    BY <1>1 DEF flat, Corners
  <2> QED BY <2>2, <2>3 DEF ToSet
<1>5. PICK m \in Named(name) : \A i \in Named(name) : m <= i
  <2>1. Named(name) \subseteq Nat
    BY <1>2 DEF Named
  <2> QED BY <1>4, <2>1, NatMinimum
<1>6. m \in DOMAIN parts /\ \A i \in 1 .. m - 1 : parts[i] = <<>>
  <2>1. m \in 1 .. Len(Chart) /\ Named(name) \subseteq 1 .. Len(Chart)
    BY <1>2 DEF Named
  <2>2. \A i \in 1 .. m - 1 : i \in DOMAIN Chart /\ i \notin Named(name)
    BY <1>2, <1>5, <2>1
  <2> HIDE DEF parts
  <2> QED BY <1>1, <1>2, <1>3, <2>1, <2>2
<1> DEFINE first == Chart[m].waypoints
<1>7. parts[m] = first /\ first \in Corners /\ Len(first) >= 2
  BY <1>3, <1>6, <1>1, ChartType
<1>8. StartsWith(flat, first)
  <2> HIDE DEF parts, first
  <2> QED BY <1>1, <1>6, <1>7, FlattenStarts DEF Corners
<1> HIDE DEF parts, flat, first
<1>9. flat[1] = first[1] /\ flat[2] = first[2] /\ Len(first) \in Nat /\ Len(flat) \in Nat /\ Len(flat) >= 2
  <2>1. Len(first) \in Nat /\ Len(flat) \in Nat
    BY <1>1, <1>7 DEF Corners
  <2>2. 1 \in 1 .. Len(first) /\ 2 \in 1 .. Len(first)
    BY <1>7, <2>1
  <2> QED BY <1>8, <2>1, <2>2 DEF StartsWith, flat
<1>10. SubSeq(flat, 1, 2) = SubSeq(first, 1, 2)
  BY <1>1, <1>7, <1>9, FirstTwo DEF Corners, flat
<1> QED BY <1>10 DEF GetSegment, flat, first

-----------------------------------------------------------------------------
(* The grid, as FindRouteGrid_proofs has it.                               *)

\* The panel's instance of FindRouteGrid and the one of its theorems say the same.
LEMMA SameCardinality == ASSUME NEW S PROVE Grid!Cardinality(S) = G!Cardinality(S)
BY DEF Grid!Cardinality, G!Cardinality

LEMMA GridPointsAre ==
  ASSUME NEW bounds
  PROVE  /\ bounds # <<>> /\ ~Grid!IsTooBig(Grid!IntPolygon(bounds)) =>
              Grid!MakeGrid(bounds).points = G!GridPoints(G!IntPolygon(bounds))
         /\ bounds = <<>> \/ Grid!IsTooBig(Grid!IntPolygon(bounds)) => Grid!MakeGrid(bounds).points = {}
         /\ Grid!IntPolygon(bounds) = G!IntPolygon(bounds)
<1>1. Grid!IntPolygon(bounds) = G!IntPolygon(bounds)
  BY DEF Grid!IntPolygon, G!IntPolygon, Grid!Truncate, G!Truncate
<1>2. ASSUME NEW polygon PROVE Grid!GridPoints(polygon) = G!GridPoints(polygon)
  <2>1. Grid!Box(polygon) = G!Box(polygon)
    BY DEF Grid!Box, G!Box, Grid!Span, G!Span
  <2>2. ASSUME NEW p PROVE Grid!IsInsidePolygon(polygon, p) <=> G!IsInsidePolygon(polygon, p)
    <3>1. \A i : Grid!Previous(polygon, i) = G!Previous(polygon, i)
      BY DEF Grid!Previous, G!Previous
    <3>2. \A a, b : Grid!Crosses(a, b, p) <=> G!Crosses(a, b, p)
      BY DEF Grid!Crosses, G!Crosses
    <3>3. \A a, b : Grid!OnHorizontal(a, b, p) <=> G!OnHorizontal(a, b, p)
      BY DEF Grid!OnHorizontal, G!OnHorizontal
    <3> DEFINE mine == {i \in DOMAIN polygon : Grid!Crosses(polygon[i], Grid!Previous(polygon, i), p)}
               theirs == {i \in DOMAIN polygon : G!Crosses(polygon[i], G!Previous(polygon, i), p)}
               Mine == \E i \in DOMAIN polygon :
                         polygon[i] = p \/ Grid!OnHorizontal(polygon[i], Grid!Previous(polygon, i), p)
               Theirs == \E i \in DOMAIN polygon :
                           polygon[i] = p \/ G!OnHorizontal(polygon[i], G!Previous(polygon, i), p)
    <3>4. mine = theirs
      BY <3>1, <3>2
    <3>5. Mine <=> Theirs
      BY <3>1, <3>3
    <3>6. Grid!IsInsidePolygon(polygon, p) <=> (Mine \/ Grid!Cardinality(mine) % 2 = 1)
      BY DEF Grid!IsInsidePolygon
    <3>7. G!IsInsidePolygon(polygon, p) <=> (Theirs \/ G!Cardinality(theirs) % 2 = 1)
      BY DEF G!IsInsidePolygon
    <3> HIDE DEF mine, theirs, Mine, Theirs
    <3> QED BY <3>4, <3>5, <3>6, <3>7, SameCardinality
  <2> QED BY <2>1, <2>2 DEF Grid!GridPoints, G!GridPoints
<1> QED BY <1>1, <1>2 DEF Grid!MakeGrid, Grid!NoGrid

LEMMA ClosestIs ==
  ASSUME NEW points, NEW c
  PROVE  Grid!GetClosestPoint(points, c) = G!GetClosestPoint(points, c)
BY DEF Grid!GetClosestPoint, G!GetClosestPoint, Grid!SquaredDistance, G!SquaredDistance,
       Grid!Before, G!Before

\* The assumption on the step is the grid's.
LEMMA GridAssumed == kStep \in Nat \ {0} /\ \A polygon \in {} : polygon \in Seq([x : Int, y : Int])
BY StepAssumption

-----------------------------------------------------------------------------
(* The click.                                                              *)

\* Only the click does more than edit what is on the chart and in the lists.
LEMMA NextCases ==
  ASSUME [Next]_vars
  PROVE  \/ OnMakeBestRoute /\ ended = "no"
         \/ /\ results' \in {results, <<>>} /\ ended' = ended
            /\ asked' = NoSearch \/ asked' = asked
            /\ drawings' = drawings \/ drawings' \in Charts
BY DEF Next, OnRefresh, SelectLine, HostEditsChart, EditForm, vars, lists

\* Bounds that MakeFindRouteGrid takes: the points are whole, the corners are among
\* them, and none is a step or more outside.
LEMMA GridOfBounds ==
  ASSUME NEW bounds \in Corners, Grid!MakeGrid(bounds).points # {}
  PROVE  LET points == Grid!MakeGrid(bounds).points
         IN  /\ points \subseteq Point
             /\ \A i \in DOMAIN bounds :
                  [x |-> Grid!Truncate(bounds[i].x), y |-> Grid!Truncate(bounds[i].y)] \in points
             /\ \A p \in points : \A axis \in {"x", "y"} : \E i, j \in DOMAIN bounds :
                  /\ bounds[i][axis] - kStep < p[axis] * kStep
                  /\ p[axis] * kStep < bounds[j][axis] + kStep
<1> DEFINE points == Grid!MakeGrid(bounds).points
           polygon == G!IntPolygon(bounds)
<1>1. points = G!GridPoints(polygon) /\ polygon = Grid!IntPolygon(bounds)
  BY GridPointsAre
<1>2. bounds \in G!Corners
  BY DEF Corners, Point, G!Corners
<1> HIDE DEF points
<1>3. \A p \in points : p \in Point
  <2> SUFFICES ASSUME NEW p \in points PROVE p \in Point
    OBVIOUS
  <2>1. p.x \in Int /\ p.y \in Int
    BY <1>1, GridAssumed, G!PointsAreIntegral
  <2>2. \E X, Y : p \in [x : X, y : Y]
    BY <1>1 DEF G!GridPoints, G!Box
  <2> QED BY <2>1, <2>2 DEF Point
<1>4. \A i \in DOMAIN bounds :
        [x |-> Grid!Truncate(bounds[i].x), y |-> Grid!Truncate(bounds[i].y)] \in points
  <2> SUFFICES ASSUME NEW i \in DOMAIN bounds
               PROVE  [x |-> Grid!Truncate(bounds[i].x), y |-> Grid!Truncate(bounds[i].y)] \in points
    OBVIOUS
  <2>1. polygon[i] \in points
    BY <1>1, <1>2, GridAssumed, G!CornerIsPoint
  <2>2. polygon[i] = [x |-> Grid!Truncate(bounds[i].x), y |-> Grid!Truncate(bounds[i].y)]
    BY <1>1 DEF Grid!IntPolygon
  <2> QED BY <2>1, <2>2
<1>5. ASSUME NEW p \in points, NEW axis \in {"x", "y"}
      PROVE  \E i, j \in DOMAIN bounds : /\ bounds[i][axis] - kStep < p[axis] * kStep
                                        /\ p[axis] * kStep < bounds[j][axis] + kStep
  BY <1>1, <1>2, GridAssumed, G!PointIsNear
<1> QED BY <1>3, <1>4, <1>5 DEF points

\* What a click leaves behind: nothing, an end of the program, or a search.
LEMMA ClickCases ==
  ASSUME OnMakeBestRoute
  PROVE  LET bounds == GetWaypoints(zone_list[zone])
             waypoints == GetWaypoints(route_list[route])
             points == Grid!MakeGrid(bounds).points
             leg == GetSegment(waypoints)
         IN  \/ points = {} /\ ended' = "exception" /\ asked' = NoSearch /\ results' = results
             \/ /\ points # {} /\ Len(waypoints) < 2
                /\ ended' = "undefined" /\ asked' = NoSearch /\ results' = results
             \/ /\ points # {} /\ Len(waypoints) >= 2 /\ asked' = [bounds |-> bounds, leg |-> leg]
                /\ \/ ~CanScore /\ ended' = "exception" /\ results' = results
                   \/ CanScore /\ ended' = "database" /\ results' = results
                   \/ CanScore /\ ~CanSail /\ ended' = "undefined" /\ results' = results
                   \/ CanScore /\ ended' = ended /\ \E way \in Ways(points, leg) : results' = Append(results, way)
<1> DEFINE bounds == GetWaypoints(zone_list[zone])
           waypoints == GetWaypoints(route_list[route])
           grid == Grid!MakeGrid(bounds)
           ask == [bounds |-> bounds, leg |-> GetSegment(waypoints)]
<1>1. \/ grid.points = {} /\ ended' = "exception" /\ asked' = NoSearch /\ UNCHANGED results
      \/ grid.points # {} /\ Len(waypoints) < 2 /\ ended' = "undefined" /\ asked' = NoSearch /\ UNCHANGED results
      \/ /\ grid.points # {} /\ Len(waypoints) >= 2 /\ asked' = ask
         /\ \/ ~CanScore /\ ended' = "exception" /\ UNCHANGED results
            \/ CanScore /\ ended' = "database" /\ UNCHANGED results
            \/ CanScore /\ ~CanSail /\ ended' = "undefined" /\ UNCHANGED results
            \/ /\ CanScore /\ UNCHANGED ended
               /\ \E way \in Ways(grid.points, asked'.leg) : results' = Append(results, way)
  BY DEF OnMakeBestRoute, MakeFindRouteGrid
<1>2. ask.leg = GetSegment(waypoints)
  OBVIOUS
<1> HIDE DEF bounds, waypoints, grid, ask
<1>3. \/ grid.points = {} /\ ended' = "exception" /\ asked' = NoSearch /\ results' = results
      \/ grid.points # {} /\ Len(waypoints) < 2 /\ ended' = "undefined" /\ asked' = NoSearch /\ results' = results
      \/ /\ grid.points # {} /\ Len(waypoints) >= 2 /\ asked' = ask
         /\ \/ ~CanScore /\ ended' = "exception" /\ results' = results
            \/ CanScore /\ ended' = "database" /\ results' = results
            \/ CanScore /\ ~CanSail /\ ended' = "undefined" /\ results' = results
            \/ /\ CanScore /\ ended' = ended
               /\ \E way \in Ways(grid.points, GetSegment(waypoints)) : results' = Append(results, way)
  BY <1>1, <1>2
<1> QED BY <1>3 DEF bounds, waypoints, grid, ask

\* The leg has two ends on the chart.
LEMMA LegType ==
  ASSUME ChartInv, NEW name, Len(GetWaypoints(name)) >= 2
  PROVE  LET leg == GetSegment(GetWaypoints(name)) IN leg[1] \in Point /\ leg[2] \in Point
<1>1. GetWaypoints(name) \in Seq(Point)
  BY PartsType DEF Corners
<1>2. 1 \in DOMAIN GetWaypoints(name) /\ 2 \in DOMAIN GetWaypoints(name)
  BY <1>1
<1>3. GetWaypoints(name)[1] \in Point /\ GetWaypoints(name)[2] \in Point
  BY <1>1, <1>2, ElementType
<1>4. SubSeq(GetWaypoints(name), 1, 2) = <<GetWaypoints(name)[1], GetWaypoints(name)[2]>>
  BY <1>1, FirstTwo
<1> QED BY <1>3, <1>4 DEF GetSegment

\* The corner of the chart where a grid point is.
OnChart(p) == [x |-> p.x * kStep, y |-> p.y * kStep]

\* The two ends of a way are grid points, and the last is the closest to the leg's end.
LEMMA WayType ==
  ASSUME NEW points, points # {}, points \subseteq Point,
         NEW leg, leg[1] \in Point, leg[2] \in Point, NEW way \in Ways(points, leg)
  PROVE  /\ way \in Corners /\ Last(way) = OnChart(Grid!GetClosestPoint(points, leg[2]))
         /\ \A k \in DOMAIN way : \E p \in points : way[k] = OnChart(p)
<1> DEFINE s == Grid!GetClosestPoint(points, leg[1])
           e == Grid!GetClosestPoint(points, leg[2])
<1>1. s \in points /\ e \in points
  <2>1. G!Point = Point
    BY DEF Point, G!Point
  <2> QED BY <2>1, ClosestIs, GridAssumed, G!ClosestPoint
<1>2. way = <<OnChart(e)>> \/ way = <<OnChart(s), OnChart(e)>>
  BY DEF Ways, OnChart
<1> HIDE DEF s, e
<1>3. \A p \in points : OnChart(p) \in Point
  <2> SUFFICES ASSUME NEW p \in points PROVE OnChart(p) \in Point
    OBVIOUS
  <2>1. p.x \in Int /\ p.y \in Int /\ kStep \in Int
    BY StepAssumption DEF Point
  <2> QED BY <2>1 DEF OnChart, Point
<1>4. OnChart(s) \in Point /\ OnChart(e) \in Point
  BY <1>1, <1>3
<1>5. CASE way = <<OnChart(e)>>
  BY <1>1, <1>4, <1>5 DEF Corners, Last, e
<1>6. CASE way = <<OnChart(s), OnChart(e)>>
  BY <1>1, <1>4, <1>6 DEF Corners, Last, e
<1> QED BY <1>2, <1>5, <1>6

-----------------------------------------------------------------------------
(* What is on the chart.                                                   *)

LEMMA ChartInit == Init => ChartInv
BY EmptyElements DEF Init, ChartInv

\* A result is a route of corners, too.
LEMMA ChartStep == ChartInv /\ [Next]_vars => ChartInv'
<1> SUFFICES ASSUME ChartInv, [Next]_vars PROVE ChartInv'
  OBVIOUS
<1>1. CASE OnMakeBestRoute
  <2>1. drawings' = drawings
    BY <1>1 DEF OnMakeBestRoute
  <2>2. CASE results' = results
    BY <2>1, <2>2 DEF ChartInv
  <2>3. CASE results' # results
    <3> DEFINE bounds == GetWaypoints(zone_list[zone])
               waypoints == GetWaypoints(route_list[route])
               points == Grid!MakeGrid(bounds).points
               leg == GetSegment(waypoints)
    <3>1. /\ points # {} /\ Len(waypoints) >= 2
          /\ \E way \in Ways(points, leg) : results' = Append(results, way)
      BY <1>1, <2>3, ClickCases
    <3>2. PICK way \in Ways(points, leg) : results' = Append(results, way)
      BY <3>1
    <3>3. points \subseteq Point
      BY <3>1, PartsType, GridOfBounds
    <3>4. leg[1] \in Point /\ leg[2] \in Point
      BY <3>1, LegType
    <3> HIDE DEF points, leg
    <3>5. way \in Corners
      BY <3>1, <3>2, <3>3, <3>4, WayType
    <3> QED BY <2>1, <3>2, <3>5 DEF ChartInv
  <2> QED BY <2>2, <2>3
<1>2. CASE ~OnMakeBestRoute
  BY <1>2, NextCases, EmptyElements DEF ChartInv
<1> QED BY <1>1, <1>2

\* However old the lists are and whoever shares a name (best_route_builder.cpp): the leg
\* that is searched is the first one of a single route on the chart, unless a route of
\* the name has no leg and is glued to the next.
THEOREM SearchedLegIsDrawn == Spec => LegIsDrawn
<1> DEFINE Drawn ==
      asked' # NoSearch =>
        LET named == Named(route_list[route])
        IN  \/ \E i \in named : asked'.leg = SubSeq(Chart[i].waypoints, 1, 2)
            \/ \E i \in named : Len(Chart[i].waypoints) < 2
<1>1. ASSUME ChartInv, [Next]_vars PROVE [Drawn]_vars
  <2> SUFFICES ASSUME asked' # NoSearch, vars' # vars
               PROVE  LET named == Named(route_list[route])
                      IN  \/ \E i \in named : asked'.leg = SubSeq(Chart[i].waypoints, 1, 2)
                          \/ \E i \in named : Len(Chart[i].waypoints) < 2
    OBVIOUS
  <2>1. OnMakeBestRoute
    BY <1>1 DEF Next, OnRefresh, SelectLine, HostEditsChart, EditForm
  <2> DEFINE name == route_list[route]
  <2>2. Len(GetWaypoints(name)) >= 2 /\ asked'.leg = GetSegment(GetWaypoints(name))
    BY <2>1, ClickCases
  <2>3. \A i \in Named(name) : Len(Chart[i].waypoints) \in Nat
    <3>1. \A c \in Corners : Len(c) \in Nat
      BY DEF Corners
    <3> QED BY <1>1, <3>1, ChartType DEF Named
  <2> HIDE DEF name
  <2>4. \/ \E i \in Named(name) : GetSegment(GetWaypoints(name)) = SubSeq(Chart[i].waypoints, 1, 2)
        \/ \E i \in Named(name) : Len(Chart[i].waypoints) < 2
    BY <1>1, <2>2, <2>3, FirstLeg
  <2> QED BY <2>2, <2>4 DEF name
<1> QED BY <1>1, ChartInit, ChartStep, PTL DEF Spec, LegIsDrawn

-----------------------------------------------------------------------------
(* Where the result lies.                                                  *)

\* A way over a grid stays near its bounds and ends as near as a corner.
LEMMA WayIsInZone ==
  ASSUME NEW bounds \in Corners, Grid!MakeGrid(bounds).points # {},
         NEW leg, leg[1] \in Point, leg[2] \in Point,
         NEW way \in Ways(Grid!MakeGrid(bounds).points, leg)
  PROVE  /\ \A k \in DOMAIN way : \A axis \in {"x", "y"} : \E i, j \in DOMAIN bounds :
              bounds[i][axis] - kStep < way[k][axis] /\ way[k][axis] < bounds[j][axis] + kStep
         /\ \A i \in DOMAIN bounds : Squared(leg[2], Last(way)) <= Squared(leg[2], Corner(bounds[i]))
<1> DEFINE points == Grid!MakeGrid(bounds).points
           end == G!GetClosestPoint(points, leg[2])
<1>1. /\ points \subseteq Point
      /\ \A i \in DOMAIN bounds :
           [x |-> Grid!Truncate(bounds[i].x), y |-> Grid!Truncate(bounds[i].y)] \in points
      /\ \A p \in points : \A axis \in {"x", "y"} : \E i, j \in DOMAIN bounds :
           bounds[i][axis] - kStep < p[axis] * kStep /\ p[axis] * kStep < bounds[j][axis] + kStep
  BY GridOfBounds
<1>2. points # {} /\ way \in Ways(points, leg)
  OBVIOUS
<1> HIDE DEF points
<1>3. /\ Last(way) = OnChart(Grid!GetClosestPoint(points, leg[2]))
      /\ \A k \in DOMAIN way : \E p \in points : way[k] = OnChart(p)
  BY <1>1, <1>2, WayType
<1>4. ASSUME NEW k \in DOMAIN way, NEW axis \in {"x", "y"}
      PROVE  \E i, j \in DOMAIN bounds :
               bounds[i][axis] - kStep < way[k][axis] /\ way[k][axis] < bounds[j][axis] + kStep
  <2>1. PICK p \in points : way[k] = OnChart(p)
    BY <1>3
  <2>2. way[k][axis] = p[axis] * kStep
    <3>1. CASE axis = "x"
      BY <2>1, <3>1 DEF OnChart
    <3>2. CASE axis = "y"
      BY <2>1, <3>2 DEF OnChart
    <3> QED BY <3>1, <3>2
  <2> QED BY <1>1, <2>2
<1>5. ASSUME NEW p PROVE Squared(leg[2], OnChart(p)) = G!SquaredDistance(leg[2], p)
  BY DEF Squared, OnChart, G!SquaredDistance
<1>6. \A q \in points : G!SquaredDistance(leg[2], end) <= G!SquaredDistance(leg[2], q)
  <2>1. points \subseteq G!Point /\ leg[2] \in G!Point
    BY <1>1 DEF Point, G!Point
  <2> QED BY <1>2, <2>1, GridAssumed, G!ClosestPoint
<1>7. Last(way) = OnChart(end)
  BY <1>3, ClosestIs
<1> HIDE DEF end
<1>8. ASSUME NEW i \in DOMAIN bounds
      PROVE  Squared(leg[2], Last(way)) <= Squared(leg[2], Corner(bounds[i]))
  <2> DEFINE q == [x |-> Grid!Truncate(bounds[i].x), y |-> Grid!Truncate(bounds[i].y)]
  <2>1. q \in points
    BY <1>1
  <2>2. Corner(bounds[i]) = OnChart(q)
    BY DEF Corner, OnChart
  <2> HIDE DEF q
  <2> QED BY <1>5, <1>6, <1>7, <2>1, <2>2
<1> QED BY <1>4, <1>8

\* A route the panel adds (MakeRouteFromBestRouteResult) lies less than a step outside
\* the bounds that were picked, and ends as near to the end of the leg as any corner.
THEOREM ResultStaysInZone == Spec => ResultIsInZone
<1> DEFINE InZone ==
      Len(results') > Len(results) =>
        LET result == Last(results')
            bounds == asked'.bounds
        IN  /\ \A k \in DOMAIN result : \A axis \in {"x", "y"} : \E i, j \in DOMAIN bounds :
                 bounds[i][axis] - kStep < result[k][axis] /\ result[k][axis] < bounds[j][axis] + kStep
            /\ \A i \in DOMAIN bounds :
                 Squared(asked'.leg[2], Last(result)) <= Squared(asked'.leg[2], Corner(bounds[i]))
<1>1. ASSUME ChartInv, [Next]_vars PROVE InZone
  <2> SUFFICES ASSUME Len(results') > Len(results) PROVE InZone
    OBVIOUS
  <2>1. Len(results) \in Nat
    BY <1>1 DEF ChartInv
  <2>2. OnMakeBestRoute
    <3> SUFFICES ASSUME ~OnMakeBestRoute PROVE FALSE
      OBVIOUS
    <3>1. results' = results \/ results' = <<>>
      BY <1>1, NextCases
    <3>2. Len(<<>>) = 0
      OBVIOUS
    <3> QED BY <2>1, <3>1, <3>2
  <2> DEFINE bounds == GetWaypoints(zone_list[zone])
             waypoints == GetWaypoints(route_list[route])
             points == Grid!MakeGrid(bounds).points
             leg == GetSegment(waypoints)
  <2>3. results' # results
    BY <2>1
  <2>4. /\ points # {} /\ Len(waypoints) >= 2 /\ asked' = [bounds |-> bounds, leg |-> leg]
        /\ \E way \in Ways(points, leg) : results' = Append(results, way)
    BY <2>2, <2>3, ClickCases
  <2>5. PICK way \in Ways(points, leg) : results' = Append(results, way)
    BY <2>4
  <2>6. bounds \in Corners /\ leg[1] \in Point /\ leg[2] \in Point
    BY <1>1, <2>4, PartsType, LegType
  <2>7. points \subseteq Point
    BY <2>4, <2>6, GridOfBounds
  <2>8. asked'.bounds = bounds /\ asked'.leg = leg
    BY <2>4
  <2>9. /\ \A k \in DOMAIN way : \A axis \in {"x", "y"} : \E i, j \in DOMAIN bounds :
             bounds[i][axis] - kStep < way[k][axis] /\ way[k][axis] < bounds[j][axis] + kStep
        /\ \A i \in DOMAIN bounds : Squared(leg[2], Last(way)) <= Squared(leg[2], Corner(bounds[i]))
    <3> HIDE DEF bounds, leg
    <3> QED BY <2>4, <2>5, <2>6, WayIsInZone
  <2> HIDE DEF points, leg, bounds
  <2>10. Last(results') = way
    <3>1. way \in Corners /\ results \in Seq(Corners)
      BY <1>1, <2>4, <2>5, <2>6, <2>7, WayType DEF ChartInv
    <3> QED BY <2>5, <3>1 DEF Last
  <2> QED BY <2>8, <2>9, <2>10
<1> QED BY <1>1, ChartInit, ChartStep, PTL DEF Spec, ResultIsInZone

-----------------------------------------------------------------------------
(* What ends the program.                                                  *)

\* The extent of bounds is a distance, and no two corners are further apart.
LEMMA ExtentType ==
  ASSUME NEW bounds \in Corners, bounds # <<>>, NEW axis \in {"x", "y"}
  PROVE  /\ Extent(bounds, axis) \in Nat
         /\ \A i, j \in DOMAIN bounds : bounds[i][axis] - bounds[j][axis] <= Extent(bounds, axis)
<1> DEFINE n == Len(bounds)
           cs == {bounds[i][axis] : i \in DOMAIN bounds}
           differences == {c - d : c, d \in cs}
           IsLargest(e) == \A c, d \in cs : c - d <= e
           f == [i \in 1 .. n |-> bounds[i][axis]]
           g == [i \in 1 .. n |-> -bounds[i][axis]]
<1>1. n \in Nat \ {0} /\ DOMAIN bounds = 1 .. n
  BY DEF Corners
<1>2. \A i \in 1 .. n : bounds[i][axis] \in Int
  <2> SUFFICES ASSUME NEW i \in DOMAIN bounds PROVE bounds[i][axis] \in Int
    BY <1>1
  <2>1. bounds[i] \in Point
    BY ElementType DEF Corners
  <2> QED BY <2>1 DEF Point
<1> HIDE DEF n
<1>3. PICK i \in 1 .. n : \A j \in 1 .. n : f[j] <= f[i]
  <2>1. f \in [1 .. n -> Int]
    BY <1>2
  <2> HIDE DEF f
  <2> QED BY <1>1, <2>1, FiniteMaximum
<1>4. PICK k \in 1 .. n : \A j \in 1 .. n : g[j] <= g[k]
  <2>1. g \in [1 .. n -> Int]
    BY <1>2
  <2> HIDE DEF g
  <2> QED BY <1>1, <2>1, FiniteMaximum
<1>5. \A j \in 1 .. n : bounds[k][axis] <= bounds[j][axis] /\ bounds[j][axis] <= bounds[i][axis]
  <2> SUFFICES ASSUME NEW j \in 1 .. n
               PROVE  bounds[k][axis] <= bounds[j][axis] /\ bounds[j][axis] <= bounds[i][axis]
    OBVIOUS
  <2>1. f[j] <= f[i] /\ g[j] <= g[k]
    BY <1>3, <1>4
  <2>2. bounds[j][axis] \in Int /\ bounds[i][axis] \in Int /\ bounds[k][axis] \in Int
    BY <1>2
  <2> QED BY <2>1, <2>2
<1> DEFINE e == bounds[i][axis] - bounds[k][axis]
<1>6. e \in differences /\ IsLargest(e)
  <2>1. e \in differences
    <3>1. bounds[i][axis] \in cs /\ bounds[k][axis] \in cs
      BY <1>1
    <3> HIDE DEF cs
    <3> QED BY <3>1
  <2>2. ASSUME NEW p \in 1 .. n, NEW q \in 1 .. n PROVE bounds[p][axis] - bounds[q][axis] <= e
    BY <1>2, <1>5
  <2> HIDE DEF e
  <2>3. IsLargest(e)
    BY <1>1, <2>2
  <2> QED BY <2>1, <2>3
<1>7. Extent(bounds, axis) \in differences /\ IsLargest(Extent(bounds, axis))
  <2>1. Extent(bounds, axis) = CHOOSE x \in differences : IsLargest(x)
    BY DEF Extent
  <2> HIDE DEF e, differences, IsLargest
  <2> QED BY <1>6, <2>1
<1> HIDE DEF e
<1>8. \A p, q \in DOMAIN bounds : bounds[p][axis] - bounds[q][axis] <= Extent(bounds, axis)
  BY <1>7
<1>9. Extent(bounds, axis) \in Int
  BY <1>1, <1>2, <1>7
<1>10. 0 <= Extent(bounds, axis)
  <2>1. bounds[i][axis] - bounds[i][axis] <= Extent(bounds, axis)
    BY <1>1, <1>3, <1>8
  <2> QED BY <1>2, <1>9, <2>1
<1> QED BY <1>8, <1>9, <1>10

\* Bounds that touch fewer steps than the limits allow make a grid.
LEMMA SmallBoundsMakeGrid ==
  ASSUME NEW bounds \in Corners, bounds # <<>>,
         Steps(bounds, "x") < kMaxCheckCount, Steps(bounds, "y") < kMaxCheckCount,
         (Steps(bounds, "x") + 1) * (Steps(bounds, "y") + 1) <= kMaxVertexCount
  PROVE  Grid!MakeGrid(bounds).points # {}
<1> DEFINE polygon == Grid!IntPolygon(bounds)
           count(axis) == Grid!Cardinality(Grid!Span({polygon[i][axis] : i \in DOMAIN polygon}))
<1>1. ASSUME NEW axis \in {"x", "y"}
      PROVE  /\ Steps(bounds, axis) \in Nat /\ count(axis) \in Nat
             /\ count(axis) <= Steps(bounds, axis) + 1
  <2>1. /\ Extent(bounds, axis) \in Nat
        /\ \A i, j \in DOMAIN bounds : bounds[i][axis] - bounds[j][axis] <= Extent(bounds, axis)
    BY ExtentType
  <2>2. Extent(bounds, axis) \div kStep \in Nat
    BY <2>1, StepAssumption
  <2> DEFINE side == {polygon[i][axis] : i \in DOMAIN polygon}
  <2>3. polygon = G!IntPolygon(bounds) /\ Grid!Span(side) = G!Span(side)
    BY GridPointsAre DEF Grid!Span, G!Span
  <2>4. bounds \in G!Corners
    BY DEF Corners, Point, G!Corners
  <2> HIDE DEF polygon
  <2>5. /\ G!Cardinality(G!Span(side)) \in Nat
        /\ G!Cardinality(G!Span(side)) <= Extent(bounds, axis) \div kStep + 2
    BY <2>1, <2>3, <2>4, GridAssumed, G!SpanCount
  <2>6. count(axis) = G!Cardinality(G!Span(side))
    BY <2>3, SameCardinality
  <2> HIDE DEF count
  <2> QED BY <2>2, <2>5, <2>6 DEF Steps
<1> DEFINE xs == count("x")
           ys == count("y")
           sx == Steps(bounds, "x")
           sy == Steps(bounds, "y")
<1>2. xs \in Nat /\ ys \in Nat /\ sx \in Nat /\ sy \in Nat /\ xs <= sx + 1 /\ ys <= sy + 1
  <2> HIDE DEF count
  <2> QED BY <1>1
<1>3. Grid!IsTooBig(polygon) <=> (xs > kMaxCheckCount \/ ys > kMaxCheckCount \/ xs * ys > kMaxVertexCount)
  BY DEF Grid!IsTooBig
<1> HIDE DEF xs, ys, sx, sy
<1>4. xs <= kMaxCheckCount /\ ys <= kMaxCheckCount
  BY <1>2, StepAssumption DEF sx, sy
<1>5. xs * ys <= kMaxVertexCount
  <2>1. xs * ys <= (sx + 1) * ys
    BY <1>2
  <2>2. (sx + 1) * ys <= (sx + 1) * (sy + 1)
    BY <1>2
  <2>3. (sx + 1) * (sy + 1) <= kMaxVertexCount
    BY DEF sx, sy
  <2>4. xs * ys \in Int /\ (sx + 1) * ys \in Int /\ (sx + 1) * (sy + 1) \in Int /\ kMaxVertexCount \in Int
    BY <1>2, StepAssumption
  <2> QED BY <2>1, <2>2, <2>3, <2>4
<1>6. ~Grid!IsTooBig(polygon)
  <2>1. xs * ys \in Int
    BY <1>2
  <2> QED BY <1>2, <1>3, <1>4, <1>5, <2>1, StepAssumption
<1>7. Grid!MakeGrid(bounds).points = G!GridPoints(G!IntPolygon(bounds))
  BY <1>6, GridPointsAre
<1>8. 1 \in DOMAIN bounds /\ bounds \in G!Corners
  BY DEF Corners, Point, G!Corners
<1> QED BY <1>7, <1>8, GridAssumed, G!CornerIsPoint

\* With a full form and a positive speed, a route with a leg and a zone that touches few enough steps as it is
\* drawn, no handler of the panel ends the program; only the database can.
THEOREM OnlyDatabaseEnds == Spec => SoundInputIsSearched
<1> DEFINE Excused ==
      ended' \in {"exception", "undefined"} =>
        LET bounds == GetWaypoints(zone_list[zone])
        IN  \/ form.danger_height = NoValue \/ form.speed = NoValue \/ ~CanSail
            \/ Len(GetWaypoints(route_list[route])) < 2
            \/ bounds = <<>>
            \/ Steps(bounds, "x") >= kMaxCheckCount \/ Steps(bounds, "y") >= kMaxCheckCount
            \/ (Steps(bounds, "x") + 1) * (Steps(bounds, "y") + 1) > kMaxVertexCount
<1>1. ASSUME ChartInv, [Next]_vars PROVE [Excused]_vars
  <2> SUFFICES ASSUME ended' \in {"exception", "undefined"}, vars' # vars PROVE Excused
    OBVIOUS
  <2>1. ended = "no"
    BY <1>1 DEF Next
  <2>2. OnMakeBestRoute
    BY <1>1, <2>1, NextCases
  <2> DEFINE bounds == GetWaypoints(zone_list[zone])
             waypoints == GetWaypoints(route_list[route])
             points == Grid!MakeGrid(bounds).points
  <2>3. points = {} \/ Len(waypoints) < 2 \/ ~CanScore \/ ~CanSail
    BY <2>1, <2>2, ClickCases
  <2>4. bounds \in Corners
    BY <1>1, PartsType
  <2>5. CASE ~CanScore
    BY <2>5 DEF CanScore
  <2>6. CASE points = {} /\ bounds # <<>> /\ CanSail
    <3>1. \A axis \in {"x", "y"} : Steps(bounds, axis) \in Int
      <4> SUFFICES ASSUME NEW axis \in {"x", "y"} PROVE Steps(bounds, axis) \in Int
        OBVIOUS
      <4>1. Extent(bounds, axis) \in Nat
        BY <2>4, <2>6, ExtentType
      <4> QED BY <4>1, StepAssumption DEF Steps
    <3> DEFINE sx == Steps(bounds, "x")
               sy == Steps(bounds, "y")
    <3>2. ~(sx < kMaxCheckCount /\ sy < kMaxCheckCount /\ (sx + 1) * (sy + 1) <= kMaxVertexCount)
      BY <2>4, <2>6, SmallBoundsMakeGrid
    <3>3. sx \in Int /\ sy \in Int /\ (sx + 1) * (sy + 1) \in Int
      BY <3>1
    <3> HIDE DEF sx, sy
    <3>4. sx >= kMaxCheckCount \/ sy >= kMaxCheckCount \/ (sx + 1) * (sy + 1) > kMaxVertexCount
      BY <3>2, <3>3, StepAssumption
    <3> QED BY <3>4 DEF sx, sy
  <2> QED BY <2>3, <2>5, <2>6
<1> QED BY <1>1, ChartInit, ChartStep, PTL DEF Spec, SoundInputIsSearched

=============================================================================
