----------------------------- MODULE FindRouteGrid -----------------------------
(***************************************************************************)
(* entities/find_route_grid.cpp: the points of a grid inside the polygon   *)
(* the user drew as a route, and which of them are neighbours.  A polygon  *)
(* is a sequence of [x, y].  A grid point is [x, y] in whole steps; its id *)
(* is its place in the lexicographic order in which the map holds them.    *)
(***************************************************************************)
EXTENDS Integers, Sequences, FiniteSets

CONSTANTS
  kStep,            \* in the units of the coordinates
  kMaxCheckCount, kMaxVertexCount,
  Polygons          \* the polygons a grid may be made for

ASSUME GridAssumption == /\ kStep \in Nat \ {0}
                         /\ \A polygon \in Polygons : polygon \in Seq([x : Int, y : Int])

VARIABLES drawn, grid    \* the constructor's argument; the object
vars == <<drawn, grid>>

\* Faulty variant: rounding down, also below zero.
TruncateDown(c) == c \div kStep

\* static_cast<int64_t>(c / step): towards zero.
Truncate(c) == IF c >= 0 THEN c \div kStep ELSE -((-c) \div kStep)

IntPolygon(polygon) ==
  [i \in DOMAIN polygon |-> [x |-> Truncate(polygon[i].x), y |-> Truncate(polygon[i].y)]]

\* The vertex before i, around the polygon.
Previous(polygon, i) == polygon[IF i = 1 THEN Len(polygon) ELSE i - 1]

\* p lies on the horizontal edge from a to b.
OnHorizontal(a, b, p) ==
  /\ a.y = b.y /\ a.y = p.y
  /\ \/ a.x <= p.x /\ p.x <= b.x
     \/ b.x <= p.x /\ p.x <= a.x

\* Faulty variant: both ends of an edge count as above.
CrossesClosed(a, b, p) ==
  /\ (a.y >= p.y /\ b.y <= p.y) \/ (b.y >= p.y /\ a.y <= p.y)
  /\ a.y # b.y
  /\ LET left  == (b.x - a.x) * (p.y - a.y)
         right == (p.x - a.x) * (b.y - a.y)
     IN  IF b.y > a.y THEN left > right ELSE left < right

\* The edge from a to b crosses the ray from p to the right: xIntersect > p.x,
\* multiplied out.  (A quotient that is a whole number is exact in a double.)
Crosses(a, b, p) ==
  /\ (a.y > p.y) # (b.y > p.y)
  /\ LET left  == (b.x - a.x) * (p.y - a.y)
         right == (p.x - a.x) * (b.y - a.y)
     IN  IF b.y > a.y THEN left > right ELSE left < right

\* Faulty variant: the ray alone decides, also on the border.
IsInsideByRay(polygon, p) ==
  Cardinality({i \in DOMAIN polygon : Crosses(polygon[i], Previous(polygon, i), p)}) % 2 = 1

IsInsidePolygon(polygon, p) ==
  \/ \E i \in DOMAIN polygon : polygon[i] = p \/ OnHorizontal(polygon[i], Previous(polygon, i), p)
  \/ Cardinality({i \in DOMAIN polygon : Crosses(polygon[i], Previous(polygon, i), p)}) % 2 = 1

\* minX .. maxX and minY .. maxY, as [x, y].
Span(S) == UNION {e[1] .. e[2] : e \in S \X S}
Box(polygon) == [x : Span({polygon[i].x : i \in DOMAIN polygon}),
                 y : Span({polygon[i].y : i \in DOMAIN polygon})]

\* "number points for check is too big".
IsTooBig(polygon) ==
  LET xs == Cardinality(Span({polygon[i].x : i \in DOMAIN polygon}))
      ys == Cardinality(Span({polygon[i].y : i \in DOMAIN polygon}))
  IN  xs > kMaxCheckCount \/ ys > kMaxCheckCount \/ xs * ys > kMaxVertexCount

\* points_ of the integer polygon.
GridPoints(polygon) == {p \in Box(polygon) : IsInsidePolygon(polygon, p)}

\* Faulty variant: dx and dy run from -1 to 0.
NeighboursBelow(points, p) ==
  {q \in points \ {p} : q.x - p.x \in -1 .. 0 /\ q.y - p.y \in -1 .. 0}

\* adjacency_list_[id]: the loops over dx and dy.
Neighbours(points, p) ==
  {q \in points \ {p} : q.x - p.x \in -1 .. 1 /\ q.y - p.y \in -1 .. 1}

NoGrid == [points |-> {}, adjacency_list_ |-> << >>]

\* The constructor.  It throws for a polygon that is too big and, at the end, when
\* there is no point.  (The bounds of an EMPTY polygon overflow, which is undefined;
\* the loops then find no point.  More than kMaxVertexCount points cannot be.)
MakeGrid(corners) ==
  LET polygon == IntPolygon(corners)
      points == GridPoints(polygon)
  IN  IF corners = <<>> \/ IsTooBig(polygon) THEN NoGrid
      ELSE [points |-> points, adjacency_list_ |-> [p \in points |-> Neighbours(points, p)]]

-----------------------------------------------------------------------------
Before(p, q) == p.x < q.x \/ (p.x = q.x /\ p.y < q.y)

Id(points, p) == Cardinality({q \in points : Before(q, p)})

SquaredDistance(c, p) == (c.x - p.x * kStep) * (c.x - p.x * kStep) + (c.y - p.y * kStep) * (c.y - p.y * kStep)

\* GetClosestPointId: the first of the closest ones.  c need not lie inside.
GetClosestPoint(points, c) ==
  CHOOSE p \in points : \A q \in points \ {p} :
    \/ SquaredDistance(c, p) < SquaredDistance(c, q)
    \/ SquaredDistance(c, p) = SquaredDistance(c, q) /\ Before(p, q)

-----------------------------------------------------------------------------
Init == drawn \in Polygons /\ grid = NoGrid

Construct == grid' = MakeGrid(drawn) /\ UNCHANGED drawn

Spec == Init /\ [][Construct]_vars

\* Whoever is a neighbour is a point of the grid and has the other for a neighbour,
\* and nobody is his own: the search relies on it.
AdjacencyIsSymmetric ==
  \A p \in grid.points : /\ p \notin grid.adjacency_list_[p]
                         /\ \A q \in grid.adjacency_list_[p] :
                              q \in grid.points /\ p \in grid.adjacency_list_[q]

\* The corners, moved onto the grid, are points of it: "no points" is never thrown
\* for a polygon that has a corner.
CornersAreInGrid ==
  grid # NoGrid => \A i \in DOMAIN drawn : IntPolygon(drawn)[i] \in grid.points

\* p is on the line from a to b.
OnEdge(a, b, p) ==
  /\ (b.x - a.x) * (p.y - a.y) = (p.x - a.x) * (b.y - a.y)
  /\ (a.x <= p.x /\ p.x <= b.x) \/ (b.x <= p.x /\ p.x <= a.x)
  /\ (a.y <= p.y /\ p.y <= b.y) \/ (b.y <= p.y /\ p.y <= a.y)
OnBorder(polygon, p) == \E i \in DOMAIN polygon : OnEdge(polygon[i], Previous(polygon, i), p)

\* The even-odd rule along a ray UPWARDS.
Flip(p) == [x |-> p.y, y |-> p.x]
CrossingsAbove(polygon, p) ==
  {i \in DOMAIN polygon : Crosses(Flip(polygon[i]), Flip(Previous(polygon, i)), Flip(p))}
Inside(polygon, p) == Cardinality(CrossingsAbove(polygon, p)) % 2 = 1

\* Away from the border the grid holds exactly the points inside the polygon, also
\* of a polygon that crosses itself: the rays to the right and upwards agree.
GridIsInside ==
  LET polygon == IntPolygon(drawn)
  IN  grid # NoGrid => \A p \in Box(polygon) :
        ~OnBorder(polygon, p) => (p \in grid.points <=> Inside(polygon, p))

Abs(c) == IF c < 0 THEN -c ELSE c

\* Truncation moves the grid less than a step out of what was drawn, and only towards
\* the equator and the zero meridian.
GridIsNearDrawing ==
  \A p \in grid.points : \A axis \in {"x", "y"} :
    /\ \E i, j \in DOMAIN drawn : /\ drawn[i][axis] - kStep < p[axis] * kStep
                                 /\ p[axis] * kStep < drawn[j][axis] + kStep
    /\ \E i \in DOMAIN drawn : Abs(p[axis] * kStep) <= Abs(drawn[i][axis])

=============================================================================
