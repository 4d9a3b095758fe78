-------------------------- MODULE FindRouteGrid_proofs --------------------------
(***************************************************************************)
(* What the search relies on: the grid of ANY polygon is an undirected     *)
(* graph without loops, and it has the corners of the polygon as points.   *)
(* Then where its points lie, how many there can be on a side, which one   *)
(* is the closest to a place, and that they are those inside the polygon.  *)
(***************************************************************************)
EXTENDS FindRouteGrid, InductionLemmas, FiniteSetTheorems, TLAPS

\* The object is either not there or the one made for the polygon.
Made == grid = NoGrid \/ (drawn # <<>> /\ grid = MakeGrid(drawn))

LEMMA MadeInvariant == Spec => []Made
<1>1. Init => Made
  BY DEF Init, Made
<1>2. Made /\ [Construct]_vars => Made'
  <2> SUFFICES ASSUME Made, [Construct]_vars
               PROVE  Made'
    OBVIOUS
  <2>1. CASE Construct
    BY <2>1 DEF Construct, Made, MakeGrid
  <2>2. CASE UNCHANGED vars
    BY <2>2 DEF vars, Made
  <2> QED
    BY <2>1, <2>2
<1> QED
  BY <1>1, <1>2, PTL DEF Spec

\* A grid that was made is made of the points inside, and so are their neighbours.
LEMMA MadeGrid ==
  ASSUME Made, grid # NoGrid
  PROVE  /\ grid.points = GridPoints(IntPolygon(drawn))
         /\ grid.adjacency_list_ = [p \in grid.points |-> Neighbours(grid.points, p)]
BY DEF Made, MakeGrid

\* Points lie on whole coordinates.
LEMMA PointsAreIntegral ==
  ASSUME NEW polygon, NEW p \in GridPoints(polygon)
  PROVE  p.x \in Int /\ p.y \in Int
<1>1. /\ p.x \in Span({polygon[i].x : i \in DOMAIN polygon})
      /\ p.y \in Span({polygon[i].y : i \in DOMAIN polygon})
  BY DEF GridPoints, Box
<1>2. ASSUME NEW S, NEW c \in Span(S)
      PROVE  c \in Int
  <2>1. PICK e \in S \X S : c \in e[1] .. e[2]
    BY <1>2 DEF Span
  <2> QED
    BY <2>1
<1> QED
  BY <1>1, <1>2

\* On every grid, whatever the polygon: neighbours are mutual and nobody is his own.
THEOREM GridIsAGraph == Spec => []AdjacencyIsSymmetric
<1>1. Made => AdjacencyIsSymmetric
  <2> SUFFICES ASSUME Made
               PROVE  AdjacencyIsSymmetric
    OBVIOUS
  <2>1. CASE grid = NoGrid
    BY <2>1 DEF NoGrid, AdjacencyIsSymmetric
  <2>2. CASE grid # NoGrid
    <3> SUFFICES ASSUME NEW p \in grid.points
                 PROVE  /\ p \notin grid.adjacency_list_[p]
                        /\ \A q \in grid.adjacency_list_[p] :
                             q \in grid.points /\ p \in grid.adjacency_list_[q]
      BY DEF AdjacencyIsSymmetric
    <3>1. \A q \in grid.points : /\ grid.adjacency_list_[q] = Neighbours(grid.points, q)
                                 /\ q.x \in Int /\ q.y \in Int
      BY <2>2, MadeGrid, PointsAreIntegral
    <3>2. p \notin grid.adjacency_list_[p]
      BY <3>1 DEF Neighbours
    <3>3. ASSUME NEW q \in grid.adjacency_list_[p]
          PROVE  q \in grid.points /\ p \in grid.adjacency_list_[q]
      <4>1. /\ q \in grid.points /\ q # p
            /\ q.x - p.x \in -1 .. 1 /\ q.y - p.y \in -1 .. 1
        BY <3>1, <3>3 DEF Neighbours
      <4>2. p.x - q.x \in -1 .. 1 /\ p.y - q.y \in -1 .. 1
        BY <3>1, <4>1
      <4> QED
        BY <3>1, <4>1, <4>2 DEF Neighbours
    <3> QED
      BY <3>2, <3>3
  <2> QED
    BY <2>1, <2>2
<1> QED
  BY <1>1, MadeInvariant, PTL

\* What a user draws.
Corners == Seq([x : Int, y : Int])

\* A drawn corner has whole coordinates.
LEMMA CornerType ==
  ASSUME NEW corners \in Corners
  PROVE  \A i \in DOMAIN corners : /\ corners[i].x \in Int /\ corners[i].y \in Int
                                  /\ \A axis \in {"x", "y"} : corners[i][axis] \in Int
<1>1. \A i \in DOMAIN corners : corners[i] \in [x : Int, y : Int]
  BY ElementType DEF Corners
<1> QED BY <1>1

\* On the grid as well.
LEMMA TruncateType == \A c \in Int : Truncate(c) \in Int
<1> SUFFICES ASSUME NEW c \in Int PROVE Truncate(c) \in Int
  OBVIOUS
<1> QED BY GridAssumption DEF Truncate

\* Every corner, moved onto the grid, is a point of it.
LEMMA CornerIsPoint ==
  ASSUME NEW corners \in Corners, NEW i \in DOMAIN corners
  PROVE  IntPolygon(corners)[i] \in GridPoints(IntPolygon(corners))
<1> DEFINE polygon == IntPolygon(corners)
<1>1. /\ DOMAIN polygon = DOMAIN corners
      /\ polygon[i] = [x |-> Truncate(corners[i].x), y |-> Truncate(corners[i].y)]
  BY DEF IntPolygon
<1>2. polygon[i].x \in Int /\ polygon[i].y \in Int
  BY <1>1, CornerType, TruncateType
<1>3. /\ polygon[i].x \in Span({polygon[j].x : j \in DOMAIN polygon})
      /\ polygon[i].y \in Span({polygon[j].y : j \in DOMAIN polygon})
  <2>1. ASSUME NEW S, NEW c \in S, c \in Int
        PROVE  c \in Span(S)
    <3>1. <<c, c>> \in S \X S /\ c \in <<c, c>>[1] .. <<c, c>>[2]
      BY <2>1
    <3> QED
      BY <2>1, <3>1 DEF Span
  <2>2. i \in DOMAIN polygon
    BY <1>1
  <2> QED
    BY <1>2, <2>1, <2>2
<1>4. polygon[i] \in Box(polygon)
  BY <1>1, <1>3 DEF Box
<1>5. IsInsidePolygon(polygon, polygon[i])
  BY <1>1 DEF IsInsidePolygon
<1> QED
  BY <1>4, <1>5 DEF GridPoints

\* Every corner is a point, so a grid is never empty; corners lie on whole
\* coordinates because the drawn ones do.
THEOREM CornersBelong == Spec => []CornersAreInGrid
<1>1. Init => drawn \in Polygons
  BY DEF Init
<1>2. drawn \in Polygons /\ [Construct]_vars => (drawn \in Polygons)'
  BY DEF Construct, vars
<1>3. Made /\ drawn \in Polygons => CornersAreInGrid
  BY GridAssumption, MadeGrid, CornerIsPoint DEF CornersAreInGrid, Corners
<1> QED
  BY <1>1, <1>2, <1>3, MadeInvariant, PTL DEF Spec

-----------------------------------------------------------------------------
(* Where the points lie.                                                   *)

\* What the division loses: less than a step, and never away from zero.
LEMMA TruncateLosesLess ==
  ASSUME NEW c \in Int
  PROVE  /\ Truncate(c) \in Int
         /\ c - kStep < Truncate(c) * kStep /\ Truncate(c) * kStep < c + kStep
         /\ c >= 0 => 0 <= Truncate(c) * kStep /\ Truncate(c) * kStep <= c
         /\ c < 0 => c <= Truncate(c) * kStep /\ Truncate(c) * kStep <= 0
<1> USE GridAssumption
<1>1. ASSUME NEW n \in Nat
      PROVE  /\ n \div kStep \in Nat
             /\ 0 <= (n \div kStep) * kStep /\ (n \div kStep) * kStep <= n
             /\ n < (n \div kStep) * kStep + kStep
  <2>1. n \div kStep \in Nat
    OBVIOUS
  <2>2. (n \div kStep) * kStep <= n
    OBVIOUS
  <2>3. n < (n \div kStep) * kStep + kStep
    OBVIOUS
  <2>4. \A q \in Nat : 0 <= q * kStep
    OBVIOUS
  <2> QED BY <2>1, <2>2, <2>3, <2>4
<1>2. CASE c >= 0
  <2>1. Truncate(c) = c \div kStep /\ c \in Nat
    BY <1>2 DEF Truncate
  <2>2. (c \div kStep) * kStep \in Int
    BY <1>1, <2>1
  <2> QED BY <1>1, <1>2, <2>1, <2>2
<1>3. CASE c < 0
  <2> DEFINE n == -c
             q == n \div kStep
  <2>1. Truncate(c) = -q /\ n \in Nat
    BY <1>3 DEF Truncate
  <2>2. q \in Nat /\ 0 <= q * kStep /\ q * kStep <= n /\ n < q * kStep + kStep
    BY <1>1, <2>1
  <2> HIDE DEF q
  <2>3. (-q) * kStep = -(q * kStep) /\ q * kStep \in Int
    BY <2>2
  <2> QED BY <1>3, <2>1, <2>2, <2>3
<1> QED BY <1>2, <1>3

\* A whole number between two truncated coordinates.
LEMMA BetweenTruncated ==
  ASSUME NEW a \in Int, NEW b \in Int, NEW c \in Int, Truncate(a) <= c, c <= Truncate(b)
  PROVE  /\ a - kStep < c * kStep /\ c * kStep < b + kStep
         /\ Abs(c * kStep) <= Abs(a) \/ Abs(c * kStep) <= Abs(b)
<1>1. \A m, n \in Int : m <= n => m * kStep <= n * kStep
  BY GridAssumption
<1>2. /\ Truncate(a) * kStep <= c * kStep /\ c * kStep <= Truncate(b) * kStep
      /\ Truncate(a) * kStep \in Int /\ Truncate(b) * kStep \in Int /\ c * kStep \in Int
      /\ kStep \in Int
  <2>1. Truncate(a) \in Int /\ Truncate(b) \in Int
    BY TruncateLosesLess
  <2>2. kStep \in Int /\ \A n \in Int : n * kStep \in Int
    BY GridAssumption
  <2>3. Truncate(a) * kStep <= c * kStep
    BY <1>1, <2>1
  <2>4. c * kStep <= Truncate(b) * kStep
    BY <1>1, <2>1
  <2> QED BY <2>1, <2>2, <2>3, <2>4
<1>3. /\ a - kStep < Truncate(a) * kStep /\ Truncate(b) * kStep < b + kStep
      /\ a >= 0 => 0 <= Truncate(a) * kStep
      /\ a < 0 => a <= Truncate(a) * kStep
      /\ b >= 0 => Truncate(b) * kStep <= b
      /\ b < 0 => Truncate(b) * kStep <= 0
  BY TruncateLosesLess
<1> DEFINE A == Truncate(a) * kStep
           B == Truncate(b) * kStep
           C == c * kStep
<1>4. /\ A <= C /\ C <= B /\ A \in Int /\ B \in Int /\ C \in Int /\ kStep \in Int
      /\ a - kStep < A /\ B < b + kStep
      /\ a >= 0 => 0 <= A
      /\ a < 0 => a <= A
      /\ b >= 0 => B <= b
      /\ b < 0 => B <= 0
  BY <1>2, <1>3
<1> HIDE DEF A, B, C
<1>5. a - kStep < C /\ C < b + kStep
  BY <1>4
<1>6. Abs(C) <= Abs(a) \/ Abs(C) <= Abs(b)
  BY <1>4 DEF Abs
<1> QED BY <1>5, <1>6 DEF C

LEMMA SpanMember ==
  ASSUME NEW S, NEW c \in Span(S)
  PROVE  \E a, b \in S : c \in a .. b
<1>1. PICK e \in S \X S : c \in e[1] .. e[2]
  BY DEF Span
<1> QED BY <1>1

\* A point of the grid of some corners lies less than a step outside their box, and no
\* farther from zero than a corner on either axis.
LEMMA PointIsNear ==
  ASSUME NEW corners \in Corners, NEW p \in GridPoints(IntPolygon(corners)), NEW axis \in {"x", "y"}
  PROVE  /\ \E i, j \in DOMAIN corners :
              /\ corners[i][axis] - kStep < p[axis] * kStep
              /\ p[axis] * kStep < corners[j][axis] + kStep
         /\ \E i \in DOMAIN corners : Abs(p[axis] * kStep) <= Abs(corners[i][axis])
<1> DEFINE polygon == IntPolygon(corners)
<1>1. p[axis] \in Span({polygon[i][axis] : i \in DOMAIN polygon})
  <2>1. /\ p.x \in Span({polygon[i].x : i \in DOMAIN polygon})
        /\ p.y \in Span({polygon[i].y : i \in DOMAIN polygon})
    BY DEF GridPoints, Box
  <2> HIDE DEF polygon
  <2>2. CASE axis = "x"
    BY <2>1, <2>2
  <2>3. CASE axis = "y"
    BY <2>1, <2>3
  <2> QED BY <2>2, <2>3
<1>2. \A i \in DOMAIN corners : corners[i][axis] \in Int
  BY CornerType
<1>3. \A i \in DOMAIN corners : polygon[i][axis] = Truncate(corners[i][axis])
  BY DEF IntPolygon
<1>4. DOMAIN polygon = DOMAIN corners
  BY DEF IntPolygon
<1>5. p[axis] \in Int
  BY PointsAreIntegral
<1> HIDE DEF polygon
<1>6. PICK a, b \in {polygon[i][axis] : i \in DOMAIN polygon} : p[axis] \in a .. b
  BY <1>1, SpanMember
<1>7. PICK i, j \in DOMAIN corners : a = Truncate(corners[i][axis]) /\ b = Truncate(corners[j][axis])
  BY <1>3, <1>4, <1>6
<1>8. a \in Int /\ b \in Int
  BY <1>2, <1>7, TruncateLosesLess
<1>9. /\ corners[i][axis] - kStep < p[axis] * kStep
      /\ p[axis] * kStep < corners[j][axis] + kStep
      /\ \/ Abs(p[axis] * kStep) <= Abs(corners[i][axis])
         \/ Abs(p[axis] * kStep) <= Abs(corners[j][axis])
  BY <1>2, <1>5, <1>6, <1>7, <1>8, BetweenTruncated
<1> QED BY <1>9

-----------------------------------------------------------------------------
(* How many points there are on a side.                                    *)

\* Of two coordinates that are at most e apart.
LEMMA TruncatedExtent ==
  ASSUME NEW a \in Int, NEW b \in Int, NEW e \in Nat, b - a <= e
  PROVE  Truncate(b) - Truncate(a) <= e \div kStep + 1
<1> DEFINE A == Truncate(a)
           B == Truncate(b)
           q == e \div kStep
<1>1. A \in Int /\ B \in Int /\ kStep \in Int /\ kStep >= 1
  BY TruncateType, GridAssumption
<1>2. /\ a >= 0 => a - kStep < A * kStep
      /\ a < 0 => a <= A * kStep
      /\ b >= 0 => B * kStep <= b
      /\ b < 0 => B * kStep < b + kStep /\ B * kStep <= 0
      /\ a >= 0 => 0 <= A * kStep
  BY TruncateLosesLess
<1>3. q \in Nat /\ e < (q + 1) * kStep
  BY GridAssumption
<1> HIDE DEF A, B, q
<1>4. A * kStep \in Int /\ B * kStep \in Int /\ (B - A) * kStep = B * kStep - A * kStep
  BY <1>1
<1>5. (B - A) * kStep < e + kStep
  BY <1>1, <1>2, <1>4
<1>6. ASSUME B - A >= q + 2  PROVE FALSE
  <2> DEFINE m == B - A
  <2>1. m * kStep >= (q + 2) * kStep
    <3>1. \A u, v \in Int : u >= v => u * kStep >= v * kStep
      BY <1>1
    <3> QED BY <1>1, <1>3, <1>6, <3>1
  <2>2. (q + 2) * kStep = (q + 1) * kStep + kStep
    BY <1>1, <1>3
  <2>3. (q + 1) * kStep \in Int /\ m * kStep \in Int
    BY <1>1, <1>3
  <2> QED BY <1>1, <1>3, <1>5, <2>1, <2>2, <2>3
<1> QED BY <1>1, <1>3, <1>6 DEF A, B, q

\* Of corners that are at most e apart: a side of the grid has no more than two points
\* above the number of steps that fit into e.
LEMMA SpanCount ==
  ASSUME NEW corners \in Corners, corners # <<>>, NEW axis \in {"x", "y"}, NEW e \in Nat,
         \A i, j \in DOMAIN corners : corners[i][axis] - corners[j][axis] <= e
  PROVE  LET side == Span({IntPolygon(corners)[i][axis] : i \in DOMAIN IntPolygon(corners)})
         IN  Cardinality(side) \in Nat /\ Cardinality(side) <= e \div kStep + 2
<1> DEFINE polygon == IntPolygon(corners)
           S == {polygon[i][axis] : i \in DOMAIN polygon}
           d == e \div kStep + 1
<1>1. d \in Nat
  BY GridAssumption
<1>2. /\ DOMAIN polygon = DOMAIN corners
      /\ \A i \in DOMAIN corners : /\ corners[i][axis] \in Int
                                    /\ polygon[i][axis] = Truncate(corners[i][axis])
  BY CornerType DEF IntPolygon
<1> HIDE DEF polygon
<1>3. S \subseteq Int /\ \A a, b \in S : b - a <= d
  <2>1. ASSUME NEW i \in DOMAIN corners, NEW j \in DOMAIN corners
        PROVE  /\ Truncate(corners[i][axis]) - Truncate(corners[j][axis]) <= d
               /\ Truncate(corners[i][axis]) \in Int
    BY <1>2, TruncatedExtent, TruncateType
  <2> QED BY <1>2, <2>1
<1>4. PICK s : s \in S
  <2>1. 1 \in DOMAIN corners
    BY DEF Corners
  <2> QED BY <1>2, <2>1
<1> HIDE DEF S, d
<1>5. ASSUME NEW c \in Span(S)
      PROVE  c \in Int /\ \E a, b \in S : a <= c /\ c <= b
  <2>1. PICK a, b \in S : c \in a .. b
    BY SpanMember
  <2>2. a \in Int /\ b \in Int
    BY <1>3
  <2> QED BY <2>1, <2>2
<1>6. \A c, f \in Span(S) : f - c <= d
  BY <1>1, <1>3, <1>5
<1>7. s \in Span(S)
  <2>1. <<s, s>> \in S \X S /\ s \in <<s, s>>[1] .. <<s, s>>[2]
    BY <1>3, <1>4
  <2> QED BY <2>1 DEF Span
<1>8. PICK m \in Span(S) : \A c \in Span(S) : m <= c
  <2>1. s \in Int /\ s - d \in Int
    BY <1>1, <1>3, <1>4
  <2>2. \A c \in Span(S) : s - d <= c
    BY <1>1, <1>5, <1>6, <1>7
  <2>3. Span(S) \subseteq Int
    BY <1>5
  <2> QED BY <1>7, <2>1, <2>2, <2>3, IntMinimum
<1>9. Span(S) \subseteq m .. m + d /\ m \in Int /\ m + d \in Int
  BY <1>1, <1>5, <1>6, <1>8
<1>10. /\ IsFiniteSet(m .. m + d) /\ Cardinality(m .. m + d) = d + 1
  BY <1>1, <1>9, FS_Interval
<1>11. IsFiniteSet(Span(S)) /\ Cardinality(Span(S)) <= d + 1
  BY <1>9, <1>10, FS_Subset
<1>12. Cardinality(Span(S)) \in Nat
  BY <1>11, FS_CardinalityType
<1>13. d + 1 = e \div kStep + 2
  BY GridAssumption DEF d
<1> QED BY <1>11, <1>12, <1>13 DEF S, polygon

-----------------------------------------------------------------------------
(* GetClosestPointId.                                                      *)

Point == [x : Int, y : Int]

\* It is no smaller than what the coordinates differ by.
LEMMA SquaredDistanceType ==
  ASSUME NEW c \in Point, NEW p \in Point
  PROVE  /\ SquaredDistance(c, p) \in Nat
         /\ c.x - p.x * kStep <= SquaredDistance(c, p)
         /\ c.y - p.y * kStep <= SquaredDistance(c, p)
<1>1. \A t \in Int : t * t \in Nat /\ t <= t * t
  <2> SUFFICES ASSUME NEW t \in Int PROVE t * t \in Nat /\ t <= t * t
    OBVIOUS
  <2>1. CASE t > 0
    BY <2>1
  <2>2. CASE t <= 0
    BY <2>2
  <2> QED BY <2>1, <2>2
<1> DEFINE t == c.x - p.x * kStep
           u == c.y - p.y * kStep
<1>2. t \in Int /\ u \in Int
  <2>1. c.x \in Int /\ c.y \in Int /\ p.x \in Int /\ p.y \in Int
    BY DEF Point
  <2> QED BY <2>1, GridAssumption
<1>3. SquaredDistance(c, p) = t * t + u * u
  BY DEF SquaredDistance
<1> HIDE DEF t, u
<1>4. t * t \in Nat /\ t <= t * t /\ u * u \in Nat /\ u <= u * u
  BY <1>1, <1>2
<1>5. SquaredDistance(c, p) \in Nat /\ t <= SquaredDistance(c, p) /\ u <= SquaredDistance(c, p)
  BY <1>2, <1>3, <1>4
<1> QED BY <1>5 DEF t, u

\* A coordinate on the grid is not far below one on the chart that it is close to.
LEMMA GridCoordinateBound ==
  ASSUME NEW c \in Int, NEW n \in Int, NEW d \in Nat, c - n * kStep <= d
  PROVE  (IF c - d < 0 THEN c - d ELSE 0) <= n
<1>1. CASE n >= 0
  BY <1>1
<1>2. CASE n < 0
  <2>1. n * kStep <= n /\ n * kStep \in Int
    <3>1. kStep \in Int /\ kStep >= 1
      BY GridAssumption
    <3>2. n * kStep <= n * 1
      BY <1>2, <3>1
    <3> QED BY <3>1, <3>2
  <2> QED BY <1>2, <2>1
<1> QED BY <1>1, <1>2

\* There is a first one of the closest points, and it is the one returned.
LEMMA ClosestPoint ==
  ASSUME NEW points, points # {}, points \subseteq Point, NEW c \in Point
  PROVE  /\ GetClosestPoint(points, c) \in points
         /\ \A q \in points :
              SquaredDistance(c, GetClosestPoint(points, c)) <= SquaredDistance(c, q)
<1> DEFINE D(p) == SquaredDistance(c, p)
           low(b, d) == IF b - d < 0 THEN b - d ELSE 0
           First(p) == \A q \in points \ {p} :
             D(p) < D(q) \/ (D(p) = D(q) /\ Before(p, q))
<1>1. \A p \in points : D(p) \in Nat /\ p.x \in Int /\ p.y \in Int
  BY SquaredDistanceType DEF Point
<1>2. PICK d \in {D(p) : p \in points} : \A e \in {D(p) : p \in points} : d <= e
  <2>1. {D(p) : p \in points} \subseteq Nat /\ {D(p) : p \in points} # {}
    BY <1>1
  <2> HIDE DEF D
  <2> QED BY <2>1, NatMinimum
<1> DEFINE closest == {p \in points : D(p) = d}
<1>3. closest # {} /\ d \in Nat /\ \A p \in points : d <= D(p)
  BY <1>1, <1>2
<1>4. c.x \in Int /\ c.y \in Int
  BY DEF Point
<1>5. \A p \in closest : low(c.x, d) <= p.x /\ low(c.y, d) <= p.y
  <2> SUFFICES ASSUME NEW p \in closest PROVE low(c.x, d) <= p.x /\ low(c.y, d) <= p.y
    OBVIOUS
  <2>1. c.x - p.x * kStep <= d /\ c.y - p.y * kStep <= d
    BY SquaredDistanceType
  <2>2. p.x \in Int /\ p.y \in Int
    BY <1>1
  <2> HIDE DEF closest
  <2> QED BY <1>3, <1>4, <2>1, <2>2, GridCoordinateBound
<1>6. low(c.x, d) \in Int /\ low(c.y, d) \in Int
  BY <1>3, <1>4
<1> HIDE DEF low
<1>7. PICK left \in {p.x : p \in closest} : \A n \in {p.x : p \in closest} : left <= n
  <2> DEFINE xs == {p.x : p \in closest}
  <2>1. xs \subseteq Int /\ xs # {} /\ \A n \in xs : low(c.x, d) <= n
    BY <1>1, <1>3, <1>5
  <2> HIDE DEF xs
  <2>2. \E m \in xs : \A n \in xs : m <= n
    BY <1>6, <2>1, IntMinimum
  <2> QED BY <2>2 DEF xs
<1> DEFINE column == {p \in closest : p.x = left}
<1>8. PICK bottom \in {p.y : p \in column} : \A n \in {p.y : p \in column} : bottom <= n
  <2> DEFINE ys == {p.y : p \in column}
  <2>1. ys \subseteq Int /\ ys # {} /\ \A n \in ys : low(c.y, d) <= n
    BY <1>1, <1>5, <1>7
  <2> HIDE DEF ys
  <2>2. \E m \in ys : \A n \in ys : m <= n
    BY <1>6, <2>1, IntMinimum
  <2> QED BY <2>2 DEF ys
<1>9. PICK p \in column : p.y = bottom
  BY <1>8
<1>10. First(p)
  <2> SUFFICES ASSUME NEW q \in points, q # p
               PROVE  D(p) < D(q) \/ (D(p) = D(q) /\ Before(p, q))
    OBVIOUS
  <2>1. D(p) = d /\ d <= D(q) /\ D(q) \in Nat /\ q.x \in Int /\ q.y \in Int
    BY <1>1, <1>3, <1>9
  <2>2. ASSUME D(q) = d PROVE Before(p, q)
    <3>1. q \in closest /\ left <= q.x /\ p.x = left
      BY <1>7, <1>9, <2>2
    <3>2. CASE q.x = left
      <4>1. bottom <= q.y /\ p.y = bottom
        BY <1>8, <1>9, <3>1, <3>2
      <4>2. q.y # p.y
        <5>1. p \in Point /\ q \in Point
          BY <1>9
        <5> QED BY <2>2, <3>1, <3>2, <5>1 DEF Point
      <4> QED BY <1>1, <1>9, <2>1, <3>1, <3>2, <4>1, <4>2 DEF Before
    <3>3. CASE q.x # left
      BY <1>1, <1>9, <2>1, <3>1, <3>3 DEF Before
    <3> QED BY <3>2, <3>3
  <2> HIDE DEF D
  <2>3. d < D(q) \/ D(q) = d
    BY <1>3, <2>1
  <2> QED BY <2>1, <2>2, <2>3
<1>11. \E r \in points : First(r)
  BY <1>9, <1>10
<1> DEFINE found == GetClosestPoint(points, c)
<1>12. found \in points /\ First(found)
  BY <1>11 DEF GetClosestPoint
<1> HIDE DEF found
<1>13. \A q \in points : D(found) <= D(q)
  BY <1>1, <1>12
<1> QED BY <1>12, <1>13 DEF found

-----------------------------------------------------------------------------
\* On every grid each point lies less than a step outside the drawn polygon's box, and
\* no farther from zero than a corner on either axis.
THEOREM GridStaysNear == Spec => []GridIsNearDrawing
<1>1. Init => drawn \in Polygons
  BY DEF Init
<1>2. drawn \in Polygons /\ [Construct]_vars => (drawn \in Polygons)'
  BY DEF Construct, vars
<1>3. ASSUME Made, drawn \in Polygons
      PROVE  GridIsNearDrawing
  <2>1. drawn \in Corners
    BY <1>3, GridAssumption DEF Corners
  <2>2. \A p \in grid.points : p \in GridPoints(IntPolygon(drawn))
    BY <1>3, MadeGrid DEF NoGrid
  <2> QED BY <2>1, <2>2, PointIsNear DEF GridIsNearDrawing
<1> QED BY <1>1, <1>2, <1>3, MadeInvariant, PTL DEF Spec

-----------------------------------------------------------------------------
(* What is inside.                                                         *)

\* The sign of a product.
LEMMA ProductSign ==
  ASSUME NEW a \in Int, NEW b \in Int
  PROVE  /\ a * b \in Int
         /\ a > 0 /\ b > 0 => a * b > 0
         /\ a > 0 /\ b <= 0 => a * b <= 0
         /\ a <= 0 /\ b > 0 => a * b <= 0
         /\ a <= 0 /\ b <= 0 => a * b >= 0
         /\ a < 0 /\ b > 0 => a * b < 0
         /\ a > 0 /\ b < 0 => a * b < 0
         /\ a = 0 \/ b = 0 => a * b = 0
<1> DEFINE x == a * b
<1>1. x \in Int
  OBVIOUS
<1>2. a > 0 /\ b > 0 => x > 0
  OBVIOUS
<1>3. a > 0 /\ b <= 0 => x <= 0
  OBVIOUS
<1>4. a <= 0 /\ b > 0 => x <= 0
  OBVIOUS
<1>5. a <= 0 /\ b <= 0 => x >= 0
  OBVIOUS
<1>6. a < 0 /\ b > 0 => x < 0
  OBVIOUS
<1>7. a > 0 /\ b < 0 => x < 0
  OBVIOUS
<1>8. a = 0 \/ b = 0 => x = 0
  OBVIOUS
<1> QED BY <1>1, <1>2, <1>3, <1>4, <1>5, <1>6, <1>7, <1>8

\* Seen from the origin, an edge from (u, s) to (w, t) that does not touch it meets the
\* two rays once in all iff it leads into the quarter between them or out of it.
LEMMA QuarterOfOrigin ==
  ASSUME NEW u \in Int, NEW s \in Int, NEW w \in Int, NEW t \in Int,
         ~(/\ u * t = w * s
           /\ (u <= 0 /\ 0 <= w) \/ (w <= 0 /\ 0 <= u)
           /\ (s <= 0 /\ 0 <= t) \/ (t <= 0 /\ 0 <= s))
  PROVE  LET right == (s > 0) # (t > 0) /\ IF t > s THEN u * t > w * s ELSE u * t < w * s
             above == (u > 0) # (w > 0) /\ IF w > u THEN w * s > u * t ELSE w * s < u * t
         IN  (right <=> above) <=> (u > 0 /\ s > 0 <=> w > 0 /\ t > 0)
<1> DEFINE x == u * t
           y == w * s
<1>1. /\ x \in Int
      /\ u > 0 /\ t > 0 => x > 0
      /\ u > 0 /\ t <= 0 => x <= 0
      /\ u <= 0 /\ t > 0 => x <= 0
      /\ u <= 0 /\ t <= 0 => x >= 0
      /\ u = 0 \/ t = 0 => x = 0
  BY ProductSign
<1>2. /\ y \in Int
      /\ w > 0 /\ s > 0 => y > 0
      /\ w > 0 /\ s <= 0 => y <= 0
      /\ w <= 0 /\ s > 0 => y <= 0
      /\ w <= 0 /\ s <= 0 => y >= 0
      /\ w = 0 \/ s = 0 => y = 0
  BY ProductSign
<1>3. ~(/\ x = y
        /\ (u <= 0 /\ 0 <= w) \/ (w <= 0 /\ 0 <= u)
        /\ (s <= 0 /\ 0 <= t) \/ (t <= 0 /\ 0 <= s))
  OBVIOUS
<1> HIDE DEF x, y
<1>4. LET right == (s > 0) # (t > 0) /\ IF t > s THEN x > y ELSE x < y
          above == (u > 0) # (w > 0) /\ IF w > u THEN y > x ELSE y < x
      IN  (right <=> above) <=> (u > 0 /\ s > 0 <=> w > 0 /\ t > 0)
  BY <1>1, <1>2, <1>3
<1> QED BY <1>4 DEF x, y
\* v is in the quarter between the ray to the right of p and the one upwards.
InQuarter(v, p) == v.x > p.x /\ v.y > p.y

\* An edge that does not touch p crosses the two rays once in all iff it leads into the
\* quarter or out of it.
LEMMA EdgeTurns ==
  ASSUME NEW a \in [x : Int, y : Int], NEW b \in [x : Int, y : Int], NEW p \in [x : Int, y : Int],
         ~OnEdge(a, b, p)
  PROVE  (Crosses(a, b, p) <=> Crosses(Flip(a), Flip(b), Flip(p))) <=> (InQuarter(a, p) <=> InQuarter(b, p))
<1> DEFINE u == a.x - p.x
           s == a.y - p.y
           w == b.x - p.x
           t == b.y - p.y
<1>1. u \in Int /\ s \in Int /\ w \in Int /\ t \in Int
  OBVIOUS
<1>2. /\ (b.x - a.x) * (p.y - a.y) = u * s - w * s
      /\ (p.x - a.x) * (b.y - a.y) = u * s - u * t
      /\ (b.y - a.y) * (p.x - a.x) = u * s - u * t
      /\ (p.y - a.y) * (b.x - a.x) = u * s - w * s
  <2>1. b.x - a.x = w - u /\ p.y - a.y = -s /\ p.x - a.x = -u /\ b.y - a.y = t - s
    OBVIOUS
  <2> HIDE DEF u, s, w, t
  <2>2. (w - u) * (-s) = u * s - w * s /\ (-u) * (t - s) = u * s - u * t
    BY <1>1
  <2>3. (t - s) * (-u) = u * s - u * t /\ (-s) * (w - u) = u * s - w * s
    BY <1>1
  <2> QED BY <2>1, <2>2, <2>3
<1>3. u * s \in Int /\ w * s \in Int /\ u * t \in Int
  BY <1>1, ProductSign
<1>4. /\ a.y > p.y <=> s > 0
      /\ b.y > p.y <=> t > 0
      /\ a.x > p.x <=> u > 0
      /\ b.x > p.x <=> w > 0
      /\ b.y > a.y <=> t > s
      /\ b.x > a.x <=> w > u
      /\ a.x <= p.x <=> u <= 0
      /\ p.x <= a.x <=> 0 <= u
      /\ b.x <= p.x <=> w <= 0
      /\ p.x <= b.x <=> 0 <= w
      /\ a.y <= p.y <=> s <= 0
      /\ p.y <= a.y <=> 0 <= s
      /\ b.y <= p.y <=> t <= 0
      /\ p.y <= b.y <=> 0 <= t
  OBVIOUS
<1> HIDE DEF u, s, w, t
<1>5. Crosses(a, b, p) <=> (s > 0) # (t > 0) /\ IF t > s THEN u * t > w * s ELSE u * t < w * s
  BY <1>2, <1>3, <1>4 DEF Crosses
<1>6. Crosses(Flip(a), Flip(b), Flip(p)) <=>
        (u > 0) # (w > 0) /\ IF w > u THEN w * s > u * t ELSE w * s < u * t
  BY <1>2, <1>3, <1>4 DEF Crosses, Flip
<1>7. InQuarter(a, p) <=> u > 0 /\ s > 0
  BY <1>4 DEF InQuarter
<1>8. InQuarter(b, p) <=> w > 0 /\ t > 0
  BY <1>4 DEF InQuarter
<1>9. ~(/\ u * t = w * s
        /\ (u <= 0 /\ 0 <= w) \/ (w <= 0 /\ 0 <= u)
        /\ (s <= 0 /\ 0 <= t) \/ (t <= 0 /\ 0 <= s))
  BY <1>2, <1>3, <1>4 DEF OnEdge
<1>10. LET right == (s > 0) # (t > 0) /\ IF t > s THEN u * t > w * s ELSE u * t < w * s
           above == (u > 0) # (w > 0) /\ IF w > u THEN w * s > u * t ELSE w * s < u * t
       IN  (right <=> above) <=> (u > 0 /\ s > 0 <=> w > 0 /\ t > 0)
  BY <1>1, <1>9, QuarterOfOrigin
<1> QED BY <1>5, <1>6, <1>7, <1>8, <1>10

\* Two pairs of sets differ in the same elements; if those of one pair are equally
\* large, those of the other are both even or both odd.
LEMMA SameParity ==
  ASSUME NEW H, NEW V, NEW A, NEW B,
         IsFiniteSet(H), IsFiniteSet(V), IsFiniteSet(A), IsFiniteSet(B),
         Cardinality(A) = Cardinality(B),
         (H \ V) \cup (V \ H) = (A \ B) \cup (B \ A)
  PROVE  Cardinality(H) % 2 = Cardinality(V) % 2
<1>1. ASSUME NEW S, NEW T, IsFiniteSet(S), IsFiniteSet(T)
      PROVE  /\ Cardinality(S) \in Nat /\ Cardinality(T) \in Nat /\ Cardinality(S \cap T) \in Nat
             /\ Cardinality((S \ T) \cup (T \ S)) = Cardinality(S) + Cardinality(T) - 2 * Cardinality(S \cap T)
  <2>1. /\ IsFiniteSet(S \ T) /\ Cardinality(S \ T) = Cardinality(S) - Cardinality(S \cap T)
        /\ IsFiniteSet(T \ S) /\ Cardinality(T \ S) = Cardinality(T) - Cardinality(T \cap S)
    BY <1>1, FS_Difference
  <2>2. T \cap S = S \cap T /\ (S \ T) \cap (T \ S) = {}
    OBVIOUS
  <2>3. Cardinality((S \ T) \cup (T \ S)) = Cardinality(S \ T) + Cardinality(T \ S) - 0
    BY <2>1, <2>2, FS_Union, FS_EmptySet
  <2>4. Cardinality(S) \in Nat /\ Cardinality(T) \in Nat /\ Cardinality(S \cap T) \in Nat
    BY <1>1, FS_CardinalityType, FS_Intersection
  <2>5. Cardinality(T \cap S) = Cardinality(S \cap T)
    BY <2>2
  <2> DEFINE cs == Cardinality(S)
             ct == Cardinality(T)
             both == Cardinality(S \cap T)
             d == Cardinality((S \ T) \cup (T \ S))
  <2>6. d = (cs - both) + (ct - both) - 0
    BY <2>1, <2>3, <2>5
  <2>7. cs \in Nat /\ ct \in Nat /\ both \in Nat
    BY <2>4
  <2> HIDE DEF cs, ct, both, d
  <2>8. d = cs + ct - 2 * both
    BY <2>6, <2>7
  <2> QED BY <2>7, <2>8 DEF cs, ct, both, d
<1>2. /\ Cardinality(H) \in Nat /\ Cardinality(V) \in Nat /\ Cardinality(H \cap V) \in Nat
      /\ Cardinality((H \ V) \cup (V \ H)) = Cardinality(H) + Cardinality(V) - 2 * Cardinality(H \cap V)
  BY <1>1
<1>3. /\ Cardinality(A) \in Nat /\ Cardinality(A \cap B) \in Nat
      /\ Cardinality((A \ B) \cup (B \ A)) = Cardinality(A) + Cardinality(A) - 2 * Cardinality(A \cap B)
  BY <1>1
<1>4. Cardinality(H) + Cardinality(V) - 2 * Cardinality(H \cap V)
        = Cardinality(A) + Cardinality(A) - 2 * Cardinality(A \cap B)
  BY <1>2, <1>3
<1> QED BY <1>2, <1>3, <1>4

\* Around a polygon, as many vertices have a property as are behind one that has it.
LEMMA AroundPolygon ==
  ASSUME NEW polygon \in Corners, NEW S
  PROVE  LET A == {i \in DOMAIN polygon : polygon[i] \in S}
             B == {i \in DOMAIN polygon : Previous(polygon, i) \in S}
         IN  IsFiniteSet(A) /\ IsFiniteSet(B) /\ Cardinality(A) = Cardinality(B)
<1> DEFINE n == Len(polygon)
           before == [i \in 1 .. n |-> IF i = 1 THEN n ELSE i - 1]
           A == {i \in DOMAIN polygon : polygon[i] \in S}
           B == {i \in DOMAIN polygon : Previous(polygon, i) \in S}
           f == [i \in B |-> before[i]]
<1>1. DOMAIN polygon = 1 .. n /\ n \in Nat
  BY DEF Corners
<1>2. IsFiniteSet(A) /\ IsFiniteSet(B)
  <2>1. IsFiniteSet(1 .. n)
    BY <1>1, FS_Interval
  <2>2. A \in SUBSET (1 .. n) /\ B \in SUBSET (1 .. n)
    BY <1>1
  <2> QED BY <2>1, <2>2, FS_Subset
<1>3. \A i \in 1 .. n : before[i] \in 1 .. n /\ Previous(polygon, i) = polygon[before[i]]
  BY <1>1 DEF Previous
<1>4. f \in [B -> A]
  BY <1>1, <1>3
<1>5. \A i, j \in B : f[i] = f[j] => i = j
  BY <1>1
<1>6. \A j \in A : \E i \in B : f[i] = j
  <2> SUFFICES ASSUME NEW j \in A PROVE \E i \in B : f[i] = j
    OBVIOUS
  <2> DEFINE i == IF j = n THEN 1 ELSE j + 1
  <2>1. i \in 1 .. n /\ before[i] = j
    BY <1>1
  <2>2. i \in B
    BY <1>1, <1>3, <2>1
  <2> QED BY <2>1, <2>2
<1> HIDE DEF f, A, B
<1>7. ExistsBijection(B, A)
  <2>1. f \in Injection(B, A)
    BY <1>4, <1>5 DEF Injection, IsInjective
  <2>2. f \in Surjection(B, A)
    BY <1>4, <1>6 DEF Surjection
  <2> QED BY <2>1, <2>2 DEF ExistsBijection, Bijection
<1>8. Cardinality(A) = Cardinality(B)
  BY <1>2, <1>7, FS_Bijection
<1> QED BY <1>2, <1>8 DEF A, B

\* Away from the border the ray upwards decides as the one to the right does.
LEMMA RaysAgree ==
  ASSUME NEW polygon \in Corners, NEW p \in [x : Int, y : Int], ~OnBorder(polygon, p)
  PROVE  IsInsidePolygon(polygon, p) <=> Inside(polygon, p)
<1> DEFINE H == {i \in DOMAIN polygon : Crosses(polygon[i], Previous(polygon, i), p)}
           V == CrossingsAbove(polygon, p)
           S == {v \in [x : Int, y : Int] : InQuarter(v, p)}
           A == {i \in DOMAIN polygon : polygon[i] \in S}
           B == {i \in DOMAIN polygon : Previous(polygon, i) \in S}
<1>1. DOMAIN polygon = 1 .. Len(polygon) /\ Len(polygon) \in Nat
  BY DEF Corners
<1>2. \A i \in DOMAIN polygon : polygon[i] \in [x : Int, y : Int] /\ Previous(polygon, i) \in [x : Int, y : Int]
  <2>1. \A i \in DOMAIN polygon : polygon[i] \in [x : Int, y : Int]
    BY ElementType DEF Corners
  <2> QED BY <1>1, <2>1 DEF Previous
<1>3. IsFiniteSet(H) /\ IsFiniteSet(V)
  <2>1. IsFiniteSet(1 .. Len(polygon))
    BY <1>1, FS_Interval
  <2>2. H \in SUBSET (1 .. Len(polygon)) /\ V \in SUBSET (1 .. Len(polygon))
    BY <1>1 DEF CrossingsAbove
  <2> QED BY <2>1, <2>2, FS_Subset
<1>4. IsFiniteSet(A) /\ IsFiniteSet(B) /\ Cardinality(A) = Cardinality(B)
  BY AroundPolygon
<1>5. ASSUME NEW i \in DOMAIN polygon PROVE (i \in H <=> i \in V) <=> (i \in A <=> i \in B)
  <2>1. ~OnEdge(polygon[i], Previous(polygon, i), p)
    BY DEF OnBorder
  <2>2. (Crosses(polygon[i], Previous(polygon, i), p)
           <=> Crosses(Flip(polygon[i]), Flip(Previous(polygon, i)), Flip(p)))
        <=> (InQuarter(polygon[i], p) <=> InQuarter(Previous(polygon, i), p))
    BY <1>2, <2>1, EdgeTurns
  <2>3. /\ i \in H <=> Crosses(polygon[i], Previous(polygon, i), p)
        /\ i \in V <=> Crosses(Flip(polygon[i]), Flip(Previous(polygon, i)), Flip(p))
    BY DEF CrossingsAbove
  <2>4. /\ i \in A <=> InQuarter(polygon[i], p)
        /\ i \in B <=> InQuarter(Previous(polygon, i), p)
    BY <1>2
  <2> HIDE DEF H, V, A, B
  <2> QED BY <2>2, <2>3, <2>4
<1>6. (H \ V) \cup (V \ H) = (A \ B) \cup (B \ A)
  <2>1. H \subseteq DOMAIN polygon /\ V \subseteq DOMAIN polygon /\ A \subseteq DOMAIN polygon /\ B \subseteq DOMAIN polygon
    BY DEF CrossingsAbove
  <2> HIDE DEF H, V, A, B
  <2> QED BY <1>5, <2>1
<1>7. Cardinality(H) % 2 = Cardinality(V) % 2
  BY <1>3, <1>4, <1>6, SameParity
<1>8. ASSUME NEW i \in DOMAIN polygon
      PROVE  polygon[i] # p /\ ~OnHorizontal(polygon[i], Previous(polygon, i), p)
  <2> DEFINE a == polygon[i]
             b == Previous(polygon, i)
  <2>1. a \in [x : Int, y : Int] /\ b \in [x : Int, y : Int] /\ ~OnEdge(a, b, p)
    BY <1>2 DEF OnBorder
  <2> HIDE DEF a, b
  <2>2. CASE a = p
    <3>1. (b.x - a.x) * (p.y - a.y) = 0 /\ (p.x - a.x) * (b.y - a.y) = 0
      BY <2>1, <2>2
    <3> QED BY <2>1, <2>2, <3>1 DEF OnEdge
  <2>3. CASE OnHorizontal(a, b, p)
    <3>1. p.y - a.y = 0 /\ b.y - a.y = 0
      BY <2>1, <2>3 DEF OnHorizontal
    <3>2. (b.x - a.x) * (p.y - a.y) = 0 /\ (p.x - a.x) * (b.y - a.y) = 0
      BY <2>1, <3>1
    <3> QED BY <2>1, <2>3, <3>2 DEF OnEdge, OnHorizontal
  <2> QED BY <2>2, <2>3 DEF a, b
<1> QED BY <1>7, <1>8 DEF IsInsidePolygon, Inside

\* For every polygon, one that crosses itself or has no area included: off its border
\* the grid holds what the even-odd rule calls inside, whichever way the ray goes.
THEOREM GridHoldsInside == Spec => []GridIsInside
<1>1. Init => drawn \in Polygons
  BY DEF Init
<1>2. drawn \in Polygons /\ [Construct]_vars => (drawn \in Polygons)'
  BY DEF Construct, vars
<1>3. Made /\ drawn \in Polygons => GridIsInside
  <2> SUFFICES ASSUME Made, drawn \in Polygons, grid # NoGrid,
                      NEW p \in Box(IntPolygon(drawn)), ~OnBorder(IntPolygon(drawn), p)
               PROVE  p \in grid.points <=> Inside(IntPolygon(drawn), p)
    BY DEF GridIsInside
  <2>1. IntPolygon(drawn) \in Corners
    <3>1. drawn \in Corners
      BY GridAssumption DEF Corners
    <3>2. \A i \in DOMAIN drawn : IntPolygon(drawn)[i] \in [x : Int, y : Int]
      BY <3>1, CornerType, TruncateType DEF IntPolygon
    <3>3. DOMAIN IntPolygon(drawn) = 1 .. Len(drawn) /\ Len(drawn) \in Nat
      BY <3>1 DEF IntPolygon, Corners
    <3>4. IntPolygon(drawn) = [i \in DOMAIN IntPolygon(drawn) |-> IntPolygon(drawn)[i]]
      BY DEF IntPolygon
    <3> DEFINE corner(i) == IntPolygon(drawn)[i]
               n == Len(drawn)
    <3>5. \A i \in 1 .. n : corner(i) \in [x : Int, y : Int]
      BY <3>2, <3>3 DEF IntPolygon
    <3>6. IntPolygon(drawn) = [i \in 1 .. n |-> corner(i)]
      BY <3>3, <3>4
    <3> HIDE DEF corner, n
    <3>7. [i \in 1 .. n |-> corner(i)] \in [1 .. n -> [x : Int, y : Int]]
      BY <3>5
    <3> QED BY <3>3, <3>6, <3>7 DEF Corners, n
  <2>2. p \in [x : Int, y : Int]
    BY SpanMember DEF Box
  <2>3. IsInsidePolygon(IntPolygon(drawn), p) <=> Inside(IntPolygon(drawn), p)
    BY <2>1, <2>2, RaysAgree
  <2> QED BY <2>3, MadeGrid DEF GridPoints
<1> QED
  BY <1>1, <1>2, <1>3, MadeInvariant, PTL DEF Spec

=============================================================================
