-------------------------- MODULE MCBestRouteMaker --------------------------
(***************************************************************************)
(* BestRouteMaker on a small grid of FindRouteGrid.                        *)
(***************************************************************************)
EXTENDS BestRouteMaker

CONSTANT Tip    \* how far the drawn bounds reach

\* MakeFindRouteGrid: the constant part of FindRouteGrid, with a step of 10.
Grid == INSTANCE FindRouteGrid WITH
  kStep <- 10, kMaxCheckCount <- 9, kMaxVertexCount <- 81, Polygons <- {},
  drawn <- <<>>, grid <- [points |-> {}, adjacency_list_ |-> <<>>]

\* Corners that are no grid points, also below zero.
MCBounds == <<[x |-> -4, y |-> -19], [x |-> Tip, y |-> -15], [x |-> 24, y |-> 8], [x |-> 3, y |-> 2]>>
MCGrid == Grid!MakeGrid(MCBounds)

GridId(p) == Grid!Id(MCGrid.points, p)
PointOf == [i \in 0 .. Cardinality(MCGrid.points) - 1 |-> CHOOSE p \in MCGrid.points : GridId(p) = i]
MCPoints == DOMAIN PointOf

X(p) == PointOf[p].x
Y(p) == PointOf[p].y

MCAdj == [i \in MCPoints |-> {GridId(q) : q \in MCGrid.adjacency_list_[PointOf[i]]}]

\* Uneven legs; a very fast ship covers one of them in less than a second.
MCDuration(p, q, wave) ==
  (IF {p, q} = {0, 1} THEN 0
   ELSE IF X(p) # X(q) /\ Y(p) # Y(q) THEN 5 + (p % 2) ELSE 2 + ((p * q) % 4))
  + wave

\* Two forecasts for every other point: one that ends at the departure, one later.
MCForecasts ==
  [p \in MCPoints |-> IF p % 2 = 0
     THEN <<[end_at |-> DepartTime + 12, wave |-> 3], [end_at |-> DepartTime, wave |-> 1]>>
     ELSE <<>>]

MCWaveHeights == {0, 1, 3}

MCDangerChoices == SUBSET MCPoints

\* Ends drawn inside the bounds and outside of them.
Closest(x, y) == GridId(Grid!GetClosestPoint(MCGrid.points, [x |-> x, y |-> y]))
MCRoutes == {<<[start |-> Closest(a, -14), end |-> Closest(b, c)]>> : a \in {0, 40}, b \in {-3, 17}, c \in {-30, 4}}

\* Routes drawn with one and with two segments.
MCLongRoutes == MCRoutes \cup {r \o s : r, s \in MCRoutes}

=============================================================================
