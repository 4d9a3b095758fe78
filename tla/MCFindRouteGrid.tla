---------------------------- MODULE MCFindRouteGrid ----------------------------
(***************************************************************************)
(* FindRouteGrid on triangles and quadrangles, also ones that cross        *)
(* themselves, are flat or are thinner than a step.                        *)
(***************************************************************************)
EXTENDS FindRouteGrid

Coordinates == {-5, -3, -1, 0, 2, 5, 7}
Vertices == [x : Coordinates, y : Coordinates]
P(a, b) == [x |-> a, y |-> b]

MCPolygons ==
  {<<>>} \cup {<<v>> : v \in Vertices}
  \cup {<<P(-5, -1), v, w>> : v, w \in Vertices}
  \cup {<<P(-5, 5), v, P(5, 5), w>> : v, w \in Vertices}

=============================================================================
