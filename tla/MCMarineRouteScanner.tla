------------------------- MODULE MCMarineRouteScanner -------------------------
(***************************************************************************)
(* One check, for every route of up to three legs, some ships and all      *)
(* small databases.                                                        *)
(***************************************************************************)
EXTENDS RouteCheck

CONSTANT MaxPos    \* where the courses end

MCSlowed(speed, wave) == IF wave > 1 THEN 1 ELSE speed
\* A sine of 1 in 4 per unit of speed, rounded to whole thousandths, and the cosine of it.
MCCorner(length, speed) ==
  LET side == (length * speed + 2) \div 4
      InCircle(x) == x * x + side * side <= length * length
  IN  [along |-> CHOOSE x \in 0 .. length : InCircle(x) /\ ~InCircle(x + 1), side |-> side]

MCRoutes ==
  {<<0, a, b, c>> : a \in {0, 1, 5}, b \in {5, 8}, c \in {8, MaxPos}} \cup {<<0, MaxPos>>, <<3, 3>>, <<0, 1>>}

MCShips ==
  LET ship(height, hull, speed, draft) ==
        [danger_height |-> height, hull |-> hull, speed |-> speed, ship_draft |-> draft]
  IN  {ship(1, 0, 1, 2), ship(1, 0, 3, 2), ship(NoValue, 0, 3, 2), ship(1, NoValue, 2, 2), ship(1, 0, 1, NoValue)}

MCDepths ==
  LET d(p, s) == [pos |-> p, side |-> s, depth |-> 1]
  IN  {<<d(4, 0)>>, <<[pos |-> 4, side |-> 1, depth |-> 3]>>, <<d(2, 1)>>, <<d(7, -1)>>, <<d(12, 2)>>}
      \cup {<<d(p, 1), d(p + k, s), d(q, 1)>> : p \in {3, 4}, k \in {2, 3}, s \in {-1, 1}, q \in {9, 11}}

MCForecasts ==
  LET f(p, t, w) == [pos |-> p, end_at |-> t, wave |-> w]
  IN  {<<>>} \cup {<<f(p, 96, 2)>> : p \in {0, 7}}
      \cup {<<f(4, 97, 2), f(4, t, w), f(q, 104, 2)>> : t \in {99, 101, 106}, w \in {0, 2}, q \in {8, 11}}
      \* with one that ends after the window
      \cup {<<f(q, 100, w), f(q, 107, 0), f(11, 110, 2)>> : q \in {4, 8}, w \in {0, 2}}

MCLengths == 0 .. MaxPos
MCInputs == [route : MCRoutes, ship : MCShips, depart : {100}]
MCTables == [depths : MCDepths, forecasts : MCForecasts]

=============================================================================
