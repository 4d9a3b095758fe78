------------------------- MODULE MCRouteValidatePanel -------------------------
(***************************************************************************)
(* RouteValidatePanel with no route, one, one of another name or two of    *)
(* one name, with and without a danger height, on a calm and a rough sea.  *)
(***************************************************************************)
EXTENDS RouteValidatePanel

MCSlowed(speed, wave) == IF wave > 1 THEN 1 ELSE speed
MCCorner(length, speed) ==
  LET side == (length * speed + 2) \div 4
      InCircle(x) == x * x + side * side <= length * length
  IN  [along |-> CHOOSE x \in 0 .. length : InCircle(x) /\ ~InCircle(x + 1), side |-> side]

\* Speeds as entered; drafts in decimetres, 1 ft = 3.05 dm.
MCKnotsToMetersPerSecond(v) == v
MCFeetToMeters(ft) == (ft * 3) \div 10

Route(name, waypoints) == [name |-> name, waypoints |-> waypoints]

MCCharts == {<<>>, <<Route("a", <<0, 6>>)>>, <<Route("a", <<0, 6>>), Route("a", <<6, 14>>)>>,
             <<Route("b", <<0, 6>>)>>}

MCForms ==
  LET filled(height, speed, draft) ==
        [danger_height |-> height, hull |-> 0, speed |-> speed, ship_draft |-> draft]
  IN  {filled(1, 2, 10), filled(NoValue, 2, 10), filled(1, NoValue, 10)}

MCDatabases ==
  LET shallow(p, d) == [pos |-> p, side |-> 1, depth |-> d]
  IN  {[depths |-> <<>>, forecasts |-> <<>>],
       [depths |-> <<shallow(5, 8), shallow(12, 2)>>, forecasts |-> <<>>],
       [depths |-> <<shallow(4, 8)>>, forecasts |-> <<[pos |-> 8, end_at |-> 101, wave |-> 2]>>]}

=============================================================================
