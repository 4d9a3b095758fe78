------------------------- MODULE MCBestRouteBuilderPanel -------------------------
(***************************************************************************)
(* BestRouteBuilderPanel with a zone just within the limits, a small one   *)
(* across the equator and one too wide, routes of one, two and three       *)
(* waypoints, and two of one name; with a ship that sails, one that lies   *)
(* still and a form without a speed.                                       *)
(***************************************************************************)
EXTENDS BestRouteBuilderPanel

P(a, b) == [x |-> a, y |-> b]
Route(name, waypoints) == [name |-> name, waypoints |-> waypoints]

Fitting == <<P(2, 1), P(12, 1), P(4, 6)>>
Crossing == <<P(-5, -3), P(5, -3), P(5, 3)>>
TooWide == <<P(0, 0), P(16, 0)>>

MCCharts ==
  {<<Route("zone", Fitting), Route("way", <<P(0, 2), P(8, 5)>>)>>,
   <<Route("zone", Crossing), Route("way", <<P(-6, 0), P(5, 3), P(0, -3)>>), Route("way", <<P(2, 2), P(3, 3)>>)>>,
   <<Route("zone", TooWide), Route("way", <<P(4, 4)>>)>>}

MCForms == [danger_height : {<<2>>}, speed : {<<2>>, <<0>>, NoValue}]

=============================================================================
