----------------------------- MODULE MCMarineNaviPi -----------------------------
(***************************************************************************)
(* MarineNaviPi over charts with named, nameless, moved, renamed, deleted  *)
(* and equally named waypoints.                                            *)
(***************************************************************************)
EXTENDS MarineNaviPi

Waypoint(guid, name, at) == [guid |-> guid, name |-> name, at |-> at]

MCCharts ==
  {<<>>,
   <<Waypoint(1, 2, 10), Waypoint(2, 1, 20)>>,
   <<Waypoint(1, 2, 11), Waypoint(3, 0, 30), Waypoint(4, 0, 40)>>,
   <<Waypoint(2, 1, 20), Waypoint(5, 1, 50), Waypoint(1, 2, 10)>>}

=============================================================================
