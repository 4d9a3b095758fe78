------------------------- MODULE SafePointManagerPanel -------------------------
(***************************************************************************)
(* dialogs/panels/safe_point_manager_panel.cpp: a waypoint of the chart is *)
(* stored as a safe point.  The list shows names; which waypoint a line    *)
(* stands for is looked up, by name, when the button is clicked.           *)
(***************************************************************************)
EXTENDS Integers, Sequences, FiniteSets, SequencesExt

CONSTANTS Charts    \* the waypoints on the chart, in the order of their GUIDs:
                    \* [guid, name, at]; the marks of a route check have no name

ASSUME ChartsAssumption == \A chart \in Charts : chart \in Seq([guid : Int, name : Int, at : Int])

VARIABLES
  waypoints,
  waypoint_list_box_,   \* the lines; of each we remember the waypoint it was made from
  selected,             \* GetSelection, 0 for wxNOT_FOUND
  safe_points,          \* the rows of the table: [name, at]
  ended                 \* an exception nobody catches has ended the program
panelVars == <<waypoint_list_box_, selected>>
safePointVars == <<waypoints, panelVars, safe_points, ended>>

NotFound == [guid |-> 0, name |-> 0, at |-> 0]

\* Faulty variant: the lines are taken to be in the order of the chart.
GetWaypointOfLine(name) ==
  IF selected \in DOMAIN waypoints THEN waypoints[selected] ELSE NotFound

\* The first waypoint with the name.
GetWaypoint(name) ==
  LET named == {i \in DOMAIN waypoints : waypoints[i].name = name}
  IN  IF named = {} THEN NotFound ELSE waypoints[Min(named)]

\* GetWaypointNames: sorted by name.
GetWaypointNames == SortSeq(waypoints, LAMBDA v, w : v.name < w.name)

SafePointInit ==
  /\ waypoints \in Charts /\ waypoint_list_box_ = <<>> /\ selected = 0
  /\ safe_points = {} /\ ended = FALSE

\* Clear() drops the selection.
OnRefreshSafePointList ==
  /\ waypoint_list_box_' = GetWaypointNames /\ selected' = 0
  /\ UNCHANGED <<waypoints, safe_points, ended>>

SelectLine ==
  /\ selected' \in DOMAIN waypoint_list_box_
  /\ UNCHANGED <<waypoints, waypoint_list_box_, safe_points, ended>>

\* A message for no selection and for a name that is gone; otherwise one INSERT, whose
\* exception no handler catches.
OnAddSafePoint ==
  /\ selected # 0
  /\ LET name == waypoint_list_box_[selected].name
         waypoint == GetWaypoint(name)
     IN  \/ waypoint # NotFound /\ safe_points' = safe_points \cup {[name |-> name, at |-> waypoint.at]}
            /\ UNCHANGED ended
         \/ waypoint # NotFound /\ ended' = TRUE /\ UNCHANGED safe_points
  /\ UNCHANGED <<waypoints, panelVars>>

\* The user edits the chart in the plotter's own windows; a route check deletes and
\* adds its marks.
HostEditsWaypoints ==
  /\ waypoints' \in Charts
  /\ UNCHANGED <<panelVars, safe_points, ended>>

=============================================================================
