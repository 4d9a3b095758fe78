-------------------------- MODULE RouteValidatePanel --------------------------
(***************************************************************************)
(* dialogs/panels/route_validate_panel.cpp, its ship form and diagnostic   *)
(* text, and render_overlay.cpp: from the click on "Check path" to what    *)
(* the user sees of the result.  All of it runs on the UI thread; between  *)
(* two handlers the user may edit the chart and a load may store rows.     *)
(***************************************************************************)
EXTENDS MarineRouteScanner

CONSTANTS
  Charts,     \* the routes on the chart, in the order of their GUIDs: name, waypoints
  Forms,      \* what the fields hold, NoValue for text that is empty or no number
  Databases,  \* the rows a check may find
  DepartTime, \* the date and time entered
  KnotsToMetersPerSecond(_), FeetToMeters(_)

ASSUME ChartsAssumption == \A routes \in Charts : routes \in Seq([name : STRING, waypoints : Seq(Int)])

VARIABLES
  chart, route_list_box_, selection, form, db,
  route_data_, diagnostic_,  \* of the scanner; with the first, show_ is set for good
  c_diagnostic_message_,     \* the text: the diagnostic it was made from
  marks,                     \* the waypoints with a hazard_points_ GUID
  checked_db, rendered       \* history: the rows of the last check; drawn since then

userVars == <<chart, route_list_box_, selection, form, db>>
checkVars == <<route_data_, diagnostic_, c_diagnostic_message_, checked_db>>
vars == <<userVars, checkVars, marks, rendered>>

NoRouteData == [route |-> <<>>]
IsShow == route_data_ # NoRouteData

-----------------------------------------------------------------------------
GetRouteNames == [i \in DOMAIN chart |-> chart[i].name]

\* Faulty variant: a route that is gone is replaced by the first of the chart.
GetRouteOrFirst(name) ==
  LET named == SelectSeq(chart, LAMBDA r : r.name = name)
  IN  IF chart = <<>> THEN <<>> ELSE IF named = <<>> THEN chart[1].waypoints ELSE named[1].waypoints

\* Names are not unique: the waypoints of ALL routes of the name, one after another.
GetRoute(name) ==
  FlattenSeq([i \in DOMAIN chart |-> IF chart[i].name = name THEN chart[i].waypoints ELSE <<>>])

\* GetShipInfo: an empty speed or one that is no number leaves the whole form unread.
GetShipInfo ==
  [danger_height |-> form.danger_height, hull |-> form.hull,
   speed |-> IF form.speed = NoValue THEN NoValue ELSE KnotsToMetersPerSecond(form.speed),
   ship_draft |-> IF form.ship_draft = NoValue THEN NoValue ELSE FeetToMeters(form.ship_draft)]

Init ==
  /\ chart \in Charts /\ form \in Forms /\ db \in Databases
  /\ route_list_box_ = GetRouteNames /\ selection = NoValue
  /\ route_data_ = NoRouteData /\ diagnostic_ = NoDiagnostic
  /\ c_diagnostic_message_ = NoDiagnostic
  /\ marks = {} /\ checked_db = db /\ rendered = FALSE

OnRefreshRouteList ==
  /\ route_list_box_' = GetRouteNames /\ selection' = NoValue
  /\ UNCHANGED <<chart, form, db, checkVars, marks, rendered>>

SelectRoute ==
  /\ selection' \in DOMAIN route_list_box_
  /\ UNCHANGED <<chart, route_list_box_, form, db, checkVars, marks, rendered>>

\* The user draws, renames or deletes routes in the chart plotter, whose windows
\* stay usable.  The list box does not follow.
HostEditsChart ==
  /\ chart' \in Charts
  /\ UNCHANGED <<route_list_box_, selection, form, db, checkVars, marks, rendered>>

EditForm ==
  /\ form' \in Forms
  /\ UNCHANGED <<chart, route_list_box_, selection, db, checkVars, marks, rendered>>

LoadStoresRows ==
  /\ db' \in Databases
  /\ UNCHANGED <<chart, route_list_box_, selection, form, checkVars, marks, rendered>>

\* Without a diagnostic the text is left as the check before wrote it.
UpdateDiagnostic(diagnostic) ==
  c_diagnostic_message_' = IF diagnostic = NoDiagnostic THEN c_diagnostic_message_ ELSE diagnostic

\* Nothing selected, a name with fewer than two waypoints or no speed: a message,
\* and everything stays.  The final RequestRefresh names no window: it asks for
\* no repaint.
OnCheckPathClicked ==
  LET route == GetRoute(route_list_box_[selection])
      ship == GetShipInfo
      input == [route |-> route, ship |-> ship, depart |-> DepartTime]
      diagnostic == DoCrossDetect(input, db)
  IN  /\ selection # NoValue /\ Len(route) > 1 /\ ship.speed # NoValue
      /\ route_data_' = input
      /\ diagnostic_' = diagnostic
      /\ UpdateDiagnostic(diagnostic)
      /\ checked_db' = db /\ rendered' = FALSE
      /\ UNCHANGED <<userVars, marks>>

Marks(diagnostic) ==
  {[guid |-> i, at |-> diagnostic.hazard_points[i].pos] : i \in DOMAIN diagnostic.hazard_points}

\* Faulty variant: the old marks are not looked for.
RenderAdds ==
  /\ IsShow
  /\ marks' = marks \cup Marks(diagnostic_)
  /\ rendered' = TRUE
  /\ UNCHANGED <<userVars, checkVars>>

\* RenderCheckPath: the chart is repainted; all old marks go, new ones are set.
Render ==
  /\ IsShow
  /\ marks' = Marks(diagnostic_)
  /\ rendered' = TRUE
  /\ UNCHANGED <<userVars, checkVars>>

Next == \/ OnRefreshRouteList \/ SelectRoute \/ EditForm
        \/ HostEditsChart \/ LoadStoresRows
        \/ OnCheckPathClicked \/ Render

Spec == Init /\ [][Next]_vars

-----------------------------------------------------------------------------
\* The chart never shows the marks of two checks mixed, and what was drawn since
\* the last check is in the text too.  (When a check fails nothing is drawn, while
\* the text goes on showing an earlier result.)
MarksAgreeWithText ==
  rendered => marks = {} \/ marks = Marks(c_diagnostic_message_)

\* The course that is checked was drawn as ONE route, or the name selected belongs
\* to several routes now: a stale list never mixes or invents routes otherwise.
CourseIsDrawn ==
  [][ route_data_' # route_data_ =>
        LET named == {i \in DOMAIN chart : chart[i].name = route_list_box_[selection]}
        IN  \/ \E i \in named : chart[i].waypoints = route_data_'.route
            \/ Cardinality(named) > 1 ]_vars

\* The label of the field is "Ship draft, m": a check that succeeds reports every
\* shallow it has to see that is no deeper than the number of metres entered.
DraftIsInMetres ==
  [][ diagnostic_' # diagnostic_ /\ diagnostic_' # NoDiagnostic =>
        ReportsAll(ShallowsBeside(route_data_', db, form.ship_draft), diagnostic_') ]_vars

=============================================================================
