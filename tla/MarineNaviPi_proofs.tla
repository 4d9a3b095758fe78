------------------------- MODULE MarineNaviPi_proofs -------------------------
(***************************************************************************)
(* The toolbar button and the dialog agree, whatever waypoints there are,  *)
(* and a safe point is the waypoint its line was made from.                *)
(***************************************************************************)
EXTENDS MarineNaviPi, FiniteSetTheorems, TLAPS

\* The type of the flags makes ButtonShowsDialog inductive: a click negates one of them.
LifeInv == LifeTypeOK /\ ButtonShowsDialog

\* Nothing is shown before Init, the constructor's state.
LEMMA LifeInit == PluginInit => LifeInv
BY DEF PluginInit, LifeInv, LifeTypeOK, ButtonShowsDialog

\* Each handler keeps button, toggle, flag and dialog together.
LEMMA LifeStep == LifeInv /\ [Next]_vars => LifeInv'
<1> SUFFICES ASSUME LifeInv, [Next]_vars PROVE LifeInv'
  OBVIOUS
<1> USE DEF LifeInv, LifeTypeOK, ButtonShowsDialog
<1>1. CASE Init
  BY <1>1 DEF Init, SetToolbarItemState
<1>2. CASE OnToolbarToolCallback
  BY <1>2 DEF OnToolbarToolCallback, SetToolbarItemState
<1>3. CASE OnMainDlgClose
  BY <1>3 DEF OnMainDlgClose, SetToolbarItemState
<1>4. CASE DeInit
  <2>1. CASE dlg_
    BY <1>4, <2>1 DEF DeInit, SetToolbarItemState
  <2>2. CASE ~dlg_
    BY <1>4, <2>2 DEF DeInit
  <2> QED BY <2>1, <2>2
<1>5. CASE HostRebuildsToolbar
  BY <1>5 DEF HostRebuildsToolbar
<1>6. CASE UNCHANGED lifeVars
  BY <1>6 DEF lifeVars
<1>7. CASE UNCHANGED vars
  BY <1>6, <1>7 DEF vars
<1> QED
  BY <1>1, <1>2, <1>3, <1>4, <1>5, <1>6, <1>7 DEF Next, Panel

\* The button is pressed exactly when the dialog is on the screen, in every state the
\* plugin can reach: OnMainDlgClose (marine_navi_pi.cpp) needs no assertion about the
\* flag it resets.
THEOREM ButtonAlwaysShowsDialog == Spec => []ButtonShowsDialog
<1>1. LifeInv => ButtonShowsDialog
  BY DEF LifeInv
<1> QED BY <1>1, LifeInit, LifeStep, PTL DEF Spec

\* Every click on the toolbar button changes whether the dialog is on the screen, also
\* after the dialog's own close button was used.
THEOREM EveryClickToggles == Spec => [][OnToolbarToolCallback => visible' # visible]_vars
<1>1. LifeInv /\ [Next]_vars => [OnToolbarToolCallback => visible' # visible]_vars
  BY DEF LifeInv, LifeTypeOK, ButtonShowsDialog, OnToolbarToolCallback
<1> QED BY <1>1, LifeInit, LifeStep, PTL DEF Spec

-----------------------------------------------------------------------------
\* The chart is one of the charts there are.
ChartInv == waypoints \in Charts

\* Only the chart plotter changes it.
LEMMA ChartStep == ChartInv /\ [Next]_vars => ChartInv'
<1> SUFFICES ASSUME ChartInv, [Next]_vars PROVE ChartInv'
  OBVIOUS
<1>1. CASE UNCHANGED waypoints
  BY <1>1 DEF ChartInv
<1>2. CASE HostEditsWaypoints
  BY <1>2 DEF HostEditsWaypoints, ChartInv
<1>3. CASE Panel
  BY <1>1, <1>3 DEF Panel, OnRefreshSafePointList, SelectLine, OnAddSafePoint
<1>4. CASE Init \/ OnMainDlgClose \/ HostRebuildsToolbar \/ UNCHANGED vars
  BY <1>1, <1>4 DEF Init, OnMainDlgClose, HostRebuildsToolbar, vars, safePointVars
<1>5. CASE OnToolbarToolCallback \/ DeInit
  BY <1>1, <1>5 DEF OnToolbarToolCallback, DeInit
<1> QED
  BY <1>2, <1>3, <1>4, <1>5 DEF Next

\* Only the panel's button stores a safe point: the waypoint its look-up finds.
LEMMA OnlyLookedUpIsStored ==
  ASSUME [Next]_vars, safe_points' # safe_points
  PROVE  LET name == waypoint_list_box_[selected].name
         IN  safe_points' = safe_points \cup {[name |-> name, at |-> GetWaypoint(name).at]}
<1>1. CASE Panel
  BY <1>1 DEF Panel, OnRefreshSafePointList, SelectLine, OnAddSafePoint
<1>2. CASE HostEditsWaypoints
  BY <1>2 DEF HostEditsWaypoints
<1>3. CASE Init \/ OnMainDlgClose \/ HostRebuildsToolbar \/ UNCHANGED vars
  BY <1>3 DEF Init, OnMainDlgClose, HostRebuildsToolbar, vars, safePointVars
<1>4. CASE OnToolbarToolCallback \/ DeInit
  BY <1>4 DEF OnToolbarToolCallback, DeInit
<1> QED
  BY <1>1, <1>2, <1>3, <1>4 DEF Next

\* The look-up finds the only waypoint of a name.
LEMMA UniqueIsFound ==
  ASSUME waypoints \in Charts, NEW name,
         Cardinality({i \in DOMAIN waypoints : waypoints[i].name = name}) = 1,
         NEW k \in DOMAIN waypoints, waypoints[k].name = name
  PROVE  GetWaypoint(name) = waypoints[k]
<1> DEFINE named == {i \in DOMAIN waypoints : waypoints[i].name = name}
<1>1. waypoints \in Seq([guid : Int, name : Int, at : Int])
  BY ChartsAssumption
<1>2. DOMAIN waypoints = 1 .. Len(waypoints) /\ Len(waypoints) \in Nat
  BY <1>1
<1>3. IsFiniteSet(named)
  <2>1. IsFiniteSet(1 .. Len(waypoints))
    BY <1>2, FS_Interval
  <2> QED BY <1>2, <2>1, FS_Subset
<1>4. PICK x : named = {x}
  BY <1>3, FS_Singleton
<1>5. named = {k} /\ k \in Int
  BY <1>2, <1>4
<1>6. Min(named) = k
  <2> HIDE DEF named
  <2> QED BY <1>5 DEF Min
<1> QED
  BY <1>5, <1>6 DEF GetWaypoint

\* Whatever was moved, renamed or deleted since the list was filled
\* (safe_point_manager_panel.cpp): a line whose name only one waypoint has, and it the
\* one the line was made from, stores that waypoint where it is now.
THEOREM StoredIsTheOrigin == Spec => UniqueNameIsExact
<1> DEFINE Exact ==
      safe_points' # safe_points =>
        LET line == waypoint_list_box_[selected]
            named == {i \in DOMAIN waypoints : waypoints[i].name = line.name}
            origin == {i \in named : waypoints[i].guid = line.guid}
        IN  Cardinality(named) = 1 /\ origin # {} =>
              \A i \in origin : safe_points' = safe_points \cup {[name |-> line.name, at |-> waypoints[i].at]}
<1>1. ChartInv /\ [Next]_vars => [Exact]_vars
  BY OnlyLookedUpIsStored, UniqueIsFound DEF ChartInv
<1>2. PluginInit => ChartInv
  BY DEF PluginInit, SafePointInit, ChartInv
<1> QED
  BY <1>1, <1>2, ChartStep, PTL DEF Spec, UniqueNameIsExact

=============================================================================
