----------------------------- MODULE MarineNaviPi -----------------------------
(***************************************************************************)
(* marine_navi_pi.cpp and dialogs/main_notebook.cpp: the plugin's toolbar  *)
(* button and its dialog, with the safe point panel in it.  Everything     *)
(* runs on the UI thread of the chart plotter, which is external: it flips *)
(* the button when it is clicked, keeps a toggle for it and rebuilds the   *)
(* toolbar from the toggle whenever it likes.                              *)
(***************************************************************************)
EXTENDS SafePointManagerPanel

VARIABLES
  inited,     \* between Init and DeInit
  dlg_,       \* the dialog exists
  visible,    \* and is shown
  showDlg_,
  button,     \* what the toolbar shows
  b_toggle    \* what the toolbar is rebuilt from
lifeVars == <<inited, dlg_, visible, showDlg_, button, b_toggle>>
vars == <<safePointVars, lifeVars>>

\* MarineNaviPi::MarineNaviPi.
PluginInit ==
  /\ SafePointInit
  /\ inited = FALSE /\ dlg_ = FALSE /\ visible = FALSE /\ showDlg_ = FALSE
  /\ button = FALSE /\ b_toggle = FALSE

SetToolbarItemState(state) == button' = state /\ b_toggle' = state

\* MarineNaviPi::Init: a new tool, not pressed.
Init ==
  /\ ~inited
  /\ inited' = TRUE
  /\ SetToolbarItemState(FALSE)
  /\ UNCHANGED <<safePointVars, dlg_, visible, showDlg_>>

\* A click, which has flipped the button already: the first one makes the dialog and its panels.
OnToolbarToolCallback ==
  /\ inited
  /\ dlg_' = TRUE
  /\ IF dlg_ THEN UNCHANGED panelVars ELSE waypoint_list_box_' = <<>> /\ selected' = 0
  /\ showDlg_' = ~showDlg_
  /\ visible' = showDlg_'
  /\ SetToolbarItemState(showDlg_')
  /\ UNCHANGED <<waypoints, safe_points, ended, inited>>

\* Faulty variant: the handler trusts the assertion that is commented out.
MainDlgCloseTrusting ==
  /\ visible
  /\ visible' = FALSE
  /\ SetToolbarItemState(FALSE)
  /\ UNCHANGED <<safePointVars, inited, dlg_, showDlg_>>

\* The dialog's own close button: OnClose calls back and does not destroy the window.
OnMainDlgClose ==
  /\ visible
  /\ showDlg_' = FALSE
  /\ SetToolbarItemState(showDlg_')
  /\ visible' = FALSE
  /\ UNCHANGED <<safePointVars, inited, dlg_>>

\* Close() goes through OnMainDlgClose; then the dialog is destroyed with its panels.
DeInit ==
  /\ inited
  /\ inited' = FALSE
  /\ IF dlg_
       THEN /\ dlg_' = FALSE /\ visible' = FALSE /\ showDlg_' = FALSE
            /\ SetToolbarItemState(showDlg_')
            /\ waypoint_list_box_' = <<>> /\ selected' = 0
       ELSE UNCHANGED <<dlg_, visible, showDlg_, button, b_toggle, panelVars>>
  /\ UNCHANGED <<waypoints, safe_points, ended>>

HostRebuildsToolbar ==
  /\ inited
  /\ button' = b_toggle
  /\ UNCHANGED <<safePointVars, inited, dlg_, visible, showDlg_, b_toggle>>

Panel == visible /\ (OnRefreshSafePointList \/ SelectLine \/ OnAddSafePoint) /\ UNCHANGED lifeVars

Next ==
  /\ ~ended
  /\ \/ Init \/ OnToolbarToolCallback \/ OnMainDlgClose \/ DeInit \/ HostRebuildsToolbar
     \/ Panel
     \/ HostEditsWaypoints /\ UNCHANGED lifeVars

Spec == PluginInit /\ [][Next]_vars

-----------------------------------------------------------------------------
\* The types of the flags.
LifeTypeOK ==
  /\ inited \in BOOLEAN /\ dlg_ \in BOOLEAN /\ visible \in BOOLEAN
  /\ showDlg_ \in BOOLEAN /\ button \in BOOLEAN /\ b_toggle \in BOOLEAN

\* The button is pressed exactly when the dialog is on the screen, after a click, after
\* the dialog's own close button, after a rebuild of the toolbar and after the plugin
\* was disabled and enabled: so every click changes what the user sees.
ButtonShowsDialog ==
  /\ inited => button = visible
  /\ b_toggle = visible /\ showDlg_ = visible
  /\ visible => dlg_ /\ inited

\* A line whose name no other waypoint has stores the waypoint it was made from, where
\* it is now, however old the list and whatever the order of the chart.
UniqueNameIsExact ==
  [][ safe_points' # safe_points =>
        LET line == waypoint_list_box_[selected]
            named == {i \in DOMAIN waypoints : waypoints[i].name = line.name}
            origin == {i \in named : waypoints[i].guid = line.guid}
        IN  Cardinality(named) = 1 /\ origin # {} =>
              \A i \in origin : safe_points' = safe_points \cup {[name |-> line.name, at |-> waypoints[i].at]} ]_vars

=============================================================================
