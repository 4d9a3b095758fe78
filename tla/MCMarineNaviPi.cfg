CONSTANTS
  Charts <- MCCharts
SPECIFICATION Spec
CHECK_DEADLOCK FALSE
INVARIANTS
  ButtonShowsDialog
PROPERTIES
  UniqueNameIsExact
