CONSTANTS
  MAX_LINE_LEN = 16
  MAX_COLUMN_COUNT = 4
  kColumns = 3
  Required = {2}
  Optional = {3}
  HeaderField <- MCHeaderField
  Files <- MCFiles
SPECIFICATION Spec
CHECK_DEADLOCK FALSE
INVARIANTS
  RowsSurvive
  VerdictIsRight
