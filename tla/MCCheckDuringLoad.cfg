\* Two records in two batches, two points, one row of the UI thread.
CONSTANTS
  AutoRollback = TRUE
  BatchSize = 1
  MaxForecasts = 2
  MaxRecords = 2
  MaxUiRows = 1
  Points = 2
SPECIFICATION CheckFairSpec
INVARIANTS
  CompletedBeforeIsSeen
  OnlyLoadingIsTransient
PROPERTIES
  LoadEnds
  HandlersEnd
