\* One record more than a batch, two loads, failures that end transactions.
CONSTANTS
  AutoRollback = TRUE
  BatchSize = 2
  MaxForecasts = 2
  MaxRecords = 3
  MaxUiRows = 2
SPECIFICATION Spec
INVARIANTS
  TypeOK
  AllOrNothing
  CompletedIsStored
  ThreadsAreOrderly
  ReportedRowsAreKept
PROPERTIES
  ImplementsStore
