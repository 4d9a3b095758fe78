\* Rasters have up to six cells: two batches, the second not full.
CONSTANTS
  MaxLength = 4
  BATCH_SIZE = 4
  Directories <- MCDirectories
  Requests <- MCRequests
  Rasters <- MCRasters
  NotANumber <- MCNotANumber
SPECIFICATION LoaderSpec
CHECK_DEADLOCK FALSE
INVARIANTS
  RowsMatchTheRequest
  HeightLimitsDepth
  TextIsKept
  TableIsTheRaster
