CONSTANTS
  kStep = 4
  kDangerousDistance = 4
  kLookBack = 3
  kWindow = 9
  kTooLate = 3
  MaxPos = 13
  Speeds = {1, 2, 3}
  WaveHeights = {0, 2}
  Lengths <- MCLengths
  Inputs <- MCInputs
  Tables <- MCTables
  Slowed <- MCSlowed
  Corner <- MCCorner
SPECIFICATION ScanSpec
CHECK_DEADLOCK FALSE
INVARIANTS
  ShallowsAreReported
  FoundIsReported
  ForecastsAreTimely
  ShallowsAreTimed
  CompleteFormIsChecked
