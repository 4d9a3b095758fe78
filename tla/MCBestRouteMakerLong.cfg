CONSTANTS
  Tip = 21
  Points <- MCPoints
  Adj <- MCAdj
  WaveHeights <- MCWaveHeights
  Forecasts <- MCForecasts
  Duration <- MCDuration
  DangerChoices <- MCDangerChoices
  Routes <- MCLongRoutes
  DepartTime = 1000
  kMaxScore = 500
  kTooLate = 6
SPECIFICATION Spec
CHECK_DEADLOCK FALSE
INVARIANT RouteHasOneSegment
