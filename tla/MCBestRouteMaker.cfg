CONSTANTS
  Tip = 21
  Points <- MCPoints
  Adj <- MCAdj
  WaveHeights <- MCWaveHeights
  Forecasts <- MCForecasts
  Duration <- MCDuration
  DangerChoices <- MCDangerChoices
  Routes <- MCRoutes
  DepartTime = 1000
  kMaxScore = 500
  kTooLate = 6
SPECIFICATION FairSpec
CHECK_DEADLOCK FALSE
INVARIANTS
  TypeOK
  NeverIntoDanger
  LabelsAreSound
  RouteIsSound
  ReturnsFastestCalmRoute
PROPERTIES
  SettledIsFinal
  Terminates
