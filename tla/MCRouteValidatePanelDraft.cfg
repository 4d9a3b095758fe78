CONSTANTS
  kStep = 4
  kDangerousDistance = 4
  kLookBack = 3
  kWindow = 9
  kTooLate = 3
  DepartTime = 100
  Slowed <- MCSlowed
  Corner <- MCCorner
  KnotsToMetersPerSecond <- MCKnotsToMetersPerSecond
  FeetToMeters <- MCFeetToMeters
  Charts <- MCCharts
  Forms <- MCForms
  Databases <- MCDatabases
SPECIFICATION Spec
PROPERTY DraftIsInMetres
