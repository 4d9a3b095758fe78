CONSTANTS
  Charts <- MCCharts
  Forms <- MCForms
  kStep = 3
  kMaxCheckCount = 5
  kMaxVertexCount = 20
  MaxResults = 2
SPECIFICATION Spec
CHECK_DEADLOCK FALSE
PROPERTIES
  LegIsDrawn
  ResultIsInZone
  SoundInputIsSearched
