CONSTANTS
  kStep = 2
  kMaxCheckCount = 5
  kMaxVertexCount = 20
  Polygons <- MCPolygons
SPECIFICATION Spec
CHECK_DEADLOCK FALSE
INVARIANTS
  GridIsInside
  CornersAreInGrid
  AdjacencyIsSymmetric
  GridIsNearDrawing
