------------------------------- MODULE DepthGrid -------------------------------
(***************************************************************************)
(* entities/depth_grid.cpp: a raster of depths, read from an ASCII file.   *)
(* A file is its header and its sequence of cells, from the north-west     *)
(* corner row by row.  Coordinates are whole numbers of some unit.  (A     *)
(* fraction is two cells: its whole part and a cell that is no number.)    *)
(***************************************************************************)
EXTENDS Integers, Sequences

CONSTANT NotANumber    \* a cell operator>> makes nothing of

\* What "file >> data_[i][j]" leaves in the k-th cell: a failed conversion stores 0 and
\* every later read, or one at the end of the file, leaves the initial noDataValue_.
ReadCell(f, k) ==
  IF k > Len(f.cells) \/ \E j \in 1 .. k - 1 : f.cells[j] = NotANumber THEN f.nodata
  ELSE IF f.cells[k] = NotANumber THEN 0 ELSE f.cells[k]

\* ReadAndCheck throws at the first key that is not the expected one; the stream is not
\* looked at afterwards.
ExpectedKeys == <<"ncols", "nrows", "xllcorner", "yllcorner", "cellsize", "NODATA_value">>

\* The object: data_ has the north first.
ReadGrid(f) ==
  [data |-> [i \in 1 .. f.nrows |-> [j \in 1 .. f.ncols |-> ReadCell(f, (i - 1) * f.ncols + j)]],
   minLat |-> f.yllcorner, minLon |-> f.xllcorner, cellSize |-> f.cellsize]

nRows(g) == Len(g.data)
nCols(g) == IF g.data = <<>> THEN 0 ELSE Len(g.data[1])

\* Faulty variant: the rows of data_ are taken to be in the order of the latitudes.
PointAtFromNorth(g, r, c) ==
  [lat |-> r * g.cellSize + g.minLat, lon |-> c * g.cellSize + g.minLon, depth |-> g.data[r + 1][c + 1]]

\* Row r from the south and column c from the west, both from 0.
PointAt(g, r, c) ==
  [lat |-> r * g.cellSize + g.minLat, lon |-> c * g.cellSize + g.minLon, depth |-> g.data[nRows(g) - r][c + 1]]

\* Row by row from the south.
GetAllPoints(g) ==
  [k \in 1 .. nRows(g) * nCols(g) |-> PointAt(g, (k - 1) \div nCols(g), (k - 1) % nCols(g))]

=============================================================================
