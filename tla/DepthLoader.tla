------------------------------ MODULE DepthLoader ------------------------------
(***************************************************************************)
(* cases/depth_loader.cpp: a raster file becomes INSERT statements, a      *)
(* batch of points each.  (How the statements interleave with the loading  *)
(* thread is in ForecastsLoader.)                                          *)
(***************************************************************************)
EXTENDS SqlQueryStorage, DepthGrid

CONSTANTS
  BATCH_SIZE,
  Rasters(_)    \* the files that may be loaded when the SQL files are those given

VARIABLES
  raster,
  queries       \* the texts InsertDepthPointBatch executes, in their order
allVars == <<vars, raster, queries>>

LoaderInit == Init /\ raster \in Rasters(directory) /\ queries = <<>>

\* MakeBatchQuery: the last batch is what is left.
Batches(records) ==
  [b \in 1 .. (Len(records) + BATCH_SIZE - 1) \div BATCH_SIZE |->
     SubSeq(records, (b - 1) * BATCH_SIZE + 1, Min({b * BATCH_SIZE, Len(records)}))]

\* The constructor of DepthGrid, or GetTemplate, throws: nothing is written.  A
\* coordinate of the raster is in thousandths of a degree.
Load ==
  LET Scaled(p) == [lat |-> 10 * p.lat, lon |-> 10 * p.lon, depth |-> 10 * p.depth]
      points == GetAllPoints(ReadGrid(raster))
      batches == Batches([k \in DOMAIN points |-> Scaled(points[k])])
  IN  /\ unread = {} /\ queries = <<>>
      /\ raster.keys = ExpectedKeys /\ "kInsertDepths" \in DOMAIN storage_
      /\ queries' = [b \in DOMAIN batches |->
           MakeQuery(storage_["kInsertDepths"], InsertDepthPointBatch(batches[b])[2])]
      /\ UNCHANGED <<vars, raster>>

LoaderNext == Load \/ (Next /\ UNCHANGED <<raster, queries>>)

LoaderSpec == LoaderInit /\ [][LoaderNext]_allVars

=============================================================================
