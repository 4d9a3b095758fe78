--------------------------- MODULE MCSqlQueryStorage ---------------------------
(***************************************************************************)
(* The SQL files of the repository, one of which may not open, next to a   *)
(* file with any short text; then every call of DbClient, or a depth load. *)
(***************************************************************************)
EXTENDS DepthLoader, SqlQueries

CONSTANT MaxLength    \* of the short text

File(name, text) == [sql |-> TRUE, opens |-> TRUE, name |-> name, text |-> text]

ShippedFiles ==
  {File("kInsertDepths", insert_depths), File("kInserForecastRecordBatchQuery", insert_forecast_record_batch),
   File("kSelectClosestForecasts", select_closest_forecasts), File("kSelectHazardDepthPoints", select_hazard_depth_points),
   File("kSelectHazardDepthPointsInAngle", select_hazard_depth_points_in_angle)}

\* Files whose loading is not worth its own interleavings; loaded in a block.
OtherFiles ==
  {File("kCreateTables", create_tables), File("kInsertForecast", insert_forecast),
   File("kInsertSafePoints", insert_safe_points), File("kSelectForecastLocation", select_forecast_location),
   File("kSelectSafePoints", select_safe_points)}

DepthsOnly == {File("kInsertDepths", insert_depths)}

Unopened(file) == [file EXCEPT !.opens = FALSE]
ShortTexts == BoundedSeq({"$", "1", "0", "a"}, MaxLength)

MCDirectories ==
  {(ShippedFiles \ {f}) \cup {Unopened(f), File("kInsertDepths", <<"$", "2">>)} : f \in ShippedFiles}
  \cup {{File("kInsertForecast", text), [File("kReadme", <<"$">>) EXCEPT !.sql = FALSE]} : text \in ShortTexts}
  \cup {OtherFiles, DepthsOnly}

\* Rasters of two rows and three columns, whole, cut off and damaged; one in an older
\* format, one without cells and one that is no raster at all.
MCNotANumber == 999
RasterOf(keys, rows, cells) ==
  [keys |-> keys, ncols |-> 3, nrows |-> rows, xllcorner |-> 17, yllcorner |-> -4, cellsize |-> 3, nodata |-> -99,
   cells |-> cells]
NoRaster == RasterOf(<<>>, 2, <<>>)
MCRasters(dir) ==
  IF dir # DepthsOnly THEN {NoRaster}
  ELSE {RasterOf(ExpectedKeys, 2, [k \in 1 .. n |-> IF k \in words THEN MCNotANumber ELSE k - 4]) :
          n \in 0 .. 6, words \in SUBSET (1 .. 6)}
       \cup {RasterOf(<<"ncols", "nrows", "xllcenter", "yllcenter", "cellsize", "NODATA_value">>, 2, <<7>>),
             RasterOf(ExpectedKeys, 0, <<>>)}

MCPoints ==
  LET p(lat, lon) == [lat |-> lat, lon |-> lon]
  IN  {<<>>, <<p(431234, 1319876)>>, <<p(4, -9), p(900, -18001), p(-6, 13)>>,
       <<p(10, 20), p(30, 20), p(10, 40), p(11, 21), p(3, 2), p(14, -40)>>}

Calls == {"InsertForecast", "InsertForecastRecordBatch", "InsertDepthPointBatch", "SelectClosestForecasts",
          "SelectForecastLocation", "SelectHazardDepthPoints", "SelectHazardDepthPointsInAngle", "InsertSafePoints",
          "SelectSafePoints", "CreateDatabase"}

\* Names of waypoints, as they may be typed.
Names == {<<>>, <<"pier">>, <<"pier", "(", "north", ",", ")">>, <<"O", "'", "Brien">>, <<"'", ",", "'">>}

MCRequests ==
  LET all == [call : Calls, points : MCPoints, a : {-1, 23}, b : {7}, name : Names]
  IN  {r \in all : r.call = "InsertSafePoints" \/ r.name = <<>>}

-----------------------------------------------------------------------------
\* How SQLite reads a text back: within quotes no lexeme is anything but text.
Quoted(text, i) == text[i] # "'" /\ Cardinality({k \in 1 .. i : text[k] = "'"}) % 2 = 1
Bare(text) == [i \in DOMAIN text |-> IF Quoted(text, i) THEN "text" ELSE text[i]]

Depth(text, i) == Cardinality({j \in 1 .. i : text[j] = "("}) - Cardinality({j \in 1 .. i : text[j] = ")"})
Matching(text, i) == Min({j \in i .. Len(text) : Depth(text, j) = Depth(text, i) - 1})

\* The lexemes of VALUES up to the next keyword, and the rows in them.
Values(text) ==
  LET from == Min({i \in DOMAIN text : text[i] = "VALUES"})
      to == Min({i \in from + 1 .. Len(text) : text[i] \in {"SELECT", ";", "RETURNING"}})
  IN  SubSeq(text, from + 1, to - 1)
RowStarts(values) == {i \in DOMAIN values : values[i] = "(" /\ Depth(values, i) = 1}
Cells(values, i) == {j \in i .. Matching(values, i) : values[j] = "," /\ Depth(values, j) = 1}
Columns(text) == {i \in DOMAIN text : text[i] = "," /\ \A j \in 1 .. i : text[j] \notin {"VALUES", "("}}

Written == query.outcome = "query"
Request == query.request
Rowed == {"InsertForecastRecordBatch", "InsertDepthPointBatch", "SelectClosestForecasts", "SelectHazardDepthPoints",
          "SelectHazardDepthPointsInAngle", "InsertSafePoints"}
WithId == Rowed \ {"InsertForecastRecordBatch", "InsertDepthPointBatch", "InsertSafePoints"}
HasApostrophe == "'" \in Range(Request.name)
Records == IF Request.call = "SelectHazardDepthPointsInAngle" THEN Len(Request.points) \div 3 ELSE Len(Request.points)

\* A statement with rows has one for each record, separated, and every row has as many
\* cells as the statement names columns, none of them blank: an empty optional is
\* written too.  Where rows carry ids, these are the indices of the result, each once:
\* result[point_id] of the caller is never out of range.  A waypoint's name reads back as
\* it was typed, whatever parentheses and commas it has.  A name with an apostrophe is
\* excused from all of this: nothing escapes it, and the statement is then cut short, or
\* has a cell too many, or is a different one.
RowsMatchTheRequest ==
  Written /\ Request.call \in Rowed /\ ~HasApostrophe =>
    LET text == Values(query.text)
        values == Bare(text)
        starts == RowStarts(values)
    IN  /\ Cardinality(starts) = Records
        /\ \A j \in 1 .. Len(values) - 1 : values[j] \in {"(", ","} => values[j + 1] \notin {",", ")"}
        /\ \A i \in starts : /\ Cardinality(Cells(values, i)) = Cardinality(Columns(query.text))
                             /\ i > 1 => values[i - 1] = ","
        /\ Request.call \in WithId =>
             {values[i + 1] : i \in starts} = {ToString(k) : k \in 0 .. Records - 1}
        /\ Request.call = "InsertSafePoints" =>
             \A i \in starts : SubSeq(text, i + 1, Min(Cells(values, i)) - 1) = Text(Request.name)

\* The height limits the depth and the distance limits the distance, although DbClient's
\* parameters and the placeholders are in different orders.
HeightLimitsDepth ==
  Written /\ Request.call = "SelectHazardDepthPoints" =>
    \A i \in DOMAIN query.text \ {1} :
      query.text[i] = "<=" => query.text[i + 1] = Double(IF query.text[i - 1] = "-depth" THEN Request.a ELSE Request.b)[1]

\* Cutting a text loses nothing, wherever its dollars and digits are: the tokens of a
\* name are those of a file with that name, which they give back when they are written
\* out.  Only a number with a leading zero is not written as it was.  A file that opens
\* is never passed over.
LeadingZero(text) == \E i \in 1 .. Len(text) - 2 : text[i] = "$" /\ text[i + 1] = "0" /\ IsDigit(text[i + 2])
TextIsKept ==
  unread = {} => \A file \in {f \in directory : f.sql /\ f.opens} :
    /\ file.name \in DOMAIN storage_
    /\ LET back(t) == IF t.kind = "literal" THEN t.text ELSE <<"$", ToString(t.index + 1)>>
           Glue(s) == FoldLeft(LAMBDA a, c : a \o c, "", s)
           written == Glue(FlattenSeq([i \in DOMAIN storage_[file.name] |-> back(storage_[file.name][i])]))
       IN  \E f \in directory : f.name = file.name /\ (LeadingZero(f.text) \/ written = Glue(f.text))

\* The cell k of a file, as a row of the statement.
RowOf(k, depth) ==
  LET place == [lat |-> 10 * (raster.yllcorner + raster.cellsize * (raster.nrows - 1 - (k - 1) \div raster.ncols)),
                lon |-> 10 * (raster.xllcorner + raster.cellsize * ((k - 1) % raster.ncols))]
  IN  <<"(">> \o Double(10 * depth) \o <<",">> \o PointVarToString(place) \o <<")">>

\* The statements of a depth load hold every cell of the raster once, at its own place,
\* whatever the batches.  Of a file that is cut off or damaged they hold the cells before
\* the damage, make up at most one depth, 0, and have no data for the rest.
TableIsTheRaster ==
  queries # <<>> =>
    LET rows == FlattenSeq([b \in DOMAIN queries |->
                  LET values == Values(queries[b])
                      starts == SetToSortSeq(RowStarts(values), <)
                  IN  [i \in DOMAIN starts |-> SubSeq(values, starts[i], Matching(values, starts[i]))]])
        all == 1 .. raster.nrows * raster.ncols
        damage == Min({k \in DOMAIN raster.cells : raster.cells[k] = NotANumber} \cup {Len(raster.cells) + 1})
        before == 1 .. Min({damage - 1, raster.nrows * raster.ncols})
        made_up == {k \in all \ before : RowOf(k, raster.nodata) \notin ToSet(rows)}
    IN  /\ Len(rows) = Cardinality(all)
        /\ \A k \in before : RowOf(k, raster.cells[k]) \in ToSet(rows)
        /\ Cardinality(made_up) <= 1 /\ \A k \in made_up : RowOf(k, 0) \in ToSet(rows)

=============================================================================
