---------------------------- MODULE SqlQueryStorage ----------------------------
(***************************************************************************)
(* clients/query_builder/sql_query_storage.cpp: the SQL files are loaded   *)
(* once and cut into tokens; DbClient then asks for a template by its name *)
(* and has arguments written into it.                                      *)
(*                                                                         *)
(* A text is a sequence of lexemes: strings that are characters where the  *)
(* cutting looks at characters ("$", digits, parentheses, commas) and      *)
(* whole words elsewhere.  Numbers with a fraction are in ten-thousandths  *)
(* before they are written and in thousandths in a text.                   *)
(***************************************************************************)
EXTENDS Integers, FiniteSets, SequencesExt

CONSTANTS
  Directories,    \* what the directory may hold: sets of [sql, opens, name, text]
  Requests        \* what DbClient may be called for: [call, points, a, b, name]

VARIABLES
  directory,  \* what is on disk
  unread,     \* the entries the directory_iterator has still to visit
  storage_,
  query       \* what came of the call
vars == <<directory, unread, storage_, query>>

Digits == <<"0", "1", "2", "3", "4", "5", "6", "7", "8", "9">>
IsDigit(c) == c \in Range(Digits)
Stoi(s) == FoldLeft(LAMBDA n, c : 10 * n + (CHOOSE d \in 0 .. 9 : Digits[d + 1] = c), 0, s)

Literal(text) == [kind |-> "literal", text |-> text]
Placeholder(index) == [kind |-> "placeholder", index |-> index]
NoQuery == [outcome |-> "none", text |-> <<>>, request |-> <<>>]

\* Faulty variant: every "$" starts a placeholder.
StartsAtAny(text) == {i \in DOMAIN text : text[i] = "$"}

\* Where a placeholder starts: a "$" with a digit behind it.
Starts(text) == {i \in 1 .. Len(text) - 1 : text[i] = "$" /\ IsDigit(text[i + 1])}

\* Placeholders are counted from 1 in the text and from 0 in the tokens; whatever
\* lies between two of them is one literal.
ParseTokens(text) ==
  LET end(i) == IF i \in Starts(text)
                  THEN Min({j \in i + 1 .. Len(text) : ~IsDigit(text[j])} \cup {Len(text) + 1})
                  ELSE Min({j \in Starts(text) : j > i} \cup {Len(text) + 1})
      token(i) == IF i \in Starts(text)
                    THEN Placeholder(Stoi(SubSeq(text, i + 1, end(i) - 1)) - 1)
                    ELSE Literal(SubSeq(text, i, end(i) - 1))
      from[i \in 1 .. Len(text) + 1] ==
        IF i > Len(text) THEN <<>> ELSE <<token(i)>> \o from[end(i)]
  IN  from[1]

-----------------------------------------------------------------------------
\* How an argument is written.

NoValue == -1    \* an empty std::optional

Int64(v) == <<ToString(v)>>

\* std::fixed and setprecision(3).  (No value is half way between two thousandths.)
Double(v) == <<ToString((v + 5) \div 10)>>

OptionalArgVarToString(v) == IF v = NoValue THEN <<"NULL">> ELSE Double(v)

\* Between quotes as it is: a quote in the text is not doubled.
Text(s) == <<"'">> \o s \o <<"'">>

Separated(texts) ==
  FlattenSeq([i \in DOMAIN texts |-> IF i > 1 THEN <<",">> \o texts[i] ELSE texts[i]])

PointVarToString(p) == <<"MakePoint", "(">> \o Double(p.lon) \o <<",">> \o Double(p.lat) \o <<",", "4326", ")">>

\* The ring is closed with its first point.
PolygonVarToString(points) ==
  LET corner(p) == Double(p.lon) \o Double(p.lat)
  IN  <<"MakePolygon", "(", "GeomFromText", "(", "'", "LINESTRING", "(">>
      \o Separated([i \in 1 .. Len(points) + 1 |-> corner(points[IF i > Len(points) THEN 1 ELSE i])])
      \o <<")", "'", ")", ")">>

VectorVectorBaseArgVarToString(rows) ==
  Separated([i \in DOMAIN rows |-> <<"(">> \o Separated(rows[i]) \o <<")">>])

\* MakeQuery asserts that a placeholder has its argument; "$0" has none.
Placeholders(tokens) == {t \in Range(tokens) : t.kind = "placeholder"}
HasArguments(tokens, args) == \A t \in Placeholders(tokens) : 0 <= t.index /\ t.index < Len(args)
MakeQuery(tokens, args) ==
  FlattenSeq([i \in DOMAIN tokens |->
                IF tokens[i] \in Placeholders(tokens) THEN args[tokens[i].index + 1] ELSE tokens[i].text])

-----------------------------------------------------------------------------
\* DbClient: the name of the template and the arguments of each call.

InsertForecast(source) == <<"kInsertForecast", <<Int64(source)>>>>

InsertForecastRecordBatch(points, wave, forecastId) ==
  <<"kInserForecastRecordBatchQuery",
    <<VectorVectorBaseArgVarToString(
        [i \in DOMAIN points |->
           <<Text(<<"started">>), Text(<<"end">>), OptionalArgVarToString(wave), OptionalArgVarToString(NoValue),
             Int64(forecastId), PointVarToString(points[i])>>])>>>>

InsertDepthPointBatch(records) ==
  <<"kInsertDepths",
    <<VectorVectorBaseArgVarToString(
        [i \in DOMAIN records |-> <<Double(records[i].depth), PointVarToString(records[i])>>])>>>>

\* Faulty variant: ids from 1.
WithIdsFromOne(points) ==
  VectorVectorBaseArgVarToString([i \in DOMAIN points |-> <<Int64(i), PointVarToString(points[i])>>])

\* Points with their ids, which come back in the rows of the result.
WithIds(points) ==
  VectorVectorBaseArgVarToString([i \in DOMAIN points |-> <<Int64(i - 1), PointVarToString(points[i])>>])

SelectClosestForecasts(points, max_distance_rad) ==
  <<"kSelectClosestForecasts", <<WithIds(points), Double(max_distance_rad), Text(<<"min_date">>), Text(<<"max_date">>)>>>>

SelectForecastLocation(forecast_id) == <<"kSelectForecastLocation", <<Int64(forecast_id)>>>>

\* Faulty variant: the arguments in the order of the parameters.
SelectHazardDepthPointsSwapped(points, height, distance) ==
  <<"kSelectHazardDepthPoints", <<WithIds(points), Double(height), Double(distance)>>>>

SelectHazardDepthPoints(points, height, distance) ==
  <<"kSelectHazardDepthPoints", <<WithIds(points), Double(distance), Double(height)>>>>

\* points: the triangles' corners, three for each.
SelectHazardDepthPointsInAngle(points, height) ==
  <<"kSelectHazardDepthPointsInAngle",
    <<VectorVectorBaseArgVarToString(
        [i \in 1 .. Len(points) \div 3 |->
           <<Int64(i - 1), PolygonVarToString(SubSeq(points, 3 * i - 2, 3 * i)), Double(height)>>])>>>>

\* The name is what the user has typed.
InsertSafePoints(points, name) ==
  <<"kInsertSafePoints",
    <<VectorVectorBaseArgVarToString([i \in DOMAIN points |-> <<Text(name), PointVarToString(points[i])>>])>>>>

\* The query name of the INSERT, and no arguments.
SelectSafePoints == <<"kInsertSafePoints", <<>>>>

CreateDatabase == <<"kCreateTables", <<>>>>

Asked(r) ==
  CASE r.call = "InsertForecast" -> InsertForecast(r.a)
    [] r.call = "InsertForecastRecordBatch" -> InsertForecastRecordBatch(r.points, r.a, r.b)
    [] r.call = "InsertDepthPointBatch" -> 
             InsertDepthPointBatch([i \in DOMAIN r.points |-> [lat |-> r.points[i].lat, lon |-> r.points[i].lon, depth |-> r.a]])
    [] r.call = "SelectClosestForecasts" -> SelectClosestForecasts(r.points, r.a)
    [] r.call = "SelectForecastLocation" -> SelectForecastLocation(r.a)
    [] r.call = "SelectHazardDepthPoints" -> SelectHazardDepthPoints(r.points, r.a, r.b)
    [] r.call = "SelectHazardDepthPointsInAngle" -> SelectHazardDepthPointsInAngle(r.points, r.a)
    [] r.call = "InsertSafePoints" -> InsertSafePoints(r.points, r.name)
    [] r.call = "SelectSafePoints" -> SelectSafePoints
    [] r.call = "CreateDatabase" -> CreateDatabase

-----------------------------------------------------------------------------
Init == directory \in Directories /\ unread = directory /\ storage_ = <<>> /\ query = NoQuery

\* emplace: of two files with the same name the one visited first stays.
Emplace(file) ==
  IF file.name \in DOMAIN storage_ THEN storage_
  ELSE [n \in DOMAIN storage_ \cup {file.name} |-> IF n = file.name THEN ParseTokens(file.text) ELSE storage_[n]]

\* One turn of the loop of LoadTemplates; the order of a directory is not specified.
LoadFile ==
  \E file \in unread :
    /\ unread' = unread \ {file}
    /\ storage_' = IF file.sql /\ file.opens THEN Emplace(file) ELSE storage_
    /\ UNCHANGED <<directory, query>>

\* One call of DbClient: calls have no effect on each other, so one is enough.
\* GetTemplate throws for a name it does not have; a failing assertion ends the
\* program (without assertions the read of args is undefined).
Call ==
  \E r \in Requests :
    LET name == Asked(r)[1]
        args == Asked(r)[2]
        outcome == IF name \notin DOMAIN storage_ THEN "throws"
                   ELSE IF HasArguments(storage_[name], args) THEN "query" ELSE "assert"
    IN  /\ unread = {} /\ query = NoQuery
        /\ query' = [outcome |-> outcome, request |-> r,
                     text |-> IF outcome = "query" THEN MakeQuery(storage_[name], args) ELSE <<>>]
        /\ UNCHANGED <<directory, unread, storage_>>

Next == LoadFile \/ Call

Spec == Init /\ [][Next]_vars

=============================================================================
