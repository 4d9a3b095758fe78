# A TLA+ model of marine-navi

marine-navi is a C++ plugin for the chart plotter OpenCPN.  It downloads wave
forecasts, stores them and depth soundings in a SpatiaLite database, checks a
planned route against them, and searches for the fastest route through a
region.  This directory holds TLA+ modules of that code, TLC configurations
that check them on small instances, and proofs that TLAPS checks for every
instance.  Paths below are relative to `src/src/`.

## 1. Inventory

| Component (code) | State it keeps | Operations | What is hard | What makes it correct |
|---|---|---|---|---|
| Forecast loading: `cases/forecasts_loader.cpp`, `clients/esimo.cpp` | `load_thread_`, `future_`, `records_` (never cleared), the task's locals | `Load`, the task, the destructor | a second thread; failure at every call; a crash; a join on the UI thread | a forecast is stored completely or not at all, a load that ended well is durable, the window never blocks on a running task, loads that were answered end |
| Database client: `clients/db_client.cpp` | none of its own; one `SQLite::Database` shared by everybody | one INSERT or SELECT per method, a transaction around the record batches only | statements of two threads on one connection: they share the open transaction | a row reported as written is in the file |
| Depth loading: `cases/depth_loader.cpp`, `entities/depth_grid.cpp` | none | parse a file, write it batch by batch | one batch of several fails; batches land in another thread's transaction | as above |
| Safe points: `cases/safe_point_manager.cpp`, its panel | the panel's list | add, list | the list and the database disagree | as above |
| Best route: `cases/best_route_maker.cpp`, `cases/scorers/time_scorer.cpp` | `dp`, `expected_time`, `prev`, the queue, for one call | `MakeBestRoute` | stale queue entries, ties, unreachable points, times and scores kept side by side | a way over neighbouring points, clear of shallows, and no faster one exists |
| Closest forecast: `cases/helpers/forecast_accessor.cpp` | the forecasts of each point | `GetClosestForecast` | ties, ages, the limit of 6 hours | the forecast used is the nearest in time |
| Search grid: `entities/find_route_grid.cpp` | `points_`, `adjacency_list_` | constructor, `GetClosestPointId` | points on the border, truncation towards zero, size limits | the points are the ones inside, neighbours are symmetric |
| Route check: `cases/marine_route_scanner.cpp`, `entities/route.cpp`, `cases/helpers/route_helpers.cpp` | `route_data_`, `show_`, `diagnostic_` behind a mutex | `SetPathData`, `CrossDetect`, `GetDiagnostic` | sampling misses a segment, speed and time of the wrong leg, a failed check | every hazard near the route is reported, and what is shown belongs to the route shown |
| Overlay: `render_overlay.cpp` | the hazard waypoints in OpenCPN | `Render` | it deletes and adds on every repaint | the waypoints shown are those of the last check |
| Panels: `dialogs/` | what the controls hold | button handlers | a result that stays after a failed check; routes chosen by a name that is not unique; exceptions nobody catches | what is checked or searched is what the user drew, what is shown belongs to it |
| Plugin: `marine_navi_pi.cpp`, `dependencies.cpp` | `dlg_`, `showDlg_` | `Init`, `DeInit`, toolbar button, close callback | the button and the dialog both change the flag | the toolbar shows whether the dialog is visible |
| SQL templates: `clients/query_builder/sql_query_storage.cpp` | templates by name | load, `MakeQuery` | markers and argument counts | every marker is replaced exactly once |
| CSV parser: `common/csv_parser.cpp`, `PushRow` | none | `csv_parse` | quotes, short rows, a callback that stops the parse | what was written is read back, and the verdict is right |
| HTTP client, geometry, time | none | `Post`, formulas | floating point, network | external or constants of the models |

How they interact.  `CreateDependencies` builds one object of each and hands
the same `DbClient`, hence the same SQLite connection, to all of them.  Every
handler of a dialog, and `Render`, runs on the GUI thread of OpenCPN.  The only
other thread of the program is the one `ForecastsLoader::Load` starts.  The two
meet in the database connection, in `future_`, and in `join()`.

`PROJECT.json` lists the hazards with the line where each bites and the
properties that watch it.

## 2. The modules

| Module | Models | Depends on |
|---|---|---|
| `SqliteConnection` | the connection: `disk`, `view`, `inTxn`; `Exec`, `Begin`, `Commit`, `Rollback`, `ExecFails`, `Reopen`. External: what the calls of `db_client.cpp` rely on | |
| `ForecastsLoader` | the loading thread call by call, and the handlers of the UI thread that write | extends `SqliteConnection` |
| `ForecastStore` | what loading promises a reader of the database: whole forecasts appear in one step and never change | instantiated by `ForecastsLoader` as `Store` |
| `CheckDuringLoad` | the SELECT of "Check path" row by row while the loading thread writes | composes with `ForecastsLoader`, which it extends |
| `ForecastAccessor` | `GetClosestForecast` | |
| `BestRouteMaker` | `MakeBestRoute`: one action per turn of its two loops | extends `ForecastAccessor` |
| `FindRouteGrid` | the constructor and `GetClosestPointId` | |
| `BestRouteBuilderPanel` | the handlers of the panel, from the click to the route on the chart | instantiates `FindRouteGrid` as `Grid` |
| `MarineRouteScanner` | `CrossDetect` as operators: sampling, expected times, two diagnostics, filter | extends `ForecastAccessor` |
| `RouteCheck` | `CrossDetect` as an action: one check of any input against any database | extends `MarineRouteScanner` |
| `RouteValidatePanel` | the panel's handlers, the scanner's members, the text and the overlay's marks | extends `MarineRouteScanner` |
| `SqlQueryStorage` | loading and cutting the SQL files, writing the arguments out, the calls of `DbClient` | |
| `SqlQueries` | the text of `data/queries/*.sql`, placeholder by placeholder | |
| `DepthGrid` | reading a raster, and `GetAllPoints` | |
| `DepthLoader` | `Load`: from the raster to the text of every statement | extends `SqlQueryStorage`, `DepthGrid` |
| `CsvParser` | `csv_parse` line by line, `csv_parse_line`, `PushRow` | |
| `CsvFormat` | a reply written the way the comment at the head of `csv_parser.cpp` describes the format, and what reading it has to give | extends `CsvParser` |
| `SafePointManagerPanel` | the panel's list and `OnAddSafePoint` | |
| `MarineNaviPi` | `Init`, `DeInit`, the toolbar button, the dialog and its close button | extends `SafePointManagerPanel` |
| `MC...` | instances for TLC, and the reference definitions that only runs need | the component |
| `ForecastsLoader_proofs` | theorems on the loader, and on SELECTs during a load | extends `CheckDuringLoad` |
| `BestRouteMaker_proofs`, `FindRouteGrid_proofs`, `MarineNaviPi_proofs` | theorems | extend the component and `TLAPS` |
| `RouteCheck_proofs` | theorems on a check and on the panel that shows it | extends `RouteCheck` and `RouteValidatePanel` |
| `CsvParser_proofs` | theorems on reading a reply | extends `CsvFormat` |
| `BestRouteBuilderPanel_proofs` | theorems on the panel | extends it, instantiates `FindRouteGrid_proofs` as `G` |
| `InductionLemmas` | lemmas the proofs share: induction over `Nat`, functions by recursion, flattening, elements of sequences | |

Definitions whose comment says "Faulty variant" are not part of the model.  Each
stands just before the definition it is a wrong version of, and shows that some
property would notice that mistake.

### ForecastsLoader

`worker` is the next call of the task: `post` (the HTTP request, saving and
parsing the reply), `insertForecast`, `begin`, `batch` (one `exec` per turn of
the loop), `commit`, `rollback` (the destructor of `SQLite::Transaction` during
unwinding), `returned` (the future is ready) and `exited` (the thread is over).
`ui` is the handler the GUI thread is in: `joining` inside `Load`, `depth`
inside `InsertDepthPointBatch`, `closing` inside the destructor.  A step is one
call on the connection or one call that can block; the code between two such
calls touches data of its own thread only.  `LoadForecasts` reads and writes
`records_`, which only the one loading thread uses.

A reply is abstracted to the number of rows `PushRow` accepts; a parse that
stops early keeps the rows before it and the task goes on, which is another
number.  `records` is never reset, as in the code.  A row is abstracted to its
table, a key and its position in the load; that a later load stores the rows of
the earlier replies again is therefore in the model only as a number.

Every call on the connection may fail.  SQLite answers some errors (disk full,
I/O error, no memory) by rolling back the whole transaction and not just the
statement: with `AutoRollback = TRUE` every failing statement, of either thread,
may do so.  `Crash` stops the process at any point; `Restart` follows a clean
close.  Both reopen the file, where the journal undoes an open transaction.

Five history variables serve the properties: `handed` (how many records the task
of a forecast had to store), `completed` (its task returned normally),
`disturbed` (its transaction was ended by a failing statement of the UI thread),
`acked` and `exposed` (rows the UI thread was told are written, outside and
inside the transaction of a load).

### BestRouteMaker

`pc` is the loop the function is in.  `order` is a set and not a multiset: a
point is pushed only with a score lower than all before it, so the same pair is
never in the queue twice.  The loop over the neighbours of the point on top is
one step, because each neighbour is looked at once and none is the point itself.
The grid, made by `FindRouteGrid`, the set of points near shallows, the forecasts and the legs' durations
are read once before the search and do not change; they are constants or are
chosen in `Init`.  Scores are `int64_t` from a truncated `double`, arrival times
`time_t` truncated in the same way: `Duration` is the truncated value of both.
`DurationAssumption` says the speed is positive, which the form does not check.

`Init` gives `expected_time` the value 0 for the start, as the code does, and not
the departure time.  `TimesAreElapsed`, a part of
`LabelsAreSound`, states the consequence for the times, and
`ReturnsFastestCalmRoute` the one for the result: since the forecasts carry
clock times, none is ever near, and the route is the fastest one for a calm sea,
whatever has been downloaded.

### CheckDuringLoad

`DbClient::SelectClosestForecasts` calls `executeStep` in a loop, and each call
is one action (`StepRow`, `NextPoint`, `StepFails`): SQLite's mutex is held for a
call and not for the statement, so the loading thread may insert, commit or roll
back between two rows.  The scan follows the row ids, which are the order of
insertion.  `StartSelect` and `EndSelect` are the begin and the end of the
handler; while `ui` is `selecting` the UI thread does nothing else.  `Next` of
`ForecastsLoader` goes on, so that writes, failures and crashes happen in the
middle of a SELECT.  Whether a scan sees rows that were inserted behind its
cursor by the same connection is left open by SQLite; with ascending ids there
are none behind it, and those ahead it does see.

### FindRouteGrid and BestRouteBuilderPanel

A coordinate is a whole number and a grid step is `kStep` of them; that keeps the
truncation of `static_cast<int64_t>` towards zero, on which several properties
turn.  The quotient of the ray test is multiplied out.  The haversine distance
of `GetClosestPointId` is replaced by the planar one, with the same tie rule
(the first point).  A constructor that throws leaves `NoGrid`.

In the panel the user, the chart plotter and the panel take turns: lists are
filled by `OnRefresh`, picked from by `SelectLine` and looked up by NAME when
the button is clicked, after `HostEditsChart` may have changed everything.  No
handler catches, so `ended` says what ended the program: an `exception`, a
failing SELECT (`database`) or the read through a null pointer for a route
without a segment (`undefined`).  The way found is abstracted to its ends: what
lies between is `BestRouteMaker`.  The form takes any speed from -1e5 to 1e5; with one that
is not positive the search divides by zero or never ends, so that unless it starts at
its end, where no score is asked for, it may end as `undefined`.  Results are added to the chart without a name,
and are found again by the next look-up of the empty name.

### MarineRouteScanner, RouteCheck and RouteValidatePanel

The course is a straight line: waypoints, samples and forecasts are positions on
it, a shallow has a side as well.  Legs of no length are kept, because they
produce `0 / 0` and an SQL text with `nan`.  Speeds, wave slow-down and the leg
turned by the steering angle (`Corner`) are constant operators.  The third corner of a
triangle is the TURNED leg, as long as the leg itself: of two speeds the faster has the
wider triangle, but it ends lower near the end of the leg, and neither holds the other.
Times are truncated at every sample, as in the code.  `DoCrossDetect` returns `NoDiagnostic` where an
exception is caught: a missing draft, a missing danger height once a forecast is
used, or SQL that SQLite refuses.  The loops that append to a vector are recursive
functions of the loop's index, or comprehensions read in order by `At`.

`RouteCheck` makes one check the only action, over sets of inputs and of tables,
and holds the properties of a check; the panel uses the operators alone.

`RouteValidatePanel` has one action per handler.  `route_data_` and `diagnostic_`
are the scanner's members, `c_diagnostic_message_` the diagnostic the text was
made from, and `marks` the waypoints whose GUID says they are hazards.  `Render`
is a repaint by OpenCPN, at any time or never.  `LoadStoresRows`, `HostEditsChart`
and `EditForm` change what the next check will read.  The panel is there from the start to
the end of a run: that the dialog is destroyed and made again, with an empty text and
new lists, is not modelled.

### SqlQueryStorage, DepthLoader and CsvParser

A text is a sequence of lexemes, single characters where the code looks at
characters.  A text argument stands between quotes as it was given, as in the code,
which escapes nothing; so do the WKT texts.  `HasArguments` is the assertion on the
index of a placeholder, both halves: `$0` has the index -1.  `LoadFile` is a turn of the loop over the directory, in any order;
a file that does not open is skipped, and of two files with one name the first
stays.  `Call` is one call of `DbClient` with arguments written by
`std::to_string` or with three decimals.  Templates are given with the name they
are stored under.  A raster is a header and cells: `ReadCell` models what
`operator>>` leaves after a failed conversion.  `Load` writes the statements one
batch after another; how they interleave with the loading thread is the subject
of `ForecastsLoader`.

`CsvParser` reads a line per action.  `kColumns` stands for the twelve columns of
the reply; a column the handler does not look at is left out.  A last line
without a line break is read past its end, and nothing counts the columns of a
line against `MAX_COLUMN_COUNT`, the size of `column_values`: in both cases
`result` is `undefined`.  Characters are written as letters, `"c"` for the comma,
`"q"` for the quotation mark, `"s"`, `"t"` and `"n"` for space, tab and line break.

`CsvFormat` writes a row by the rules at the head of `csv_parser.cpp`, which allow
commas, quotes and line breaks in a quoted field, and says what has to come back:
`Read` are the rows before the first that ends the reading, which is too short for the
handler, too long for the buffer of `fgets`, or goes on in a second line; `Verdict` is
the answer to the file.

### MarineNaviPi

The chart plotter is external: it flips a button that is clicked before it calls
the plugin, and may rebuild the toolbar from its own toggle (`b_toggle`) at any
time.  `OnMainDlgClose` does not destroy the window.  The safe point panel lives
and dies with the dialog.  A line of its list remembers the waypoint it was made
from, as history: the code looks the waypoint up by name.

## 3. What the runs check

`forecasts_loader` (147 004 states): `BatchSize = 2`, two forecasts, three
records, two rows of the UI thread.  Three records are one more than a batch, so
that loads have two batches and something can happen between them; two forecasts
let a load follow a load that failed, or one before a crash; two rows let the UI
thread write before, in and after a transaction and let a depth load have two
batches.

* `AllOrNothing`: the file holds all records of a forecast or none, except for a
  forecast in `disturbed`.  The exception is real: TLC finds the trace (a batch,
  a failing depth batch that rolls back, the remaining batches in autocommit)
  when it is taken out.
* `CompletedIsStored`: a load without an exception is durable, disturbed or not,
  because COMMIT without a transaction fails.
* `ThreadsAreOrderly`: `TransactionIsBracketed`, `JoinIsShort`, `CleanClose`.
* `ReportedRowsAreKept`: what a log line of the depth loader is worth
  (`AckedIsDurable`, `ExposedSharesFate`).  Inside another thread's transaction
  it is worth as much as that load.
* `ImplementsStore`: the loader is a refinement of `ForecastStore`, with the
  committed records of undisturbed forecasts for `stored`.

`check_during_load` (137 321 states): two forecasts of up to two records, one
record per batch, so that a SELECT falls between two batches; two points, so that
one may see what the other did not; one row of the UI thread.

* `CompletedBeforeIsSeen`: a finished load is seen whole, at every point.
* `OnlyLoadingIsTransient`: of loads that were not complete when it began, a check
  sees at most the latest one, running or just failed, its first records without a
  gap.  Loads in `disturbed` are excused.
* `LoadEnds`: a load whose requests have been answered ends.
* `HandlersEnd`: every join in `Load`, depth load and SELECT ends, although rows are
  added ahead of the cursor and even while a request is never answered; closing ends
  unless it waits for such a request.

`CheckFairSpec` assumes weak fairness of what the task does after its requests
(`TaskContinues`) and of the handler the UI thread is in: the operating system
schedules both threads.  That the HTTP request comes back (`PostReturns`) has no
fairness, since the client sets no timeout, and so a load may hang in `post` for ever,
every later click is refused, and the destructor waits for it; the two properties say
what holds nevertheless.  Clicks and crashes have no fairness either.  A statement that
fails is a step of `TaskContinues`, but is never needed for progress.

`best_route` (3 282 states): a grid of six points that `FindRouteGrid` makes of a
drawn polygon with corners between the grid points, every set of dangerous
points, ends drawn inside and outside the zone, uneven legs, one of 0 seconds,
stored forecasts whose waves would slow the ship.  Six points give ways of up to
five legs, stale queue entries, ties and unreachable ends.  `kMaxScore` is 500,
above the length of any way, as 1e12 is in the code.

* `NeverIntoDanger`, `RouteIsSound`: what is returned can be sailed, or is the
  bare end when there is no way.
* `LabelsAreSound`, `SettledIsFinal`: why it is the fastest.
* `ReturnsFastestCalmRoute`: it is the fastest, against a definition by the
  number of legs, and only at the speed of a calm sea.  `IsPresent` limits it to
  voyages shorter than the time from 1970 to the departure less six hours:
  beyond that the elapsed time would come near the clock time of a forecast.
* `Terminates`: the two loops end, under weak fairness of the function's steps:
  it runs on one thread and waits for nothing.

`marine_route_scanner` (59 850 states): every check over fifteen routes of up to three legs
(with legs of no length, longer and shorter than the distance of the samples),
five ships, shallows on the course, beside it and in groups, and up to three
forecasts before, at and after the time of arrival, and after the window of the SELECT.

* `ShallowsAreReported`: a shallow inside the triangle of a leg longer than the
  sampling distance, at every speed the waves may cause, has a report near it.  For
  shorter legs this is false, since no sample may fall on them, and so it is for a
  shallow in the triangle of one speed only, since the check looks at one: the triangles
  are not nested.  The property states both limits.
* `FoundIsReported`: the filter thins out and loses no hazard.
* `ForecastsAreTimely`: the forecast used is, but for the time of a step, the closest of
  all that are STORED near the sample, as long as the two days the SELECT asks for reach
  far enough.  On a longer voyage it is the closest of those within them: TLC finds the
  one that ends later and is nearer if the restriction is taken out.
* `ShallowsAreTimed`: how wrong the time of a warning can be, since it is taken from a
  sample before or behind.
* `CompleteFormIsChecked`: which checks cannot fail.

`route_validate_panel` (20 448 states): four charts, three forms and three databases that change
between any two handlers.  `MarksAgreeWithText`: marks of two checks never mix,
and those drawn since the last check are those of the text, or none, since a check that
fails leaves the text of an earlier one.  `CourseIsDrawn`: the
list may be stale, but what is checked is one route as it is drawn now, unless
several share the name.

`find_route_grid` (7 773 states): triangles and quadrangles on 7 x 7 corners, five of the seven
coordinates not on the grid and three below zero, flat ones and ones that cross
themselves; 364 of the quadrangles that cross themselves are within the limits and get
a grid.  `GridIsInside` compares with the even-odd rule along the other axis;
`CornersAreInGrid`, `AdjacencyIsSymmetric`, `GridIsNearDrawing`.

`best_route_panel` (790 434 states): BOUND `MaxResults = 2`, enough for a result to be a line of a
list and for two to share the empty name; a zone just within the limits, one
across the equator, one too wide; routes of one, two and three waypoints and two
of one name; forms with a positive speed, with speed 0 and with none.  `LegIsDrawn`, `ResultIsInZone`, `SoundInputIsSearched`.

`sql_query_storage` (70 149 states): the repository's SQL files, each in turn failing to open and
rivalled by a second file of a name; a file with any text of up to four
characters of `$`, `1`, `0`, `a`; rasters of two rows and three columns cut off at
any cell and damaged at any set of cells, in batches of four; names of waypoints with
brackets, commas and apostrophes.  `RowsMatchTheRequest` reads the text as SQLite does,
where nothing within quotes is SQL.  It excuses names with an apostrophe, of which TLC finds
a broken row when they are not excused.  `TextIsKept` excuses a `$0` before a digit, whose
zero is lost, and nothing else.  `HeightLimitsDepth`, `TableIsTheRaster`.

`csv_parser` (29 854 states): replies of a header and two rows, quoted and not, escaped by the
rules at the head of `csv_parser.cpp`, with short, broken, empty, overlong and too
many columns and with line breaks within fields; lines of 16 characters, four columns at
most, three wanted.  `RowsSurvive`: quoting, escaping and the line-by-line reading lose
and invent nothing up to the row that ends the reading.  `VerdictIsRight`:
`E_LINE_TOO_WIDE` is given exactly when the first line of that row does not fit, also
when the row is too short for the handler, and `E_QUOTED_STRING` exactly when it fits
and a field of the row has a line break in it; no other file is called ill-formed.

`plugin_lifecycle` (1 936 states): four charts with nameless, moved, renamed, deleted and equally
named waypoints.  `ButtonShowsDialog`, `UniqueNameIsExact`.

Deadlock is not checked where a run models one function or one program that
ends: it returns, or an exception has ended it.

Two runs are expected to fail.

* `best_route_segments`: `MakeBestRoute` builds
  `std::runtime_error("route must have only one segment")` without `throw`
  (`cases/best_route_maker.cpp:86`) and goes on with the first segment.
* `route_validate_draft`: the form says "Ship draft, m"
  (`dialogs/panels/ship_info_panel.cpp`), the value is converted from feet, and a
  check leaves out a shallow that is no deeper than the metres entered.

Seen while modelling, without a run of their own: `SelectSafePoints` asks for the
template of the INSERT and passes no arguments, so that the assertion in
`MakeQuery` fails (nothing calls it); a quoted CSV field with a line break in it,
which the comment says must be preserved (`common/csv_parser.cpp:23`), gives
`E_QUOTED_STRING`, because a line is read before its quotes are looked at
(`VerdictIsRight` says so of every such file); a name with an apostrophe breaks the INSERT of a
safe point (`clients/query_builder/sql_query_storage.cpp:60`); a failed check leaves the
earlier text in the panel while the overlay shows nothing.

## 4. What is proved

`ForecastsLoader_proofs` proves, for every `BatchSize > 0`, every bound and both
values of `AutoRollback`, that every reachable state satisfies `TypeOK`,
`AllOrNothing`, `CompletedIsStored`, `ReportedRowsAreKept` and
`ThreadsAreOrderly`.

None of these is inductive.  The invariant `IInv` adds what the code relies on
between two calls.  `Places` ties `ui`, `worker`, `joinable` and `ready`
together.  `Connection` says that `disk` is part of `view` and that they differ
only while a transaction is open.  `Numbering` says that rows carry no id above
`lastId` and no UI serial above `issued`.  `Task` says, for each place of the
task, which records of its forecast `view` and `disk` hold: in `batch` and
`commit`, with the transaction open, `view` has `1 .. written` and `disk` none;
with the transaction gone, the forecast is in `disturbed`.  `Exposed` says where
the UI's rows are that went into the open transaction, and `Pending` that the
only forecast records not yet in the file are the task's.  `StepIInv` has one
lemma per part and in it one step per action.

From the same invariant follow `Refinement`, that the loader implements
`ForecastStore` (COMMIT is the step `Publish`, everything else stutters).

The same module proves `CompletedBeforeIsSeen` and
`OnlyLoadingIsTransient` of `CheckDuringLoad` for any number of points, forecasts, records and
batches.  `SInv` adds to `IInv` of the loader how far a SELECT is and what it can
have read: `NoLoadStarts` (a load begins on the UI thread, so at most the one
that was running can complete during a SELECT), `OldIsSeen` (of a load completed
before, a finished point has every row, and the current one those up to the
cursor), `LoadingIsPrefix` (of the load going on, a point has the first records
without a gap, since its ids are above all others and the cursor only ascends)
and `FailedIsUnseen`.  The last is what makes it inductive: a rolled-back load
may have been seen by the SELECT in which it failed only if its transaction was
disturbed.  `SelectRefinement` says that the loader keeps implementing
`ForecastStore` while SELECTs run.

`BestRouteMaker_proofs` proves, for every grid, every duration of the legs,
every set of dangerous points and all forecasts, the invariants `TypeOK`,
`NeverIntoDanger`, `LabelsAreSound`, `RouteIsSound` and `ReturnsFastestCalmRoute`
and the action property `SettledIsFinal`.  The argument is that of
Dijkstra's algorithm: the queue holds no entry below the score of a settled
point (`Queue`), and a leg costs nothing negative, so a settled label is final,
and so stays right for the points reached from it.  `Way` says that the part of
the route found so far follows `prev`.  That the scores are the smallest possible
takes three more parts (`SearchInv`): `Waiting` (while the search runs, a point that
is labelled but not settled is in the queue with its label), `Frontier` (once it is
over, none of these has a better label than the end) and `WaysAreCalm` (a label is
the time of a way on a calm sea, with at most one leg for every other settled
point).  `NoWayIsFaster` is the induction over the number of legs: a way from the
start ends in a point whose label is no larger, or it has left the settled points
somewhere, and then the end's label is no larger.

`FindRouteGrid_proofs` proves, for every polygon, step and limit, that the grid is
an undirected graph without loops (`GridIsAGraph`), has the corners of the
polygon, moved onto the grid, among its points (`CornersBelong`), and lies less
than a step outside what was drawn, and never further from zero (`GridStaysNear`).
The invariant is `Made`: the object is either not there or the one made for the
polygon.  The first theorem is what `BestRouteMaker` assumes of `Adj`.

`GridHoldsInside` proves `GridIsInside` for every polygon, one that crosses itself
or has no area included: off the border, the points of the grid are those the
even-odd rule calls inside, whichever way its ray goes.  The code's ray goes to the
right of a point, the reference's upwards, and the argument is one of parity.  An
edge that does not touch the point crosses the two rays once in all iff it leads
into the quarter between them or out of it (`EdgeTurns`, from the signs of two
products in `QuarterOfOrigin`).  Around a polygon as many edges lead into the
quarter as out of it (`AroundPolygon`), so that the edges that cross one ray and
those that cross the other are both odd in number or both even (`SameParity`).

Three lemmas speak of any sequence of corners: `PointIsNear` (how far a point of
the grid is from the drawing), `SpanCount` (a side of the grid has at most two
points more than the steps that fit in the extent: one for the first, one because
`Truncate` goes towards zero) and `ClosestPoint` (`GetClosestPoint` returns
a point of the grid no farther than the others).

`BestRouteBuilderPanel_proofs` proves the three properties of a click on Search for
every chart and all three limits.  `ChartInv` says that every route on the chart, the
results included, has corners with whole coordinates.  `SearchedLegIsDrawn` rests on
`FirstLeg`: the waypoints `GetWaypoints` glues together for a name begin with those
of the first route of that name, by induction over the chart.  `ResultStaysInZone`
follows from `PointIsNear` for the waypoints between the ends.  `OnlyDatabaseEnds`,
that a sound zone and route and a positive speed are refused only for a lost database,
follows from
`SpanCount` for the limit on the vertices, and from `ClosestPoint` and
`CornerIsPoint` for the ends being in the grid.

`RouteCheck_proofs` proves the five properties of a check for every route, ship
and database.  `CheckInv` is short, since there is one action; the work is in the
loops.  `AtElements` and `FilterElements` say what the loops that append have
collected, `SampleOnLeg` on which leg a sample lies, `InfoEquation` that
`GetRouteInfo` is what the loop over the samples computes, one from the one
before.  From these: `FoundAreReported`; `CompleteFormsAreChecked`, because a
sample is never put on a leg of no length behind the first; `ForecastsAreUsedTimely`,
of all forecasts stored, where the window of the SELECT has to be set against the time
asked for; `ShallowsHaveTheirTime`, where a second is lost at most per sample; and
`ShallowsReported`, because a leg longer than `kStep` has a sample on it, whose speed is
one of the speeds the waves can cause (`PossibleSpeedsType`).  No triangle is assumed to
hold another.

`MarineNaviPi_proofs` proves `ButtonAlwaysShowsDialog`, and `EveryClickToggles`,
which no run checks.  The invariant is `ButtonShowsDialog` with the types of the
flags, since a click negates one of them.  `StoredIsTheOrigin` proves
`UniqueNameIsExact` for every chart: whatever was edited since the list was filled,
a line whose name only one waypoint has stores that waypoint.

`RouteCheck_proofs` also proves, of the panel, `MarksAgreeWithText` for every chart, form and
database and whatever a check computes: `ShownInv` says that the scanner's
diagnostic is the one in the text or none at all, and that what was drawn since
the last check are its marks.  `CheckedCourseIsDrawn` proves `CourseIsDrawn`: the
waypoints of all routes of a name, glued together, are one of them if there is
only one.

`CsvParser_proofs` proves `RowsSurvive` and `VerdictIsRight` for every reply written
by the rules: any number of rows, columns and characters, line breaks within fields
among them, any of them quoted, any size of the buffer.  The steps are those of the parser, from the inside out.
`EscapedIsReadBack`: in an escaped field quotes come in pairs, so one of two is kept
and none inside has an odd number before it (`QuoteIsEscaped`); hence
the quote that closes is the one that was written to close (`QuotedField`), and a
field without quotes ends at its comma or line break (`PlainField`).  `LineIsRead`
is an induction over the columns from the last to the first, the order in which the
recursion of `ParseLine` comes back; `RowIsPlaced` says where in the line each
column stands.  `BrokenIsIllFormed` says that a line cut off by a line break within a
field has a quote that is never closed.  `NextLine` says that `fgets` returns the next
written line, its part up to the first line break, or fills its buffer.  The inductive invariant `ReadingInv` then says how many lines have
been read: the header, if any, and `r - 1` rows, whose records are in `records_`,
while `fp` is the rest of the lines; and if the reading has ended, that the next
row ends it (`Stops`).

Induction.  The library's induction theorems cannot be used here, since they have
an operator for a parameter.  `InductionLemmas` derives what the proofs need from
the least element of a set of naturals (`NatMinimum`): a set that holds 0 and the
successors of its members is `Nat` (`NatSetInduction`), a function given by
recursion over `Nat` exists and satisfies its equation (`NatRecursion`), what
`FlattenSeq` and `\o` have for elements and for a head, and that a bounded set of
integers has a least and a finite family a greatest element.  For texts it adds
what flattening does with a sequence appended or taken off (`FlattenAppend`,
`FlattenRest`) and where in the whole a part stands (`FlattenPlaces`), and that a
function over `1 .. n` may be given by its values further on
(`DescendingRecursion`).

Assumptions.  They are on constants, named in the modules, and TLC evaluates them
in the runs.
* `BatchSize > 0`; at least one point in the database of a SELECT.
* `BestRouteMaker`: a leg takes a natural number of seconds (a positive speed), no
  point is its own neighbour, the points are finitely many, a route has a segment,
  no forecast ends before the departure, `kTooLate` is a natural number.
* `StepAssumption`: the distance of the samples, or of the points of a grid, is
  positive; the panel's limits are natural numbers.
* `SpeedsAssumption`: a ship has a positive speed and keeps one in waves.  The form
  accepts any number; nothing is said of the others.
* `CornerAssumption`: the turned leg reaches neither behind its start nor farther along
  the course than the leg.  The steering angle is proportional to the speed, and only at
  90 times the nominal one it would be a quarter turn.
* `WindowAssumption`: the window of the SELECT is given in natural numbers.
* `InputsAssumption`, `TablesAssumption`, `ChartsAssumption`: the types of
  charts, forms and rows; a route that is checked has a leg, as the panel demands.
* `FilesAssumption`: a reply called whole is its rows written by the rules, has a
  line break at its end, no more columns than `MAX_COLUMN_COUNT`, and a header of one
  line that fits into the buffer.  Of other replies nothing is claimed.

Only model-checked:
* liveness (`Terminates`, `LoadEnds`, `HandlersEnd`): TLAPS has no support for ENABLED;
* the four properties of the SQL templates (`RowsMatchTheRequest`,
  `HeightLimitsDepth`, `TextIsKept`, `TableIsTheRaster`): they read numbers back
  from the texts `ToString` makes of them, and compare strings put together with
  `\o`; the provers know nothing of either.  TLC goes through all texts of a length;
* the two runs that find a violation.

## 5. Not modelled, and the plan

Not modelled: layout of the dialogs, the file dialog and the date picker,
logging, translations, build files and vendored libraries; the formulas of
spherical geometry and of the slow-down in waves (`common/geom.cpp`,
`CalculateVelocityRatio`: floating point, whose values are constants of the models); the parser
of the WKT that SpatiaLite returns, and the conversion of its rows; what the HTTP
client does inside; functions nothing calls (`DepthGrid::GetDepth`, `GetNearest`,
line and segment arguments of a query).

Simplifications that bound what the runs show: a straight course, planar
distances, coordinates in thousandths of a degree, one call per behaviour of
`SqlQueryStorage` (calls do not affect each other), ways abstracted to their ends in
`BestRouteBuilderPanel`.

What the plan has left is a proof about the SQL templates.  It would need a model of
the texts in which a number that is written out is a lexeme the provers know
something about, and a definition of `ParseTokens` for which that is enough.
