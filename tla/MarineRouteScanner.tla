-------------------------- MODULE MarineRouteScanner --------------------------
(***************************************************************************)
(* cases/marine_route_scanner.cpp with entities/route.cpp: the check of a  *)
(* route against the depths and the forecasts in the database.             *)
(*                                                                         *)
(* The course is a straight line.  A waypoint is its position on it, a     *)
(* shallow a position and a side (left positive), all in thousandths of a  *)
(* degree: that is what the SQL text keeps of a coordinate.  Distances are *)
(* taken along the course.  A depth grows downwards (the table stores      *)
(* heights, and the SELECT negates them).                                  *)
(***************************************************************************)
EXTENDS ForecastAccessor, SequencesExt

CONSTANTS
  kStep,              \* kForecastStepMeters; the filter's distance is the same
  kDangerousDistance, \* of a forecast from the point it is used for
  kLookBack, kWindow, \* seconds before the departure, and the length of the SELECT
  Slowed(_, _),       \* CalculateVelocityRatio times the speed, in waves of a height
  Corner(_, _)        \* the leg vector turned by CalculateSteeringAngle, as [along,
                      \* side]: leg length, speed

ASSUME StepAssumption == kStep \in Nat \ {0}
ASSUME WindowAssumption == kLookBack \in Nat /\ kWindow \in Nat

NoValue == -1         \* an empty std::optional

\* The elements of s at the positions in I, in their order: a loop with a push_back.
At(s, I) ==
  LET n == Len(s)
      kept[i \in 0 .. n] ==
        IF i = 0 THEN <<>> ELSE IF i \in I THEN Append(kept[i - 1], s[i]) ELSE kept[i - 1]
  IN  kept[n]

-----------------------------------------------------------------------------
\* entities::Route of waypoints w.

GetDistance(w) == w[Len(w)] - w[1]
GetSegments(w) == 1 .. Len(w) - 1
LegLength(w, i) == w[i + 1] - w[i]

\* The FIRST leg that reaches the distance: a sample on a waypoint belongs to the
\* leg before it.  (No caller passes more than the length of the route.)
GetPointFromStart(w, len) ==
  [pos |-> w[1] + len,
   segment_id |-> CHOOSE i \in GetSegments(w) :
                    /\ len <= w[i + 1] - w[1]
                    /\ \A j \in 1 .. i - 1 : w[j + 1] - w[1] < len]

\* Every kStep from the start; the end of the route is never among them.
GetRoutePoints(w) ==
  [i \in 1 .. (GetDistance(w) + kStep - 1) \div kStep |-> GetPointFromStart(w, (i - 1) * kStep)]

\* Faulty variant: the quotient is formed on every leg.
IsSqlErrorOnAnyLeg(points, w) == points = <<>> \/ \E i \in GetSegments(w) : LegLength(w, i) = 0

\* 0 / 0 for a sample on a leg of no length: the SQL text then says nan.  With no
\* sample at all it says VALUES and nothing.  SQLite refuses both.
IsSqlError(points, w) == \/ points = <<>>
                         \/ \E i \in DOMAIN points : LegLength(w, points[i].segment_id) = 0

-----------------------------------------------------------------------------
\* helpers::GetSpeed: the waves count only if the whole form is filled in.
GetSpeed(ship, wave) ==
  IF NoValue \in {ship.danger_height, ship.hull, ship.ship_draft}
    THEN ship.speed ELSE Slowed(ship.speed, wave)

\* select_closest_forecasts.sql for one point, in the order of the rows.
SelectClosestForecasts(db, pos, min_date) ==
  At(db.forecasts, {i \in DOMAIN db.forecasts :
    /\ Distance(db.forecasts[i].pos, pos) <= kDangerousDistance
    /\ min_date <= db.forecasts[i].end_at /\ db.forecasts[i].end_at <= min_date + kWindow})

\* Faulty variant: every forecast is chosen for the time of the departure.
TimeAtDeparture(info, i) == info[0].expected_time

\* A forecast is chosen for the time at the sample BEFORE the one it is used at.
TimeAsked(info, i) == info[i - 1].expected_time

\* For each sample the forecast used, the speed and the expected time; 0 is the
\* ship before it sails.  Without a forecast the speed stays as it was; seconds
\* are truncated at every sample.
GetRouteInfo(input, db) ==
  LET points == GetRoutePoints(input.route)
      info[i \in 0 .. Len(points)] ==
        IF i = 0
          THEN [forecast |-> NoForecast, speed |-> input.ship.speed, expected_time |-> input.depart]
          ELSE LET before == info[i - 1]
                   time == TimeAsked(info, i)
                   candidates == SelectClosestForecasts(db, points[i].pos, input.depart - kLookBack)
                   forecast == GetClosestForecast(candidates, time)
                   speed == IF forecast = NoForecast THEN before.speed
                            ELSE GetSpeed(input.ship, forecast.wave)
               IN  [forecast |-> forecast, speed |-> speed, expected_time |->
                      before.expected_time + (IF i = 1 THEN 0 ELSE kStep \div speed)]
  IN  info

-----------------------------------------------------------------------------
Hazard(kind, pos, side, time) == [kind |-> kind, pos |-> pos, side |-> side, time |-> time]

\* The mark is set where the forecast is, not where the ship meets it.
GetForecastDiagnostic(input, info) ==
  LET samples == DOMAIN GetRoutePoints(input.route)
      high == At([i \in samples |-> info[i]],
                 {i \in samples : /\ info[i].forecast # NoForecast
                                  /\ info[i].forecast.wave > input.ship.danger_height})
  IN  [i \in DOMAIN high |-> Hazard("waves", high[i].forecast.pos, 0, high[i].expected_time)]

\* MakeDepthCheckPolygon and ST_Within: strictly inside one of the two triangles of
\* start, end and the TURNED leg, which is as long as the leg: a wider triangle ends
\* lower near the end of the leg.  A shallow exactly on the course is in neither.
\* hand is 1 or -1.
InTriangle(shallow, start, length, speed, hand) ==
  LET x == shallow.pos - start
      y == shallow.side * hand
      corner == Corner(length, speed)
  IN  /\ 0 < y
      /\ y * corner.along < x * corner.side
      /\ y * (length - corner.along) < (length - x) * corner.side

\* Faulty variant: a sample at the end of a leg already looks at the next one.
FirstSamplesShifted(points) ==
  {i \in DOMAIN points : i > 1 /\ points[i - 1].segment_id # points[i].segment_id}

\* The samples that are the first ones of their leg.
FirstSamples(points) ==
  {i \in DOMAIN points : i = 1 \/ points[i - 1].segment_id # points[i].segment_id}

\* Faulty variant: a leg has one time.
TimeOfSample(sample, from, pos) == sample.expected_time

\* From the first sample of the leg to the shallow, at the speed there; also to one
\* that lies behind the sample.
TimeAt(sample, from, pos) == sample.expected_time + Distance(pos, from) \div sample.speed

\* The shallows in the two triangles of each leg SOME SAMPLE FALLS ON, as wide as
\* the ship is fast at the first of these samples.
GetDepthDiagnostic(input, info, db) ==
  LET points == GetRoutePoints(input.route)
      Found(i, hand) ==
        LET w == input.route
            leg == points[i].segment_id
            length == LegLength(w, leg)
            found == [k \in DOMAIN db.depths |->
                        LET d == db.depths[k]
                        IN  Hazard("depth", d.pos, d.side, TimeAt(info[i], points[i].pos, d.pos))]
        IN  At(found, {k \in DOMAIN db.depths :
              /\ db.depths[k].depth <= input.ship.ship_draft
              /\ InTriangle(db.depths[k], w[leg], length, info[i].speed, hand)})
      starts == FirstSamples(points)
  IN  FlattenSeq([i \in DOMAIN points |->
        IF i \in starts THEN Found(i, 1) \o Found(i, -1) ELSE <<>>])

\* Faulty variant: the distance is taken to the point before, also to a dropped one.
FilterAgainstPrevious(points) ==
  LET keep == SetToSortSeq({i \in DOMAIN points :
                i = 1 \/ Distance(points[i].pos, points[i - 1].pos) >= kStep}, <)
  IN  [k \in DOMAIN keep |-> points[keep[k]]]

\* A point is kept if it is far enough from the last one kept.
FilterDiagnosticPoints(points) ==
  LET n == Len(points)
      kept[i \in 0 .. n] ==
        IF i = 0 THEN <<>>
        ELSE LET result == kept[i - 1]
             IN  IF result = <<>> \/ Distance(Last(result).pos, points[i].pos) >= kStep
                   THEN Append(result, points[i]) ELSE result
  IN  kept[n]

NoDiagnostic == [result |-> "none", hazard_points |-> <<>>]

\* CrossDetect: every exception is caught and leaves no diagnostic.  An empty draft
\* always throws, an empty danger height as soon as a forecast is looked at.
DoCrossDetect(input, db) ==
  LET info == GetRouteInfo(input, db)
      forecast == GetForecastDiagnostic(input, info)
      depth == GetDepthDiagnostic(input, info, db)
      points == FilterDiagnosticPoints(depth) \o FilterDiagnosticPoints(forecast)
  IN  IF \/ IsSqlError(GetRoutePoints(input.route), input.route)
         \/ input.ship.ship_draft = NoValue
         \/ input.ship.danger_height = NoValue /\ \E i \in DOMAIN info : info[i].forecast # NoForecast
        THEN NoDiagnostic
        ELSE [result |-> IF points = <<>> THEN "kOk" ELSE "kWarning", hazard_points |-> points]

-----------------------------------------------------------------------------
\* What a check has to see, said without samples.

\* In calm water and in the waves of every forecast there is.
PossibleSpeeds(input, db) ==
  {input.ship.speed} \cup {GetSpeed(input.ship, db.forecasts[i].wave) : i \in DOMAIN db.forecasts}

\* The shallows beside a leg longer than kStep that are inside its triangle whatever the
\* waves make of the ship's speed.
ShallowsBeside(input, db, draft) ==
  LET w == input.route
  IN  {d \in ToSet(db.depths) :
         /\ d.depth <= draft
         /\ \E leg \in GetSegments(w), hand \in {1, -1} :
              LET length == LegLength(w, leg)
              IN  /\ length > kStep
                  /\ \A speed \in PossibleSpeeds(input, db) :
                       InTriangle(d, w[leg], length, speed, hand)}

\* None of them is without a report less than kStep away.
ReportsAll(shallows, diagnostic) ==
  \A d \in shallows : \E i \in DOMAIN diagnostic.hazard_points :
    /\ diagnostic.hazard_points[i].kind = "depth"
    /\ Distance(diagnostic.hazard_points[i].pos, d.pos) < kStep

=============================================================================
