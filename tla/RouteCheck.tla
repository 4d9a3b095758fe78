------------------------------ MODULE RouteCheck ------------------------------
(***************************************************************************)
(* MarineRouteScanner::CrossDetect: one check of any route of the set      *)
(* Inputs against any rows of the set Tables.                           *)
(***************************************************************************)
EXTENDS MarineRouteScanner

CONSTANTS
  Inputs, Tables,
  Speeds,        \* of a ship, also in waves
  WaveHeights,   \* that can be stored
  Lengths        \* of a leg, 0 for a waypoint set twice

\* The form lets any number through; what is said of a check is said of a ship that
\* moves.  A factor of e^-x then leaves it a speed.
ASSUME SpeedsAssumption ==
  /\ Speeds \subseteq Nat \ {0} /\ WaveHeights \subseteq Nat
  /\ \A speed \in Speeds, wave \in WaveHeights : Slowed(speed, wave) \in Speeds

\* The angle is proportional to the speed; it takes 90 times the nominal one to pass
\* a quarter turn.
ASSUME CornerAssumption ==
  \A length \in Lengths \cap Nat, speed \in Speeds :
    Corner(length, speed) \in [along : 0 .. length, side : Nat]

\* The panel refuses a route without a leg and a form without a speed.
ASSUME InputsAssumption ==
  \A in \in Inputs :
    /\ in.route \in Seq(Int) /\ Len(in.route) > 1 /\ in.depart \in Nat
    /\ \A i \in GetSegments(in.route) : LegLength(in.route, i) \in Lengths \cap Nat
    /\ in.ship.speed \in Speeds
    /\ in.ship.ship_draft \in Nat \cup {NoValue} /\ in.ship.danger_height \in Nat \cup {NoValue}

ASSUME TablesAssumption ==
  \A rows \in Tables :
    /\ rows.depths \in Seq([pos : Int, side : Int, depth : Int])
    /\ rows.forecasts \in Seq([pos : Int, end_at : Nat, wave : WaveHeights])

VARIABLES input, tables, diagnostic
scanVars == <<input, tables, diagnostic>>

-----------------------------------------------------------------------------
NotChecked == [result |-> "unchecked", hazard_points |-> <<>>]

ScanInit == input \in Inputs /\ tables \in Tables /\ diagnostic = NotChecked

CrossDetect == diagnostic' = DoCrossDetect(input, tables) /\ UNCHANGED <<input, tables>>

ScanSpec == ScanInit /\ [][CrossDetect]_scanVars

-----------------------------------------------------------------------------
Info == GetRouteInfo(input, tables)
Samples == GetRoutePoints(input.route)
Usable == ~IsSqlError(Samples, input.route) /\ input.ship.ship_draft # NoValue

-----------------------------------------------------------------------------
\* "OK", or a list of warnings, leaves no shallow out that it has to see.  (One that is in
\* the triangle at one speed and not at another may be missed or not.)
ShallowsAreReported ==
  diagnostic \notin {NotChecked, NoDiagnostic} =>
    ReportsAll(ShallowsBeside(input, tables, input.ship.ship_draft), diagnostic)

\* A course that starts with a real leg, and a form with draft and danger height,
\* never make the check fail, whatever legs of no length follow.
CompleteFormIsChecked ==
  /\ input.route[1] < input.route[2]
  /\ NoValue \notin {input.ship.ship_draft, input.ship.danger_height}
  => diagnostic # NoDiagnostic

\* Every hazard that was found has a reported one of its kind less than kStep away:
\* the filter thins out, it does not drop the end of a long shoal.
FoundIsReported ==
  diagnostic \notin {NotChecked, NoDiagnostic} =>
    \A h \in ToSet(GetForecastDiagnostic(input, Info)) \cup ToSet(GetDepthDiagnostic(input, Info, tables)) :
      \E r \in ToSet(diagnostic.hazard_points) : r.kind = h.kind /\ Distance(r.pos, h.pos) < kStep

\* What is STORED near a sample and ended neither too long before the departure nor too far
\* ahead of a time.
InReach(i, time) ==
  {f \in ToSet(tables.forecasts) :
     /\ Distance(f.pos, Samples[i].pos) <= kDangerousDistance
     /\ input.depart - kLookBack <= f.end_at /\ f.end_at <= time + kTooLate}

WindowEnd == input.depart - kLookBack + kWindow

\* As long as the SELECT's window reaches as far ahead as a forecast may be used, the one
\* used at a sample is, of all that are stored near it, at most twice the time sailed since
\* the sample before worse than the closest to the time there; and if none is used, none
\* is stored within kTooLate.  On a longer voyage this holds only of the forecasts that end
\* inside the window: the later ones are never used, however near, and the last ones of the
\* window serve for the rest of the way.
ForecastsAreTimely ==
  Usable => \A i \in DOMAIN Samples :
    LET used == Info[i].forecast
        now == Info[i].expected_time
        asked == Info[i - 1].expected_time
        stored == IF asked + kTooLate <= WindowEnd THEN InReach(i, asked)
                  ELSE {f \in InReach(i, asked) : f.end_at <= WindowEnd}
    IN  IF used = NoForecast
          THEN \A f \in stored : f.end_at < asked - kTooLate
          ELSE /\ used.end_at <= asked + kTooLate /\ used.end_at <= WindowEnd
               /\ \A f \in stored :
                    Distance(used.end_at, now) <= Distance(f.end_at, now) + 2 * (now - asked)

\* With no forecast, a shallow is announced for the time the ship is beside it: early
\* by no more than a second per sample (truncation), late by no more than twice the
\* time of a step (it lies behind the first sample of its leg).
ShallowsAreTimed ==
  tables.forecasts = <<>> => \A h \in ToSet(diagnostic.hazard_points) :
    LET arrival == input.depart + (h.pos - input.route[1]) \div input.ship.speed
    IN  /\ arrival - Len(Samples) <= h.time
        /\ h.time <= arrival + 2 * (kStep \div input.ship.speed + 1)

=============================================================================
