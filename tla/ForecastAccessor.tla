--------------------------- MODULE ForecastAccessor ---------------------------
(***************************************************************************)
(* cases/helpers/forecast_accessor.cpp: the forecast used for a point of a *)
(* route at the time the ship is expected there.  Both the route scanner   *)
(* and the best route maker ask it.                                        *)
(*                                                                         *)
(* A forecast record is [end_at, wave]; the records found for one point    *)
(* are a sequence in the order the SELECT returned them.                   *)
(***************************************************************************)
EXTENDS Integers, Sequences

CONSTANT kTooLate    \* 6 hours in the code

ASSUME TooLateAssumption == kTooLate \in Nat

NoForecast == [end_at |-> -1, wave |-> 0]

Distance(a, b) == IF a < b THEN b - a ELSE a - b

\* std::min_element: the first of the forecasts that end closest to a time.
IsNearest(forecasts, i, time) ==
  \A j \in DOMAIN forecasts :
    LET di == Distance(forecasts[i].end_at, time)
        dj == Distance(forecasts[j].end_at, time)
    IN  di < dj \/ (di = dj /\ i <= j)

\* There is none when the nearest one ends too far in the FUTURE; one that ended
\* long ago is accepted.
GetClosestForecast(forecasts, time) ==
  IF \E i \in DOMAIN forecasts :
       IsNearest(forecasts, i, time) /\ forecasts[i].end_at - time <= kTooLate
    THEN forecasts[CHOOSE i \in DOMAIN forecasts : IsNearest(forecasts, i, time)]
    ELSE NoForecast

=============================================================================
