------------------------- MODULE MCForecastsLoader -------------------------
(* The instance of ForecastsLoader that TLC checks: the sizes are in the    *)
(* .cfg files.                                                              *)
EXTENDS ForecastsLoader
=============================================================================
