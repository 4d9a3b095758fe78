--------------------------- MODULE MCCheckDuringLoad ---------------------------
(***************************************************************************)
(* The instance of CheckDuringLoad that TLC checks: the sizes are in the   *)
(* .cfg file.                                                              *)
(***************************************************************************)
EXTENDS CheckDuringLoad

=============================================================================
