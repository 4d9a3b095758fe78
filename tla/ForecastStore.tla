---------------------------- MODULE ForecastStore ----------------------------
(***************************************************************************)
(* What loading forecasts promises to whoever reads the database: the file *)
(* gains all the records of a forecast in one step, under an id never used *)
(* before, and never loses or changes one.                                 *)
(***************************************************************************)
EXTENDS Integers

CONSTANTS Id,     \* the ids a forecast may have
          Size    \* the numbers of records it may have

VARIABLE stored   \* the <<forecast, record>> pairs in the file

Init == stored = {}

Published(f) == \E p \in stored : p[1] = f

Publish(f, n) == /\ ~Published(f)
                 /\ stored' = stored \cup ({f} \X (1 .. n))

Next == \E f \in Id, n \in Size : Publish(f, n)

Spec == Init /\ [][Next]_stored

=============================================================================
