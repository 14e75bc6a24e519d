-------------------------------- MODULE MCWalk --------------------------------
(* The rows of the run of Walk. *)
EXTENDS Walk, TLC

CONSTANTS a, b, c, d

Rows == {a, b, c, d}

\* b and c wait for each other and for a; d joins them and closes a larger cycle
\* when a waits for it.
CyclicDeps == a :> {d} @@ b :> {a, c} @@ c :> {a, b} @@ d :> {b, c}

===============================================================================
