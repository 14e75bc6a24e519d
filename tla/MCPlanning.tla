------------------------------ MODULE MCPlanning ------------------------------
(***************************************************************************)
(* The specs a user goes through in the runs of Planning.                  *)
(***************************************************************************)
EXTENDS Planning, TLC

CONSTANTS a, b, c, p, q

ASpec(n, e, d) == [name |-> n, tasks |-> DOMAIN e, def |-> e, deps |-> d]

\* b follows a; the same with another b, with c before b, and with c behind b; c
\* alone; the other way round; a cycle; and another project.
Chain == ASpec(p, a :> 1 @@ b :> 1, a :> {} @@ b :> {a})
Redefined == ASpec(p, a :> 1 @@ b :> 2, a :> {} @@ b :> {a})
Inserted == ASpec(p, a :> 1 @@ b :> 1 @@ c :> 1, a :> {} @@ b :> {a, c} @@ c :> {})
Appended == ASpec(p, b :> 1 @@ c :> 1, b :> {} @@ c :> {b})
Alone == ASpec(p, c :> 1, c :> {})
Turned == ASpec(p, a :> 1 @@ b :> 1, a :> {b} @@ b :> {})
Cycle == ASpec(p, a :> 1 @@ b :> 1, a :> {b} @@ b :> {a})
Unknown == ASpec(p, a :> 1, a :> {c})
Other == ASpec(q, a :> 1, a :> {})

Ids == {a, b, c}
UserSpecs == {Chain, Redefined, Inserted, Appended, Alone, Turned, Cycle, Unknown,
              Other}

===============================================================================
