---------------------------- MODULE MCOrchestrator ----------------------------
(***************************************************************************)
(* Small plans for the runs of Orchestrator.  A plan gives the tasks, their *)
(* dependencies, output files and subtasks.                                *)
(***************************************************************************)
EXTENDS Orchestrator, TLC

CONSTANTS a, b, c, d

\* a and b may run together, c joins them, d follows c.
JoinTask == {a, b, c, d}
JoinDeps == a :> {} @@ b :> {} @@ c :> {a, b} @@ d :> {c}
JoinFiles == [t \in JoinTask |-> {t}]
JoinSubtasks == [t \in JoinTask |-> {}]

\* The plan Join without d.
VeeTask == {a, b, c}
VeeDeps == a :> {} @@ b :> {} @@ c :> {a, b}
VeeFiles == [t \in VeeTask |-> {t}]
VeeSubtasks == [t \in VeeTask |-> {}]

\* c joins a and b; b may split into d, which writes what a writes.
ForkTask == {a, b, c, d}
ForkDeps == a :> {} @@ b :> {} @@ c :> {a, b} @@ d :> {}
ForkFiles == a :> {1} @@ b :> {2} @@ c :> {3} @@ d :> {1, 4}
ForkSubtasks == a :> {} @@ b :> {d} @@ c :> {} @@ d :> {}

===============================================================================
