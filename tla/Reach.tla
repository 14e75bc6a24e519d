-------------------------------- MODULE Reach ---------------------------------
(***************************************************************************)
(* What the breadth-first walks over the rows of the task table visit      *)
(* (cancel_dependents and reset_task of src/po/db/queries.py).             *)
(***************************************************************************)
CONSTANT Deps  \* Deps[t]: ids t depends on

\* Mutant of Dependents: only the tasks that depend on t itself.
DirectDependents(t, E) == {x \in E : t \in Deps[x]}

\* The tasks of E reached from t through the dependency relation: the least
\* subset of E that holds every task of E with a dependency in it or on t.
Closed(C, t, E) == \A x \in E : Deps[x] \cap (C \cup {t}) # {} => x \in C
Dependents(t, E) == {x \in E : \A C \in SUBSET E : Closed(C, t, E) => x \in C}

===============================================================================
