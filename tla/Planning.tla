------------------------------- MODULE Planning -------------------------------
(***************************************************************************)
(* One plan after another in the same project root: `po plan`, with and    *)
(* without --fresh (src/po/cli.py, cmd_plan), the validation and layering  *)
(* of a spec (src/po/spec, src/po/graph), and the rows it leaves in the    *)
(* task table (src/po/db/queries.py).                                      *)
(*                                                                         *)
(* What a run and a reset do to the table is taken from TaskLifecycle,     *)
(* which Orchestrator implements.  Subtasks are left out: their ids hold a *)
(* slash, so no spec can name them.                                        *)
(***************************************************************************)
EXTENDS Naturals, FiniteSets

CONSTANTS
  Id,        \* task ids
  Def,       \* what a task is: description, files, verification
  Specs,     \* the specs a user may write: [name, tasks, def, deps]
  NoSpec,
  MaxFresh   \* bound: how often --fresh is given

NoDef == NoSpec

ASSUME SpecAssumption ==
  /\ IsFiniteSet(Id) /\ MaxFresh \in Nat
  /\ NoSpec \notin Def /\ NoSpec \notin Specs
  /\ \A s \in Specs : /\ s.tasks \in SUBSET Id
                      /\ s.def \in [s.tasks -> Def]
                      /\ s.deps \in [s.tasks -> SUBSET Id]
                      /\ s.name # NoSpec

VARIABLES
  status, deps, def,  \* the rows of the task table
  project,            \* project.project_name, NoSpec without a row
  pc,                 \* "idle", "saving" (a plan), "running" (a run)
  spec,               \* the spec being saved
  todo,               \* its tasks still to be saved
  live,               \* tasks that the run has in hand
  fresh,              \* how many plans were discarded
  torn,               \* history: rows that a plan has saved that is not, or never was, saved whole
  owner,              \* history: the project a row was saved for
  did                 \* history: what the last attempt of a task was told

rows == <<status, deps, def, project, owner>>
plan == <<spec, todo, fresh, torn>>
vars == <<rows, pc, plan, live, did>>

Life == INSTANCE TaskLifecycle WITH Task <- Id

Status == {"absent", "pending", "running", "completed", "failed", "cancelled",
           "decomposed"}
Terminal == {"completed", "failed", "cancelled", "decomposed"}
Present == {t \in Id : status[t] # "absent"}
Name == {s.name : s \in Specs}

TypeOK ==
  /\ status \in [Id -> Status]
  /\ deps \in [Id -> SUBSET Id]
  /\ def \in [Id -> Def \cup {NoDef}]
  /\ pc \in {"idle", "saving", "running"}
  /\ project \in Name \cup {NoSpec} /\ owner \in [Id -> Name \cup {NoSpec}]
  /\ did \in [Id -> [def : Def \cup {NoDef}, deps : SUBSET Id] \cup {NoDef}]
  /\ spec \in Specs \cup {NoSpec}
  /\ pc = "saving" => spec \in Specs /\ todo \subseteq spec.tasks
  /\ {todo, live, torn} \subseteq SUBSET Id
  /\ fresh \in 0..MaxFresh

Init ==
  /\ status = [t \in Id |-> "absent"]
  /\ deps = [t \in Id |-> {}]
  /\ def = [t \in Id |-> NoDef]
  /\ project = NoSpec
  /\ pc = "idle"
  /\ spec = NoSpec /\ todo = {} /\ torn = {}
  /\ live = {}
  /\ fresh = 0
  /\ owner = [t \in Id |-> NoSpec]
  /\ did = [t \in Id |-> NoDef]

-----------------------------------------------------------------------------
(* A spec is validated and layered before anything is written *)

\* ProjectSpec.validate: there are tasks, every dependency is one of them, and
\* none is its own.
Valid(s) ==
  /\ s.tasks # {}
  /\ \A t \in s.tasks : s.deps[t] \subseteq s.tasks /\ t \notin s.deps[t]

\* Mutant of Placed: a dependency that is no task is waited for.
PlacedKnown(T, d) ==
  LET P[n \in 0..Cardinality(T)] ==
        IF n = 0 THEN {} ELSE {t \in T : d[t] \subseteq P[n - 1]}
  IN P[Cardinality(T)]

\* The tasks that the first n layers hold, of those in T; a dependency outside T
\* is ignored, as the live display does.
Placed(T, d) ==
  LET P[n \in 0..Cardinality(T)] ==
        IF n = 0 THEN {} ELSE {t \in T : d[t] \cap T \subseteq P[n - 1]}
  IN P[Cardinality(T)]

\* Mutant of Layered: no layer is computed.
LayeredAlways(s) == s.tasks # {}

\* get_execution_plan: CycleError unless every task finds a layer.
Layered(s) == Placed(s.tasks, s.deps) = s.tasks

Row(t) == [def |-> def[t], deps |-> deps[t]]
Planned(s, t) == [def |-> s.def[t], deps |-> s.deps[t]]

\* Mutants of Conflicts: dependencies are not compared; nor is the project; or
\* a cancelled task is taken for one that may be redefined.
ConflictsOfDef(s) ==
  /\ Present # {}
  /\ \/ project # s.name
     \/ \E t \in s.tasks : status[t] \in Terminal /\ def[t] # s.def[t]

ConflictsInPlan(s) ==
  /\ Present # {}
  /\ \E t \in s.tasks : status[t] \in Terminal /\ Row(t) # Planned(s, t)

ConflictsOfDone(s) ==
  /\ Present # {}
  /\ \/ project # s.name
     \/ \E t \in s.tasks : /\ status[t] \in Terminal \ {"cancelled"}
                           /\ Row(t) # Planned(s, t)

\* _plan_conflicts: the table holds another project, or a finished task would be
\* redefined.
Conflicts(s) ==
  /\ project # NoSpec /\ Present # {}
  /\ \/ project # s.name
     \/ \E t \in s.tasks : status[t] \in Terminal /\ Row(t) # Planned(s, t)

\* po plan: a refusal leaves everything as it is.
Plan(s) ==
  /\ pc = "idle"
  /\ Valid(s) /\ Layered(s) /\ ~Conflicts(s)
  /\ pc' = "saving" /\ spec' = s /\ todo' = s.tasks
  /\ UNCHANGED <<rows, live, fresh, torn, did>>

\* po plan --fresh: clear() commits first.  Branches and worktrees stay (see Attempts).
PlanFresh(s) ==
  /\ pc = "idle"
  /\ fresh < MaxFresh
  /\ Valid(s) /\ Layered(s)
  /\ status' = [t \in Id |-> "absent"]
  /\ deps' = [t \in Id |-> {}]
  /\ def' = [t \in Id |-> NoDef]
  /\ owner' = [t \in Id |-> NoSpec]
  /\ project' = NoSpec
  /\ fresh' = fresh + 1
  /\ pc' = "saving" /\ spec' = s /\ todo' = s.tasks /\ torn' = {}
  /\ UNCHANGED <<live, did>>

\* Mutant of SaveTask: a status that the table does not know.
SaveTaskAs(t) ==
  /\ pc = "saving"
  /\ t \in todo
  /\ status' = [status EXCEPT ![t] = "planned"]
  /\ todo' = todo \ {t}
  /\ UNCHANGED <<deps, def, owner, project, pc, spec, fresh, torn, live, did>>

\* upsert_task: one commit per task, the first with the project's row.  The
\* definition is overwritten, the status of a row that is there is kept.
SaveTask(t) ==
  /\ pc = "saving"
  /\ t \in todo
  /\ status' = [status EXCEPT ![t] = IF @ = "absent" THEN "pending" ELSE @]
  /\ deps' = [deps EXCEPT ![t] = spec.deps[t]]
  /\ def' = [def EXCEPT ![t] = spec.def[t]]
  /\ owner' = [owner EXCEPT ![t] = spec.name]
  /\ project' = spec.name
  /\ todo' = todo \ {t}
  /\ torn' = IF todo' = {} THEN torn \ spec.tasks ELSE torn \cup {t}
  /\ UNCHANGED <<pc, spec, fresh, live, did>>

PlanSaved ==
  /\ pc = "saving"
  /\ todo = {}
  /\ pc' = "idle" /\ spec' = NoSpec
  /\ UNCHANGED <<rows, todo, fresh, torn, live, did>>

-----------------------------------------------------------------------------
(* A run over the plan, with the steps that TaskLifecycle allows *)

StartRun ==
  /\ pc = "idle"
  /\ project # NoSpec
  /\ Life!In(Life!Open) # {}
  /\ pc' = "running"
  /\ UNCHANGED <<rows, plan, live, did>>

InRun ==
  /\ pc = "running"
  /\ UNCHANGED <<def, project, owner, pc, plan>>

\* The prompt is built from the row as it is now.
Start(t) ==
  /\ InRun
  /\ Life!Start(t)
  /\ live' = live \cup {t}
  /\ did' = [did EXCEPT ![t] = Row(t)]

Retry(t) ==
  /\ InRun
  /\ t \in live
  /\ Life!Park(t)
  /\ live' = live \ {t}
  /\ UNCHANGED did

Fail(t) ==
  /\ InRun
  /\ t \in live \/ status[t] = "pending"
  /\ Life!Fail(t)
  /\ live' = live \ {t}
  /\ UNCHANGED did

Succeed(t) ==
  /\ InRun
  /\ t \in live
  /\ Life!Complete(t) \/ Life!Decompose(t)
  /\ live' = live \ {t}
  /\ UNCHANGED did

CancelDependents ==
  /\ InRun
  /\ \E S \in SUBSET Id : S # {} /\ Life!Cancel(S)
  /\ UNCHANGED <<live, did>>

RunStops ==
  /\ pc = "running"
  /\ live = {}
  /\ pc' = "idle"
  /\ UNCHANGED <<rows, plan, live, did>>

\* The process of a plan or a run is killed, or a run stopped with agents at work.
Crash ==
  /\ pc # "idle"
  /\ pc' = "idle" /\ live' = {} /\ spec' = NoSpec /\ todo' = {}
  /\ UNCHANGED <<rows, fresh, torn, did>>

\* po reset, with or without --task.
Reset ==
  /\ pc = "idle"
  /\ \E S \in SUBSET Id : S # {} /\ Life!Reset(S)
  /\ UNCHANGED <<def, project, owner, pc, plan, live, did>>

Next ==
  \/ \E s \in Specs : Plan(s) \/ PlanFresh(s)
  \/ \E t \in Id : SaveTask(t) \/ Start(t) \/ Retry(t) \/ Fail(t) \/ Succeed(t)
  \/ PlanSaved \/ StartRun \/ CancelDependents \/ RunStops \/ Crash \/ Reset

Spec == Init /\ [][Next]_vars

-----------------------------------------------------------------------------
(* What a re-plan may not break *)

\* cli.py:442 "Explain why saving `spec` over the existing plan would be silently
\* wrong": a task that counts as completed was done as its row says now, through
\* any number of re-plans, half-saved ones included.
CompletedAsPlanned ==
  \A t \in Life!In({"completed"}) : did[t] = Row(t)

\* The rows of two projects are never mixed, not even when a save that discarded
\* one was cut short; whatever rows there are belong to the project of the table.
OneProject == \A t \in Present : owner[t] = project

\* A re-plan changes dependencies under tasks that are done with: still, what has
\* an outcome started after its dependencies, and what is cancelled has a cause.
OutcomesFitDeps ==
  /\ \A t \in Life!In({"completed", "failed", "decomposed"}) : ~Life!Waiting(t)
  /\ \A t \in Life!In({"cancelled"}) : deps[t] \cap Life!In(Life!Spoilt) # {}

\* The rows that plans have saved whole, earlier plans and half-saved ones around them
\* included, make a graph in which every dependency is a task, and no tasks wait for
\* one another.  (The rows of a plan cut short may do both, until they are planned anew.)
GraphIsSound ==
  LET whole == Present \ torn
  IN /\ \A t \in whole : deps[t] \subseteq Present
     /\ \A S \in SUBSET whole : S # {} => \E t \in S : deps[t] \cap S = {}

\* The live display finds a layer for every row that is not in a cycle or behind
\* one, and no other: its group "Unresolved" is there to tell of cycles only.
UnresolvedAreCyclic ==
  LET unresolved == Present \ Placed(Present, deps)
  IN \A t \in Present :
       t \in unresolved <=> \E S \in SUBSET Present :
                              t \in S /\ \A u \in S : deps[u] \cap S # {}

=============================================================================
