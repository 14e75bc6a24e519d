----------------------------- MODULE TaskLifecycle -----------------------------
(***************************************************************************)
(* What the status column of the task table promises (src/po/db/queries.py *)
(* and the diagram of src/ARCHITECTURE.md), with nothing said of agents,   *)
(* worktrees or the loop: the steps that the status of one or more tasks   *)
(* may take, given the dependencies of each.                               *)
(*                                                                         *)
(* Orchestrator implements it; Planning uses its steps for what a run does *)
(* to the table between two plans.                                         *)
(***************************************************************************)
CONSTANT Task

VARIABLES
  status,  \* the status of each task, "absent" when it has no row
  deps     \* the tasks each one depends on

Open == {"pending", "running"}
Spoilt == {"failed", "cancelled"}
In(S) == {t \in Task : status[t] \in S}

Waiting(t) == ~(deps[t] \subseteq In({"completed"}))

Become(S, new) ==
  /\ status' = [t \in Task |-> IF t \in S THEN new ELSE status[t]]
  /\ UNCHANGED deps

\* set_running, of a task whose dependencies have all completed.
Start(t) == status[t] = "pending" /\ ~Waiting(t) /\ Become({t}, "running")

\* A retry, or the parking of a task by a shutdown.
Park(t) == status[t] = "running" /\ Become({t}, "pending")

Complete(t) == status[t] = "running" /\ Become({t}, "completed")

\* A task may fail before it was running: its worktree cannot be made.
Fail(t) == status[t] \in Open /\ ~Waiting(t) /\ Become({t}, "failed")

\* cancel_dependents: every task of S has something in S, or a task that
\* failed, among its dependencies.
CausedIn(S) == \A t \in S : deps[t] \cap (S \cup In(Spoilt)) # {}
Cancel(S) == S \subseteq In(Open) /\ CausedIn(S) /\ Become(S, "cancelled")

\* add_runtime_task
Add(t) == status[t] = "absent" /\ Become({t}, "pending")

Decompose(t) == status[t] = "running" /\ Become({t}, "decomposed")

\* reset_task: no task stays cancelled without a cause.
Reset(S) ==
  /\ S \subseteq In(Spoilt \cup {"running"})
  /\ \A t \in In({"cancelled"}) \ S : deps[t] \cap (In(Spoilt) \ S) # {}
  /\ Become(S, "pending")

TaskStep(t) ==
  Start(t) \/ Park(t) \/ Complete(t) \/ Fail(t) \/ Add(t) \/ Decompose(t)

Init ==
  /\ status \in [Task -> {"absent", "pending"}]
  /\ deps \in [Task -> SUBSET Task]

Next ==
  \/ \E t \in Task : TaskStep(t)
  \/ \E S \in SUBSET Task : Cancel(S) \/ Reset(S)

Spec == Init /\ [][Next]_<<status, deps>>

=============================================================================
