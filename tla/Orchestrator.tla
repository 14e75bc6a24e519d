----------------------------- MODULE Orchestrator -----------------------------
(***************************************************************************)
(* The orchestration loop of `po run` (src/po/orchestrator/loop.py) over   *)
(* the task table it keeps in SQLite (src/po/db/queries.py), the branch    *)
(* and worktree each task owns (src/po/worktree/manager.py), and the       *)
(* commands a user gives between two runs (`po reset`, `po clean`).        *)
(*                                                                         *)
(* The loop is one asyncio coroutine.  Agents run as other coroutines and  *)
(* signals are delivered by the event loop, so both are only interleaved   *)
(* with the loop where it awaits: AtAwait names those places.  A kill of   *)
(* the process may come between any two durable effects.                   *)
(*                                                                         *)
(* Abstracted: prompts, costs and messages; priorities (the greedy launch  *)
(* order is any order); the merge's git steps, which are here an outcome.  *)
(***************************************************************************)
EXTENDS Naturals, FiniteSets, Reach

\* Deps[t], ids t depends on, is a constant of Reach.
CONSTANTS
  Task,            \* every task id, subtasks an agent may create included
  Subtasks,        \* Subtasks[t]: the ids t's agent may write to .po-subtasks.json
  Files,           \* Files[t]: t's output_files
  Verified,        \* the tasks that have a verification command
  MaxConcurrency,  \* --concurrency, or the plan's max_concurrency
  MaxRetries,      \* --max-retries
  NoTask,          \* no task is being processed
  MaxSessions,     \* bound: how many times `po run` is started
  Signals,         \* may the user interrupt a run?
  Crashes,         \* may the process be killed?
  ResetsOfOne      \* may the user call `po reset --task`?

\* The tasks of the plan: all but those that only an agent creates.
SpecTask == Task \ UNION {Subtasks[t] : t \in Task}

ASSUME TaskAssumption ==
  /\ IsFiniteSet(Task)
  /\ NoTask \notin Task
  /\ Subtasks \in [Task -> SUBSET Task]
  /\ Verified \subseteq Task

\* `po plan` refuses a dependency on an unknown task or on a cycle, and
\* _process_result gives a subtask its parent's dependencies.
ASSUME DepsAssumption ==
  /\ Deps \in [Task -> SUBSET SpecTask]
  /\ \A t \in Task : \A s \in Subtasks[t] : Deps[s] = Deps[t]
  /\ \A S \in SUBSET Task : S # {} => \E t \in S : Deps[t] \cap S = {}

ASSUME BoundAssumption ==
  /\ MaxConcurrency \in Nat \ {0}
  /\ MaxRetries \in Nat
  /\ MaxSessions \in Nat
  /\ {Signals, Crashes, ResetsOfOne} \subseteq BOOLEAN

VARIABLES
  status,        \* tasks.status, "absent" when the table has no such row
  attempt,       \* tasks.attempt
  tree,          \* "none", "branch" (po/<t> exists), "attached" (and a worktree)
  landed,        \* the tasks whose branch a merge put on the base branch ...
  reverted,      \* ... and those of which a failed verification took work off again
  faults,        \* history: results that were t's own fault since its last reset
  pc,            \* where the loop is; "idle" when no `po run` is alive
  exit,          \* how the last run ended
  agent,         \* state of _running_tasks[t]; "none" when t is not a key
  queue,         \* completed_ids still to be popped by _collect_completed
  current,       \* the task whose result is being processed
  todo,          \* subtasks of current still to be inserted
  shuttingDown,  \* _shutting_down
  sessions       \* runs started so far

base == <<landed, reverted>>
table == <<status, attempt, tree, base, faults>>
loop == <<agent, queue, current, todo, shuttingDown>>
vars == <<table, pc, exit, loop, sessions>>

Status == {"absent", "pending", "running", "completed", "failed", "cancelled",
           "decomposed"}
Terminal == {"completed", "failed", "cancelled", "decomposed"}
Tree == {"none", "branch", "attached"}
Done == {"success", "failure", "split", "cancelled"}
Agent == {"none", "created", "prepared", "working", "cancelling"} \cup Done
Await == {"wait", "preverify", "merge", "reverted", "merged", "drain"}
Processing == {"preverify", "merge", "reverted", "merged", "finish", "detached",
               "cascade", "decompose", "discard"}
Step == Await \cup Processing \cup {"idle", "reset", "top", "collect", "check"}
Exit == {"none", "done", "stopped", "deadlock", "raised", "crashed"}

TypeOK ==
  /\ status \in [Task -> Status]
  /\ attempt \in [Task -> Nat]
  /\ tree \in [Task -> Tree]
  /\ landed \in SUBSET Task
  /\ reverted \in SUBSET Task
  /\ faults \in [Task -> Nat]
  /\ pc \in Step
  /\ exit \in Exit
  /\ agent \in [Task -> Agent]
  /\ queue \in SUBSET Task
  /\ current \in IF pc \in Processing THEN Task ELSE {NoTask}
  /\ todo \in SUBSET Task
  /\ shuttingDown \in BOOLEAN
  /\ sessions \in Nat

-----------------------------------------------------------------------------
(* The task table *)

WithStatus(S) == {t \in Task : status[t] \in S}
Nonterminal == WithStatus({"pending", "running"})

\* The keys of _running_tasks, and whether the event loop may run something
\* else than the orchestration coroutine and a coroutine between two awaits.
Running == {t \in Task : agent[t] # "none"}
AtAwait == pc \in Await /\ \A t \in Task : agent[t] # "prepared"

\* Mutant of Ready: a dependency that ended in any way will do.
ReadyOnceSettled == {t \in WithStatus({"pending"}) : Deps[t] \cap Nonterminal = {}}

\* get_ready_task_ids: pending, and every dependency is completed.
Ready == {t \in WithStatus({"pending"}) : Deps[t] \subseteq WithStatus({"completed"})}

\* Mutant of RetryAllowed: one retry too many.
RetryOnceMore(n) == n <= MaxRetries + 1

\* A task may be retried: its attempt counter (read after the increment) is
\* within the budget.
RetryAllowed(n) == n <= MaxRetries

Init ==
  /\ status = [t \in Task |-> IF t \in SpecTask THEN "pending" ELSE "absent"]
  /\ attempt = [t \in Task |-> 0]
  /\ tree = [t \in Task |-> "none"]
  /\ landed = {}
  /\ reverted = {}
  /\ faults = [t \in Task |-> 0]
  /\ pc = "idle"
  /\ exit = "none"
  /\ agent = [t \in Task |-> "none"]
  /\ queue = {}
  /\ current = NoTask
  /\ todo = {}
  /\ shuttingDown = FALSE
  /\ sessions = 0

\* The process ends in the given way: all it kept in memory is gone.
Leave(how) ==
  /\ pc' = "idle"
  /\ exit' = how
  /\ agent' = [t \in Task |-> "none"]
  /\ queue' = {}
  /\ current' = NoTask
  /\ todo' = {}
  /\ shuttingDown' = FALSE

-----------------------------------------------------------------------------
(* Commands given while no run is alive *)

\* po run: refused when every task is terminal.
StartRun ==
  /\ pc = "idle"
  /\ sessions < MaxSessions
  /\ Nonterminal # {}
  /\ pc' = "top"
  /\ exit' = "none"
  /\ sessions' = sessions + 1
  /\ UNCHANGED <<table, loop>>

ResetTo(S) ==
  /\ status' = [t \in Task |-> IF t \in S THEN "pending" ELSE status[t]]
  /\ faults' = [t \in Task |-> IF t \in S THEN 0 ELSE faults[t]]
  /\ UNCHANGED <<attempt, tree, base, exit, sessions>>

\* reset_task: t itself, and the cancelled tasks reached from it.
ResetBy(t) == (WithStatus({"failed", "cancelled", "running"}) \cap {t})
              \cup Dependents(t, WithStatus({"cancelled"}) \ {t})

\* po reset: every task that it finds failed or cancelled ...
ResetAll ==
  /\ pc = "idle"
  /\ WithStatus({"failed", "cancelled"}) # {}
  /\ todo' = WithStatus({"failed", "cancelled"})
  /\ pc' = "reset"
  /\ UNCHANGED <<table, exit, agent, queue, current, shuttingDown, sessions>>

\* ... by a transaction for each.
ResetNext(t) ==
  /\ pc = "reset"
  /\ t \in todo
  /\ ResetTo(ResetBy(t))
  /\ todo' = todo \ {t}
  /\ pc' = IF todo' = {} THEN "idle" ELSE "reset"
  /\ UNCHANGED <<agent, queue, current, shuttingDown>>

\* Mutants of ResetTask: without its cascade; without its test of t's status.
ResetTaskAlone(t) ==
  /\ ResetsOfOne
  /\ pc = "idle"
  /\ ResetTo(WithStatus({"failed", "cancelled", "running"}) \cap {t})
  /\ UNCHANGED <<pc, loop>>

ResetTaskAlways(t) ==
  /\ ResetsOfOne
  /\ pc = "idle"
  /\ ResetTo({t} \cup Dependents(t, WithStatus({"cancelled"}) \ {t}))
  /\ UNCHANGED <<pc, loop>>

\* po reset --task t
ResetTask(t) ==
  /\ ResetsOfOne
  /\ pc = "idle"
  /\ ResetTo(ResetBy(t))
  /\ UNCHANGED <<pc, loop>>

\* po clean: the worktrees and branches of terminal tasks.
Clean ==
  LET reaped == {t \in WithStatus(Terminal) : tree[t] # "none"}
  IN /\ pc = "idle"
     /\ reaped # {}
     /\ tree' = [t \in Task |-> IF t \in reaped THEN "none" ELSE tree[t]]
     /\ UNCHANGED <<status, attempt, base, faults, pc, exit, loop, sessions>>

-----------------------------------------------------------------------------
(* The coroutine _run_task of a launched task *)

\* The first step: the worktree is created or reused ...
WorktreeMade(t) ==
  /\ AtAwait
  /\ agent[t] = "created"
  /\ tree' = [tree EXCEPT ![t] = "attached"]
  /\ agent' = [agent EXCEPT ![t] = "prepared"]
  /\ UNCHANGED <<status, attempt, base, faults, pc, exit, queue, current, todo,
                 shuttingDown, sessions>>

\* Mutant of AgentStarts: set_running is forgotten.
AgentStartsUnmarked(t) ==
  /\ agent[t] = "prepared"
  /\ agent' = [agent EXCEPT ![t] = "working"]
  /\ UNCHANGED <<table, pc, exit, queue, current, todo, shuttingDown, sessions>>

\* ... then set_running, with no await in between.
AgentStarts(t) ==
  /\ agent[t] = "prepared"
  /\ status' = [status EXCEPT ![t] = "running"]
  /\ attempt' = [attempt EXCEPT ![t] = @ + 1]
  /\ agent' = [agent EXCEPT ![t] = "working"]
  /\ UNCHANGED <<tree, base, faults, pc, exit, queue, current, todo, shuttingDown,
                 sessions>>

\* The worktree cannot be created: the task raises while it is still pending.
AgentStartFails(t) ==
  /\ AtAwait
  /\ agent[t] = "created"
  /\ agent' = [agent EXCEPT ![t] = "failure"]
  /\ UNCHANGED <<table, pc, exit, queue, current, todo, shuttingDown, sessions>>

\* claude exits: cleanly, or not, or not and leaving .po-subtasks.json.
AgentEnds(t) ==
  /\ AtAwait
  /\ agent[t] = "working"
  /\ \E r \in {"success", "failure"} \cup {s \in {"split"} : Subtasks[t] # {}} :
       agent' = [agent EXCEPT ![t] = r]
  /\ UNCHANGED <<table, pc, exit, queue, current, todo, shuttingDown, sessions>>

\* A cancelled agent has been killed and CancelledError is re-raised.
AgentStops(t) ==
  /\ AtAwait
  /\ agent[t] = "cancelling"
  /\ agent' = [agent EXCEPT ![t] = "cancelled"]
  /\ UNCHANGED <<table, pc, exit, queue, current, todo, shuttingDown, sessions>>

\* _request_shutdown, first signal: every unfinished task is cancelled.  One
\* that has not taken its first step never will.
RequestShutdown ==
  /\ Signals
  /\ AtAwait
  /\ ~shuttingDown
  /\ shuttingDown' = TRUE
  /\ agent' = [t \in Task |-> CASE agent[t] = "created" -> "cancelled"
                                [] agent[t] = "working" -> "cancelling"
                                [] OTHER -> agent[t]]
  /\ UNCHANGED <<table, pc, exit, queue, current, todo, sessions>>

\* The process, be it of `po run` or of `po reset`, is killed, or exits at the
\* second signal.
Crash ==
  /\ Crashes
  /\ pc # "idle"
  /\ Leave("crashed")
  /\ UNCHANGED <<table, sessions>>

-----------------------------------------------------------------------------
(* The loop *)

Goto(step) == pc' = step /\ UNCHANGED <<exit, sessions>>

\* Mutant of Top: the flag _shutting_down is not looked at.
TopNoDrain ==
  /\ pc = "top"
  /\ Goto("collect")
  /\ queue' = {t \in Running : agent[t] \in Done}
  /\ UNCHANGED <<table, agent, current, todo, shuttingDown>>

\* The head of `while True`: leave through the drain once shutting down, else
\* take the snapshot completed_ids.
Top ==
  /\ pc = "top"
  /\ IF shuttingDown
       THEN Goto("drain") /\ UNCHANGED queue
       ELSE Goto("collect") /\ queue' = {t \in Running : agent[t] \in Done}
  /\ UNCHANGED <<table, agent, current, todo, shuttingDown>>

\* completed_ids is used up.
Collected ==
  /\ pc = "collect"
  /\ queue = {}
  /\ Goto("check")
  /\ UNCHANGED <<table, loop>>

\* t is popped from completed_ids and from _running_tasks.
Pop(t) ==
  /\ pc = "collect"
  /\ t \in queue
  /\ queue' = queue \ {t}
  /\ agent' = [agent EXCEPT ![t] = "none"]
  /\ UNCHANGED shuttingDown

\* Mutant of Abandon: a status that the table does not know.
AbandonAs(t) ==
  /\ status' = [status EXCEPT ![t] = "interrupted"]
  /\ UNCHANGED <<attempt, base, faults>>

\* _abandon_for_shutdown
Abandon(t) ==
  /\ status' = [status EXCEPT ![t] = "pending"]
  /\ UNCHANGED <<attempt, base, faults>>

\* The result of t, found while shutting down: a cancelled task is passed over
\* and keeps its status, any other is parked.
PopShuttingDown(t) ==
  /\ Pop(t)
  /\ shuttingDown
  /\ Goto("collect")
  /\ IF agent[t] = "cancelled" THEN UNCHANGED table
                               ELSE Abandon(t) /\ UNCHANGED tree
  /\ UNCHANGED <<current, todo>>

\* The common end of the three failure paths, at attempt n: back to pending
\* while retries are left, else set_failed, with the dependents still to cancel.
Settle(t, n) ==
  /\ faults' = [faults EXCEPT ![t] = @ + 1]
  /\ attempt' = [attempt EXCEPT ![t] = n]
  /\ IF RetryAllowed(n)
       THEN /\ status' = [status EXCEPT ![t] = "pending"]
            /\ Goto("collect") /\ current' = NoTask
       ELSE /\ status' = [status EXCEPT ![t] = "failed"]
            /\ Goto("cascade") /\ current' = t
  /\ UNCHANGED base

\* A result that is no success and has no subtasks.  A task that never reached
\* set_running has its attempt counted here.
PopFailure(t) ==
  /\ Pop(t)
  /\ ~shuttingDown
  /\ agent[t] = "failure"
  /\ Settle(t, IF status[t] = "pending" THEN attempt[t] + 1 ELSE attempt[t])
  /\ UNCHANGED <<tree, todo>>

\* Mutant of Detached: the branch goes too.
DetachedAndDeleted(t) == [tree EXCEPT ![t] = "none"]

\* detach: the worktree goes, the branch stays.
Detached(t) == [tree EXCEPT ![t] = IF @ = "none" THEN "none" ELSE "branch"]

\* A success: verified in the worktree first, or detached for the merge.
PopSuccess(t) ==
  /\ Pop(t)
  /\ ~shuttingDown
  /\ agent[t] = "success"
  /\ current' = t
  /\ IF t \in Verified THEN Goto("preverify") /\ UNCHANGED tree
                       ELSE Goto("merge") /\ tree' = Detached(t)
  /\ UNCHANGED <<status, attempt, base, faults, todo>>

PopSplit(t) ==
  /\ Pop(t)
  /\ ~shuttingDown
  /\ agent[t] = "split"
  /\ current' = t
  /\ todo' = Subtasks[t]
  /\ Goto("decompose")
  /\ UNCHANGED table

-----------------------------------------------------------------------------
(* _process_result, from its first await on *)

\* Mutant of Interrupted: an interrupted merge counts as done.
InterruptedAsDone ==
  /\ pc \in {"preverify", "merge", "reverted", "merged"}
  /\ shuttingDown
  /\ status' = [status EXCEPT ![current] = "completed"]
  /\ Goto("collect")
  /\ current' = NoTask
  /\ UNCHANGED <<attempt, base, faults, tree, agent, queue, todo, shuttingDown>>

\* An awaited step of the processing ends while shutting down.
Interrupted ==
  /\ pc \in {"preverify", "merge", "reverted", "merged"}
  /\ shuttingDown
  /\ Abandon(current)
  /\ Goto("collect")
  /\ current' = NoTask
  /\ UNCHANGED <<tree, agent, queue, todo, shuttingDown>>

PreverifyPasses ==
  /\ pc = "preverify"
  /\ ~shuttingDown
  /\ tree' = Detached(current)
  /\ Goto("merge")
  /\ UNCHANGED <<status, attempt, base, faults, loop>>

\* The worktree is kept for a retry; when none is left, only the branch is ...
PreverifyFails ==
  /\ pc = "preverify"
  /\ ~shuttingDown
  /\ IF RetryAllowed(attempt[current])
       THEN Settle(current, attempt[current]) /\ UNCHANGED tree
       ELSE /\ tree' = Detached(current)
            /\ Goto("detached")
            /\ UNCHANGED <<status, attempt, base, faults, current>>
  /\ UNCHANGED <<agent, queue, todo, shuttingDown>>

\* ... and then the task fails.
PreverifyFailed ==
  /\ pc = "detached"
  /\ Settle(current, attempt[current])
  /\ UNCHANGED <<tree, agent, queue, todo, shuttingDown>>

\* The executor thread has put the branch on the base branch; the coroutine
\* has not resumed yet.
MergeLands ==
  /\ pc = "merge"
  /\ landed' = landed \cup {current}
  /\ reverted' = reverted \ {current}
  /\ Goto("merged")
  /\ UNCHANGED <<status, attempt, tree, faults, loop>>

\* The branch brought no commit of its own and fails its verification: the
\* thread's `reset --hard HEAD~1` takes a commit of another task off the base.
\* (The order of the commits is not kept: it may be any task's.)
MergeReverts ==
  /\ pc = "merge"
  /\ current \in Verified
  /\ \E t \in landed : landed' = landed \ {t} /\ reverted' = reverted \cup {t}
  /\ Goto("reverted")
  /\ UNCHANGED <<status, attempt, tree, faults, loop>>

MergeFails ==
  /\ pc \in {"merge", "reverted"}
  /\ ~shuttingDown
  /\ Settle(current, attempt[current])
  /\ UNCHANGED <<tree, agent, queue, todo, shuttingDown>>

\* The worktree and branch of a merged task are removed ...
MergeReturns ==
  /\ pc = "merged"
  /\ ~shuttingDown
  /\ tree' = [tree EXCEPT ![current] = "none"]
  /\ Goto("finish")
  /\ UNCHANGED <<status, attempt, base, faults, loop>>

\* ... and then the task is completed.
Finish ==
  /\ pc = "finish"
  /\ status' = [status EXCEPT ![current] = "completed"]
  /\ Goto("collect")
  /\ current' = NoTask
  /\ UNCHANGED <<attempt, tree, base, faults, agent, queue, todo, shuttingDown>>

\* _handle_failure: a transaction of its own, after set_failed.
CancelDependents ==
  /\ pc = "cascade"
  /\ status' = [t \in Task |-> IF t \in Dependents(current, Nonterminal)
                                 THEN "cancelled" ELSE status[t]]
  /\ Goto("collect")
  /\ current' = NoTask
  /\ UNCHANGED <<attempt, tree, base, faults, agent, queue, todo, shuttingDown>>

\* add_runtime_task: one INSERT and one commit per subtask.
AddSubtask(s) ==
  /\ pc = "decompose"
  /\ s \in todo
  /\ status[s] = "absent"
  /\ status' = [status EXCEPT ![s] = "pending"]
  /\ todo' = todo \ {s}
  /\ Goto("decompose")
  /\ UNCHANGED <<attempt, tree, base, faults, agent, queue, current, shuttingDown>>

\* The INSERT meets a row of that id: IntegrityError ends the run.
SubtaskClash(s) ==
  /\ pc = "decompose"
  /\ s \in todo
  /\ status[s] # "absent"
  /\ Leave("raised")
  /\ UNCHANGED <<table, sessions>>

\* The parent is out of the way once all its subtasks are in the table ...
Decomposed ==
  /\ pc = "decompose"
  /\ todo = {}
  /\ status' = [status EXCEPT ![current] = "decomposed"]
  /\ Goto("discard")
  /\ UNCHANGED <<attempt, tree, base, faults, loop>>

\* ... and then its worktree and branch are removed.
Discarded ==
  /\ pc = "discard"
  /\ tree' = [tree EXCEPT ![current] = "none"]
  /\ Goto("collect")
  /\ current' = NoTask
  /\ UNCHANGED <<status, attempt, base, faults, agent, queue, todo, shuttingDown>>

-----------------------------------------------------------------------------
(* The rest of an iteration: stop, launch, or report a deadlock *)

Finished ==
  /\ pc = "check"
  /\ Nonterminal = {}
  /\ Leave("done")
  /\ UNCHANGED <<table, sessions>>

Overlap(S, T) == \E s \in S, t \in T : Files[s] \cap Files[t] # {}

\* _filter_output_overlap: the ready tasks that share no output file with a
\* task in _running_tasks.
Filtered == {t \in Ready : ~Overlap({t}, Running)}

\* Mutant of Batches: no check inside the batch (batch_outputs).
BatchesUnchecked ==
  LET slots == MaxConcurrency - Cardinality(Running)
  IN {S \in SUBSET (Filtered \ Running) :
        \/ Cardinality(S) = slots
        \/ Cardinality(S) < slots /\ S = Filtered \ Running}

\* The sets the launch loop may launch: it goes through the filtered tasks in
\* some order of priority and takes each one that is not in _running_tasks and
\* overlaps no task taken before it, until no slot is left.
Batches ==
  LET slots == MaxConcurrency - Cardinality(Running)
      fits(S) == \A s, t \in S : s # t => ~Overlap({s}, {t})
      candidates == Filtered \ Running
  IN {S \in SUBSET candidates :
        /\ Cardinality(S) <= slots
        /\ fits(S)
        /\ Cardinality(S) = slots \/ \A t \in candidates \ S : ~fits(S \cup {t})}

\* Mutant of Stuck: the running tasks are not looked at.
StuckUnlessReady == Filtered = {}

\* Nothing runs according to the table, and nothing can be launched.
Stuck == WithStatus({"running"}) = {} /\ Filtered = {}

Launch ==
  /\ pc = "check"
  /\ Nonterminal # {}
  /\ ~Stuck
  /\ \E S \in Batches :
       agent' = [t \in Task |-> IF t \in S THEN "created" ELSE agent[t]]
  /\ Goto("wait")
  /\ UNCHANGED <<table, queue, current, todo, shuttingDown>>

\* RuntimeError("Deadlock: ...")
Deadlock ==
  /\ pc = "check"
  /\ Nonterminal # {}
  /\ Stuck
  /\ Leave("deadlock")
  /\ UNCHANGED <<table, sessions>>

\* A task finished, or the timeout passed.  Coroutines created in this
\* iteration are scheduled before the wake-up, so they have all had a step.
WaitReturns ==
  /\ pc = "wait"
  /\ \A t \in Task : agent[t] \notin {"created", "prepared"}
  /\ Goto("top")
  /\ UNCHANGED <<table, loop>>

\* gather has returned: the last _collect_completed, which parks what finished
\* and leaves what was cancelled.
Drain(t) ==
  /\ pc = "drain"
  /\ Running # {} /\ \A u \in Running : agent[u] \in Done
  /\ t \in Running
  /\ agent' = [agent EXCEPT ![t] = "none"]
  /\ IF agent[t] = "cancelled" THEN UNCHANGED table
                               ELSE Abandon(t) /\ UNCHANGED tree
  /\ Goto("drain")
  /\ UNCHANGED <<queue, current, todo, shuttingDown>>

Stopped ==
  /\ pc = "drain"
  /\ Running = {}
  /\ Leave("stopped")
  /\ UNCHANGED <<table, sessions>>

-----------------------------------------------------------------------------

AgentStep(t) ==
  \/ WorktreeMade(t) \/ AgentStarts(t) \/ AgentStartFails(t)
  \/ AgentEnds(t) \/ AgentStops(t)

LoopStep ==
  \/ Top \/ Collected \/ Finished \/ Launch \/ Deadlock \/ WaitReturns \/ Stopped
  \/ \E t \in Task : \/ PopShuttingDown(t) \/ PopFailure(t) \/ PopSuccess(t)
                     \/ PopSplit(t) \/ Drain(t)
                     \/ AddSubtask(t) \/ SubtaskClash(t)
  \/ Interrupted \/ PreverifyPasses \/ PreverifyFails \/ PreverifyFailed
  \/ MergeLands \/ MergeReverts \/ MergeFails \/ MergeReturns \/ Finish
  \/ CancelDependents \/ Decomposed \/ Discarded

Command ==
  StartRun \/ ResetAll \/ Clean \/ \E t \in Task : ResetNext(t) \/ ResetTask(t)

Next ==
  \/ LoopStep
  \/ \E t \in Task : AgentStep(t)
  \/ RequestShutdown \/ Crash \/ Command

Spec == Init /\ [][Next]_vars

\* The event loop keeps running what is runnable, and verifications and merges
\* end.  An agent ends too (its turns are bounded): its process runs on while
\* the loop is between two awaits, and its wake-up then waits in the event
\* loop's FIFO, hence the strong fairness of steps enabled at awaits only.
\* Nobody must give a command, signal or kill; a reset that was begun goes on.
FairSpec ==
  /\ Spec
  /\ WF_vars(LoopStep)
  /\ \A t \in Task : SF_vars(AgentStep(t))
  /\ WF_vars(\E t \in Task : ResetNext(t))

-----------------------------------------------------------------------------
(* What a run promises *)

\* A task is launched, and ends by itself in any way, only after all its
\* dependencies have completed: the loop reads the table when it launches, and
\* the coroutine, the merge and the retries come later, across awaits and
\* restarts (get_ready_task_ids, set_running).
StartedAfterDeps ==
  \A t \in Task :
    (agent[t] # "none" \/ t = current
       \/ status[t] \in {"running", "completed", "failed", "decomposed"})
    => Deps[t] \subseteq WithStatus({"completed"})

\* A cancelled task has a failed or cancelled dependency, whatever was reset in
\* between: cancel_dependents and reset_task walk the same graph, so no reset
\* leaves a task cancelled for a reason that is gone.
CancelledForCause ==
  \A t \in WithStatus({"cancelled"}) :
    Deps[t] \cap WithStatus({"failed", "cancelled"}) # {}

\* Tasks whose agents or merges are in flight together share no output file:
\* the filter against _running_tasks and the one inside a batch complement
\* each other (_filter_output_overlap, _loop).
InFlightApart ==
  \A s, t \in Running \cup ({current} \ {NoTask}) : s # t => ~Overlap({s}, {t})

\* A task that used up its retries is failed until a reset: no interleaving of
\* failures, shutdowns and restarts gives it another turn (_process_result).
BudgetKept ==
  \A t \in Task : /\ faults[t] <= MaxRetries + 1
                  /\ faults[t] > MaxRetries => status[t] = "failed"

\* The work of all its dependencies has been put on the base that a task works
\* on, and left it, if at all, only by the reset after a failed verification:
\* set_completed comes after the branch has landed (merge.py:215 is the one
\* command that takes work off again).
StartsOnLandedWork ==
  \A t \in Task :
    status[t] \in {"running", "completed"} => Deps[t] \subseteq landed \cup reverted

\* The loop's memory and the table agree.  A task in _running_tasks is pending or
\* running, and running once its worktree is there; a result waits to be popped
\* only within _collect_completed, and the one being processed was popped.
LoopAgrees ==
  /\ pc \in {"idle", "reset"} => Running = {}
  /\ queue \subseteq Running
  /\ queue # {} => pc \in Processing \cup {"collect"}
  /\ current \in Task =>
       /\ agent[current] = "none"
       /\ status[current] = CASE pc = "cascade" -> "failed"
                              [] pc = "discard" -> "decomposed"
                              [] OTHER -> "running"
  /\ \A t \in Running :
       status[t] \in IF agent[t] \in {"working", "success", "split"}
                       THEN {"running"} ELSE {"pending", "running"}

\* A completed task has landed, and so has one that is about to be completed;
\* what left the base since was taken off by a verification.
CompletedHasLanded ==
  /\ WithStatus({"completed"}) \subseteq landed \cup reverted
  /\ Verified = {} => reverted = {}
  /\ pc \in {"merged", "finish"} => current \in landed

\* A task has had an attempt for each of its faults, and one more while it runs.
FaultsWereAttempts ==
  \A t \in Task : /\ faults[t] <= attempt[t]
                  /\ status[t] = "running" => faults[t] < attempt[t]

\* Together these are preserved by every step: the loop's memory tells which
\* task a step is about, the table what may happen to it.
IInv ==
  /\ TypeOK
  /\ LoopAgrees
  /\ StartedAfterDeps
  /\ CancelledForCause
  /\ CompletedHasLanded
  /\ FaultsWereAttempts
  /\ BudgetKept

\* The deadlock report is never spurious: a task that may start, or that only
\* waits for another to end, does not make the loop give up.
StuckOnlyWhenBlocked ==
  pc = "check" /\ Nonterminal # {} /\ Stuck
    => \E t \in WithStatus({"pending"}) :
         Deps[t] \cap WithStatus({"failed", "cancelled", "decomposed"}) # {}

\* Without kills, partial resets and subtasks, a run never ends in a deadlock:
\* the cancellation of dependents leaves no pending task that cannot start.
NoDeadlock == exit # "deadlock"

\* An outcome is final: during a run no terminal status changes, and between
\* runs only a failed or cancelled one does (TERMINAL_STATUSES, _reset_single).
OutcomesAreFinal ==
  [][\A t \in WithStatus(Terminal) :
       status'[t] # status[t] =>
         pc \in {"idle", "reset"} /\ status[t] \in {"failed", "cancelled"}]_vars

\* A run never deletes a branch whose work is neither on the base nor handed
\* over to subtasks (detach and remove in worktree/manager.py, _process_result).
WorkIsKept ==
  [][\A t \in Task :
       pc # "idle" /\ tree[t] # "none" /\ tree'[t] = "none"
         => t \in landed \/ status'[t] = "decomposed"]_vars

\* Whatever the loop, its agents, the signals, the kills and the user's commands
\* do together, the table goes through the life of TaskLifecycle only: a task
\* starts after its dependencies, an outcome is kept, a cancellation has a cause.
Life == INSTANCE TaskLifecycle WITH deps <- Deps
ImplementsLifecycle == Life!Spec

\* loop.py:120 "Run the orchestration loop until all tasks are terminal": a run
\* ends, by itself or once it was asked to stop.
RunEnds == pc # "idle" ~> pc = "idle"

=============================================================================
