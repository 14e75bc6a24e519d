# A TLA+ model of piorchestrator

`po` turns a plan (a JSON list of tasks with dependencies) into merged code: it gives each
task a git worktree and a `claude` process, several at a time, and merges each finished
branch into the base branch. All paths below are relative to `src/src/po/` unless they say
otherwise.

## The system

| part | state it keeps | operations | who it talks to |
|---|---|---|---|
| orchestration loop, `orchestrator/loop.py` | `_running_tasks` (task id → asyncio task), `_shutting_down`; nothing durable | one iteration: collect results, launch, report a deadlock, wait; process a result; shut down | calls all the others; signals and agents' coroutines run when it awaits |
| task store, `db/queries.py`, `db/models.py` | table `tasks` in SQLite: status, attempt, dependencies, output files; a row `project` | readiness query, status changes, cancel dependents, reset with its cascade, upsert, runtime insert, clear; each commits by itself | the loop, the commands of the CLI |
| worktree manager, `worktree/manager.py` | branches `po/<id>`, directories under `.po/worktrees` | create (reuse, re-attach, new), detach, remove | git |
| merger, `orchestrator/merge.py` | cached base branch; git's HEAD, rebase and merge state | merge = recover, rebase, fast-forward, verify, confirm; or agent merge; cancel | git, `claude`, the verification command; runs in an executor thread |
| agent launcher, `agent/launcher.py` | a process and its group, its log, the reports `.po-failure.json`, `.po-subtasks.json` | spawn, read, sweep what it left running, kill | `claude`, process registry |
| process registry, `procs.py` | `_live`, `_live_pids`, `_shutting_down` | register, unregister, shutdown | signal handler, executor threads, launcher |
| verification, `verify.py` | none | run a shell command with a timeout, kill its group | process registry; loop and merger |
| plan, `spec/`, `graph/resolver.py`, `cli.py` | none | validate, sort into layers, compare with the table, save | store |
| command line, `cli.py` | none | plan, run, reset, clean, init; status, logs and cost only read | store, worktrees, generator |
| spec generator, `init/generator.py`; scanner, `scan/scanner.py` | none | one call of `claude` with two pipes; validate, write a file | `claude`, a thread for its standard error |
| live display, `display/` | a copy of statuses and token counts | event handler, layers, refresh | events of the loop |
| `docs/`, `scaffold/`, `playground/` | none | write files once, from templates | |

The loop, the agents and the signal handler share one event loop, so they interleave only
where the loop awaits: in the wait of an iteration, in the verification before a merge, in
the merge, and in the final gather. Merges and verifications run in threads of their own,
one command after another; a shutdown kills the command in flight, whichever it is. The
table, the branches, the worktrees and git's own state outlive the process, each effect for
itself: a kill may come between any two. Agents and what they start outlive it too.

What makes each part correct:

* loop and store: nothing starts before its dependencies are merged; nothing starts twice or
  beside a task that writes the same file; retries are bounded; outcomes are final until a
  reset; failures cancel what depends on them, and nothing else; a run ends.
* worktrees and attempts: work that has not landed stays where the next attempt finds it;
  what a stray process writes does not get in.
* merger: success is reported only for a branch that is on the base; a merge leaves HEAD on
  the base branch and the task branch with its work.
* registry, launcher, verification: what runs can be killed, what was killed is not taken for
  a failure, and when `po` is gone nothing it started is at work.
* plan and store: planning again does not make a task count as done that is not.
* generator: a call ends, tells its errors, and leaves no `claude` behind.

## Modules

| module | models | composed of |
|---|---|---|
| `Orchestrator` | the loop over the task table | implements `TaskLifecycle`, uses `Reach` |
| `TaskLifecycle` | what the status column promises: the abstract specification | |
| `Reach` | what the walks over dependents visit, as a set | |
| `Walk` | the same walks, row by row | ends in the set of `Reach` |
| `GitMerge` | a merge, git command by git command | |
| `Procs` | child processes, registry, timeouts, shutdown | |
| `Attempts` | worktree, branch, reports and model of one task over its attempts | |
| `Planning` | one plan after another over the same table | uses the steps of `TaskLifecycle` for runs |
| `SpecGen` | `po init` and its calls of `claude` | |
| `MCOrchestrator`, `MCWalk`, `MCGitMerge`, `MCProcs`, `MCPlanning` | plans, rows, process groups and specs for TLC | extend the above |
| `OrchestratorProofs`, `WalkProofs`, `GitMergeProofs`, `ProcsProofs`, `AttemptsProofs`, `SpecGenProofs`, `PlanningProofs` | theorems | extend the above |
| `Counting` | induction over a set of numbers | used by `GitMergeProofs`, `PlanningProofs` |

A definition whose comment begins "Mutant of X" is a plausible bug: with X replaced by it, TLC
finds the property that `PROJECT.json` pairs it with violated. No specification uses one.

### `Orchestrator.tla` — the loop over the task table

| variable | in the code |
|---|---|
| `status`, `attempt` | the columns of the same name; `absent` for a subtask that nobody has inserted |
| `tree` | does branch `po/<t>` exist, has it a worktree |
| `landed`, `reverted` | tasks whose work a merge has put on the base branch, and those whose work a failed verification's `reset --hard HEAD~1` took off it again |
| `faults` | history: results since the last reset that were the task's own fault |
| `pc` | where the coroutine `_loop` is; `idle` when no run is alive |
| `agent` | state of `_running_tasks[t]`: created (no step taken yet), prepared (its worktree is there, its row not marked), working, cancelling, or a result |
| `queue`, `current`, `todo` | `completed_ids`, the task in `_process_result`, its subtasks still to insert or, in `po reset`, the rows still to reset |
| `shuttingDown` | `_shutting_down` |
| `exit`, `sessions` | how the last run ended; how many were started |

One action is what the code does between two places where something else can run or be lost.
`Top`, `Pop…`, `Launch`, `WaitReturns`, `Drain`, `Deadlock` and `Finished` are one iteration;
`Preverify…`, `Merge…`, `Finish`, `AddSubtask`, `Decomposed`, `Discarded` and
`CancelDependents` are `_process_result`, cut at its awaits and at each effect that outlives
the process; `WorktreeMade` and `Agent…` are `_run_task`; `RequestShutdown` is the signal
handler; `StartRun`, `ResetAll` (with `ResetNext` for each row), `ResetTask` and `Clean` are
the commands. A coroutine or signal handler is enabled only at `AtAwait`; `Crash` always, but
when nothing runs. `MergeReverts` is a verification that fails after the merge of a branch
without commits: the reset takes the work of some landed task off the base, of any one, since
the order of the commits is not kept here (in `GitMerge` it is). The walks of
`cancel_dependents` and `reset_task` are given by what they reach (`Dependents` of `Reach`, a
least closed set), which is what the proofs need and what `Walk` shows. The agent, the
verification and the merge have any outcome.

### `TaskLifecycle.tla` — what the status column promises

`status` and the dependencies, and nothing else: a task starts when its dependencies have
completed, completes or fails or is parked from running, is cancelled together with a set of
tasks each of which has its cause in the set or in a task that failed, and a reset leaves no
cancelled task without a cause. `ImplementsLifecycle` in `Orchestrator` is this specification
with `Deps` for the dependencies.

### `Walk.tla` — the breadth-first walks

`queue`, `current` and `rest` (the rows of the inner loop) are the code's; `seen` is
`to_cancel` of `cancel_dependents`, which starts empty, or `seen` of `reset_task`, which starts
with the task itself (`start`). The rows were read before; `eligible` are those in a status
that the walk goes on from: not terminal for a cancellation, cancelled for a reset. The
dependencies are any, with cycles, since a save that was cut short can leave some. The module
is proved about, for all rows; `MCWalk` with `Walk.cfg` (four rows with two cycles, from any
row, with any rows eligible, 6000 states) is the small instance that came first.

### `GitMerge.tla` — the merge, command by command

Histories (`ref`) of the task branches, of the branch the user was on, of the conventional main
branch and of a detached HEAD; `head`, `rebasing`, `merging` are what git keeps in the
repository. Each git command of `_merge_sync`, `_try_agent_merge`, `_run_verification`,
`_cancelled` and `_confirm_merged` is an action, and the removal of what a rebase left.
`Signal` sets the shutdown flag and may kill the command in flight (`hit`): its effect may then
be missing, and the code goes on as it does, which is often without looking at the exit status;
the detection of the base branch falls back to main then (`DetectBase`). `Crash` and `Restart`
leave git's state as it is. A commit is the set of patches it brings, so that what a branch or
the base holds can be told however it was rebased. Conflicts, refusals, verdicts, whether `git
commit` succeeds and what the merge agent does are any: it may commit and fail all the same
(`AgentFails`), and `merge --abort` then takes nothing back. `Launch` and `MergeReturns` are
the loop as far as the branches are concerned; the end of the run's last iteration after a
shutdown is in `Orchestrator`.

### `Procs.tla` — processes and the registry

| variable | in the code or the operating system |
|---|---|
| `leader`, `child`, `shape` | of each spawn: the process (alive, exited, waited for), whether its group has another one, and how the group behaves: does the child hold the output, does the leader wait for it, who ignores SIGTERM |
| `pc`, `outcome`, `cancelled` | where the executor thread or the agent's coroutine is, what it returned, was it cancelled |
| `registry`, `shuttingDown` | `_live` and `_live_pids`, `_shutting_down` |
| `main`, `victims`, `target`, `signals` | the main thread: in the event loop, or in the signal handler killing one group after another |
| `killed`, `swept` | histories |

Threads (verification, git command, merge agent) run at any time, coroutines only while the
main thread is in the event loop. Flag test, spawn, registration, reading, each signal with its
grace period, unregistration and the second flag test are steps of their own, and so are the
steps of `shutdown`. A merge agent's thread reads to the end of the output, unregisters and
only then waits (`MergeAgentReads`, `MergeAgentWaits`); an exception while a log is written or
a line taken apart unregisters and stops nothing (`ThreadLogFails`, `AgentReadRaises`). Where
the code asks `poll()` or `getpgid` for the leader, the model does. A group is found by its
marker exactly when it has a member.

### `Attempts.tla` — one task, attempt after attempt

`dir`, `files`, `branch`, `committed`, `base` are what the worktree manager and git keep;
`status`, `attempt` the row, `wanted` its model; `step` where the loop is with the task;
`agents`, `alive` the agents so far and those of which some process is alive, after their run
or their worktree is gone if need be. Agents write work and reports, commit, and tidy reports
up, at any time. `Created`, `Detached` and `Removed` are the operations of the worktree manager
with all their cases; `Read` is the end of `ClaudeCodeRunner.run`; `AttemptFails`, `Splits`,
`SplitRemoved`, `PreverifyFails`, `PreverifyFailed`, `Verified`, `MergeFails`, `MergeLands`,
`LandedRemoved` and `Completes` are `_process_result` for this task, cut where a kill can come
between a change of the row and one of the worktree. `Escalated` is `escalate_model`; a model
that is on no ladder stays, and a run with `--model` escalates nothing. Whether a run has that
option is asked anew at each `Start`, so the runs of the code are among those of the model.
`PlanAgain` and `FreshPlan` are re-plans, which may ask for another model. After a failed merge
the base may hold any part of the branch, or have lost anything it held (`MergeFails`). `kept`
is the work that a later attempt was promised, `junk` what was only ever written to a directory
that was no worktree.

### `Planning.tla` — plan after plan

`status`, `deps`, `def` are the rows, `project` the name in the other table. `Plan` and
`PlanFresh` are `cmd_plan` up to the save, with `Valid` (`ProjectSpec.validate`), `Layered`
(`get_execution_plan`) and `Conflicts` (`_plan_conflicts`); `SaveTask` is `upsert_task`, one
commit each, so that `Crash` may cut a save short. Runs take the steps of `TaskLifecycle`.
`Placed` is also how the live display groups the rows. Histories: `torn`, the rows saved by a
plan that has not, or never, saved all of its own; `owner`, the project a row was saved for;
`did`, the definition that the last attempt of a task was given.

### `SpecGen.tla` — `po init`

`stage` is where `cmd_init` is, `call` where `_invoke_claude` is, `drain` its second thread;
`pipe`, `left`, `holds` are the two pipes, what `claude` has still to write to each and which
ones its children keep open. `errors` is what the thread has handed over, whole lines, and
`partial` what it has read of the next. The call has places of its own for what the code treats
differently: `spawned` (from `Popen` to the `try`, where nothing is handled), `reading`,
`stopping` (the wait in the handler of Ctrl-C), and `waiting`, `joining` (past the reading,
where nothing is handled again). `Interrupt`, `InterruptAgain` and `InterruptUnhandled` are
Ctrl-C in each of them, `PrepareFails` and `ReadRaises` are exceptions; `cut` remembers which
of them a call was left by. `po scan` makes the same call without a handler.

## Runs

| run | question | bounds |
|---|---|---|
| `OrchestratorJoin` | does a run end, without deadlock? | 4 tasks (a and b, then c, then d), 2 at a time, 1 retry, a signal at any await; fair |
| `OrchestratorRestart` | do the table and the branches stay consistent? is the lifecycle implemented? | 4 tasks: c joins a and b, b may split into d, which writes what a writes; a has a verification; 2 at a time, 1 retry, 2 runs, signals, kills, both resets, clean |
| `GitMerge` | does success mean landed, is work kept? | 2 tasks, 2 commits and 2 launches each, 2 runs, signals, kills |
| `Procs` | can everything be killed, and is nothing left? does it end? | a verification, a git command, a merge agent and an agent, any two of which are started; five kinds of process group; 2 signals; fair |
| `Planning` | what do re-plans do to a table that has run? | 3 ids, 9 specs (changes to the first, another project, a cycle, an unknown dependency, a task alone), one `--fresh` |
| `SpecGen` | does a call end, and what does it leave? | pipes of 1, up to 3 writes to each, 1 revision; fair |
| `Attempts` | what does one attempt owe to the next? | 2 agents, 3 counted attempts, 1 retry, a ladder of 2, plans that ask for its first model or for one that is on no ladder, one re-plan (`--fresh` or another model), `--model` at any attempt |

The plans have a task of each kind (source, join, chain, subtask, shared file), one retry lets
the counter meet its limit, and a second run meets what the first left behind; each property's
mutant is found at these sizes, and the theorems hold for every size. Two tasks are what it
takes for one merge to disturb another's commits, two commits what it takes for a branch to be
longer than `HEAD~1`. The runs of `GitMerge` start on a branch other than main, so that base
detection has a wrong answer to give. Two commands are what a verification beside an agent, or
a git command beside one, needs: the handler takes victims one after another, and a third
would only wait in the same places. A pipe of 1 with 3 writes fills while the other is read,
which is all that the real size of a pipe does. In `Planning` a chain can be turned round,
lengthened at either end and replaced by another project's. In `Attempts` the second agent
meets all that the first, its orphans and a kill leave, and three counted attempts reach past
the end of a ladder of two. `CHECK_DEADLOCK FALSE`: with the bounds used up, or all work done,
nothing has to happen.

The constraint of `Procs` leaves out behaviours in which a third command starts; no command
has to start, so what is left are fair behaviours of the same specification.

These runs state what documents, comments and docstrings of the repository say and the code
does not do; TLC shows how (the details and quotations are in `PROJECT.json`):

| run | what happens |
|---|---|
| `ResumeEnds` | tasks of cancelled agents keep status `running`; `po reset` skips them and the next run waits for them for ever |
| `MergeUndone` | a failed verification after the merge of a branch without commits takes back the commit of another, completed task |
| `VerifyHangs` | a command that leaves a child with its output outlives its timeout: the second `communicate()` waits for the child |
| `AgentLeaks` | an agent whose log cannot be opened (every subtask's: `logs/parent/` does not exist) runs on unregistered |
| `SubtasksIgnored` | `.po-subtasks.json` of an agent that exits with status 0 is not looked at: its branch is merged, its subtasks are dropped |

`MergeUndone` shows the branch without commits; that the reset of a branch with two leaves the
first of them on the base is in the same model and has no run of its own.

`po reset --task` does accept a task in status running, so the first one has a way out that
the documentation does not mention; `ResetTask` models it.

The models also contain these, which no run of their own shows:

* a signal while a result is processed is followed by one more launch (`Launch` does not look
  at `shuttingDown`, as loop.py:187-222 does not);
* an attempt that a shutdown interrupted stays counted, so that a task with retries left may
  fail for good at its first own fault, where loop.py:391-392 says that a shutdown must not
  burn the retry budget (`AgentStarts` counts, `Abandon` takes nothing back);
* a merge that landed just before the shutdown was handled is parked as pending, and its task
  runs again (`Interrupted`);
* a task that depends on a decomposed one is never ready, and the run ends in the deadlock
  error (`Ready`, and the exception in `StuckOnlyWhenBlocked`);
* a kill between a failure and the cancellation of its dependents leaves them pending, and so
  does a reset of one of several failed dependencies: the next run ends in the same report;
* a kill within a decomposition makes the next attempt insert the same ids (`SubtaskClash`);
* a failed verification after the merge takes back one commit of several, and a shutdown that
  kills `git checkout <base>` leaves HEAD on the task branch (`GitMerge`);
* the base branch of a run is what HEAD is on at its first merge: after such a shutdown, or when
  the detection itself is killed, it is main, whatever the user was on (`DetectBase`);
* a `.po-failure.json` that is neither removed nor ignored fails every later attempt, and can
  be merged (`Read`, `Commits` in `Attempts`);
* the merge agent is unregistered when its output ends, before it is waited for
  (`MergeAgentReads`), and an agent whose output raises an exception, a line of JSON that is no
  object for one, runs on unregistered as that of `AgentLeaks` does (`AgentReadRaises`);
* an agent that is cancelled after `claude` has exited by itself leaves what that started
  (`AgentLeaves`: the code looks at `returncode`);
* `po init` waits without a timeout for a child of `claude` that keeps its output, and leaves
  `claude` running on an exception while it reads, on a Ctrl-C between the spawn and the `try`,
  and on a second Ctrl-C in the handler of the first (`SpecGen`);
* work that is not committed passes the verification in the worktree and is dropped before the
  merge (`Verified` in `Attempts`); `--fresh` keeps the branches (`FreshPlan`).

## Fairness

Safety is checked and proved without any. `RunEnds` assumes weak fairness of the loop's own
steps: the event loop runs what is runnable, and a verification (timeout) or a merge ends. It
assumes strong fairness of each agent's steps: an agent works on in its own process while the
loop computes, and its wake-up waits in the event loop, but the model's step is enabled at
awaits only. Nobody has to give a command, send a signal or kill anything. That a
verification ends is what `VerifyEnds` of `Procs` shows, for commands whose children let go of
the output when they are killed or wait for them; `VerifyHangs` is the case where it does not.
`ShutdownEnds` is about the same tidy groups, and about agents and git commands that end: a
group as in `VerifyHangs` holds up the shutdown in the same way, since `asyncio.run()` joins the
thread that reads its output.

`Procs` assumes that the operating system runs each thread and the event loop each coroutine
that has begun, that the handler goes on, and that git and `claude` end by themselves (an
agent's turns are bounded). A verification command need not end, nor any child: those are what
the timeout is for. `SpecGen` assumes that its two threads run, that `claude` writes what it
has to and exits, and that a child that keeps its standard output ends, because the code waits
for that without a timeout.

## Proofs

`OrchestratorProofs` proves for every plan that satisfies `DepsAssumption` (known and acyclic
dependencies; subtasks have their parent's) and every bound, with signals, kills and resets:

| theorem | property |
|---|---|
| `TypeCorrect` | `TypeOK` |
| `StartsAfterDependencies` | `StartedAfterDeps` |
| `CancellationsHaveCauses` | `CancelledForCause` |
| `WorksOnLandedBase` | `StartsOnLandedWork` |
| `BaseOnlyGrows`, without verification commands | dependencies of what runs or is completed are on the base |
| `RetriesAreBounded` | `BudgetKept` |
| `SharedFilesAreSerialized` | `InFlightApart` |
| `OutcomesStayFinal` | `OutcomesAreFinal` |
| `NoWorkIsLost` | `WorkIsKept` |
| `Invariant` | `IInv`, what they rest on |
| `StuckIsBlocked` | `StuckOnlyWhenBlocked` |
| `NeverDeadlocked`, under `Undisturbed` | `NoDeadlock` |
| `Refinement` | `ImplementsLifecycle` |

The invariant has two layers. The core is `TypeOK`, `LoopAgrees` and `StartedAfterDeps`.
`StartedAfterDeps` alone is not inductive: that a popped result may complete a task needs to
know that the task was running and not, say, cancelled meanwhile, and a launched task stays
startable only because a completed dependency never changes. `LoopAgrees` ties the loop's
memory to the table: what is in `_running_tasks` is pending or running, what is being processed
is running and nowhere else. From there: outcomes are final, because every status change of a
run is about `current`, a popped or a launched task, which is not terminal, or goes through
`Dependents(_, Nonterminal)`. `CancelledForCause` rests on two lemmas about the walk, proved
from its definition as a least closed set: what it reaches has a dependency in it or on its
root (`DependentsCaused`), and what depends on something it reaches is reached
(`DependentsClosed`): the first makes a cancellation justified, the second keeps a reset from
leaving a cancelled task without its cause. `CompletedHasLanded` and `FaultsWereAttempts` are
inductive over the core and give the landed base and the retry bound. `StartsOnLandedWork` says
that the work of the dependencies was merged, and that it left the base, if at all, by the
reset after a failed verification: merge.py:215 does take a completed task's work off
(`MergeReverts`, and the run `MergeUndone`), and a task started after that works without it.
With no verification command nothing takes work off, and the base holds all of it
(`BaseOnlyGrows`). `InFlightApart` needs only the core and what `Batches` selects.

`StuckIsBlocked` is about an instant: nothing was launched, nothing is working, and yet tasks
are left. `HandFits` ties each task that is pending in the table and in the loop's hand all the
same to the place where the loop is, so that at the check there is none; `PlanIsThere` says
that every task of the plan is in the table; then the pending tasks, whose dependencies are
acyclic, have one that depends on no other of them (`StuckMeansBlocked`). `NoDeadlock` does not
hold for every constant: a kill between a failure and the cancellation of its dependents, a
reset of one task, and a task that waits for a decomposed one do lead to the report.
`Undisturbed` excludes exactly these three, as the run `OrchestratorJoin` does; signals and any
number of runs are left in. Its invariant `NothingBlocked` says that what waits for a failed or
cancelled task does so only until `cancel_dependents` has run.

`Refinement` shows that each step is one of `TaskLifecycle` or leaves the table alone
(`LifecycleStep`): most steps set one status (`OneBecomes`), a settled failure retries or
fails (`SettleRefines`), a shutdown parks (`AbandonRefines`), a cancellation is justified by
`DependentsCaused` (`CancelRefines`), and a reset by the invariant `CancelledForCause` in the
state after it (`ResetRefines`). That a launch is a `Start` of the abstract specification needs
the core: the readiness was computed earlier, at another state of the table.

`WalkProofs`, for any finite set of rows and any dependencies:

| theorem | property of `Walk` |
|---|---|
| `WalksAreRight` | `VisitsDependents` |
| `WalksEnd` | `EachStepCounts` |

`OnlyDependents` says that whatever was found is a dependent, `NothingSkipped` that a row which
was not found has no dependency among those popped, but for the one in hand. When the queue is
empty the second closes the visited rows, and the least closed set can hold no more. A walk
ends because the rows to come (`Ahead`: those not seen and those queued) are one fewer with each
pop, while finding a row only moves it from the first to the second.

`GitMergeProofs` proves about the merge, for any tasks and bounds, with signals and kills at
any command:

| theorem | property |
|---|---|
| `TypeCorrect` | `TypeOK` |
| `SuccessIsTrue` | `SuccessHasLanded` |
| `MergesLeaveCleanBase` | `CleanBase` |
| `MergesAreSafe` | `MergeInv`, what they rest on |
| `WorkStays` | `BranchKeepsWork` |

`CleanBase` speaks of two places, `MergeInv` of every command: a rebase is left over only
between `rebase` and its abort, and HEAD is on the base branch at each command that counts on
it unless a shutdown has begun (the clean-up, `CleanUp`, is only entered in one). It needs `hit
=> shut`: the code may ignore exit statuses only because nothing but a shutdown kills its
commands. A success stays true while it is on its way to the loop, since agents commit to other
branches only. The types rest on `MergeInv`: a merge names a base branch and a task wherever it
uses them. `WorkStays` has two halves. The commands that write what HEAD is on write the base
branch (`OnlyBase`, from `MergeInv`), which is no task's. Those that write the task branch are
the rebase, of which `MissingIsTheRest` shows that each patch of the branch is replayed or on
the base, and its deletion, where `SuccessHasLanded` says that the base has all of it.

`ProcsProofs`, for any finite sets of threads and agents, any process groups and two signals:

| theorem | property |
|---|---|
| `TypeCorrect` | `TypeOK` |
| `WhatRunsIsTracked` | `RunningIsTracked` |
| `SweepsKill` | `SweptAreGone` |
| `KillsAreNoFailures` | `KilledIsCancelled` |
| `WorktreesAreQuiet` | `AgentsLeaveNothing` |
| `NothingOutlivesPo` | `ExitLeavesNoLeader` |
| `Invariant` | their conjunction, strengthened |

They are not inductive by themselves. A thread tests the flag, spawns, registers, reads and
tests the flag again, each at another state of the registry, and the handler takes a copy of
it. The strengthening says where each one can be (`PlacesAgree`: the place of a thread or
coroutine tells whether its leader was spawned, registered and waited for; `SweepAgrees`: the
victims are what the handler took and has not got to), that a child which outlived a kill is
deaf to it, and that a leader which was taken and is not waiting for it any more is dead.

`AttemptsProofs`, for any number of attempts, retries, agents and models:

| theorem | property |
|---|---|
| `TypeCorrect` | `TypeOK` |
| `WorkIsKept` | `WorkIsThere` |
| `StaleStaysOut` | `NothingFromStale` |
| `ModelsGrow` | `NeverWeaker` |
| `Invariant` | what they rest on |

`WorkIsThere` needs to know that between detach and merge there is no worktree but a branch,
and that once the merge has landed all that was promised is on the base, or else the deletion
of the branch could lose it. Of an attempt whose verification fails for the last time only the
commits are kept, as in the code. `NeverWeaker` is about runs without `--model` and holds while
the plan asks for one model: a run with `--model` may well use a weaker one, after stronger
ones. Between the two attempts that it compares there may be kills, resets and such runs;
`ModelFitsAttempt` carries it: the last model is no stronger than its attempt's number gives,
and that number never falls but with a new row.

`SpecGenProofs`, for pipes of any capacity and any output:

| theorem | property |
|---|---|
| `TypeCorrect` | `TypeOK` |
| `FailuresAreTold` | `ErrorsAreTold` |
| `ClaudeIsStopped` | `NoneLeftBehind` |

The invariant ties the place of the call and of its second thread to the child: when the call
has come to its end, the child has exited and the pipe of its standard error is empty; an
interrupted child has exited when its handler is through. `ErrorsAreTold` speaks of the calls
that came to their end. Of these the message may lack a last line that has no end, if what
`claude` started still holds the pipe: the thread is given whole lines. That the wait for the
thread (five seconds) is long enough to empty a pipe is assumed. `NoneLeftBehind` names the
exits that leave a `claude`, and excludes every other: an answer, a failure to answer, and one
Ctrl-C while the output is read.

`PlanningProofs`, for any finite set of tasks, any specs, plans, runs and kills:

| theorem | property |
|---|---|
| `TypeCorrect` | `TypeOK` |
| `DisplayFindsCycles` | `UnresolvedAreCyclic` |
| `DoneIsAsPlanned` | `CompletedAsPlanned` |
| `ProjectsApart` | `OneProject` |
| `OutcomesFit` | `OutcomesFitDeps` |
| `PlansAreSound` | `GraphIsSound` |
| `Invariant` | what they rest on |

`Placed` is recursive: layer after layer, as many as there are tasks. That as many are enough
is an induction over the layers (`LayersSuffice`: each layer adds a task, or nothing is left to
add), from which a spec is accepted exactly if it has no cycle (`LayeredIsSound`), and the
display's "Unresolved" group holds what is on or behind one (`UnplacedIsCyclic`,
`CyclicIsUnplaced`). The four properties hold together or not at all. They survive a save
because `_plan_conflicts` has refused what would change a row that is done with: `SaveFits`
says what is left of its answer half-way, that rows already written are as planned, and rows
still to be written are as planned too if they are done with. `LiveFits` keeps the definition
of a task in hand as it was given, since no plan runs beside a run. The rows of a save that was
cut short may well have cycles with those of another plan: `GraphIsSound` is about the others,
and `torn` is what it needs to say so.

The library states induction for an operator, which the installed provers cannot instantiate;
`Counting` proves it for a set of numbers, from the well-foundedness of `<`. With it the two
recursive functions of the models are proved to exist and to be what their bodies say
(`LayersExist`, `PicksExist`). The provers know nothing of `SelectSeq`, so `Missing` of
`GitMerge` is such a function.

Every invariant above was model-checked on its run before it was proved. The assumptions are
those that the modules name (`DepsAssumption`, `GitAssumption`, `JobAssumption`,
`BoundAssumption`, `SpecAssumption`): finite sets, distinct names, bounds that are numbers,
and specs whose fields have the types that the parser enforces. TLC evaluates them on every
run.

Only model-checked: liveness (`RunEnds`, `VerifyEnds`, `ShutdownEnds`, `CallEnds`), which is
out of the prover's reach. Every invariant, every action property and the refinement that a
passing run checks is proved.

## Not modelled

Prompts, costs, tokens, logs (but for their opening) and messages; priorities (any order
stands for all); setup commands (best effort, and a verification command as far as processes
go); reading and printing commands; the generators that only fill templates; the preflight
checks, which test the environment before anything changes. A merge is an outcome in
`Orchestrator`, a sequence of commands in `GitMerge` and one of those commands in `Procs`,
not yet joined by a refinement. Outside a shutdown `GitMerge` lets a checkout succeed: between
the commands of a merge nobody else writes in the project's own tree, and all but one of its
checkouts are forced. The commands of the clean-up after a shutdown (`_cancelled`) are not
killed by it again; a second Ctrl-C ends the process as well and is `Crash`. In `Procs` a
process keeps its output until it exits, but for a merge agent, a process id is never given to
another process, and what an agent starts outside its process group is left to
`Attempts`. In `Attempts` the base branch moves by this task's merges only; git's refusals
are `StartFails`. `po scan` is not modelled. Two `po` processes at once, and commands given
during a run (the hazard at `cli.py:666`), are excluded by nothing in the code and are not
modelled. Nor is the log of a subtask's verification, whose directory is missing like that of
its agent.

## Plan

1. done: all modules with their runs; proofs of every invariant and action property that a
   passing run checks, and of the refinement of `TaskLifecycle`.
2. a merge in one step, as `Orchestrator` takes it, as an abstract specification that
   `GitMerge` implements; the attempts of one task as what `Orchestrator` sees of them.
