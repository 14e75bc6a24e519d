------------------------------- MODULE Attempts -------------------------------
(***************************************************************************)
(* The attempts at one task, in the worktree and on the branch that one    *)
(* leaves to the next (src/po/worktree/manager.py), the files by which an  *)
(* agent tells how it went (src/po/agent/launcher.py), what the loop makes *)
(* of it (src/po/orchestrator/loop.py) and the model each attempt is given *)
(* (src/po/config.py).                                                     *)
(*                                                                         *)
(* What is in a worktree is a set of items: the work of each agent, which  *)
(* is only added to, and the two report files.  A process that an agent    *)
(* has started may outlive it, and the agent itself outlives a run that    *)
(* is killed.                                                              *)
(***************************************************************************)
EXTENDS Naturals

CONSTANTS
  Ladder,       \* the number of models in MODEL_LADDER
  Models,       \* those a plan may ask for, by their place; Ladder + 1 is on no ladder
  BaseModel,    \* the one that the first plan asks for
  MaxRetries,   \* --max-retries
  MaxAgents,    \* bound: agents started
  MaxAttempts,  \* bound: attempts counted in a plan, those without an agent included
  MaxPlans      \* bound: how often the task is planned again

ASSUME BoundAssumption ==
  /\ Ladder \in Nat \ {0} /\ Models \subseteq 1..(Ladder + 1) /\ BaseModel \in Models
  /\ {MaxRetries, MaxAgents, MaxAttempts, MaxPlans} \subseteq Nat

VARIABLES
  up,         \* is a `po run` alive?
  step,       \* what it does with the task
  status, attempt,  \* the task's row
  dir,        \* "none", "intact" (a worktree of the branch), "stale" (just a directory)
  files,      \* what is in it
  branch,     \* does po/<t> exist?
  committed,  \* what is on it
  base,       \* what is on the base branch
  agents,     \* agents started so far; the last one's number
  alive,      \* those of which some process is alive
  asked,      \* history: .po-subtasks.json of the last one, until something comes of it
  wanted,     \* task["model"]
  model,      \* history: the last model that escalation gave for this wanted, or 0
  plans,      \* plans made again so far
  kept,       \* history: work that a later attempt was promised
  junk        \* history: items that were written to a stale directory only

row == <<status, attempt>>
git == <<dir, files, branch, committed, base>>
world == <<agents, alive>>
choice == <<wanted, model>>
said == <<asked, choice, plans>>
history == <<kept, junk>>
vars == <<up, step, row, git, world, said, history>>

Report == {"failure", "subtasks"}
Item(k, n) == [kind |-> k, by |-> IF k = "work" THEN n ELSE 0]
Items == {Item(k, n) : k \in Report \cup {"work"}, n \in 1..MaxAgents}
Of(k) == {i \in Items : i.kind = k}
Result == {"success", "split", "failure"}
Terminal == {"completed", "failed", "decomposed"}
\* Between two calls of the loop, with no await: only a kill comes in between.
Halfway == {"rejected", "removed", "split off"}

TypeOK ==
  /\ up \in BOOLEAN
  /\ step \in {"idle", "agent", "detached", "landed"} \cup Result \cup Halfway
  /\ step # "idle" => up
  /\ step \notin {"idle", "split off"} => status = "running"
  /\ step = "split off" => status = "decomposed"
  /\ status \in {"pending", "running"} \cup Terminal
  /\ attempt \in 0..MaxAttempts /\ agents \in 0..MaxAgents
  /\ dir \in {"none", "intact", "stale"} /\ branch \in BOOLEAN
  /\ dir = "intact" => branch
  /\ step \in {"agent"} \cup Result => dir = "intact"
  /\ {files, committed, base, kept, junk} \subseteq SUBSET Items
  /\ (dir = "none" => files = {}) /\ (~branch => committed = {})
  /\ alive \subseteq 1..agents
  /\ asked \in BOOLEAN
  /\ wanted \in Models
  /\ model \in 0..(Ladder + 1) /\ plans \in 0..MaxPlans

Init ==
  /\ up = FALSE /\ step = "idle" /\ status = "pending" /\ attempt = 0
  /\ dir = "none" /\ files = {} /\ branch = FALSE /\ committed = {} /\ base = {}
  /\ agents = 0 /\ alive = {} /\ asked = FALSE /\ plans = 0
  /\ wanted = BaseModel /\ model = 0
  /\ kept = {} /\ junk = {}

\* What the next attempt can find: the worktree, else the branch, else HEAD.
Leftover == IF dir = "intact" THEN files ELSE IF branch THEN committed ELSE base

-----------------------------------------------------------------------------
(* git worktrees *)

\* Mutants of Created: whatever directory is there is taken for the worktree;
\* or the worktree is on no branch.
CreatedInPlace ==
  /\ files' = IF dir # "none" THEN files ELSE Leftover
  /\ committed' = IF branch THEN committed ELSE base
  /\ dir' = "intact" /\ branch' = TRUE

CreatedDetached ==
  /\ files' = Leftover
  /\ dir' = "intact" /\ UNCHANGED <<branch, committed>>

\* create: the worktree of an earlier attempt as it is; else a new one on the
\* branch that is there; else one on a branch cut from HEAD.  A directory that is
\* no worktree of the branch is removed first.
Created ==
  /\ files' = Leftover
  /\ committed' = IF branch THEN committed ELSE base
  /\ dir' = "intact" /\ branch' = TRUE

\* detach: git removes no directory that it does not know for a worktree.
Detached ==
  IF dir = "intact" THEN dir' = "none" /\ files' = {} ELSE UNCHANGED <<dir, files>>

\* remove: the worktree and the branch.
Removed == Detached /\ branch' = FALSE /\ committed' = {}

-----------------------------------------------------------------------------
(* Agents, and what they leave running *)

\* In a directory that was removed, a process that writes makes it anew.
Writes(n, k) ==
  /\ n \in alive
  /\ files' = files \cup {Item(k, n)}
  /\ dir' = IF dir = "none" THEN "stale" ELSE dir
  /\ junk' = IF dir = "intact" THEN junk \ {Item(k, n)}
             ELSE junk \cup ({Item(k, n)} \ (committed \cup base \cup kept))
  /\ asked' = (asked \/ (n = agents /\ step = "agent" /\ k = "subtasks"))
  /\ UNCHANGED <<up, step, row, branch, committed, base, world, choice, plans, kept>>

Tidies(n, k) ==
  /\ n \in alive
  /\ dir = "intact"
  /\ Item(k, n) \in files
  /\ files' = files \ Of(k)
  /\ asked' = (asked /\ k # "subtasks")
  /\ UNCHANGED <<up, step, row, dir, branch, committed, base, world, choice, plans, history>>

\* Everything, or the work alone: no pattern of .gitignore covers the reports.
Commits(n) ==
  /\ n \in alive
  /\ dir = "intact"
  /\ committed' \in {files, committed \cup (files \cap Of("work"))}
  /\ UNCHANGED <<up, step, row, dir, files, branch, base, world, said, history>>

\* The sweep after an agent misses a process in a session of its own.
Gone(n) == alive' \in {alive, alive \ {n}}

OrphanEnds(n) ==
  /\ n \in alive
  /\ step = "agent" => n # agents
  /\ alive' = alive \ {n}
  /\ UNCHANGED <<up, step, row, git, agents, said, history>>

-----------------------------------------------------------------------------
(* An attempt *)

\* Mutant of Escalated: past the last model it starts over.
EscalatedRound(n) ==
  IF wanted > Ladder THEN wanted ELSE ((wanted + n - 2) % Ladder) + 1

\* escalate_model; a model that is not on the ladder stays.
Escalated(n) ==
  IF wanted > Ladder THEN wanted
  ELSE IF wanted + n - 1 < Ladder THEN wanted + n - 1 ELSE Ladder

\* Retried if the attempt, which is counted by now, is within the budget.
RetriedOrFailed(n) ==
  /\ step' = "idle"
  /\ status' = IF n <= MaxRetries THEN "pending" ELSE "failed"

CanStart == up /\ step = "idle" /\ status = "pending" /\ attempt < MaxAttempts

\* A run with --model gives what it says.  Whether the run has the option is asked
\* anew for each attempt, which allows more than the runs do.
Start ==
  /\ CanStart
  /\ agents < MaxAgents
  /\ Created
  /\ step' = "agent" /\ status' = "running" /\ attempt' = attempt + 1
  /\ agents' = agents + 1 /\ alive' = alive \cup {agents + 1}
  /\ model' \in {Escalated(attempt + 1), model}
  /\ asked' = FALSE
  /\ UNCHANGED <<up, base, wanted, plans, history>>

\* git cannot make the worktree: counted by increment_attempt.
StartFails ==
  /\ CanStart
  /\ attempt' = attempt + 1
  /\ RetriedOrFailed(attempt + 1)
  /\ UNCHANGED <<up, git, world, said, history>>

\* The reports are looked for in the worktree, whoever wrote them.  The subtasks
\* count when the attempt is no success, and when there are some to be read.
Read(code, some) ==
  IF code = 0 /\ files \cap Of("failure") = {} THEN "success"
  ELSE IF some /\ files \cap Of("subtasks") # {} THEN "split" ELSE "failure"

AgentExits(code, some) ==
  /\ step = "agent"
  /\ step' = Read(code, some)
  /\ asked' = (asked /\ some /\ step' = "success")
  /\ Gone(agents)
  /\ UNCHANGED <<up, row, git, agents, choice, plans, history>>

\* Mutant of AttemptFails: a failed attempt is cleared away.
AttemptFailsClean ==
  /\ step = "failure"
  /\ RetriedOrFailed(attempt)
  /\ kept' = files \cap Of("work")
  /\ Detached
  /\ UNCHANGED <<up, attempt, branch, committed, base, world, said, junk>>

\* The worktree and the branch stay, for a retry or a reset.
AttemptFails ==
  /\ step = "failure"
  /\ RetriedOrFailed(attempt)
  /\ kept' = files \cap Of("work")
  /\ UNCHANGED <<up, attempt, git, world, said, junk>>

\* The subtasks are rows by now: the task is marked, and then cleared away.
Splits ==
  /\ step = "split"
  /\ step' = "split off" /\ status' = "decomposed"
  /\ kept' = {}
  /\ UNCHANGED <<up, attempt, git, world, said, junk>>

SplitRemoved ==
  /\ step = "split off"
  /\ step' = "idle"
  /\ Removed
  /\ UNCHANGED <<up, row, base, world, said, history>>

\* The verification in the worktree fails; the last time, it is detached and then
\* the task fails.
PreverifyFails ==
  /\ step = "success"
  /\ \/ /\ attempt <= MaxRetries
        /\ RetriedOrFailed(attempt)
        /\ kept' = files \cap Of("work")
        /\ UNCHANGED <<dir, files>>
     \/ /\ attempt > MaxRetries
        /\ step' = "rejected"
        /\ kept' = committed \cap Of("work")
        /\ Detached
        /\ UNCHANGED status
  /\ asked' = FALSE
  /\ UNCHANGED <<up, attempt, branch, committed, base, world, choice, plans, junk>>

PreverifyFailed ==
  /\ step = "rejected"
  /\ RetriedOrFailed(attempt)
  /\ UNCHANGED <<up, attempt, git, world, said, history>>

\* It passes, or there is none.  From here only commits count.
Verified ==
  /\ step = "success"
  /\ step' = "detached"
  /\ Detached /\ kept' = committed \cap Of("work")
  /\ UNCHANGED <<up, row, branch, committed, base, world, said, junk>>

\* The base branch may be left with part of the branch, or all of it, or without
\* what it had: the reset after a failed verification takes one commit back, as
\* many as the merge has brought.
MergeFails ==
  /\ step = "detached"
  /\ RetriedOrFailed(attempt)
  /\ base' \in {b \in SUBSET (base \cup committed) : base \subseteq b \/ b \subseteq base}
  /\ asked' = FALSE
  /\ UNCHANGED <<up, attempt, dir, files, branch, committed, world, choice, plans, history>>

MergeLands ==
  /\ step = "detached"
  /\ base' = committed
  /\ step' = "landed"
  /\ UNCHANGED <<up, row, dir, files, branch, committed, world, said, history>>

\* The worktree and the branch go first, then the row is written.
LandedRemoved ==
  /\ step = "landed"
  /\ step' = "removed"
  /\ Removed
  /\ asked' = FALSE
  /\ UNCHANGED <<up, row, base, world, choice, plans, history>>

Completes ==
  /\ step = "removed"
  /\ step' = "idle" /\ status' = "completed"
  /\ UNCHANGED <<up, attempt, git, world, said, history>>

-----------------------------------------------------------------------------
(* The process, and commands between two runs *)

StartRun == ~up /\ up' = TRUE /\ UNCHANGED <<step, row, git, world, said, history>>

RunEnds ==
  /\ up
  /\ step = "idle"
  /\ up' = FALSE
  /\ UNCHANGED <<step, row, git, world, said, history>>

\* Interrupted at the agent, the worktree is as the agent left it.
Stops ==
  /\ up
  /\ step # "idle"
  /\ up' = FALSE /\ step' = "idle"
  /\ kept' = IF dir = "intact" /\ step # "split off" THEN files \cap Of("work") ELSE kept
  /\ asked' = FALSE

\* Ctrl-C: the agent is killed and its row left running; a result is parked.
Interrupt ==
  /\ Stops
  /\ step \notin Halfway
  /\ status' = IF step = "agent" THEN "running" ELSE "pending"
  /\ IF step = "agent" THEN Gone(agents) ELSE UNCHANGED alive
  /\ UNCHANGED <<attempt, git, agents, choice, plans, junk>>

\* The process of the run is killed, its agent is not.
Crash == Stops /\ UNCHANGED <<row, git, world, choice, plans, junk>>

Idle == ~up /\ UNCHANGED <<up, step, world, asked>>

\* po reset --task: the attempts stay counted.
Reset ==
  /\ Idle
  /\ status \in {"failed", "running"}
  /\ status' = "pending"
  /\ UNCHANGED <<attempt, git, wanted, model, plans, history>>

Clean ==
  /\ Idle
  /\ status \in Terminal
  /\ Removed /\ kept' = {}
  /\ UNCHANGED <<row, base, wanted, model, plans, junk>>

\* Planned again, the task may be given another model.
Replan ==
  /\ Idle
  /\ plans < MaxPlans
  /\ plans' = plans + 1
  /\ wanted' \in Models
  /\ UNCHANGED <<git, history>>

\* po plan: the row keeps its status and its attempts.
PlanAgain ==
  /\ Replan
  /\ wanted' # wanted /\ model' = 0
  /\ UNCHANGED row

\* po plan --fresh: a new row; branch and worktree are not looked at.
FreshPlan ==
  /\ Replan
  /\ status' = "pending" /\ attempt' = 0 /\ model' = 0

AgentStep(n) == (\E k \in Report \cup {"work"} : Writes(n, k)) \/ Commits(n)

Next ==
  \/ \E n \in 1..MaxAgents :
       AgentStep(n) \/ OrphanEnds(n) \/ \E k \in Report : Tidies(n, k)
  \/ Start \/ StartFails \/ \E code \in 0..1, some \in BOOLEAN : AgentExits(code, some)
  \/ AttemptFails \/ Splits \/ SplitRemoved \/ PreverifyFails \/ PreverifyFailed
  \/ Verified \/ MergeFails \/ MergeLands \/ LandedRemoved \/ Completes
  \/ StartRun \/ RunEnds \/ Interrupt \/ Crash
  \/ Reset \/ Clean \/ PlanAgain \/ FreshPlan

Spec == Init /\ [][Next]_vars

-----------------------------------------------------------------------------
(* What one attempt owes to the next *)

\* manager.py:112 "A failed attempt leaves its worktree and branch in place so a
\* retry, or `po reset` + `po run`, continues from that work": no work of an
\* attempt that failed, or was interrupted or killed, and no commit of one that
\* succeeded, gets lost on the way to the next attempt or to the base branch,
\* until the task is split or cleaned.
WorkIsThere == kept \subseteq Leftover

\* manager.py:120 "A stale directory is one git no longer recognises": what
\* processes of removed worktrees write never gets into an attempt or onto a branch.
NothingFromStale ==
  junk \cap (committed \cup base \cup (IF dir = "intact" THEN files ELSE {})) = {}

\* README.md:40 "Retries use a stronger model": while a plan asks for one model, no
\* attempt of a run without --model, after any interruptions, resets and runs with
\* --model, has a weaker model than an earlier one of such a run.  (A run with
\* --model gives what it says, also after stronger ones.)
NeverWeaker == [][agents' # agents => model' >= model]_vars

\* ARCHITECTURE.md:53 "Subtasks created (agent wrote `.po-subtasks.json`)": an agent
\* that wrote it has its task split, its branch is not merged.
SplitWhenAsked == step = "landed" => ~asked

=============================================================================
