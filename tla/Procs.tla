-------------------------------- MODULE Procs --------------------------------
(***************************************************************************)
(* The child processes of `po run` and the registry that a shutdown kills  *)
(* them through (src/po/procs.py), with the places that spawn: the         *)
(* verification command (src/po/verify.py) and the git commands and merge  *)
(* agents (src/po/orchestrator/merge.py) in executor threads, the agents   *)
(* (src/po/agent/launcher.py) in coroutines of the event loop, and the     *)
(* signal handler (loop.py, _request_shutdown), which occupies the event   *)
(* loop until it returns.                                                  *)
(*                                                                         *)
(* Threads run at any time; coroutines only while the main thread is in    *)
(* the event loop.  A job is one spawn: a leader, which is the process     *)
(* started, and possibly a child that the leader left in its group.        *)
(***************************************************************************)
EXTENDS Naturals, FiniteSets

CONSTANTS
  Verify,      \* verification commands (run_verification)
  Git,         \* git commands of the merger (_run_git)
  MergeAgent,  \* conflict resolvers (_invoke_merge_agent)
  Agent,       \* agents of tasks (ClaudeCodeRunner.run)
  Shapes,      \* per command: the process groups that it may turn into
  NoJob

Thread == Verify \cup Git \cup MergeAgent
Job == Thread \cup Agent

\* child: the leader has a child; holds: it has the leader's stdout; waits: the
\* leader outlives it; ignores: who ignores SIGTERM.
Shape == [child : BOOLEAN, holds : BOOLEAN, waits : BOOLEAN,
          ignores : SUBSET {"leader", "child"}]

ASSUME JobAssumption ==
  /\ IsFiniteSet(Job)
  /\ Agent \cap Thread = {} /\ Verify \cap (Git \cup MergeAgent) = {}
  /\ Git \cap MergeAgent = {}
  /\ NoJob \notin Job
  /\ Shapes \in [Job -> (SUBSET Shape) \ {{}}]

VARIABLES
  leader,        \* "none", "alive", "zombie" (exited, not waited for), "reaped"
  child,         \* is the leader's child running?
  shape,         \* how the group of a spawned job behaves
  pc,            \* where the thread or coroutine of the job is
  outcome,       \* what it returned
  cancelled,     \* agents that task.cancel() was called on
  registry,      \* _live and _live_pids
  shuttingDown,  \* procs._shutting_down
  main,          \* where the main thread is
  victims,       \* what shutdown() has still to kill
  target,        \* the group whose grace period is running
  signals,       \* signals handled
  killed,        \* history: leaders alive when shutdown() signalled their group
  swept          \* history: jobs that shutdown() found in the registry

group == <<leader, child, shape>>
job == <<pc, outcome, cancelled>>
handler == <<main, victims, target, signals, killed, swept>>
vars == <<group, job, registry, shuttingDown, handler>>

Leader == {"none", "alive", "zombie", "reaped"}
Awaiting == {"spawned", "reading", "reaping"}
Pc == {"idle", "spawn", "registered", "term", "grace", "draining", "unregister",
       "waiting", "recheck", "done"} \cup Awaiting
Outcome == {"none", "ok", "failed", "timeout", "cancelled", "raised"}
Main == {"loop", "flagged", "sweeping", "grace", "leaving", "exited"}

TypeOK ==
  /\ leader \in [Job -> Leader]
  /\ child \in [Job -> BOOLEAN]
  /\ shape \in [Job -> Shape]
  /\ pc \in [Job -> Pc]
  /\ outcome \in [Job -> Outcome]
  /\ cancelled \in SUBSET Agent
  /\ registry \in SUBSET Job
  /\ shuttingDown \in BOOLEAN
  /\ main \in Main
  /\ victims \in SUBSET Job
  /\ target \in Job \cup {NoJob}
  /\ signals \in 0..2
  /\ killed \in SUBSET Job
  /\ swept \in SUBSET Job

Quiet == [child |-> FALSE, holds |-> FALSE, waits |-> TRUE, ignores |-> {}]

Init ==
  /\ leader = [j \in Job |-> "none"]
  /\ child = [j \in Job |-> FALSE]
  /\ shape = [j \in Job |-> Quiet]
  /\ pc = [j \in Job |-> "idle"]
  /\ outcome = [j \in Job |-> "none"]
  /\ cancelled = {}
  /\ registry = {}
  /\ shuttingDown = FALSE
  /\ main = "loop"
  /\ victims = {}
  /\ target = NoJob
  /\ signals = 0
  /\ killed = {}
  /\ swept = {}

-----------------------------------------------------------------------------
(* Process groups *)

Exited(j) == leader[j] \in {"zombie", "reaped"}
Alive(j) == leader[j] = "alive" \/ child[j]

\* The end of the captured output: nobody holds the pipes any more.
EndOfOutput(j) == leader[j] # "alive" /\ ~(child[j] /\ shape[j].holds)

\* poll() and wait() reap a leader that has exited.
Reaped(l) == IF l = "zombie" THEN "reaped" ELSE l
Reap(j) == leader' = [leader EXCEPT ![j] = Reaped(@)]

\* SIGTERM and SIGKILL to a whole group.
Term(j) ==
  /\ leader' = [leader EXCEPT ![j] =
                  IF @ = "alive" /\ "leader" \notin shape[j].ignores THEN "zombie" ELSE @]
  /\ child' = [child EXCEPT ![j] = @ /\ "child" \in shape[j].ignores]

Kill(j, then) ==
  /\ leader' = [leader EXCEPT ![j] = IF @ = "alive" THEN then ELSE @]
  /\ child' = [child EXCEPT ![j] = FALSE]

\* signal_group goes through getpgid(pid), which fails once the leader is reaped.
Signallable(j) == leader[j] \in {"alive", "zombie"}

\* A leader ends by itself; one that waits for its child has seen it end.
LeaderEnds(j) ==
  /\ leader[j] = "alive"
  /\ leader' = [leader EXCEPT ![j] = "zombie"]
  /\ child' = [child EXCEPT ![j] = @ /\ ~shape[j].waits]
  /\ UNCHANGED <<shape, job, registry, shuttingDown, handler>>

\* What is left of the leader's work ends.
ChildEnds(j) ==
  /\ child[j]
  /\ child' = [child EXCEPT ![j] = FALSE]
  /\ UNCHANGED <<leader, shape, job, registry, shuttingDown, handler>>

\* asyncio's child watcher, in a thread or in the event loop.
WatcherReaps(j) ==
  /\ j \in Agent
  /\ leader[j] = "zombie"
  /\ Reap(j)
  /\ UNCHANGED <<child, shape, job, registry, shuttingDown, handler>>

-----------------------------------------------------------------------------
(* Steps that several kinds of jobs take *)

Goto(j, step) == pc' = [pc EXCEPT ![j] = step]

Return(j, result) ==
  /\ Goto(j, "done")
  /\ outcome' = [outcome EXCEPT ![j] = result]

Spawn(j) ==
  /\ leader' = [leader EXCEPT ![j] = "alive"]
  /\ \E s \in Shapes[j] : /\ shape' = [shape EXCEPT ![j] = s]
                       /\ child' = [child EXCEPT ![j] = s.child]

Register(j) == registry' = registry \cup {j}
Unregister(j) == registry' = registry \ {j}

-----------------------------------------------------------------------------
(* Executor threads: run_verification, _run_git, _run_merge_agent *)

\* The flag is looked at before a verification and before a merge agent, but
\* not before a git command: the cleanup of a merge is made of those.
ThreadStarts(j) ==
  /\ j \in Thread
  /\ main # "exited"
  /\ pc[j] = "idle"
  /\ IF j \in Verify \cup MergeAgent /\ shuttingDown
       THEN Return(j, "cancelled")
       ELSE Goto(j, "spawn") /\ UNCHANGED outcome
  /\ UNCHANGED <<group, cancelled, registry, shuttingDown, handler>>

ThreadSpawns(j) ==
  /\ j \in Thread
  /\ main # "exited"
  /\ pc[j] = "spawn"
  /\ Spawn(j)
  /\ Goto(j, "spawned")
  /\ UNCHANGED <<outcome, cancelled, registry, shuttingDown, handler>>

\* The program cannot be started: a verification fails, a git command raises.
ThreadSpawnFails(j) ==
  /\ j \in Thread
  /\ main # "exited"
  /\ pc[j] = "spawn"
  /\ Return(j, IF j \in Verify THEN "failed" ELSE "raised")
  /\ UNCHANGED <<group, cancelled, registry, shuttingDown, handler>>

\* procs.register, a step after the spawn.
ThreadRegisters(j) ==
  /\ j \in Thread
  /\ main # "exited"
  /\ pc[j] = "spawned"
  /\ Register(j)
  /\ Goto(j, "registered")
  /\ UNCHANGED <<group, outcome, cancelled, shuttingDown, handler>>

\* The merge agent's log cannot be opened or written, or a line of its output is JSON
\* and no object: the exception passes `finally`.
ThreadLogFails(j) ==
  /\ j \in MergeAgent
  /\ main # "exited"
  /\ pc[j] = "registered"
  /\ Unregister(j)
  /\ Return(j, "raised")
  /\ UNCHANGED <<group, cancelled, shuttingDown, handler>>

\* communicate() waits for the end of the output, then for the leader.
ThreadReads(j) ==
  /\ j \in Verify \cup Git
  /\ main # "exited"
  /\ pc[j] \in {"registered", "draining"}
  /\ EndOfOutput(j)
  /\ Reap(j)
  /\ Goto(j, "unregister")
  /\ outcome' = [outcome EXCEPT ![j] = IF pc[j] = "draining" THEN "timeout" ELSE @]
  /\ UNCHANGED <<child, shape, cancelled, registry, shuttingDown, handler>>

\* The thread of a merge agent reads to the end of stdout, which a process that ends
\* closes before it is seen to have ended; forgets the agent; and waits for it then.
MergeAgentReads(j) ==
  /\ j \in MergeAgent
  /\ main # "exited"
  /\ pc[j] = "registered"
  /\ ~(child[j] /\ shape[j].holds)
  /\ Goto(j, "unregister")
  /\ UNCHANGED <<group, outcome, cancelled, registry, shuttingDown, handler>>

MergeAgentWaits(j) ==
  /\ j \in MergeAgent
  /\ main # "exited"
  /\ pc[j] = "waiting"
  /\ Exited(j)
  /\ Reap(j)
  /\ Goto(j, "recheck")
  /\ UNCHANGED <<child, shape, outcome, cancelled, registry, shuttingDown, handler>>

\* Mutants of VerifyTimesOut: no timeout; the registry forgets the command first.
NoTimeout(j) == FALSE
VerifyForgets(j) ==
  /\ j \in Verify
  /\ main # "exited"
  /\ pc[j] = "registered"
  /\ Unregister(j)
  /\ Goto(j, "term")
  /\ UNCHANGED <<group, outcome, cancelled, shuttingDown, handler>>

\* TimeoutExpired: only a verification has a timeout.
VerifyTimesOut(j) ==
  /\ j \in Verify
  /\ main # "exited"
  /\ pc[j] = "registered"
  /\ Goto(j, "term")
  /\ UNCHANGED <<group, outcome, cancelled, registry, shuttingDown, handler>>

\* Mutant of VerifyTerms: the timeout only kills the leader.
VerifyTermsLeader(j) ==
  /\ main # "exited"
  /\ pc[j] = "term"
  /\ leader' = [leader EXCEPT ![j] = "reaped"]
  /\ Goto(j, "draining")
  /\ UNCHANGED <<child, shape, outcome, cancelled, registry, shuttingDown, handler>>

\* kill_group: nothing when the leader has exited, else SIGTERM to the group ...
VerifyTerms(j) ==
  /\ main # "exited"
  /\ pc[j] = "term"
  /\ IF Exited(j) THEN Reap(j) /\ UNCHANGED child /\ Goto(j, "draining")
                  ELSE Term(j) /\ Goto(j, "grace")
  /\ UNCHANGED <<shape, outcome, cancelled, registry, shuttingDown, handler>>

\* ... and SIGKILL when the leader outlives its grace period.
VerifyKills(j) ==
  /\ main # "exited"
  /\ pc[j] = "grace"
  /\ IF Exited(j) THEN Reap(j) /\ UNCHANGED child ELSE Kill(j, "reaped")
  /\ Goto(j, "draining")
  /\ UNCHANGED <<shape, outcome, cancelled, registry, shuttingDown, handler>>

ThreadUnregisters(j) ==
  /\ main # "exited"
  /\ j \in Thread
  /\ pc[j] = "unregister"
  /\ Unregister(j)
  /\ Goto(j, IF j \in MergeAgent THEN "waiting" ELSE "recheck")
  /\ UNCHANGED <<group, outcome, cancelled, shuttingDown, handler>>

\* Mutant of ThreadReturns: the flag is not looked at again.
ThreadReturnsStatus(j) ==
  /\ main # "exited"
  /\ pc[j] = "recheck"
  /\ \E status \in {"ok", "failed"} :
       Return(j, IF outcome[j] = "timeout" THEN "timeout" ELSE status)
  /\ UNCHANGED <<group, cancelled, registry, shuttingDown, handler>>

\* The flag decides between "cancelled" and what the command says.
ThreadReturns(j) ==
  /\ main # "exited"
  /\ pc[j] = "recheck"
  /\ \E status \in {"ok", "failed"} :
       Return(j, IF j \in Verify \cup MergeAgent /\ shuttingDown THEN "cancelled"
                 ELSE IF outcome[j] = "timeout" THEN "timeout" ELSE status)
  /\ UNCHANGED <<group, cancelled, registry, shuttingDown, handler>>

-----------------------------------------------------------------------------
(* Coroutines: ClaudeCodeRunner.run *)

\* The main thread is in the event loop, not in the signal handler.
LoopFree == main \in {"loop", "leaving"}

AgentRuns(j, step) ==
  /\ LoopFree
  /\ j \in Agent \ cancelled
  /\ pc[j] = step

\* create_subprocess_exec spawns, and awaits its pipes.
AgentSpawns(j) ==
  /\ AgentRuns(j, "idle")
  /\ Spawn(j)
  /\ Goto(j, "spawned")
  /\ UNCHANGED <<outcome, cancelled, registry, shuttingDown, handler>>

\* FileNotFoundError: claude is not on PATH.
AgentSpawnFails(j) ==
  /\ AgentRuns(j, "idle")
  /\ Return(j, "failed")
  /\ UNCHANGED <<group, cancelled, registry, shuttingDown, handler>>

\* register_pid and the opening of the log, without an await in between.
AgentRegisters(j) ==
  /\ AgentRuns(j, "spawned")
  /\ Register(j)
  /\ Goto(j, "reading")
  /\ UNCHANGED <<group, outcome, cancelled, shuttingDown, handler>>

\* The log cannot be opened, as that of a subtask, whose id names a directory
\* that does not exist: `finally` unregisters, and the exception leaves the
\* agent to itself.
AgentLogFails(j) ==
  /\ AgentRuns(j, "spawned")
  /\ Unregister(j)
  /\ Return(j, "raised")
  /\ UNCHANGED <<group, cancelled, shuttingDown, handler>>

\* So does whatever fails while the output is read: the log, a line that is too long,
\* JSON that is no object.
AgentReadRaises(j) ==
  /\ AgentRuns(j, "reading")
  /\ Unregister(j)
  /\ Return(j, "raised")
  /\ UNCHANGED <<group, cancelled, shuttingDown, handler>>

\* Mutant of AgentResult: the agent's own word for it.
AgentResultRaw(j) == \E result \in {"ok", "error"} : Return(j, result)

AgentResult(j) == \E result \in {"ok", "failed"} : Return(j, result)

\* Mutant of AgentReads: what the agent left running stays.
AgentReadsOnly(j) ==
  /\ AgentRuns(j, "reading")
  /\ EndOfOutput(j)
  /\ Reap(j)
  /\ Unregister(j) /\ AgentResult(j)
  /\ UNCHANGED <<child, shape, cancelled, shuttingDown, handler>>

\* The output and the leader have ended; _reap_orphans sends SIGTERM to a group
\* that still has a member with the run's marker.
AgentReads(j) ==
  /\ AgentRuns(j, "reading")
  /\ EndOfOutput(j)
  /\ Reap(j)
  /\ IF child[j]
       THEN /\ child' = [child EXCEPT ![j] = "child" \in shape[j].ignores]
            /\ Goto(j, "reaping")
            /\ UNCHANGED <<outcome, registry>>
       ELSE /\ UNCHANGED child
            /\ Unregister(j) /\ AgentResult(j)
  /\ UNCHANGED <<shape, cancelled, shuttingDown, handler>>

\* _ORPHAN_GRACE_S later: SIGKILL by group id, the leader is gone.
AgentReaps(j) ==
  /\ AgentRuns(j, "reaping")
  /\ child' = [child EXCEPT ![j] = FALSE]
  /\ Unregister(j) /\ AgentResult(j)
  /\ UNCHANGED <<leader, shape, cancelled, shuttingDown, handler>>

AgentStops(j, step) ==
  /\ LoopFree
  /\ j \in Agent \cap cancelled
  /\ pc[j] = step

\* CancelledError inside create_subprocess_exec: asyncio closes the transport,
\* which kills the leader.
SpawnCancelled(j) ==
  /\ AgentStops(j, "spawned")
  /\ leader' = [leader EXCEPT ![j] = "reaped"]
  /\ Return(j, "cancelled")
  /\ UNCHANGED <<child, shape, cancelled, registry, shuttingDown, handler>>

\* CancelledError in an await of run(): SIGTERM to the group of a leader that
\* is not known to have exited.
AgentTerms(j) ==
  /\ AgentStops(j, "reading") \/ AgentStops(j, "reaping")
  /\ Signallable(j)
  /\ Term(j)
  /\ Goto(j, "grace")
  /\ UNCHANGED <<shape, outcome, cancelled, registry, shuttingDown, handler>>

\* Nothing is signalled once the leader has exited.
AgentLeaves(j) ==
  /\ AgentStops(j, "reading") \/ AgentStops(j, "reaping")
  /\ Exited(j)
  /\ Reap(j)
  /\ Unregister(j) /\ Return(j, "cancelled")
  /\ UNCHANGED <<child, shape, cancelled, shuttingDown, handler>>

\* The leader exits within five seconds or its group gets SIGKILL.
AgentKills(j) ==
  /\ AgentStops(j, "grace")
  /\ IF Exited(j) THEN Reap(j) /\ UNCHANGED child ELSE Kill(j, "reaped")
  /\ Unregister(j) /\ Return(j, "cancelled")
  /\ UNCHANGED <<shape, cancelled, shuttingDown, handler>>

-----------------------------------------------------------------------------
(* The main thread: _request_shutdown, shutdown(), the end of the process *)

\* The first signal cancels the agents; each calls shutdown(), which sets the
\* flag without the lock.
Signal ==
  /\ signals < 2
  /\ main = IF signals = 0 THEN "loop" ELSE "leaving"
  /\ signals' = signals + 1
  /\ main' = "flagged"
  /\ shuttingDown' = TRUE
  /\ cancelled' = IF signals = 0
                    THEN {j \in Agent : pc[j] \notin {"idle", "done"}}
                    ELSE cancelled
  /\ UNCHANGED <<group, pc, outcome, registry, victims, target, killed, swept>>

\* The registry is copied and cleared under the lock.
Snapshot ==
  /\ main = "flagged"
  /\ victims' = registry
  /\ swept' = swept \cup registry
  /\ registry' = {}
  /\ main' = "sweeping"
  /\ UNCHANGED <<group, job, shuttingDown, target, signals, killed>>

\* Popens come before pids.
NextVictim(j) ==
  /\ main = "sweeping"
  /\ j \in victims
  /\ j \in Agent => victims \cap Thread = {}

\* kill_group looks at poll(), a pid at getpgid: a group without a leader is
\* passed over.
SkipVictim(j) ==
  /\ NextVictim(j)
  /\ IF j \in Thread THEN Exited(j) /\ Reap(j)
                      ELSE ~Signallable(j) /\ UNCHANGED leader
  /\ victims' = victims \ {j}
  /\ UNCHANGED <<child, shape, job, registry, shuttingDown, main, target, signals,
                 killed, swept>>

TermVictim(j) ==
  /\ NextVictim(j)
  /\ IF j \in Thread THEN ~Exited(j) ELSE Signallable(j)
  /\ Term(j)
  /\ killed' = IF leader[j] = "alive" THEN killed \cup {j} ELSE killed
  /\ target' = j
  /\ main' = "grace"
  /\ UNCHANGED <<shape, job, registry, shuttingDown, victims, signals, swept>>

\* Mutant of KillVictim: SIGTERM is all a group gets.
KillVictimNever ==
  /\ main = "grace"
  /\ UNCHANGED group
  /\ victims' = victims \ {target}
  /\ target' = NoJob
  /\ main' = "sweeping"
  /\ UNCHANGED <<job, registry, shuttingDown, signals, killed, swept>>

\* After the grace period: SIGKILL unless the Popen's leader has exited, or the
\* pid has no group any more.
KillVictim ==
  /\ main = "grace"
  /\ IF target \in Thread
       THEN IF Exited(target) THEN Reap(target) /\ UNCHANGED child
                              ELSE Kill(target, "reaped")
       ELSE IF Signallable(target) THEN Kill(target, "zombie")
                                   ELSE UNCHANGED <<leader, child>>
  /\ victims' = victims \ {target}
  /\ target' = NoJob
  /\ main' = "sweeping"
  /\ UNCHANGED <<shape, job, registry, shuttingDown, signals, killed, swept>>

\* shutdown() returns; the second time os._exit follows.
SweepEnds ==
  /\ main = "sweeping"
  /\ victims = {}
  /\ main' = IF signals = 2 THEN "exited" ELSE "leaving"
  /\ UNCHANGED <<group, job, registry, shuttingDown, victims, target, signals, killed,
                 swept>>

\* Mutant of RunReturns: the executor's threads are left behind.
RunReturnsAtOnce ==
  /\ LoopFree
  /\ \A j \in Agent : pc[j] \in {"idle", "done"}
  /\ main' = "exited"
  /\ UNCHANGED <<group, job, registry, shuttingDown, victims, target, signals, killed,
                 swept>>

\* asyncio.run() joins the executor's threads on the way out.
RunReturns ==
  /\ LoopFree
  /\ \A j \in Job : pc[j] \in {"idle", "done"}
  /\ main' = "exited"
  /\ UNCHANGED <<group, job, registry, shuttingDown, victims, target, signals, killed,
                 swept>>

-----------------------------------------------------------------------------

ThreadStep(j) ==
  \/ ThreadStarts(j) \/ ThreadSpawns(j) \/ ThreadSpawnFails(j) \/ ThreadRegisters(j)
  \/ ThreadLogFails(j) \/ ThreadReads(j)
  \/ MergeAgentReads(j) \/ MergeAgentWaits(j)
  \/ VerifyTimesOut(j) \/ VerifyTerms(j) \/ VerifyKills(j)
  \/ ThreadUnregisters(j) \/ ThreadReturns(j)

AgentStep(j) ==
  \/ AgentSpawns(j) \/ AgentSpawnFails(j) \/ AgentRegisters(j) \/ AgentLogFails(j)
  \/ AgentReadRaises(j) \/ AgentReads(j) \/ AgentReaps(j)
  \/ SpawnCancelled(j) \/ AgentTerms(j) \/ AgentLeaves(j) \/ AgentKills(j)

HandlerStep ==
  \/ Snapshot \/ KillVictim \/ SweepEnds \/ RunReturns
  \/ \E j \in Job : SkipVictim(j) \/ TermVictim(j)

Next ==
  \/ \E j \in Thread : ThreadStep(j)
  \/ \E j \in Agent : AgentStep(j)
  \/ HandlerStep \/ Signal
  \/ \E j \in Job : LeaderEnds(j) \/ ChildEnds(j) \/ WatcherReaps(j)

Spec == Init /\ [][Next]_vars

\* The operating system runs the threads, the event loop its coroutines, and the
\* handler returns to it.  git and claude end by themselves (an agent's turns
\* are bounded); a verification command or a child need not.
FairSpec ==
  /\ Spec
  /\ WF_vars(HandlerStep)
  /\ \A j \in Thread : WF_vars(pc[j] # "idle" /\ ThreadStep(j))
  /\ \A j \in Agent : WF_vars(pc[j] # "idle" /\ AgentStep(j))
  /\ \A j \in Job \ Verify : WF_vars(LeaderEnds(j))

-----------------------------------------------------------------------------
(* What the registry promises *)

Untracked(j) == leader[j] = "alive" /\ pc[j] # "spawned" /\ j \notin registry \cup swept

\* A running command is in the registry, or shutdown() has taken it from there,
\* except between its spawn and its registration, and except for an agent whose log
\* or output raised an exception and for a merge agent that has closed its output.
RunningIsTracked ==
  \A j \in Job :
    Untracked(j) => outcome[j] = "raised" \/ (j \in MergeAgent /\ pc[j] = "waiting")

\* procs.py:11 "Every spawn registers here so the handler can kill it directly":
\* no command runs on unregistered.
EverySpawnRegisters == \A j \in Job : ~Untracked(j)

\* shutdown(), "Kill every tracked process": of a group it is through with the
\* leader is gone, and so is a child, unless that ignores SIGTERM or had lost its
\* leader before (kill_group and signal_group both ask for the leader).
SweptAreGone ==
  \A j \in swept \ victims :
    /\ leader[j] # "alive"
    /\ child[j] => j \notin killed \/ "child" \in shape[j].ignores

\* A command that the shutdown killed is never taken for one that failed, which
\* would cost its task an attempt (verify.py:101, merge.py:498).  Only a resolver
\* whose log or output fails raises, whatever the flag says.
KilledIsCancelled ==
  \A j \in killed \cap (Verify \cup MergeAgent) :
    pc[j] = "done" => outcome[j] = "cancelled" \/ (j \in MergeAgent /\ outcome[j] = "raised")

\* An agent that ended by itself leaves nothing running in its worktree, which
\* the orchestrator is about to remove (_reap_orphans).
AgentsLeaveNothing ==
  \A j \in Agent : outcome[j] \in {"ok", "failed"} => ~Alive(j)

\* When po is gone no command it started is still at work, but for an agent whose
\* log or output raised an exception and for what the second Ctrl-C leaves: a command that
\* was spawned or registered after the last sweep.
ExitLeavesNoLeader ==
  main = "exited" =>
    \A j \in Job : leader[j] = "alive" =>
      outcome[j] = "raised" \/ (signals = 2 /\ j \notin swept)

\* verify.py:55 "Without a timeout one of those wedges the run permanently ...
\* The command gets its own process group so the timeout kills the whole tree":
\* a verification ends, whether its command does or not.
VerifyEnds ==
  \A j \in Verify : pc[j] # "idle" ~> pc[j] = "done" \/ main = "exited"

\* A shutdown ends: no thread that asyncio.run() joins keeps it waiting for ever.
ShutdownEnds == signals > 0 ~> main = "exited"

=============================================================================
