-------------------------- MODULE OrchestratorProofs --------------------------
(***************************************************************************)
(* Proofs about Orchestrator for any plan, any bounds and any number of    *)
(* runs.                                                                   *)
(***************************************************************************)
EXTENDS Orchestrator, TLAPS

\* The tuples of variables are always expanded.
USE DEF base, table, loop, vars

LEMMA InitTypeOK == Init => TypeOK
<1> SUFFICES ASSUME Init PROVE TypeOK
  OBVIOUS
<1> USE DEF Init, Status, Tree, Agent, Done, Step, Await, Processing, Exit
<1>1. status \in [Task -> Status] /\ agent \in [Task -> Agent]
  OBVIOUS
<1>2. attempt \in [Task -> Nat] /\ faults \in [Task -> Nat] /\ tree \in [Task -> Tree]
  OBVIOUS
<1> QED BY <1>1, <1>2 DEF TypeOK

\* Every action keeps every variable in its type.
THEOREM TypeCorrect == Spec => []TypeOK
<1>1. Init => TypeOK
  BY InitTypeOK
<1>2. TypeOK /\ [Next]_vars => TypeOK'
  <2> SUFFICES ASSUME TypeOK, [Next]_vars PROVE TypeOK'
    OBVIOUS
  <2> USE DEF TypeOK, Status, Tree, Agent, Done, Step, Await, Processing, Exit
  <2>1. CASE UNCHANGED vars
    BY <2>1
  <2>2. CASE Command
    <3>1. CASE StartRun
      BY <3>1 DEF StartRun
    <3>2. CASE ResetAll
      BY <3>2 DEF ResetAll, WithStatus
    <3>3. CASE Clean
      BY <3>3 DEF Clean
    <3>4. ASSUME NEW t \in Task, ResetTask(t) \/ ResetNext(t) PROVE TypeOK'
      BY <3>4 DEF ResetTask, ResetNext, ResetTo
    <3> QED BY <2>2, <3>1, <3>2, <3>3, <3>4 DEF Command
  <2>3. ASSUME NEW t \in Task, AgentStep(t) PROVE TypeOK'
    <3>1. CASE WorktreeMade(t) \/ AgentStarts(t)
      BY <3>1 DEF WorktreeMade, AgentStarts
    <3>2. CASE AgentStartFails(t)
      BY <3>2 DEF AgentStartFails
    <3>3. CASE AgentEnds(t)
      <4>1. PICK r \in {"success", "failure", "split"} : agent' = [agent EXCEPT ![t] = r]
        BY <3>3 DEF AgentEnds
      <4> QED BY <3>3, <4>1 DEF AgentEnds
    <3>4. CASE AgentStops(t)
      BY <3>4 DEF AgentStops
    <3> QED BY <2>3, <3>1, <3>2, <3>3, <3>4 DEF AgentStep
  <2>4. CASE RequestShutdown
    BY <2>4 DEF RequestShutdown
  <2>5. CASE Crash
    BY <2>5, TaskAssumption DEF Crash, Leave
  <2>6. CASE LoopStep
    <3> USE DEF Goto, Leave, Pop, Abandon, Settle, Detached
    <3>1. CASE Top \/ Collected \/ Finished \/ Deadlock \/ WaitReturns \/ Stopped
      BY <3>1 DEF Top, Collected, Finished, Deadlock, WaitReturns, Stopped, Running
    <3>2. CASE Launch
      BY <3>2 DEF Launch
    <3>3. ASSUME NEW t \in Task, PopShuttingDown(t) \/ Drain(t) PROVE TypeOK'
      BY <3>3 DEF PopShuttingDown, Drain
    <3>4. ASSUME NEW t \in Task, PopFailure(t) PROVE TypeOK'
      BY <3>4 DEF PopFailure
    <3>5. ASSUME NEW t \in Task, PopSuccess(t) \/ PopSplit(t) PROVE TypeOK'
      BY <3>5, TaskAssumption DEF PopSuccess, PopSplit
    <3>6. ASSUME NEW t \in Task, AddSubtask(t) \/ SubtaskClash(t) PROVE TypeOK'
      BY <3>6 DEF AddSubtask, SubtaskClash
    <3>7. CASE Interrupted
      BY <3>7 DEF Interrupted
    <3>8. CASE PreverifyPasses \/ MergeLands \/ MergeReverts \/ MergeReturns
      BY <3>8 DEF PreverifyPasses, MergeLands, MergeReverts, MergeReturns
    <3>9. CASE PreverifyFails \/ PreverifyFailed
      BY <3>9 DEF PreverifyFails, PreverifyFailed
    <3>10. CASE MergeFails
      BY <3>10 DEF MergeFails
    <3>11. CASE Finish \/ CancelDependents \/ Decomposed \/ Discarded
      BY <3>11 DEF Finish, CancelDependents, Decomposed, Discarded
    <3> QED
      BY <2>6, <3>1, <3>2, <3>3, <3>4, <3>5, <3>6, <3>7, <3>8, <3>9, <3>10, <3>11
      DEF LoopStep
  <2> QED BY <2>1, <2>2, <2>3, <2>4, <2>5, <2>6 DEF Next
<1> QED BY <1>1, <1>2, PTL DEF Spec

-----------------------------------------------------------------------------
(* What the walks of cancel_dependents and reset_task return *)

LEMMA DependentsIn ==
  ASSUME NEW t, NEW E
  PROVE  Dependents(t, E) \subseteq E
  BY DEF Dependents

\* Nothing that depends on a result, or on t, is forgotten.
LEMMA DependentsClosed ==
  ASSUME NEW t, NEW E, NEW x \in E, Deps[x] \cap (Dependents(t, E) \cup {t}) # {}
  PROVE  x \in Dependents(t, E)
<1>1. ASSUME NEW C \in SUBSET E, Closed(C, t, E) PROVE x \in C
  <2>1. Dependents(t, E) \subseteq C
    BY <1>1 DEF Dependents
  <2> QED BY <1>1, <2>1 DEF Closed
<1> QED BY <1>1 DEF Dependents

\* Every result depends on another one, or on t.
LEMMA DependentsCaused ==
  ASSUME NEW t, NEW E, NEW x \in Dependents(t, E)
  PROVE  Deps[x] \cap (Dependents(t, E) \cup {t}) # {}
<1> SUFFICES ASSUME Deps[x] \cap (Dependents(t, E) \cup {t}) = {} PROVE FALSE
  OBVIOUS
<1> DEFINE C == Dependents(t, E) \ {x}
<1>1. C \in SUBSET E
  BY DependentsIn
<1>2. ASSUME NEW y \in E, Deps[y] \cap (C \cup {t}) # {} PROVE y \in C
  <2>1. y \in Dependents(t, E)
    BY <1>2, DependentsClosed
  <2> QED BY <1>2, <2>1
<1>3. Closed(C, t, E)
  BY <1>2 DEF Closed
<1> QED BY <1>1, <1>3 DEF Dependents

-----------------------------------------------------------------------------
(* The loop's memory and the table, and the dependencies of what was started *)

Core == TypeOK /\ LoopAgrees /\ StartedAfterDeps

LEMMA CoreStep ==
  ASSUME Core, [Next]_vars, TypeOK'
  PROVE  Core'
<1> USE DEF Core, TypeOK, LoopAgrees, StartedAfterDeps, WithStatus, Running
<1>1. CASE UNCHANGED vars
  BY <1>1
<1>2. CASE Command
  <2>1. CASE StartRun
    BY <2>1 DEF StartRun, Processing
  <2>2. ASSUME NEW S \in SUBSET WithStatus({"failed", "cancelled", "running"}),
               pc \in {"idle", "reset"}, pc' \in {"idle", "reset"}, ResetTo(S),
               UNCHANGED <<agent, queue, current, shuttingDown>>
        PROVE  Core'
    <3>1. \A t \in Task : status'[t] = IF t \in S THEN "pending" ELSE status[t]
      BY <2>2 DEF ResetTo
    <3>2. current = NoTask /\ agent = [t \in Task |-> "none"]
      BY <2>2 DEF Processing
    <3>3. WithStatus({"completed"})' = WithStatus({"completed"})
      BY <2>2, <3>1
    <3>4. LoopAgrees'
      BY <2>2, <3>2, TaskAssumption DEF ResetTo
    <3>5. StartedAfterDeps'
      BY <2>2, <3>1, <3>2, <3>3, TaskAssumption DEF ResetTo
    <3> QED BY <3>4, <3>5
  <2>3. CASE ResetAll
    BY <2>3 DEF ResetAll, Processing
  <2>4. CASE Clean
    BY <2>4 DEF Clean
  <2>5. ASSUME NEW t \in Task, ResetTask(t) \/ ResetNext(t) PROVE Core'
    <3>1. ResetBy(t) \in SUBSET WithStatus({"failed", "cancelled", "running"})
      BY DependentsIn DEF ResetBy
    <3> QED BY <2>2, <2>5, <3>1 DEF ResetTask, ResetNext
  <2> QED BY <1>2, <2>1, <2>3, <2>4, <2>5 DEF Command
<1>3. ASSUME NEW t \in Task, AgentStep(t) PROVE Core'
  <2>1. CASE WorktreeMade(t) \/ AgentStarts(t)
    BY <2>1 DEF WorktreeMade, AgentStarts
  <2>2. CASE AgentStartFails(t)
    BY <2>2 DEF AgentStartFails
  <2>3. CASE AgentEnds(t)
    <3>1. PICK r \in {"success", "failure", "split"} : agent' = [agent EXCEPT ![t] = r]
      BY <2>3 DEF AgentEnds
    <3> QED BY <2>3, <3>1 DEF AgentEnds
  <2>4. CASE AgentStops(t)
    BY <2>4 DEF AgentStops
  <2> QED BY <1>3, <2>1, <2>2, <2>3, <2>4 DEF AgentStep
<1>4. CASE RequestShutdown
  BY <1>4 DEF RequestShutdown
<1>5. ASSUME NEW how, Leave(how), UNCHANGED table PROVE Core'
  BY <1>5, TaskAssumption DEF Leave
<1>6. CASE Crash
  BY <1>5, <1>6 DEF Crash
<1>7. CASE LoopStep
  <2> USE DEF Goto
  <2>1. CASE Finished \/ Deadlock \/ Stopped \/ \E t \in Task : SubtaskClash(t)
    BY <1>5, <2>1 DEF Finished, Deadlock, Stopped, SubtaskClash
  <2>2. CASE Top \/ Collected \/ WaitReturns
    BY <2>2 DEF Top, Collected, WaitReturns, Processing, Done
  <2>3. CASE Launch
    <3>1. PICK S \in SUBSET (Filtered \ Running) :
            agent' = [t \in Task |-> IF t \in S THEN "created" ELSE agent[t]]
      BY <2>3 DEF Launch, Batches
    <3>2. S \subseteq Ready
      BY DEF Filtered
    <3> QED BY <2>3, <3>1, <3>2 DEF Launch, Ready, Processing
  <2>4. ASSUME NEW t \in Task, PopShuttingDown(t) PROVE Core'
    BY <2>4 DEF PopShuttingDown, Pop, Abandon, Processing
  <2>5. ASSUME NEW t \in Task, Drain(t) PROVE Core'
    BY <2>5 DEF Drain, Abandon, Processing
  <2>6. ASSUME NEW t \in Task, PopFailure(t) PROVE Core'
    BY <2>6 DEF PopFailure, Pop, Settle, Processing
  <2>7. ASSUME NEW t \in Task, PopSuccess(t) \/ PopSplit(t) PROVE Core'
    BY <2>7, TaskAssumption DEF PopSuccess, PopSplit, Pop, Processing
  <2>8. CASE Interrupted
    BY <2>8, TaskAssumption DEF Interrupted, Abandon, Processing
  <2>9. CASE PreverifyPasses \/ MergeLands \/ MergeReverts \/ MergeReturns
    BY <2>9 DEF PreverifyPasses, MergeLands, MergeReverts, MergeReturns, Processing
  <2>10. CASE PreverifyFails \/ PreverifyFailed \/ MergeFails
    BY <2>10, TaskAssumption DEF PreverifyFails, PreverifyFailed, MergeFails, Settle, Processing
  <2>11. CASE Finish \/ Decomposed \/ Discarded
    BY <2>11, TaskAssumption DEF Finish, Decomposed, Discarded, Processing
  <2>12. CASE CancelDependents
    <3> DEFINE D == Dependents(current, Nonterminal)
    <3>1. current \in Task /\ status[current] = "failed"
      BY <2>12 DEF CancelDependents, Processing
    <3>2. D \subseteq Nonterminal
      BY DependentsIn
    <3>3. ASSUME NEW x \in D PROVE x \notin Running /\ status[x] # "running"
      <4>1. Deps[x] \cap (D \cup {current}) # {}
        BY DependentsCaused
      <4>2. ~(Deps[x] \subseteq WithStatus({"completed"}))
        BY <3>1, <3>2, <4>1 DEF Nonterminal
      <4> QED BY <3>2, <4>2 DEF Nonterminal
    <3>4. \A t \in Task : status'[t] = IF t \in D THEN "cancelled" ELSE status[t]
      BY <2>12 DEF CancelDependents
    <3>5. WithStatus({"completed"})' = WithStatus({"completed"})
      BY <3>2, <3>4 DEF Nonterminal
    <3>6. LoopAgrees'
      BY <2>12, <3>3, <3>4, TaskAssumption DEF CancelDependents, Processing
    <3>7. StartedAfterDeps'
      BY <2>12, <3>3, <3>4, <3>5, TaskAssumption DEF CancelDependents
    <3> QED BY <3>6, <3>7
  <2>13. ASSUME NEW t \in Task, AddSubtask(t) PROVE Core'
    BY <2>13 DEF AddSubtask, Processing
  <2> QED
    BY <1>7, <2>1, <2>2, <2>3, <2>4, <2>5, <2>6, <2>7, <2>8, <2>9, <2>10, <2>11,
       <2>12, <2>13 DEF LoopStep
<1> QED BY <1>1, <1>2, <1>3, <1>4, <1>6, <1>7 DEF Next

THEOREM CoreCorrect == Spec => []Core
<1>1. Init => Core
  <2> SUFFICES ASSUME Init PROVE Core
    OBVIOUS
  <2>1. Running = {}
    BY DEF Init, Running
  <2>2. \A t \in Task : status[t] \in {"pending", "absent"} /\ agent[t] = "none"
    BY DEF Init
  <2>3. StartedAfterDeps
    BY <2>2, TaskAssumption DEF Init, StartedAfterDeps
  <2>4. LoopAgrees
    BY <2>1, TaskAssumption DEF Init, LoopAgrees
  <2> QED BY <2>3, <2>4, InitTypeOK DEF Core
<1>2. Core /\ TypeOK' /\ [Next]_vars => Core'
  BY CoreStep
<1> QED BY <1>1, <1>2, TypeCorrect, PTL DEF Spec

\* No task is started before its dependencies have completed.
THEOREM StartsAfterDependencies == Spec => []StartedAfterDeps
<1>1. Core => StartedAfterDeps
  BY DEF Core
<1> QED BY <1>1, CoreCorrect, PTL

\* The loop's memory and the table agree at every step of every run.
THEOREM MemoryAgreesWithTable == Spec => []LoopAgrees
<1>1. Core => LoopAgrees
  BY DEF Core
<1> QED BY <1>1, CoreCorrect, PTL

-----------------------------------------------------------------------------
(* What a step may do to the status of a task *)

\* A step of a run changes the status of no terminal task; a reset sets failed,
\* cancelled and running tasks to pending; nothing else happens between runs.
LEMMA TerminalStep ==
  ASSUME Core, [Next]_vars, NEW u \in Task, status[u] \in Terminal, status'[u] # status[u]
  PROVE  \E t \in Task : ResetNext(t) \/ ResetTask(t)
<1> USE DEF Core, TypeOK, LoopAgrees, Running, Terminal
<1>1. CASE UNCHANGED vars
  BY <1>1
<1>2. CASE StartRun \/ ResetAll \/ Clean \/ RequestShutdown \/ Crash
  BY <1>2 DEF StartRun, ResetAll, Clean, RequestShutdown, Crash
<1>3. ASSUME NEW t \in Task, AgentStep(t) PROVE FALSE
  BY <1>3 DEF AgentStep, WorktreeMade, AgentStarts, AgentStartFails, AgentEnds, AgentStops
<1>4. CASE LoopStep
  <2>1. CASE Top \/ Collected \/ Finished \/ Launch \/ Deadlock \/ WaitReturns \/ Stopped
    BY <2>1 DEF Top, Collected, Finished, Launch, Deadlock, WaitReturns, Stopped
  <2>2. ASSUME NEW t \in Task, \/ PopShuttingDown(t) \/ PopFailure(t) \/ PopSuccess(t)
                               \/ PopSplit(t) \/ Drain(t)
        PROVE  FALSE
    BY <2>2 DEF PopShuttingDown, PopFailure, PopSuccess, PopSplit, Drain, Pop, Settle, Abandon
  <2>3. ASSUME NEW t \in Task, AddSubtask(t) \/ SubtaskClash(t) PROVE FALSE
    BY <2>3 DEF AddSubtask, SubtaskClash
  <2>4. CASE PreverifyPasses \/ MergeLands \/ MergeReverts \/ MergeReturns
    BY <2>4 DEF PreverifyPasses, MergeLands, MergeReverts, MergeReturns
  <2>5. CASE Interrupted \/ Finish \/ Decomposed \/ Discarded
    BY <2>5 DEF Interrupted, Abandon, Finish, Decomposed, Discarded, Processing
  <2>6. CASE PreverifyFails \/ PreverifyFailed \/ MergeFails
    BY <2>6 DEF PreverifyFails, PreverifyFailed, MergeFails, Settle, Processing
  <2>7. CASE CancelDependents
    BY <2>7, DependentsIn DEF CancelDependents, Nonterminal, WithStatus
  <2> QED BY <1>4, <2>1, <2>2, <2>3, <2>4, <2>5, <2>6, <2>7 DEF LoopStep
<1> QED BY <1>1, <1>2, <1>3, <1>4 DEF Next, Command

\* During a run no outcome changes; between runs only failed and cancelled do.
THEOREM OutcomesStayFinal == Spec => OutcomesAreFinal
<1> DEFINE Final == \A t \in WithStatus(Terminal) :
      status'[t] # status[t] =>
        pc \in {"idle", "reset"} /\ status[t] \in {"failed", "cancelled"}
<1>1. Core /\ [Next]_vars => [Final]_vars
  <2> SUFFICES ASSUME Core, [Next]_vars, NEW t \in Task, status[t] \in Terminal,
                      status'[t] # status[t]
               PROVE  pc \in {"idle", "reset"} /\ status[t] \in {"failed", "cancelled"}
    BY DEF WithStatus
  <2>1. PICK u \in Task : ResetNext(u) \/ ResetTask(u)
    BY TerminalStep
  <2>2. ResetBy(u) \subseteq WithStatus({"failed", "cancelled", "running"})
    BY DependentsIn DEF ResetBy, WithStatus
  <2> QED BY <2>1, <2>2 DEF ResetNext, ResetTask, ResetTo, WithStatus, Terminal
<1> QED BY <1>1, CoreCorrect, PTL DEF Spec, OutcomesAreFinal

-----------------------------------------------------------------------------
(* The cause of a cancellation *)

LEMMA CauseStep ==
  ASSUME Core, CancelledForCause, [Next]_vars
  PROVE  CancelledForCause'
<1> USE DEF CancelledForCause, WithStatus
<1>1. ASSUME NEW S, ResetTo(S),
             \A x \in Task \ S : status[x] = "cancelled" => Deps[x] \cap S = {}
      PROVE  CancelledForCause'
  <2>1. \A x \in Task : status'[x] = IF x \in S THEN "pending" ELSE status[x]
    BY <1>1 DEF ResetTo
  <2> QED BY <1>1, <2>1
<1>3. ASSUME NEW t \in Task, ResetNext(t) \/ ResetTask(t) PROVE CancelledForCause'
  <2> DEFINE E == WithStatus({"cancelled"}) \ {t}
             S == ResetBy(t)
  <2>1. ASSUME NEW x \in Task \ S, status[x] = "cancelled" PROVE Deps[x] \cap S = {}
    <3>1. S \subseteq Dependents(t, E) \cup {t}
      BY DEF ResetBy
    <3>2. x \notin Dependents(t, E) /\ x \in E
      BY <2>1 DEF ResetBy
    <3>3. Deps[x] \cap (Dependents(t, E) \cup {t}) = {}
      BY <3>2, DependentsClosed
    <3> QED BY <3>1, <3>3
  <2>2. ResetTo(S)
    BY <1>3 DEF ResetNext, ResetTask
  <2> HIDE DEF S
  <2> QED BY <1>1, <2>1, <2>2
<1>4. CASE CancelDependents
  <2> DEFINE D == Dependents(current, Nonterminal)
  <2>1. current \in Task /\ status[current] = "failed"
    BY <1>4 DEF CancelDependents, Processing, Core, TypeOK, LoopAgrees
  <2>2. D \subseteq Nonterminal
    BY DependentsIn
  <2>3. \A x \in Task : status'[x] = IF x \in D THEN "cancelled" ELSE status[x]
    BY <1>4 DEF CancelDependents
  <2>4. ASSUME NEW x \in D PROVE Deps[x] \cap (D \cup {current}) # {}
    BY DependentsCaused
  <2> HIDE DEF D
  <2>5. WithStatus({"failed", "cancelled"})' = WithStatus({"failed", "cancelled"}) \cup D
    BY <2>2, <2>3 DEF Nonterminal
  <2>6. WithStatus({"cancelled"})' = WithStatus({"cancelled"}) \cup D
    BY <2>2, <2>3 DEF Nonterminal
  <2> QED BY <2>1, <2>4, <2>5, <2>6
<1>5. CASE ~(\E t \in Task : ResetNext(t) \/ ResetTask(t)) /\ ~CancelDependents
  <2>1. \A x \in Task : status[x] \in {"failed", "cancelled"} => status'[x] = status[x]
    BY <1>5, TerminalStep DEF Terminal
  <2>2. ASSUME NEW x \in Task, status'[x] = "cancelled" PROVE status[x] = "cancelled"
    <3> USE DEF Core, TypeOK
    <3>1. CASE UNCHANGED vars
      BY <2>2, <3>1
    <3>2. CASE StartRun \/ ResetAll \/ Clean \/ RequestShutdown \/ Crash
      BY <2>2, <3>2 DEF StartRun, ResetAll, Clean, RequestShutdown, Crash
    <3>3. ASSUME NEW t \in Task, AgentStep(t) PROVE status[x] = "cancelled"
      BY <2>2, <3>3 DEF AgentStep, WorktreeMade, AgentStarts, AgentStartFails, AgentEnds, AgentStops
    <3>4. CASE LoopStep
      <4>1. CASE Top \/ Collected \/ Finished \/ Launch \/ Deadlock \/ WaitReturns \/ Stopped
        BY <2>2, <4>1 DEF Top, Collected, Finished, Launch, Deadlock, WaitReturns, Stopped
      <4>2. ASSUME NEW t \in Task, \/ PopShuttingDown(t) \/ PopFailure(t) \/ PopSuccess(t)
                                   \/ PopSplit(t) \/ Drain(t)
            PROVE  status[x] = "cancelled"
        BY <2>2, <4>2 DEF PopShuttingDown, PopFailure, PopSuccess, PopSplit, Drain, Settle, Abandon
      <4>3. ASSUME NEW t \in Task, AddSubtask(t) \/ SubtaskClash(t) PROVE status[x] = "cancelled"
        BY <2>2, <4>3 DEF AddSubtask, SubtaskClash
      <4>4. CASE \/ Interrupted \/ PreverifyPasses \/ PreverifyFails \/ PreverifyFailed \/ MergeLands
                 \/ MergeReverts \/ MergeFails
        BY <2>2, <4>4 DEF Interrupted, PreverifyPasses, PreverifyFails, PreverifyFailed, MergeLands,
           MergeReverts, MergeFails, Settle, Abandon
      <4>5. CASE MergeReturns \/ Finish \/ Decomposed \/ Discarded
        BY <2>2, <4>5 DEF MergeReturns, Finish, Decomposed, Discarded
      <4> QED BY <1>5, <3>4, <4>1, <4>2, <4>3, <4>4, <4>5 DEF LoopStep
    <3> QED BY <1>5, <3>1, <3>2, <3>3, <3>4 DEF Next, Command
  <2> QED BY <2>1, <2>2
<1> QED BY <1>3, <1>4, <1>5

\* Whatever was reset in between, a cancelled task has a reason to be cancelled.
THEOREM CancellationsHaveCauses == Spec => []CancelledForCause
<1>1. Init => CancelledForCause
  BY DEF Init, CancelledForCause, WithStatus
<1>2. Core /\ CancelledForCause /\ [Next]_vars => CancelledForCause'
  BY CauseStep
<1> QED BY <1>1, <1>2, CoreCorrect, PTL DEF Spec

-----------------------------------------------------------------------------
(* Completed work has landed *)

LEMMA LandedStep ==
  ASSUME Core, CompletedHasLanded, [Next]_vars
  PROVE  CompletedHasLanded'
<1> USE DEF Core, TypeOK, CompletedHasLanded, WithStatus
<1>1. CASE UNCHANGED vars
  BY <1>1
<1>2. CASE Command
  <2>1. CASE StartRun \/ ResetAll \/ Clean
    BY <2>1 DEF StartRun, ResetAll, Clean
  <2>2. CASE \E t \in Task : ResetNext(t) \/ ResetTask(t)
    BY <2>2 DEF ResetNext, ResetTask, ResetTo
  <2> QED BY <1>2, <2>1, <2>2 DEF Command
<1>3. ASSUME NEW t \in Task, AgentStep(t) PROVE CompletedHasLanded'
  BY <1>3 DEF AgentStep, WorktreeMade, AgentStarts, AgentStartFails, AgentEnds, AgentStops
<1>4. CASE RequestShutdown \/ Crash
  BY <1>4 DEF RequestShutdown, Crash, Leave
<1>5. CASE LoopStep
  <2> USE DEF Goto
  <2>1. CASE Top \/ Collected \/ Launch \/ WaitReturns
    BY <2>1 DEF Top, Collected, Launch, WaitReturns
  <2>2. CASE Finished \/ Deadlock \/ Stopped \/ \E t \in Task : SubtaskClash(t)
    BY <2>2 DEF Finished, Deadlock, Stopped, SubtaskClash, Leave
  <2>3. ASSUME NEW t \in Task, \/ PopShuttingDown(t) \/ PopFailure(t) \/ PopSuccess(t)
                               \/ PopSplit(t) \/ Drain(t)
        PROVE  CompletedHasLanded'
    BY <2>3 DEF PopShuttingDown, PopFailure, PopSuccess, PopSplit, Drain, Settle, Abandon
  <2>4. ASSUME NEW t \in Task, AddSubtask(t)
        PROVE  CompletedHasLanded'
    BY <2>4 DEF AddSubtask
  <2>5. CASE Interrupted \/ PreverifyPasses \/ PreverifyFails \/ PreverifyFailed \/ MergeFails
    BY <2>5 DEF Interrupted, PreverifyPasses, PreverifyFails, PreverifyFailed, MergeFails, Settle, Abandon
  <2>6. CASE MergeLands \/ MergeReverts \/ MergeReturns
    BY <2>6 DEF MergeLands, MergeReverts, MergeReturns
  <2>7. CASE Finish
    BY <2>7, TaskAssumption DEF Finish, Processing
  <2>8. CASE CancelDependents \/ Decomposed \/ Discarded
    BY <2>8 DEF CancelDependents, Decomposed, Discarded
  <2> QED BY <1>5, <2>1, <2>2, <2>3, <2>4, <2>5, <2>6, <2>7, <2>8 DEF LoopStep
<1> QED BY <1>1, <1>2, <1>3, <1>4, <1>5 DEF Next

LEMMA LandedInvariant == Spec => [](Core /\ CompletedHasLanded)
<1>1. Init => CompletedHasLanded
  BY DEF Init, CompletedHasLanded, WithStatus
<1>2. Core /\ CompletedHasLanded /\ [Next]_vars => CompletedHasLanded'
  BY LandedStep
<1> QED BY <1>1, <1>2, CoreCorrect, PTL DEF Spec

\* A task works on a base branch that holds the work of all its dependencies, but for
\* what the reset after a failed verification took off again (MergeReverts).
THEOREM WorksOnLandedBase == Spec => []StartsOnLandedWork
<1>1. Core /\ CompletedHasLanded => StartsOnLandedWork
  BY DEF Core, StartedAfterDeps, CompletedHasLanded, StartsOnLandedWork
<1> QED BY <1>1, LandedInvariant, PTL

\* Where no task has a verification command the base holds all of it.
THEOREM BaseOnlyGrows ==
  Verified = {} => (Spec => [](\A t \in Task : status[t] \in {"running", "completed"}
                                                => Deps[t] \subseteq landed))
<1> SUFFICES ASSUME Verified = {}
             PROVE  Spec => [](\A t \in Task : status[t] \in {"running", "completed"}
                                                 => Deps[t] \subseteq landed)
  OBVIOUS
<1>1. Core /\ CompletedHasLanded => \A t \in Task : status[t] \in {"running", "completed"}
                                                    => Deps[t] \subseteq landed
  BY DEF Core, StartedAfterDeps, CompletedHasLanded
<1> QED BY <1>1, LandedInvariant, PTL

\* A run deletes no branch whose work is neither on the base nor in subtasks.
THEOREM NoWorkIsLost == Spec => WorkIsKept
<1> DEFINE Kept == \A t \in Task :
      pc # "idle" /\ tree[t] # "none" /\ tree'[t] = "none"
        => t \in landed \/ status'[t] = "decomposed"
<1>1. Core /\ CompletedHasLanded /\ [Next]_vars => [Kept]_vars
  <2> SUFFICES ASSUME Core, CompletedHasLanded, [Next]_vars, NEW u \in Task,
                      pc # "idle", tree[u] # "none", tree'[u] = "none"
               PROVE  u \in landed \/ status'[u] = "decomposed"
    OBVIOUS
  <2> USE DEF Core, TypeOK
  <2>1. CASE UNCHANGED vars
    BY <2>1
  <2>2. CASE Command
    BY <2>2 DEF Command, StartRun, ResetAll, ResetNext, ResetTask, ResetTo, Clean
  <2>3. ASSUME NEW t \in Task, AgentStep(t) PROVE FALSE
    BY <2>3 DEF AgentStep, WorktreeMade, AgentStarts, AgentStartFails, AgentEnds, AgentStops
  <2>4. CASE RequestShutdown \/ Crash
    BY <2>4 DEF RequestShutdown, Crash
  <2>5. CASE LoopStep
    <3>1. CASE Top \/ Collected \/ Finished \/ Launch \/ Deadlock \/ WaitReturns \/ Stopped
      BY <3>1 DEF Top, Collected, Finished, Launch, Deadlock, WaitReturns, Stopped
    <3>2. ASSUME NEW t \in Task, \/ PopShuttingDown(t) \/ PopFailure(t) \/ PopSuccess(t)
                                 \/ PopSplit(t) \/ Drain(t)
          PROVE  FALSE
      BY <3>2 DEF PopShuttingDown, PopFailure, PopSuccess, PopSplit, Drain, Detached
    <3>3. ASSUME NEW t \in Task, AddSubtask(t) \/ SubtaskClash(t) PROVE FALSE
      BY <3>3 DEF AddSubtask, SubtaskClash
    <3>4. CASE \/ Interrupted \/ PreverifyPasses \/ PreverifyFails \/ PreverifyFailed \/ MergeLands
               \/ MergeReverts \/ MergeFails \/ Finish \/ CancelDependents \/ Decomposed
      BY <3>4 DEF Decomposed, Interrupted, PreverifyPasses, PreverifyFails, PreverifyFailed, MergeLands,
         MergeReverts, MergeFails,
         Finish, CancelDependents, Detached
    <3>5. CASE MergeReturns
      BY <3>5 DEF MergeReturns, CompletedHasLanded
    <3>6. CASE Discarded
      BY <3>6 DEF Discarded, LoopAgrees, Processing
    <3> QED BY <2>5, <3>1, <3>2, <3>3, <3>4, <3>5, <3>6 DEF LoopStep
  <2> QED BY <2>1, <2>2, <2>3, <2>4, <2>5 DEF Next
<1> QED BY <1>1, LandedInvariant, PTL DEF Spec, WorkIsKept

-----------------------------------------------------------------------------
(* Retries *)

Budget == FaultsWereAttempts /\ BudgetKept

LEMMA BudgetStep ==
  ASSUME Core, Budget, [Next]_vars, TypeOK'
  PROVE  Budget'
<1> USE DEF Core, TypeOK, LoopAgrees, Running, Budget, FaultsWereAttempts, BudgetKept
<1> USE BoundAssumption
<1>1. CASE UNCHANGED vars
  BY <1>1
<1>2. CASE Command
  <2>1. CASE StartRun \/ ResetAll \/ Clean
    BY <2>1 DEF StartRun, ResetAll, Clean
  <2>2. ASSUME NEW S, ResetTo(S) PROVE Budget'
    <3>1. \A t \in Task : /\ status'[t] = IF t \in S THEN "pending" ELSE status[t]
                          /\ faults'[t] = IF t \in S THEN 0 ELSE faults[t]
                          /\ attempt'[t] = attempt[t]
      BY <2>2 DEF ResetTo
    <3> QED BY <3>1
  <2>3. CASE \E t \in Task : ResetNext(t) \/ ResetTask(t)
    BY <2>2, <2>3 DEF ResetNext, ResetTask
  <2> QED BY <1>2, <2>1, <2>3 DEF Command
<1>3. ASSUME NEW t \in Task, AgentStep(t) PROVE Budget'
  <2>1. CASE WorktreeMade(t) \/ AgentStarts(t)
    BY <2>1 DEF WorktreeMade, AgentStarts
  <2>2. CASE AgentStartFails(t) \/ AgentEnds(t) \/ AgentStops(t)
    BY <2>2 DEF AgentStartFails, AgentEnds, AgentStops
  <2> QED BY <1>3, <2>1, <2>2 DEF AgentStep
<1>4. CASE RequestShutdown \/ Crash
  BY <1>4 DEF RequestShutdown, Crash
<1>5. ASSUME NEW t \in Task, NEW n \in Nat, Settle(t, n), faults[t] < n, n >= attempt[t],
             status[t] \in {"pending", "running"}
      PROVE  Budget'
  <2>1. faults[t] + 1 <= n /\ faults[t] <= MaxRetries
    BY <1>5
  <2>2. faults' = [faults EXCEPT ![t] = faults[t] + 1] /\ attempt' = [attempt EXCEPT ![t] = n]
    BY <1>5 DEF Settle
  <2>3. CASE RetryAllowed(n)
    <3>1. status' = [status EXCEPT ![t] = "pending"] /\ n <= MaxRetries
      BY <1>5, <2>3 DEF Settle, RetryAllowed
    <3> QED BY <2>1, <2>2, <3>1
  <2>4. CASE ~RetryAllowed(n)
    <3>1. status' = [status EXCEPT ![t] = "failed"]
      BY <1>5, <2>4 DEF Settle
    <3> QED BY <2>1, <2>2, <3>1
  <2> QED BY <2>3, <2>4
<1>6. CASE LoopStep
  <2>1. CASE Top \/ Collected \/ Finished \/ Launch \/ Deadlock \/ WaitReturns \/ Stopped
    BY <2>1 DEF Top, Collected, Finished, Launch, Deadlock, WaitReturns, Stopped
  <2>2. ASSUME NEW t \in Task, \/ PopShuttingDown(t) \/ PopSuccess(t)
                               \/ PopSplit(t) \/ Drain(t)
        PROVE  Budget'
    BY <2>2 DEF PopShuttingDown, PopSuccess, PopSplit, Drain, Pop, Abandon
  <2>3. ASSUME NEW t \in Task, PopFailure(t) PROVE Budget'
    <3> DEFINE n == IF status[t] = "pending" THEN attempt[t] + 1 ELSE attempt[t]
    <3>1. status[t] \in {"pending", "running"}
      BY <2>3 DEF PopFailure, Pop
    <3>2. n \in Nat /\ faults[t] < n /\ n >= attempt[t]
      BY <3>1
    <3>3. Settle(t, n)
      BY <2>3 DEF PopFailure
    <3> HIDE DEF n
    <3> QED BY <1>5, <3>1, <3>2, <3>3
  <2>4. ASSUME NEW t \in Task, AddSubtask(t) \/ SubtaskClash(t) PROVE Budget'
    BY <2>4 DEF AddSubtask, SubtaskClash
  <2>5. CASE PreverifyFails \/ PreverifyFailed \/ MergeFails
    <3>1. current \in Task /\ status[current] = "running"
      BY <2>5 DEF PreverifyFails, PreverifyFailed, MergeFails, Processing
    <3>2. Settle(current, attempt[current]) \/ UNCHANGED <<status, attempt, faults>>
      BY <2>5 DEF PreverifyFails, PreverifyFailed, MergeFails
    <3>3. CASE UNCHANGED <<status, attempt, faults>>
      BY <3>3
    <3> QED BY <1>5, <3>1, <3>2, <3>3
  <2>6. CASE PreverifyPasses \/ MergeLands \/ MergeReverts \/ MergeReturns
    BY <2>6 DEF PreverifyPasses, MergeLands, MergeReverts, MergeReturns
  <2>7. CASE Interrupted \/ Finish \/ Decomposed \/ Discarded
    BY <2>7 DEF Interrupted, Abandon, Finish, Decomposed, Discarded, Processing
  <2>8. CASE CancelDependents
    BY <2>8, DependentsIn DEF CancelDependents, Nonterminal, WithStatus
  <2> QED BY <1>6, <2>1, <2>2, <2>3, <2>4, <2>5, <2>6, <2>7, <2>8 DEF LoopStep
<1> QED BY <1>1, <1>2, <1>3, <1>4, <1>6 DEF Next

LEMMA BudgetInvariant == Spec => []Budget
<1>1. Init => Budget
  BY BoundAssumption DEF Init, Budget, FaultsWereAttempts, BudgetKept
<1>2. Core /\ Budget /\ [Next]_vars /\ TypeOK' => Budget'
  BY BudgetStep
<1> QED BY <1>1, <1>2, TypeCorrect, CoreCorrect, PTL DEF Spec

\* A task whose retries are used up is failed until it is reset.
THEOREM RetriesAreBounded == Spec => []BudgetKept
<1>1. Budget => BudgetKept
  BY DEF Budget
<1> QED BY <1>1, BudgetInvariant, PTL

\* The invariant the run checks as a whole is inductive, and so holds.
THEOREM Invariant == Spec => []IInv
<1>1. Core /\ CompletedHasLanded /\ CancelledForCause /\ Budget => IInv
  BY DEF Core, Budget, IInv
<1> QED BY <1>1, LandedInvariant, CancellationsHaveCauses, BudgetInvariant, PTL

-----------------------------------------------------------------------------
(* Output files *)

LEMMA ApartStep ==
  ASSUME Core, InFlightApart, [Next]_vars
  PROVE  InFlightApart'
<1> DEFINE InFlight == Running \cup ({current} \ {NoTask})
<1> USE DEF InFlightApart, Overlap
<1>1. CASE InFlight' \subseteq InFlight
  BY <1>1
<1>2. CASE Launch
  <2>1. PICK S \in Batches :
          agent' = [t \in Task |-> IF t \in S THEN "created" ELSE agent[t]]
    BY <1>2 DEF Launch
  <2>2. current = NoTask /\ current' = NoTask
    BY <1>2 DEF Launch, Core, TypeOK, Processing
  <2>3. InFlight = Running /\ InFlight' = Running \cup S
    BY <2>1, <2>2 DEF Running, Batches, Filtered, Ready, WithStatus
  <2>4. ASSUME NEW s \in S, NEW t \in Running PROVE Files[s] \cap Files[t] = {}
    BY <2>4 DEF Batches, Filtered
  <2>5. ASSUME NEW s \in S, NEW t \in S, s # t PROVE Files[s] \cap Files[t] = {}
    BY <2>5 DEF Batches
  <2> QED BY <2>3, <2>4, <2>5
<1>3. CASE ~Launch
  <2> USE DEF Running, Core, TypeOK, LoopAgrees
  <2>1. CASE UNCHANGED vars
    BY <1>1, <2>1
  <2>2. CASE Command
    BY <1>1, <2>2 DEF Command, StartRun, ResetAll, ResetNext, ResetTask, ResetTo, Clean
  <2>3. ASSUME NEW t \in Task, AgentStep(t) PROVE InFlightApart'
    <3>1. InFlight' \subseteq InFlight
      BY <2>3 DEF AgentStep, WorktreeMade, AgentStarts, AgentStartFails, AgentEnds, AgentStops
    <3> QED BY <1>1, <3>1
  <2>4. CASE RequestShutdown
    BY <1>1, <2>4 DEF RequestShutdown
  <2>5. CASE \/ Crash \/ Finished \/ Deadlock \/ Stopped
             \/ \E t \in Task : SubtaskClash(t)
    BY <1>1, <2>5 DEF Crash, Finished, Deadlock, Stopped, SubtaskClash, Leave
  <2>6. CASE LoopStep
    <3>1. CASE Top \/ Collected \/ WaitReturns
      BY <1>1, <3>1 DEF Top, Collected, WaitReturns
    <3>2. ASSUME NEW t \in Task, PopShuttingDown(t) \/ Drain(t) PROVE InFlightApart'
      <4>1. InFlight' \subseteq InFlight
        BY <3>2 DEF PopShuttingDown, Drain, Pop
      <4> QED BY <1>1, <4>1
    <3>3. ASSUME NEW t \in Task, PopFailure(t) \/ PopSuccess(t) \/ PopSplit(t)
          PROVE  InFlightApart'
      <4>1. InFlight' \subseteq InFlight
        BY <3>3 DEF PopFailure, PopSuccess, PopSplit, Pop, Settle
      <4> QED BY <1>1, <4>1
    <3>4. CASE \/ Interrupted \/ PreverifyPasses \/ PreverifyFails \/ PreverifyFailed \/ MergeLands
               \/ MergeReverts \/ MergeFails
      BY <1>1, <3>4 DEF Interrupted, PreverifyPasses, PreverifyFails, PreverifyFailed, MergeLands,
         MergeReverts, MergeFails, Settle
    <3>5. CASE MergeReturns \/ Finish \/ CancelDependents \/ Decomposed \/ Discarded
      BY <1>1, <3>5 DEF MergeReturns, Finish, CancelDependents, Decomposed, Discarded
    <3>6. ASSUME NEW t \in Task, AddSubtask(t) PROVE InFlightApart'
      BY <1>1, <3>6 DEF AddSubtask
    <3> QED BY <1>3, <2>5, <2>6, <3>1, <3>2, <3>3, <3>4, <3>5, <3>6 DEF LoopStep
  <2> QED BY <2>1, <2>2, <2>3, <2>4, <2>5, <2>6 DEF Next
<1> QED BY <1>2, <1>3

\* Tasks that write the same file are never in flight together.
THEOREM SharedFilesAreSerialized == Spec => []InFlightApart
<1>1. Init => InFlightApart
  BY DEF Init, InFlightApart, Running
<1>2. Core /\ InFlightApart /\ [Next]_vars => InFlightApart'
  BY ApartStep
<1> QED BY <1>1, <1>2, CoreCorrect, PTL DEF Spec

-----------------------------------------------------------------------------
(* When the loop gives up *)

\* A task in hand that is still pending has not had its first step, or had none but a
\* failure: it is seen at the next look at the results, before anything is launched.
HandFits ==
  \A t \in Task : agent[t] # "none" /\ status[t] = "pending" =>
    /\ agent[t] \in {"created", "prepared", "failure", "cancelled"}
    /\ agent[t] \in {"created", "prepared"} => pc = "wait"
    /\ pc \in {"wait", "top", "drain"} \/ t \in queue

LEMMA HandStep ==
  ASSUME Core, HandFits, [Next]_vars, TypeOK'
  PROVE  HandFits'
<1> USE DEF Core, TypeOK, LoopAgrees, Running, HandFits
<1>1. CASE UNCHANGED vars
  BY <1>1
<1>2. CASE Command
  <2>1. CASE StartRun \/ ResetAll \/ Clean
    BY <2>1 DEF StartRun, ResetAll, Clean
  <2>2. CASE \E t \in Task : ResetNext(t) \/ ResetTask(t)
    BY <2>2 DEF ResetNext, ResetTask, ResetTo
  <2> QED BY <1>2, <2>1, <2>2 DEF Command
<1>3. ASSUME NEW t \in Task, AgentStep(t) PROVE HandFits'
  <2>1. CASE WorktreeMade(t) \/ AgentStarts(t)
    BY <2>1 DEF WorktreeMade, AgentStarts
  <2>2. CASE AgentStartFails(t)
    BY <2>2 DEF AgentStartFails
  <2>3. CASE AgentEnds(t)
    BY <2>3 DEF AgentEnds
  <2>4. CASE AgentStops(t)
    BY <2>4 DEF AgentStops
  <2> QED BY <1>3, <2>1, <2>2, <2>3, <2>4 DEF AgentStep
<1>4. CASE RequestShutdown
  <2>1. \A t \in Task : agent'[t] = CASE agent[t] = "created" -> "cancelled"
                                      [] agent[t] = "working" -> "cancelling"
                                      [] OTHER -> agent[t]
    BY <1>4 DEF RequestShutdown
  <2>2. UNCHANGED <<status, pc, queue>>
    BY <1>4 DEF RequestShutdown
  <2> QED BY <2>1, <2>2
<1>5. CASE \/ Crash \/ Finished \/ Deadlock \/ Stopped \/ \E t \in Task : SubtaskClash(t)
  BY <1>5 DEF Crash, Finished, Deadlock, Stopped, SubtaskClash, Leave
<1>6. CASE LoopStep
  <2> USE DEF Goto
  <2>1. CASE Top
    BY <2>1 DEF Top, Done
  <2>2. CASE Collected \/ WaitReturns
    BY <2>2 DEF Collected, WaitReturns
  <2>3. CASE Launch
    <3>1. PICK S \in Batches :
            agent' = [t \in Task |-> IF t \in S THEN "created" ELSE agent[t]]
      BY <2>3 DEF Launch
    <3>2. queue = {}
      BY <2>3 DEF Launch, Processing
    <3> QED BY <2>3, <3>1, <3>2 DEF Launch
  <2>4. ASSUME NEW t \in Task, PopShuttingDown(t) \/ Drain(t) PROVE HandFits'
    BY <2>4 DEF PopShuttingDown, Drain, Pop, Abandon
  <2>5. ASSUME NEW t \in Task, PopFailure(t) PROVE HandFits'
    BY <2>5 DEF PopFailure, Pop, Settle
  <2>6. ASSUME NEW t \in Task, PopSuccess(t) \/ PopSplit(t) PROVE HandFits'
    BY <2>6 DEF PopSuccess, PopSplit, Pop
  <2>7. CASE Interrupted
    BY <2>7 DEF Interrupted, Abandon, Processing
  <2>8. CASE PreverifyPasses \/ MergeLands \/ MergeReverts \/ MergeReturns
    BY <2>8 DEF PreverifyPasses, MergeLands, MergeReverts, MergeReturns
  <2>9. CASE PreverifyFails \/ PreverifyFailed \/ MergeFails
    BY <2>9 DEF PreverifyFails, PreverifyFailed, MergeFails, Settle, Processing
  <2>10. CASE Finish \/ Decomposed \/ Discarded
    BY <2>10 DEF Finish, Decomposed, Discarded, Processing
  <2>11. CASE CancelDependents
    BY <2>11 DEF CancelDependents
  <2>12. ASSUME NEW t \in Task, AddSubtask(t) PROVE HandFits'
    BY <2>12 DEF AddSubtask
  <2> QED
    BY <1>5, <1>6, <2>1, <2>2, <2>3, <2>4, <2>5, <2>6, <2>7, <2>8, <2>9, <2>10, <2>11,
       <2>12 DEF LoopStep
<1> QED BY <1>1, <1>2, <1>3, <1>4, <1>5, <1>6 DEF Next

\* The tasks of the plan stay in the table.
PlanIsThere == \A t \in SpecTask : status[t] # "absent"

LEMMA PlanStep == TypeOK /\ PlanIsThere /\ [Next]_vars => PlanIsThere'
<1> SUFFICES ASSUME TypeOK, PlanIsThere, [Next]_vars, NEW u \in Task, status[u] # "absent"
             PROVE  status'[u] # "absent"
  BY DEF PlanIsThere, SpecTask
<1> USE DEF TypeOK
<1>1. CASE Command
  BY <1>1 DEF Command, StartRun, Clean, ResetAll, ResetNext, ResetTask, ResetTo
<1>2. ASSUME NEW t \in Task, AgentStep(t) PROVE status'[u] # "absent"
  BY <1>2 DEF AgentStep, WorktreeMade, AgentStarts, AgentStartFails, AgentEnds, AgentStops
<1>3. CASE RequestShutdown \/ Crash \/ UNCHANGED vars
  BY <1>3 DEF RequestShutdown, Crash
<1>4. CASE LoopStep
  <2>1. CASE Top \/ Collected \/ Finished \/ Launch \/ Deadlock \/ WaitReturns \/ Stopped
    BY <2>1 DEF Top, Collected, Finished, Launch, Deadlock, WaitReturns, Stopped
  <2>2. ASSUME NEW t \in Task, \/ PopShuttingDown(t) \/ PopFailure(t) \/ PopSuccess(t)
                               \/ PopSplit(t) \/ Drain(t)
        PROVE  status'[u] # "absent"
    BY <2>2 DEF PopShuttingDown, PopFailure, PopSuccess, PopSplit, Drain, Settle, Abandon
  <2>3. ASSUME NEW t \in Task, AddSubtask(t) \/ SubtaskClash(t) PROVE status'[u] # "absent"
    BY <2>3 DEF AddSubtask, SubtaskClash
  <2>4. CASE \/ Interrupted \/ PreverifyPasses \/ PreverifyFails \/ PreverifyFailed \/ MergeLands
             \/ MergeReverts \/ MergeFails
    BY <2>4 DEF Interrupted, PreverifyPasses, PreverifyFails, PreverifyFailed, MergeLands,
       MergeReverts, MergeFails,
       Settle, Abandon
  <2>5. CASE MergeReturns \/ Finish \/ CancelDependents \/ Decomposed \/ Discarded
    BY <2>5 DEF MergeReturns, Finish, CancelDependents, Decomposed, Discarded
  <2> QED BY <1>4, <2>1, <2>2, <2>3, <2>4, <2>5 DEF LoopStep
<1> QED BY <1>1, <1>2, <1>3, <1>4 DEF Next

LEMMA HandInvariant == Spec => [](Core /\ HandFits /\ PlanIsThere)
<1>1. Init => HandFits /\ PlanIsThere
  BY DEF Init, HandFits, PlanIsThere, SpecTask
<1>2. Core /\ HandFits /\ PlanIsThere /\ [Next]_vars /\ TypeOK' => HandFits' /\ PlanIsThere'
  BY HandStep, PlanStep DEF Core
<1> QED BY <1>1, <1>2, TypeCorrect, CoreCorrect, PTL DEF Spec

\* The loop gives up only when some task waits for one that failed, was cancelled or
\* was split: among the others there is a first one, and no task in hand is in its way.
LEMMA StuckMeansBlocked == Core /\ HandFits /\ PlanIsThere => StuckOnlyWhenBlocked
<1> SUFFICES ASSUME Core, HandFits, PlanIsThere, pc = "check", Nonterminal # {}, Stuck,
                    \A t \in WithStatus({"pending"}) :
                      Deps[t] \cap WithStatus({"failed", "cancelled", "decomposed"}) = {}
             PROVE  FALSE
  BY DEF StuckOnlyWhenBlocked
<1> DEFINE S == WithStatus({"pending"})
<1>1. Nonterminal = S
  BY DEF Stuck, Nonterminal, WithStatus
<1>2. PICK t \in S : Deps[t] \cap S = {}
  BY <1>1, DepsAssumption DEF WithStatus
<1>3. t \in Ready
  <2> SUFFICES ASSUME NEW u \in Deps[t] PROVE status[u] = "completed"
    BY DepsAssumption DEF Ready, WithStatus, SpecTask
  <2>1. u \in Task /\ status[u] # "absent"
    BY DepsAssumption DEF PlanIsThere, SpecTask, WithStatus
  <2>2. status[u] \notin {"failed", "cancelled", "decomposed", "pending"}
    BY <1>2, <2>1 DEF WithStatus
  <2>3. status[u] # "running"
    BY <2>1 DEF Stuck, WithStatus
  <2> QED BY <2>1, <2>2, <2>3 DEF Core, TypeOK, Status
<1>4. Running = {}
  <2> SUFFICES ASSUME NEW u \in Task, agent[u] # "none" PROVE FALSE
    BY DEF Running
  <2>1. status[u] \in {"pending", "running"}
    BY DEF Core, LoopAgrees, Running
  <2>2. status[u] = "pending"
    BY <2>1 DEF Stuck, WithStatus
  <2>3. u \in queue
    BY <2>2 DEF HandFits
  <2> QED BY <2>3 DEF Core, LoopAgrees, Processing
<1>5. t \in Filtered
  BY <1>3, <1>4 DEF Filtered, Overlap
<1> QED BY <1>5 DEF Stuck

\* A deadlock that is reported is one, for any plan and after any kills and resets
\* (_loop, _filter_output_overlap).
THEOREM StuckIsBlocked == Spec => []StuckOnlyWhenBlocked
BY HandInvariant, StuckMeansBlocked, PTL

\* Nobody kills the process or resets a single task, and no agent splits its task.
Undisturbed == ~Crashes /\ ~ResetsOfOne /\ \A t \in Task : Subtasks[t] = {}

\* No task that is still to be done waits for one that ended badly, but for the moment
\* between a failure and the cancellation of its dependents, and within a reset, which
\* has all of those still to go through.
NothingBlocked ==
  /\ pc \notin {"decompose", "discard"}
  /\ \A t \in Task : agent[t] # "split" /\ status[t] # "decomposed"
  /\ pc = "reset" => WithStatus({"failed", "cancelled"}) \subseteq todo
  /\ pc # "reset" => \A t \in Nonterminal :
       Deps[t] \cap WithStatus({"failed", "cancelled"})
         \subseteq IF pc = "cascade" THEN {current} ELSE {}

LEMMA BlockedStep ==
  ASSUME Undisturbed, Core, NothingBlocked, [Next]_vars, TypeOK'
  PROVE  NothingBlocked'
<1> USE DEF Undisturbed, Core, TypeOK, LoopAgrees, Running, NothingBlocked, WithStatus, Nonterminal
<1>1. CASE UNCHANGED vars
  BY <1>1
<1>2. CASE Command
  <2>1. CASE StartRun \/ ResetAll \/ Clean
    BY <2>1 DEF StartRun, ResetAll, Clean
  <2>2. CASE ResetAll
    BY <2>2 DEF ResetAll
  <2>3. ASSUME NEW t \in Task, ResetTask(t) PROVE FALSE
    BY <2>3 DEF ResetTask
  <2>4. ASSUME NEW t \in Task, ResetNext(t) PROVE NothingBlocked'
    <3>1. /\ \A u \in Task : status'[u] = IF u \in ResetBy(t) THEN "pending" ELSE status[u]
          /\ todo' = todo \ {t}
          /\ pc = "reset" /\ pc' = IF todo' = {} THEN "idle" ELSE "reset"
          /\ UNCHANGED agent
      BY <2>4 DEF ResetNext, ResetTo
    <3>2. WithStatus({"failed", "cancelled"}) \subseteq todo
      BY <3>1
    <3>3. status[t] \in {"failed", "cancelled"} => t \in ResetBy(t)
      BY DEF ResetBy
    <3>4. WithStatus({"failed", "cancelled"})' \subseteq todo'
      BY <3>1, <3>2, <3>3
    <3> QED BY <3>1, <3>4
  <2> QED BY <1>2, <2>1, <2>2, <2>3, <2>4 DEF Command
<1>3. ASSUME NEW t \in Task, AgentStep(t) PROVE NothingBlocked'
  <2>1. CASE AgentStarts(t)
    <3>1. t \in Nonterminal /\ pc # "reset"
      BY <2>1 DEF AgentStarts
    <3> QED BY <2>1, <3>1 DEF AgentStarts
  <2>4. CASE WorktreeMade(t)
    BY <2>4 DEF WorktreeMade
  <2>2. CASE AgentStartFails(t) \/ AgentStops(t)
    BY <2>2 DEF AgentStartFails, AgentStops
  <2>3. CASE AgentEnds(t)
    <3>1. PICK r \in {"success", "failure"} : agent' = [agent EXCEPT ![t] = r]
      BY <2>3 DEF AgentEnds
    <3> QED BY <2>3, <3>1 DEF AgentEnds
  <2> QED BY <1>3, <2>1, <2>2, <2>3, <2>4 DEF AgentStep
<1>4. CASE RequestShutdown
  <2>1. \A t \in Task : agent'[t] # "split"
    BY <1>4 DEF RequestShutdown
  <2> QED BY <1>4, <2>1 DEF RequestShutdown
<1>5. CASE Crash
  BY <1>5 DEF Crash
<1>6. CASE LoopStep
  <2> USE DEF Goto
  <2>1. CASE Top \/ Collected \/ WaitReturns
    BY <2>1 DEF Top, Collected, WaitReturns
  <2>2. CASE Launch
    BY <2>2 DEF Launch
  <2>3. CASE Finished \/ Deadlock \/ Stopped
    BY <2>3 DEF Finished, Deadlock, Stopped, Leave
  <2>4. ASSUME NEW t \in Task, PopShuttingDown(t) \/ Drain(t) PROVE NothingBlocked'
    <3>1. t \in Nonterminal /\ pc # "cascade" /\ pc' = pc
      BY <2>4 DEF PopShuttingDown, Drain, Pop
    <3> QED BY <2>4, <3>1 DEF PopShuttingDown, Drain, Pop, Abandon
  <2>5. ASSUME NEW t \in Task, NEW n, Settle(t, n), t \in Nonterminal, pc \notin {"cascade", "reset"},
               \A u \in Task : agent'[u] # "split"
        PROVE  NothingBlocked'
    <3>1. CASE RetryAllowed(n)
      BY <2>5, <3>1 DEF Settle
    <3>2. CASE ~RetryAllowed(n)
      BY <2>5, <3>2 DEF Settle
    <3> QED BY <3>1, <3>2
  <2>6. ASSUME NEW t \in Task, PopFailure(t) PROVE NothingBlocked'
    <3>1. PICK n : Settle(t, n)
      BY <2>6 DEF PopFailure
    <3>2. t \in Nonterminal /\ pc = "collect" /\ \A u \in Task : agent'[u] # "split"
      BY <2>6 DEF PopFailure, Pop
    <3> QED BY <2>5, <3>1, <3>2
  <2>7. CASE PreverifyFails \/ PreverifyFailed \/ MergeFails
    <3>1. /\ pc \in {"preverify", "detached", "merge", "reverted"} /\ agent' = agent
          /\ \/ Settle(current, attempt[current])
             \/ UNCHANGED status /\ pc' = "detached"
      BY <2>7 DEF PreverifyFails, PreverifyFailed, MergeFails
    <3>2. current \in Task /\ current \in Nonterminal
      BY <3>1 DEF Processing
    <3>3. CASE UNCHANGED status /\ pc' = "detached"
      BY <3>1, <3>3
    <3> QED BY <2>5, <3>1, <3>2, <3>3
  <2>8. ASSUME NEW t \in Task, PopSuccess(t) PROVE NothingBlocked'
    BY <2>8 DEF PopSuccess, Pop
  <2>9. ASSUME NEW t \in Task, PopSplit(t) \/ AddSubtask(t) \/ SubtaskClash(t) PROVE FALSE
    BY <2>9 DEF PopSplit, AddSubtask, SubtaskClash, Pop
  <2>10. CASE Interrupted
    <3>1. current \in Task /\ current \in Nonterminal
      BY <2>10 DEF Interrupted, Processing
    <3> QED BY <2>10, <3>1 DEF Interrupted, Abandon
  <2>11. CASE PreverifyPasses \/ MergeLands \/ MergeReverts \/ MergeReturns
    BY <2>11 DEF PreverifyPasses, MergeLands, MergeReverts, MergeReturns
  <2>12. CASE Finish
    BY <2>12 DEF Finish, Processing
  <2>13. CASE Decomposed \/ Discarded
    BY <2>13 DEF Decomposed, Discarded
  <2>14. CASE CancelDependents
    <3> DEFINE D == Dependents(current, Nonterminal)
    <3>1. D \subseteq Nonterminal
      BY DependentsIn
    <3>2. \A t \in Task : status'[t] = IF t \in D THEN "cancelled" ELSE status[t]
      BY <2>14 DEF CancelDependents
    <3>3. ASSUME NEW t \in Nonterminal, t \notin D PROVE Deps[t] \cap (D \cup {current}) = {}
      BY <3>3, DependentsClosed
    <3> HIDE DEF D
    <3>4. WithStatus({"failed", "cancelled"})' \subseteq WithStatus({"failed", "cancelled"}) \cup D
      BY <3>2
    <3>5. ASSUME NEW t \in Nonterminal'
          PROVE  Deps[t] \cap WithStatus({"failed", "cancelled"})' = {}
      <4>1. t \in Nonterminal /\ t \notin D
        BY <3>2
      <4>2. Deps[t] \cap WithStatus({"failed", "cancelled"}) \subseteq {current}
        BY <2>14, <4>1 DEF CancelDependents
      <4> QED BY <3>3, <3>4, <4>1, <4>2
    <3> QED BY <2>14, <3>2, <3>5 DEF CancelDependents
  <2> QED
    BY <1>6, <2>1, <2>2, <2>3, <2>4, <2>6, <2>7, <2>8, <2>9, <2>10, <2>11, <2>12, <2>13,
       <2>14 DEF LoopStep
<1> QED BY <1>1, <1>2, <1>3, <1>4, <1>5, <1>6 DEF Next

\* Only the report of a deadlock ends a run with one.
LEMMA DeadlockStep ==
  ASSUME NoDeadlock, [Next]_vars, ~Deadlock
  PROVE  NoDeadlock'
<1> USE DEF NoDeadlock, Goto, Leave, Settle
<1>1. CASE Command \/ RequestShutdown \/ Crash \/ UNCHANGED vars
  BY <1>1 DEF Command, StartRun, Clean, ResetAll, ResetNext, ResetTask, ResetTo,
     RequestShutdown, Crash
<1>2. ASSUME NEW t \in Task, AgentStep(t) PROVE NoDeadlock'
  BY <1>2 DEF AgentStep, WorktreeMade, AgentStarts, AgentStartFails, AgentEnds, AgentStops
<1>3. CASE LoopStep
  BY <1>3 DEF LoopStep, Top, Collected, Finished, Launch, WaitReturns, Stopped,
     PopShuttingDown, PopFailure, PopSuccess, PopSplit, Drain, AddSubtask, SubtaskClash,
     Interrupted, PreverifyPasses, PreverifyFails, PreverifyFailed, MergeLands, MergeReverts, MergeFails,
     MergeReturns, Finish, CancelDependents, Decomposed, Discarded
<1> QED BY <1>1, <1>2, <1>3 DEF Next

\* Without kills, resets of a single task and subtasks no run ends in a deadlock, for
\* any plan, and however often it is interrupted and resumed (cancel_dependents).
THEOREM NeverDeadlocked == Undisturbed => (Spec => []NoDeadlock)
<1> SUFFICES ASSUME Undisturbed PROVE Spec => []NoDeadlock
  OBVIOUS
<1>1. Init => NothingBlocked /\ NoDeadlock
  BY DEF Init, NothingBlocked, NoDeadlock, WithStatus, Nonterminal
<1>2. Core /\ NothingBlocked /\ [Next]_vars /\ TypeOK' => NothingBlocked'
  BY BlockedStep
<1>3. StuckOnlyWhenBlocked /\ NothingBlocked /\ NoDeadlock /\ [Next]_vars => NoDeadlock'
  <2>1. StuckOnlyWhenBlocked /\ NothingBlocked => ~Deadlock
    <3> SUFFICES ASSUME StuckOnlyWhenBlocked, NothingBlocked, Deadlock PROVE FALSE
      OBVIOUS
    <3>1. PICK t \in WithStatus({"pending"}) :
            Deps[t] \cap WithStatus({"failed", "cancelled", "decomposed"}) # {}
      BY DEF StuckOnlyWhenBlocked, Deadlock
    <3>2. t \in Nonterminal /\ pc = "check"
      BY DEF Nonterminal, WithStatus, Deadlock
    <3> QED BY <3>1, <3>2 DEF NothingBlocked, WithStatus
  <2> QED BY <2>1, DeadlockStep
<1> QED BY <1>1, <1>2, <1>3, TypeCorrect, CoreCorrect, StuckIsBlocked, PTL DEF Spec

-----------------------------------------------------------------------------
(* Orchestrator implements TaskLifecycle: each of its steps is a step of the *)
(* table's life, or leaves the status of every task alone.                   *)

USE DEF base, table, loop, vars, Life!Become, Life!In, Life!Open, Life!Spoilt, Life!Waiting

\* A status set by EXCEPT is a step of the table for that task alone.
LEMMA OneBecomes ==
  ASSUME TypeOK, NEW t \in Task, NEW new, status' = [status EXCEPT ![t] = new]
  PROVE  Life!Become({t}, new)
  BY DEF TypeOK

\* The requirement of a reset is that what it leaves cancelled has a cause.
LEMMA ResetRefines ==
  ASSUME TypeOK, CancelledForCause',
         NEW S \in SUBSET WithStatus({"failed", "cancelled", "running"}), ResetTo(S)
  PROVE  Life!Reset(S)
<1>1. status' = [t \in Task |-> IF t \in S THEN "pending" ELSE status[t]]
  BY DEF ResetTo
<1>2. ASSUME NEW t \in WithStatus({"cancelled"}) \ S
      PROVE  Deps[t] \cap (WithStatus({"failed", "cancelled"}) \ S) # {}
  <2>1. t \in WithStatus({"cancelled"})'
    BY <1>1, <1>2 DEF WithStatus
  <2>2. WithStatus({"failed", "cancelled"})' \subseteq WithStatus({"failed", "cancelled"}) \ S
    BY <1>1 DEF WithStatus
  <2> QED BY <2>1, <2>2 DEF CancelledForCause
<1> QED BY <1>1, <1>2 DEF Life!Reset, WithStatus

\* What cancel_dependents walks to has its cause in the walk.
LEMMA CancelRefines ==
  ASSUME TypeOK, LoopAgrees, CancelDependents
  PROVE  \E S \in SUBSET Task : Life!Cancel(S)
<1> DEFINE S == Dependents(current, Nonterminal)
<1>1. S \subseteq Nonterminal
  BY DependentsIn
<1>2. current \in Task /\ status[current] = "failed"
  BY DEF CancelDependents, TypeOK, LoopAgrees, Processing
<1>3. ASSUME NEW t \in S PROVE Deps[t] \cap (S \cup {current}) # {}
  BY DependentsCaused
<1>4. status' = [t \in Task |-> IF t \in S THEN "cancelled" ELSE status[t]]
  BY DEF CancelDependents
<1> HIDE DEF S
<1>5. Life!CausedIn(S)
  BY <1>2, <1>3 DEF Life!CausedIn
<1> QED BY <1>1, <1>4, <1>5 DEF Life!Cancel, Nonterminal, WithStatus

\* A result that counts against its task ends in a retry or in a failure.
LEMMA SettleRefines ==
  ASSUME TypeOK, NEW t \in Task, NEW n, Settle(t, n), status[t] \in {"pending", "running"},
         Deps[t] \subseteq WithStatus({"completed"})
  PROVE  Life!TaskStep(t) \/ UNCHANGED status
<1>1. CASE RetryAllowed(n)
  <2>1. status' = [status EXCEPT ![t] = "pending"]
    BY <1>1 DEF Settle
  <2>2. Life!Become({t}, "pending")
    BY <2>1, OneBecomes
  <2>3. CASE status[t] = "pending"
    BY <2>1, <2>3 DEF TypeOK
  <2> QED BY <2>2, <2>3 DEF Life!Park, Life!TaskStep
<1>2. CASE ~RetryAllowed(n)
  <2>1. Life!Become({t}, "failed")
    BY <1>2, OneBecomes DEF Settle
  <2> QED BY <2>1 DEF Life!Fail, Life!TaskStep, WithStatus
<1> QED BY <1>1, <1>2

\* Parking: back to pending, or still there.
LEMMA AbandonRefines ==
  ASSUME TypeOK, NEW t \in Task, Abandon(t), status[t] \in {"pending", "running"}
  PROVE  Life!TaskStep(t) \/ UNCHANGED status
<1>1. Life!Become({t}, "pending")
  BY OneBecomes DEF Abandon
<1>2. CASE status[t] = "pending"
  BY <1>2 DEF Abandon, TypeOK
<1> QED BY <1>1, <1>2 DEF Life!Park, Life!TaskStep

\* Every step of the orchestrator is a step of the lifecycle, or none.
LEMMA LifecycleStep ==
  ASSUME Core, Core', CancelledForCause', [Next]_vars
  PROVE  Life!Next \/ UNCHANGED <<status, Deps>>
<1> SUFFICES ASSUME status' # status PROVE Life!Next
  OBVIOUS
<1> USE DEF Core
<1>1. SUFFICES \/ \E t \in Task : Life!TaskStep(t)
               \/ \E S \in SUBSET Task : Life!Cancel(S) \/ Life!Reset(S)
  BY DEF Life!Next
<1>2. CASE Command
  <2>1. ASSUME NEW t \in Task, ResetNext(t) \/ ResetTask(t)
        PROVE  \E S \in SUBSET Task : Life!Reset(S)
    <3>1. ResetBy(t) \in SUBSET WithStatus({"failed", "cancelled", "running"})
      BY DependentsIn DEF ResetBy, WithStatus
    <3>2. ResetBy(t) \in SUBSET Task
      BY <3>1 DEF WithStatus
    <3>3. ResetTo(ResetBy(t))
      BY <2>1 DEF ResetNext, ResetTask
    <3> QED BY <3>1, <3>2, <3>3, ResetRefines
  <2> QED BY <1>2, <2>1 DEF Command, StartRun, ResetAll, Clean
<1>3. ASSUME NEW t \in Task, AgentStep(t) PROVE Life!TaskStep(t)
  <2>1. AgentStarts(t)
    BY <1>3 DEF AgentStep, WorktreeMade, AgentStartFails, AgentEnds, AgentStops
  <2>2. status' = [status EXCEPT ![t] = "running"]
    BY <2>1 DEF AgentStarts
  <2>3. status[t] \in {"pending", "running"}
    <3>1. t \in Running
      BY <2>1 DEF AgentStarts, Running
    <3> QED BY <3>1 DEF LoopAgrees
  <2>4. status[t] # "running"
    BY <2>2 DEF TypeOK
  <2>5. Deps[t] \subseteq WithStatus({"completed"})
    BY <2>1 DEF AgentStarts, StartedAfterDeps
  <2> QED BY <2>2, <2>3, <2>4, <2>5, OneBecomes DEF Life!Start, Life!TaskStep, WithStatus
<1>4. CASE LoopStep
  <2>1. ASSUME NEW t \in Task, PopShuttingDown(t) \/ Drain(t) PROVE Life!TaskStep(t)
    <3>1. Abandon(t)
      BY <2>1 DEF PopShuttingDown, Drain
    <3>2. t \in Running
      BY <2>1 DEF PopShuttingDown, Drain, Pop, LoopAgrees
    <3>3. status[t] \in {"pending", "running"}
      BY <3>2 DEF LoopAgrees
    <3> QED BY <3>1, <3>3, AbandonRefines
  <2>2. ASSUME NEW t \in Task, PopFailure(t) PROVE Life!TaskStep(t)
    <3>1. PICK n : Settle(t, n)
      BY <2>2 DEF PopFailure
    <3>2. agent[t] = "failure" /\ t \in Running
      BY <2>2 DEF PopFailure, Running
    <3>3. status[t] \in {"pending", "running"}
      BY <3>2 DEF LoopAgrees
    <3>4. Deps[t] \subseteq WithStatus({"completed"})
      BY <3>2 DEF StartedAfterDeps
    <3> QED BY <3>1, <3>3, <3>4, SettleRefines
  <2>3. ASSUME NEW t \in Task, AddSubtask(t) PROVE Life!TaskStep(t)
    BY <2>3, OneBecomes DEF AddSubtask, Life!Add, Life!TaskStep
  <2>4. CASE CancelDependents
    BY <2>4, CancelRefines
  <2>5. ASSUME Interrupted \/ PreverifyFails \/ PreverifyFailed \/ MergeFails \/ Finish \/ Decomposed
        PROVE  \E t \in Task : Life!TaskStep(t)
    <3>1. current \in Task
      BY <2>5 DEF TypeOK, Processing, Interrupted, PreverifyFails, PreverifyFailed, MergeFails, Finish,
                  Decomposed
    <3>2. status[current] = "running"
      BY <2>5, <3>1 DEF LoopAgrees, Interrupted, PreverifyFails, PreverifyFailed, MergeFails, Finish,
                        Decomposed
    <3>3. Deps[current] \subseteq WithStatus({"completed"})
      BY <3>1 DEF StartedAfterDeps
    <3>4. CASE Interrupted
      BY <3>1, <3>2, <3>4, AbandonRefines DEF Interrupted
    <3>5. CASE PreverifyFails \/ PreverifyFailed \/ MergeFails
      <4>1. Settle(current, attempt[current])
        BY <3>5 DEF PreverifyFails, PreverifyFailed, MergeFails
      <4> QED BY <3>1, <3>2, <3>3, <4>1, SettleRefines
    <3>6. CASE Finish
      <4>1. Life!Become({current}, "completed")
        BY <3>1, <3>6, OneBecomes DEF Finish
      <4> QED BY <3>1, <3>2, <4>1 DEF Life!Complete, Life!TaskStep
    <3>7. CASE Decomposed
      <4>1. Life!Become({current}, "decomposed")
        BY <3>1, <3>7, OneBecomes DEF Decomposed
      <4> QED BY <3>1, <3>2, <4>1 DEF Life!Decompose, Life!TaskStep
    <3> QED BY <2>5, <3>4, <3>5, <3>6, <3>7
  <2> QED BY <1>4, <2>1, <2>2, <2>3, <2>4, <2>5
          DEF LoopStep, Top, Collected, Finished, Launch, Deadlock, WaitReturns, Stopped,
              PopSuccess, PopSplit, SubtaskClash, PreverifyPasses, MergeLands, MergeReverts,
              MergeReturns, Discarded
<1> QED BY <1>2, <1>3, <1>4 DEF Next, RequestShutdown, Crash

\* The table of a run, whatever happens to it, goes through the life of
\* TaskLifecycle: no start before a dependency, no outcome undone by a run, no
\* cancellation without a cause.
THEOREM Refinement == Spec => ImplementsLifecycle
<1>1. Init => Life!Init
  BY DepsAssumption DEF Init, Life!Init, SpecTask
<1>2. /\ Core /\ Core' /\ CancelledForCause' /\ [Next]_vars
      => [Life!Next]_<<status, Deps>>
  BY LifecycleStep
<1> QED BY <1>1, <1>2, CoreCorrect, CancellationsHaveCauses, PTL
        DEF Spec, ImplementsLifecycle, Life!Spec

===============================================================================
