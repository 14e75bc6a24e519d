------------------------------ MODULE ProcsProofs ------------------------------
(***************************************************************************)
(* Proofs about Procs, for any number of commands and agents and any       *)
(* process groups that they turn into: what runs is tracked, what is swept *)
(* is gone, what was killed is told apart from what failed, and nothing is *)
(* left when po exits.                                                     *)
(***************************************************************************)
EXTENDS Procs, TLAPS

\* The tuples of variables are always expanded.
USE DEF group, job, handler, vars

LEMMA JobKinds ==
  /\ Agent \cap Thread = {} /\ Agent \subseteq Job /\ Thread \subseteq Job
  /\ Verify \subseteq Thread /\ Git \subseteq Thread /\ MergeAgent \subseteq Thread
  /\ Verify \cap (Git \cup MergeAgent) = {} /\ NoJob \notin Job
  BY JobAssumption DEF Job, Thread

\* A process group has one of the shapes of its command.
LEMMA ShapeOfJob == ASSUME NEW j \in Job, NEW s \in Shapes[j] PROVE s \in Shape
  BY JobAssumption

LEMMA InitTypeOK == Init => TypeOK
<1>1. Quiet \in Shape
  BY DEF Quiet, Shape
<1> SUFFICES ASSUME Init PROVE TypeOK
  OBVIOUS
<1>2. shape \in [Job -> Shape]
  BY <1>1 DEF Init
<1>3. leader \in [Job -> Leader] /\ child \in [Job -> BOOLEAN]
  BY DEF Init, Leader
<1>4. pc \in [Job -> Pc] /\ outcome \in [Job -> Outcome]
  BY DEF Init, Pc, Outcome
<1>5. /\ cancelled = {} /\ registry = {} /\ victims = {} /\ killed = {} /\ swept = {}
  BY DEF Init
<1>6. main \in Main /\ signals \in 0..2 /\ target \in Job \cup {NoJob}
  BY DEF Init, Main
<1>7. shuttingDown \in BOOLEAN
  BY DEF Init
<1> QED BY <1>2, <1>3, <1>4, <1>5, <1>6, <1>7 DEF TypeOK

\* The step of a thread keeps every variable in its type.
LEMMA ThreadTypes ==
  ASSUME TypeOK, NEW j \in Thread, ThreadStep(j)
  PROVE  TypeOK'
<1> USE JobKinds DEF TypeOK, Leader, Pc, Outcome, Main, Awaiting, Goto, Return, Register,
                     Unregister
<1>1. CASE ThreadStarts(j)
  BY <1>1 DEF ThreadStarts
<1>2. CASE ThreadSpawns(j)
  BY <1>2, ShapeOfJob DEF ThreadSpawns, Spawn, Shape
<1>3. CASE ThreadSpawnFails(j)
  BY <1>3 DEF ThreadSpawnFails
<1>4. CASE ThreadRegisters(j)
  BY <1>4 DEF ThreadRegisters
<1>5. CASE ThreadLogFails(j)
  BY <1>5 DEF ThreadLogFails
<1>6. CASE ThreadReads(j)
  BY <1>6 DEF ThreadReads, Reap, Reaped
<1>7. CASE VerifyTimesOut(j)
  BY <1>7 DEF VerifyTimesOut
<1>8. CASE VerifyTerms(j)
  BY <1>8 DEF VerifyTerms, Reap, Reaped, Term
<1>9. CASE VerifyKills(j)
  BY <1>9 DEF VerifyKills, Reap, Reaped, Kill
<1>10. CASE ThreadUnregisters(j)
  BY <1>10 DEF ThreadUnregisters
<1>11. CASE ThreadReturns(j)
  BY <1>11 DEF ThreadReturns
<1>12. CASE MergeAgentReads(j)
  BY <1>12 DEF MergeAgentReads
<1>13. CASE MergeAgentWaits(j)
  BY <1>13 DEF MergeAgentWaits, Reap, Reaped
<1> QED
  BY <1>1, <1>2, <1>3, <1>4, <1>5, <1>6, <1>7, <1>8, <1>9, <1>10, <1>11, <1>12, <1>13
  DEF ThreadStep

\* So does the step of an agent's coroutine.
LEMMA AgentTypes ==
  ASSUME TypeOK, NEW j \in Agent, AgentStep(j)
  PROVE  TypeOK'
<1> USE JobKinds DEF TypeOK, Leader, Pc, Outcome, Main, Awaiting, Goto, Return, Register,
                     Unregister, AgentResult
<1>1. CASE AgentSpawns(j)
  BY <1>1, ShapeOfJob DEF AgentSpawns, Spawn, Shape
<1>2. CASE AgentSpawnFails(j)
  BY <1>2 DEF AgentSpawnFails
<1>3. CASE AgentRegisters(j)
  BY <1>3 DEF AgentRegisters
<1>4. CASE AgentLogFails(j)
  BY <1>4 DEF AgentLogFails
<1>5. CASE AgentReads(j)
  <2>1. CASE child[j]
    <3>1. child' = [child EXCEPT ![j] = "child" \in shape[j].ignores]
      BY <1>5, <2>1, Zenon DEF AgentReads
    <3>2. child' \in [Job -> BOOLEAN]
      BY <3>1
    <3>3. leader' \in [Job -> Leader] /\ pc' \in [Job -> Pc]
      BY <1>5, <2>1 DEF AgentReads, Reap, Reaped
    <3> QED BY <1>5, <2>1, <3>2, <3>3 DEF AgentReads
  <2>2. CASE ~child[j]
    BY <1>5, <2>2 DEF AgentReads, Reap, Reaped
  <2> QED BY <2>1, <2>2
<1>6. CASE AgentReaps(j)
  BY <1>6 DEF AgentReaps
<1>7. CASE SpawnCancelled(j)
  BY <1>7 DEF SpawnCancelled
<1>8. CASE AgentTerms(j)
  BY <1>8 DEF AgentTerms, Term
<1>9. CASE AgentLeaves(j)
  BY <1>9 DEF AgentLeaves, Reap, Reaped
<1>10. CASE AgentKills(j)
  <2>1. CASE Exited(j)
    BY <1>10, <2>1 DEF AgentKills, Reap, Reaped
  <2>2. CASE ~Exited(j)
    <3>1. leader' \in [Job -> Leader]
      BY <1>10, <2>2 DEF AgentKills, Kill
    <3>2. child' \in [Job -> BOOLEAN]
      BY <1>10, <2>2 DEF AgentKills, Kill
    <3> QED BY <1>10, <2>2, <3>1, <3>2 DEF AgentKills
  <2> QED BY <2>1, <2>2
<1>11. CASE AgentReadRaises(j)
  BY <1>11 DEF AgentReadRaises
<1> QED
  BY <1>1, <1>2, <1>3, <1>4, <1>5, <1>6, <1>7, <1>8, <1>9, <1>10, <1>11 DEF AgentStep

\* So do the signal handler and the processes themselves.
LEMMA HandlerTypes ==
  ASSUME TypeOK, HandlerStep \/ Signal
  PROVE  TypeOK'
<1> USE JobKinds DEF TypeOK, Leader, Main
<1>1. CASE Snapshot
  BY <1>1 DEF Snapshot
<1>2. CASE KillVictim
  <2>1. leader' \in [Job -> Leader] /\ child' \in [Job -> BOOLEAN]
    <3>1. CASE UNCHANGED <<leader, child>>
      BY <3>1
    <3>2. CASE Reap(target) /\ UNCHANGED child
      BY <3>2 DEF Reap, Reaped
    <3>3. ASSUME NEW then \in Leader, Kill(target, then)
          PROVE  leader' \in [Job -> Leader] /\ child' \in [Job -> BOOLEAN]
      BY <3>3 DEF Kill
    <3> QED BY <1>2, <3>1, <3>2, <3>3 DEF KillVictim
  <2> QED BY <1>2, <2>1 DEF KillVictim
<1>3. CASE SweepEnds \/ RunReturns
  BY <1>3 DEF SweepEnds, RunReturns
<1>4. ASSUME NEW j \in Job, SkipVictim(j) PROVE TypeOK'
  BY <1>4 DEF SkipVictim, Reap, Reaped
<1>5. ASSUME NEW j \in Job, TermVictim(j) PROVE TypeOK'
  BY <1>5 DEF TermVictim, NextVictim, Term
<1>6. CASE Signal
  BY <1>6 DEF Signal
<1> QED BY <1>1, <1>2, <1>3, <1>4, <1>5, <1>6 DEF HandlerStep

LEMMA ProcessTypes ==
  ASSUME TypeOK, NEW j \in Job, LeaderEnds(j) \/ ChildEnds(j) \/ WatcherReaps(j)
  PROVE  TypeOK'
<1> USE DEF TypeOK, Leader
<1>1. CASE LeaderEnds(j)
  BY <1>1 DEF LeaderEnds
<1>2. CASE ChildEnds(j)
  BY <1>2 DEF ChildEnds
<1>3. CASE WatcherReaps(j)
  BY <1>3 DEF WatcherReaps, Reap, Reaped
<1> QED BY <1>1, <1>2, <1>3

\* Every step of a run keeps the registry, the places and the processes in their types.
THEOREM TypeCorrect == Spec => []TypeOK
<1>1. TypeOK /\ [Next]_vars => TypeOK'
  <2> SUFFICES ASSUME TypeOK, [Next]_vars PROVE TypeOK'
    OBVIOUS
  <2>1. CASE UNCHANGED vars
    BY <2>1 DEF TypeOK
  <2> QED BY <2>1, ThreadTypes, AgentTypes, HandlerTypes, ProcessTypes DEF Next
<1> QED BY InitTypeOK, <1>1, PTL DEF Spec

-----------------------------------------------------------------------------
(* The invariant that the promises of the registry rest on *)

\* What the place of a thread or coroutine tells of its process: nothing before
\* the spawn, unknown to the registry before it is registered, and not at work
\* any more once its output has ended, unless an exception left it behind or it is a
\* merge agent, which is waited for after that.
PlacesAgree ==
  \A j \in Job :
    /\ pc[j] \in {"idle", "spawn"} => leader[j] = "none" /\ ~child[j] /\ outcome[j] = "none"
    /\ pc[j] \in {"idle", "spawn", "spawned"} => j \notin registry \cup swept
    /\ pc[j] \in {"recheck", "reaping"} => leader[j] # "alive"
    /\ pc[j] = "unregister" => leader[j] # "alive" \/ j \in MergeAgent
    /\ pc[j] = "done" /\ leader[j] = "alive" => outcome[j] = "raised"
    /\ j \in Verify => outcome[j] # "raised"

\* What the handler has in hand: victims come from the registry, a kill is part
\* of a sweep, and a sweep means that the flag is set.
SweepAgrees ==
  /\ victims \subseteq swept /\ killed \subseteq swept
  /\ main \notin {"sweeping", "grace"} => victims = {}
  /\ main = "grace" => target \in victims
  /\ main \in {"flagged", "sweeping", "grace"} \/ swept # {} => shuttingDown

\* A child that has seen SIGTERM with its leader is gone, or deaf.
KilledChildrenAreDeaf ==
  \A j \in killed : child[j] => "child" \in shape[j].ignores

\* What was taken for a sweep and is not waiting for it any more has no leader.
SweptLeadersAreGone == \A j \in swept \ victims : leader[j] # "alive"

IInv ==
  /\ PlacesAgree /\ SweepAgrees /\ KilledChildrenAreDeaf /\ SweptLeadersAreGone
  /\ RunningIsTracked /\ KilledIsCancelled /\ AgentsLeaveNothing /\ ExitLeavesNoLeader

\* A thread keeps the invariant.
LEMMA ThreadKeeps ==
  ASSUME TypeOK, IInv, NEW j \in Thread, ThreadStep(j)
  PROVE  IInv'
<1> USE JobKinds DEF TypeOK, IInv, PlacesAgree, SweepAgrees, KilledChildrenAreDeaf,
           SweptLeadersAreGone, RunningIsTracked, KilledIsCancelled, AgentsLeaveNothing,
           ExitLeavesNoLeader, Untracked, Alive, Goto, Return, Register, Unregister
<1>1. CASE ThreadStarts(j)
  BY <1>1 DEF ThreadStarts
<1>2. CASE ThreadSpawns(j)
  BY <1>2 DEF ThreadSpawns, Spawn
<1>3. CASE ThreadSpawnFails(j)
  BY <1>3 DEF ThreadSpawnFails
<1>4. CASE ThreadRegisters(j)
  BY <1>4 DEF ThreadRegisters
<1>5. CASE ThreadLogFails(j)
  BY <1>5 DEF ThreadLogFails
<1>6. CASE ThreadReads(j)
  BY <1>6 DEF ThreadReads, EndOfOutput, Reap, Reaped
<1>7. CASE VerifyTimesOut(j)
  BY <1>7 DEF VerifyTimesOut
<1>8. CASE VerifyTerms(j)
  BY <1>8 DEF VerifyTerms, Exited, Reap, Reaped, Term
<1>9. CASE VerifyKills(j)
  BY <1>9 DEF VerifyKills, Exited, Reap, Reaped, Kill
<1>10. CASE ThreadUnregisters(j)
  BY <1>10 DEF ThreadUnregisters
<1>11. CASE ThreadReturns(j)
  <2>1. leader[j] # "alive" /\ pc[j] = "recheck" /\ main # "exited"
    BY <1>11 DEF ThreadReturns
  <2>2. CASE j \in Verify \cup MergeAgent /\ shuttingDown
    <3>1. Return(j, "cancelled")
      BY <1>11, <2>2 DEF ThreadReturns
    <3> QED BY <1>11, <2>1, <3>1 DEF ThreadReturns
  <2>3. CASE ~(j \in Verify \cup MergeAgent /\ shuttingDown)
    <3>1. PICK r \in {"timeout", "ok", "failed"} : Return(j, r)
      BY <1>11, <2>3 DEF ThreadReturns
    <3>2. j \notin killed \cap (Verify \cup MergeAgent)
      BY <2>3
    <3> QED BY <1>11, <2>1, <3>1, <3>2 DEF ThreadReturns
  <2> QED BY <2>2, <2>3
<1>12. CASE MergeAgentReads(j)
  BY <1>12 DEF MergeAgentReads
<1>13. CASE MergeAgentWaits(j)
  BY <1>13 DEF MergeAgentWaits, Exited, Reap, Reaped
<1> QED
  BY <1>1, <1>2, <1>3, <1>4, <1>5, <1>6, <1>7, <1>8, <1>9, <1>10, <1>11, <1>12, <1>13
  DEF ThreadStep

\* So does a coroutine.
LEMMA AgentKeeps ==
  ASSUME TypeOK, IInv, NEW j \in Agent, AgentStep(j)
  PROVE  IInv'
<1> USE JobKinds DEF TypeOK, IInv, PlacesAgree, SweepAgrees, KilledChildrenAreDeaf,
           SweptLeadersAreGone, RunningIsTracked, KilledIsCancelled, AgentsLeaveNothing,
           ExitLeavesNoLeader, Untracked, Alive, Goto, Return, Register, Unregister,
           AgentResult, AgentRuns, AgentStops, LoopFree
<1>1. CASE AgentSpawns(j)
  BY <1>1 DEF AgentSpawns, Spawn
<1>2. CASE AgentSpawnFails(j)
  BY <1>2 DEF AgentSpawnFails
<1>3. CASE AgentRegisters(j)
  BY <1>3 DEF AgentRegisters
<1>4. CASE AgentLogFails(j)
  BY <1>4 DEF AgentLogFails
<1>5. CASE AgentReads(j)
  BY <1>5 DEF AgentReads, EndOfOutput, Reap, Reaped
<1>6. CASE AgentReaps(j)
  BY <1>6 DEF AgentReaps
<1>7. CASE SpawnCancelled(j)
  BY <1>7 DEF SpawnCancelled
<1>8. CASE AgentTerms(j)
  BY <1>8 DEF AgentTerms, Term
<1>9. CASE AgentLeaves(j)
  BY <1>9 DEF AgentLeaves, Exited, Reap, Reaped
<1>10. CASE AgentKills(j)
  BY <1>10 DEF AgentKills, Exited, Reap, Reaped, Kill
<1>11. CASE AgentReadRaises(j)
  BY <1>11 DEF AgentReadRaises
<1> QED
  BY <1>1, <1>2, <1>3, <1>4, <1>5, <1>6, <1>7, <1>8, <1>9, <1>10, <1>11 DEF AgentStep

\* So does the signal handler: a victim is out of hand only when its leader is gone.
LEMMA HandlerKeeps ==
  ASSUME TypeOK, IInv, HandlerStep \/ Signal
  PROVE  IInv'
<1> USE JobKinds DEF TypeOK, IInv, PlacesAgree, SweepAgrees, KilledChildrenAreDeaf,
           SweptLeadersAreGone, RunningIsTracked, KilledIsCancelled, AgentsLeaveNothing,
           ExitLeavesNoLeader, Untracked, Alive
<1>1. CASE Snapshot
  BY <1>1 DEF Snapshot
<1>2. CASE KillVictim
  BY <1>2 DEF KillVictim, Exited, Signallable, Leader, Reap, Reaped, Kill
<1>3. CASE SweepEnds
  BY <1>3 DEF SweepEnds
<1>4. CASE RunReturns
  BY <1>4 DEF RunReturns, LoopFree
<1>5. ASSUME NEW j \in Job, SkipVictim(j) PROVE IInv'
  BY <1>5 DEF SkipVictim, NextVictim, Exited, Signallable, Reap, Reaped
<1>6. ASSUME NEW j \in Job, TermVictim(j) PROVE IInv'
  <2>1. main = "sweeping" /\ j \in victims
    BY <1>6 DEF TermVictim, NextVictim
  <2>2. \A i \in Job : /\ leader'[i] = "alive" => leader[i] = "alive"
                       /\ leader[i] = "none" => leader'[i] = "none"
                       /\ child'[i] => child[i]
    BY <1>6 DEF TermVictim, Term
  <2>3. child'[j] => "child" \in shape[j].ignores
    <3>1. child' = [child EXCEPT ![j] = @ /\ "child" \in shape[j].ignores]
      BY <1>6 DEF TermVictim, Term
    <3>2. child'[j] = (child[j] /\ "child" \in shape[j].ignores)
      BY <3>1, Zenon
    <3> QED BY <3>2, Zenon
  <2> QED BY <1>6, <2>1, <2>2, <2>3 DEF TermVictim
<1>7. CASE Signal
  BY <1>7 DEF Signal
<1> QED BY <1>1, <1>2, <1>3, <1>4, <1>5, <1>6, <1>7 DEF HandlerStep

\* Processes end, which disturbs nothing.
LEMMA ProcessKeeps ==
  ASSUME TypeOK, IInv, NEW j \in Job, LeaderEnds(j) \/ ChildEnds(j) \/ WatcherReaps(j)
  PROVE  IInv'
<1> USE DEF TypeOK, IInv, PlacesAgree, SweepAgrees, KilledChildrenAreDeaf,
           SweptLeadersAreGone, RunningIsTracked, KilledIsCancelled, AgentsLeaveNothing,
           ExitLeavesNoLeader, Untracked, Alive
<1>1. CASE LeaderEnds(j)
  BY <1>1 DEF LeaderEnds
<1>2. CASE ChildEnds(j)
  BY <1>2 DEF ChildEnds
<1>3. CASE WatcherReaps(j)
  BY <1>3 DEF WatcherReaps, Reap, Reaped
<1> QED BY <1>1, <1>2, <1>3

\* The invariant holds in every run.
THEOREM Invariant == Spec => []IInv
<1>1. Init => IInv
  <2> SUFFICES ASSUME Init PROVE IInv
    OBVIOUS
  <2>1. \A j \in Job : leader[j] = "none" /\ child[j] = FALSE /\ outcome[j] = "none"
                       /\ pc[j] = "idle"
    BY DEF Init
  <2>2. registry = {} /\ victims = {} /\ killed = {} /\ swept = {} /\ main = "loop"
    BY DEF Init
  <2> QED
    BY <2>1, <2>2, JobKinds
    DEF IInv, PlacesAgree, SweepAgrees, KilledChildrenAreDeaf, SweptLeadersAreGone,
        RunningIsTracked, KilledIsCancelled, AgentsLeaveNothing, ExitLeavesNoLeader,
        Untracked, Alive
<1>2. TypeOK /\ IInv /\ [Next]_vars => IInv'
  <2> SUFFICES ASSUME TypeOK, IInv, [Next]_vars PROVE IInv'
    OBVIOUS
  <2>1. CASE UNCHANGED vars
    BY <2>1 DEF IInv, PlacesAgree, SweepAgrees, KilledChildrenAreDeaf, SweptLeadersAreGone,
           RunningIsTracked, KilledIsCancelled, AgentsLeaveNothing, ExitLeavesNoLeader,
           Untracked, Alive
  <2> QED BY <2>1, ThreadKeeps, AgentKeeps, HandlerKeeps, ProcessKeeps DEF Next
<1> QED BY <1>1, <1>2, TypeCorrect, PTL DEF Spec

-----------------------------------------------------------------------------
(* What follows *)

\* A command that runs can be found by the shutdown, but for the moment between
\* its spawn and its registration and for an agent that has no log (procs.register).
THEOREM WhatRunsIsTracked == Spec => []RunningIsTracked
<1>1. IInv => RunningIsTracked
  BY DEF IInv
<1> QED BY Invariant, <1>1, PTL

\* "Kill every tracked process": no group that shutdown() is through with has a leader
\* at work, nor a child that has seen SIGTERM with it and listens to it.
THEOREM SweepsKill == Spec => []SweptAreGone
<1>1. IInv => SweptAreGone
  BY DEF IInv, SweptLeadersAreGone, KilledChildrenAreDeaf, SweptAreGone
<1> QED BY Invariant, <1>1, PTL

\* A command that the shutdown killed costs its task no attempt (the second look at
\* the flag in verify.py and merge.py).
THEOREM KillsAreNoFailures == Spec => []KilledIsCancelled
<1>1. IInv => KilledIsCancelled
  BY DEF IInv
<1> QED BY Invariant, <1>1, PTL

\* An agent that ended by itself leaves nothing at work in its worktree (_reap_orphans).
THEOREM WorktreesAreQuiet == Spec => []AgentsLeaveNothing
<1>1. IInv => AgentsLeaveNothing
  BY DEF IInv
<1> QED BY Invariant, <1>1, PTL

\* When po is gone, so is every command it started, but for what the second Ctrl-C
\* and an agent without a log leave (asyncio.run joins the threads).
THEOREM NothingOutlivesPo == Spec => []ExitLeavesNoLeader
<1>1. IInv => ExitLeavesNoLeader
  BY DEF IInv
<1> QED BY Invariant, <1>1, PTL

===============================================================================
