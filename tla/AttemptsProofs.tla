---------------------------- MODULE AttemptsProofs ----------------------------
(***************************************************************************)
(* Proofs about Attempts, for any number of agents, attempts and retries   *)
(* and any ladder of models: no work that the next attempt was promised is *)
(* lost, nothing gets in that was written to a directory that is no        *)
(* worktree, and as long as a plan asks for one model no attempt of a run  *)
(* without --model is given a weaker one than the attempts before it.      *)
(***************************************************************************)
EXTENDS Attempts, TLAPS

\* The tuples of variables are always expanded.
USE DEF row, git, world, choice, said, history, vars

LEMMA BoundsAreNat ==
  /\ Ladder \in Nat /\ Ladder >= 1 /\ Models \subseteq 1..(Ladder + 1) /\ BaseModel \in Models
  /\ MaxRetries \in Nat /\ MaxAgents \in Nat /\ MaxAttempts \in Nat /\ MaxPlans \in Nat
  BY BoundAssumption

\* What the arguments about numbers and models need of the types.
LEMMA Numbers ==
  ASSUME TypeOK
  PROVE  /\ attempt \in Nat /\ agents \in Nat /\ model \in Nat /\ plans \in Nat
         /\ attempt <= MaxAttempts /\ agents <= MaxAgents /\ model <= Ladder + 1
         /\ plans <= MaxPlans
         /\ wanted \in Models
<1>1. /\ attempt \in 0..MaxAttempts /\ agents \in 0..MaxAgents
      /\ model \in 0..(Ladder + 1) /\ plans \in 0..MaxPlans /\ wanted \in Models
  BY DEF TypeOK
<1> QED BY <1>1, BoundsAreNat

\* The work is no report.
LEMMA WorkIsNoReport ==
  ASSUME NEW k \in Report PROVE Of(k) \cap Of("work") = {}
  BY DEF Of, Report

LEMMA ItemType ==
  ASSUME NEW k \in Report \cup {"work"}, NEW n \in 1..MaxAgents
  PROVE  Item(k, n) \in Items
  BY DEF Items

\* A stronger model, or the strongest, each time; or the one off the ladder.
LEMMA EscalatedGrows ==
  ASSUME wanted \in Models, NEW n \in Nat \ {0}
  PROVE  /\ Escalated(n) \in 1..(Ladder + 1)
         /\ Escalated(n) <= Escalated(n + 1)
  BY BoundAssumption DEF Escalated

\* Every step keeps every variable in its type, and the places of the attempt, its
\* row and its worktree together.
LEMMA TypeStep == TypeOK /\ [Next]_vars => TypeOK'
<1> SUFFICES ASSUME TypeOK, [Next]_vars PROVE TypeOK'
  OBVIOUS
<1> USE BoundsAreNat DEF TypeOK, Result, Halfway, Terminal
<1>1. ASSUME NEW n \in 1..MaxAgents, NEW k \in Report \cup {"work"}, Writes(n, k)
      PROVE  TypeOK'
  <2>1. asked' \in BOOLEAN
    BY <1>1 DEF Writes
  <2>2. {files', committed', base', kept', junk'} \subseteq SUBSET Items
    <3>1. {files, committed, base, kept, junk} \subseteq SUBSET Items
      OBVIOUS
    <3> HIDE DEF TypeOK
    <3>2. Item(k, n) \in Items
      BY ItemType
    <3> QED BY <1>1, <3>1, <3>2 DEF Writes
  <2>3. /\ dir' \in {"none", "intact", "stale"} /\ dir' # "none"
        /\ dir' = "intact" <=> dir = "intact"
    BY <1>1 DEF Writes
  <2>4. /\ UNCHANGED <<up, step, status, attempt, agents, branch, committed, alive>>
        /\ UNCHANGED <<wanted, model, plans>>
    BY <1>1 DEF Writes
  <2> QED BY <2>1, <2>2, <2>3, <2>4
<1>2. ASSUME NEW n \in 1..MaxAgents, Commits(n) PROVE TypeOK'
  BY <1>2 DEF Commits
<1>3. ASSUME NEW n \in 1..MaxAgents, OrphanEnds(n) PROVE TypeOK'
  BY <1>3 DEF OrphanEnds
<1>4. ASSUME NEW n \in 1..MaxAgents, NEW k \in Report, Tidies(n, k) PROVE TypeOK'
  BY <1>4 DEF Tidies
<1>5. CASE Start
  <2>1. model' \in 0..(Ladder + 1)
    <3> HIDE DEF TypeOK
    <3>1. Escalated(attempt + 1) \in 1..(Ladder + 1)
      BY Numbers, EscalatedGrows
    <3> QED BY <1>5, <3>1, Numbers, BoundsAreNat DEF Start
  <2>2. agents' \in 0..MaxAgents /\ attempt' \in 0..MaxAttempts
    <3> HIDE DEF TypeOK
    <3> QED BY <1>5, Numbers, BoundsAreNat DEF Start, CanStart
  <2>3. alive' \subseteq 1..agents'
    <3>1. alive \subseteq 1..agents
      OBVIOUS
    <3>2. agents' = agents + 1 /\ alive' = alive \cup {agents + 1}
      BY <1>5 DEF Start
    <3> HIDE DEF TypeOK
    <3> SUFFICES ASSUME NEW n \in alive' PROVE n \in 1..agents'
      OBVIOUS
    <3>3. CASE n = agents + 1
      BY <3>2, <3>3, Numbers
    <3>4. CASE n \in 1..agents
      BY <3>2, <3>4, Numbers
    <3> QED BY <3>1, <3>2, <3>3, <3>4
  <2>4. {files', committed', base', kept', junk'} \subseteq SUBSET Items
    BY <1>5 DEF Start, Created, Leftover
  <2> QED BY <1>5, <2>1, <2>2, <2>3, <2>4 DEF Start, CanStart, Created
<1>6. CASE StartFails
  BY <1>6 DEF StartFails, CanStart, RetriedOrFailed
<1>7. ASSUME NEW code \in 0..1, NEW some \in BOOLEAN, AgentExits(code, some) PROVE TypeOK'
  <2>1. step' \in Result /\ asked' \in BOOLEAN
    BY <1>7 DEF AgentExits, Read
  <2> QED BY <1>7, <2>1 DEF AgentExits, Gone
<1>8. CASE AttemptFails
  BY <1>8 DEF AttemptFails, RetriedOrFailed
<1>9. CASE Splits
  BY <1>9 DEF Splits
<1>10. CASE SplitRemoved
  BY <1>10 DEF SplitRemoved, Removed, Detached
<1>11. CASE PreverifyFails
  BY <1>11 DEF PreverifyFails, RetriedOrFailed, Detached
<1>12. CASE PreverifyFailed
  BY <1>12 DEF PreverifyFailed, RetriedOrFailed
<1>13. CASE Verified
  BY <1>13 DEF Verified, Detached
<1>14. CASE MergeFails
  BY <1>14 DEF MergeFails, RetriedOrFailed
<1>15. CASE MergeLands
  BY <1>15 DEF MergeLands
<1>16. CASE LandedRemoved
  BY <1>16 DEF LandedRemoved, Removed, Detached
<1>17. CASE Completes
  BY <1>17 DEF Completes
<1>18. CASE StartRun \/ RunEnds
  BY <1>18 DEF StartRun, RunEnds
<1>19. CASE Interrupt
  BY <1>19 DEF Interrupt, Stops, Gone
<1>20. CASE Crash
  BY <1>20 DEF Crash, Stops
<1>21. CASE Reset
  BY <1>21 DEF Reset, Idle
<1>22. CASE Clean
  BY <1>22 DEF Clean, Idle, Removed, Detached
<1>23. CASE PlanAgain \/ FreshPlan
  <2>1. Replan
    BY <1>23 DEF PlanAgain, FreshPlan
  <2>2. plans' \in 0..MaxPlans
    <3> HIDE DEF TypeOK
    <3> QED BY <2>1, Numbers, BoundsAreNat DEF Replan
  <2>3. /\ UNCHANGED <<up, step, agents, alive, asked, dir, files, branch, committed, base>>
        /\ UNCHANGED <<kept, junk>> /\ wanted' \in Models /\ step = "idle"
    BY <2>1 DEF Replan, Idle
  <2>4. status' \in {"pending", status} /\ attempt' \in {0, attempt} /\ model' = 0
    BY <1>23 DEF PlanAgain, FreshPlan
  <2> QED BY <2>2, <2>3, <2>4
<1>24. CASE UNCHANGED vars
  BY <1>24
<1> QED
  BY <1>1, <1>2, <1>3, <1>4, <1>5, <1>6, <1>7, <1>8, <1>9, <1>10, <1>11, <1>12, <1>13,
     <1>14, <1>15, <1>16, <1>17, <1>18, <1>19, <1>20, <1>21, <1>22, <1>23, <1>24
  DEF Next, AgentStep

\* The attempt, its row, its worktree and its branch go together in every run.
THEOREM TypeCorrect == Spec => []TypeOK
<1>1. Init => TypeOK
  <2> SUFFICES ASSUME Init PROVE TypeOK
    OBVIOUS
  <2>1. /\ up \in BOOLEAN /\ step = "idle" /\ status = "pending"
        /\ dir = "none" /\ branch \in BOOLEAN /\ asked \in BOOLEAN
    BY DEF Init
  <2>2. /\ attempt \in 0..MaxAttempts /\ agents \in 0..MaxAgents
        /\ model \in 0..(Ladder + 1) /\ wanted \in Models /\ plans \in 0..MaxPlans
    BY BoundAssumption DEF Init
  <2>3. /\ {files, committed, base, kept, junk} \subseteq SUBSET Items
        /\ files = {} /\ committed = {} /\ alive \subseteq 1..agents
    BY DEF Init
  <2> QED BY <2>1, <2>2, <2>3 DEF TypeOK, Result, Halfway, Terminal
<1> QED BY <1>1, TypeStep, PTL DEF Spec

-----------------------------------------------------------------------------
(* The invariant that the promises to the next attempt rest on *)

\* From the verification on, the branch is checked out nowhere, so that nobody
\* commits to it: what was promised is there, and on the base once it has landed,
\* also when the branch is gone.  A task that is split has no promise left.
BranchAtRest ==
  /\ step \in {"detached", "landed"} => dir # "intact" /\ branch
  /\ step \in {"landed", "removed"} => kept \subseteq base
  /\ step = "removed" => dir # "intact" /\ ~branch
  /\ step = "split off" => kept = {}

\* The model of the last attempt is at most what its number gives.
ModelFitsAttempt == model # 0 => attempt >= 1 /\ model <= Escalated(attempt)

IInv ==
  /\ BranchAtRest
  /\ kept \subseteq Of("work")
  /\ WorkIsThere /\ NothingFromStale

LEMMA InvStep == TypeOK /\ IInv /\ [Next]_vars => IInv'
<1> SUFFICES ASSUME TypeOK, IInv, [Next]_vars PROVE IInv'
  OBVIOUS
<1> USE DEF TypeOK, IInv, BranchAtRest, WorkIsThere, NothingFromStale, Leftover, Result,
            Halfway, Terminal
<1>1. ASSUME NEW n \in 1..MaxAgents, NEW k \in Report \cup {"work"}, Writes(n, k)
      PROVE  IInv'
  BY <1>1 DEF Writes
<1>2. ASSUME NEW n \in 1..MaxAgents, Commits(n) PROVE IInv'
  BY <1>2 DEF Commits
<1>3. ASSUME NEW n \in 1..MaxAgents, OrphanEnds(n) PROVE IInv'
  BY <1>3 DEF OrphanEnds
<1>4. ASSUME NEW n \in 1..MaxAgents, NEW k \in Report, Tidies(n, k) PROVE IInv'
  BY <1>4, WorkIsNoReport DEF Tidies
<1>5. CASE Start
  <2>1. /\ dir' = "intact" /\ step' = "agent" /\ files' = Leftover
        /\ committed' = IF branch THEN committed ELSE base
        /\ base' = base /\ kept' = kept /\ junk' = junk
    BY <1>5 DEF Start, Created
  <2>2. dir = "intact" => branch
    OBVIOUS
  <2> QED BY <2>1, <2>2
<1>6. CASE StartFails
  BY <1>6 DEF StartFails, CanStart, RetriedOrFailed
<1>7. ASSUME NEW code \in 0..1, NEW some \in BOOLEAN, AgentExits(code, some) PROVE IInv'
  <2>1. step' \in Result
    BY <1>7 DEF AgentExits, Read
  <2> QED BY <1>7, <2>1 DEF AgentExits
<1>8. CASE AttemptFails
  BY <1>8 DEF AttemptFails, RetriedOrFailed
<1>9. CASE Splits
  BY <1>9 DEF Splits
<1>10. CASE SplitRemoved
  BY <1>10 DEF SplitRemoved, Removed, Detached
<1>11. CASE PreverifyFails
  BY <1>11 DEF PreverifyFails, RetriedOrFailed, Detached
<1>12. CASE PreverifyFailed
  BY <1>12 DEF PreverifyFailed, RetriedOrFailed
<1>13. CASE Verified
  BY <1>13 DEF Verified, Detached
<1>14. CASE MergeFails
  BY <1>14 DEF MergeFails, RetriedOrFailed
<1>15. CASE MergeLands
  BY <1>15 DEF MergeLands
<1>16. CASE LandedRemoved
  BY <1>16 DEF LandedRemoved, Removed, Detached
<1>17. CASE Completes
  BY <1>17 DEF Completes
<1>18. CASE StartRun \/ RunEnds
  <2>1. UNCHANGED <<step, dir, files, branch, committed, base, kept, junk>>
    BY <1>18 DEF StartRun, RunEnds
  <2> QED BY <2>1
<1>19. CASE Interrupt
  BY <1>19 DEF Interrupt, Stops
<1>20. CASE Crash
  BY <1>20 DEF Crash, Stops
<1>21. CASE Reset
  BY <1>21 DEF Reset, Idle
<1>22. CASE Clean
  BY <1>22 DEF Clean, Idle, Removed, Detached
<1>23. CASE PlanAgain
  BY <1>23 DEF PlanAgain, Replan, Idle
<1>24. CASE FreshPlan
  BY <1>24 DEF FreshPlan, Replan, Idle
<1>25. CASE UNCHANGED vars
  BY <1>25
<1> QED
  BY <1>1, <1>2, <1>3, <1>4, <1>5, <1>6, <1>7, <1>8, <1>9, <1>10, <1>11, <1>12, <1>13,
     <1>14, <1>15, <1>16, <1>17, <1>18, <1>19, <1>20, <1>21, <1>22, <1>23, <1>24, <1>25
  DEF Next, AgentStep

THEOREM Invariant == Spec => []IInv
<1>1. Init => IInv
  BY DEF Init, IInv, BranchAtRest, WorkIsThere, NothingFromStale
<1> QED BY <1>1, InvStep, TypeCorrect, PTL DEF Spec

LEMMA ModelStep == TypeOK /\ ModelFitsAttempt /\ [Next]_vars => ModelFitsAttempt'
<1> SUFFICES ASSUME TypeOK, ModelFitsAttempt, [Next]_vars PROVE ModelFitsAttempt'
  OBVIOUS
<1> USE DEF ModelFitsAttempt
<1>0. /\ wanted \in Models /\ attempt \in Nat /\ model \in Nat
      /\ model # 0 => attempt >= 1 /\ model <= Escalated(attempt)
  BY Numbers
<1>1. ASSUME UNCHANGED <<wanted, model, attempt>> PROVE ModelFitsAttempt'
  BY <1>1 DEF Escalated
<1>2. CASE Start \/ StartFails
  <2>1. attempt' = attempt + 1 /\ wanted' = wanted /\ model' \in {Escalated(attempt + 1), model}
    BY <1>2 DEF Start, StartFails
  <2>2. /\ Escalated(attempt + 1) \in Nat
        /\ attempt >= 1 => Escalated(attempt) \in Nat
        /\ attempt >= 1 => Escalated(attempt) <= Escalated(attempt + 1)
    BY <1>0, EscalatedGrows, BoundsAreNat
  <2>3. model' # 0 => model' <= Escalated(attempt + 1)
    BY <1>0, <2>1, <2>2
  <2>4. Escalated(attempt)' = Escalated(attempt + 1)
    BY <2>1 DEF Escalated
  <2> QED BY <1>0, <2>1, <2>3, <2>4
<1>3. CASE PlanAgain \/ FreshPlan
  BY <1>3 DEF PlanAgain, FreshPlan
<1>4. ASSUME Next, ~Start, ~StartFails, ~PlanAgain, ~FreshPlan
      PROVE  UNCHANGED <<wanted, model, attempt>>
  BY <1>4
  DEF Next, AgentStep, Writes, Commits, OrphanEnds, Tidies, AgentExits, AttemptFails, Splits,
      SplitRemoved, PreverifyFails, PreverifyFailed, Verified, MergeFails, MergeLands,
      LandedRemoved, Completes, StartRun, RunEnds, Interrupt, Crash, Stops, Reset, Clean
<1>5. CASE UNCHANGED vars
  BY <1>1, <1>5
<1> QED BY <1>1, <1>2, <1>3, <1>4, <1>5

\* "A retry, or `po reset` + `po run`, continues from that work": it is where the next
\* attempt starts, or on the base branch (GitWorktreeManager.create, detach, remove).
THEOREM WorkIsKept == Spec => []WorkIsThere
<1>1. IInv => WorkIsThere
  BY DEF IInv
<1> QED BY Invariant, <1>1, PTL

\* What was written to a directory that git does not know stays out of attempts and
\* branches (the case of a stale directory in create).
THEOREM StaleStaysOut == Spec => []NothingFromStale
<1>1. IInv => NothingFromStale
  BY DEF IInv
<1> QED BY Invariant, <1>1, PTL

\* "Retries use a stronger model" (escalate_model), of the runs without --model and
\* while the plan asks for one model: whatever was interrupted or reset, and whatever
\* other runs were told to use, in between.
THEOREM ModelsGrow == Spec => NeverWeaker
<1>1. TypeOK /\ ModelFitsAttempt /\ [Next]_vars => [agents' # agents => model' >= model]_vars
  <2> SUFFICES ASSUME TypeOK, ModelFitsAttempt, Next, agents' # agents PROVE model' >= model
    OBVIOUS
  <2>1. Start
    BY DEF Next, AgentStep, Writes, Commits, OrphanEnds, Tidies, StartFails, AgentExits,
           AttemptFails, Splits, SplitRemoved, PreverifyFails, PreverifyFailed, Verified,
           MergeFails, MergeLands, LandedRemoved, Completes, StartRun, RunEnds, Interrupt,
           Crash, Stops, Reset, Clean, Replan, PlanAgain, FreshPlan, Idle
  <2>2. model' \in {Escalated(attempt + 1), model} /\ attempt \in Nat /\ wanted \in Models
    BY <2>1, Numbers DEF Start
  <2>3. /\ Escalated(attempt + 1) \in Nat /\ model \in Nat
        /\ attempt >= 1 => Escalated(attempt) \in Nat
        /\ attempt >= 1 => Escalated(attempt) <= Escalated(attempt + 1)
    BY <2>2, EscalatedGrows, BoundsAreNat, Numbers
  <2> QED BY <2>2, <2>3 DEF ModelFitsAttempt
<1>2. Init => ModelFitsAttempt
  BY DEF Init, ModelFitsAttempt
<1> QED BY <1>1, <1>2, ModelStep, TypeCorrect, PTL DEF Spec, NeverWeaker

===============================================================================
