------------------------------- MODULE GitMerge -------------------------------
(***************************************************************************)
(* The merge of task branches (src/po/orchestrator/merge.py): one merge at *)
(* a time, in an executor thread, as a sequence of git commands and checks *)
(* in the repository of the project, whose HEAD, rebase and merge state    *)
(* outlive the process.  Around it, as much of the loop as decides what    *)
(* the branches hold: launch, commits, and what a result leads to.         *)
(*                                                                         *)
(* A history is the sequence of commits of a ref along first parents, a    *)
(* commit the set of patches it brings: one for an agent's commit, those   *)
(* of the whole branch for a merge commit, none for the root.  A rebase    *)
(* drops what the base holds already.  Conflicts, refusals and verdicts    *)
(* of the verification command are any.                                    *)
(***************************************************************************)
EXTENDS Naturals, Sequences, SequencesExt

CONSTANTS
  Task,         \* tasks with a branch of their own
  Verified,     \* the tasks that have a verification command
  Start,        \* the branch checked out when the first run starts
  Main,         \* the conventional branch that base detection falls back to
  None,         \* no task, no branch
  Detached,     \* what HEAD is on when it is on no branch
  MaxCommits,   \* bound: commits an agent makes on one branch
  MaxMerges,    \* bound: launches of one task (retries, resumed runs)
  MaxSessions,  \* bound: runs
  Signals,      \* may the user interrupt a run?
  Crashes       \* may the process be killed?

ASSUME GitAssumption ==
  /\ Verified \subseteq Task
  /\ {Start, Main, None, Detached} \cap Task = {}
  /\ {None, Detached} \cap {Start, Main} = {} /\ None # Detached
  /\ {MaxCommits, MaxMerges} \subseteq Nat /\ MaxSessions \in Nat \ {0}
  /\ {Signals, Crashes} \subseteq BOOLEAN

VARIABLES
  ref,       \* the history of each branch, << >> when there is none, and of Detached
  head,      \* the branch HEAD is on, or Detached
  rebasing,  \* the branch of the rebase that git has stopped in, or None
  merging,   \* does MERGE_HEAD exist?
  base,      \* _base_branch, cached for the process; None before detection
  pc,        \* the next command of _merge_sync; "idle" between merges
  current,   \* the task being merged
  result,    \* success of the MergeResult to be returned
  shut,      \* procs.is_shutting_down()
  hit,       \* the command at pc was killed by procs.shutdown()
  stage,     \* what the task table says
  made,      \* commits t's agent has made
  launches,  \* launches of t
  sessions   \* runs started

git == <<ref, head, rebasing, merging>>
merger == <<base, current, result>>
tasks == <<stage, made, launches>>
vars == <<git, merger, pc, shut, hit, tasks, sessions>>

Base == {Start, Main}
Ref == Task \cup Base \cup {Detached}
Patch == Task \X (1..MaxCommits)
\* Steps in which the first Ctrl-C may find a command, and all steps of a merge.
Commands == {"recover", "merge head", "detect", "checkout", "rebase", "picking",
             "return to base", "ff", "verify", "reset", "confirm", "abort", "onto base",
             "merge", "agent", "merge abort"}
CleanUp == {"cancelled", "cancel merge", "cancel checkout"}
Step == Commands \cup CleanUp \cup {"rmtree", "idle", "returned", "down"}

TypeOK ==
  /\ ref \in [Ref -> Seq(SUBSET Patch)]
  /\ head \in Ref
  /\ rebasing \in Task \cup {None}
  /\ merging \in BOOLEAN
  /\ base \in Base \cup {None}
  /\ pc \in Step
  /\ current \in IF pc \in {"idle", "down"} THEN {None} ELSE Task
  /\ result \in BOOLEAN
  /\ shut \in BOOLEAN /\ hit \in BOOLEAN
  /\ stage \in [Task -> {"pending", "running", "completed", "failed"}]
  /\ made \in [Task -> 0..MaxCommits]
  /\ launches \in [Task -> 0..MaxMerges]
  /\ sessions \in 1..MaxSessions

Patches(h) == UNION ToSet(h)

\* The commits of h that are not in the history g, and h replayed on g.
Missing(h, g) ==
  LET picked[n \in 0..Len(h)] ==
        IF n = 0 THEN << >>
        ELSE IF h[n] \subseteq Patches(g) THEN picked[n - 1]
        ELSE Append(picked[n - 1], h[n])
  IN  picked[Len(h)]
Rebased(h, g) == g \o Missing(h, g)

\* git merge-base --is-ancestor
IsAncestor(h, g) == Patches(h) \subseteq Patches(g)

Init ==
  /\ ref = [r \in Ref |-> IF r \in Base THEN << {} >> ELSE << >>]
  /\ head = Start
  /\ rebasing = None
  /\ merging = FALSE
  /\ base = None
  /\ pc = "idle"
  /\ current = None
  /\ result = FALSE
  /\ shut = FALSE
  /\ hit = FALSE
  /\ stage = [t \in Task |-> "pending"]
  /\ made = [t \in Task |-> 0]
  /\ launches = [t \in Task |-> 0]
  /\ sessions = 1

-----------------------------------------------------------------------------
(* The loop around the merge *)

\* A worktree on the branch of t, which is cut from HEAD when it is new.  git
\* refuses a branch that is checked out in the project itself.  The loop
\* launches between merges only.
Launch(t) ==
  /\ pc = "idle"
  /\ stage[t] = "pending"
  /\ launches[t] < MaxMerges
  /\ head # t
  /\ ref' = [ref EXCEPT ![t] = IF @ # << >> THEN @
                               ELSE ref[head]]
  /\ stage' = [stage EXCEPT ![t] = "running"]
  /\ launches' = [launches EXCEPT ![t] = @ + 1]
  /\ UNCHANGED <<head, rebasing, merging, merger, pc, shut, hit, made, sessions>>

\* An agent commits in its worktree, whatever is being merged.
AgentCommits(t) ==
  /\ stage[t] = "running"
  /\ t # current /\ pc # "down"
  /\ made[t] < MaxCommits
  /\ made' = [made EXCEPT ![t] = @ + 1]
  /\ ref' = [ref EXCEPT ![t] = Append(@, {<<t, made[t] + 1>>})]
  /\ UNCHANGED <<head, rebasing, merging, merger, pc, shut, hit, stage, launches, sessions>>

\* t's agent succeeded and its worktree is detached: merge().
StartMerge(t) ==
  /\ pc = "idle"
  /\ stage[t] = "running"
  /\ current' = t
  /\ result' = FALSE
  /\ pc' = "recover"
  /\ UNCHANGED <<git, base, shut, hit, tasks, sessions>>

\* Mutant of MergeReturns: the task stays the one that is merged.
MergeReturnsKeepingCurrent ==
  /\ pc = "returned"
  /\ pc' = IF shut THEN "down" ELSE "idle"
  /\ UNCHANGED <<git, merger, shut, hit, tasks, sessions>>

\* The coroutine resumes: a shutdown parks the task; success deletes the
\* branch and completes the task; failure is retried while launches are left.
MergeReturns ==
  /\ pc = "returned"
  /\ \/ /\ shut
        /\ stage' = [stage EXCEPT ![current] = "pending"]
        /\ pc' = "down"
        /\ UNCHANGED ref
     \/ /\ ~shut /\ result
        /\ stage' = [stage EXCEPT ![current] = "completed"]
        /\ ref' = [ref EXCEPT ![current] = << >>]
        /\ pc' = "idle"
     \/ /\ ~shut /\ ~result
        /\ stage' = [stage EXCEPT ![current] =
                       IF launches[current] < MaxMerges THEN "pending" ELSE "failed"]
        /\ pc' = "idle"
        /\ UNCHANGED ref
  /\ current' = None
  /\ UNCHANGED <<head, rebasing, merging, base, result, shut, hit, made, launches, sessions>>

\* The first Ctrl-C: procs.shutdown() kills the command in flight, if any.  With
\* no merge in progress the run ends.
Signal ==
  /\ Signals
  /\ ~shut
  /\ pc # "down"
  /\ shut' = TRUE
  /\ hit' \in {k \in BOOLEAN : k => pc \in Commands}
  /\ pc' = IF pc = "idle" THEN "down" ELSE pc
  /\ UNCHANGED <<git, merger, tasks, sessions>>

\* The process is killed between, or in, any two commands.
Crash ==
  /\ Crashes
  /\ pc # "down"
  /\ pc' = "down"
  /\ current' = None
  /\ UNCHANGED <<git, base, result, shut, hit, tasks, sessions>>

\* `po reset` of what was running, and `po run`: a new process.
Restart ==
  /\ pc = "down"
  /\ sessions < MaxSessions
  /\ sessions' = sessions + 1
  /\ pc' = "idle"
  /\ base' = None
  /\ shut' = FALSE
  /\ hit' = FALSE
  /\ stage' = [t \in Task |-> IF stage[t] = "running" THEN "pending" ELSE stage[t]]
  /\ UNCHANGED <<git, current, result, made, launches>>

-----------------------------------------------------------------------------
(* _merge_sync: the rebase path *)

\* The commands leave the loop's state alone; the next one is not killed.
Goto(step) ==
  /\ pc' = step
  /\ hit' = FALSE
  /\ UNCHANGED <<current, shut, tasks, sessions>>

\* The merge is over, with this verdict.
Return(success) ==
  /\ result' = success
  /\ Goto("returned")
  /\ UNCHANGED base


\* Mutant of Recover: only MERGE_HEAD is looked at.
RecoverMergeOnly ==
  /\ pc = "recover"
  /\ Goto("merge head")
  /\ UNCHANGED <<git, base, result>>

\* rebase --abort puts HEAD on the branch that was rebased ...
Recover ==
  /\ pc = "recover"
  /\ \/ head' = (IF rebasing # None THEN rebasing ELSE head) /\ rebasing' = None
     \/ hit /\ UNCHANGED <<head, rebasing>>
  /\ Goto("rmtree")
  /\ UNCHANGED <<ref, merging, base, result>>

\* ... the removal of what it left behind leaves HEAD detached ...
RemoveRebase ==
  /\ pc = "rmtree"
  /\ rebasing' = None
  /\ Goto("merge head")
  /\ UNCHANGED <<ref, head, merging, base, result>>

\* ... and merge --abort, if there is a MERGE_HEAD.
RecoverMerge ==
  /\ pc = "merge head"
  /\ \/ merging' = FALSE
     \/ hit /\ UNCHANGED merging
  /\ Goto("detect")
  /\ UNCHANGED <<ref, head, rebasing, base, result>>

\* _get_base_branch
DetectedBase ==
  CASE base # None -> base
    [] base = None /\ head \in Base -> head
    [] OTHER -> Main

\* It is asked once in a process, and falls back to main when its own command
\* is killed.
DetectBase ==
  /\ pc = "detect"
  /\ \/ base' = DetectedBase
     \/ hit /\ base = None /\ base' = Main
  /\ Goto("checkout")
  /\ UNCHANGED <<git, result>>

\* checkout -f base, which forgets a MERGE_HEAD too, and the first look at the
\* shutdown flag.
CheckoutBase ==
  /\ pc = "checkout"
  /\ \/ head' = base /\ merging' = FALSE
     \/ hit /\ UNCHANGED <<head, merging>>
  /\ Goto(IF shut THEN "cancelled" ELSE "rebase")
  /\ UNCHANGED <<ref, rebasing, base, result>>

\* rebase base branch: git detaches HEAD and replays the branch, commit by
\* commit ...
RebaseBegins ==
  /\ pc = "rebase"
  /\ \/ /\ rebasing = None
        /\ rebasing' = current
        /\ head' = Detached
        /\ \E n \in 0..Len(Missing(ref[current], ref[base])) :
             ref' = [ref EXCEPT ![Detached] =
                       SubSeq(Rebased(ref[current], ref[base]), 1, Len(ref[base]) + n)]
     \/ UNCHANGED <<ref, rebasing, head>>
  /\ pc' = "picking"
  /\ UNCHANGED <<merging, merger, shut, hit, tasks, sessions>>

\* ... and then moves the branch and puts HEAD on it ...
RebaseEnds ==
  /\ pc = "picking"
  /\ rebasing = current
  /\ ref' = [ref EXCEPT ![current] = Rebased(@, ref[base])]
  /\ rebasing' = None
  /\ head' = current
  /\ Goto(IF shut THEN "cancelled" ELSE "return to base")
  /\ UNCHANGED <<merging, base, result>>

\* ... unless it was refused (an untracked file in the way), met a conflict or
\* was killed.
RebaseFails ==
  /\ pc = "picking"
  /\ rebasing = current => hit \/ Missing(ref[current], ref[base]) # << >>
  /\ Goto(IF shut THEN "cancelled" ELSE "abort")
  /\ UNCHANGED <<git, base, result>>

\* Mutant of ReturnToBase: forgotten.
StayOnBranch ==
  /\ pc = "return to base"
  /\ Goto("ff")
  /\ UNCHANGED <<git, base, result>>

\* checkout base, whose exit status nobody looks at.
ReturnToBase ==
  /\ pc = "return to base"
  /\ \/ head' = base
     \/ hit /\ UNCHANGED head
  /\ Goto("ff")
  /\ UNCHANGED <<ref, rebasing, merging, base, result>>

\* merge --ff-only branch, into whatever HEAD is on.
FastForward ==
  /\ pc = "ff"
  /\ \/ /\ IsPrefix(ref[head], ref[current])
        /\ ref' = [ref EXCEPT ![head] = ref[current]]
        /\ \/ Goto("verify") /\ UNCHANGED <<base, result>>
           \/ hit /\ Return(FALSE)
     \/ /\ hit \/ ~IsPrefix(ref[head], ref[current])
        /\ Return(FALSE)
        /\ UNCHANGED ref
  /\ UNCHANGED <<head, rebasing, merging>>

\* _run_verification: any verdict, and no other than failure in a shutdown.
Verify ==
  /\ pc = "verify"
  /\ \/ current \notin Verified /\ Goto("confirm")
     \/ current \in Verified /\ ~shut /\ Goto("confirm")
     \/ current \in Verified /\ Goto("reset")
  /\ UNCHANGED <<git, base, result>>

\* reset --hard HEAD~1, which also ends a merge in progress.
Reset ==
  /\ pc = "reset"
  /\ \/ /\ ref' = [ref EXCEPT ![head] = IF Len(@) > 1 THEN Front(@) ELSE @]
        /\ merging' = FALSE
     \/ hit /\ UNCHANGED <<ref, merging>>
  /\ Return(FALSE)
  /\ UNCHANGED <<head, rebasing>>

\* Mutant of Confirm: nobody asks git.
ConfirmAlways ==
  /\ pc = "confirm"
  /\ Return(TRUE)
  /\ UNCHANGED git

\* _confirm_merged
Confirm ==
  /\ pc = "confirm"
  /\ \/ Return(IsAncestor(ref[current], ref[base]))
     \/ hit /\ Return(FALSE)
  /\ UNCHANGED git

\* _cancelled, command by command: rebase --abort ...
Cancelled ==
  /\ pc = "cancelled"
  /\ head' = IF rebasing # None THEN rebasing ELSE head
  /\ rebasing' = None
  /\ Goto("cancel merge")
  /\ UNCHANGED <<ref, merging, base, result>>

\* ... merge --abort ...
CancelMerge ==
  /\ pc = "cancel merge"
  /\ merging' = FALSE
  /\ Goto("cancel checkout")
  /\ UNCHANGED <<ref, head, rebasing, base, result>>

\* ... and checkout -f base.
CancelCheckout ==
  /\ pc = "cancel checkout"
  /\ head' = base
  /\ Return(FALSE)
  /\ UNCHANGED <<ref, rebasing, merging>>

-----------------------------------------------------------------------------
(* _try_agent_merge *)

\* Mutant of RebaseAborted: the failed rebase is left.
RebaseLeft ==
  /\ pc = "abort"
  /\ Goto(IF shut THEN "cancelled" ELSE "onto base")
  /\ UNCHANGED <<git, base, result>>

\* rebase --abort of the rebase that failed, and the look at the flag.
RebaseAborted ==
  /\ pc = "abort"
  /\ \/ /\ rebasing' = None
        /\ head' = IF rebasing # None THEN rebasing ELSE head
     \/ hit /\ UNCHANGED <<rebasing, head>>
  /\ Goto(IF shut THEN "cancelled" ELSE "onto base")
  /\ UNCHANGED <<ref, merging, base, result>>

\* checkout -f base
OntoBase ==
  /\ pc = "onto base"
  /\ \/ head' = base /\ merging' = FALSE
     \/ hit /\ UNCHANGED <<head, merging>>
  /\ Goto("merge")
  /\ UNCHANGED <<ref, rebasing, base, result>>

\* A merge commit of the branch on HEAD, or nothing if HEAD holds it.
Committed ==
  [ref EXCEPT ![head] = IF IsAncestor(ref[current], @) THEN @
                        ELSE Append(@, Patches(Missing(ref[current], @)))]

\* merge --no-ff --no-commit branch: without conflict, and then commit, which
\* may fail (a hook, no identity) or be killed; refused by git, or killed early;
\* stopped at a conflict, or killed late.
MergeCommits ==
  /\ pc = "merge"
  /\ \/ ref' = Committed /\ merging' = FALSE
     \/ UNCHANGED ref /\ merging' = ~IsAncestor(ref[current], ref[head])
     \/ hit /\ UNCHANGED ref /\ merging' \in BOOLEAN
  /\ Goto("verify")
  /\ UNCHANGED <<head, rebasing, base, result>>

MergeRefused ==
  /\ pc = "merge"
  /\ Return(FALSE)
  /\ UNCHANGED git

MergeConflicts ==
  /\ pc = "merge"
  /\ hit \/ ~IsAncestor(ref[current], ref[head])
  /\ merging' = TRUE
  /\ Goto("agent")
  /\ UNCHANGED <<ref, head, rebasing, base, result>>

\* _invoke_merge_agent ends with exit status 0 and no unmerged file: it has
\* committed the merge, only staged it, or aborted it.
AgentMerges ==
  /\ pc = "agent"
  /\ ~shut
  /\ \/ ref' = Committed /\ merging' = FALSE
     \/ ref' = ref /\ merging' \in BOOLEAN
  /\ Goto("verify")
  /\ UNCHANGED <<head, rebasing, base, result>>

\* It fails, and may have committed before ...
AgentFails ==
  /\ pc = "agent"
  /\ ~shut
  /\ \/ ref' = Committed /\ merging' = FALSE
     \/ ref' = ref /\ merging' \in BOOLEAN
  /\ Goto("merge abort")
  /\ UNCHANGED <<head, rebasing, base, result>>

\* ... so merge --abort takes back only what it has not committed.
MergeAborted ==
  /\ pc = "merge abort"
  /\ \/ merging' = FALSE
     \/ hit /\ UNCHANGED merging
  /\ Return(FALSE)
  /\ UNCHANGED <<ref, head, rebasing>>

\* It is killed; it may have committed before.
AgentKilled ==
  /\ pc = "agent"
  /\ shut
  /\ \/ ref' = Committed /\ merging' = FALSE
     \/ ref' = ref /\ merging' \in BOOLEAN
  /\ Goto("cancelled")
  /\ UNCHANGED <<head, rebasing, base, result>>

-----------------------------------------------------------------------------

MergeSync ==
  \/ Recover \/ RemoveRebase \/ RecoverMerge \/ DetectBase \/ CheckoutBase
  \/ RebaseBegins \/ RebaseEnds \/ RebaseFails \/ ReturnToBase \/ FastForward
  \/ Verify \/ Reset \/ Confirm
  \/ Cancelled \/ CancelMerge \/ CancelCheckout
  \/ RebaseAborted \/ OntoBase \/ MergeCommits \/ MergeRefused \/ MergeConflicts
  \/ AgentMerges \/ AgentFails \/ MergeAborted \/ AgentKilled

Next ==
  \/ MergeSync \/ MergeReturns
  \/ \E t \in Task : Launch(t) \/ AgentCommits(t) \/ StartMerge(t)
  \/ Signal \/ Crash \/ Restart

Spec == Init /\ [][Next]_vars

-----------------------------------------------------------------------------
(* What the merge promises *)

\* A merge that reports success has put the whole branch on the base branch,
\* whatever was killed, refused, or left undone by the merge agent: the caller
\* deletes the branch on this answer (_confirm_merged).
SuccessHasLanded ==
  pc = "returned" /\ result => IsAncestor(ref[current], ref[base])

\* A rebase starts, and a merge that was not interrupted returns, with HEAD on
\* the base branch and no rebase left, whatever state a killed run or a failed
\* rebase left behind (the recovery at the head of _merge_sync, the aborts).
CleanBase ==
  pc = "rebase" \/ (pc = "returned" /\ ~shut) => head = base /\ rebasing = None

\* What each command of a merge relies on.  The base branch is known once it was
\* detected, a kill happens only in a shutdown, HEAD is on the base branch and no
\* rebase is left wherever the code assumes it, unless a shutdown has begun; and
\* what was confirmed stays on the base while the result is on its way.
MergeInv ==
  /\ pc \notin {"idle", "down"} => current \in Task
  /\ base \in Base \cup {None}
  /\ pc \notin {"idle", "down", "recover", "rmtree", "merge head", "detect"}
       => base # None
  /\ hit \/ pc \in CleanUp => shut
  /\ pc \in {"merge head", "detect", "checkout", "return to base", "onto base"}
       => rebasing = None
  /\ pc = "rebase" => head = base /\ rebasing = None
  /\ pc \in {"picking", "abort"} /\ rebasing = None => head = base
  /\ pc \in {"ff", "verify", "reset", "confirm", "merge", "agent", "merge abort",
             "returned"} /\ ~shut
       => head = base /\ rebasing = None
  /\ SuccessHasLanded

\* What an agent has committed stays on its branch until it is on the base: no
\* recovery, failed merge or kill takes it away, as long as no signal does
\* (the branch of a failed task is kept for its retry).
BranchKeepsWork ==
  [][\A t \in Task :
       ~shut => \/ Patches(ref[t]) \subseteq Patches(ref'[t])
                \/ Patches(ref[t]) \subseteq Patches(ref'[base])]_vars

\* README.md:42: a completed task stays on the base branch: "merged tasks stay
\* merged".
MergedStaysMerged ==
  \A t \in Task : stage[t] = "completed" =>
    {t} \X (1..made[t]) \subseteq Patches(ref[Start])

=============================================================================
