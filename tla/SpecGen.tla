-------------------------------- MODULE SpecGen --------------------------------
(***************************************************************************)
(* `po init`: the conversation about an outline, the call of claude that   *)
(* turns it into a spec, and the plan that follows (src/po/cli.py,         *)
(* cmd_init, and src/po/init/generator.py).  `po scan` makes the same call *)
(* (src/po/scan/scanner.py), without a hold on Ctrl-C.                     *)
(*                                                                         *)
(* claude writes to two pipes of bounded size.  The main thread reads its  *)
(* standard output to the end, another thread its standard error; what     *)
(* claude has started may keep either open when claude has gone.           *)
(***************************************************************************)
EXTENDS Naturals

CONSTANTS
  Capacity,     \* what a pipe holds
  MaxOutput,    \* bound: what a call of claude writes to each pipe
  MaxRevisions  \* bound: how often the user wants another outline

ASSUME BoundAssumption ==
  Capacity \in Nat \ {0} /\ MaxOutput \in Nat /\ MaxRevisions \in Nat

VARIABLES
  stage,      \* where the command is
  call,       \* where its call of claude is
  child,      \* "none", "running", "mute" (its output closed), "exited"
  exitCode,   \* of the child: 0 or 1
  left,       \* what the child has still to write to each pipe
  pipe,       \* what is in each pipe
  holds,      \* the pipes kept open by what the child has started
  drain,      \* the thread _drain_stderr
  errors,     \* stderr_chunks
  partial,    \* what that thread has read since the last end of a line
  answer,     \* result_text, as far as it matters
  revisions,  \* outlines sent back
  file,       \* the spec file: is it there?
  cut         \* history: how a call was left other than by its handler or its end

command == <<stage, revisions, file>>
process == <<child, exitCode, left, holds>>
collected == <<errors, partial>>
reading == <<call, drain, collected, answer>>
vars == <<command, process, reading, pipe, cut>>

Pipe == {"out", "err"}
Stage == {"start", "outline", "review", "spec", "check", "plan", "planned", "failed",
          "interrupted"}
Over == {"planned", "failed", "interrupted"}
Answer == {"none", "prose", "invalid", "cyclic", "valid"}

TypeOK ==
  /\ stage \in Stage
  /\ call \in {"none", "spawned", "reading", "stopping", "waiting", "joining"}
  /\ call # "none" => stage \in {"outline", "spec"}
  /\ child \in {"none", "running", "mute", "exited"}
  /\ exitCode \in 0..1
  /\ left \in [Pipe -> 0..MaxOutput] /\ pipe \in [Pipe -> 0..Capacity]
  /\ holds \in SUBSET Pipe
  /\ drain \in {"none", "reading", "ended"}
  /\ errors \in 0..MaxOutput /\ partial \in 0..MaxOutput
  /\ answer \in Answer
  /\ stage \in {"review", "check", "plan"} => answer # "none"
  /\ revisions \in 0..MaxRevisions
  /\ file \in BOOLEAN /\ cut \in {"no", "early", "raised", "again", "late"}

Init ==
  /\ stage = "start" /\ revisions = 0 /\ file \in BOOLEAN
  /\ call = "none" /\ drain = "none" /\ answer = "none"
  /\ errors = 0 /\ partial = 0
  /\ child = "none" /\ exitCode = 0 /\ left = [p \in Pipe |-> 0] /\ holds = {}
  /\ pipe = [p \in Pipe |-> 0]
  /\ cut = "no"

-----------------------------------------------------------------------------
(* claude *)

ChildWrites(p) ==
  /\ child = "running" \/ (child = "mute" /\ p = "err")
  /\ left[p] > 0 /\ pipe[p] < Capacity
  /\ left' = [left EXCEPT ![p] = @ - 1]
  /\ pipe' = [pipe EXCEPT ![p] = @ + 1]
  /\ UNCHANGED <<command, reading, child, exitCode, holds, cut>>

ChildCloses ==
  /\ child = "running" /\ left["out"] = 0
  /\ child' = "mute"
  /\ UNCHANGED <<command, reading, exitCode, left, pipe, holds, cut>>

ChildExits ==
  /\ child \in {"running", "mute"}
  /\ \A p \in Pipe : left[p] = 0
  /\ child' = "exited"
  /\ exitCode' \in 0..1
  /\ holds' \in SUBSET (IF child = "mute" THEN {"err"} ELSE Pipe)
  /\ UNCHANGED <<command, reading, left, pipe, cut>>

\* What claude has started ends.
RestEnds ==
  /\ child = "exited" /\ holds # {}
  /\ holds' = {}
  /\ UNCHANGED <<command, reading, child, exitCode, left, pipe, cut>>

Ended(p) ==
  /\ pipe[p] = 0 /\ p \notin holds
  /\ child = "exited" \/ (child = "mute" /\ p = "out")

-----------------------------------------------------------------------------
(* _invoke_claude *)

Calls == stage \in {"outline", "spec"} /\ call = "none"

Spawn ==
  /\ Calls
  /\ child' = "running" /\ exitCode' = 0 /\ holds' = {}
  /\ left' \in [Pipe -> 0..MaxOutput]
  /\ pipe' = [p \in Pipe |-> 0]
  /\ call' = "spawned" /\ drain' = "none" /\ answer' = "none"
  /\ errors' = 0 /\ partial' = 0
  /\ UNCHANGED <<command, cut>>

\* claude is not on PATH: RuntimeError, which ends the command.
SpawnFails ==
  /\ Calls
  /\ stage' = "failed"
  /\ UNCHANGED <<revisions, file, process, reading, pipe, cut>>

\* The thread for its standard error, the status line and the log, and the try.
Prepared ==
  /\ call = "spawned"
  /\ call' = "reading" /\ drain' = "reading"
  /\ UNCHANGED <<command, process, collected, answer, pipe, cut>>

\* The command ends on an exception out of the call.
Leaves(how) ==
  /\ stage' = how /\ call' = "none" /\ drain' = "none"
  /\ UNCHANGED <<revisions, file, exitCode, left, holds, collected, answer, pipe>>

\* One of them fails, before the try: nobody stops claude.
PrepareFails ==
  /\ call = "spawned"
  /\ Leaves("failed")
  /\ cut' = "early"
  /\ UNCHANGED child

\* A line of the output; one of type "result" is the answer.
MainReads ==
  /\ call = "reading" /\ pipe["out"] > 0
  /\ pipe' = [pipe EXCEPT !["out"] = @ - 1]
  /\ answer' \in {answer} \cup (Answer \ {"none"})
  /\ UNCHANGED <<command, process, call, drain, collected, cut>>

OutputEnds ==
  /\ call = "reading" /\ Ended("out")
  /\ call' = "waiting"
  /\ UNCHANGED <<command, process, drain, collected, answer, pipe, cut>>

\* Something of the standard error: the thread is given whole lines only.
ReadsError ==
  /\ drain = "reading" /\ pipe["err"] > 0
  /\ pipe' = [pipe EXCEPT !["err"] = @ - 1]
  /\ \/ errors' = errors + partial + 1 /\ partial' = 0
     \/ partial' = partial + 1 /\ UNCHANGED errors
  /\ UNCHANGED <<command, process, call, drain, answer, cut>>

\* Mutant of DrainReads: standard error is read when claude has exited.
DrainReadsLate == call = "joining" /\ ReadsError

DrainReads == ReadsError

\* At the end of the file the thread is given the rest.
DrainEnds ==
  /\ drain = "reading" /\ Ended("err")
  /\ drain' = "ended"
  /\ errors' = errors + partial /\ partial' = 0
  /\ UNCHANGED <<command, process, call, answer, pipe, cut>>

\* A line that is no JSON object of the kind expected, or a log that cannot be
\* written: the handler is for KeyboardInterrupt only, and claude goes on.
ReadRaises ==
  /\ call = "reading" /\ pipe["out"] > 0
  /\ Leaves("failed")
  /\ cut' = "raised"
  /\ UNCHANGED child

\* proc.wait()
WaitReturns ==
  /\ call = "waiting" /\ child = "exited"
  /\ call' = "joining"
  /\ UNCHANGED <<command, process, drain, collected, answer, pipe, cut>>

\* Mutant of Returns: the exit code is all that is looked at.
ReturnsWithoutResult ==
  /\ call' = "none"
  /\ stage' = IF exitCode # 0 THEN "failed"
              ELSE IF stage = "outline" THEN "review" ELSE "check"
  /\ UNCHANGED <<revisions, file, process, drain, collected, answer, pipe, cut>>

\* The call has returned, or raised: exit code, then the lack of a result.
Returns ==
  /\ call' = "none"
  /\ stage' = IF exitCode # 0 \/ answer = "none" THEN "failed"
              ELSE IF stage = "outline" THEN "review" ELSE "check"
  /\ UNCHANGED <<revisions, file, process, drain, collected, answer, pipe, cut>>

\* Mutant of Joined: the thread is not waited for.
NotJoined == call = "joining" /\ Returns

\* stderr_thread.join(timeout=5): long enough to read what a pipe holds, so it
\* runs out only while something else keeps the pipe open.
Joined ==
  /\ call = "joining"
  /\ drain = "ended" \/ (pipe["err"] = 0 /\ "err" \in holds)
  /\ Returns

\* Mutant of Interrupt: as in `po scan`, nothing is done to claude.
InterruptOnly ==
  /\ call = "reading"
  /\ Leaves("interrupted")
  /\ UNCHANGED <<child, cut>>

\* Ctrl-C while the output is read: the handler terminates claude, which a
\* terminal may have told of the Ctrl-C too ...
Interrupt ==
  /\ call = "reading"
  /\ call' = "stopping"
  /\ UNCHANGED <<command, process, drain, collected, answer, pipe, cut>>

\* ... waits for it, and kills it when that takes too long.
Stopped ==
  /\ call = "stopping"
  /\ child' = "exited"
  /\ Leaves("interrupted")
  /\ UNCHANGED cut

\* Another Ctrl-C, in that wait.
InterruptAgain ==
  /\ call = "stopping"
  /\ child' \in {child, "exited"}
  /\ Leaves("interrupted")
  /\ cut' = "again"

\* Ctrl-C before the try, and past it.
InterruptUnhandled ==
  /\ call \in {"spawned", "waiting", "joining"}
  /\ child' \in {child, "exited"}
  /\ Leaves("interrupted")
  /\ cut' = IF call = "spawned" THEN "early" ELSE "late"

-----------------------------------------------------------------------------
(* cmd_init *)

\* Without a terminal there is no outline.  The file is looked for before the
\* spec is generated, not before the outline is.
Start ==
  /\ stage = "start"
  /\ stage' \in {"outline", IF file THEN "failed" ELSE "spec"}
  /\ UNCHANGED <<revisions, file, process, reading, pipe, cut>>

Accept ==
  /\ stage = "review"
  /\ stage' = IF file THEN "failed" ELSE "spec"
  /\ UNCHANGED <<revisions, file, process, reading, pipe, cut>>

Revise ==
  /\ stage = "review" /\ revisions < MaxRevisions
  /\ stage' = "outline" /\ revisions' = revisions + 1
  /\ UNCHANGED <<file, process, reading, pipe, cut>>

\* _extract_json and ProjectSpec.validate: ValueError, or the file is written.
Check ==
  /\ stage = "check"
  /\ IF answer \in {"cyclic", "valid"} THEN stage' = "plan" /\ file' = TRUE
                                       ELSE stage' = "failed" /\ UNCHANGED file
  /\ UNCHANGED <<revisions, process, reading, pipe, cut>>

\* cmd_plan: a cycle is found here, and a conflict with an earlier plan.
PlanSpec ==
  /\ stage = "plan"
  /\ stage' \in {"failed"} \cup {s \in {"planned"} : answer # "cyclic"}
  /\ UNCHANGED <<revisions, file, process, reading, pipe, cut>>

Reading == Prepared \/ MainReads \/ OutputEnds \/ WaitReturns \/ Joined \/ Stopped
Raising == PrepareFails \/ ReadRaises
Interrupting == Interrupt \/ InterruptAgain \/ InterruptUnhandled
Draining == DrainReads \/ DrainEnds
Child == (\E p \in Pipe : ChildWrites(p)) \/ ChildCloses \/ ChildExits

Next ==
  \/ Start \/ Accept \/ Revise \/ Spawn \/ SpawnFails \/ Check \/ PlanSpec
  \/ Reading \/ Raising \/ Interrupting \/ Draining \/ Child \/ RestEnds

Spec == Init /\ [][Next]_vars

\* The two threads run, and claude writes what it has to and exits.  What it has
\* started need not end, unless it keeps the output open, which is waited for.
FairSpec ==
  /\ Spec
  /\ WF_vars(Reading) /\ WF_vars(Draining) /\ WF_vars(Child)
  /\ WF_vars("out" \in holds /\ RestEnds)

-----------------------------------------------------------------------------

\* generator.py:451 "Reading it only after the process exits would deadlock": a
\* call ends, however much claude writes to either pipe and in whatever order,
\* and whoever keeps its standard error open.
CallEnds == call # "none" ~> call = "none"

\* A call that fails on what claude answered has read all that claude wrote to its
\* standard error, "often the only place the real cause is reported"
\* (generator.py:532), though another thread reads it.  Of this the message lacks
\* at most a last line without an end, when somebody still holds the pipe.
ErrorsAreTold ==
  stage = "failed" /\ cut = "no" /\ child = "exited" =>
    pipe["err"] = 0 /\ (partial > 0 => drain = "reading")

\* When `po init` is over, after an answer, a failure to answer, or one Ctrl-C
\* while the output was read, no claude runs on.  What leaves one: an error or a
\* Ctrl-C between Popen and the try, an exception in the reading, a second Ctrl-C
\* in the handler; and a Ctrl-C past the reading leaves one that has closed its
\* output.
NoneLeftBehind ==
  stage \in Over /\ child \in {"running", "mute"} =>
    cut \in {"early", "raised", "again"} \/ (cut = "late" /\ child = "mute")

===============================================================================
