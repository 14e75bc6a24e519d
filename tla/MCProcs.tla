------------------------------- MODULE MCProcs -------------------------------
(***************************************************************************)
(* Commands and process groups for the runs of Procs.                      *)
(***************************************************************************)
EXTENDS Procs

CONSTANTS verify, git, resolver, agent

NoOne == {}
OneVerify == {verify}
OneGit == {git}
OneResolver == {resolver}
OneAgent == {agent}

AGroup(c, h, w, deaf) == [child |-> c, holds |-> h, waits |-> w, ignores |-> deaf]

Lone == AGroup(FALSE, FALSE, TRUE, {})

\* A shell that waits for its command, which has its output, and the same with
\* both deaf to SIGTERM; a server detached from the output, and one that is deaf
\* to SIGTERM.
TidyGroups ==
  { Lone,
    AGroup(TRUE, TRUE, TRUE, {}), AGroup(TRUE, TRUE, TRUE, {"leader", "child"}),
    AGroup(TRUE, FALSE, FALSE, {}), AGroup(TRUE, FALSE, FALSE, {"child"}) }

TidyShapes ==
  [j \in Job |-> IF j \in Verify \cup Agent THEN TidyGroups ELSE {Lone}]

\* Two commands of the four at most are ever started.  Nothing obliges a command
\* to start, so every behaviour that is left is one of FairSpec.
TwoCommands == Cardinality({j \in Job : pc[j] # "idle"}) <= 2

\* `server &`: the shell ends and leaves a child that has its output.
BackgroundShapes ==
  [j \in Job |-> {AGroup(TRUE, TRUE, FALSE, {})}]

===============================================================================
