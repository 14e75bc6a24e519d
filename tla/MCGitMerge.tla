------------------------------ MODULE MCGitMerge ------------------------------
(* The tasks and branches of the runs of GitMerge. *)
EXTENDS GitMerge

CONSTANTS a, b, dev, main

===============================================================================
