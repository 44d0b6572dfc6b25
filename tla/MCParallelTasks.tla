-------------------------- MODULE MCParallelTasks --------------------------
(* ParallelTasks and TimeoutContext for TLC.  The two share nothing: focus  *)
(* says which of them moves, so that their states add up.                   *)
EXTENDS ParallelTasks, TimeoutContext

VARIABLE focus

MCInit == ParallelInit /\ TimeoutInit /\ focus \in {"branches", "tokens"}

MCNext ==
    /\ UNCHANGED focus
    /\ \/ focus = "branches" /\ ParallelNext /\ UNCHANGED timeoutVars
       \/ focus = "tokens" /\ TimeoutNext /\ UNCHANGED parallelVars

MCSpec ==
    /\ MCInit
    /\ [][MCNext]_<<parallelVars, timeoutVars, focus>>
    /\ focus = "branches" => ParallelFairness

TypeOK == ParallelTypeOK /\ TimeoutTypeOK

\* ParallelEnds, for the behaviours in which the branches move.
BranchesEnd == focus = "branches" => ParallelEnds
=============================================================================
