------------------------------- MODULE JobsMC -------------------------------
(* Model-checking instances of Jobs. *)
EXTENDS Jobs, TLC

CONSTANTS j1, j2

\* Every kind of job, inside and outside a repository.
AllPayloads == [id : JobIds, kind : {"bash", "script", "tool"}, repo : BOOLEAN]

\* A script that may not be in the library, and one with a worktree.
QueuePayloads ==
    {[id |-> j1, kind |-> "script", repo |-> FALSE],
     [id |-> j2, kind |-> "bash", repo |-> TRUE]}

\* Goroutines are interchangeable, and so are job ids: sound for the safety
\* run, and not used by the run with liveness.
Symmetry == Permutations(Goroutines) \cup Permutations(JobIds)
=============================================================================
