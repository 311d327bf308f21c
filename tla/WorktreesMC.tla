----------------------------- MODULE WorktreesMC -----------------------------
(* Model-checking instances of Worktrees. *)
EXTENDS Worktrees

CONSTANTS r1, r2, r3, r4, repo

\* r3 is in no repository, the others are in one.
OneOutside == [r \in Runs |-> IF r = r3 THEN NoRepo ELSE repo]

\* The branch of r2 comes with a commit that is pushed later; the others run on HEAD.
OneLate == [r \in Runs |-> IF r = r2 THEN 1 ELSE 0]
OnHead  == [r \in Runs |-> 0]
=============================================================================
