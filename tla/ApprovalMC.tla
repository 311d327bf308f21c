----------------------------- MODULE ApprovalMC -----------------------------
(* Model-checking instance of Approval. *)
EXTENDS Approval

CONSTANTS j1, j2, plain, rm, evil

AllEntries == {plain, rm, evil, "confirm", "block"}

\* An operator who confirms everything, and once allowed evil, which is blocked
\* since.
Starts == {{evil, "confirm", "block"}}

\* The same script twice, two scripts, and one that is blocked.
SomeAssignments ==
    {[j \in Jobs |-> rm], [j \in Jobs |-> IF j = j1 THEN rm ELSE plain],
     [j \in Jobs |-> IF j = j1 THEN evil ELSE plain]}

\* A terminal or a display, with and without a timeout.
AllModes == [headless : BOOLEAN, never : BOOLEAN]
=============================================================================
