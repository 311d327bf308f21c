----------------------------- MODULE DeliveryMC -----------------------------
(* Model-checking instance of Execution. *)
EXTENDS Execution

\* What the job may send, written out.
AllMessages ==
    {Chunk(k) : k \in 1..Chunks} \cup [what : Verdicts, n : 0..Chunks, whole : BOOLEAN]
=============================================================================
