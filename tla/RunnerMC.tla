------------------------------ MODULE RunnerMC ------------------------------
(* Model-checking instances of Runner. *)
EXTENDS Runner, TLC

\* One kind of job is enough here: module Jobs is checked with all of them.
ToolPayloads == [id : JobIds, kind : {"tool"}, repo : {FALSE}]

\* The network may be lost, and then stays lost; ConnectionHistory is checked
\* with every other behaviour of it.
LosingSpec ==
    /\ RunnerInit /\ network = "up"
    /\ [][RunnerNext /\ (network = "down" => network' = "down")]_runnerVars
    /\ RunnerFairness
=============================================================================
