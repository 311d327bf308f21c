------------------------------ MODULE JobBoard ------------------------------
(***************************************************************************)
(* What the runner promises of a job id, with no goroutine, semaphore or   *)
(* map in sight (the concurrency model of spec/architecture.md): a job is  *)
(* taken once, waits, runs beside at most Limit - 1 others, leaves, and    *)
(* only then may it be taken again.                                        *)
(***************************************************************************)
EXTENDS Naturals, FiniteSets

CONSTANTS JobIds, Limit

VARIABLES waiting, running, leaving, closing

boardVars == <<waiting, running, leaving, closing>>

BoardInit ==
    /\ waiting = {} /\ running = {} /\ leaving = {}
    /\ closing = FALSE

Take(j) ==
    /\ j \notin waiting \cup running \cup leaving
    /\ waiting' = waiting \cup {j}
    /\ UNCHANGED <<running, leaving, closing>>

Begin(j) ==
    /\ j \in waiting
    /\ Cardinality(running) < Limit
    /\ waiting' = waiting \ {j}
    /\ running' = running \cup {j}
    /\ UNCHANGED <<leaving, closing>>

\* Only a runner that is closing turns a waiting job away.
TurnAway(j) ==
    /\ closing
    /\ j \in waiting
    /\ waiting' = waiting \ {j}
    /\ leaving' = leaving \cup {j}
    /\ UNCHANGED <<running, closing>>

Finish(j) ==
    /\ j \in running
    /\ running' = running \ {j}
    /\ leaving' = leaving \cup {j}
    /\ UNCHANGED <<waiting, closing>>

LetGo(j) ==
    /\ j \in leaving
    /\ leaving' = leaving \ {j}
    /\ UNCHANGED <<waiting, running, closing>>

Close == ~closing /\ closing' = TRUE /\ UNCHANGED <<waiting, running, leaving>>

BoardNext ==
    \/ \E j \in JobIds : Take(j) \/ Begin(j) \/ TurnAway(j) \/ Finish(j) \/ LetGo(j)
    \/ Close

BoardSpec == BoardInit /\ [][BoardNext]_boardVars
=============================================================================
