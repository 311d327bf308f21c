-------------------------- MODULE ConnectionHistory --------------------------
(***************************************************************************)
(* Connection with two history variables, to say what "consecutive" means  *)
(* when two loops count on the same counters: the last two answers, of     *)
(* either loop, in the order in which the critical sections of connMu      *)
(* counted them.                                                           *)
(***************************************************************************)
EXTENDS Connection

VARIABLES
    judged,    \* by handleAuthRevoked
    recorded   \* by recordAPISuccess and recordAPIFailure

histVars == <<connVars, judged, recorded>>

HistInit ==
    /\ ConnInit
    /\ judged = <<"none", "none">>
    /\ recorded = <<"none", "none">>

\* The history after this step, if it takes a loop past the position where
\* an answer is counted.
Counted(history, position) ==
    IF \E l \in Loops : at[l] = position /\ at'[l] # position
    THEN <<history[2],
           answer[CHOOSE l \in Loops : at[l] = position /\ at'[l] # position]>>
    ELSE history

HistNext ==
    /\ ConnNext
    /\ judged' = Counted(judged, "judge")
    /\ recorded' = Counted(recorded, "record")

HistSpec == HistInit /\ [][HistNext]_histVars

\* The fairness of Connection: the history adds no step of its own.
HistFairSpec == HistSpec /\ ConnFairness

\* The thresholds count in a row, though two loops share the counters.  The
\* loops together decide to log out only on two refusals with no other answer
\* counted between them (TestHandleAuthRevoked_ResetsOnSuccess), and the runner
\* is marked unreachable only on two failed calls with no success recorded
\* between them (docs/KNOWLEDGE.md, "apiFailureThreshold = 2 before marking
\* disconnected").
ThresholdsCountInARow ==
    [][/\ \A l \in Loops : at[l] # "once" /\ at'[l] = "once"
            => judged' = <<"refused", "refused">>
       /\ apiReachable /\ ~apiReachable' => "ok" \notin {recorded'[1], recorded'[2]}
      ]_histVars

=============================================================================
