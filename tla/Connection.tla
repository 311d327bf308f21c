----------------------------- MODULE Connection -----------------------------
(***************************************************************************)
(* What the poll loop and the heartbeat loop of internal/runner/runner.go  *)
(* make of the platform's answers.  Both call handleAuthRevoked, then      *)
(* recordAPISuccess or recordAPIFailure, on counters they share under      *)
(* connMu; both may find the registration revoked and race for the         *)
(* sync.Once that logs the runner out; both tell the status sinks.         *)
(*                                                                         *)
(* A step is one critical section of connMu, one call of a sink made       *)
(* outside it, or one step of the logout callback of cmd/runner/main.go.   *)
(***************************************************************************)
EXTENDS Naturals

CONSTANT MaxApiFailures  \* bound of the model on failures while unreachable

ASSUME ConnectionAssumption == MaxApiFailures \in Nat

VARIABLES
    cancelled,     \* ctx.Done() is closed
    at,            \* where each loop stands
    answer,        \* the answer each loop is handling
    authFailures,  \* consecutive answers that refuse the token
    apiFailures,   \* consecutive failed calls
    apiReachable,
    revokedOnce,   \* the sync.Once: "new", "running", "done"
    logouts,       \* how often the callback has run
    badge,         \* what the sinks were told last
    deleted,       \* the platform has deleted the runner
    network        \* "down": the platform does not answer, or with an error

connVars == <<cancelled, at, answer, authFailures, apiFailures, apiReachable,
              revokedOnce, logouts, badge, deleted, network>>

Loops == {"poll", "beat"}

apiFailureThreshold == 2

Answers == {"ok", "refused", "error"}

Positions ==
    {"off", "idle", "judge", "once", "logout", "relaunch", "revoked",
     "record", "announce", "dispatch", "drain", "stopped"}

ConnTypeOK ==
    /\ cancelled \in BOOLEAN
    /\ at \in [Loops -> Positions]
    /\ answer \in [Loops -> Answers \cup {"none"}]
    /\ authFailures \in Nat
    /\ apiFailures \in Nat
    /\ apiReachable \in BOOLEAN
    /\ revokedOnce \in {"new", "running", "done"}
    /\ logouts \in Nat
    /\ badge \in {"connecting", "connected", "reconnecting", "offline"}
    /\ deleted \in BOOLEAN
    /\ network \in {"up", "down"}

\* Run has told the sinks SetConnecting and is about to send the first
\* heartbeat; the heartbeat loop does not run yet.
ConnInit ==
    /\ cancelled = FALSE
    /\ at = [l \in Loops |-> IF l = "poll" THEN "idle" ELSE "off"]
    /\ answer = [l \in Loops |-> "none"]
    /\ authFailures = 0 /\ apiFailures = 0
    /\ apiReachable = FALSE
    /\ revokedOnce = "new" /\ logouts = 0
    /\ badge = "connecting"
    /\ deleted \in BOOLEAN /\ network \in {"up", "down"}

Starting == at["beat"] = "off"

Goto(l, p) == at' = [at EXCEPT ![l] = p]

-----------------------------------------------------------------------------
(* The platform and the network, external *)

Delete ==
    /\ ~deleted
    /\ deleted' = TRUE
    /\ UNCHANGED <<cancelled, at, answer, authFailures, apiFailures, apiReachable,
                   revokedOnce, logouts, badge, network>>

NetworkChanges ==
    /\ network' \in {"up", "down"} \ {network}
    /\ UNCHANGED <<cancelled, at, answer, authFailures, apiFailures, apiReachable,
                   revokedOnce, logouts, badge, deleted>>

\* A call of PollNextJob or SendHeartbeat and its answer.  The platform may
\* refuse a token it still knows; it never accepts that of a deleted runner.
\* After a ctx.Done() the select may still take a tick.
Call(l, a) ==
    /\ at[l] = "idle"
    /\ \/ a = "ok" /\ network = "up" /\ ~deleted
       \/ a = "refused" /\ network = "up"
       \/ a = "error" /\ network = "down" /\ apiFailures < MaxApiFailures
    /\ answer' = [answer EXCEPT ![l] = a]
    /\ Goto(l, "judge")
    /\ UNCHANGED <<cancelled, authFailures, apiFailures, apiReachable, revokedOnce,
                   logouts, badge, deleted, network>>

-----------------------------------------------------------------------------
(* handleAuthRevoked *)

\* Mutants: a refusal too many is taken back; an error leaves the count alone.
ResetAuthByOne(l) ==
    /\ at[l] = "judge" /\ answer[l] # "refused"
    /\ authFailures' = authFailures - 1
    /\ Goto(l, "record")
    /\ UNCHANGED <<cancelled, answer, apiFailures, apiReachable, revokedOnce,
                   logouts, badge, deleted, network>>
ResetAuthOnSuccess(l) ==
    /\ at[l] = "judge" /\ answer[l] # "refused"
    /\ authFailures' = IF answer[l] = "ok" THEN 0 ELSE authFailures
    /\ Goto(l, "record")
    /\ UNCHANGED <<cancelled, answer, apiFailures, apiReachable, revokedOnce,
                   logouts, badge, deleted, network>>

\* Any other answer, an error that is no refusal included, starts afresh.
ResetAuth(l) ==
    /\ at[l] = "judge"
    /\ answer[l] # "refused"
    /\ authFailures' = 0
    /\ Goto(l, "record")
    /\ UNCHANGED <<cancelled, answer, apiFailures, apiReachable, revokedOnce,
                   logouts, badge, deleted, network>>

\* Mutant: the first refusal ends the loop, with no threshold and no logout.
CountRefusalReturns(l) ==
    /\ at[l] = "judge" /\ answer[l] = "refused"
    /\ authFailures' = authFailures + 1
    /\ Goto(l, "revoked")
    /\ UNCHANGED <<cancelled, answer, apiFailures, apiReachable, revokedOnce,
                   logouts, badge, deleted, network>>

\* ready is computed under the lock, and used after it.
CountRefusal(l) ==
    /\ at[l] = "judge"
    /\ answer[l] = "refused"
    /\ authFailures' = authFailures + 1
    /\ Goto(l, IF authFailures + 1 >= apiFailureThreshold THEN "once" ELSE "record")
    /\ UNCHANGED <<cancelled, answer, apiFailures, apiReachable, revokedOnce,
                   logouts, badge, deleted, network>>

\* revokedOnce.Do: the first caller runs the callback, ...
EnterOnce(l) ==
    /\ at[l] = "once"
    /\ revokedOnce = "new"
    /\ revokedOnce' = "running"
    /\ Goto(l, "logout")
    /\ UNCHANGED <<cancelled, answer, authFailures, apiFailures, apiReachable,
                   logouts, badge, deleted, network>>

\* ... which clears the local state and calls onStop, ...
Logout(l) ==
    /\ at[l] = "logout"
    /\ logouts' = logouts + 1
    /\ cancelled' = TRUE
    /\ Goto(l, "relaunch")
    /\ UNCHANGED <<answer, authFailures, apiFailures, apiReachable, revokedOnce,
                   badge, deleted, network>>

\* ... starts the setup flow and returns.
LeaveOnce(l) ==
    /\ at[l] = "relaunch"
    /\ revokedOnce' = "done"
    /\ Goto(l, "revoked")
    /\ UNCHANGED <<cancelled, answer, authFailures, apiFailures, apiReachable,
                   logouts, badge, deleted, network>>

\* Mutant: a flag instead of the sync.Once, so nobody waits.
SkipIfEntered(l) ==
    /\ at[l] = "once" /\ revokedOnce # "new"
    /\ Goto(l, "revoked")
    /\ UNCHANGED <<cancelled, answer, authFailures, apiFailures, apiReachable,
                   revokedOnce, logouts, badge, deleted, network>>

\* Every other caller waits until the callback is over.
SkipOnce(l) ==
    /\ at[l] = "once"
    /\ revokedOnce = "done"
    /\ Goto(l, "revoked")
    /\ UNCHANGED <<cancelled, answer, authFailures, apiFailures, apiReachable,
                   revokedOnce, logouts, badge, deleted, network>>

-----------------------------------------------------------------------------
(* recordAPISuccess and recordAPIFailure *)

\* After the first heartbeat, of either result, Run starts the other loop.
\* After a good poll the loop looks at the job it got.
Resume(l) ==
    /\ answer' = [answer EXCEPT ![l] = "none"]
    /\ IF Starting THEN at' = [k \in Loops |-> "idle"]
       ELSE Goto(l, IF l = "poll" /\ answer[l] = "ok" THEN "dispatch" ELSE "idle")

\* Mutant: apiReachable is read after it was set.
RecordSuccessSilently(l) ==
    /\ at[l] = "record" /\ answer[l] = "ok"
    /\ apiFailures' = 0 /\ apiReachable' = TRUE
    /\ Resume(l)
    /\ UNCHANGED <<cancelled, authFailures, revokedOnce, logouts, badge,
                   deleted, network>>

\* wasReachable is read under the lock, the sinks are told after it.
RecordSuccess(l) ==
    /\ at[l] = "record"
    /\ answer[l] = "ok"
    /\ apiFailures' = 0
    /\ apiReachable' = TRUE
    /\ IF apiReachable THEN Resume(l)
                       ELSE Goto(l, "announce") /\ UNCHANGED answer
    /\ UNCHANGED <<cancelled, authFailures, revokedOnce, logouts, badge,
                   deleted, network>>

AnnounceConnected(l) ==
    /\ at[l] = "announce"
    /\ badge' = "connected"
    /\ Resume(l)
    /\ UNCHANGED <<cancelled, authFailures, apiFailures, apiReachable,
                   revokedOnce, logouts, deleted, network>>

\* Mutant: every failed call, a refusal too, clears the count of refusals
\* (and, to keep the model finite, is not counted while unreachable).
RecordFailureForgets(l) ==
    /\ at[l] = "record" /\ answer[l] # "ok"
    /\ authFailures' = 0
    /\ apiFailures' = IF apiReachable THEN (apiFailures + 1) % apiFailureThreshold
                      ELSE apiFailures
    /\ apiReachable' = (apiReachable /\ apiFailures + 1 < apiFailureThreshold)
    /\ badge' = IF apiReachable /\ ~apiReachable' THEN "reconnecting" ELSE badge
    /\ Resume(l)
    /\ UNCHANGED <<cancelled, revokedOnce, logouts, deleted, network>>

\* A refusal below the threshold is a failure too.  SetReconnecting is called
\* with the lock held.
RecordFailure(l) ==
    /\ at[l] = "record"
    /\ answer[l] # "ok"
    /\ IF apiReachable /\ apiFailures + 1 >= apiFailureThreshold
       THEN /\ apiReachable' = FALSE
            /\ apiFailures' = 0
            /\ badge' = "reconnecting"
       ELSE /\ apiFailures' = apiFailures + 1
            /\ UNCHANGED <<apiReachable, badge>>
    /\ Resume(l)
    /\ UNCHANGED <<cancelled, authFailures, revokedOnce, logouts, deleted,
                   network>>

-----------------------------------------------------------------------------
(* The rest of the loops *)

\* The poll loop has dealt with the job; module Runner says how.
Dispatched ==
    /\ at["poll"] = "dispatch"
    /\ Goto("poll", "idle")
    /\ UNCHANGED <<cancelled, answer, authFailures, apiFailures, apiReachable,
                   revokedOnce, logouts, badge, deleted, network>>

\* Mutant: only the poll loop selects on the context.
StopPollOnly(l) ==
    /\ \/ at[l] = "revoked"
       \/ l = "poll" /\ at[l] = "idle" /\ cancelled /\ ~Starting
    /\ Goto(l, IF l = "poll" THEN "drain" ELSE "stopped")
    /\ answer' = [answer EXCEPT ![l] = "none"]
    /\ UNCHANGED <<cancelled, authFailures, apiFailures, apiReachable,
                   revokedOnce, logouts, badge, deleted, network>>

\* The heartbeat loop returns, the poll loop starts to wait for its jobs.
\* The first heartbeat is sent without looking at the context.
Stop(l) ==
    /\ \/ at[l] = "revoked"
       \/ at[l] = "idle" /\ cancelled /\ ~Starting
    /\ Goto(l, IF l = "poll" THEN "drain" ELSE "stopped")
    /\ answer' = [answer EXCEPT ![l] = "none"]
    /\ UNCHANGED <<cancelled, authFailures, apiFailures, apiReachable,
                   revokedOnce, logouts, badge, deleted, network>>

\* wg.Wait is over: SetConnected(false), and Run returns.
RunReturns ==
    /\ at["poll"] = "drain"
    /\ badge' = "offline"
    /\ Goto("poll", "stopped")
    /\ UNCHANGED <<cancelled, answer, authFailures, apiFailures, apiReachable,
                   revokedOnce, logouts, deleted, network>>

\* A signal or the tray's Quit.
Quit ==
    /\ ~cancelled
    /\ cancelled' = TRUE
    /\ UNCHANGED <<at, answer, authFailures, apiFailures, apiReachable, revokedOnce,
                   logouts, badge, deleted, network>>

\* What a loop does with an answer once it has it.
Handle(l) ==
    \/ ResetAuth(l) \/ CountRefusal(l)
    \/ EnterOnce(l) \/ Logout(l) \/ LeaveOnce(l) \/ SkipOnce(l)
    \/ RecordSuccess(l) \/ AnnounceConnected(l) \/ RecordFailure(l)

ConnNext ==
    \/ Delete \/ NetworkChanges \/ Quit
    \/ \E l \in Loops : \/ \E a \in Answers : Call(l, a)
                        \/ Handle(l)
                        \/ Stop(l)
    \/ Dispatched \/ RunReturns

ConnSpec == ConnInit /\ [][ConnNext]_connVars

\* The tickers fire, calls are answered within the timeout of the HTTP
\* client, a loop that can go on does, and a select that finds the context
\* done again and again takes that arm.
ConnFairness ==
    /\ \A l \in Loops :
         /\ WF_connVars(\E a \in Answers : Call(l, a))
         /\ WF_connVars(Handle(l))
         /\ SF_connVars(Stop(l))
    /\ WF_connVars(Dispatched)
    /\ WF_connVars(RunReturns)

ConnFairSpec == ConnSpec /\ ConnFairness

-----------------------------------------------------------------------------
(* Properties *)

\* No loop reports the revocation, and so Run does not return because of it,
\* before the winner of the race has cleared the local state and relaunched,
\* once (TestHandleAuthRevoked_BothGoroutinesReturnError): a process that ends
\* cannot leave the logout half done.
LoserWaitsForLogout ==
    (\E l \in Loops : at[l] = "revoked") => revokedOnce = "done" /\ logouts = 1

\* docs/KNOWLEDGE.md, "auto-reconnects": while the platform is reachable the sinks
\* show it, or a loop is about to tell them, or Run has ended.
BadgeCatchesUp ==
    apiReachable /\ badge # "connected" =>
        \/ \E l \in Loops : at[l] = "announce"
        \/ badge = "offline" /\ at["poll"] = "stopped"

\* A runner deleted on the platform is logged out, and both loops end, once
\* the network stays up, unless somebody quits it before that.
DeletedRunnerStops ==
    <>[](deleted /\ network = "up") /\ [](cancelled => logouts = 1) =>
        <>(logouts = 1 /\ \A l \in Loops : at[l] = "stopped")

\* Quitting ends both loops, whatever answers they are waiting for.
QuitStopsBoth == cancelled ~> \A l \in Loops : at[l] = "stopped"

=============================================================================
