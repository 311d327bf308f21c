------------------------------- MODULE Runner -------------------------------
(***************************************************************************)
(* The runner process without a display (workflowfiesta-runner run, and    *)
(* run-local --headless): Connection and Jobs composed.  They share the    *)
(* context, the poll loop is the same loop in both, and the process ends   *)
(* when Run returns to main, whatever other goroutines are doing then.     *)
(***************************************************************************)
EXTENDS Naturals, Sequences, FiniteSets

CONSTANTS JobIds, Payload, Goroutines, MaxConcurrentJobs, NoJob, NoGoroutine,
          MaxApiFailures

VARIABLES
    cancelled,                                              \* shared
    at, answer, authFailures, apiFailures, apiReachable, revokedOnce,
    logouts, badge, deleted, network,                       \* Connection
    loop, wg, slots, activeJobs, jobCancels, worktrees, pc, job, outcome,
    reports, stopping, stopped,                             \* Jobs
    exited                                                  \* main has returned

J == INSTANCE Jobs
C == INSTANCE Connection

\* What the two parts assume of their constants.
ASSUME RunnerAssumption == J!JobsAssumption /\ C!ConnectionAssumption

connOwn == <<at, answer, authFailures, apiFailures, apiReachable, revokedOnce,
             logouts, badge, deleted, network>>

jobsOwn == <<loop, wg, slots, activeJobs, jobCancels, worktrees, pc, job,
             outcome, reports, stopping, stopped>>

runnerVars == <<cancelled, connOwn, jobsOwn, exited>>

RunnerInit == C!ConnInit /\ J!Init /\ exited = FALSE

-----------------------------------------------------------------------------

\* Steps of the loops and their surroundings that no job takes part in.
ConnectionStep ==
    /\ \/ C!Delete \/ C!NetworkChanges
       \/ \E l \in C!Loops : \/ \E a \in C!Answers : C!Call(l, a)
                             \/ C!Handle(l)
       \/ C!Stop("beat")
    /\ UNCHANGED <<jobsOwn, exited>>

\* The answer of the poll held no job, or one that is already active.
NothingToDispatch == C!Dispatched /\ UNCHANGED <<jobsOwn, exited>>

\* It held a job: the loop starts its goroutine before it goes on.
DispatchJob ==
    /\ C!Dispatched
    /\ \E g \in Goroutines, p \in Payload : J!Dispatch(g, p)
    /\ UNCHANGED exited

\* Mutant: the context is looked at only after a poll that got through.
StopPollingReachable ==
    apiReachable /\ C!Stop("poll") /\ J!BeginDrain /\ UNCHANGED exited

\* The poll loop leaves its select for wg.Wait, ...
StopPolling == C!Stop("poll") /\ J!BeginDrain /\ UNCHANGED exited

\* Mutant: Run returns without waiting for its goroutines.
RunReturnsAtOnce == C!RunReturns /\ UNCHANGED <<jobsOwn, exited>>

\* ... tells the sinks and returns when the last goroutine is done.
RunReturns == C!RunReturns /\ J!Return /\ UNCHANGED exited

Signal == C!Quit /\ J!Cancel /\ UNCHANGED exited

\* There is no status window, and so nobody to call StopAgentJob.
JobStep ==
    /\ \E g \in Goroutines : J!Acquire(g) \/ J!Work(g)
    /\ UNCHANGED <<connOwn, exited>>

\* runRunner hands the result of Run to main, and the process is gone.
Exit ==
    /\ at["poll"] = "stopped"
    /\ exited' = TRUE
    /\ UNCHANGED <<cancelled, connOwn, jobsOwn>>

Alive ==
    \/ ConnectionStep \/ NothingToDispatch \/ DispatchJob \/ StopPolling
    \/ RunReturns \/ Signal \/ JobStep \/ Exit

RunnerNext ==
    \/ ~exited /\ Alive
    \/ exited /\ UNCHANGED runnerVars

RunnerSpec == RunnerInit /\ [][RunnerNext]_runnerVars

\* As in the two components.
RunnerFairness ==
    /\ \A l \in C!Loops :
         /\ WF_runnerVars(~exited /\ C!Handle(l) /\ UNCHANGED <<jobsOwn, exited>>)
         /\ WF_runnerVars(~exited /\ (\E a \in C!Answers : C!Call(l, a))
                            /\ UNCHANGED <<jobsOwn, exited>>)
    /\ WF_runnerVars(~exited /\ (NothingToDispatch \/ DispatchJob))
    /\ SF_runnerVars(~exited /\ StopPolling)
    /\ WF_runnerVars(~exited /\ RunReturns)
    /\ WF_runnerVars(~exited /\ Exit)
    /\ \A g \in Goroutines :
         /\ WF_runnerVars(~exited /\ J!Work(g) /\ UNCHANGED <<connOwn, exited>>)
         /\ SF_runnerVars(~exited /\ J!Acquire(g) /\ UNCHANGED <<connOwn, exited>>)

-----------------------------------------------------------------------------
(* Properties *)

\* Whether it quits or is logged out, and whichever loop finds out, a process
\* that ends leaves no job behind: every goroutine it started has reported,
\* cleaned up and given back its slot, its id and its cancel function.
ExitLeavesNothing ==
    exited => J!Live = {} /\ slots = 0 /\ activeJobs = {}
              /\ \A j \in JobIds : jobCancels[j] = NoGoroutine

\* Whether by a signal or by a logout, a context that is done ends the
\* process, jobs that wait for a slot included.
ProcessEnds == cancelled ~> exited

\* spec/api-client.md: the runner clears its state, relaunches the app, and
\* exits; so it does not exit before the callback has relaunched it.
RelaunchesBeforeExit == exited /\ logouts = 1 => revokedOnce = "done"

=============================================================================
