---------------------------- MODULE RunnerProofs ----------------------------
(***************************************************************************)
(* Proofs about Runner.  The process implements both of its parts, so what *)
(* JobsProofs and ConnectionProofs prove of the parts holds of it; what is *)
(* left to prove is how the two see the one poll loop they share.          *)
(***************************************************************************)
EXTENDS Runner, TLAPS

\* The theorems of the parts.  Those of Connection do not speak of its history.
JP == INSTANCE JobsProofs
CP == INSTANCE ConnectionProofs WITH judged <- <<>>, recorded <- <<>>

\* The theorems about jobs rest on what Jobs assumes.
LEMMA JobsAssumed == JP!JobsAssumption
  BY RunnerAssumption
     DEF JP!JobsAssumption, J!JobsAssumption, JP!IsFiniteSet, J!IsFiniteSet

-----------------------------------------------------------------------------
(* The process implements its parts *)

\* The operations of Jobs under their two names.
LEMMA SameJobs ==
  /\ J!Init = JP!Init
  /\ J!BeginDrain = JP!BeginDrain
  /\ J!Return = JP!Return
  /\ J!Cancel = JP!Cancel
  /\ \A g \in Goroutines, p \in Payload : J!Dispatch(g, p) = JP!Dispatch(g, p)
  /\ \A g \in Goroutines : J!Acquire(g) = JP!Acquire(g)
  /\ \A g \in Goroutines : J!Work(g) = JP!Work(g)
  <1>1. J!Init = JP!Init
    BY DEF J!Init, JP!Init
  <1>2. J!BeginDrain = JP!BeginDrain /\ J!Return = JP!Return /\ J!Cancel = JP!Cancel
    BY DEF J!BeginDrain, J!Return, J!Cancel, JP!BeginDrain, JP!Return, JP!Cancel
  <1>3. ASSUME NEW g \in Goroutines
        PROVE  /\ \A p \in Payload : J!Dispatch(g, p) = JP!Dispatch(g, p)
               /\ J!Acquire(g) = JP!Acquire(g)
    BY DEF J!Dispatch, J!Acquire, JP!Dispatch, JP!Acquire
  <1>4. ASSUME NEW g \in Goroutines PROVE J!Work(g) = JP!Work(g)
    BY DEF J!Work, JP!Work,
           J!Drop, J!SetupFails, J!Setup, J!Launch, J!ExecReturns, J!Report,
           J!Unregister, J!Cleanup, J!Release, J!Forget, J!Leave,
           JP!Drop, JP!SetupFails, JP!Setup, JP!Launch, JP!ExecReturns, JP!Report,
           JP!Unregister, JP!Cleanup, JP!Release, JP!Forget, JP!Leave,
           J!Outcomes, JP!Outcomes, J!Verdict, JP!Verdict
  <1> QED
    BY <1>1, <1>2, <1>3, <1>4

LEMMA SameConnection ==
  /\ C!ConnInit <=> CP!ConnInit
  /\ C!ConnNext <=> CP!ConnNext
  /\ C!ConnTypeOK <=> CP!ConnTypeOK
  <1>1. /\ C!ConnInit <=> CP!ConnInit
        /\ C!ConnTypeOK <=> CP!ConnTypeOK
    BY DEF C!ConnInit, C!ConnTypeOK, CP!ConnInit, CP!ConnTypeOK, C!Loops, CP!Loops,
           C!Positions, CP!Positions, C!Answers, CP!Answers
  <1>2. C!ConnNext <=> CP!ConnNext
    BY DEF C!ConnNext, CP!ConnNext, C!Loops, CP!Loops, C!Answers, CP!Answers,
           C!Starting, CP!Starting, C!Goto, CP!Goto, C!Resume, CP!Resume,
           C!apiFailureThreshold, CP!apiFailureThreshold,
           C!Delete, C!NetworkChanges, C!Quit, C!Call, C!Handle, C!Stop,
           C!Dispatched, C!RunReturns, C!ResetAuth, C!CountRefusal, C!EnterOnce,
           C!Logout, C!LeaveOnce, C!SkipOnce, C!RecordSuccess,
           C!AnnounceConnected, C!RecordFailure,
           CP!Delete, CP!NetworkChanges, CP!Quit, CP!Call, CP!Handle, CP!Stop,
           CP!Dispatched, CP!RunReturns, CP!ResetAuth, CP!CountRefusal,
           CP!EnterOnce, CP!Logout, CP!LeaveOnce, CP!SkipOnce, CP!RecordSuccess,
           CP!AnnounceConnected, CP!RecordFailure
  <1> QED
    BY <1>1, <1>2

\* Only the logout and a signal end the context.
LEMMA CancelledBy ==
  ASSUME NEW l \in C!Loops, C!Handle(l)
  PROVE  cancelled' = cancelled \/ cancelled' = TRUE
  BY DEF C!Handle, C!ResetAuth, C!CountRefusal, C!EnterOnce, C!Logout, C!LeaveOnce,
         C!SkipOnce, C!RecordSuccess, C!AnnounceConnected, C!RecordFailure

LEMMA JobsPart ==
  ASSUME [RunnerNext]_runnerVars, cancelled \in BOOLEAN
  PROVE  [JP!Next]_JP!vars
  <1>1. CASE ConnectionStep
    <2>1. cancelled' = cancelled \/ cancelled' = TRUE
      <3>1. CASE C!Delete \/ C!NetworkChanges \/ C!Stop("beat")
        BY <3>1 DEF C!Delete, C!NetworkChanges, C!Stop
      <3>2. ASSUME NEW l \in C!Loops, NEW a \in C!Answers, C!Call(l, a)
            PROVE  cancelled' = cancelled
        BY <3>2 DEF C!Call
      <3> QED
        BY <1>1, <3>1, <3>2, CancelledBy DEF ConnectionStep
    <2>2. UNCHANGED jobsOwn
      BY <1>1 DEF ConnectionStep
    <2>3. CASE cancelled' = cancelled
      BY <2>2, <2>3 DEF jobsOwn, JP!vars
    <2>4. CASE ~cancelled /\ cancelled' = TRUE
      BY <2>2, <2>4 DEF jobsOwn, JP!Cancel, JP!Next
    <2> QED
      BY <2>1, <2>3, <2>4
  <1>2. CASE NothingToDispatch
    BY <1>2 DEF NothingToDispatch, C!Dispatched, jobsOwn, JP!vars
  <1>3. CASE DispatchJob
    BY <1>3, SameJobs DEF DispatchJob, JP!Next
  <1>4. CASE StopPolling \/ RunReturns \/ Signal
    BY <1>4, SameJobs DEF StopPolling, RunReturns, Signal, JP!Next
  <1>5. CASE JobStep
    BY <1>5, SameJobs DEF JobStep, JP!Next
  <1>6. CASE Exit \/ UNCHANGED runnerVars
    BY <1>6 DEF Exit, runnerVars, jobsOwn, JP!vars
  <1> QED
    BY <1>1, <1>2, <1>3, <1>4, <1>5, <1>6 DEF RunnerNext, Alive

LEMMA ConnectionPart ==
  ASSUME [RunnerNext]_runnerVars
  PROVE  [CP!ConnNext]_CP!connVars
  <1>1. CASE ConnectionStep
    <2>1. "beat" \in C!Loops
      BY DEF C!Loops
    <2> QED
      BY <1>1, <2>1, SameConnection DEF ConnectionStep, C!ConnNext
  <1>2. CASE NothingToDispatch \/ DispatchJob
    BY <1>2, SameConnection DEF NothingToDispatch, DispatchJob, C!ConnNext
  <1>3. CASE StopPolling \/ RunReturns \/ Signal
    <2>1. "poll" \in C!Loops
      BY DEF C!Loops
    <2> QED
      BY <1>3, <2>1, SameConnection DEF StopPolling, RunReturns, Signal, C!ConnNext
  <1>4. CASE JobStep
    <2>1. UNCHANGED cancelled
      BY <1>4 DEF JobStep, J!Acquire, J!Work, J!Drop, J!SetupFails, J!Setup, J!Launch,
                  J!ExecReturns, J!Report, J!Unregister, J!Cleanup, J!Release,
                  J!Forget, J!Leave
    <2> QED
      BY <1>4, <2>1 DEF JobStep, connOwn, CP!connVars
  <1>5. CASE Exit \/ UNCHANGED runnerVars
    BY <1>5 DEF Exit, runnerVars, connOwn, CP!connVars
  <1> QED
    BY <1>1, <1>2, <1>3, <1>4, <1>5 DEF RunnerNext, Alive

\* The loops of the process, their answers and the logout are those of
\* Connection: whatever the jobs do, a step of theirs is one of Connection's.
THEOREM ImplementsConnection == RunnerSpec => CP!ConnSpec
  <1>1. RunnerInit => CP!ConnInit
    BY SameConnection DEF RunnerInit
  <1> QED
    BY <1>1, ConnectionPart, PTL DEF RunnerSpec, CP!ConnSpec

LEMMA RunnerConnType == RunnerSpec => []CP!ConnTypeOK
  <1>1. CP!ConnSpec => []CP!ConnTypeOK
    BY CP!ConnectionTypeOK, RunnerAssumption
       DEF CP!ConnectionAssumption, C!ConnectionAssumption
  <1> QED
    BY <1>1, ImplementsConnection, PTL

\* The jobs of the process are those of Jobs, with the logout of Connection as
\* one more reason for the context to end.
THEOREM ImplementsJobs == RunnerSpec => JP!Spec
  <1>1. RunnerInit => JP!Init
    BY SameJobs DEF RunnerInit
  <1>2. CP!ConnTypeOK => cancelled \in BOOLEAN
    BY DEF CP!ConnTypeOK
  <1> QED
    BY <1>1, <1>2, JobsPart, RunnerConnType, PTL DEF RunnerSpec, JP!Spec

-----------------------------------------------------------------------------
(* What the process leaves behind *)

\* The poll loop of the one part is the poll loop of the other, and main has
\* the result of Run only when it has returned.
OneLoop ==
    /\ loop \in {"polling", "draining", "returned"}
    /\ at["poll"] = "drain" <=> loop = "draining"
    /\ at["poll"] = "stopped" <=> loop = "returned"
    /\ exited => at["poll"] = "stopped"

\* Nothing a loop does with an answer begins or ends in wg.Wait.
LEMMA AnswersKeepLoop ==
  ASSUME CP!ConnTypeOK, NEW l \in C!Loops,
         C!Handle(l) \/ \E a \in C!Answers : C!Call(l, a)
  PROVE  \A p \in {"drain", "stopped"} : at'["poll"] = p <=> at["poll"] = p
  <1> USE DEF CP!ConnTypeOK, CP!Loops, C!Loops, C!Goto
  <1>1. CASE \E a \in C!Answers : C!Call(l, a)
    BY <1>1 DEF C!Call
  <1>2. CASE C!ResetAuth(l) \/ C!CountRefusal(l) \/ C!EnterOnce(l)
    BY <1>2 DEF C!ResetAuth, C!CountRefusal, C!EnterOnce
  <1>3. CASE C!Logout(l) \/ C!LeaveOnce(l) \/ C!SkipOnce(l)
    BY <1>3 DEF C!Logout, C!LeaveOnce, C!SkipOnce
  <1>4. ASSUME C!Resume(l), at[l] \in {"record", "announce"}
        PROVE  \A p \in {"drain", "stopped"} : at'["poll"] = p <=> at["poll"] = p
    <2>1. CASE C!Starting
      BY <1>4, <2>1 DEF C!Resume, C!Starting
    <2>2. CASE ~C!Starting
      BY <1>4, <2>2 DEF C!Resume
    <2> QED
      BY <2>1, <2>2
  <1>5. CASE C!RecordSuccess(l) \/ C!AnnounceConnected(l) \/ C!RecordFailure(l)
    <2>1. CASE C!RecordSuccess(l) /\ ~apiReachable
      BY <2>1 DEF C!RecordSuccess
    <2>2. CASE ~(C!RecordSuccess(l) /\ ~apiReachable)
      BY <1>4, <1>5, <2>2 DEF C!RecordSuccess, C!AnnounceConnected, C!RecordFailure
    <2> QED
      BY <2>1, <2>2
  <1> QED
    BY <1>1, <1>2, <1>3, <1>5 DEF C!Handle

LEMMA OneLoopStep ==
  CP!ConnTypeOK /\ OneLoop /\ [RunnerNext]_runnerVars => OneLoop'
  <1> SUFFICES ASSUME CP!ConnTypeOK, OneLoop, [RunnerNext]_runnerVars
               PROVE  OneLoop'
    OBVIOUS
  <1> USE DEF OneLoop
  <1>1. CASE UNCHANGED runnerVars
    BY <1>1 DEF runnerVars, connOwn, jobsOwn
  <1>2. CASE ~exited /\ ConnectionStep
    <2>1. UNCHANGED <<loop, exited>>
      BY <1>2 DEF ConnectionStep, jobsOwn
    <2>2. at'["poll"] = "drain" <=> at["poll"] = "drain"
      BY <1>2, AnswersKeepLoop
         DEF ConnectionStep, C!Delete, C!NetworkChanges, C!Stop, C!Goto,
             CP!ConnTypeOK, CP!Loops
    <2>3. at'["poll"] = "stopped" <=> at["poll"] = "stopped"
      BY <1>2, AnswersKeepLoop
         DEF ConnectionStep, C!Delete, C!NetworkChanges, C!Stop, C!Goto,
             CP!ConnTypeOK, CP!Loops
    <2> QED
      BY <1>2, <2>1, <2>2, <2>3
  <1>3. CASE ~exited /\ (NothingToDispatch \/ DispatchJob)
    BY <1>3 DEF NothingToDispatch, DispatchJob, C!Dispatched, C!Goto, J!Dispatch,
                jobsOwn, CP!ConnTypeOK, CP!Loops
  <1>4. CASE ~exited /\ StopPolling
    BY <1>4 DEF StopPolling, C!Stop, C!Goto, J!BeginDrain, CP!ConnTypeOK, CP!Loops
  <1>5. CASE ~exited /\ RunReturns
    BY <1>5 DEF RunReturns, C!RunReturns, C!Goto, J!Return, CP!ConnTypeOK, CP!Loops
  <1>6. CASE ~exited /\ Signal
    BY <1>6 DEF Signal, C!Quit, J!Cancel
  <1>7. CASE ~exited /\ JobStep
    <2>1. UNCHANGED loop
      BY <1>7 DEF JobStep, J!Acquire, J!Work, J!Drop, J!SetupFails, J!Setup, J!Launch,
                  J!ExecReturns, J!Report, J!Unregister, J!Cleanup, J!Release,
                  J!Forget, J!Leave
    <2> QED
      BY <1>7, <2>1 DEF JobStep, connOwn
  <1>8. CASE ~exited /\ Exit
    BY <1>8 DEF Exit, connOwn, jobsOwn
  <1> QED
    BY <1>1, <1>2, <1>3, <1>4, <1>5, <1>6, <1>7, <1>8 DEF RunnerNext, Alive

LEMMA OneLoopInvariant == RunnerSpec => []OneLoop
  <1>1. RunnerInit => OneLoop
    BY DEF RunnerInit, C!ConnInit, C!Loops, J!Init, OneLoop
  <1> QED
    BY <1>1, OneLoopStep, RunnerConnType, PTL DEF RunnerSpec

\* When Run has returned, the maps and the semaphore hold nothing any more:
\* every entry is that of a goroutine, and there is none.
LEMMA NothingLeft ==
  ASSUME JP!Base, JP!Dedup, JP!CancelReachesItsJob, JP!RunReturnsLast,
         loop = "returned"
  PROVE  /\ J!Live = {} /\ slots = 0 /\ activeJobs = {}
         /\ \A j \in JobIds : jobCancels[j] = NoGoroutine
  <1> USE DEF JP!LivePhases, JP!ActivePhases, JP!SlotPhases, JP!Registered
  <1>1. JP!Live = {}
    BY DEF JP!RunReturnsLast
  <1>2. J!Live = {}
    BY <1>1 DEF J!Live, JP!Live, J!LivePhases, J!ActivePhases, J!SlotPhases
  <1>3. JP!Holders = {} /\ JP!Active = {}
    BY <1>1 DEF JP!Live, JP!Holders, JP!Active
  <1>4. slots = 0
    BY <1>3, JobsAssumed, JP!FS_EmptySet DEF JP!Base, JP!Counted
  <1>5. activeJobs = {}
    BY <1>3 DEF JP!Dedup, JP!BusyIsTruthful
  <1>6. ASSUME NEW j \in JobIds PROVE jobCancels[j] = NoGoroutine
    <2>1. jobCancels[j] \in Goroutines \cup {NoGoroutine}
      BY DEF JP!Base, JP!TypeOK
    <2> QED
      BY <1>1, <2>1 DEF JP!CancelReachesItsJob, JP!Live
  <1> QED
    BY <1>2, <1>4, <1>5, <1>6

\* runRunner returns to main only after Run has, and Run only after wg.Wait:
\* a process that is gone has left no job unanswered, no slot, no id and no
\* cancel function behind, however it came to its end.
THEOREM ExitIsClean == RunnerSpec => []ExitLeavesNothing
  <1>1. JP!Spec => [](JP!Base /\ JP!Dedup)
    BY JobsAssumed, JP!DedupInvariant
  <1>2. JP!Spec => []JP!CancelReachesItsJob
    BY JobsAssumed, JP!StopReaches
  <1>3. JP!Spec => []JP!RunReturnsLast
    BY JobsAssumed, JP!ReturnsLast
  <1>4. OneLoop /\ JP!Base /\ JP!Dedup /\ JP!CancelReachesItsJob /\ JP!RunReturnsLast
          => ExitLeavesNothing
    BY NothingLeft DEF OneLoop, ExitLeavesNothing
  <1> QED
    BY <1>1, <1>2, <1>3, <1>4, ImplementsJobs, OneLoopInvariant, PTL
=============================================================================
