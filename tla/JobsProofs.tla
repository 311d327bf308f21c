----------------------------- MODULE JobsProofs -----------------------------
(***************************************************************************)
(* Proofs about Jobs, for any number of jobs, goroutines and slots: its    *)
(* invariants, and that it implements JobBoard.                            *)
(***************************************************************************)
EXTENDS Jobs, FiniteSetTheorems, TLAPS

\* The counters count: a token of the semaphore for each goroutine that holds
\* a slot, one of the WaitGroup for each that is alive.
Counted ==
    /\ slots = Cardinality(Holders)
    /\ wg = Cardinality(Live)
    /\ slots <= MaxConcurrentJobs

\* Only a goroutine that is alive has a job, and each of them has one.
HasJob == \A g \in Goroutines : pc[g] # "unused" => job[g] \in Payload

-----------------------------------------------------------------------------

\* Where a goroutine goes decides which sets it enters and leaves.
LEMMA Moves ==
  ASSUME TypeOK, NEW g \in Goroutines, NEW p \in Phases,
         pc' = [pc EXCEPT ![g] = p]
  PROVE  /\ Holders' = IF p \in SlotPhases THEN Holders \cup {g} ELSE Holders \ {g}
         /\ Active' = IF p \in ActivePhases THEN Active \cup {g} ELSE Active \ {g}
         /\ Live' = IF p \in LivePhases THEN Live \cup {g} ELSE Live \ {g}
  BY DEF TypeOK, Holders, Active, Live

\* All three are finite.
LEMMA FiniteSubsets ==
  /\ IsFiniteSet(Holders) /\ IsFiniteSet(Live)
  /\ Cardinality(Holders) \in Nat /\ Cardinality(Live) \in Nat
  <1>1. IsFiniteSet(Goroutines)
    BY JobsAssumption
  <1>2. Holders \subseteq Goroutines /\ Live \subseteq Goroutines
    BY DEF Holders, Live
  <1>3. IsFiniteSet(Holders) /\ IsFiniteSet(Live)
    BY <1>1, <1>2, FS_Subset
  <1> QED
    BY <1>3, FS_CardinalityType

\* How the counts follow the moves.
LEMMA Counts ==
  ASSUME NEW S, IsFiniteSet(S), NEW x
  PROVE  /\ x \notin S => Cardinality(S \cup {x}) = Cardinality(S) + 1
         /\ x \in S => /\ Cardinality(S \ {x}) = Cardinality(S) - 1
                       /\ Cardinality(S) > 0
                       /\ S \cup {x} = S
         /\ x \notin S => S \ {x} = S
  <1>1. x \notin S => Cardinality(S \cup {x}) = Cardinality(S) + 1
    BY FS_AddElement
  <1>2. x \in S => Cardinality(S \ {x}) = Cardinality(S) - 1
    BY FS_RemoveElement
  <1>3. x \in S => Cardinality(S) > 0
    BY FS_EmptySet, FS_CardinalityType
  <1> QED
    BY <1>1, <1>2, <1>3

LEMMA PayloadType ==
  \A p \in Payload : /\ p.id \in JobIds
                      /\ p.kind \in {"bash", "script", "tool"}
                      /\ p.repo \in BOOLEAN
  BY JobsAssumption

-----------------------------------------------------------------------------
(* Types and counts *)

\* The semaphore and the WaitGroup never go below zero because they count,
\* so types and counts are one induction.
Base == TypeOK /\ HasJob /\ Counted

LEMMA BaseInit == Init => Base
  <1> SUFFICES ASSUME Init PROVE Base
    OBVIOUS
  <1>1. TypeOK
    <2>1. <<>> \in Seq({"complete", "failed"})
      OBVIOUS
    <2>2. worktrees \subseteq JobIds
      BY PayloadType DEF Init
    <2> QED
      BY <2>1, <2>2 DEF Init, TypeOK, Phases, Outcomes
  <1>2. Holders = {} /\ Live = {}
    BY DEF Init, Holders, Live, SlotPhases, LivePhases, ActivePhases
  <1>3. Counted
    BY <1>2, FS_EmptySet, JobsAssumption DEF Init, Counted
  <1> QED
    BY <1>1, <1>3 DEF Init, Base, HasJob

LEMMA TypeStep == Base /\ [Next]_vars => TypeOK'
  <1> SUFFICES ASSUME Base, [Next]_vars PROVE TypeOK'
    OBVIOUS
  <1> USE DEF Base, TypeOK, Phases, LivePhases, ActivePhases, SlotPhases, Outcomes
  <1>1. ASSUME NEW g \in Goroutines, NEW p \in Payload, Dispatch(g, p)
        PROVE  TypeOK'
    BY <1>1, PayloadType DEF Dispatch
  <1>2. CASE BeginDrain \/ Return \/ Returned \/ Cancel
    BY <1>2 DEF BeginDrain, Return, Returned, Cancel, vars
  <1>3. ASSUME NEW g \in Goroutines, Acquire(g)
        PROVE  TypeOK'
    BY <1>3 DEF Acquire
  <1>4. ASSUME NEW g \in Goroutines, Work(g)
        PROVE  TypeOK'
    <2>1. CASE Drop(g)
      BY <2>1 DEF Drop
    <2>2. CASE SetupFails(g)
      BY <2>2 DEF SetupFails
    <2>3. CASE Setup(g)
      BY <2>3, PayloadType DEF Setup, HasJob
    <2>4. CASE Launch(g)
      BY <2>4 DEF Launch
    <2>5. ASSUME NEW o \in Outcomes, ExecReturns(g, o)
          PROVE  TypeOK'
      BY <2>5 DEF ExecReturns
    <2>6. CASE Report(g)
      <3>1. Append(reports[g], Verdict(outcome[g])) \in Seq({"complete", "failed"})
        BY DEF Verdict
      <3> QED
        BY <2>6, <3>1 DEF Report
    <2>7. CASE Unregister(g)
      BY <2>7 DEF Unregister
    <2>8. CASE Cleanup(g)
      BY <2>8 DEF Cleanup
    <2>9. CASE Release(g)
      <3>1. g \in Holders
        BY <2>9 DEF Release, Holders
      <3>2. slots > 0
        BY <3>1, FiniteSubsets, Counts DEF Counted
      <3> QED
        BY <2>9, <3>2 DEF Release
    <2>10. CASE Forget(g)
      BY <2>10 DEF Forget
    <2>11. CASE Leave(g)
      <3>1. g \in Live
        BY <2>11 DEF Leave, Live
      <3>2. wg > 0
        BY <3>1, FiniteSubsets, Counts DEF Counted
      <3>3. <<>> \in Seq({"complete", "failed"})
        OBVIOUS
      <3> QED
        BY <2>11, <3>2, <3>3 DEF Leave
    <2> QED
      BY <1>4, <2>1, <2>2, <2>3, <2>4, <2>5, <2>6, <2>7, <2>8, <2>9, <2>10, <2>11
         DEF Work
  <1>5. ASSUME NEW j \in JobIds, RequestStop(j) \/ CancelLocalJob(j)
        PROVE  TypeOK'
    BY <1>5 DEF RequestStop, CancelLocalJob
  <1>6. CASE UNCHANGED vars
    BY <1>6 DEF vars
  <1> QED
    BY <1>1, <1>2, <1>3, <1>4, <1>5, <1>6 DEF Next

\* What a step of one goroutine from a phase to a phase p makes of the counts.
LEMMA StepCounts ==
  ASSUME Base, NEW g \in Goroutines, NEW p \in Phases,
         pc' = [pc EXCEPT ![g] = p]
  PROVE  /\ pc[g] \notin SlotPhases /\ p \in SlotPhases =>
              Cardinality(Holders') = slots + 1
         /\ (pc[g] \in SlotPhases <=> p \in SlotPhases) =>
              Cardinality(Holders') = slots
         /\ pc[g] \in SlotPhases /\ p \notin SlotPhases =>
              Cardinality(Holders') = slots - 1
         /\ pc[g] \notin LivePhases /\ p \in LivePhases =>
              Cardinality(Live') = wg + 1
         /\ (pc[g] \in LivePhases <=> p \in LivePhases) =>
              Cardinality(Live') = wg
         /\ pc[g] \in LivePhases /\ p \notin LivePhases =>
              Cardinality(Live') = wg - 1
  <1>1. /\ g \in Holders <=> pc[g] \in SlotPhases
        /\ g \in Live <=> pc[g] \in LivePhases
    BY DEF Holders, Live
  <1>2. /\ p \in SlotPhases => Holders' = Holders \cup {g}
        /\ p \notin SlotPhases => Holders' = Holders \ {g}
        /\ p \in LivePhases => Live' = Live \cup {g}
        /\ p \notin LivePhases => Live' = Live \ {g}
    BY Moves DEF Base
  <1>3. slots = Cardinality(Holders) /\ wg = Cardinality(Live)
    BY DEF Base, Counted
  <1>4. IsFiniteSet(Holders) /\ IsFiniteSet(Live)
    BY FiniteSubsets
  <1>5. /\ g \notin Holders => /\ Cardinality(Holders \cup {g}) = slots + 1
                               /\ Holders \ {g} = Holders
        /\ g \in Holders => /\ Cardinality(Holders \ {g}) = slots - 1
                            /\ Holders \cup {g} = Holders
    BY <1>3, <1>4, Counts
  <1>6. /\ g \notin Live => /\ Cardinality(Live \cup {g}) = wg + 1
                            /\ Live \ {g} = Live
        /\ g \in Live => /\ Cardinality(Live \ {g}) = wg - 1
                         /\ Live \cup {g} = Live
    BY <1>3, <1>4, Counts
  <1> QED
    BY <1>1, <1>2, <1>3, <1>5, <1>6

\* The phases outside the slot, which a goroutine passes in this order.
LEMMA OuterPhases ==
  /\ \A p \in {"queued", "forget"} : p \in LivePhases
  /\ "leave" \in LivePhases /\ "unused" \notin LivePhases
  /\ \A p \in {"queued", "forget", "leave", "unused"} :
        p \in Phases /\ p \notin SlotPhases
  /\ "release" \in SlotPhases /\ SlotPhases \subseteq LivePhases
  BY DEF Phases, LivePhases, ActivePhases, SlotPhases

LEMMA CountedStep == Base /\ [Next]_vars => Counted'
  <1> SUFFICES ASSUME Base, [Next]_vars PROVE Counted'
    OBVIOUS
  <1> USE JobsAssumption
  <1>a. slots \in Nat /\ wg \in Nat /\ slots <= MaxConcurrentJobs
    BY DEF Base, TypeOK, Counted
  <1>1. ASSUME NEW g \in Goroutines, NEW p \in Payload, Dispatch(g, p)
        PROVE  Counted'
    <2>1. slots' = Cardinality(Holders') /\ wg' = Cardinality(Live')
      BY <1>1, <1>a, StepCounts, OuterPhases DEF Dispatch
    <2> QED
      BY <1>1, <1>a, <2>1 DEF Dispatch, Counted
  <1>2. CASE BeginDrain \/ Return \/ Returned \/ Cancel
    BY <1>2 DEF BeginDrain, Return, Returned, Cancel, vars, Base, Counted,
                Holders, Live
  <1>3. ASSUME NEW g \in Goroutines, Acquire(g)
        PROVE  Counted'
    <2>1. slots' = Cardinality(Holders') /\ wg' = Cardinality(Live')
      BY <1>3, <1>a, StepCounts
         DEF Acquire, Phases, LivePhases, ActivePhases, SlotPhases
    <2> QED
      BY <1>3, <1>a, <2>1 DEF Acquire, Counted
  <1>4. ASSUME NEW g \in Goroutines, Work(g)
        PROVE  Counted'
    <2>1. slots' = Cardinality(Holders') /\ wg' = Cardinality(Live')
      <3>1. CASE Drop(g)
        BY <3>1, <1>a, StepCounts, OuterPhases DEF Drop
      <3>2. CASE SetupFails(g) \/ Setup(g)
        BY <3>2, <1>a, StepCounts DEF SetupFails, Setup,
            Phases, LivePhases, ActivePhases, SlotPhases
      <3>3. CASE Launch(g)
        BY <3>3, <1>a, StepCounts DEF Launch,
            Phases, LivePhases, ActivePhases, SlotPhases
      <3>4. CASE \E o \in Outcomes : ExecReturns(g, o)
        BY <3>4, <1>a, StepCounts DEF ExecReturns,
            Phases, LivePhases, ActivePhases, SlotPhases
      <3>5. CASE Report(g)
        <4>1. CASE outcome[g] = "setup"
          BY <3>5, <4>1, <1>a, StepCounts DEF Report,
              Phases, LivePhases, ActivePhases, SlotPhases
        <4>2. CASE outcome[g] # "setup"
          BY <3>5, <4>2, <1>a, StepCounts DEF Report,
              Phases, LivePhases, ActivePhases, SlotPhases
        <4> QED
          BY <4>1, <4>2
      <3>6. CASE Unregister(g) \/ Cleanup(g)
        BY <3>6, <1>a, StepCounts DEF Unregister, Cleanup,
            Phases, LivePhases, ActivePhases, SlotPhases
      <3>7. CASE Release(g)
        BY <3>7, <1>a, StepCounts, OuterPhases DEF Release
      <3>8. CASE Forget(g)
        BY <3>8, <1>a, StepCounts, OuterPhases DEF Forget
      <3>9. CASE Leave(g)
        BY <3>9, <1>a, StepCounts, OuterPhases DEF Leave
      <3> QED
        BY <1>4, <3>1, <3>2, <3>3, <3>4, <3>5, <3>6, <3>7, <3>8, <3>9 DEF Work
    <2>2. slots' <= slots
      BY <1>4, <1>a DEF Work, Drop, SetupFails, Setup, Launch, ExecReturns,
                   Report, Unregister, Cleanup, Release, Forget, Leave
    <2>3. slots' \in Nat
      BY TypeStep DEF TypeOK
    <2> QED
      BY <1>a, <2>1, <2>2, <2>3 DEF Counted
  <1>5. ASSUME NEW j \in JobIds, RequestStop(j) \/ CancelLocalJob(j)
        PROVE  Counted'
    BY <1>5 DEF RequestStop, CancelLocalJob, Base, Counted, Holders, Live
  <1>6. CASE UNCHANGED vars
    BY <1>6 DEF vars, Base, Counted, Holders, Live
  <1> QED
    BY <1>1, <1>2, <1>3, <1>4, <1>5, <1>6 DEF Next

LEMMA HasJobStep == Base /\ [Next]_vars => HasJob'
  <1> SUFFICES ASSUME Base, [Next]_vars PROVE HasJob'
    OBVIOUS
  <1> USE DEF Base, TypeOK, HasJob
  <1>1. ASSUME NEW g \in Goroutines, NEW p \in Payload, Dispatch(g, p)
        PROVE  HasJob'
    BY <1>1 DEF Dispatch
  <1>2. ASSUME NEW g \in Goroutines, Work(g)
        PROVE  HasJob'
    <2>1. CASE Leave(g)
      BY <2>1 DEF Leave
    <2>2. CASE ~Leave(g)
      BY <1>2, <2>2 DEF Work, Drop, SetupFails, Setup, Launch, ExecReturns,
                   Report, Unregister, Cleanup, Release, Forget
    <2> QED
      BY <2>1, <2>2
  <1>3. ASSUME NEW g \in Goroutines, Acquire(g)
        PROVE  HasJob'
    BY <1>3 DEF Acquire
  <1>4. ASSUME NEW j \in JobIds, RequestStop(j) \/ CancelLocalJob(j)
        PROVE  HasJob'
    BY <1>4 DEF RequestStop, CancelLocalJob
  <1>5. CASE BeginDrain \/ Return \/ Returned \/ Cancel \/ UNCHANGED vars
    BY <1>5 DEF BeginDrain, Return, Returned, Cancel, vars
  <1> QED
    BY <1>1, <1>2, <1>3, <1>4, <1>5 DEF Next

LEMMA BaseStep == Base /\ [Next]_vars => Base'
  BY TypeStep, CountedStep, HasJobStep DEF Base

LEMMA BaseInvariant == Spec => []Base
  BY BaseInit, BaseStep, PTL DEF Spec

\* Every variable keeps its type; the counters of the semaphore and of the
\* WaitGroup in particular are never taken below zero, which in Go would block
\* a goroutine or panic.
THEOREM JobsTypeOK == Spec => []TypeOK
  <1>1. Base => TypeOK
    BY DEF Base
  <1> QED
    BY BaseInvariant, <1>1, PTL

\* runner.go's semaphore: never more goroutines inside a job than
\* MaxConcurrentJobs, for any number of claims.
THEOREM SlotsBounded == Spec => []SlotBound
  <1>1. Base => SlotBound
    BY DEF Base, Counted, SlotBound
  <1> QED
    BY BaseInvariant, <1>1, PTL

-----------------------------------------------------------------------------
(* One goroutine for each job id *)

Dedup == NoDuplicateExecution /\ BusyIsTruthful

\* A goroutine that stays between LoadOrStore and Delete changes neither map
\* nor ids.
LEMMA StaysActive ==
  ASSUME Base, Dedup, NEW g \in Goroutines, NEW p \in ActivePhases,
         pc[g] \in ActivePhases, pc' = [pc EXCEPT ![g] = p],
         job' = job, activeJobs' = activeJobs
  PROVE  Dedup'
  <1>1. Active' = Active
    BY DEF Base, TypeOK, Active
  <1> QED
    BY <1>1 DEF Dedup, NoDuplicateExecution, BusyIsTruthful

LEMMA DedupStep == Base /\ Dedup /\ [Next]_vars => Dedup'
  <1> SUFFICES ASSUME Base, Dedup, [Next]_vars PROVE Dedup'
    OBVIOUS
  <1>1. ASSUME NEW g \in Goroutines, NEW p \in Payload, Dispatch(g, p)
        PROVE  Dedup'
    <2>1. g \notin Active /\ Active \subseteq Goroutines
      BY <1>1 DEF Dispatch, Active, ActivePhases, SlotPhases
    <2>2. Active' = Active \cup {g}
      BY <1>1 DEF Dispatch, Base, TypeOK, Active, ActivePhases
    <2>3. job'[g] = p /\ \A h \in Active : job'[h] = job[h]
      BY <1>1, <2>1 DEF Dispatch, Base, TypeOK
    <2>4. \A h \in Active : job[h].id # p.id
      BY <1>1 DEF Dispatch, Dedup, BusyIsTruthful
    <2>5. NoDuplicateExecution'
      BY <2>2, <2>3, <2>4 DEF Dedup, NoDuplicateExecution
    <2>6. {job'[h].id : h \in Active'} = {job[h].id : h \in Active} \cup {p.id}
      BY <2>2, <2>3
    <2> QED
      BY <1>1, <2>5, <2>6 DEF Dispatch, Dedup, BusyIsTruthful
  <1>2. ASSUME NEW g \in Goroutines, Acquire(g)
        PROVE  Dedup'
    BY <1>2, StaysActive DEF Acquire, ActivePhases, SlotPhases
  <1>3. ASSUME NEW g \in Goroutines, Work(g)
        PROVE  Dedup'
    <2>1. CASE Forget(g)
      <3>1. g \in Active /\ Active' = Active \ {g} /\ job' = job
        BY <2>1 DEF Forget, Base, TypeOK, Active, ActivePhases, SlotPhases
      <3>2. NoDuplicateExecution'
        BY <3>1 DEF Dedup, NoDuplicateExecution
      <3>3. \A h \in Active \ {g} : job[h].id # job[g].id
        BY <3>1 DEF Dedup, NoDuplicateExecution
      <3>4. {job[h].id : h \in Active \ {g}}
              = {job[h].id : h \in Active} \ {job[g].id}
        BY <3>1, <3>3
      <3> QED
        BY <2>1, <3>1, <3>2, <3>4 DEF Forget, Dedup, BusyIsTruthful
    <2>2. CASE Leave(g)
      <3>1. g \notin Active /\ Active' = Active
        BY <2>2 DEF Leave, Base, TypeOK, Active, ActivePhases, SlotPhases
      <3>2. \A h \in Active : job'[h] = job[h]
        BY <2>2, <3>1 DEF Leave, Base, TypeOK, Active
      <3>3. {job'[h].id : h \in Active} = {job[h].id : h \in Active}
        BY <3>2
      <3> QED
        BY <2>2, <3>1, <3>2, <3>3
           DEF Leave, Dedup, NoDuplicateExecution, BusyIsTruthful
    <2>3. CASE Drop(g) \/ SetupFails(g) \/ Setup(g) \/ Launch(g)
      BY <2>3, StaysActive
         DEF Drop, SetupFails, Setup, Launch, ActivePhases, SlotPhases
    <2>4. CASE \E o \in Outcomes : ExecReturns(g, o)
      BY <2>4, StaysActive DEF ExecReturns, ActivePhases, SlotPhases
    <2>5. CASE Report(g) \/ Unregister(g) \/ Cleanup(g) \/ Release(g)
      BY <2>5, StaysActive
         DEF Report, Unregister, Cleanup, Release, ActivePhases, SlotPhases
    <2> QED
      BY <1>3, <2>1, <2>2, <2>3, <2>4, <2>5 DEF Work
  <1>4. ASSUME UNCHANGED <<activeJobs, pc, job>>
        PROVE  Dedup'
    BY <1>4 DEF Dedup, NoDuplicateExecution, BusyIsTruthful, Active
  <1>5. ASSUME NEW j \in JobIds, RequestStop(j) \/ CancelLocalJob(j)
        PROVE  Dedup'
    BY <1>4, <1>5 DEF RequestStop, CancelLocalJob
  <1>6. CASE BeginDrain \/ Return \/ Returned \/ Cancel \/ UNCHANGED vars
    BY <1>4, <1>6 DEF BeginDrain, Return, Returned, Cancel, vars
  <1> QED
    BY <1>1, <1>2, <1>3, <1>5, <1>6 DEF Next

LEMMA DedupInit == Init => Dedup
  <1>1. Init => Active = {}
    BY DEF Init, Active, ActivePhases, SlotPhases
  <1> QED
    BY <1>1 DEF Init, Dedup, NoDuplicateExecution, BusyIsTruthful

LEMMA DedupInvariant == Spec => [](Base /\ Dedup)
  <1>1. Init => Base /\ Dedup
    BY BaseInit, DedupInit
  <1>2. Base /\ Dedup /\ [Next]_vars => (Base /\ Dedup)'
    BY BaseStep, DedupStep
  <1> QED
    BY <1>1, <1>2, PTL DEF Spec

\* sync.Map activeJobs: no two goroutines own the same job id, however often
\* the platform hands the job out.
THEOREM NoDuplicates == Spec => []NoDuplicateExecution
  <1>1. Dedup => NoDuplicateExecution
    BY DEF Dedup
  <1> QED
    BY DedupInvariant, <1>1, PTL

\* The heartbeat's "busy" is derived from activeJobs, which holds the ids of
\* the goroutines that own one and no other.
THEOREM BusyIsTrue == Spec => []BusyIsTruthful
  <1>1. Dedup => BusyIsTruthful
    BY DEF Dedup
  <1> QED
    BY DedupInvariant, <1>1, PTL

-----------------------------------------------------------------------------
(* Run returns last *)

LEMMA ReturnsLastStep ==
  Base /\ RunReturnsLast /\ [Next]_vars => RunReturnsLast'
  <1> SUFFICES ASSUME Base, RunReturnsLast, [Next]_vars PROVE RunReturnsLast'
    OBVIOUS
  <1> USE DEF RunReturnsLast
  <1>1. ASSUME NEW g \in Goroutines, pc[g] \in LivePhases, loop' = loop
        PROVE  RunReturnsLast'
    BY <1>1 DEF Live
  <1>2. ASSUME NEW g \in Goroutines, NEW p \in Payload, Dispatch(g, p)
        PROVE  RunReturnsLast'
    BY <1>2 DEF Dispatch
  <1>3. ASSUME NEW g \in Goroutines, Acquire(g)
        PROVE  RunReturnsLast'
    BY <1>1, <1>3 DEF Acquire, LivePhases, ActivePhases, SlotPhases
  <1>4. ASSUME NEW g \in Goroutines, Work(g)
        PROVE  RunReturnsLast'
    <2>1. pc[g] \in LivePhases /\ loop' = loop
      BY <1>4 DEF Work, Drop, SetupFails, Setup, Launch, ExecReturns, Report,
                  Unregister, Cleanup, Release, Forget, Leave,
                  LivePhases, ActivePhases, SlotPhases
    <2> QED
      BY <1>1, <2>1
  <1>5. CASE Return
    <2>1. Live = {}
      BY <1>5, FiniteSubsets, FS_EmptySet DEF Return, Base, Counted
    <2> QED
      BY <1>5, <2>1 DEF Return, Live
  <1>6. CASE BeginDrain
    BY <1>6 DEF BeginDrain
  <1>7. ASSUME NEW j \in JobIds, RequestStop(j) \/ CancelLocalJob(j)
        PROVE  RunReturnsLast'
    BY <1>7 DEF RequestStop, CancelLocalJob, Live
  <1>8. CASE Returned \/ Cancel \/ UNCHANGED vars
    BY <1>8 DEF Returned, Cancel, vars, Live
  <1> QED
    BY <1>2, <1>3, <1>4, <1>5, <1>6, <1>7, <1>8 DEF Next

\* The WaitGroup: when Run returns, no goroutine it started is left, so the
\* process may exit without cutting a report or a cleanup short.
THEOREM ReturnsLast == Spec => []RunReturnsLast
  <1>1. Init => RunReturnsLast
    BY DEF Init, RunReturnsLast
  <1>2. Base /\ RunReturnsLast /\ [Next]_vars => RunReturnsLast'
    BY ReturnsLastStep
  <1> QED
    BY BaseInvariant, <1>1, <1>2, PTL DEF Spec

-----------------------------------------------------------------------------
(* One verdict for each claim *)

Executed == {"ok", "nonzero", "err", "cancelled"}

\* What a goroutine has done so far, by where it stands.
Progress(g) ==
    /\ pc[g] \in {"unused", "queued", "start", "launch", "exec"} =>
         outcome[g] = "none" /\ reports[g] = <<>>
    /\ pc[g] = "report" =>
         outcome[g] \in Executed \cup {"setup"} /\ reports[g] = <<>>
    /\ pc[g] \in {"unregister", "cleanup"} =>
         outcome[g] \in Executed /\ Len(reports[g]) = 1
    /\ pc[g] = "release" =>
         outcome[g] \in Executed \cup {"setup"} /\ Len(reports[g]) = 1
    /\ pc[g] \in {"forget", "leave"} =>
         \/ outcome[g] = "dropped" /\ cancelled /\ reports[g] = <<>>
         \/ outcome[g] \in Executed \cup {"setup"} /\ Len(reports[g]) = 1

Progressed == \A g \in Goroutines : Progress(g)

\* A step of g leaves the others where they are.
LEMMA OthersProgress ==
  ASSUME TypeOK, Progressed, NEW g \in Goroutines,
         cancelled => cancelled',
         \A h \in Goroutines \ {g} :
            pc'[h] = pc[h] /\ outcome'[h] = outcome[h] /\ reports'[h] = reports[h],
         Progress(g)'
  PROVE  Progressed'
  BY DEF Progressed, Progress

LEMMA ProgressStep == Base /\ Progressed /\ [Next]_vars => Progressed'
  <1> SUFFICES ASSUME Base, Progressed, [Next]_vars PROVE Progressed'
    OBVIOUS
  <1>0. TypeOK
    BY DEF Base
  <1>1. ASSUME NEW g \in Goroutines,
               (\E p \in Payload : Dispatch(g, p)) \/ Acquire(g)
        PROVE  Progressed'
    BY <1>0, <1>1 DEF Dispatch, Acquire, Progressed, Progress, TypeOK
  <1>2. ASSUME NEW g \in Goroutines, Work(g)
        PROVE  Progressed'
    <2>1. CASE Drop(g)
      <3>1. Progress(g)'
        BY <1>0, <2>1 DEF Drop, Progressed, Progress, TypeOK
      <3> QED
        BY <1>0, <2>1, <3>1, OthersProgress DEF Drop, TypeOK
    <2>2. CASE SetupFails(g)
      <3>1. Progress(g)'
        BY <1>0, <2>2 DEF SetupFails, Progressed, Progress, TypeOK
      <3> QED
        BY <1>0, <2>2, <3>1, OthersProgress DEF SetupFails, TypeOK
    <2>3. CASE Setup(g) \/ Launch(g)
      BY <1>0, <2>3 DEF Setup, Launch, Progressed, Progress, TypeOK
    <2>4. CASE \E o \in Outcomes : ExecReturns(g, o)
      <3>1. Progress(g)'
        BY <1>0, <2>4 DEF ExecReturns, Progressed, Progress, TypeOK, Executed
      <3> QED
        BY <1>0, <2>4, <3>1, OthersProgress DEF ExecReturns, TypeOK
    <2>5. CASE Report(g)
      <3>1. reports[g] = <<>> /\ Verdict(outcome[g]) \in {"complete", "failed"}
        BY <2>5 DEF Report, Progressed, Progress, Verdict
      <3>2. Len(Append(reports[g], Verdict(outcome[g]))) = 1
        BY <3>1
      <3>3. Len(reports'[g]) = 1 /\ outcome'[g] = outcome[g]
        BY <1>0, <2>5, <3>2 DEF Report, TypeOK
      <3>4. outcome[g] \in Executed \cup {"setup"}
        BY <2>5 DEF Report, Progressed, Progress
      <3>5. pc'[g] = IF outcome[g] = "setup" THEN "release" ELSE "unregister"
        BY <1>0, <2>5 DEF Report, TypeOK
      <3>6. Progress(g)'
        BY <3>3, <3>4, <3>5 DEF Progress
      <3> QED
        BY <1>0, <2>5, <3>6, OthersProgress DEF Report, TypeOK
    <2>6. CASE Unregister(g) \/ Cleanup(g) \/ Release(g) \/ Forget(g)
      <3>1. /\ outcome' = outcome /\ reports' = reports /\ cancelled' = cancelled
            /\ \A h \in Goroutines \ {g} : pc'[h] = pc[h]
            /\ \/ pc[g] = "unregister" /\ pc'[g] = "cleanup"
               \/ pc[g] = "cleanup" /\ pc'[g] = "release"
               \/ pc[g] = "release" /\ pc'[g] = "forget"
               \/ pc[g] = "forget" /\ pc'[g] = "leave"
        BY <1>0, <2>6 DEF Unregister, Cleanup, Release, Forget, TypeOK
      <3>2. Progress(g)
        BY DEF Progressed
      <3>3. Progress(g)'
        BY <3>1, <3>2 DEF Progress
      <3> QED
        BY <1>0, <3>1, <3>3, OthersProgress
    <2>7. CASE Leave(g)
      <3>1. Progress(g)'
        BY <1>0, <2>7 DEF Leave, Progress, TypeOK
      <3> QED
        BY <1>0, <2>7, <3>1, OthersProgress DEF Leave, TypeOK
    <2> QED
      BY <1>2, <2>1, <2>2, <2>3, <2>4, <2>5, <2>6, <2>7 DEF Work
  <1>3. ASSUME NEW j \in JobIds, RequestStop(j) \/ CancelLocalJob(j)
        PROVE  Progressed'
    BY <1>3 DEF RequestStop, CancelLocalJob, Progressed, Progress
  <1>4. CASE BeginDrain \/ Return \/ Returned \/ Cancel \/ UNCHANGED vars
    BY <1>4 DEF BeginDrain, Return, Returned, Cancel, vars, Progressed, Progress
  <1> QED
    BY <1>1, <1>2, <1>3, <1>4 DEF Next

LEMMA ProgressInvariant == Spec => [](Base /\ Progressed)
  <1>1. Init => Base /\ Progressed
    BY BaseInit DEF Init, Progressed, Progress
  <1>2. Base /\ Progressed /\ [Next]_vars => (Base /\ Progressed)'
    BY BaseStep, ProgressStep
  <1> QED
    BY <1>1, <1>2, PTL DEF Spec

\* handleJob and its siblings: whatever the path through them, a claimed job
\* is answered at most once, and unanswered only when shutdown dropped it.
THEOREM AnsweredOnce == Spec => []OneVerdict
  <1>1. Base /\ Progressed => OneVerdict
    <2> SUFFICES ASSUME Base, Progressed, NEW g \in Goroutines
                 PROVE  /\ Len(reports[g]) <= 1
                        /\ pc[g] \in {"forget", "leave"} /\ reports[g] = <<>> =>
                              outcome[g] = "dropped" /\ cancelled
      BY DEF OneVerdict
    <2>1. pc[g] \in Phases
      BY DEF Base, TypeOK
    <2>2. Len(<<>>) = 0
      OBVIOUS
    <2>3. reports[g] = <<>> \/ Len(reports[g]) = 1
      BY <2>1 DEF Progressed, Progress, Phases, LivePhases, ActivePhases, SlotPhases
    <2>4. Len(reports[g]) <= 1
      <3>1. Len(reports[g]) \in {0, 1}
        BY <2>2, <2>3, Zenon
      <3>2. \A n \in {0, 1} : n <= 1
        OBVIOUS
      <3> QED
        BY <3>1, <3>2, Zenon
    <2>5. Progress(g)
      BY DEF Progressed
    <2>6. ASSUME pc[g] \in {"forget", "leave"}, reports[g] = <<>>
          PROVE  outcome[g] = "dropped" /\ cancelled
      <3>1. Len(reports[g]) # 1
        BY <2>2, <2>6
      <3> QED
        BY <2>5, <2>6, <3>1 DEF Progress
    <2> QED
      BY <2>4, <2>6
  <1> QED
    BY ProgressInvariant, <1>1, PTL

-----------------------------------------------------------------------------
(* A stop reaches the job it names *)

\* The goroutines whose cancel function is in jobCancels.
Enrolled(g) == pc[g] \in Registered /\ outcome[g] # "setup" /\ job[g].kind # "tool"

Registry ==
    /\ \A g \in Goroutines : Enrolled(g) => jobCancels[job[g].id] = g
    /\ \A j \in JobIds : jobCancels[j] # NoGoroutine =>
         Enrolled(jobCancels[j]) /\ job[jobCancels[j]].id = j

\* A step of a goroutine that has no entry, before and after, is no matter.
LEMMA OthersRegistered ==
  ASSUME TypeOK, Registry, NEW g \in Goroutines, jobCancels' = jobCancels,
         ~Enrolled(g), ~Enrolled(g)',
         \A h \in Goroutines \ {g} :
            pc'[h] = pc[h] /\ outcome'[h] = outcome[h] /\ job'[h] = job[h]
  PROVE  Registry'
  <1>1. \A h \in Goroutines \ {g} :
           (Enrolled(h)' <=> Enrolled(h)) /\ job'[h] = job[h]
    BY DEF Enrolled
  <1>2. \A j \in JobIds : jobCancels[j] \in Goroutines \cup {NoGoroutine}
    BY DEF TypeOK
  <1>3. \A j \in JobIds : jobCancels[j] # g
    BY JobsAssumption DEF Registry
  <1>4. \A j \in JobIds : jobCancels[j] # NoGoroutine =>
           Enrolled(jobCancels[j])' /\ job'[jobCancels[j]].id = j
    BY <1>1, <1>2, <1>3 DEF Registry
  <1>5. \A h \in Goroutines : Enrolled(h)' => jobCancels[job'[h].id] = h
    BY <1>1 DEF Registry
  <1> QED
    BY <1>4, <1>5 DEF Registry, Enrolled

\* Nor is a step that keeps a goroutine enrolled, or no step at all.
LEMMA StaysRegistered ==
  ASSUME TypeOK, Registry, jobCancels' = jobCancels, job' = job,
         \A h \in Goroutines : Enrolled(h)' <=> Enrolled(h)
  PROVE  Registry'
  <1>1. \A j \in JobIds : jobCancels[j] \in Goroutines \cup {NoGoroutine}
    BY DEF TypeOK
  <1>2. \A j \in JobIds : jobCancels[j] # NoGoroutine =>
           Enrolled(jobCancels[j])' /\ job[jobCancels[j]].id = j
    BY <1>1 DEF Registry
  <1>3. \A h \in Goroutines : Enrolled(h)' => jobCancels[job[h].id] = h
    BY DEF Registry
  <1> QED
    BY <1>2, <1>3 DEF Registry, Enrolled

LEMMA LaunchRegisters ==
  ASSUME Base, Dedup, Progressed, Registry, NEW g \in Goroutines, Launch(g)
  PROVE  Registry'
  <1>1. TypeOK /\ job[g] \in Payload /\ job[g].id \in JobIds
    BY PayloadType DEF Launch, Base, HasJob
  <1>2. ~Enrolled(g) /\ outcome[g] = "none" /\ pc'[g] = "exec"
    BY <1>1 DEF Launch, Enrolled, Registered, Progressed, Progress, TypeOK
  <1>3. \A h \in Goroutines \ {g} : pc'[h] = pc[h]
    BY <1>1 DEF Launch, TypeOK
  <1>4. CASE job[g].kind = "tool"
    <2>1. ~Enrolled(g)' /\ jobCancels' = jobCancels
      BY <1>4 DEF Launch, Enrolled
    <2> QED
      BY <1>1, <1>2, <1>3, <2>1, OthersRegistered DEF Launch
  <1>5. CASE job[g].kind # "tool"
    <2>1. /\ Enrolled(g)'
          /\ \A h \in Goroutines \ {g} : Enrolled(h)' <=> Enrolled(h)
          /\ job' = job
      BY <1>2, <1>3, <1>5 DEF Launch, Enrolled, Registered
    <2>2. /\ jobCancels'[job[g].id] = g
          /\ \A j \in JobIds \ {job[g].id} : jobCancels'[j] = jobCancels[j]
      BY <1>1, <1>5 DEF Launch, TypeOK
    <2>3. \A h \in Goroutines \ {g} : Enrolled(h) =>
             job[h].id \in JobIds \ {job[g].id}
      <3>1. g \in Active
        BY DEF Launch, Active, ActivePhases, SlotPhases
      <3>2. \A h \in Goroutines : Enrolled(h) => h \in Active /\ job[h] \in Payload
        BY DEF Base, HasJob, Enrolled, Registered, Active, ActivePhases, SlotPhases
      <3> QED
        BY <3>1, <3>2, PayloadType DEF Dedup, NoDuplicateExecution
    <2>4. \A h \in Goroutines : Enrolled(h)' => jobCancels'[job'[h].id] = h
      BY <2>1, <2>2, <2>3 DEF Registry
    <2>5. \A j \in JobIds, h \in Goroutines : jobCancels'[j] = h =>
             Enrolled(h)' /\ job'[h].id = j
      BY <2>1, <2>2, <1>2, JobsAssumption DEF Registry
    <2>6. \A j \in JobIds : jobCancels'[j] \in Goroutines \cup {NoGoroutine}
      BY <1>1, <1>5 DEF Launch, TypeOK
    <2> QED
      BY <2>4, <2>5, <2>6 DEF Registry, Enrolled
  <1> QED
    BY <1>4, <1>5

LEMMA UnregisterRemoves ==
  ASSUME Base, Dedup, Registry, NEW g \in Goroutines, Unregister(g), Progressed
  PROVE  Registry'
  <1>1. TypeOK /\ job[g] \in Payload /\ job[g].id \in JobIds
    BY PayloadType DEF Unregister, Base, HasJob
  <1>2. pc'[g] = "cleanup" /\ \A h \in Goroutines \ {g} : pc'[h] = pc[h]
    BY <1>1 DEF Unregister, TypeOK
  <1>3. ~Enrolled(g)'
    BY <1>2 DEF Enrolled, Registered
  <1>4. CASE job[g].kind = "tool"
    <2>1. ~Enrolled(g) /\ jobCancels' = jobCancels
      BY <1>4 DEF Unregister, Enrolled
    <2> QED
      BY <1>1, <1>2, <1>3, <2>1, OthersRegistered DEF Unregister
  <1>5. CASE job[g].kind # "tool"
    <2>1. /\ job' = job /\ Enrolled(g)
          /\ \A h \in Goroutines \ {g} : Enrolled(h)' <=> Enrolled(h)
      <3>1. outcome[g] # "setup"
        BY DEF Unregister, Progressed, Progress, Executed
      <3> QED
        BY <1>2, <1>5, <3>1 DEF Unregister, Enrolled, Registered
    <2>2. /\ jobCancels'[job[g].id] = NoGoroutine
          /\ \A j \in JobIds \ {job[g].id} : jobCancels'[j] = jobCancels[j]
      BY <1>1, <1>5 DEF Unregister, TypeOK
    <2>3. jobCancels[job[g].id] = g
      BY <2>1 DEF Registry
    <2>4. \A h \in Goroutines \ {g} : Enrolled(h) =>
             job[h].id \in JobIds \ {job[g].id}
      <3>1. \A h \in Goroutines : Enrolled(h) => job[h] \in Payload
        BY DEF Base, HasJob, Enrolled, Registered
      <3> QED
        BY <2>3, <3>1, PayloadType DEF Registry
    <2>5. \A h \in Goroutines : Enrolled(h)' => jobCancels'[job'[h].id] = h
      BY <1>3, <2>1, <2>2, <2>4 DEF Registry
    <2>6. \A j \in JobIds, h \in Goroutines : jobCancels'[j] = h =>
             Enrolled(h)' /\ job'[h].id = j
      <3>1. \A j \in JobIds \ {job[g].id} : jobCancels[j] # g
        BY JobsAssumption DEF Registry
      <3> QED
        BY <2>1, <2>2, <3>1, JobsAssumption DEF Registry
    <2>7. \A j \in JobIds : jobCancels'[j] \in Goroutines \cup {NoGoroutine}
      BY <1>1, <1>5 DEF Unregister, TypeOK
    <2> QED
      BY <2>5, <2>6, <2>7 DEF Registry, Enrolled
  <1> QED
    BY <1>4, <1>5

LEMMA RegistryStep ==
  Base /\ Dedup /\ Progressed /\ Registry /\ [Next]_vars => Registry'
  <1> SUFFICES ASSUME Base, Dedup, Progressed, Registry, [Next]_vars
               PROVE  Registry'
    OBVIOUS
  <1>0. TypeOK
    BY DEF Base
  <1>1. ASSUME NEW g \in Goroutines,
               (\E p \in Payload : Dispatch(g, p)) \/ Acquire(g) \/ Drop(g)
                  \/ Setup(g) \/ SetupFails(g) \/ Cleanup(g)
        PROVE  Registry'
    <2>1. /\ jobCancels' = jobCancels
          /\ \A h \in Goroutines \ {g} :
                pc'[h] = pc[h] /\ outcome'[h] = outcome[h] /\ job'[h] = job[h]
      BY <1>0, <1>1 DEF Dispatch, Acquire, Drop, Setup, SetupFails, Cleanup, TypeOK
    <2>2. pc[g] \notin Registered
      BY <1>0, <1>1 DEF Dispatch, Acquire, Drop, Setup, SetupFails, Cleanup,
                        TypeOK, Registered
    <2>3. pc'[g] \notin Registered \/ outcome'[g] = "setup"
      BY <1>0, <1>1 DEF Dispatch, Acquire, Drop, Setup, SetupFails, Cleanup,
                        TypeOK, Registered
    <2> QED
      BY <1>0, <2>1, <2>2, <2>3, OthersRegistered DEF Enrolled
  <1>2. ASSUME NEW g \in Goroutines, Release(g) \/ Forget(g) \/ Leave(g)
        PROVE  Registry'
    <2>1. /\ jobCancels' = jobCancels
          /\ \A h \in Goroutines \ {g} :
                pc'[h] = pc[h] /\ outcome'[h] = outcome[h] /\ job'[h] = job[h]
      BY <1>0, <1>2 DEF Release, Forget, Leave, TypeOK
    <2>2. pc[g] \notin Registered /\ pc'[g] \notin Registered
      BY <1>0, <1>2 DEF Release, Forget, Leave, TypeOK, Registered
    <2> QED
      BY <1>0, <2>1, <2>2, OthersRegistered DEF Enrolled
  <1>3. ASSUME NEW g \in Goroutines, NEW o \in Outcomes, ExecReturns(g, o)
        PROVE  Registry'
    <2>1. outcome[g] = "none" /\ pc[g] = "exec"
      BY <1>3 DEF ExecReturns, Progressed, Progress
    <2>2. \A h \in Goroutines : Enrolled(h)' <=> Enrolled(h)
      <3>1. CASE o # "setup"
        BY <1>0, <1>3, <2>1, <3>1 DEF ExecReturns, Enrolled, Registered, TypeOK
      <3>2. o # "setup"
        BY <1>3 DEF ExecReturns
      <3> QED
        BY <3>1, <3>2
    <2> QED
      BY <1>0, <1>3, <2>2, StaysRegistered DEF ExecReturns
  <1>4. ASSUME NEW g \in Goroutines, Report(g)
        PROVE  Registry'
    <2>1. \A h \in Goroutines : Enrolled(h)' <=> Enrolled(h)
      <3>1. CASE outcome[g] = "setup"
        BY <1>0, <1>4, <3>1 DEF Report, Enrolled, Registered, TypeOK
      <3>2. CASE outcome[g] # "setup"
        BY <1>0, <1>4, <3>2 DEF Report, Enrolled, Registered, TypeOK
      <3> QED
        BY <3>1, <3>2
    <2> QED
      BY <1>0, <1>4, <2>1, StaysRegistered DEF Report
  <1>5. ASSUME NEW g \in Goroutines, Work(g)
        PROVE  Registry'
    BY <1>1, <1>2, <1>3, <1>4, <1>5, LaunchRegisters, UnregisterRemoves DEF Work
  <1>6. ASSUME UNCHANGED <<pc, outcome, job, jobCancels>>
        PROVE  Registry'
    <2>1. \A h \in Goroutines : Enrolled(h)' <=> Enrolled(h)
      BY <1>6 DEF Enrolled
    <2> QED
      BY <1>0, <1>6, <2>1, StaysRegistered
  <1>7. ASSUME NEW j \in JobIds, RequestStop(j) \/ CancelLocalJob(j)
        PROVE  Registry'
    BY <1>6, <1>7 DEF RequestStop, CancelLocalJob
  <1>8. CASE BeginDrain \/ Return \/ Returned \/ Cancel \/ UNCHANGED vars
    BY <1>6, <1>8 DEF BeginDrain, Return, Returned, Cancel, vars
  <1> QED
    BY <1>1, <1>5, <1>7, <1>8 DEF Next

\* StopAgentJob and cancelLocalJob: the cancel function found under a job id
\* belongs to the goroutine that executes this job and no other, and it is
\* there for as long as the job executes.
THEOREM StopReaches == Spec => []CancelReachesItsJob
  <1>1. Init => Registry
    BY DEF Init, Registry, Enrolled, Registered
  <1>2. Base /\ Dedup /\ Progressed /\ Registry /\ [Next]_vars => Registry'
    BY RegistryStep
  <1>3. Registry => CancelReachesItsJob
    BY DEF Registry, CancelReachesItsJob, Enrolled
  <1> QED
    BY DedupInvariant, ProgressInvariant, <1>1, <1>2, <1>3, PTL DEF Spec

-----------------------------------------------------------------------------
(* Worktrees *)

\* The goroutines whose job has its worktree on disk, and those that removed it.
HasTree(g) ==
    /\ pc[g] \in {"launch", "exec", "report", "unregister", "cleanup"}
    /\ job[g].repo
    /\ outcome[g] # "setup"
Removed(g) ==
    /\ pc[g] \in {"release", "forget"}
    /\ job[g].repo
    /\ outcome[g] \in Executed

Trees ==
    /\ \A g \in Goroutines : HasTree(g) => job[g].id \in worktrees
    /\ \A g \in Goroutines : Removed(g) => job[g].id \notin worktrees

\* A step of g touches the worktree of its own id only, which no other
\* goroutine owns at that time.
LEMMA OthersTrees ==
  ASSUME Base, Dedup, Trees, NEW g \in Active,
         \A h \in Goroutines \ {g} :
            pc'[h] = pc[h] /\ outcome'[h] = outcome[h] /\ job'[h] = job[h],
         worktrees' \in {worktrees, worktrees \cup {job[g].id},
                         worktrees \ {job[g].id}},
         HasTree(g)' => job'[g].id \in worktrees',
         Removed(g)' => job'[g].id \notin worktrees'
  PROVE  Trees'
  <1>1. ASSUME NEW h \in Goroutines \ {g}
        PROVE  /\ HasTree(h)' => job'[h].id \in worktrees'
               /\ Removed(h)' => job'[h].id \notin worktrees'
    <2>1. (HasTree(h)' <=> HasTree(h)) /\ (Removed(h)' <=> Removed(h))
      BY <1>1 DEF HasTree, Removed
    <2>2. HasTree(h) \/ Removed(h) => h \in Active
      BY <1>1 DEF HasTree, Removed, Active, ActivePhases, SlotPhases
    <2>3. HasTree(h) \/ Removed(h) => job[h].id # job[g].id
      BY <1>1, <2>2 DEF Dedup, NoDuplicateExecution
    <2>4. HasTree(h) => job[h].id \in worktrees'
      BY <2>3 DEF Trees
    <2>5. Removed(h) => job[h].id \notin worktrees'
      BY <2>3 DEF Trees
    <2> QED
      BY <1>1, <2>1, <2>4, <2>5
  <1> QED
    BY <1>1 DEF Trees

LEMMA TreesStep ==
  Base /\ Dedup /\ Progressed /\ Trees /\ [Next]_vars => Trees'
  <1> SUFFICES ASSUME Base, Dedup, Progressed, Trees, [Next]_vars
               PROVE  Trees'
    OBVIOUS
  <1>0. TypeOK
    BY DEF Base
  <1>1. \A g \in Goroutines : pc[g] \in ActivePhases => g \in Active
    BY DEF Active
  <1>2. ASSUME NEW g \in Goroutines, SetupFails(g)
        PROVE  Trees'
    <2>1. g \in Active
      BY <1>1, <1>2 DEF SetupFails, ActivePhases, SlotPhases
    <2>2. pc'[g] = "report" /\ outcome'[g] = "setup"
      BY <1>0, <1>2 DEF SetupFails, TypeOK
    <2>3. ~HasTree(g)' /\ ~Removed(g)'
      BY <2>2 DEF HasTree, Removed
    <2> QED
      BY <1>0, <1>2, <2>1, <2>3, OthersTrees DEF SetupFails, TypeOK
  <1>3. ASSUME NEW g \in Goroutines, Setup(g)
        PROVE  Trees'
    <2>1. g \in Active /\ job' = job
      BY <1>1, <1>3 DEF Setup, ActivePhases, SlotPhases
    <2>2. HasTree(g)' => job'[g].id \in worktrees'
      BY <1>3 DEF Setup, HasTree
    <2>3. ~Removed(g)'
      BY <1>0, <1>3 DEF Setup, Removed, TypeOK
    <2>4. worktrees' \in {worktrees, worktrees \cup {job[g].id}}
      BY <1>3 DEF Setup
    <2> QED
      BY <1>0, <1>3, <2>1, <2>2, <2>3, <2>4, OthersTrees DEF Setup, TypeOK
  <1>4. ASSUME NEW g \in Goroutines, Cleanup(g)
        PROVE  Trees'
    <2>1. g \in Active /\ job' = job
      BY <1>1, <1>4 DEF Cleanup, ActivePhases, SlotPhases
    <2>2. Removed(g)' => job'[g].id \notin worktrees'
      BY <1>4 DEF Cleanup, Removed
    <2>3. ~HasTree(g)'
      BY <1>0, <1>4 DEF Cleanup, HasTree, TypeOK
    <2>4. worktrees' \in {worktrees, worktrees \ {job[g].id}}
      BY <1>4 DEF Cleanup
    <2> QED
      BY <1>0, <1>4, <2>1, <2>2, <2>3, <2>4, OthersTrees DEF Cleanup, TypeOK
  <1>5. ASSUME NEW g \in Active, worktrees' = worktrees, job' = job,
               \A h \in Goroutines \ {g} : pc'[h] = pc[h] /\ outcome'[h] = outcome[h],
               HasTree(g)' => HasTree(g), Removed(g)' => Removed(g)
        PROVE  Trees'
    <2>1. HasTree(g)' => job'[g].id \in worktrees'
      BY <1>5 DEF Trees, Active
    <2>2. Removed(g)' => job'[g].id \notin worktrees'
      BY <1>5 DEF Trees, Active
    <2> QED
      BY <1>5, <2>1, <2>2, OthersTrees
  <1>6. ASSUME NEW g \in Goroutines,
               Acquire(g) \/ Drop(g) \/ Launch(g) \/ Unregister(g)
        PROVE  Trees'
    <2>1. /\ g \in Active /\ worktrees' = worktrees /\ job' = job
          /\ \A h \in Goroutines \ {g} : pc'[h] = pc[h] /\ outcome'[h] = outcome[h]
      BY <1>0, <1>1, <1>6 DEF Acquire, Drop, Launch, Unregister, TypeOK,
                              ActivePhases, SlotPhases
    <2>2. (HasTree(g)' => HasTree(g)) /\ ~Removed(g)'
      BY <1>0, <1>6 DEF Acquire, Drop, Launch, Unregister, TypeOK, HasTree,
                        Removed, Executed
    <2> QED
      BY <1>5, <2>1, <2>2
  <1>7. ASSUME NEW g \in Goroutines, NEW o \in Outcomes, ExecReturns(g, o)
        PROVE  Trees'
    <2>1. /\ g \in Active /\ worktrees' = worktrees /\ job' = job
          /\ \A h \in Goroutines \ {g} : pc'[h] = pc[h] /\ outcome'[h] = outcome[h]
          /\ pc[g] = "exec" /\ pc'[g] = "report"
      BY <1>0, <1>1, <1>7 DEF ExecReturns, TypeOK, ActivePhases, SlotPhases
    <2>2. outcome[g] = "none"
      BY <2>1 DEF Progressed, Progress, Active
    <2>3. (HasTree(g)' => HasTree(g)) /\ ~Removed(g)'
      BY <2>1, <2>2 DEF HasTree, Removed
    <2> QED
      BY <1>5, <2>1, <2>3
  <1>8. ASSUME NEW g \in Goroutines, Report(g)
        PROVE  Trees'
    <2>1. /\ g \in Active /\ worktrees' = worktrees /\ job' = job
          /\ \A h \in Goroutines \ {g} : pc'[h] = pc[h] /\ outcome'[h] = outcome[h]
          /\ outcome' = outcome /\ pc[g] = "report"
          /\ pc'[g] = IF outcome[g] = "setup" THEN "release" ELSE "unregister"
      BY <1>0, <1>1, <1>8 DEF Report, TypeOK, ActivePhases, SlotPhases
    <2>2. (HasTree(g)' => HasTree(g)) /\ ~Removed(g)'
      BY <2>1 DEF HasTree, Removed, Executed
    <2> QED
      BY <1>5, <2>1, <2>2
  <1>9. ASSUME NEW g \in Goroutines, Release(g) \/ Forget(g)
        PROVE  Trees'
    <2>1. /\ g \in Active /\ worktrees' = worktrees /\ job' = job
          /\ outcome' = outcome
          /\ \A h \in Goroutines \ {g} : pc'[h] = pc[h]
      BY <1>0, <1>1, <1>9 DEF Release, Forget, TypeOK, ActivePhases, SlotPhases
    <2>2. ~HasTree(g)' /\ (Removed(g)' => Removed(g))
      BY <1>0, <1>9 DEF Release, Forget, TypeOK, HasTree, Removed
    <2> QED
      BY <1>5, <2>1, <2>2
  <1>10. ASSUME NEW g \in Goroutines,
                (\E p \in Payload : Dispatch(g, p)) \/ Leave(g)
         PROVE  Trees'
    <2>1. ~HasTree(g)' /\ ~Removed(g)' /\ worktrees' = worktrees
      BY <1>0, <1>10 DEF Dispatch, Leave, TypeOK, HasTree, Removed
    <2>2. \A h \in Goroutines \ {g} :
             pc'[h] = pc[h] /\ outcome'[h] = outcome[h] /\ job'[h] = job[h]
      BY <1>0, <1>10 DEF Dispatch, Leave, TypeOK
    <2>3. \A h \in Goroutines \ {g} :
             /\ HasTree(h)' <=> HasTree(h)
             /\ Removed(h)' <=> Removed(h)
      BY <2>2 DEF HasTree, Removed
    <2> QED
      BY <2>1, <2>2, <2>3 DEF Trees
  <1>11. ASSUME UNCHANGED <<pc, outcome, job, worktrees>>
         PROVE  Trees'
    BY <1>11 DEF Trees, HasTree, Removed
  <1>12. ASSUME NEW j \in JobIds, RequestStop(j) \/ CancelLocalJob(j)
         PROVE  Trees'
    BY <1>11, <1>12 DEF RequestStop, CancelLocalJob
  <1>13. CASE BeginDrain \/ Return \/ Returned \/ Cancel \/ UNCHANGED vars
    BY <1>11, <1>13 DEF BeginDrain, Return, Returned, Cancel, vars
  <1> QED
    BY <1>2, <1>3, <1>4, <1>6, <1>7, <1>8, <1>9, <1>10, <1>12, <1>13
       DEF Next, Work

LEMMA TreesInvariant == Spec => []Trees
  <1>1. Init => Trees
    BY DEF Init, Trees, HasTree, Removed
  <1>2. Base /\ Dedup /\ Progressed /\ Trees /\ [Next]_vars => Trees'
    BY TreesStep
  <1> QED
    BY DedupInvariant, ProgressInvariant, <1>1, <1>2, PTL DEF Spec

\* EnsureWorktree and CleanupWorktree of different goroutines never meet in
\* one directory, because directories are named by job id and the id is owned:
\* a job keeps its worktree while it runs.
THEOREM WorktreeKept == Spec => []WorktreeHeld
  <1>1. Trees => WorktreeHeld
    BY DEF Trees, HasTree, WorktreeHeld
  <1> QED
    BY TreesInvariant, <1>1, PTL

\* The deferred CleanupWorktree: no worktree of an executed job outlives its slot.
THEOREM WorktreeLeft == Spec => []WorktreeRemoved
  <1>1. Trees => WorktreeRemoved
    BY DEF Trees, Removed, Executed, WorktreeRemoved
  <1> QED
    BY TreesInvariant, <1>1, PTL

-----------------------------------------------------------------------------
(* Jobs implements JobBoard *)

\* The phases that are shown on the board, and where.
LEMMA Shown ==
  /\ {"queued"} \subseteq ActivePhases /\ SlotPhases \subseteq ActivePhases
  /\ {"forget"} \subseteq ActivePhases
  /\ ActivePhases \subseteq Phases
  /\ ActivePhases = {"queued"} \cup SlotPhases \cup {"forget"}
  /\ "queued" \notin SlotPhases /\ "forget" \notin SlotPhases
  BY DEF Phases, LivePhases, ActivePhases, SlotPhases

\* A goroutine that moves from phase to phase takes its job id along, and no
\* other goroutine holds the id back: they own different ones.
LEMMA IdMoves ==
  ASSUME Base, Dedup, NEW g \in Goroutines, NEW p \in Phases,
         NEW CONSTANT P, P \subseteq ActivePhases,
         pc[g] \in ActivePhases, pc' = [pc EXCEPT ![g] = p], job' = job
  PROVE  /\ p \in P => IdsIn(P)' = IdsIn(P) \cup {job[g].id}
         /\ p \notin P => IdsIn(P)' = IdsIn(P) \ {job[g].id}
         /\ (p \in P <=> pc[g] \in P) => IdsIn(P)' = IdsIn(P)
         /\ pc[g] \in P => job[g].id \in IdsIn(P)
  <1> DEFINE S == {h \in Goroutines : pc[h] \in P}
             T == {h \in Goroutines : pc'[h] \in P}
  <1>1. T = IF p \in P THEN S \cup {g} ELSE S \ {g}
    BY DEF Base, TypeOK
  <1>2. \A h \in S \ {g} : job[h].id # job[g].id
    BY DEF Dedup, NoDuplicateExecution, Active
  <1>3. IdsIn(P) = {job[h].id : h \in S} /\ IdsIn(P)' = {job[h].id : h \in T}
    BY DEF IdsIn
  <1>4. g \in S <=> pc[g] \in P
    OBVIOUS
  <1> HIDE DEF S, T
  <1>5. p \in P => IdsIn(P)' = IdsIn(P) \cup {job[g].id}
    BY <1>1, <1>3
  <1>6. p \notin P => IdsIn(P)' = IdsIn(P) \ {job[g].id}
    BY <1>1, <1>2, <1>3
  <1>7. (p \in P <=> pc[g] \in P) => T = S
    BY <1>1, <1>4
  <1>8. pc[g] \in P => job[g].id \in IdsIn(P)
    BY <1>3, <1>4
  <1> QED
    BY <1>3, <1>5, <1>6, <1>7, <1>8

\* As many ids run as goroutines hold a slot, or fewer.
LEMMA RunningCount ==
  ASSUME Base
  PROVE  /\ Cardinality(IdsIn(SlotPhases)) \in Nat
         /\ Cardinality(IdsIn(SlotPhases)) <= slots
  <1> DEFINE f == [g \in Holders |-> job[g].id]
  <1>1. IdsIn(SlotPhases) = {f[g] : g \in Holders}
    BY DEF IdsIn, Holders
  <1>2. f \in Surjection(Holders, {f[g] : g \in Holders})
    BY DEF Surjection
  <1> HIDE DEF f
  <1>3. /\ IsFiniteSet({f[g] : g \in Holders})
        /\ Cardinality({f[g] : g \in Holders}) <= Cardinality(Holders)
    BY <1>2, FiniteSubsets, FS_Surjection
  <1> QED
    BY <1>1, <1>3, FS_CardinalityType DEF Base, Counted

-----------------------------------------------------------------------------

\* A step in which no goroutine changes its column.
LEMMA StaysPut ==
  ASSUME Base, Dedup, NEW g \in Goroutines, NEW p \in SlotPhases,
         pc[g] \in SlotPhases, pc' = [pc EXCEPT ![g] = p], job' = job,
         cancelled' = cancelled
  PROVE  UNCHANGED Board!boardVars
  <1>1. /\ pc[g] \in ActivePhases /\ p \in Phases
        /\ pc[g] \notin {"queued", "forget"} /\ p \notin {"queued", "forget"}
    BY Shown
  <1>2. IdsIn({"queued"})' = IdsIn({"queued"})
    BY <1>1, Shown, IdMoves
  <1>3. IdsIn(SlotPhases)' = IdsIn(SlotPhases)
    BY <1>1, Shown, IdMoves
  <1>4. IdsIn({"forget"})' = IdsIn({"forget"})
    BY <1>1, Shown, IdMoves
  <1> QED
    BY <1>2, <1>3, <1>4 DEF Board!boardVars

LEMMA BoardStep ==
  Base /\ Dedup /\ [Next]_vars => [Board!BoardNext]_(Board!boardVars)
  <1> SUFFICES ASSUME Base, Dedup, [Next]_vars
               PROVE  Board!BoardNext \/ UNCHANGED Board!boardVars
    OBVIOUS
  <1>1. ASSUME NEW g \in Goroutines, NEW p \in Payload, Dispatch(g, p)
        PROVE  Board!BoardNext
    <2>1. p.id \in JobIds
      BY PayloadType
    <2>2. \A P : P \subseteq ActivePhases => p.id \notin IdsIn(P)
      BY <1>1 DEF Dispatch, Dedup, BusyIsTruthful, IdsIn, Active
    <2>3. \A P : P \subseteq ActivePhases =>
             IdsIn(P)' = IF "queued" \in P THEN IdsIn(P) \cup {p.id} ELSE IdsIn(P)
      <3> SUFFICES ASSUME NEW CONSTANT P, P \subseteq ActivePhases
                   PROVE  IdsIn(P)' = IF "queued" \in P THEN IdsIn(P) \cup {p.id}
                                                         ELSE IdsIn(P)
        OBVIOUS
      <3> DEFINE S == {h \in Goroutines : pc[h] \in P}
                 T == {h \in Goroutines : pc'[h] \in P}
      <3>1. g \notin S /\ S \subseteq Goroutines
        BY <1>1 DEF Dispatch, ActivePhases, SlotPhases
      <3>2. T = IF "queued" \in P THEN S \cup {g} ELSE S
        BY <1>1, <3>1 DEF Dispatch, Base, TypeOK
      <3>3. job'[g] = p /\ \A h \in S : job'[h] = job[h]
        BY <1>1, <3>1 DEF Dispatch, Base, TypeOK
      <3>4. IdsIn(P) = {job[h].id : h \in S} /\ IdsIn(P)' = {job'[h].id : h \in T}
        BY DEF IdsIn
      <3> HIDE DEF S, T
      <3> QED
        BY <3>2, <3>3, <3>4
    <2>4. Board!Take(p.id)
      BY <1>1, <2>2, <2>3, Shown DEF Board!Take, Dispatch
    <2> QED
      BY <2>1, <2>4 DEF Board!BoardNext
  <1>2. CASE Cancel
    BY <1>2 DEF Cancel, IdsIn, Board!BoardNext, Board!Close
  <1>3. CASE BeginDrain \/ Return \/ Returned \/ UNCHANGED vars
    BY <1>3 DEF BeginDrain, Return, Returned, vars, IdsIn, Board!boardVars
  <1>4. ASSUME NEW g \in Goroutines, Acquire(g)
        PROVE  Board!BoardNext
    <2>1. /\ job[g].id \in JobIds /\ pc[g] \in ActivePhases
          /\ "start" \in SlotPhases /\ "start" \in Phases
      BY <1>4, PayloadType, Shown DEF Acquire, Base, HasJob, SlotPhases
    <2>2. /\ IdsIn({"queued"})' = IdsIn({"queued"}) \ {job[g].id}
          /\ job[g].id \in IdsIn({"queued"})
      BY <1>4, <2>1, Shown, IdMoves DEF Acquire
    <2>3. IdsIn(SlotPhases)' = IdsIn(SlotPhases) \cup {job[g].id}
      BY <1>4, <2>1, Shown, IdMoves DEF Acquire
    <2>4. IdsIn({"forget"})' = IdsIn({"forget"})
      BY <1>4, <2>1, Shown, IdMoves DEF Acquire
    <2>5. Board!Cardinality(IdsIn(SlotPhases)) < MaxConcurrentJobs
      <3>1. Board!Cardinality(IdsIn(SlotPhases)) = Cardinality(IdsIn(SlotPhases))
        BY DEF Board!Cardinality, Cardinality
      <3> QED
        BY <1>4, <3>1, RunningCount, JobsAssumption DEF Acquire, Base, TypeOK
    <2>6. Board!Begin(job[g].id)
      BY <1>4, <2>2, <2>3, <2>4, <2>5 DEF Board!Begin, Acquire
    <2> QED
      BY <2>1, <2>6 DEF Board!BoardNext
  <1>5. ASSUME NEW g \in Goroutines, Work(g)
        PROVE  Board!BoardNext \/ UNCHANGED Board!boardVars
    <2>1. CASE Drop(g)
      <3>1. job[g].id \in JobIds /\ pc[g] \in ActivePhases /\ "forget" \in Phases
        BY <2>1, PayloadType, Shown DEF Drop, Base, HasJob
      <3>2. /\ IdsIn({"queued"})' = IdsIn({"queued"}) \ {job[g].id}
            /\ job[g].id \in IdsIn({"queued"})
        BY <2>1, <3>1, Shown, IdMoves DEF Drop
      <3>3. IdsIn(SlotPhases)' = IdsIn(SlotPhases)
        BY <2>1, <3>1, Shown, IdMoves DEF Drop
      <3>4. IdsIn({"forget"})' = IdsIn({"forget"}) \cup {job[g].id}
        BY <2>1, <3>1, Shown, IdMoves DEF Drop
      <3>5. Board!TurnAway(job[g].id)
        BY <2>1, <3>2, <3>3, <3>4 DEF Board!TurnAway, Drop
      <3> QED
        BY <3>1, <3>5 DEF Board!BoardNext
    <2>2. CASE SetupFails(g) \/ Setup(g) \/ Launch(g)
      BY <2>2, StaysPut DEF SetupFails, Setup, Launch, SlotPhases
    <2>3. CASE \E o \in Outcomes : ExecReturns(g, o)
      BY <2>3, StaysPut DEF ExecReturns, SlotPhases
    <2>4. CASE Report(g) \/ Unregister(g) \/ Cleanup(g)
      BY <2>4, StaysPut DEF Report, Unregister, Cleanup, SlotPhases
    <2>5. CASE Release(g)
      <3>1. /\ job[g].id \in JobIds /\ pc[g] \in ActivePhases
            /\ pc[g] \in SlotPhases /\ "forget" \in Phases
        BY <2>5, PayloadType, Shown DEF Release, Base, HasJob, SlotPhases
      <3>2. IdsIn({"queued"})' = IdsIn({"queued"})
        BY <2>5, <3>1, Shown, IdMoves DEF Release
      <3>3. /\ IdsIn(SlotPhases)' = IdsIn(SlotPhases) \ {job[g].id}
            /\ job[g].id \in IdsIn(SlotPhases)
        BY <2>5, <3>1, Shown, IdMoves DEF Release
      <3>4. IdsIn({"forget"})' = IdsIn({"forget"}) \cup {job[g].id}
        BY <2>5, <3>1, Shown, IdMoves DEF Release
      <3>5. Board!Finish(job[g].id)
        BY <2>5, <3>2, <3>3, <3>4 DEF Board!Finish, Release
      <3> QED
        BY <3>1, <3>5 DEF Board!BoardNext
    <2>6. CASE Forget(g)
      <3>1. /\ job[g].id \in JobIds /\ pc[g] \in ActivePhases
            /\ "leave" \in Phases \ ActivePhases
            /\ "leave" \notin SlotPhases /\ pc[g] \notin SlotPhases
        BY <2>6, PayloadType, Shown
           DEF Forget, Base, HasJob, Phases, LivePhases, ActivePhases, SlotPhases
      <3>2. IdsIn({"queued"})' = IdsIn({"queued"})
        BY <2>6, <3>1, Shown, IdMoves DEF Forget
      <3>3. IdsIn(SlotPhases)' = IdsIn(SlotPhases)
        BY <2>6, <3>1, Shown, IdMoves DEF Forget
      <3>4. /\ IdsIn({"forget"})' = IdsIn({"forget"}) \ {job[g].id}
            /\ job[g].id \in IdsIn({"forget"})
        BY <2>6, <3>1, Shown, IdMoves DEF Forget
      <3>5. Board!LetGo(job[g].id)
        BY <2>6, <3>2, <3>3, <3>4 DEF Board!LetGo, Forget
      <3> QED
        BY <3>1, <3>5 DEF Board!BoardNext
    <2>7. CASE Leave(g)
      <3>1. pc[g] \notin ActivePhases /\ "unused" \notin ActivePhases
        BY <2>7 DEF Leave, ActivePhases, SlotPhases
      <3>2. \A P : P \subseteq ActivePhases => IdsIn(P)' = IdsIn(P)
        <4> SUFFICES ASSUME NEW CONSTANT P, P \subseteq ActivePhases
                     PROVE  IdsIn(P)' = IdsIn(P)
          OBVIOUS
        <4> DEFINE S == {h \in Goroutines : pc[h] \in P}
        <4>1. {h \in Goroutines : pc'[h] \in P} = S
          BY <2>7, <3>1 DEF Leave, Base, TypeOK
        <4>2. \A h \in S : job'[h] = job[h]
          BY <2>7, <3>1 DEF Leave, Base, TypeOK
        <4>3. IdsIn(P) = {job[h].id : h \in S} /\ IdsIn(P)' = {job'[h].id : h \in S}
          BY <4>1 DEF IdsIn
        <4> HIDE DEF S
        <4> QED
          BY <4>2, <4>3
      <3> QED
        BY <2>7, <3>2, Shown DEF Board!boardVars, Leave
    <2> QED
      BY <1>5, <2>1, <2>2, <2>3, <2>4, <2>5, <2>6, <2>7 DEF Work
  <1>6. ASSUME NEW j \in JobIds, RequestStop(j) \/ CancelLocalJob(j)
        PROVE  UNCHANGED Board!boardVars
    BY <1>6 DEF RequestStop, CancelLocalJob, IdsIn, Board!boardVars
  <1> QED
    BY <1>1, <1>2, <1>3, <1>4, <1>5, <1>6 DEF Next

\* The poll loop, the map, the semaphore and the deferred calls of runner.go
\* together keep the promise of the board: an id is taken once, begins below
\* the limit, is turned away only by a shutdown, and is free again only when it
\* has been let go of.
THEOREM BoardImplemented == Spec => ImplementsBoard
  <1>1. Init => Board!BoardInit
    <2>1. ASSUME Init, NEW CONSTANT P, P \subseteq ActivePhases
          PROVE  IdsIn(P) = {}
      BY <2>1 DEF Init, IdsIn, ActivePhases, SlotPhases
    <2> QED
      BY <2>1, Shown DEF Init, Board!BoardInit
  <1> QED
    BY <1>1, BoardStep, DedupInvariant, PTL
       DEF Spec, ImplementsBoard, Board!BoardSpec
=============================================================================
