-------------------------------- MODULE Jobs --------------------------------
(***************************************************************************)
(* Dispatch and life cycle of jobs in internal/runner/runner.go: the poll  *)
(* loop of Run claims a job, deduplicates it through activeJobs and starts *)
(* a goroutine; the goroutine waits for a slot of the semaphore or for the *)
(* end of the context, runs handleJob (or handleToolJob, or                *)
(* handleRunLocalScript), reports one verdict, and leaves through its      *)
(* deferred calls in last-in first-out order.                              *)
(*                                                                         *)
(* The position of a goroutine in the code is pc[g]; a step between two    *)
(* positions is one access to state other goroutines share.  The name of a *)
(* goroutine that has ended is used again, so the number of claims is not  *)
(* bounded, only how many are alive at once.  The platform is external: it *)
(* may hand out any job at any poll, the same one again included.          *)
(***************************************************************************)
EXTENDS Naturals, Sequences, FiniteSets

CONSTANTS
    JobIds,             \* ids of the jobs
    Payload,            \* the jobs the platform hands out
    Goroutines,         \* names of the goroutines alive at once
    MaxConcurrentJobs,  \* capacity of the semaphore
    NoJob, NoGoroutine  \* absent values

\* A job as handleJob tells jobs apart: tool_name empty, run_local_script or
\* another tool; and whether git_repo_url is set.
ASSUME JobsAssumption ==
    /\ Payload \subseteq
         [id : JobIds, kind : {"bash", "script", "tool"}, repo : BOOLEAN]
    /\ NoJob \notin Payload
    /\ IsFiniteSet(Goroutines)
    /\ NoGoroutine \notin Goroutines
    /\ MaxConcurrentJobs \in Nat \ {0}

VARIABLES
    cancelled,   \* ctx.Done() is closed
    loop,        \* the poll loop: "polling", "draining" (wg.Wait), "returned"
    wg,          \* counter of the WaitGroup
    slots,       \* tokens in the semaphore channel
    activeJobs,  \* keys of the sync.Map activeJobs
    jobCancels,  \* the sync.Map jobCancels: whose context a job id cancels
    worktrees,   \* job ids whose worktree directory exists on disk
    pc,          \* where each goroutine stands
    job,         \* the job each goroutine was started with
    outcome,     \* how its execution ended
    reports,     \* the terminal reports it has sent, oldest first
    stopping,    \* StopAgentJob calls between the POST and cancelLocalJob
    stopped      \* goroutines whose jobCtx a stop has cancelled

vars == <<cancelled, loop, wg, slots, activeJobs, jobCancels, worktrees,
          pc, job, outcome, reports, stopping, stopped>>

-----------------------------------------------------------------------------

\* Phases in which a goroutine owns a token of the semaphore.
SlotPhases ==
    {"start", "launch", "exec", "report", "unregister", "cleanup", "release"}

\* Phases between jobCancels.Store and jobCancels.Delete; a goroutine whose
\* setup failed passes through "report" as well, without an entry.
Registered == {"exec", "report", "unregister"}

\* Phases in which its job id is a key of activeJobs.
ActivePhases == SlotPhases \cup {"queued", "forget"}

\* Phases the WaitGroup counts.
LivePhases == ActivePhases \cup {"leave"}

Phases == LivePhases \cup {"unused"}

Outcomes == {"none", "dropped", "setup", "ok", "nonzero", "err", "cancelled"}

Holders == {g \in Goroutines : pc[g] \in SlotPhases}
Active  == {g \in Goroutines : pc[g] \in ActivePhases}
Live    == {g \in Goroutines : pc[g] \in LivePhases}

TypeOK ==
    /\ cancelled \in BOOLEAN
    /\ loop \in {"polling", "draining", "returned"}
    /\ wg \in Nat
    /\ slots \in Nat
    /\ activeJobs \subseteq JobIds
    /\ jobCancels \in [JobIds -> Goroutines \cup {NoGoroutine}]
    /\ worktrees \subseteq JobIds
    /\ pc \in [Goroutines -> Phases]
    /\ job \in [Goroutines -> Payload \cup {NoJob}]
    /\ outcome \in [Goroutines -> Outcomes]
    /\ reports \in [Goroutines -> Seq({"complete", "failed"})]
    /\ stopping \subseteq JobIds
    /\ stopped \subseteq Goroutines

\* Nothing about a job survives a restart but its worktree, which a killed
\* process leaves behind: those of earlier jobs may exist at start.
Init ==
    /\ cancelled = FALSE
    /\ loop = "polling"
    /\ wg = 0
    /\ slots = 0
    /\ activeJobs = {}
    /\ jobCancels = [j \in JobIds |-> NoGoroutine]
    /\ worktrees \in SUBSET {p.id : p \in {q \in Payload : q.repo}}
    /\ pc = [g \in Goroutines |-> "unused"]
    /\ job = [g \in Goroutines |-> NoJob]
    /\ outcome = [g \in Goroutines |-> "none"]
    /\ reports = [g \in Goroutines |-> <<>>]
    /\ stopping = {}
    /\ stopped = {}

-----------------------------------------------------------------------------
(* The poll loop *)

\* Mutant: the id is looked up by nobody before it is stored.
DispatchAnyway(g, p) ==
    /\ loop = "polling" /\ pc[g] = "unused"
    /\ activeJobs' = activeJobs \cup {p.id}
    /\ wg' = wg + 1
    /\ pc' = [pc EXCEPT ![g] = "queued"]
    /\ job' = [job EXCEPT ![g] = p]
    /\ UNCHANGED <<cancelled, loop, slots, jobCancels, worktrees, outcome,
                   reports, stopping, stopped>>

\* A poll returned job p and activeJobs.LoadOrStore stored its id (when the
\* id is already there the loop continues and nothing changes).  select may
\* still take the tick once the context is done.
Dispatch(g, p) ==
    /\ loop = "polling"
    /\ pc[g] = "unused"
    /\ p.id \notin activeJobs
    /\ activeJobs' = activeJobs \cup {p.id}
    /\ wg' = wg + 1
    /\ pc' = [pc EXCEPT ![g] = "queued"]
    /\ job' = [job EXCEPT ![g] = p]
    /\ UNCHANGED <<cancelled, loop, slots, jobCancels, worktrees, outcome,
                   reports, stopping, stopped>>

\* The loop sees ctx.Done(), or a poll finds the registration revoked.
BeginDrain ==
    /\ loop = "polling"
    /\ loop' = "draining"
    /\ UNCHANGED <<cancelled, wg, slots, activeJobs, jobCancels, worktrees,
                   pc, job, outcome, reports, stopping, stopped>>

\* Mutant: no wg.Wait.
ReturnAtOnce ==
    /\ loop = "draining"
    /\ loop' = "returned"
    /\ UNCHANGED <<cancelled, wg, slots, activeJobs, jobCancels, worktrees,
                   pc, job, outcome, reports, stopping, stopped>>

\* wg.Wait returns and so does Run.
Return ==
    /\ loop = "draining"
    /\ wg = 0
    /\ loop' = "returned"
    /\ UNCHANGED <<cancelled, wg, slots, activeJobs, jobCancels, worktrees,
                   pc, job, outcome, reports, stopping, stopped>>

\* The only way for the runner to stop: anything else is a deadlock.
Returned == loop = "returned" /\ UNCHANGED vars

\* A signal, the tray's Quit or the revocation callback cancels the context.
Cancel ==
    /\ ~cancelled
    /\ cancelled' = TRUE
    /\ UNCHANGED <<loop, wg, slots, activeJobs, jobCancels, worktrees,
                   pc, job, outcome, reports, stopping, stopped>>

-----------------------------------------------------------------------------
(* A job's goroutine *)

Acquire(g) ==
    /\ pc[g] = "queued"
    /\ slots < MaxConcurrentJobs
    /\ slots' = slots + 1
    /\ pc' = [pc EXCEPT ![g] = "start"]
    /\ UNCHANGED <<cancelled, loop, wg, activeJobs, jobCancels, worktrees,
                   job, outcome, reports, stopping, stopped>>

\* Mutants: the token is given back by a goroutine that never took one; the
\* goroutine gives up without a shutdown.
DropReleases(g) ==
    /\ pc[g] = "queued" /\ cancelled
    /\ slots' = slots - 1
    /\ outcome' = [outcome EXCEPT ![g] = "dropped"]
    /\ pc' = [pc EXCEPT ![g] = "forget"]
    /\ UNCHANGED <<cancelled, loop, wg, activeJobs, jobCancels, worktrees, job,
                   reports, stopping, stopped>>
DropAnyTime(g) ==
    /\ pc[g] = "queued"
    /\ outcome' = [outcome EXCEPT ![g] = "dropped"]
    /\ pc' = [pc EXCEPT ![g] = "forget"]
    /\ UNCHANGED <<cancelled, loop, wg, slots, activeJobs, jobCancels, worktrees,
                   job, reports, stopping, stopped>>

\* The other arm of the select: the claimed job ends with no report.
Drop(g) ==
    /\ pc[g] = "queued"
    /\ cancelled
    /\ outcome' = [outcome EXCEPT ![g] = "dropped"]
    /\ pc' = [pc EXCEPT ![g] = "forget"]
    /\ UNCHANGED <<cancelled, loop, wg, slots, activeJobs, jobCancels,
                   worktrees, job, reports, stopping, stopped>>

\* Mutant: an early return without a report.
SetupFailsSilently(g) ==
    /\ pc[g] = "start" /\ (job[g].kind = "script" \/ job[g].repo)
    /\ outcome' = [outcome EXCEPT ![g] = "setup"]
    /\ pc' = [pc EXCEPT ![g] = "release"]
    /\ UNCHANGED <<cancelled, loop, wg, slots, activeJobs, jobCancels, worktrees,
                   job, reports, stopping, stopped>>

\* The script of run_local_script cannot be loaded, or EnsureWorktree fails,
\* which may leave no worktree where a stale one was.
SetupFails(g) ==
    /\ pc[g] = "start"
    /\ \/ job[g].kind = "script" /\ UNCHANGED worktrees
       \/ job[g].repo /\ worktrees' \in {worktrees, worktrees \ {job[g].id}}
    /\ outcome' = [outcome EXCEPT ![g] = "setup"]
    /\ pc' = [pc EXCEPT ![g] = "report"]
    /\ UNCHANGED <<cancelled, loop, wg, slots, activeJobs, jobCancels,
                   job, reports, stopping, stopped>>

\* The script is loaded and the worktree, if one is asked for, created.
Setup(g) ==
    /\ pc[g] = "start"
    /\ worktrees' = IF job[g].repo THEN worktrees \cup {job[g].id}
                                   ELSE worktrees
    /\ pc' = [pc EXCEPT ![g] = "launch"]
    /\ UNCHANGED <<cancelled, loop, wg, slots, activeJobs, jobCancels,
                   job, outcome, reports, stopping, stopped>>

\* jobCancels.Store and the call of Execute; a tool job is not registered.
Launch(g) ==
    /\ pc[g] = "launch"
    /\ jobCancels' = IF job[g].kind = "tool" THEN jobCancels
                     ELSE [jobCancels EXCEPT ![job[g].id] = g]
    /\ pc' = [pc EXCEPT ![g] = "exec"]
    /\ UNCHANGED <<cancelled, loop, wg, slots, activeJobs, worktrees,
                   job, outcome, reports, stopping, stopped>>

\* Execute returns and the output is drained.  Only a script sees its
\* context, and a cancelled one may still end in any way.
ExecReturns(g, o) ==
    /\ pc[g] = "exec"
    /\ \/ o \in {"ok", "err"}
       \/ o = "nonzero" /\ job[g].kind # "tool"
       \/ o = "cancelled" /\ job[g].kind # "tool" /\ (cancelled \/ g \in stopped)
    /\ outcome' = [outcome EXCEPT ![g] = o]
    /\ pc' = [pc EXCEPT ![g] = "report"]
    /\ UNCHANGED <<cancelled, loop, wg, slots, activeJobs, jobCancels,
                   worktrees, job, reports, stopping, stopped>>

Verdict(o) == IF o \in {"ok", "nonzero"} THEN "complete" ELSE "failed"

\* ReportJobComplete or ReportJobFailed; an error of the call is only logged.
Report(g) ==
    /\ pc[g] = "report"
    /\ reports' = [reports EXCEPT ![g] = Append(@, Verdict(outcome[g]))]
    /\ pc' = [pc EXCEPT ![g] =
                IF outcome[g] = "setup" THEN "release" ELSE "unregister"]
    /\ UNCHANGED <<cancelled, loop, wg, slots, activeJobs, jobCancels,
                   worktrees, job, outcome, stopping, stopped>>

\* Mutant: the cancel function stays in the map.
UnregisterNothing(g) ==
    /\ pc[g] = "unregister"
    /\ pc' = [pc EXCEPT ![g] = "cleanup"]
    /\ UNCHANGED <<cancelled, loop, wg, slots, activeJobs, jobCancels, worktrees,
                   job, outcome, reports, stopping, stopped>>

\* Deferred: jobCancels.Delete, cancelJob.
Unregister(g) ==
    /\ pc[g] = "unregister"
    /\ jobCancels' = IF job[g].kind = "tool" THEN jobCancels
                     ELSE [jobCancels EXCEPT ![job[g].id] = NoGoroutine]
    /\ pc' = [pc EXCEPT ![g] = "cleanup"]
    /\ UNCHANGED <<cancelled, loop, wg, slots, activeJobs, worktrees,
                   job, outcome, reports, stopping, stopped>>

\* Mutant: only a job that ended well cleans up.
CleanupOnSuccess(g) ==
    /\ pc[g] = "cleanup"
    /\ worktrees' = IF outcome[g] = "ok" THEN worktrees \ {job[g].id} ELSE worktrees
    /\ pc' = [pc EXCEPT ![g] = "release"]
    /\ UNCHANGED <<cancelled, loop, wg, slots, activeJobs, jobCancels, job,
                   outcome, reports, stopping, stopped>>

\* Deferred: CleanupWorktree, which removes the directory of the job's id.
Cleanup(g) ==
    /\ pc[g] = "cleanup"
    /\ worktrees' = IF job[g].repo THEN worktrees \ {job[g].id} ELSE worktrees
    /\ pc' = [pc EXCEPT ![g] = "release"]
    /\ UNCHANGED <<cancelled, loop, wg, slots, activeJobs, jobCancels,
                   job, outcome, reports, stopping, stopped>>

\* Mutant: the token is kept.
ReleaseNothing(g) ==
    /\ pc[g] = "release"
    /\ pc' = [pc EXCEPT ![g] = "forget"]
    /\ UNCHANGED <<cancelled, loop, wg, slots, activeJobs, jobCancels, worktrees,
                   job, outcome, reports, stopping, stopped>>

\* Deferred: <-r.semaphore.
Release(g) ==
    /\ pc[g] = "release"
    /\ slots' = slots - 1
    /\ pc' = [pc EXCEPT ![g] = "forget"]
    /\ UNCHANGED <<cancelled, loop, wg, activeJobs, jobCancels, worktrees,
                   job, outcome, reports, stopping, stopped>>

\* Deferred: activeJobs.Delete.
Forget(g) ==
    /\ pc[g] = "forget"
    /\ activeJobs' = activeJobs \ {job[g].id}
    /\ pc' = [pc EXCEPT ![g] = "leave"]
    /\ UNCHANGED <<cancelled, loop, wg, slots, jobCancels, worktrees,
                   job, outcome, reports, stopping, stopped>>

\* Deferred: wg.Done.  The goroutine ends and its locals are gone.
Leave(g) ==
    /\ pc[g] = "leave"
    /\ wg' = wg - 1
    /\ pc' = [pc EXCEPT ![g] = "unused"]
    /\ job' = [job EXCEPT ![g] = NoJob]
    /\ outcome' = [outcome EXCEPT ![g] = "none"]
    /\ reports' = [reports EXCEPT ![g] = <<>>]
    /\ stopped' = stopped \ {g}
    /\ UNCHANGED <<cancelled, loop, slots, activeJobs, jobCancels, worktrees,
                   stopping>>

-----------------------------------------------------------------------------
(* StopAgentJob, called by the status window for the job it shows *)

\* The request to the platform, which may fail: the local half follows anyway.
RequestStop(j) ==
    /\ j \notin stopping
    /\ \E g \in Holders : job[g].id = j
    /\ stopping' = stopping \cup {j}
    /\ UNCHANGED <<cancelled, loop, wg, slots, activeJobs, jobCancels,
                   worktrees, pc, job, outcome, reports, stopped>>

\* cancelLocalJob: whatever jobCancels holds for the id now, if anything.
CancelLocalJob(j) ==
    /\ j \in stopping
    /\ stopping' = stopping \ {j}
    /\ stopped' = stopped \cup ({jobCancels[j]} \ {NoGoroutine})
    /\ UNCHANGED <<cancelled, loop, wg, slots, activeJobs, jobCancels,
                   worktrees, pc, job, outcome, reports>>

-----------------------------------------------------------------------------

\* The steps a goroutine takes without waiting for a slot.
Work(g) ==
    \/ Drop(g)
    \/ SetupFails(g) \/ Setup(g) \/ Launch(g)
    \/ \E o \in Outcomes : ExecReturns(g, o)
    \/ Report(g) \/ Unregister(g) \/ Cleanup(g)
    \/ Release(g) \/ Forget(g) \/ Leave(g)

Next ==
    \/ \E g \in Goroutines, p \in Payload : Dispatch(g, p)
    \/ BeginDrain \/ Return \/ Returned \/ Cancel
    \/ \E g \in Goroutines : Acquire(g) \/ Work(g)
    \/ \E j \in JobIds : RequestStop(j) \/ CancelLocalJob(j)

Spec == Init /\ [][Next]_vars

\* A goroutine that can run does.  An execution ends: scripts are bounded by a
\* timeout, while git, native tools and an approval without a timeout are
\* assumed to come back.  A blocked sender of a Go channel is served in arrival
\* order, so a waiting job that sees a free slot again and again gets one.  The
\* poll loop, whose select waits on ctx.Done(), sees a done context.
Fairness ==
    /\ \A g \in Goroutines : WF_vars(Work(g)) /\ SF_vars(Acquire(g))
    /\ WF_vars(cancelled /\ BeginDrain)
    /\ WF_vars(Return)
    /\ \A j \in JobIds : WF_vars(CancelLocalJob(j))

FairSpec == Spec /\ Fairness

-----------------------------------------------------------------------------
(* Properties *)

IdsIn(phases) == {job[g].id : g \in {h \in Goroutines : pc[h] \in phases}}

Board == INSTANCE JobBoard WITH
    Limit   <- MaxConcurrentJobs,
    waiting <- IdsIn({"queued"}),
    running <- IdsIn(SlotPhases),
    leaving <- IdsIn({"forget"}),
    closing <- cancelled

\* The goroutines, the map and the semaphore implement the abstract board: a
\* job id is in one place at a time, begins only below the limit, and is
\* turned away only when the runner closes.
ImplementsBoard == Board!BoardSpec

\* spec/architecture.md, "caps concurrent jobs at MaxConcurrentJobs": however
\* claims, drops and releases interleave, no more goroutines are inside
\* handleJob than the semaphore has tokens.
SlotBound == Cardinality(Holders) <= MaxConcurrentJobs

\* spec/architecture.md, "prevents duplicate execution if the same jobId is
\* returned by two polls": two goroutines that wait, run or unwind never have
\* the same job id, even when the platform hands a job out again while its
\* first goroutine is in its deferred calls.
NoDuplicateExecution ==
    \A g, h \in Active : job[g].id = job[h].id => g = h

\* What the heartbeat reports as "busy" is the truth: activeJobs holds the ids
\* of exactly the goroutines that have not yet let go of their job.
BusyIsTruthful == activeJobs = {job[g].id : g \in Active}

\* A script that executes can be stopped, and only it: the cancel function in
\* jobCancels is that of the goroutine that runs this very job.  A stop that
\* arrives late, when the job has ended and was claimed again, may cancel the
\* new run, but never another job's.
CancelReachesItsJob ==
    /\ \A g \in Goroutines :
         pc[g] \in Registered /\ outcome[g] # "setup" /\ job[g].kind # "tool" =>
             jobCancels[job[g].id] = g
    /\ \A j \in JobIds : jobCancels[j] # NoGoroutine =>
         /\ pc[jobCancels[j]] \in Registered
         /\ job[jobCancels[j]].id = j

\* Each claimed job is answered at most once, and a goroutine that ends
\* without an answer was dropped from the queue because the runner shuts down.
OneVerdict ==
    \A g \in Goroutines :
        /\ Len(reports[g]) <= 1
        /\ pc[g] \in {"forget", "leave"} /\ reports[g] = <<>> =>
             outcome[g] = "dropped" /\ cancelled

\* A job that runs inside a repository has its worktree on disk until its own
\* cleanup, whatever other goroutines set up and remove meanwhile.
WorktreeHeld ==
    \A g \in Goroutines :
        pc[g] \in {"launch", "exec", "report", "unregister", "cleanup"} /\ job[g].repo
          /\ outcome[g] # "setup" => job[g].id \in worktrees

\* By the time it gives its slot back, a job that got a worktree has removed it.
WorktreeRemoved ==
    \A g \in Goroutines :
        pc[g] \in {"release", "forget"} /\ job[g].repo
          /\ outcome[g] \in {"ok", "nonzero", "err", "cancelled"} =>
             job[g].id \notin worktrees

\* Run returns only when every goroutine it started has ended, so nothing is
\* reported, cleaned up or deleted behind the caller's back.
RunReturnsLast ==
    loop = "returned" => Live = {}

\* Every job that is claimed is eventually let go of.
EveryClaimEnds == \A g \in Goroutines : pc[g] = "queued" ~> pc[g] = "unused"

=============================================================================
