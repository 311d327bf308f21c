----------------------------- MODULE Execution -----------------------------
(***************************************************************************)
(* One script, from handleJob (internal/runner/runner.go) through          *)
(* Executor.Execute - docker.go, kubernetes.go or the subprocess of        *)
(* local.go - to the verdict at the platform.  Jobs run side by side but   *)
(* share nothing here, so one is enough; module Jobs has them all.         *)
(*                                                                         *)
(* Goroutines: that of the job, at `at`; the one that streams the output   *)
(* into outputChan (in kubernetes.go it is the job's own); the one that    *)
(* takes it out and posts it, at `drain`.  They meet in outputChan, whose  *)
(* chunks sent + 1 .. are still to come and taken + 1 .. sent are in it.   *)
(* A chunk is what one Read of a container's log brings, or a line of a    *)
(* process.  The script runs in a box: container, Kubernetes job, process. *)
(***************************************************************************)
EXTENDS Retry

CONSTANTS
    Kinds,     \* executors: docker, kubernetes, local
    Chunks,    \* bound: what a script writes
    Capacity   \* of outputChan; the code has 100

ASSUME ExecutionAssumption ==
    /\ Kinds \subseteq {"docker", "kubernetes", "local"}
    /\ Chunks \in Nat /\ Capacity \in Nat \ {0}

VARIABLES
    kind,      \* the executor of this process
    foreign,   \* somebody else's Kubernetes job has the name: none, there, gone
    at,        \* where the job's goroutine stands
    box,       \* what the script runs in
    code,      \* the exit code of a script that ended by itself
    orphan,    \* a child of a local script has its output open
    written, sent, taken,   \* chunks: by the script, into, out of outputChan
    stream,    \* the streaming goroutine
    torn,      \* docker: some bytes of a chunk were lost, or headers left in it
    drain,     \* the goroutine that posts
    ctx,       \* jobCtx, and timeoutCtx once it is there
    outcome,   \* what Execute returns
    \* history, which no action reads
    givenUp,   \* chunks whose every attempt failed
    cut,       \* the log was ended before its end
    leaked     \* a call that makes or removes the box failed

jobVars  == <<kind, foreign, at, box, code, orphan, ctx, outcome>>
outVars  == <<written, sent, taken, stream, torn, drain>>
history  == <<givenUp, cut, leaked>>
vars == <<jobVars, outVars, history, callVars>>

\* "ok" and "bad" are exit codes, "killed" is -1; the others are errors.
Verdicts == {"ok", "bad", "killed", "failed", "cancelled"}

Stations == {"off", "pull", "create", "start", "logs", "wait", "close", "pod",
             "stream", "exit", "gate", "script", "launch", "refuse", "join", "reap",
             "remove", "return", "drain", "verdict", "report", "over"}

TypeOK ==
    /\ RetryTypeOK
    /\ kind \in Kinds /\ foreign \in {"none", "there", "gone"}
    /\ at \in Stations
    /\ box \in {"none", "created", "running", "ended", "killed", "gone"}
    /\ code \in {"none", "zero", "other"} /\ orphan \in BOOLEAN
    /\ written \in 0..Chunks /\ sent \in 0..written /\ taken \in 0..sent
    /\ sent - taken <= Capacity
    /\ stream \in {"none", "read", "send", "done"}
    /\ torn \in BOOLEAN
    /\ drain \in {"none", "recv", "post", "done"}
    /\ ctx \in {"live", "canceled", "expired"}
    /\ outcome \in Verdicts \cup {"none"}
    /\ givenUp \subseteq 1..Chunks /\ {cut, leaked} \subseteq BOOLEAN

Chunk(k) == [what |-> "output", n |-> k]

\* The chunks, and the verdicts with the chunks the output has, and whether
\* each of them is what the script wrote.
ASSUME MessagesAssumption ==
    Messages = {Chunk(k) : k \in 1..Chunks}
                   \cup [what : Verdicts, n : 0..Chunks, whole : BOOLEAN]

\* What handleJob reports: the exit code with the output so far, or an error.
Verdict ==
    [what  |-> outcome,
     n     |-> IF outcome \in {"failed", "cancelled"} THEN 0 ELSE taken,
     whole |-> ~torn]

Init ==
    /\ RetryInit
    /\ kind \in Kinds
    /\ foreign \in IF kind = "kubernetes" THEN {"none", "there"} ELSE {"none"}
    /\ at = "off" /\ box = "none" /\ code = "none" /\ orphan = FALSE
    /\ written = 0 /\ sent = 0 /\ taken = 0 /\ stream = "none" /\ drain = "none"
    /\ torn = FALSE
    /\ ctx = "live" /\ outcome = "none"
    /\ givenUp = {} /\ cut = FALSE /\ leaked = FALSE

-----------------------------------------------------------------------------
(* Steps of the job's goroutine: what they share *)

\* A step from one station to another that touches nothing of the streams.
Go(from, to) ==
    /\ at = from /\ at' = to
    /\ UNCHANGED <<kind, foreign, code, orphan, ctx, written, sent, taken, torn,
                   drain, givenUp, call, late, inbox>>

\* err of a call under ctx
CtxErr == IF ctx = "canceled" THEN "cancelled" ELSE "failed"

\* A call to docker or Kubernetes fails, for the context or by itself.
CallFails ==
    \/ ctx # "live" /\ outcome' = CtxErr /\ UNCHANGED faults
    \/ outcome' = "failed" /\ Fault

\* The status of a script that ended by itself.
ExitStatus == IF code = "zero" THEN "ok" ELSE "bad"

\* The context, by StopAgentJob or the shutdown of the runner.
Stop ==
    /\ ctx = "live"
    /\ at \notin {"off", "return", "drain", "verdict", "report", "over"}
    /\ ctx' = "canceled"
    /\ UNCHANGED <<kind, foreign, at, box, code, orphan, outcome, outVars,
                   history, callVars>>

\* timeoutCtx, which docker.go and kubernetes.go make after the box.
Timed == CASE kind = "docker"     -> {"wait"}
           [] kind = "kubernetes" -> {"pod", "stream", "exit"}
           [] kind = "local"      -> {"join", "reap"}

Expire ==
    /\ ctx = "live" /\ at \in Timed
    /\ ctx' = "expired"
    /\ UNCHANGED <<kind, foreign, at, box, code, orphan, outcome, outVars,
                   history, callVars>>

\* handleJob up to the call of Execute.
HandleJob ==
    /\ at = "off"
    /\ at' = CASE kind = "docker"     -> "pull"
               [] kind = "kubernetes" -> "create"
               [] kind = "local"      -> "gate"
    /\ drain' = "recv"
    /\ UNCHANGED <<kind, foreign, box, code, orphan, ctx, outcome, written, sent,
                   taken, stream, torn, history, callVars>>

-----------------------------------------------------------------------------
(* docker.go *)

Pull ==
    /\ \/ ctx = "live" /\ Go("pull", "create") /\ UNCHANGED <<outcome, faults>>
       \/ Go("pull", "return") /\ CallFails
    /\ UNCHANGED <<box, stream, cut, leaked>>

CreateContainer ==
    /\ kind = "docker" /\ ctx = "live" /\ Go("create", "start")
    /\ box' = "created"
    /\ UNCHANGED <<outcome, stream, cut, leaked, faults>>

\* In docker.go and kubernetes.go: no defer is there yet, and what was made
\* although the call failed stays.
CreateFails ==
    /\ Go("create", "return") /\ CallFails
    /\ box' \in {"none", "created"} /\ leaked' = (box' = "created")
    /\ UNCHANGED <<stream, cut>>

Start ==
    /\ \/ /\ ctx = "live" /\ Go("start", "logs") /\ box' = "running"
          /\ UNCHANGED <<outcome, faults>>
       \/ /\ Go("start", "remove") /\ box' \in {box, "running"} /\ CallFails
    /\ UNCHANGED <<stream, cut, leaked>>

Logs ==
    /\ \/ ctx = "live" /\ Go("logs", "wait") /\ stream' = "read"
          /\ UNCHANGED <<outcome, faults>>
       \/ Go("logs", "remove") /\ CallFails /\ UNCHANGED stream
    /\ UNCHANGED <<box, cut, leaked>>

\* Mutant: no case for timeoutCtx, and none for errCh.
WaitForStatus ==
    /\ Go("wait", "close")
    /\ box = "ended" /\ outcome' = ExitStatus
    /\ UNCHANGED <<box, stream, cut, leaked, faults>>

\* The select over statusCh, errCh and timeoutCtx.Done() takes any arm that is
\* ready; ContainerStop may fail.
Wait ==
    /\ Go("wait", "close")
    /\ \/ box = "ended" /\ outcome' = ExitStatus /\ UNCHANGED <<box, faults>>
       \/ CallFails /\ UNCHANGED box
       \/ /\ ctx # "live" /\ outcome' = "failed"
          /\ box' \in {box, IF box = "running" THEN "killed" ELSE box}
          /\ UNCHANGED faults
    /\ UNCHANGED <<stream, cut, leaked>>

\* out.Close(): Read fails from now on, also where there is more to read.
CloseLogs ==
    /\ Go("close", "join")
    /\ stream' = IF stream = "read" THEN "done" ELSE stream
    /\ cut' = (cut \/ stream # "done")
    /\ UNCHANGED <<box, outcome, leaked, faults>>

\* Mutant: Execute does not wait for its streaming goroutines.
ReturnAtOnce ==
    /\ Go("join", IF kind = "local" THEN "reap" ELSE "remove")
    /\ UNCHANGED <<box, outcome, stream, cut, leaked, faults>>

\* <-streamDone; in local.go wg.Wait().
Join ==
    /\ stream = "done"
    /\ Go("join", IF kind = "local" THEN "reap" ELSE "remove")
    /\ UNCHANGED <<box, outcome, stream, cut, leaked, faults>>

\* The deferred ContainerRemove or Delete, by name, whose error is ignored.
Remove ==
    /\ at = "remove" /\ at' = "return"
    /\ \/ /\ box' = "gone" /\ foreign' = IF foreign = "there" THEN "gone" ELSE foreign
          /\ UNCHANGED <<leaked, faults>>
       \/ leaked' = TRUE /\ Fault /\ UNCHANGED <<box, foreign>>
    /\ UNCHANGED <<kind, code, orphan, ctx, outcome, outVars, givenUp, cut, call,
                   late, inbox>>

-----------------------------------------------------------------------------
(* kubernetes.go *)

\* The name is wf- and 24 random bits; the job's pod starts when it likes.
CreateJob ==
    /\ kind = "kubernetes" /\ ctx = "live" /\ foreign = "none"
    /\ Go("create", "pod")
    /\ box' = "created"
    /\ UNCHANGED <<outcome, stream, cut, leaked, faults>>

NameIsTaken ==
    /\ foreign = "there"
    /\ Go("create", "return") /\ outcome' = "failed"
    /\ UNCHANGED <<box, stream, cut, leaked, faults>>

\* The watch reports Running, Succeeded or Failed; streamLogs follows.
PodRuns ==
    /\ Go("pod", "stream")
    /\ box \in {"running", "ended"}
    /\ stream' = "read"
    /\ UNCHANGED <<box, outcome, cut, leaked, faults>>

\* The context, the watch, or 5 minutes without an event.
PodFails ==
    /\ Go("pod", "remove")
    /\ \/ CallFails
       \/ box = "created" /\ outcome' = "failed" /\ UNCHANGED faults
    /\ UNCHANGED <<box, stream, cut, leaked>>

LogsEnd ==
    /\ stream = "done"
    /\ Go("stream", "exit")
    /\ UNCHANGED <<box, outcome, stream, cut, leaked, faults>>

\* Mutant: a pod whose log has ended is taken to have succeeded.
AssumeSuccess ==
    /\ Go("exit", "remove")
    /\ outcome' = "ok"
    /\ UNCHANGED <<box, stream, cut, leaked, faults>>

\* Up to 30 polls; a pod that runs on after its log broke is an error.
GetPodExitCode ==
    /\ Go("exit", "remove")
    /\ \/ ctx = "live" /\ box = "ended" /\ outcome' = ExitStatus /\ UNCHANGED faults
       \/ CallFails
       \/ box = "running" /\ outcome' = "failed" /\ UNCHANGED faults
    /\ UNCHANGED <<box, stream, cut, leaked>>

-----------------------------------------------------------------------------
(* local.go *)

\* The gate of module Approval lets the script by or not.
Gate ==
    /\ Go("gate", "script") \/ Go("gate", "refuse")
    /\ UNCHANGED <<box, outcome, stream, cut, leaked, faults>>

\* emit tells why, and the result is exit code 1.
Refuse ==
    /\ at = "refuse" /\ at' = "return" /\ outcome' = "bad"
    /\ written < Chunks /\ sent - taken < Capacity
    /\ written' = written + 1 /\ sent' = sent + 1
    /\ UNCHANGED <<kind, foreign, box, code, orphan, ctx, taken, stream, torn,
                   drain, history, callVars>>

\* writeScriptTempFile, in the sandbox or not.
WriteScript ==
    /\ \/ Go("script", "launch") /\ UNCHANGED <<outcome, faults>>
       \/ Go("script", "return") /\ outcome' = "failed" /\ Fault
    /\ UNCHANGED <<box, stream, cut, leaked>>

\* The pipes, and cmd.Start, which looks at the context.
Launch ==
    /\ \/ /\ ctx = "live" /\ Go("launch", "join")
          /\ box' = "running" /\ stream' = "read"
          /\ UNCHANGED <<outcome, faults>>
       \/ Go("launch", "return") /\ CallFails /\ UNCHANGED <<box, stream>>
    /\ UNCHANGED <<cut, leaked>>

\* exec.CommandContext kills the shell, not its children.
Kill ==
    /\ kind = "local" /\ ctx # "live" /\ box = "running"
    /\ box' = "killed" /\ orphan' \in BOOLEAN
    /\ UNCHANGED <<kind, foreign, at, code, ctx, outcome, outVars, history, callVars>>

\* cmd.Wait: an ExitError, a signal included, is no error; a script that ended
\* well while the context ended may be one.
Reap ==
    /\ Go("reap", "return")
    /\ \/ box = "ended" /\ outcome' = ExitStatus
       \/ box = "killed" /\ outcome' = "killed"
       \/ box = "ended" /\ code = "zero" /\ ctx # "live" /\ outcome' = CtxErr
    /\ UNCHANGED <<box, stream, cut, leaked, faults>>

-----------------------------------------------------------------------------
(* The script and its output *)

PodStarts ==
    /\ kind = "kubernetes" /\ box = "created" /\ box' = "running"
    /\ UNCHANGED <<kind, foreign, at, code, orphan, ctx, outcome, outVars, history,
                   callVars>>

ScriptWrites ==
    /\ box = "running" /\ written < Chunks /\ written' = written + 1
    /\ UNCHANGED <<jobVars, sent, taken, stream, torn, drain, history, callVars>>

\* With what exit code, and, of a local script, leaving children behind or not.
ScriptEnds ==
    /\ box = "running" /\ box' = "ended"
    /\ code' \in {"zero", "other"}
    /\ orphan' \in {FALSE, kind = "local"}
    /\ UNCHANGED <<kind, foreign, at, ctx, outcome, outVars, history, callVars>>

OrphanEnds ==
    /\ orphan /\ orphan' = FALSE
    /\ UNCHANGED <<kind, foreign, at, box, code, ctx, outcome, outVars, history,
                   callVars>>

Stream(from, to) ==
    /\ stream = from /\ stream' = to
    /\ UNCHANGED <<jobVars, written, taken, drain, givenUp, leaked, call, late, inbox>>

ReadChunk ==
    /\ Stream("read", "send")
    /\ sent < written
    /\ UNCHANGED <<sent, torn, cut, faults>>

LogsClosed == kind = "docker" /\ at \notin {"wait", "close"}

\* docker.go takes 8 bytes off every Read for a frame's header, whatever it read:
\* a Read that begins within a frame of more than 4096 bytes loses output, and
\* one with several frames keeps the headers of all but the first.
Unframe == torn' \in IF kind = "docker" THEN {torn, TRUE} ELSE {torn}

\* Mutant: outputChan has no end.
SendUnbounded ==
    /\ Stream("send", IF LogsClosed THEN "done" ELSE "read")
    /\ sent' = sent + 1 /\ Unframe
    /\ UNCHANGED <<cut, faults>>

\* input.OutputChan <-, which blocks while the channel is full.
SendChunk ==
    /\ Stream("send", IF LogsClosed THEN "done" ELSE "read")
    /\ sent - taken < Capacity /\ sent' = sent + 1 /\ Unframe
    /\ UNCHANGED <<cut, faults>>

\* Nobody has the other end of the pipe, or the container's log, open.
EndOfOutput ==
    /\ Stream("read", "done")
    /\ sent = written /\ box \in {"ended", "killed"} /\ ~orphan
    /\ UNCHANGED <<sent, torn, cut, faults>>

\* A log stream breaks, with its context or by itself; a local line of more than
\* 10 MB ends the scanner.  Nobody looks at the error.
StreamBreaks ==
    /\ Stream("read", "done")
    /\ \/ Fault
       \/ kind = "docker" /\ ctx = "canceled" /\ UNCHANGED faults
       \/ kind = "kubernetes" /\ ctx # "live" /\ UNCHANGED faults
    /\ cut' = TRUE
    /\ UNCHANGED <<sent, torn>>

-----------------------------------------------------------------------------
(* handleJob: the goroutine that posts, and the report *)

Closed == at \in {"drain", "verdict", "report", "over"}

TakeChunk ==
    /\ drain = "recv" /\ taken < sent
    /\ drain' = "post" /\ taken' = taken + 1
    /\ Begin(Chunk(taken'))
    /\ UNCHANGED <<jobVars, written, sent, stream, torn, history>>

\* An error of StreamOutput is only logged.
Posted ==
    /\ drain = "post" /\ drain' = "recv"
    /\ End
    /\ givenUp' = IF call.phase = "ok" THEN givenUp ELSE givenUp \cup {taken}
    /\ UNCHANGED <<jobVars, written, sent, taken, stream, torn, cut, leaked>>

Drained ==
    /\ drain = "recv" /\ Closed /\ taken = sent
    /\ drain' = "done"
    /\ UNCHANGED <<jobVars, written, sent, taken, stream, torn, history, callVars>>

Move(from, to) ==
    /\ at = from /\ at' = to
    /\ UNCHANGED <<kind, foreign, box, code, orphan, ctx, outcome, outVars, history>>

\* close(outputChan)
CloseChannel == Move("return", "drain") /\ UNCHANGED callVars

\* Mutant: the verdict goes out while chunks are still in the channel.
ReportFirst == call.phase = "idle" /\ Move("drain", "verdict") /\ UNCHANGED callVars

\* <-doneChan
AwaitDrain == drain = "done" /\ Move("drain", "verdict") /\ UNCHANGED callVars

ReportVerdict == Move("verdict", "report") /\ Begin(Verdict)

\* An error of the report is only logged.
Reported == Move("report", "over") /\ End

-----------------------------------------------------------------------------

JobStep ==
    \/ HandleJob \/ Pull \/ CreateContainer \/ CreateFails \/ Start \/ Logs
    \/ CreateJob \/ NameIsTaken \/ PodRuns \/ PodFails \/ LogsEnd
    \/ Wait \/ CloseLogs \/ Join \/ Remove
    \/ GetPodExitCode \/ Gate \/ Refuse \/ WriteScript \/ Launch \/ Reap
    \/ CloseChannel \/ AwaitDrain \/ ReportVerdict \/ Reported

StreamStep == ReadChunk \/ SendChunk \/ EndOfOutput \/ StreamBreaks

DrainStep == TakeChunk \/ Posted \/ Drained

Network == (Proceed \/ Arrives) /\ UNCHANGED <<jobVars, outVars, history>>

Script == PodStarts \/ ScriptWrites \/ ScriptEnds \/ OrphanEnds

\* Everything is done, and the process may go on without this job.
Finished == at = "over" /\ UNCHANGED vars

Next ==
    JobStep \/ StreamStep \/ DrainStep \/ Network \/ Script \/ Stop \/ Expire \/ Kill
    \/ Finished

Spec == Init /\ [][Next]_vars

\* Goroutines run, calls to docker, Kubernetes and the platform end, the timers
\* fire and the kernel kills.  No fault has to happen, no late request has to
\* arrive, and the script and its children may run on.
FairSpec ==
    /\ Spec
    /\ WF_vars(UNCHANGED faults /\ JobStep)
    /\ WF_vars(UNCHANGED faults /\ StreamStep)
    /\ WF_vars(DrainStep)
    /\ WF_vars(UNCHANGED <<jobVars, outVars, history, faults>> /\ Proceed)
    /\ WF_vars(Expire) /\ WF_vars(Kill)

-----------------------------------------------------------------------------
(* Properties *)

\* What is behind the chunk m in the order in which the job hands messages over.
Before(m) == IF m.what = "output" THEN 1..m.n - 1 ELSE 1..taken

\* Whatever the network does, what the platform hears for the first time comes
\* in order: before a chunk, and before the verdict, every earlier chunk has
\* arrived, or every attempt to post it failed (runner.go:312-340).
OutputInOrder ==
    \A i \in 1..Len(inbox) : \A k \in Before(inbox[i]) :
        k \in givenUp \/ \E h \in 1..i - 1 : inbox[h] = Chunk(k)

\* "Complete with 0" means that the script came to its end and returned 0, and
\* carries every chunk, unless docker's log was closed on it, a log stream broke
\* or a line was too long (docker.go:124, kubernetes.go:180).  What is inside a
\* chunk is as written where it is not docker.go that takes headers off.
SuccessIsReal ==
    \A i \in 1..Len(inbox) : inbox[i].what = "ok" =>
        /\ code = "zero"
        /\ inbox[i].n = written \/ cut
        /\ inbox[i].whole \/ kind = "docker"

\* When outputChan is closed nobody will send on it, the box is removed or its
\* process has ended, unless a call to make or remove it failed, and a
\* Kubernetes job of the same name is none of our business (kubernetes.go:60).
NothingOutlivesExecute ==
    Closed =>
        /\ stream \in {"none", "done"}
        /\ \/ box \in {"none", "gone"} \/ leaked
           \/ kind = "local" /\ box \in {"ended", "killed"}
        /\ foreign # "gone"

\* A script may run for ever and the network fail, every job comes to an end,
\* except while a child of a killed local script holds its output open.
EveryRunEnds == at # "off" ~> at = "over" \/ orphan
=============================================================================
