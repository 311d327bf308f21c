---------------------------- MODULE StatusWindow ----------------------------
(***************************************************************************)
(* The status window, internal/localui/statuswindow.go.  Jobs, both loops  *)
(* of the runner and the Stop button's goroutine call it from where they   *)
(* are.  A call changes some fields at once, the job maps under activeMu   *)
(* and the tallies under no lock, and hands the rest to the Fyne thread as *)
(* a closure (fyne.Do); closures run one at a time, in the order of the    *)
(* calls, and read the fields when they run, not when they were made.      *)
(*                                                                         *)
(* The calls are those of internal/runner/runner.go: a job calls           *)
(* SetJobRunning, SetJobComplete and SetIdle; a script that the library    *)
(* does not have only SetIdle; a loop calls SetConnected(true) after it    *)
(* has released connMu and SetReconnecting while it holds it; Run calls    *)
(* SetConnecting first and SetConnected(false) last.  No job id runs twice *)
(* at a time (Jobs!NoDuplicateExecution).                                  *)
(***************************************************************************)
EXTENDS Naturals, Sequences, FiniteSets

CONSTANTS
    Jobs,         \* job ids
    NoJob,        \* the empty activeJobID
    RecentLimit,  \* rows kept in the history
    MaxStarts,    \* bound: jobs handed out
    MaxOutages,   \* bound: losses of the connection
    MaxClicks,    \* bound: clicks on Stop Agent
    MaxQueue      \* bound: closures waiting at once

ASSUME WindowAssumption ==
    /\ NoJob \notin Jobs
    /\ RecentLimit \in Nat \ {0}
    /\ {MaxStarts, MaxOutages, MaxClicks, MaxQueue} \subseteq Nat

VARIABLES
    at,           \* where each job's goroutine stands in its calls
    exit,         \* TRUE for a job that ends with exit code 0
    activeJobs,   \* keys of activeJobs
    today,        \* jobsToday
    tally,        \* jobsSuccess and jobsFailed
    recent,       \* history, newest first
    seen,         \* what a goroutine has read of tally and recent
    link,         \* what recordAPI... left: "new", "up" or "down"
    announcing,   \* loops about to call SetConnected(true)
    closed,       \* Run has returned
    queue,        \* closures of fyne.Do, oldest first
    stopping,     \* jobs with a call of the stop handler under way
    \* on the Fyne thread
    handler,      \* stopAgentHandler is set
    state,        \* the badge
    activeJobID,  \* the job Stop Agent acts on
    button,       \* Stop Agent is enabled
    shown,        \* cards, their section, and the counts as displayed
    \* bounds and history, which no action reads but as a bound
    starts, outages, clicks,
    ended,        \* the jobs that were tallied, oldest first
    raced,        \* two goroutines tallied at once
    quiet,        \* the job that started last, until any other call that
                  \* concerns Stop Agent
    asked         \* jobs for which Stop Agent was clicked since they started

jobVars  == <<at, exit, activeJobs, today, tally, recent, seen>>
loopVars == <<link, announcing, closed>>
fyneVars == <<handler, state, activeJobID, button, shown>>
history  == <<starts, outages, clicks, ended, raced, quiet, asked>>
vars == <<jobVars, loopVars, queue, stopping, fyneVars, history>>

Loops  == {"poll", "beat"}
Phases == {"off", "registered", "running", "ending", "tallying", "tallied", "idle"}
Calls  == {"handler", "connecting", "connected", "reconnecting", "offline",
           "running", "complete", "idle", "stopError"}
Rows   == [job : Jobs, ok : BOOLEAN]
Counts == [ok : Nat, failed : Nat]

Closure(call, j) == [call |-> call, job |-> j]

TypeOK ==
    /\ at \in [Jobs -> Phases]
    /\ exit \in [Jobs -> BOOLEAN]
    /\ activeJobs \subseteq Jobs
    /\ today \in Nat
    /\ tally \in Counts
    /\ recent \in Seq(Rows) /\ Len(recent) <= RecentLimit
    /\ seen \in [Jobs -> [tally : Counts, recent : Seq(Rows)]]
    /\ link \in {"new", "up", "down"}
    /\ announcing \subseteq Loops
    /\ closed \in BOOLEAN
    /\ queue \in Seq([call : Calls, job : Jobs \cup {NoJob}])
    /\ stopping \subseteq Jobs
    /\ handler \in BOOLEAN
    /\ state \in {"connecting", "reconnecting", "disconnected", "idle", "running"}
    /\ activeJobID \in Jobs \cup {NoJob}
    /\ button \in BOOLEAN
    /\ shown \in [cards : SUBSET Jobs, section : BOOLEAN, today : Nat,
                  tally : Counts, recent : Seq(Rows)]
    /\ starts \in 0..MaxStarts /\ outages \in 0..MaxOutages
    /\ clicks \in 0..MaxClicks
    /\ ended \in Seq(Rows)
    /\ raced \in BOOLEAN
    /\ quiet \in Jobs \cup {NoJob}
    /\ asked \subseteq Jobs

NoCounts == [ok |-> 0, failed |-> 0]
Nothing  == [tally |-> NoCounts, recent |-> <<>>]

\* NewStatusWindow, SetStopAgentHandler, and Run's SetConnecting.
Init ==
    /\ at = [j \in Jobs |-> "off"]
    /\ exit = [j \in Jobs |-> TRUE]
    /\ activeJobs = {}
    /\ today = 0 /\ tally = NoCounts /\ recent = <<>>
    /\ seen = [j \in Jobs |-> Nothing]
    /\ link = "new" /\ announcing = {} /\ closed = FALSE
    /\ queue = <<Closure("handler", NoJob), Closure("connecting", NoJob)>>
    /\ stopping = {}
    /\ handler = FALSE
    /\ state = "connecting"
    /\ activeJobID = NoJob /\ button = FALSE
    /\ shown = [cards |-> {}, section |-> FALSE, today |-> 0,
                tally |-> NoCounts, recent |-> <<>>]
    /\ starts = 0 /\ outages = 0 /\ clicks = 0
    /\ ended = <<>> /\ raced = FALSE
    /\ quiet = NoJob /\ asked = {}

-----------------------------------------------------------------------------
(* The calls of a job *)

\* fyne.Do
Do(call, j) == Len(queue) < MaxQueue /\ queue' = Append(queue, Closure(call, j))

Goto(j, from, to) == at[j] = from /\ at' = [at EXCEPT ![j] = to]

\* A job comes from a claim, so the platform has answered before.
HandedOut(j) ==
    /\ link # "new" /\ ~closed
    /\ starts < MaxStarts
    /\ starts' = starts + 1

\* SetJobRunning, the part under activeMu.
Register(j) ==
    /\ Goto(j, "off", "registered")
    /\ HandedOut(j)
    /\ activeJobs' = activeJobs \cup {j}
    /\ today' = IF j \in activeJobs THEN today ELSE today + 1
    /\ UNCHANGED <<exit, tally, recent, seen, loopVars, queue, stopping, fyneVars,
                   outages, clicks, ended, raced, quiet, asked>>

\* SetJobRunning, the closure.
AnnounceRunning(j) ==
    /\ Goto(j, "registered", "running")
    /\ Do("running", j)
    /\ quiet' = j
    /\ asked' = asked \ {j}
    /\ UNCHANGED <<exit, activeJobs, today, tally, recent, seen, loopVars, stopping,
                   fyneVars, starts, outages, clicks, ended, raced>>

\* SetJobComplete, the part under activeMu.
Unregister(j, ok) ==
    /\ Goto(j, "running", "ending")
    /\ exit' = [exit EXCEPT ![j] = ok]
    /\ activeJobs' = activeJobs \ {j}
    /\ UNCHANGED <<today, tally, recent, seen, loopVars, queue, stopping, fyneVars,
                   history>>

\* jobsSuccess++ or jobsFailed++, and the history: read, then written back,
\* without a lock.
ReadTally(j) ==
    /\ Goto(j, "ending", "tallying")
    /\ seen' = [seen EXCEPT ![j] = [tally |-> tally, recent |-> recent]]
    /\ UNCHANGED <<exit, activeJobs, today, tally, recent, loopVars, queue, stopping,
                   fyneVars, history>>

Counted(counts, ok) ==
    IF ok THEN [counts EXCEPT !.ok = @ + 1] ELSE [counts EXCEPT !.failed = @ + 1]

\* Mutant: the history is not cut.
Uncut(row, rows) == <<row>> \o rows

\* append([]jobRecord{rec}, history...), cut to RecentLimit.
Newest(row, rows) ==
    LET all == <<row>> \o rows
    IN  SubSeq(all, 1, IF Len(all) > RecentLimit THEN RecentLimit ELSE Len(all))

\* Either update is lost if another goroutine wrote since; two that overlap may
\* also take turns.
WriteTally(j) ==
    LET row == [job |-> j, ok |-> exit[j]]
    IN  /\ Goto(j, "tallying", "tallied")
        /\ \E counts \in {seen[j].tally, tally}, rows \in {seen[j].recent, recent} :
              /\ tally' = Counted(counts, exit[j])
              /\ recent' = Newest(row, rows)
        /\ raced' = (raced \/ \E k \in Jobs \ {j} : at[k] = "tallying")
        /\ ended' = Append(ended, row)
        /\ seen' = [seen EXCEPT ![j] = Nothing]
        /\ exit' = [exit EXCEPT ![j] = TRUE]
        /\ UNCHANGED <<activeJobs, today, loopVars, queue, stopping, fyneVars,
                       starts, outages, clicks, quiet, asked>>

\* SetJobComplete, the closure.
AnnounceComplete(j) ==
    /\ Goto(j, "tallied", "idle")
    /\ Do("complete", j)
    /\ quiet' = NoJob
    /\ UNCHANGED <<exit, activeJobs, today, tally, recent, seen, loopVars, stopping,
                   fyneVars, starts, outages, clicks, ended, raced, asked>>

\* SetIdle, the last call of a job.
AnnounceIdle(j) ==
    /\ Goto(j, "idle", "off")
    /\ Do("idle", j)
    /\ quiet' = NoJob
    /\ UNCHANGED <<exit, activeJobs, today, tally, recent, seen, loopVars, stopping,
                   fyneVars, starts, outages, clicks, ended, raced, asked>>

\* handleRunLocalScript, name missing or script not found: only SetIdle.
ScriptNotFound(j) ==
    /\ Goto(j, "off", "idle")
    /\ HandedOut(j)
    /\ UNCHANGED <<exit, activeJobs, today, tally, recent, seen, loopVars, queue,
                   stopping, fyneVars, outages, clicks, ended, raced, quiet, asked>>

-----------------------------------------------------------------------------
(* The calls of the loops *)

\* recordAPISuccess, under connMu; the poll loop lives until Run returns.
GoesUp(l) ==
    /\ link # "up" /\ l \notin announcing
    /\ l = "poll" => ~closed
    /\ link' = "up"
    /\ announcing' = announcing \cup {l}
    /\ UNCHANGED <<jobVars, closed, queue, stopping, fyneVars, history>>

\* ... and SetConnected(true), after it.
AnnounceConnected(l) ==
    /\ l \in announcing
    /\ Do("connected", NoJob)
    /\ announcing' = announcing \ {l}
    /\ UNCHANGED <<jobVars, link, closed, stopping, fyneVars, history>>

\* recordAPIFailure at the threshold, SetReconnecting included.
GoesDown(l) ==
    /\ link = "up" /\ l \notin announcing
    /\ l = "poll" => ~closed
    /\ outages < MaxOutages
    /\ outages' = outages + 1
    /\ link' = "down"
    /\ Do("reconnecting", NoJob)
    /\ quiet' = NoJob
    /\ UNCHANGED <<jobVars, announcing, closed, stopping, fyneVars, starts, clicks,
                   ended, raced, asked>>

\* The end of Run, after wg.Wait: SetConnected(false).
Close ==
    /\ ~closed /\ link # "new"
    /\ \A j \in Jobs : at[j] = "off"
    /\ "poll" \notin announcing
    /\ closed' = TRUE
    /\ Do("offline", NoJob)
    /\ quiet' = NoJob
    /\ UNCHANGED <<jobVars, link, announcing, stopping, fyneVars, starts, outages,
                   clicks, ended, raced, asked>>

-----------------------------------------------------------------------------
(* The Fyne thread *)

\* Badge and card section by activeJobCount().
Badge == IF activeJobs = {} THEN "idle" ELSE "running"

\* refreshStopAgentButton
RefreshButton(to, id) == button' = (handler /\ to = "running" /\ id # NoJob)

Pop(call) ==
    /\ queue # <<>> /\ Head(queue).call = call
    /\ queue' = Tail(queue)
    /\ UNCHANGED <<jobVars, loopVars, stopping, starts, outages, clicks, ended, raced,
                   quiet>>

ShowHandler ==
    /\ Pop("handler")
    /\ handler' = TRUE
    /\ button' = (state = "running" /\ activeJobID # NoJob)
    /\ UNCHANGED <<state, activeJobID, shown, asked>>

ShowConnecting ==
    /\ Pop("connecting")
    /\ state' = "connecting"
    /\ RefreshButton("connecting", activeJobID)
    /\ UNCHANGED <<handler, activeJobID, shown, asked>>

\* Mutant: coming back online starts from a clean window.
ConnectedResets ==
    /\ Pop("connected")
    /\ state' = Badge
    /\ activeJobID' = NoJob
    /\ RefreshButton(Badge, NoJob)
    /\ UNCHANGED <<handler, shown, asked>>

\* SetConnected(true): the button keeps what it was.
ShowConnected ==
    /\ Pop("connected")
    /\ state' = Badge
    /\ UNCHANGED <<handler, activeJobID, button, shown, asked>>

\* SetReconnecting, SetConnected(false)
ShowDisconnected ==
    /\ \/ Pop("reconnecting") /\ state' = "reconnecting"
       \/ Pop("offline") /\ state' = "disconnected"
    /\ activeJobID' = NoJob
    /\ RefreshButton("disconnected", NoJob)
    /\ UNCHANGED <<handler, shown, asked>>

\* SetJobRunning
ShowRunning ==
    /\ Pop("running")
    /\ shown' = [shown EXCEPT !.cards = activeJobs, !.today = today, !.section = TRUE]
    /\ state' = "running"
    /\ activeJobID' = Head(queue).job
    /\ RefreshButton("running", Head(queue).job)
    /\ UNCHANGED <<handler, asked>>

\* SetJobComplete
ShowComplete ==
    /\ Pop("complete")
    /\ shown' = [cards |-> activeJobs, section |-> activeJobs # {},
                 today |-> shown.today, tally |-> tally, recent |-> recent]
    /\ state' = Badge
    /\ activeJobID' = NoJob
    /\ RefreshButton(Badge, NoJob)
    /\ UNCHANGED <<handler, asked>>

\* Mutant: SetIdle shows the window idle, whatever else runs.
AlwaysIdle ==
    /\ Pop("idle")
    /\ shown' = [shown EXCEPT !.section = FALSE]
    /\ state' = "idle"
    /\ activeJobID' = NoJob
    /\ RefreshButton("idle", NoJob)
    /\ UNCHANGED <<handler, asked>>

\* SetIdle
ShowIdle ==
    /\ Pop("idle")
    /\ shown' = [shown EXCEPT !.section = (activeJobs # {})]
    /\ state' = Badge
    /\ activeJobID' = NoJob
    /\ RefreshButton(Badge, NoJob)
    /\ UNCHANGED <<handler, asked>>

-----------------------------------------------------------------------------
(* Stop Agent *)

\* A click, on the Fyne thread between two closures.
Click ==
    /\ button
    /\ clicks < MaxClicks
    /\ clicks' = clicks + 1
    /\ IF activeJobID = NoJob
       THEN UNCHANGED <<button, stopping, asked>>
       ELSE /\ button' = FALSE
            /\ stopping' = stopping \cup {activeJobID}
            /\ asked' = asked \cup {activeJobID}
    /\ UNCHANGED <<jobVars, loopVars, queue, handler, state, activeJobID, shown, starts,
                   outages, ended, raced, quiet>>

\* The stop handler returns; a success is only logged.
StopAnswered(j, failed) ==
    /\ j \in stopping
    /\ stopping' = stopping \ {j}
    /\ IF failed THEN Do("stopError", j) ELSE UNCHANGED queue
    /\ UNCHANGED <<jobVars, loopVars, fyneVars, history>>

\* An error enables the button again, without a look at the state.
ShowStopError ==
    /\ Pop("stopError")
    /\ button' = TRUE
    /\ asked' = asked \ {Head(queue).job}
    /\ UNCHANGED <<handler, state, activeJobID, shown>>

-----------------------------------------------------------------------------

JobCalls(j) ==
    \/ Register(j) \/ AnnounceRunning(j)
    \/ \E ok \in BOOLEAN : Unregister(j, ok)
    \/ ReadTally(j) \/ WriteTally(j)
    \/ AnnounceComplete(j) \/ AnnounceIdle(j)
    \/ ScriptNotFound(j)

FyneStep ==
    \/ ShowHandler \/ ShowConnecting \/ ShowConnected \/ ShowDisconnected
    \/ ShowRunning \/ ShowComplete \/ ShowIdle
    \/ Click \/ ShowStopError

\* Run has returned and nothing is left to show.
Ended ==
    /\ closed /\ queue = <<>>
    /\ UNCHANGED vars

Next ==
    \/ \E j \in Jobs : JobCalls(j)
    \/ \E l \in Loops : GoesUp(l) \/ AnnounceConnected(l) \/ GoesDown(l)
    \/ Close
    \/ FyneStep
    \/ \E j \in Jobs, failed \in BOOLEAN : StopAnswered(j, failed)
    \/ Ended

Spec == Init /\ [][Next]_vars

-----------------------------------------------------------------------------
(* Properties *)

\* Nobody is in the middle of a call and every closure has run.
Settled ==
    /\ queue = <<>> /\ announcing = {}
    /\ \A j \in Jobs : at[j] \in {"off", "running"}

Passed(rows) == Cardinality({i \in 1..Len(rows) : rows[i].ok})

\* Whatever the order in which concurrent jobs and loops call the window, once
\* it has settled it shows the truth: the cards are the jobs that run; a badge
\* of a connected runner says whether a job runs; Stop Agent can only act on a
\* job that runs; the counts and the recent jobs are exact, unless two jobs that
\* ended together raced for them (665-682 are not locked).
SettledWindow ==
    Settled =>
        /\ shown.cards = {j \in Jobs : at[j] = "running"}
        /\ shown.section <=> shown.cards # {}
        /\ link = "up" /\ ~closed => state \in {"idle", "running"}
        /\ state = "idle" => shown.cards = {}
        /\ state = "running" => shown.cards # {}
        /\ activeJobID # NoJob => activeJobID \in shown.cards
        /\ shown.today = today
        /\ ~raced =>
             /\ shown.tally.ok = Passed(ended)
             /\ shown.tally.ok + shown.tally.failed = Len(ended)
             /\ \A i \in 1..Len(ended) :
                  i <= RecentLimit => shown.recent[i] = ended[Len(ended) + 1 - i]

\* The job that started last can be stopped, or has been asked to stop, for as
\* long as no other job ends and the connection is not lost (445-470, 716-726).
\* Any of these takes the button away for good, though the job still runs: the
\* code clears activeJobID and nothing sets it again.
LoneJobCanBeStopped ==
    Settled /\ quiet # NoJob =>
        /\ activeJobID = quiet
        /\ button \/ quiet \in asked
=============================================================================
