------------------------------ MODULE Approval ------------------------------
(***************************************************************************)
(* The gate of the local executor: localExecutor.Execute in                *)
(* internal/executor/local.go, up to the call of runWithSandbox, with the  *)
(* dialog of internal/localui/approval.go and the terminal prompt of       *)
(* internal/localui/headless.go.                                           *)
(*                                                                         *)
(* at[j] is the position of the goroutine of job j.  A dialog has four     *)
(* actors: the goroutine, which waits on resultCh; the operator, who       *)
(* clicks, presses Escape or closes the window; the countdown; and the     *)
(* window, which decides again when it closes.  A prompt leaves a          *)
(* goroutine behind that reads one line of stdin, however late: the        *)
(* readers take lines in the order in which they called Read, and a line   *)
(* that is typed while nobody reads waits in the terminal for the next.    *)
(***************************************************************************)
EXTENDS ConfigFile, Sequences, SequencesExt

CONSTANTS
    Jobs,          \* jobs of the local executor
    Scripts,       \* scripts; a script stands for its SHA-256 fingerprint
    Blocked,       \* those a pattern of the operator's blocked_patterns matches
    Destructive,   \* those destructiveRe matches
    Assignments,   \* which job brings which script
    Modes,         \* settings of Headless and ConfirmNeverTimeout
    Slots,         \* jobs that execute at once
    MaxTyped,      \* bound: lines that wait in the terminal
    MaxFaults      \* bound: lost reports, failed saves and kills together

\* An entry of runner.yaml is the fingerprint of an always allowed script, the
\* operator's "confirm: always", or the operator's blocked_patterns.
ASSUME ApprovalAssumption ==
    /\ Savers = Jobs
    /\ Entries = Scripts \cup {"confirm", "block"}
    /\ {"confirm", "block"} \cap Scripts = {}
    /\ ReadOnly = {}
    /\ Blocked \subseteq Scripts /\ Destructive \subseteq Scripts
    /\ Assignments \subseteq [Jobs -> Scripts]
    /\ Modes \subseteq [headless : BOOLEAN, never : BOOLEAN]
    /\ MaxTyped \in Nat /\ MaxFaults \in Nat

Answers == {"deny", "allow", "session", "always"}
Lines   == {"deny", "allow"}    \* "y" allows, anything else denies
NoneYet == [j \in Jobs |-> "none"]

VARIABLES
    mode,      \* Headless and ConfirmNeverTimeout
    up,        \* the process runs
    at,        \* where each job stands in Execute
    script,    \* the script of each job
    session,   \* sessionAllows
    dialog,    \* jobs whose window is there
    ticker,    \* jobs whose countdown runs
    answer,    \* what came into resultCh: the Once and the channel
    result,    \* what RequestApproval returned
    readers,   \* goroutines that wait for a line of stdin, first come first
    typed,     \* lines in the terminal that nobody has read yet
    platform,  \* what the platform believes of the job's approval
    \* history, which no action reads
    first,     \* the first decision taken for the job
    meant,     \* jobs the operator allowed, once or for good
    granted,   \* scripts the operator allowed beyond one job
    overlap,   \* jobs whose prompt stood on the terminal with another one
    early,     \* jobs whose prompt took a line that was typed before it
    lost,      \* jobs for which a report did not get through, or a kill came
    mishaps,   \* what went wrong with a save since the first start
    faults     \* how many of these there were

gateVars == <<mode, up, script, session>>
askVars  == <<dialog, ticker, answer, result, readers, typed, platform>>
history  == <<first, meant, granted, overlap, early, lost, mishaps, faults>>
vars == <<gateVars, at, askVars, configVars, history>>

Final == {"blocked", "denied", "ran"}
Phases == {"new", "session", "always", "ask", "wait", "resolve", "act", "save",
           "run"} \cup Final

TypeOK ==
    /\ ConfigTypeOK
    /\ mode \in Modes
    /\ up \in BOOLEAN
    /\ at \in [Jobs -> Phases]
    /\ script \in [Jobs -> Scripts]
    /\ session \subseteq Scripts
    /\ dialog \subseteq Jobs /\ ticker \subseteq Jobs
    /\ {answer, result, first} \subseteq [Jobs -> Answers \cup {"none"}]
    /\ readers \in Seq(Jobs)
    /\ typed \in Seq(Lines) /\ Len(typed) <= MaxTyped
    /\ platform \in [Jobs -> {"none", "pending", "allowed", "denied"}]
    /\ meant \subseteq Jobs /\ overlap \subseteq Jobs /\ early \subseteq Jobs
    /\ lost \subseteq Jobs
    /\ granted \subseteq Scripts
    /\ mishaps \subseteq {"failed", "overlap", "killed"}
    /\ faults \in 0..MaxFaults

Init ==
    /\ ConfigInit
    /\ mode \in Modes
    /\ up = TRUE
    /\ at = [j \in Jobs |-> "new"]
    /\ script \in Assignments
    /\ session = {} /\ dialog = {} /\ ticker = {} /\ readers = <<>> /\ typed = <<>>
    /\ answer = NoneYet /\ result = NoneYet /\ first = NoneYet
    /\ platform = NoneYet
    /\ meant = {} /\ overlap = {} /\ early = {} /\ lost = {} /\ mishaps = {}
    /\ granted = file.says \cap Scripts
    /\ faults = 0

-----------------------------------------------------------------------------
(* Layers 1 and 2: what is blocked, what needs no question *)

Goto(j, from, to) ==
    /\ up /\ at[j] = from
    /\ at' = [at EXCEPT ![j] = to]

Fault == faults < MaxFaults /\ faults' = faults + 1

Executing == {j \in Jobs : at[j] \notin Final \cup {"new"}}

\* The patterns of the configuration; how they match is abstracted.  Who has
\* lost runner.yaml has those of Default(), which match none of these scripts.
MatchesBlocked(s) == s \in Blocked /\ "block" \in memory

\* Mutant: a script on the list is not looked at again.
SkipBlockedCheck(j) ==
    /\ Cardinality(Executing) < Slots
    /\ Goto(j, "new", IF MatchesBlocked(script[j]) /\ script[j] \notin memory
                     THEN "blocked" ELSE "session")
    /\ UNCHANGED <<gateVars, askVars, configVars, history>>

\* blockedPatternCheck comes before the lists: no list lets a blocked script by.
BlockedPatternCheck(j) ==
    /\ Cardinality(Executing) < Slots
    /\ Goto(j, "new", IF MatchesBlocked(script[j]) THEN "blocked" ELSE "session")
    /\ UNCHANGED <<gateVars, askVars, configVars, history>>

\* isSessionAllowed, under mu.
IsSessionAllowed(j) ==
    /\ Goto(j, "session", IF script[j] \in session THEN "run" ELSE "always")
    /\ UNCHANGED <<gateVars, askVars, configVars, history>>

\* The mode "never" has no gate; it is left out, the others differ in this.
ConfirmAsks(s) == "confirm" \in memory \/ s \in Destructive

\* isAlwaysAllowed, without mu, and then the switch on Confirm.
IsAlwaysAllowed(j) ==
    /\ Goto(j, "always", IF script[j] \in memory \/ ~ConfirmAsks(script[j])
                         THEN "run" ELSE "ask")
    /\ UNCHANGED <<gateVars, askVars, configVars, history>>

\* The platform is told with retries, and an error is ignored.
Tell(j, what) ==
    \/ platform' = [platform EXCEPT ![j] = what] /\ UNCHANGED <<lost, faults>>
    \/ UNCHANGED platform /\ lost' = lost \cup {j} /\ Fault

-----------------------------------------------------------------------------
(* The dialog *)

\* Mutant: without the Once, the last decision replaces the one in the channel.
OfferAgain(j, r) == answer' = [answer EXCEPT ![j] = r]

\* s.once.Do(func() { s.resultCh <- r })
Offer(j, r) ==
    answer' = [answer EXCEPT ![j] = IF @ = "none" THEN r ELSE @]

Decide(j, r) ==
    /\ Offer(j, r)
    /\ first' = [first EXCEPT ![j] = IF @ = "none" THEN r ELSE @]

\* Mutant: the countdown is shown but never started.
OpenWithoutCountdown(j) ==
    /\ ~mode.headless
    /\ Goto(j, "ask", "wait")
    /\ Tell(j, "pending")
    /\ dialog' = dialog \cup {j}
    /\ UNCHANGED <<gateVars, ticker, answer, result, readers, typed, configVars,
                   first, meant, granted, overlap, early, mishaps>>

\* ReportApprovalPending; buildWindow with its countdown; Show.
OpenDialog(j) ==
    /\ ~mode.headless
    /\ Goto(j, "ask", "wait")
    /\ Tell(j, "pending")
    /\ dialog' = dialog \cup {j}
    /\ ticker' = IF mode.never THEN ticker ELSE ticker \cup {j}
    /\ UNCHANGED <<gateVars, answer, result, readers, typed, configVars, first,
                   meant, granted, overlap, early, mishaps>>

\* What the operator says by an answer that counts, for the properties.
Mean(j, r) ==
    /\ meant' = IF r = "deny" THEN meant ELSE meant \cup {j}
    /\ granted' = IF r \in {"session", "always"}
                  THEN granted \cup {script[j]} ELSE granted

\* A button or Escape, also after another decision while the window is there.
Click(j, r) ==
    /\ up /\ j \in dialog
    /\ Decide(j, r)
    /\ IF first[j] = "none" THEN Mean(j, r) ELSE UNCHANGED <<meant, granted>>
    /\ UNCHANGED <<gateVars, at, dialog, ticker, result, readers, typed, platform,
                   configVars, overlap, early, lost, mishaps, faults>>

\* The operator closes the window: SetOnClosed decides.
CloseByOperator(j) ==
    /\ up /\ j \in dialog
    /\ dialog' = dialog \ {j}
    /\ Decide(j, "deny")
    /\ UNCHANGED <<gateVars, at, ticker, result, readers, typed, platform, configVars,
                   meant, granted, overlap, early, lost, mishaps, faults>>

\* Mutant: a result of its own, which the switch in Execute does not know.
CountdownExpires(j) ==
    /\ up /\ j \in ticker
    /\ ticker' = ticker \ {j}
    /\ dialog' = dialog \ {j}
    /\ Decide(j, "expired")
    /\ UNCHANGED <<gateVars, at, result, readers, typed, platform, configVars, meant,
                   granted, overlap, early, lost, mishaps, faults>>

\* remaining reaches zero: decide, and win.Close(), which decides again.
CountdownEnds(j) ==
    /\ up /\ j \in ticker
    /\ ticker' = ticker \ {j}
    /\ dialog' = dialog \ {j}
    /\ Decide(j, "deny")
    /\ UNCHANGED <<gateVars, at, result, readers, typed, platform, configVars, meant,
                   granted, overlap, early, lost, mishaps, faults>>

\* <-s.resultCh and s.stopTick().
TakeAnswer(j) ==
    /\ ~mode.headless /\ answer[j] # "none"
    /\ Goto(j, "wait", "resolve")
    /\ result' = [result EXCEPT ![j] = answer[j]]
    /\ ticker' = ticker \ {j}
    /\ UNCHANGED <<gateVars, dialog, answer, readers, typed, platform, configVars,
                   history>>

\* Mutant: only an approval is reported.
ReportApproved(j) ==
    /\ Goto(j, "resolve", "act")
    /\ IF result[j] = "deny" THEN UNCHANGED <<platform, lost, faults>>
                            ELSE Tell(j, "allowed")
    /\ UNCHANGED <<gateVars, dialog, ticker, answer, result, readers, typed,
                   configVars, first, meant, granted, overlap, early, mishaps>>

\* OnResolved(result != ApprovalDeny)
ReportApprovalResolved(j) ==
    /\ Goto(j, "resolve", "act")
    /\ Tell(j, IF result[j] = "deny" THEN "denied" ELSE "allowed")
    /\ UNCHANGED <<gateVars, dialog, ticker, answer, result, readers, typed,
                   configVars, first, meant, granted, overlap, early, mishaps>>

-----------------------------------------------------------------------------
(* The prompt *)

Prompted == {j \in Jobs : mode.headless /\ at[j] = "wait"}

\* ReportApprovalPending; headlessApproval prints, and starts a reader, which
\* takes a line at once where one is waiting.
Prompt(j) ==
    /\ mode.headless
    /\ Goto(j, "ask", "wait")
    /\ Tell(j, "pending")
    /\ IF typed = <<>>
       THEN readers' = Append(readers, j) /\ UNCHANGED <<answer, typed, early>>
       ELSE /\ answer' = [answer EXCEPT ![j] = Head(typed)]
            /\ typed' = Tail(typed)
            /\ early' = early \cup {j}
            /\ UNCHANGED readers
    /\ overlap' = IF Prompted = {} THEN overlap ELSE overlap \cup Prompted \cup {j}
    /\ UNCHANGED <<gateVars, dialog, ticker, result, configVars, first, meant,
                   granted, mishaps>>

\* Prompts on the screen that have not got a line.
Asking == {j \in Prompted : Contains(readers, j)}

\* The line is for one of the prompts that ask; without one, for nobody, as when
\* it is a second "y" for a prompt that has its answer.
MeanLine(r) ==
    IF Asking = {} THEN UNCHANGED <<meant, granted>> ELSE \E j \in Asking : Mean(j, r)

\* The operator types a line, whenever it is.  It goes to the reader that came
\* first, which may belong to a prompt that is over, or waits for the next one.
TypeLine(r) ==
    /\ up /\ mode.headless
    /\ IF readers = <<>>
       THEN /\ Len(typed) < MaxTyped /\ typed' = Append(typed, r)
            /\ UNCHANGED <<answer, readers>>
       ELSE /\ answer' = IF Head(readers) \in Prompted
                         THEN [answer EXCEPT ![Head(readers)] = r] ELSE answer
            /\ readers' = Tail(readers) /\ UNCHANGED typed
    /\ MeanLine(r)
    /\ UNCHANGED <<gateVars, at, dialog, ticker, result, platform, configVars,
                   first, overlap, early, lost, mishaps, faults>>

\* stdin is at its end: the scanner of every reader gives "".
EndOfInput ==
    /\ up /\ readers # <<>>
    /\ answer' = [j \in Jobs |-> IF j \in Asking THEN "deny" ELSE answer[j]]
    /\ readers' = <<>>
    /\ UNCHANGED <<gateVars, at, dialog, ticker, result, typed, platform,
                   configVars, history>>

TakeLine(j) ==
    /\ mode.headless /\ answer[j] # "none"
    /\ Goto(j, "wait", "act")
    /\ result' = [result EXCEPT ![j] = answer[j]]
    /\ UNCHANGED <<gateVars, dialog, ticker, answer, readers, typed, platform,
                   configVars, history>>

\* time.After(req.Timeout): the reader stays, and its line is for nobody.
PromptTimesOut(j) ==
    /\ mode.headless /\ ~mode.never
    /\ Goto(j, "wait", "act")
    /\ result' = [result EXCEPT ![j] = "deny"]
    /\ UNCHANGED <<gateVars, dialog, ticker, answer, readers, typed, platform,
                   configVars, history>>

-----------------------------------------------------------------------------
(* After the answer: win.Close(), and the switch on the result *)

\* Execute of j is over, and what it knew of its question is gone.
Forget(j) ==
    /\ dialog' = dialog \ {j}
    /\ answer' = [answer EXCEPT ![j] = "none"]
    /\ result' = [result EXCEPT ![j] = "none"]
    /\ first' = [first EXCEPT ![j] = "none"]
    /\ meant' = meant \ {j}
    /\ overlap' = overlap \ {j}
    /\ early' = early \ {j}

Deny(j) ==
    /\ result[j] = "deny"
    /\ Goto(j, "act", "denied")
    /\ Forget(j)
    /\ UNCHANGED <<gateVars, ticker, readers, typed, platform, configVars, granted,
                   lost, mishaps, faults>>

Allow(j) ==
    /\ result[j] = "allow"
    /\ Goto(j, "act", "run")
    /\ dialog' = dialog \ {j}
    /\ UNCHANGED <<gateVars, ticker, answer, result, readers, typed, platform,
                   configVars, history>>

AllowSession(j) ==
    /\ result[j] = "session"
    /\ Goto(j, "act", "run")
    /\ dialog' = dialog \ {j}
    /\ session' = session \cup {script[j]}
    /\ UNCHANGED <<mode, up, script, ticker, answer, result, readers, typed, platform,
                   configVars, history>>

\* A save that begins while another one is on its way.
NoteOverlap ==
    mishaps' = IF Saving = {} THEN mishaps ELSE mishaps \cup {"overlap"}

\* Mutant: what is saved was marshalled before the script came on the list.
SaveThenAllow(j) ==
    /\ result[j] = "always"
    /\ Goto(j, "act", "save")
    /\ dialog' = dialog \ {j}
    /\ memory' = memory \cup {script[j]}
    /\ draft' = [draft EXCEPT ![j] = memory]
    /\ save' = [save EXCEPT ![j] = "open"]
    /\ NoteOverlap
    /\ UNCHANGED <<gateVars, ticker, answer, result, readers, typed, platform, file,
                   first, meant, granted, overlap, early, lost, faults>>

AlwaysAllow(j) ==
    /\ result[j] = "always"
    /\ Goto(j, "act", "save")
    /\ dialog' = dialog \ {j}
    /\ memory' = memory \cup {script[j]}
    /\ BeginSave(j)
    /\ NoteOverlap
    /\ UNCHANGED <<gateVars, ticker, answer, result, readers, typed, platform, file,
                   draft, first, meant, granted, overlap, early, lost, faults>>

\* An error of Save is only logged.
Saved(j) ==
    /\ save[j] = "idle"
    /\ Goto(j, "save", "run")
    /\ UNCHANGED <<gateVars, askVars, configVars, history>>

SaveStep(s) ==
    /\ up
    /\ \/ (Marshal(s, memory) \/ Open(s) \/ Write(s)) /\ UNCHANGED <<mishaps, faults>>
       \/ SaveFails(s) /\ mishaps' = mishaps \cup {"failed"} /\ Fault
    /\ UNCHANGED <<gateVars, at, askVars, first, meant, granted, overlap, early, lost>>

\* The script is started, under whatever context: module Execution.
RunWithSandbox(j) ==
    /\ Goto(j, "run", "ran")
    /\ Forget(j)
    /\ UNCHANGED <<gateVars, ticker, readers, typed, platform, configVars, granted,
                   lost, mishaps, faults>>

-----------------------------------------------------------------------------
(* The process *)

\* The process is killed.  The platform hands unfinished jobs out again, and
\* what it was told of them stays; so may a line in the terminal.
Crash ==
    /\ up /\ Fault
    /\ up' = FALSE
    /\ at' = [j \in Jobs |-> IF j \in Executing THEN "new" ELSE at[j]]
    /\ session' = {} /\ dialog' = {} /\ ticker' = {} /\ readers' = <<>>
    /\ typed' \in {typed, <<>>}
    /\ answer' = NoneYet /\ result' = NoneYet /\ first' = NoneYet
    /\ meant' = {} /\ overlap' = {} /\ early' = {}
    /\ lost' = lost \cup Executing
    /\ mishaps' = IF Saving = {} THEN mishaps ELSE mishaps \cup {"killed"}
    /\ Reload
    /\ UNCHANGED <<mode, script, platform, granted>>

\* Load at the next start: run-local gives up on a file that does not parse,
\* RunAutoLaunch, which has a display, takes the defaults.
Restart ==
    /\ ~up /\ (file.parses \/ ~mode.headless)
    /\ up' = TRUE
    /\ UNCHANGED <<mode, at, script, session, askVars, configVars, history>>

\* All jobs are through, and may stay so; or run-local cannot start again.
Finished ==
    /\ \/ \A j \in Jobs : at[j] \in Final
       \/ ~up /\ ~file.parses
    /\ UNCHANGED vars

Execute(j) ==
    \/ BlockedPatternCheck(j) \/ IsSessionAllowed(j) \/ IsAlwaysAllowed(j)
    \/ OpenDialog(j) \/ TakeAnswer(j) \/ ReportApprovalResolved(j)
    \/ Prompt(j) \/ TakeLine(j) \/ PromptTimesOut(j)
    \/ Deny(j) \/ Allow(j) \/ AllowSession(j) \/ AlwaysAllow(j) \/ Saved(j)
    \/ RunWithSandbox(j)

Operator ==
    \/ \E j \in Jobs : (\E r \in Answers : Click(j, r)) \/ CloseByOperator(j)
    \/ \E r \in Lines : TypeLine(r)
    \/ EndOfInput

Next ==
    \/ \E j \in Jobs : Execute(j) \/ CountdownEnds(j)
    \/ \E s \in Savers : SaveStep(s)
    \/ Operator \/ Crash \/ Restart \/ Finished

Spec == Init /\ [][Next]_vars

\* Goroutines that can run do, and clocks tick; of the operator, nothing.
FairSpec ==
    /\ Spec
    /\ \A j \in Jobs :
         WF_vars(Execute(j)) /\ WF_vars(CountdownEnds(j)) /\ WF_vars(SaveStep(j))

-----------------------------------------------------------------------------
(* Properties *)

\* A script that is about to run is not blocked, and it needed no question, or
\* the operator allowed it for good, or said so of this very job.  In the
\* terminal the last holds of a prompt that never shared the screen and found no
\* line waiting (headless.go:30): else the oldest reader takes the line,
\* whosever prompt it answers, and a second "y" answers the next prompt.
RunsOnlyAllowed ==
    \A j \in Jobs : up /\ at[j] = "run" =>
        /\ ~MatchesBlocked(script[j])
        /\ \/ ~ConfirmAsks(script[j])
           \/ script[j] \in granted
           \/ j \in meant
           \/ mode.headless /\ j \in overlap \cup early

\* approval.go:180: buttons, Escape, countdown and closing race, and the one
\* that decided first is the one the job obeys.
FirstAnswerCounts ==
    \A j \in Jobs : ~mode.headless /\ result[j] # "none" => result[j] = first[j]

\* While nothing is being saved, runner.yaml says what the process knows, every
\* "Always allow" included, unless a save failed, two of them overlapped, or
\* the process was killed in one.
LoneSavePersists ==
    Saving = {} /\ mishaps = {} => file.parses /\ Load(file) = memory

\* With a display the platform hears how an approval ended, for every job that
\* is over, unless the network failed or the process was killed.  The prompt
\* has no such call (headless.go:52).
PendingIsResolved ==
    \A j \in Jobs :
        at[j] \in Final /\ platform[j] = "pending" => mode.headless \/ j \in lost

\* With a timeout every job gets through the gate, without the operator's help,
\* or the process dies under it.
GateIsPassed ==
    \A j \in Jobs :
        j \in Executing /\ ~mode.never ~> j \notin Executing
=============================================================================
