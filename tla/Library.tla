------------------------------ MODULE Library ------------------------------
(***************************************************************************)
(* One script of the library: its file under ~/.workflowfiesta/scripts, the *)
(* copy the platform keeps for the other runners of the organization, and  *)
(* the goroutines that touch them: a sync per heartbeat (syncServerScripts, *)
(* internal/runner/runner.go), and the jobs that save or load the script   *)
(* (saveLocalScript, LoadLocalScript, internal/executor/tools.go).  No lock *)
(* orders them.                                                            *)
(*                                                                         *)
(* A text is a number: the texts that somebody saved are 1, 2, ... in the  *)
(* order of the saves.  Of the times only comparisons matter: `behind' says *)
(* that the file is older than the platform's UpdatedAt, and `older' that a *)
(* sync finds it older than the UpdatedAt it was listed with.  The clocks  *)
(* of runner and platform agree.                                           *)
(***************************************************************************)
EXTENDS Naturals, FiniteSets

CONSTANTS
    Workers,   \* goroutines: each syncs, saves or loads, one at a time
    MaxText    \* bound: saves, here or on another runner

VARIABLES
    script,    \* the file
    behind,    \* it is older than UpdatedAt
    meta,      \* the text its .meta.json describes, 0 without one
    server,    \* the platform's text, 0 before the first
    newest,    \* the last text that was saved anywhere
    pushes,    \* the PushScript calls on their way, with their worker
    work,      \* what each worker is doing
    mishaps    \* what went wrong so far (a history)

libVars == <<script, behind, meta, server, newest, pushes, work, mishaps>>

Empty   == 0
Garbled == MaxText + 1   \* parts of two texts
Idle    == [at |-> "idle", text |-> Empty, older |-> FALSE]

Stages == {"idle", "stat", "fetch", "open", "write",
           "saveOpen", "saveWrite", "saveMeta", "readMeta", "writeMeta"}

Mishaps == {"overtaken", "overlap", "halfWritten", "notPushed", "reordered",
            "readEarly", "ranHalf", "metaRaced", "pulled"}

LibraryTypeOK ==
    /\ script \in [there : BOOLEAN, text : 0..Garbled]
    /\ behind \in BOOLEAN
    /\ {meta, server, newest} \subseteq 0..MaxText
    /\ pushes \subseteq Workers \X (1..MaxText)
    /\ work \in [Workers -> [at : Stages, text : 0..MaxText, older : BOOLEAN]]
    /\ mishaps \subseteq Mishaps

LibraryInit ==
    /\ script = [there |-> FALSE, text |-> Empty]
    /\ behind = FALSE
    /\ meta = 0 /\ server = 0 /\ newest = 0
    /\ pushes = {}
    /\ work = [w \in Workers |-> Idle]
    /\ mishaps = {}

Note(S) == mishaps' = mishaps \cup S

\* The other goroutines whose write is under way.
Writing(w) == {v \in Workers \ {w} : work[v].at \in {"write", "saveWrite"}}

\* The file changes now: it is older than nothing that was listed so far.
Touch(text) ==
    /\ script' = [there |-> TRUE, text |-> text]
    /\ behind' = FALSE

\* w moves on, and every sync sees the file's new time.
AfterTouch(w, next) ==
    work' = [v \in Workers |->
               [(IF v = w THEN next ELSE work[v]) EXCEPT !.older = FALSE]]

---------------------------------------------------------------------------
(* syncServerScripts, in the goroutine a heartbeat starts *)

\* ListServerScripts; a failure or an empty list ends the sync.
SyncList(w) ==
    /\ work[w] = Idle
    /\ server # 0
    /\ work' = [work EXCEPT ![w] = [Idle EXCEPT !.at = "stat", !.older = behind]]
    /\ UNCHANGED <<script, behind, meta, server, newest, pushes, mishaps>>

NeedsSync(w) == ~script.there \/ work[w].older

\* os.Stat.
SyncStat(w) ==
    /\ work[w].at = "stat"
    /\ work' = [work EXCEPT ![w] =
                  IF NeedsSync(w) THEN [@ EXCEPT !.at = "fetch"] ELSE Idle]
    /\ UNCHANGED <<script, behind, meta, server, newest, pushes, mishaps>>

\* GetScript, which may fail.
SyncFetch(w) ==
    /\ work[w].at = "fetch"
    /\ \/ work' = [work EXCEPT ![w].at = "open", ![w].text = server]
       \/ work' = [work EXCEPT ![w] = Idle]
    /\ UNCHANGED <<script, behind, meta, server, newest, pushes, mishaps>>

\* os.WriteFile truncates.  The sync is overtaken when the platform has another
\* text by now, or the file has changed since it was looked at.
SyncOpen(w) ==
    /\ work[w].at = "open"
    /\ Touch(Empty)
    /\ AfterTouch(w, [work[w] EXCEPT !.at = "write"])
    /\ Note((IF server # work[w].text \/ ~NeedsSync(w) THEN {"overtaken"} ELSE {})
            \cup (IF Writing(w) # {} THEN {"overlap"} ELSE {}))
    /\ UNCHANGED <<meta, server, newest, pushes>>

\* What is in the file after a write at offset 0.
Overlay(text) == IF script.text \in {Empty, text} THEN {text} ELSE {text, Garbled}

\* The UpdatedAt of a text that reached the platform meanwhile is older than
\* the time of this write.
SyncWrite(w) ==
    /\ work[w].at = "write"
    /\ \E t \in Overlay(work[w].text) : Touch(t)
    /\ AfterTouch(w, Idle)
    /\ Note({"pulled"} \cup IF server # work[w].text THEN {"overtaken"} ELSE {})
    /\ UNCHANGED <<meta, server, newest, pushes>>

---------------------------------------------------------------------------
(* saveLocalScript *)

SaveScript(w) ==
    /\ work[w] = Idle
    /\ newest < MaxText
    /\ newest' = newest + 1
    /\ work' = [work EXCEPT ![w] = [Idle EXCEPT !.at = "saveOpen", !.text = newest']]
    /\ UNCHANGED <<script, behind, meta, server, pushes, mishaps>>

SaveOpen(w) ==
    /\ work[w].at = "saveOpen"
    /\ Touch(Empty)
    /\ AfterTouch(w, [work[w] EXCEPT !.at = "saveWrite"])
    /\ Note(IF Writing(w) # {} THEN {"overlap"} ELSE {})
    /\ UNCHANGED <<meta, server, newest, pushes>>

SaveWrite(w) ==
    /\ work[w].at = "saveWrite"
    /\ \E t \in Overlay(work[w].text) : Touch(t)
    /\ AfterTouch(w, [work[w] EXCEPT !.at = "saveMeta"])
    /\ UNCHANGED <<meta, server, newest, pushes, mishaps>>

\* Mutant: only scripts with a description of their own are pushed.
SaveMetaUnpushed(w) ==
    /\ work[w].at = "saveMeta"
    /\ meta' = work[w].text
    /\ work' = [work EXCEPT ![w] = Idle]
    /\ UNCHANGED <<script, behind, server, newest, pushes, mishaps>>

\* The description is written and a goroutine pushes the script; before the first
\* heartbeat that is answered, nobody does (SetSyncer).
SaveMeta(w) ==
    LET raced == IF script.text # work[w].text THEN {"metaRaced"} ELSE {} IN
    /\ work[w].at = "saveMeta"
    /\ meta' = work[w].text
    /\ \/ pushes' = pushes \cup {<<w, work[w].text>>} /\ Note(raced)
       \/ pushes' = pushes /\ Note(raced \cup {"notPushed"})
    /\ work' = [work EXCEPT ![w] = Idle]
    /\ UNCHANGED <<script, behind, server, newest>>

\* The platform stamps the push when it arrives: later than the file.
PushArrives(push) ==
    /\ push \in pushes
    /\ pushes' = pushes \ {push}
    /\ server' = push[2]
    /\ behind' = TRUE
    /\ Note(IF push[2] < server THEN {"reordered"} ELSE {})
    /\ UNCHANGED <<script, meta, newest, work>>

PushFails(push) ==
    /\ push \in pushes
    /\ pushes' = pushes \ {push}
    /\ Note({"notPushed"})
    /\ UNCHANGED <<script, behind, meta, server, newest, work>>

\* Another runner of the organization saves the script.
RemoteSave ==
    /\ newest < MaxText
    /\ newest' = newest + 1
    /\ server' = newest'
    /\ behind' = TRUE
    /\ UNCHANGED <<script, meta, pushes, work, mishaps>>

---------------------------------------------------------------------------
(* LoadLocalScript, for a run_local_script job *)

\* The text that is read is the text the job runs.
LoadScript(w) ==
    /\ work[w] = Idle
    /\ script.there
    /\ work' = [work EXCEPT ![w] = [Idle EXCEPT !.at = "readMeta"]]
    /\ Note(IF script.text \notin {Empty, Garbled} THEN {}
            ELSE {"ranHalf"} \cup IF Writing(w) # {} THEN {"readEarly"} ELSE {})
    /\ UNCHANGED <<script, behind, meta, server, newest, pushes>>

\* The usage count is read with the rest of the description, and all of it is
\* written back.
ReadMeta(w) ==
    /\ work[w].at = "readMeta"
    /\ work' = [work EXCEPT ![w] =
                  IF meta = 0 THEN Idle ELSE [Idle EXCEPT !.at = "writeMeta", !.text = meta]]
    /\ UNCHANGED <<script, behind, meta, server, newest, pushes, mishaps>>

WriteMeta(w) ==
    /\ work[w].at = "writeMeta"
    /\ meta' = work[w].text
    /\ work' = [work EXCEPT ![w] = Idle]
    /\ Note(IF meta # work[w].text THEN {"metaRaced"} ELSE {})
    /\ UNCHANGED <<script, behind, server, newest, pushes>>

---------------------------------------------------------------------------
\* The workers W go no further: a write of theirs fails, or their process ends
\* and takes their pushes with it.
Interrupt(W, lost) ==
    /\ work' = [w \in Workers |-> IF w \in W THEN Idle ELSE work[w]]
    /\ pushes' = pushes \ lost
    /\ LET at == {work[w].at : w \in W} IN
         Note((IF at \cap {"write", "saveWrite"} # {} THEN {"halfWritten"} ELSE {})
              \cup IF lost # {} \/ at \cap {"saveOpen", "saveWrite", "saveMeta"} # {}
                   THEN {"notPushed"} ELSE {})
    /\ UNCHANGED <<script, behind, meta, server, newest>>

WriteFails(w) ==
    /\ work[w].at \in {"open", "write", "saveOpen", "saveWrite", "saveMeta"}
    /\ Interrupt({w}, {})

\* The files are removed.
RemoveScripts ==
    /\ script' = [there |-> FALSE, text |-> Empty]
    /\ meta' = 0
    /\ UNCHANGED <<behind, server, newest, pushes, work, mishaps>>

WorkerStarts(w) == SyncList(w) \/ SaveScript(w) \/ LoadScript(w)

WorkerStep(w) ==
    \/ SyncStat(w) \/ SyncFetch(w) \/ SyncOpen(w) \/ SyncWrite(w)
    \/ SaveOpen(w) \/ SaveWrite(w) \/ SaveMeta(w)
    \/ ReadMeta(w) \/ WriteMeta(w)
    \/ WriteFails(w)

---------------------------------------------------------------------------
Quiet == pushes = {} /\ \A w \in Workers : work[w] = Idle

None(S) == mishaps \cap S = {}

\* A sync that finds nothing to do is right: with nothing under way, a file that
\* is not older than the platform's copy has its text, that text is the last one
\* anybody saved, and no description belongs to a text that a later save
\* replaced.  And a job runs only a text that somebody saved.  What can break it
\* has a name: a sync overtaken by a newer text between GetScript and the write
\* (runner.go:452-457), two writers of the file at once, a write cut short, a
\* push that failed, came late or was not sent (tools.go:862-868), a job that
\* reads the file between truncation and write (tools.go:937), a usage count
\* written back over a newer description (tools.go:943-950), a description that
\* a pull leaves old.
LibraryIsCurrent ==
    /\ Quiet /\ script.there /\ ~behind /\ server # 0
         /\ None({"overtaken", "overlap", "halfWritten", "notPushed"})
       => script.text = server
    /\ Quiet /\ None({"notPushed", "reordered"}) => server = newest
    /\ Quiet /\ script.there /\ meta # 0
         /\ None({"pulled", "metaRaced", "overlap", "overtaken", "halfWritten", "notPushed"})
       => meta = script.text
    /\ "ranHalf" \in mishaps => ~None({"readEarly", "overlap", "halfWritten"})
=============================================================================
