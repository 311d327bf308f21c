------------------------- MODULE StatusWindowProofs -------------------------
(***************************************************************************)
(* Proofs about StatusWindow, for any number of jobs and starts, any       *)
(* length of the queue of the Fyne thread and any limit of the history.    *)
(***************************************************************************)
EXTENDS StatusWindow, FiniteSetTheorems, TLAPS

-----------------------------------------------------------------------------
(* What is still to be shown *)

InQueue(S) == \E i \in 1..Len(queue) : queue[i].call \in S

\* Between Unregister and the call whose closure shows it.
Ending == {"ending", "tallying", "tallied"}

\* A change of activeJobs has not been shown yet.
Pending ==
    \/ InQueue({"running", "complete"})
    \/ \E j \in Jobs : at[j] \in {"registered"} \cup Ending

ActiveInv == activeJobs = {j \in Jobs : at[j] \in {"registered", "running"}}

\* The closure of SetJobRunning may run when the job has ended; then that of
\* SetJobComplete is behind it.
FollowInv ==
    \A i \in 1..Len(queue) : queue[i].call = "running" =>
        /\ queue[i].job \in Jobs
        /\ \/ queue[i].job \in activeJobs
           \/ at[queue[i].job] \in Ending
           \/ \E h \in i + 1..Len(queue) : queue[h].call = "complete"

\* Cards, section, badge and the job of Stop Agent, but for what is pending.
CardsInv ==
    \/ Pending
    \/ /\ shown.cards = activeJobs
       /\ shown.section <=> activeJobs # {}
       /\ state \in {"idle", "running"} => state = Badge
       /\ activeJobID # NoJob => activeJobID \in activeJobs

TodayInv ==
    \/ shown.today = today
    \/ InQueue({"running"})
    \/ \E j \in Jobs : at[j] = "registered"

\* Closures that show the runner connected, and those that do not.
Restoring == {"connected", "running", "complete", "idle"}
Losing    == {"connecting", "reconnecting", "offline"}

LinkInv ==
    link = "up" /\ ~closed /\ announcing = {} =>
        /\ state \in {"idle", "running"} \/ InQueue(Restoring)
        /\ \A i \in 1..Len(queue) : queue[i].call \in Losing =>
             \E h \in i + 1..Len(queue) : queue[h].call \in Restoring

\* The tallies are exact as long as no two goroutines are at them.
TallyInv ==
    ~raced =>
        /\ tally.ok = Passed(ended) /\ tally.ok + tally.failed = Len(ended)
        /\ \A i \in 1..Len(ended) : i <= RecentLimit =>
             i <= Len(recent) /\ recent[i] = ended[Len(ended) + 1 - i]
        /\ \A j \in Jobs : at[j] = "tallying" =>
             seen[j] = [tally |-> tally, recent |-> recent]

ShownInv ==
    \/ shown.tally = tally /\ shown.recent = recent
    \/ InQueue({"complete"})
    \/ \E j \in Jobs : at[j] = "tallied"

\* Closures that leave Stop Agent to the job that has it.
Harmless == {"connected", "stopError"}

\* The job that started last is about to get Stop Agent, or has it.
StopInv ==
    /\ ~handler => queue # <<>> /\ queue[1].call = "handler"
    /\ quiet # NoJob =>
         \/ \E i \in 1..Len(queue) :
              /\ queue[i] = Closure("running", quiet)
              /\ \A h \in i + 1..Len(queue) : queue[h].call \in Harmless
         \/ /\ activeJobID = quiet /\ (button \/ quiet \in asked)
            /\ \A h \in 1..Len(queue) : queue[h].call \in Harmless
-----------------------------------------------------------------------------
(* The queue of the Fyne thread *)

Entry == [call : Calls, job : Jobs \cup {NoJob}]

LEMMA Appended ==
    ASSUME queue \in Seq(Entry), NEW c, NEW j, Do(c, j)
    PROVE  /\ Len(queue) \in Nat /\ Len(queue') = Len(queue) + 1
           /\ \A i \in 1..Len(queue) : queue'[i] = queue[i]
           /\ queue'[Len(queue) + 1] = Closure(c, j)
BY DEF Do

LEMMA AppendedTyped ==
    ASSUME queue \in Seq(Entry), NEW c \in Calls, NEW j \in Jobs \cup {NoJob}, Do(c, j)
    PROVE  queue' \in Seq(Entry)
<1>1. Closure(c, j) \in Entry
  BY DEF Closure, Entry
<1>2. QED
  BY <1>1 DEF Do

LEMMA Popped ==
    ASSUME queue \in Seq(Entry), NEW c, Pop(c)
    PROVE  /\ Len(queue) \in Nat \ {0} /\ Len(queue') = Len(queue) - 1
           /\ Head(queue) = queue[1] /\ queue[1] \in Entry /\ queue[1].call = c
           /\ \A i \in 1..Len(queue') : queue'[i] = queue[i + 1]
           /\ queue' \in Seq(Entry)
BY DEF Pop

LEMMA InQueueAppended ==
    ASSUME queue \in Seq(Entry), NEW c, NEW j, Do(c, j), NEW S
    PROVE  InQueue(S)' <=> InQueue(S) \/ c \in S
<1>1. Len(queue) \in Nat /\ Len(queue') = Len(queue) + 1
  BY Appended
<1>2. \A i \in 1..Len(queue') : i \in 1..Len(queue) \/ i = Len(queue) + 1
  BY <1>1
<1>3. \A i \in 1..Len(queue) : i \in 1..Len(queue')
  BY <1>1
<1>4. queue'[Len(queue) + 1].call = c /\ Len(queue) + 1 \in 1..Len(queue')
  <2>1. queue'[Len(queue) + 1] = Closure(c, j)
    BY Appended
  <2>2. QED
    BY <1>1, <2>1 DEF Closure
<1>5. QED
  BY <1>2, <1>3, <1>4, Appended DEF InQueue

LEMMA InQueuePopped ==
    ASSUME queue \in Seq(Entry), NEW c, Pop(c), NEW S
    PROVE  InQueue(S) <=> InQueue(S)' \/ c \in S
<1>1. /\ Len(queue) \in Nat \ {0} /\ Len(queue') = Len(queue) - 1 /\ queue[1].call = c
      /\ \A i \in 1..Len(queue') : queue'[i] = queue[i + 1]
  BY Popped
<1>2. ASSUME NEW i \in 1..Len(queue), queue[i].call \in S
      PROVE  InQueue(S)' \/ c \in S
  <2>1. CASE i = 1
    BY <1>1, <1>2, <2>1
  <2>2. CASE i # 1
    <3>1. i - 1 \in 1..Len(queue') /\ i - 1 + 1 = i
      BY <1>1, <2>2
    <3>2. queue'[i - 1] = queue[i]
      BY <1>1, <3>1
    <3>3. QED
      BY <1>2, <3>1, <3>2 DEF InQueue
  <2>3. QED
    BY <2>1, <2>2
<1>3. ASSUME NEW i \in 1..Len(queue'), queue'[i].call \in S
      PROVE  InQueue(S)
  <2>1. i + 1 \in 1..Len(queue) /\ queue[i + 1].call \in S
    BY <1>1, <1>3
  <2>2. QED
    BY <2>1 DEF InQueue
<1>4. c \in S => InQueue(S)
  BY <1>1 DEF InQueue
<1>5. InQueue(S) => InQueue(S)' \/ c \in S
  BY <1>2 DEF InQueue
<1>6. InQueue(S)' => InQueue(S)
  BY <1>3 DEF InQueue
<1>7. QED
  BY <1>4, <1>5, <1>6

\* Every call by a goroutine either leaves the queue alone or appends to it.
Unqueued ==
    \/ \E j \in Jobs : \/ Register(j) \/ ReadTally(j) \/ WriteTally(j) \/ ScriptNotFound(j)
                       \/ \E ok \in BOOLEAN : Unregister(j, ok)
                       \/ StopAnswered(j, FALSE)
    \/ \E l \in Loops : GoesUp(l)
    \/ Click
    \/ UNCHANGED vars

Queued ==
    \/ \E j \in Jobs : \/ AnnounceRunning(j) \/ AnnounceComplete(j) \/ AnnounceIdle(j)
                       \/ StopAnswered(j, TRUE)
    \/ \E l \in Loops : AnnounceConnected(l) \/ GoesDown(l)
    \/ Close

Showing ==
    \/ ShowHandler \/ ShowConnecting \/ ShowConnected \/ ShowDisconnected
    \/ ShowRunning \/ ShowComplete \/ ShowIdle \/ ShowStopError

LEMMA Steps ==
    ASSUME [Next]_vars
    PROVE  Unqueued \/ Queued \/ Showing
BY DEF Next, JobCalls, FyneStep, Ended, Unqueued, Queued, Showing
-----------------------------------------------------------------------------
(* Types *)

LEMMA NewestTyped ==
    ASSUME NEW row \in Rows, NEW rows \in Seq(Rows)
    PROVE  /\ Newest(row, rows) \in Seq(Rows)
           /\ Len(Newest(row, rows)) = IF Len(rows) < RecentLimit THEN Len(rows) + 1
                                       ELSE RecentLimit
           /\ \A i \in 1..Len(Newest(row, rows)) :
                Newest(row, rows)[i] = IF i = 1 THEN row ELSE rows[i - 1]
<1> DEFINE all == <<row>> \o rows
           n == IF Len(all) > RecentLimit THEN RecentLimit ELSE Len(all)
<1>1. /\ all \in Seq(Rows) /\ Len(rows) \in Nat /\ Len(all) = Len(rows) + 1
      /\ \A i \in 1..Len(all) : all[i] = IF i = 1 THEN row ELSE rows[i - 1]
  OBVIOUS
<1>2. RecentLimit \in Nat \ {0}
  BY WindowAssumption
<1>3. n \in Nat \ {0} /\ n <= Len(all) /\ n = IF Len(rows) < RecentLimit THEN Len(rows) + 1
                                                ELSE RecentLimit
  BY <1>1, <1>2
<1>4. Newest(row, rows) = SubSeq(all, 1, n)
  BY DEF Newest
<1> HIDE DEF n
<1>5. \A i \in 1..n : all[i] \in Rows
  BY <1>1, <1>3
<1> HIDE DEF all
<1>6. /\ SubSeq(all, 1, n) \in Seq(Rows) /\ Len(SubSeq(all, 1, n)) = n
      /\ \A i \in 1..n : SubSeq(all, 1, n)[i] = all[i]
  BY <1>3, <1>5
<1>7. QED
  BY <1>1, <1>3, <1>4, <1>6

LEMMA CountedTyped ==
    ASSUME NEW counts \in Counts, NEW ok \in BOOLEAN
    PROVE  /\ Counted(counts, ok) \in Counts
           /\ Counted(counts, ok).ok = IF ok THEN counts.ok + 1 ELSE counts.ok
           /\ Counted(counts, ok).ok + Counted(counts, ok).failed
                = counts.ok + counts.failed + 1
BY DEF Counted, Counts
LEMMA QueueTyped ==
    ASSUME TypeOK, [Next]_vars
    PROVE  queue' \in Seq(Entry)
<1>1. queue \in Seq(Entry)
  BY DEF TypeOK, Entry
<1>2. CASE Unqueued
  BY <1>1, <1>2 DEF Unqueued, Register, ReadTally, WriteTally, ScriptNotFound, Unregister,
                    StopAnswered, GoesUp, Click, vars
<1>3. CASE Queued
  <2>1. \E c \in Calls, j \in Jobs \cup {NoJob} : Do(c, j)
    BY <1>3 DEF Queued, AnnounceRunning, AnnounceComplete, AnnounceIdle, StopAnswered,
                AnnounceConnected, GoesDown, Close, Calls
  <2>2. QED
    BY <1>1, <2>1, AppendedTyped
<1>4. CASE Showing
  <2>1. \E c \in Calls : Pop(c)
    BY <1>4 DEF Showing, ShowHandler, ShowConnecting, ShowConnected, ShowDisconnected,
                ShowRunning, ShowComplete, ShowIdle, ShowStopError, Calls
  <2>2. QED
    BY <1>1, <2>1, Popped
<1>5. QED
  BY <1>2, <1>3, <1>4, Steps

LEMMA UnqueuedTyped ==
    ASSUME TypeOK, Unqueued, queue' \in Seq(Entry)
    PROVE  TypeOK'
<1> USE DEF TypeOK, Entry, jobVars, loopVars, fyneVars, history
<1>1. CASE \E j \in Jobs : Register(j)
  <2>1. PICK j \in Jobs : Register(j)
    BY <1>1
  <2>2. at' \in [Jobs -> Phases]
    BY <2>1 DEF Register, Goto, Phases
  <2>3. starts' \in 0..MaxStarts
    BY <2>1, WindowAssumption DEF Register, HandedOut
  <2>4. activeJobs' \subseteq Jobs /\ today' \in Nat
    BY <2>1 DEF Register
  <2>5. QED
    BY <2>1, <2>2, <2>3, <2>4 DEF Register
<1>2. CASE \E j \in Jobs : ScriptNotFound(j)
  <2>1. PICK j \in Jobs : ScriptNotFound(j)
    BY <1>2
  <2>2. at' \in [Jobs -> Phases]
    BY <2>1 DEF ScriptNotFound, Goto, Phases
  <2>3. starts' \in 0..MaxStarts
    BY <2>1, WindowAssumption DEF ScriptNotFound, HandedOut
  <2>4. QED
    BY <2>1, <2>2, <2>3 DEF ScriptNotFound
<1>3. CASE \E j \in Jobs, ok \in BOOLEAN : Unregister(j, ok)
  <2>1. PICK j \in Jobs, ok \in BOOLEAN : Unregister(j, ok)
    BY <1>3
  <2>2. at' \in [Jobs -> Phases] /\ exit' \in [Jobs -> BOOLEAN]
    BY <2>1 DEF Unregister, Goto, Phases
  <2>3. QED
    BY <2>1, <2>2 DEF Unregister
<1>4. CASE \E j \in Jobs : ReadTally(j)
  <2>1. PICK j \in Jobs : ReadTally(j)
    BY <1>4
  <2>2. at' \in [Jobs -> Phases]
    BY <2>1 DEF ReadTally, Goto, Phases
  <2>3. seen' \in [Jobs -> [tally : Counts, recent : Seq(Rows)]]
    BY <2>1 DEF ReadTally
  <2>4. QED
    BY <2>1, <2>2, <2>3 DEF ReadTally
<1>5. CASE \E j \in Jobs : WriteTally(j)
  <2>1. PICK j \in Jobs : WriteTally(j)
    BY <1>5
  <2> DEFINE row == [job |-> j, ok |-> exit[j]]
  <2>2. row \in Rows
    BY DEF Rows
  <2>3. at' \in [Jobs -> Phases] /\ exit' \in [Jobs -> BOOLEAN]
    BY <2>1 DEF WriteTally, Goto, Phases
  <2>4. seen' \in [Jobs -> [tally : Counts, recent : Seq(Rows)]]
    <3>1. Nothing \in [tally : Counts, recent : Seq(Rows)]
      BY DEF Nothing, NoCounts, Counts
    <3>2. QED
      BY <2>1, <3>1 DEF WriteTally
  <2>5. ended' \in Seq(Rows) /\ raced' \in BOOLEAN
    BY <2>1, <2>2 DEF WriteTally
  <2>6. tally' \in Counts /\ recent' \in Seq(Rows) /\ Len(recent') <= RecentLimit
    <3>1. PICK counts \in {seen[j].tally, tally}, rows \in {seen[j].recent, recent} :
            tally' = Counted(counts, exit[j]) /\ recent' = Newest(row, rows)
      BY <2>1 DEF WriteTally
    <3>2. counts \in Counts /\ rows \in Seq(Rows) /\ exit[j] \in BOOLEAN
      OBVIOUS
    <3>3. Len(rows) \in Nat /\ RecentLimit \in Nat \ {0}
      BY <3>2, WindowAssumption
    <3>4. Counted(counts, exit[j]) \in Counts
      BY <3>2, CountedTyped
    <3>5. Newest(row, rows) \in Seq(Rows) /\ Len(Newest(row, rows)) <= RecentLimit
      <4> HIDE DEF row
      <4>1. QED
        BY <2>2, <3>2, <3>3, NewestTyped
    <3>6. QED
      BY <3>1, <3>4, <3>5
  <2>7. QED
    BY <2>1, <2>3, <2>4, <2>5, <2>6 DEF WriteTally
<1>6. CASE \E j \in Jobs : StopAnswered(j, FALSE)
  BY <1>6 DEF StopAnswered
<1>7. CASE \E l \in Loops : GoesUp(l)
  BY <1>7 DEF GoesUp
<1>8. CASE Click
  <2>1. clicks' \in 0..MaxClicks
    BY <1>8, WindowAssumption DEF Click
  <2>2. button' \in BOOLEAN /\ stopping' \subseteq Jobs /\ asked' \subseteq Jobs
    BY <1>8 DEF Click
  <2>3. QED
    BY <1>8, <2>1, <2>2 DEF Click
<1>9. CASE UNCHANGED vars
  BY <1>9 DEF vars
<1>10. QED
  BY <1>1, <1>2, <1>3, <1>4, <1>5, <1>6, <1>7, <1>8, <1>9 DEF Unqueued

LEMMA QueuedTyped ==
    ASSUME TypeOK, Queued, queue' \in Seq(Entry)
    PROVE  TypeOK'
<1> USE DEF TypeOK, Entry, jobVars, loopVars, fyneVars, history
<1>1. CASE \E j \in Jobs : AnnounceRunning(j) \/ AnnounceComplete(j) \/ AnnounceIdle(j)
  <2>1. PICK j \in Jobs : AnnounceRunning(j) \/ AnnounceComplete(j) \/ AnnounceIdle(j)
    BY <1>1
  <2>2. at' \in [Jobs -> Phases]
    BY <2>1 DEF AnnounceRunning, AnnounceComplete, AnnounceIdle, Goto, Phases
  <2>3. QED
    BY <2>1, <2>2 DEF AnnounceRunning, AnnounceComplete, AnnounceIdle
<1>2. CASE \E j \in Jobs : StopAnswered(j, TRUE)
  BY <1>2 DEF StopAnswered
<1>3. CASE \E l \in Loops : AnnounceConnected(l) \/ GoesDown(l)
  <2>1. outages' \in 0..MaxOutages
    <3>1. outages' = outages \/ (outages < MaxOutages /\ outages' = outages + 1)
      BY <1>3 DEF AnnounceConnected, GoesDown
    <3>2. outages \in 0..MaxOutages /\ MaxOutages \in Nat
      BY WindowAssumption
    <3> QED
      BY ONLY <3>1, <3>2
  <2>2. announcing' \subseteq Loops /\ link' \in {"new", "up", "down"} /\ quiet' \in Jobs \cup {NoJob}
    BY <1>3 DEF AnnounceConnected, GoesDown
  <2>3. QED
    BY <1>3, <2>1, <2>2 DEF AnnounceConnected, GoesDown
<1>4. CASE Close
  BY <1>4 DEF Close
<1>5. QED
  BY <1>1, <1>2, <1>3, <1>4 DEF Queued

LEMMA ShowingTyped ==
    ASSUME TypeOK, Showing, queue' \in Seq(Entry)
    PROVE  TypeOK'
<1> USE DEF TypeOK, Entry, jobVars, loopVars, Pop, RefreshButton, Badge
<1>1. CASE ShowHandler
  BY <1>1 DEF ShowHandler
<1>2. CASE ShowConnecting
  BY <1>2 DEF ShowConnecting
<1>3. CASE ShowConnected
  BY <1>3 DEF ShowConnected
<1>4. CASE ShowDisconnected
  BY <1>4 DEF ShowDisconnected
<1>5. CASE ShowRunning
  <2>1. Head(queue).job \in Jobs \cup {NoJob}
    <3>1. queue \in Seq(Entry) /\ Pop("running")
      BY <1>5 DEF ShowRunning
    <3>2. Head(queue) \in Entry
      BY <3>1, Popped
    <3>3. QED
      BY <3>2
  <2>2. shown' \in [cards : SUBSET Jobs, section : BOOLEAN, today : Nat,
                    tally : Counts, recent : Seq(Rows)]
    BY <1>5 DEF ShowRunning
  <2>3. QED
    BY <1>5, <2>1, <2>2 DEF ShowRunning
<1>6. CASE ShowComplete
  <2>1. shown' \in [cards : SUBSET Jobs, section : BOOLEAN, today : Nat,
                    tally : Counts, recent : Seq(Rows)]
    BY <1>6 DEF ShowComplete
  <2>2. QED
    BY <1>6, <2>1 DEF ShowComplete
<1>7. CASE ShowIdle
  <2>1. shown' \in [cards : SUBSET Jobs, section : BOOLEAN, today : Nat,
                    tally : Counts, recent : Seq(Rows)]
    BY <1>7 DEF ShowIdle
  <2>2. QED
    BY <1>7, <2>1 DEF ShowIdle
<1>8. CASE ShowStopError
  BY <1>8 DEF ShowStopError
<1>9. QED
  BY <1>1, <1>2, <1>3, <1>4, <1>5, <1>6, <1>7, <1>8 DEF Showing

LEMMA TypesKept ==
    ASSUME TypeOK, [Next]_vars
    PROVE  TypeOK'
BY QueueTyped, UnqueuedTyped, QueuedTyped, ShowingTyped, Steps
-----------------------------------------------------------------------------
(* The jobs and the calls they owe the window *)

\* A call that queues a closure: which, and what else it does to the jobs.
LEMMA QueuedCall ==
    ASSUME TypeOK, ActiveInv, Queued
    PROVE  \E c \in Calls, j \in Jobs \cup {NoJob} :
             /\ Do(c, j)
             /\ UNCHANGED <<activeJobs, today, tally, recent, seen, ended, raced,
                            shown, state, activeJobID, handler, button>>
             /\ \/ UNCHANGED at /\ c \notin {"handler", "connecting", "running", "complete", "idle"}
                \/ /\ j \in Jobs /\ at[j] = "registered" /\ at' = [at EXCEPT ![j] = "running"]
                   /\ c = "running"
                \/ /\ j \in Jobs /\ at[j] = "tallied" /\ at' = [at EXCEPT ![j] = "idle"]
                   /\ c = "complete"
                \/ /\ j \in Jobs /\ at[j] = "idle" /\ at' = [at EXCEPT ![j] = "off"]
                   /\ c = "idle"
<1> USE DEF TypeOK, jobVars, loopVars, fyneVars, history, Calls
<1>1. CASE \E j \in Jobs : AnnounceRunning(j)
  BY <1>1 DEF AnnounceRunning, Goto
<1>2. CASE \E j \in Jobs : AnnounceComplete(j)
  BY <1>2 DEF AnnounceComplete, Goto
<1>3. CASE \E j \in Jobs : AnnounceIdle(j)
  BY <1>3 DEF AnnounceIdle, Goto
<1>4. CASE \E j \in Jobs : StopAnswered(j, TRUE)
  BY <1>4 DEF StopAnswered
<1>5. CASE \E l \in Loops : AnnounceConnected(l) \/ GoesDown(l)
  BY <1>5 DEF AnnounceConnected, GoesDown
<1>6. CASE Close
  BY <1>6 DEF Close
<1>7. QED
  BY <1>1, <1>2, <1>3, <1>4, <1>5, <1>6 DEF Queued

\* A closure that is shown: which, and what it leaves alone.
LEMMA Shown ==
    ASSUME Showing
    PROVE  /\ \E c \in Calls : Pop(c)
           /\ UNCHANGED <<jobVars, loopVars, stopping, starts, outages, clicks, ended,
                          raced, quiet>>
BY DEF Showing, ShowHandler, ShowConnecting, ShowConnected, ShowDisconnected, ShowRunning,
       ShowComplete, ShowIdle, ShowStopError, Calls, Pop

LEMMA ActiveKept ==
    ASSUME TypeOK, ActiveInv, [Next]_vars
    PROVE  ActiveInv'
<1>1. at \in [Jobs -> Phases]
  BY DEF TypeOK
<1>2. CASE Unqueued
  BY <1>1, <1>2
     DEF ActiveInv, Unqueued, Register, ReadTally, WriteTally, ScriptNotFound, Unregister,
         StopAnswered, GoesUp, Click, vars, jobVars, Goto
<1>3. CASE Queued
  <2>1. PICK j \in Jobs \cup {NoJob} :
          /\ activeJobs' = activeJobs
          /\ \/ UNCHANGED at
             \/ j \in Jobs /\ at[j] = "registered" /\ at' = [at EXCEPT ![j] = "running"]
             \/ j \in Jobs /\ at[j] = "tallied" /\ at' = [at EXCEPT ![j] = "idle"]
             \/ j \in Jobs /\ at[j] = "idle" /\ at' = [at EXCEPT ![j] = "off"]
    BY <1>3, QueuedCall
  <2>2. QED
    BY <1>1, <2>1 DEF ActiveInv
<1>4. CASE Showing
  BY <1>4, Shown DEF ActiveInv, jobVars
<1>5. QED
  BY <1>2, <1>3, <1>4, Steps

LEMMA FollowKept ==
    ASSUME TypeOK, ActiveInv, FollowInv, [Next]_vars
    PROVE  FollowInv'
<1>1. at \in [Jobs -> Phases] /\ queue \in Seq(Entry)
  BY DEF TypeOK, Entry
<1>2. CASE Unqueued
  <2>1. queue' = queue
    BY <1>2 DEF Unqueued, Register, ReadTally, WriteTally, ScriptNotFound, Unregister,
                StopAnswered, GoesUp, Click, vars
  <2>2. \A j \in Jobs : j \in activeJobs \/ at[j] \in Ending
                          => j \in activeJobs' \/ at'[j] \in Ending
    BY <1>1, <1>2
       DEF Unqueued, Register, ReadTally, WriteTally, ScriptNotFound, Unregister,
           StopAnswered, GoesUp, Click, vars, jobVars, Goto, Ending
  <2>3. QED
    BY <2>1, <2>2 DEF FollowInv
<1>3. CASE Queued
  <2>1. PICK c \in Calls, k \in Jobs \cup {NoJob} :
          /\ Do(c, k) /\ activeJobs' = activeJobs
          /\ c = "running" => k \in Jobs /\ k \in activeJobs
          /\ \A j \in Jobs : at[j] \in Ending => at'[j] \in Ending \/ c = "complete"
    <3>1. PICK c \in Calls, k \in Jobs \cup {NoJob} :
          /\ Do(c, k) /\ activeJobs' = activeJobs
          /\ \/ UNCHANGED at /\ c \notin {"running", "complete", "idle"}
             \/ /\ k \in Jobs /\ at[k] = "registered" /\ at' = [at EXCEPT ![k] = "running"]
                /\ c = "running"
             \/ /\ k \in Jobs /\ at[k] = "tallied" /\ at' = [at EXCEPT ![k] = "idle"]
                /\ c = "complete"
             \/ /\ k \in Jobs /\ at[k] = "idle" /\ at' = [at EXCEPT ![k] = "off"]
                /\ c = "idle"
      BY <1>3, QueuedCall
    <3>2. c = "running" => k \in Jobs /\ k \in activeJobs
      BY <3>1 DEF ActiveInv
    <3>3. \A j \in Jobs : at[j] \in Ending => at'[j] \in Ending \/ c = "complete"
      BY <1>1, <3>1 DEF Ending
    <3>4. QED
      BY <3>1, <3>2, <3>3
  <2>2. /\ Len(queue) \in Nat /\ Len(queue') = Len(queue) + 1
        /\ \A i \in 1..Len(queue) : queue'[i] = queue[i]
        /\ queue'[Len(queue) + 1] = Closure(c, k)
    BY <1>1, <2>1, Appended
  <2>3. ASSUME NEW i \in 1..Len(queue'), queue'[i].call = "running"
        PROVE  /\ queue'[i].job \in Jobs
               /\ \/ queue'[i].job \in activeJobs'
                  \/ at'[queue'[i].job] \in Ending
                  \/ \E h \in i + 1..Len(queue') : queue'[h].call = "complete"
    <3>1. CASE i = Len(queue) + 1
      BY <2>1, <2>2, <2>3, <3>1 DEF Closure
    <3>2. CASE i \in 1..Len(queue)
      <4>1. queue'[i] = queue[i] /\ queue[i].call = "running"
        BY <2>2, <2>3, <3>2
      <4>2. \A h \in i + 1..Len(queue) : h \in i + 1..Len(queue') /\ queue'[h] = queue[h]
        BY <2>2, <3>2
      <4>3. c = "complete" => /\ Len(queue) + 1 \in i + 1..Len(queue')
                              /\ queue'[Len(queue) + 1].call = "complete"
        BY <2>2, <3>2 DEF Closure
      <4>4. QED
        BY <2>1, <3>2, <4>1, <4>2, <4>3 DEF FollowInv
    <3>3. QED
      BY <2>2, <2>3, <3>1, <3>2
  <2>4. QED
    BY <2>3 DEF FollowInv
<1>4. CASE Showing
  <2>1. PICK c \in Calls : Pop(c)
    BY <1>4, Shown
  <2>2. UNCHANGED <<at, activeJobs>>
    BY <1>4, Shown DEF jobVars
  <2>3. /\ Len(queue) \in Nat \ {0} /\ Len(queue') = Len(queue) - 1
        /\ \A i \in 1..Len(queue') : queue'[i] = queue[i + 1]
    BY <1>1, <2>1, Popped
  <2>4. ASSUME NEW i \in 1..Len(queue'), queue'[i].call = "running"
        PROVE  /\ queue'[i].job \in Jobs
               /\ \/ queue'[i].job \in activeJobs'
                  \/ at'[queue'[i].job] \in Ending
                  \/ \E h \in i + 1..Len(queue') : queue'[h].call = "complete"
    <3>1. i + 1 \in 1..Len(queue) /\ queue'[i] = queue[i + 1]
      BY <2>3
    <3>2. ASSUME NEW h \in i + 1 + 1..Len(queue), queue[h].call = "complete"
          PROVE  \E g \in i + 1..Len(queue') : queue'[g].call = "complete"
      <4>1. h - 1 \in i + 1..Len(queue') /\ h - 1 \in 1..Len(queue') /\ h - 1 + 1 = h
        BY <2>3
      <4>2. QED
        BY <2>3, <3>2, <4>1
    <3>3. QED
      BY <2>2, <2>4, <3>1, <3>2 DEF FollowInv
  <2>5. QED
    BY <2>4 DEF FollowInv
<1>5. QED
  BY <1>2, <1>3, <1>4, Steps
-----------------------------------------------------------------------------
(* What the window shows *)

\* What a call that queues nothing does to the jobs; it shows nothing either.
LEMMA UnqueuedCall ==
    ASSUME TypeOK, Unqueued
    PROVE  /\ UNCHANGED <<queue, shown, state, activeJobID, handler>>
           /\ \/ UNCHANGED <<at, activeJobs, today>>
              \/ \E j \in Jobs :
                   \/ at' = [at EXCEPT ![j] = "registered"] /\ at[j] = "off"
                   \/ /\ at' = [at EXCEPT ![j] = "ending"] /\ at[j] = "running"
                      /\ today' = today
                   \/ /\ at' = [at EXCEPT ![j] = "tallying"] /\ at[j] = "ending"
                      /\ UNCHANGED <<activeJobs, today>>
                   \/ /\ at' = [at EXCEPT ![j] = "tallied"] /\ at[j] = "tallying"
                      /\ UNCHANGED <<activeJobs, today>>
                   \/ /\ at' = [at EXCEPT ![j] = "idle"] /\ at[j] = "off"
                      /\ UNCHANGED <<activeJobs, today>>
<1> USE DEF jobVars, loopVars, fyneVars, history, Goto
<1>1. CASE \E j \in Jobs : Register(j)
  BY <1>1 DEF Register
<1>2. CASE \E j \in Jobs, ok \in BOOLEAN : Unregister(j, ok)
  BY <1>2 DEF Unregister
<1>3. CASE \E j \in Jobs : ReadTally(j)
  BY <1>3 DEF ReadTally
<1>4. CASE \E j \in Jobs : WriteTally(j)
  BY <1>4 DEF WriteTally
<1>5. CASE \E j \in Jobs : ScriptNotFound(j)
  BY <1>5 DEF ScriptNotFound
<1>6. CASE \E j \in Jobs : StopAnswered(j, FALSE)
  BY <1>6 DEF StopAnswered
<1>7. CASE (\E l \in Loops : GoesUp(l)) \/ Click \/ UNCHANGED vars
  BY <1>7 DEF GoesUp, Click, vars
<1>8. QED
  BY <1>1, <1>2, <1>3, <1>4, <1>5, <1>6, <1>7 DEF Unqueued

\* The closure of a job that runs, or whose end is pending.
LEMMA RunningShown ==
    ASSUME TypeOK, FollowInv, Pop("running")
    PROVE  /\ Head(queue).job \in Jobs
           /\ Head(queue).job \in activeJobs \/ Pending'
<1>1. queue \in Seq(Entry) /\ at' = at
  BY DEF TypeOK, Entry, Pop, jobVars
<1>2. /\ Len(queue) \in Nat \ {0} /\ Len(queue') = Len(queue) - 1
      /\ Head(queue) = queue[1] /\ queue[1].call = "running"
      /\ \A i \in 1..Len(queue') : queue'[i] = queue[i + 1]
  BY <1>1, Popped
<1>3. 1 \in 1..Len(queue)
  BY <1>2
<1>4. /\ queue[1].job \in Jobs
      /\ \/ queue[1].job \in activeJobs
         \/ at[queue[1].job] \in Ending
         \/ \E h \in 1 + 1..Len(queue) : queue[h].call = "complete"
  BY <1>2, <1>3 DEF FollowInv
<1>5. ASSUME NEW h \in 1 + 1..Len(queue), queue[h].call = "complete"
      PROVE  Pending'
  <2>1. h - 1 \in 1..Len(queue') /\ h - 1 + 1 = h
    BY <1>2
  <2>2. queue'[h - 1].call = "complete"
    BY <1>2, <1>5, <2>1
  <2>3. QED
    BY <2>1, <2>2 DEF Pending, InQueue
<1>6. at[queue[1].job] \in Ending => Pending'
  BY <1>1, <1>4 DEF Pending
<1>7. QED
  BY <1>2, <1>4, <1>5, <1>6

LEMMA CardsKept ==
    ASSUME TypeOK, ActiveInv, FollowInv, CardsInv, [Next]_vars
    PROVE  CardsInv'
<1>1. /\ at \in [Jobs -> Phases] /\ queue \in Seq(Entry) /\ activeJobs \subseteq Jobs
      /\ shown \in [cards : SUBSET Jobs, section : BOOLEAN, today : Nat,
                    tally : Counts, recent : Seq(Rows)]
  BY DEF TypeOK, Entry
<1>2. CASE Unqueued
  <2>1. UNCHANGED <<queue, shown, state, activeJobID>>
    BY <1>2, UnqueuedCall
  <2>2. InQueue({"running", "complete"}) <=> InQueue({"running", "complete"})'
    BY <2>1 DEF InQueue
  <2>3. Pending' \/ (activeJobs' = activeJobs /\ ~Pending)
    BY <1>1, <1>2, <2>2, UnqueuedCall DEF Pending, Ending
  <2>4. QED
    BY <2>1, <2>3 DEF CardsInv, Badge
<1>3. CASE Queued
  <2>1. PICK c \in Calls, k \in Jobs \cup {NoJob} :
          /\ Do(c, k)
          /\ UNCHANGED <<activeJobs, shown, state, activeJobID>>
          /\ \/ UNCHANGED at
             \/ /\ k \in Jobs /\ at[k] = "registered" /\ at' = [at EXCEPT ![k] = "running"]
                /\ c = "running"
             \/ /\ k \in Jobs /\ at[k] = "tallied" /\ at' = [at EXCEPT ![k] = "idle"]
                /\ c = "complete"
             \/ k \in Jobs /\ at[k] = "idle" /\ at' = [at EXCEPT ![k] = "off"]
    BY <1>3, QueuedCall
  <2>2. InQueue({"running", "complete"})'
          <=> InQueue({"running", "complete"}) \/ c \in {"running", "complete"}
    BY <1>1, <2>1, InQueueAppended
  <2>3. Pending => Pending'
    BY <1>1, <2>1, <2>2 DEF Pending, Ending
  <2>4. QED
    BY <2>1, <2>3 DEF CardsInv, Badge
<1>4. CASE Showing
  <2>1. PICK c \in Calls : Pop(c)
    BY <1>4, Shown
  <2>2. UNCHANGED <<at, activeJobs>>
    BY <1>4, Shown DEF jobVars
  <2>3. \A d : Pop(d) => d = c
    BY <1>1, <2>1, Popped
  <2>4. c \notin {"running", "complete"} => (Pending => Pending')
    <3>1. InQueue({"running", "complete"})
            <=> InQueue({"running", "complete"})' \/ c \in {"running", "complete"}
      BY <1>1, <2>1, InQueuePopped
    <3>2. QED
      BY <2>2, <3>1 DEF Pending
  <2>5. CASE ShowRunning
    <3>1. Head(queue).job \in Jobs /\ (Head(queue).job \in activeJobs \/ Pending')
      BY <2>5, RunningShown DEF ShowRunning
    <3>2. /\ shown'.cards = activeJobs /\ shown'.section = TRUE /\ state' = "running"
          /\ activeJobID' = Head(queue).job
      BY <1>1, <2>5 DEF ShowRunning
    <3>3. QED
      BY <2>2, <3>1, <3>2 DEF CardsInv, Badge
  <2>6. CASE ShowComplete
    BY <2>2, <2>6 DEF ShowComplete, CardsInv, Badge
  <2>7. CASE ShowIdle
    <3>1. c = "idle"
      BY <2>3, <2>7 DEF ShowIdle
    <3>2. /\ shown'.cards = shown.cards /\ (shown'.section <=> activeJobs # {})
          /\ state' = Badge /\ activeJobID' = NoJob
      BY <1>1, <2>7 DEF ShowIdle
    <3>3. QED
      BY <2>2, <2>4, <3>1, <3>2 DEF CardsInv, Badge
  <2>8. CASE ShowConnected \/ ShowDisconnected \/ ShowConnecting \/ ShowHandler \/ ShowStopError
    <3>1. c \notin {"running", "complete"}
      BY <2>3, <2>8 DEF ShowConnected, ShowDisconnected, ShowConnecting, ShowHandler,
                        ShowStopError
    <3>2. /\ shown' = shown /\ activeJobID' \in {activeJobID, NoJob}
          /\ state' \in {state, Badge, "reconnecting", "disconnected", "connecting"}
      BY <2>8 DEF ShowConnected, ShowDisconnected, ShowConnecting, ShowHandler, ShowStopError
    <3>3. QED
      BY <2>2, <2>4, <3>1, <3>2 DEF CardsInv, Badge
  <2>9. QED
    BY <1>4, <2>5, <2>6, <2>7, <2>8 DEF Showing
<1>5. QED
  BY <1>2, <1>3, <1>4, Steps
LEMMA TodayKept ==
    ASSUME TypeOK, ActiveInv, TodayInv, [Next]_vars
    PROVE  TodayInv'
<1>1. /\ at \in [Jobs -> Phases] /\ queue \in Seq(Entry)
      /\ shown \in [cards : SUBSET Jobs, section : BOOLEAN, today : Nat,
                    tally : Counts, recent : Seq(Rows)]
  BY DEF TypeOK, Entry
<1>2. CASE Unqueued
  <2>1. UNCHANGED <<queue, shown>>
    BY <1>2, UnqueuedCall
  <2>2. InQueue({"running"})' <=> InQueue({"running"})
    BY <2>1 DEF InQueue
  <2>3. (\E j \in Jobs : at'[j] = "registered")
        \/ (today' = today /\ ~\E j \in Jobs : at[j] = "registered")
    BY <1>1, <1>2, UnqueuedCall
  <2>4. QED
    BY <2>1, <2>2, <2>3 DEF TodayInv
<1>3. CASE Queued
  <2>1. PICK c \in Calls, k \in Jobs \cup {NoJob} :
          /\ Do(c, k) /\ UNCHANGED <<today, shown>>
          /\ \/ UNCHANGED at
             \/ /\ at[k] = "registered" /\ at' = [at EXCEPT ![k] = "running"]
                /\ c = "running"
             \/ at[k] = "tallied" /\ at' = [at EXCEPT ![k] = "idle"]
             \/ at[k] = "idle" /\ at' = [at EXCEPT ![k] = "off"]
    BY <1>3, QueuedCall
  <2>2. InQueue({"running"})' <=> InQueue({"running"}) \/ c \in {"running"}
    BY <1>1, <2>1, InQueueAppended
  <2>3. QED
    BY <1>1, <2>1, <2>2 DEF TodayInv
<1>4. CASE Showing
  <2>1. PICK c \in Calls : Pop(c)
    BY <1>4, Shown
  <2>2. UNCHANGED <<at, today>>
    BY <1>4, Shown DEF jobVars
  <2>3. InQueue({"running"}) <=> InQueue({"running"})' \/ c \in {"running"}
    BY <1>1, <2>1, InQueuePopped
  <2>4. CASE ShowRunning
    BY <1>1, <2>2, <2>4 DEF ShowRunning, TodayInv
  <2>5. CASE ~ShowRunning
    <3>1. shown'.today = shown.today
      BY <1>1, <1>4, <2>5
         DEF Showing, ShowHandler, ShowConnecting, ShowConnected, ShowDisconnected,
             ShowComplete, ShowIdle, ShowStopError
    <3>2. \A d : Pop(d) => d = c
      BY <1>1, <2>1, Popped
    <3>3. c # "running"
      BY <1>4, <2>5, <3>2
         DEF Showing, ShowHandler, ShowConnecting, ShowConnected, ShowDisconnected,
             ShowComplete, ShowIdle, ShowStopError
    <3>4. QED
      BY <2>2, <2>3, <3>1, <3>3 DEF TodayInv
  <2>6. QED
    BY <2>4, <2>5
<1>5. QED
  BY <1>2, <1>3, <1>4, Steps

LEMMA ShownKept ==
    ASSUME TypeOK, ActiveInv, ShownInv, [Next]_vars
    PROVE  ShownInv'
<1>1. /\ at \in [Jobs -> Phases] /\ queue \in Seq(Entry)
      /\ shown \in [cards : SUBSET Jobs, section : BOOLEAN, today : Nat,
                    tally : Counts, recent : Seq(Rows)]
  BY DEF TypeOK, Entry
<1>2. CASE Unqueued
  <2>1. UNCHANGED <<queue, shown>>
    BY <1>2, UnqueuedCall
  <2>2. InQueue({"complete"})' <=> InQueue({"complete"})
    BY <2>1 DEF InQueue
  <2>3. CASE \E j \in Jobs : WriteTally(j)
    BY <1>1, <2>3 DEF WriteTally, Goto, ShownInv
  <2>4. CASE ~\E j \in Jobs : WriteTally(j)
    <3>1. UNCHANGED <<tally, recent>>
      BY <1>2, <2>4 DEF Unqueued, Register, ReadTally, ScriptNotFound, Unregister, StopAnswered,
                        GoesUp, Click, vars, jobVars
    <3>2. (\E j \in Jobs : at[j] = "tallied") => \E j \in Jobs : at'[j] = "tallied"
      BY <1>1, <1>2, UnqueuedCall
    <3>3. QED
      BY <2>1, <2>2, <3>1, <3>2 DEF ShownInv
  <2>5. QED
    BY <2>3, <2>4
<1>3. CASE Queued
  <2>1. PICK c \in Calls, k \in Jobs \cup {NoJob} :
          /\ Do(c, k) /\ UNCHANGED <<tally, recent, shown>>
          /\ \/ UNCHANGED at
             \/ at[k] = "registered" /\ at' = [at EXCEPT ![k] = "running"]
             \/ /\ at[k] = "tallied" /\ at' = [at EXCEPT ![k] = "idle"]
                /\ c = "complete"
             \/ at[k] = "idle" /\ at' = [at EXCEPT ![k] = "off"]
    BY <1>3, QueuedCall
  <2>2. InQueue({"complete"})' <=> InQueue({"complete"}) \/ c \in {"complete"}
    BY <1>1, <2>1, InQueueAppended
  <2>3. QED
    BY <1>1, <2>1, <2>2 DEF ShownInv
<1>4. CASE Showing
  <2>1. PICK c \in Calls : Pop(c)
    BY <1>4, Shown
  <2>2. UNCHANGED <<at, tally, recent>>
    BY <1>4, Shown DEF jobVars
  <2>3. InQueue({"complete"}) <=> InQueue({"complete"})' \/ c \in {"complete"}
    BY <1>1, <2>1, InQueuePopped
  <2>4. CASE ShowComplete
    BY <2>2, <2>4 DEF ShowComplete, ShownInv
  <2>5. CASE ~ShowComplete
    <3>1. shown'.tally = shown.tally /\ shown'.recent = shown.recent
      BY <1>1, <1>4, <2>5
         DEF Showing, ShowHandler, ShowConnecting, ShowConnected, ShowDisconnected,
             ShowRunning, ShowIdle, ShowStopError
    <3>2. \A d : Pop(d) => d = c
      BY <1>1, <2>1, Popped
    <3>3. c # "complete"
      BY <1>4, <2>5, <3>2
         DEF Showing, ShowHandler, ShowConnecting, ShowConnected, ShowDisconnected,
             ShowRunning, ShowIdle, ShowStopError
    <3>4. QED
      BY <2>2, <2>3, <3>1, <3>3 DEF ShownInv
  <2>6. QED
    BY <2>4, <2>5
<1>5. QED
  BY <1>2, <1>3, <1>4, Steps

LEMMA LinkKept ==
    ASSUME TypeOK, ActiveInv, LinkInv, [Next]_vars
    PROVE  LinkInv'
<1>1. queue \in Seq(Entry)
  BY DEF TypeOK, Entry
<1>2. CASE Unqueued
  <2>1. UNCHANGED <<queue, state>>
    BY <1>2, UnqueuedCall
  <2>2. announcing' # {} \/ UNCHANGED <<link, closed, announcing>>
    BY <1>2 DEF Unqueued, Register, ReadTally, WriteTally, ScriptNotFound, Unregister,
                StopAnswered, GoesUp, Click, vars, loopVars
  <2>3. QED
    BY <2>1, <2>2 DEF LinkInv, InQueue
<1>3. CASE Queued
  <2>1. CASE \E l \in Loops : AnnounceConnected(l)
    <3>1. Do("connected", NoJob) /\ UNCHANGED <<state, link, closed>>
      BY <2>1 DEF AnnounceConnected, fyneVars
    <3>2. /\ Len(queue) \in Nat /\ Len(queue') = Len(queue) + 1
          /\ \A i \in 1..Len(queue) : queue'[i] = queue[i]
          /\ queue'[Len(queue) + 1] = Closure("connected", NoJob)
      BY <1>1, <3>1, Appended
    <3>3. queue'[Len(queue) + 1].call = "connected"
      BY <3>2 DEF Closure
    <3>4. Len(queue) + 1 \in 1..Len(queue')
      BY <3>2
    <3>5. InQueue(Restoring)'
      BY <3>3, <3>4 DEF InQueue, Restoring
    <3>6. \A i \in 1..Len(queue') : queue'[i].call \in Losing =>
            /\ Len(queue) + 1 \in i + 1..Len(queue')
            /\ queue'[Len(queue) + 1].call \in Restoring
      BY <3>2, <3>3 DEF Losing, Restoring
    <3>7. QED
      BY <3>5, <3>6 DEF LinkInv
  <2>2. CASE (\E l \in Loops : GoesDown(l)) \/ Close
    BY <2>2 DEF GoesDown, Close, LinkInv
  <2>3. CASE \E j \in Jobs : \/ AnnounceRunning(j) \/ AnnounceComplete(j) \/ AnnounceIdle(j)
                            \/ StopAnswered(j, TRUE)
    <3>1. PICK c \in {"running", "complete", "idle", "stopError"}, j \in Jobs : Do(c, j)
      BY <2>3 DEF AnnounceRunning, AnnounceComplete, AnnounceIdle, StopAnswered
    <3>2. UNCHANGED <<state, link, closed, announcing>>
      BY <2>3 DEF AnnounceRunning, AnnounceComplete, AnnounceIdle, StopAnswered, fyneVars, loopVars
    <3>3. InQueue(Restoring)' <=> InQueue(Restoring) \/ c \in Restoring
      BY <1>1, <3>1, InQueueAppended
    <3>4. /\ Len(queue) \in Nat /\ Len(queue') = Len(queue) + 1
          /\ \A i \in 1..Len(queue) : queue'[i] = queue[i]
          /\ queue'[Len(queue) + 1] = Closure(c, j)
      BY <1>1, <3>1, Appended
    <3>5. queue'[Len(queue) + 1].call = c
      BY <3>4 DEF Closure
    <3>6. ASSUME NEW i \in 1..Len(queue'), queue'[i].call \in Losing,
                 link = "up", ~closed, announcing = {}
          PROVE  \E h \in i + 1..Len(queue') : queue'[h].call \in Restoring
      <4>1. i \in 1..Len(queue) /\ queue[i].call \in Losing
        BY <3>1, <3>4, <3>5, <3>6 DEF Losing
      <4>2. PICK h \in i + 1..Len(queue) : queue[h].call \in Restoring
        BY <3>6, <4>1 DEF LinkInv
      <4>3. h \in i + 1..Len(queue') /\ queue'[h] = queue[h]
        BY <3>4, <4>1
      <4>4. QED
        BY <4>2, <4>3
    <3>7. QED
      BY <3>2, <3>3, <3>6 DEF LinkInv
  <2>4. QED
    BY <1>3, <2>1, <2>2, <2>3 DEF Queued
<1>4. CASE Showing
  <2>1. PICK c \in Calls : Pop(c)
    BY <1>4, Shown
  <2>2. UNCHANGED <<link, closed, announcing>>
    BY <1>4, Shown DEF loopVars
  <2>3. /\ Len(queue) \in Nat \ {0} /\ Len(queue') = Len(queue) - 1 /\ queue[1].call = c
        /\ \A i \in 1..Len(queue') : queue'[i] = queue[i + 1]
    BY <1>1, <2>1, Popped
  <2>4. InQueue(Restoring) <=> InQueue(Restoring)' \/ c \in Restoring
    BY <1>1, <2>1, InQueuePopped
  <2>5. /\ c \in Restoring => state' \in {"idle", "running"}
        /\ c \notin Restoring \cup Losing => state' = state
    <3>1. \A d : Pop(d) => d = c
      BY <1>1, <2>1, Popped
    <3>2. QED
      BY <1>4, <3>1
         DEF Showing, ShowHandler, ShowConnecting, ShowConnected, ShowDisconnected,
             ShowRunning, ShowComplete, ShowIdle, ShowStopError, Restoring, Losing, Badge
  <2>6. ASSUME NEW i \in 1..Len(queue), link = "up", ~closed, announcing = {},
               queue[i].call \in Losing
        PROVE  \E h \in i..Len(queue') : queue'[h].call \in Restoring
    <3>1. PICK h \in i + 1..Len(queue) : queue[h].call \in Restoring
      BY <2>6 DEF LinkInv
    <3>2. h - 1 \in i..Len(queue') /\ h - 1 \in 1..Len(queue') /\ h - 1 + 1 = h
      BY <2>3
    <3>3. QED
      BY <2>3, <3>1, <3>2
  <2>7. ASSUME link = "up", ~closed, announcing = {}
        PROVE  state' \in {"idle", "running"} \/ InQueue(Restoring)'
    <3>1. CASE c \in Losing
      <4>1. 1 \in 1..Len(queue)
        BY <2>3
      <4>2. QED
        BY <2>3, <2>6, <2>7, <3>1, <4>1 DEF InQueue
    <3>2. CASE c \notin Losing
      BY <2>4, <2>5, <2>7, <3>2 DEF LinkInv
    <3>3. QED
      BY <3>1, <3>2
  <2>8. ASSUME link = "up", ~closed, announcing = {},
               NEW i \in 1..Len(queue'), queue'[i].call \in Losing
        PROVE  \E h \in i + 1..Len(queue') : queue'[h].call \in Restoring
    <3>1. i + 1 \in 1..Len(queue) /\ queue[i + 1].call \in Losing
      BY <2>3, <2>8
    <3>2. QED
      BY <2>6, <2>8, <3>1
  <2>9. QED
    BY <2>2, <2>7, <2>8 DEF LinkInv
<1>5. QED
  BY <1>2, <1>3, <1>4, Steps

LEMMA PassedAppended ==
    ASSUME NEW rows \in Seq(Rows), NEW row \in Rows
    PROVE  /\ Passed(rows) \in Nat
           /\ Passed(Append(rows, row)) = IF row.ok THEN Passed(rows) + 1 ELSE Passed(rows)
<1> DEFINE P == {i \in 1..Len(rows) : rows[i].ok}
           n == Len(rows) + 1
           Q == {i \in 1..Len(Append(rows, row)) : Append(rows, row)[i].ok}
<1>1. Len(rows) \in Nat /\ n \notin P
  OBVIOUS
<1>2. IsFiniteSet(P)
  <2>1. IsFiniteSet(1..Len(rows))
    BY <1>1, FS_Interval
  <2>2. P \subseteq 1..Len(rows)
    OBVIOUS
  <2>3. QED
    BY <2>1, <2>2, FS_Subset
<1>3. Q = IF row.ok THEN P \cup {n} ELSE P
  <2>1. /\ Len(Append(rows, row)) = n
        /\ \A i \in 1..Len(rows) : Append(rows, row)[i] = rows[i]
        /\ Append(rows, row)[n] = row
    OBVIOUS
  <2>2. \A i : i \in 1..n <=> i \in 1..Len(rows) \/ i = n
    BY <1>1
  <2> HIDE DEF n
  <2>3. QED
    BY <2>1, <2>2
<1>4. Passed(rows) = Cardinality(P) /\ Passed(Append(rows, row)) = Cardinality(Q)
  BY DEF Passed
<1> HIDE DEF P, Q, n
<1>5. Cardinality(P) \in Nat
  BY <1>2, FS_CardinalityType
<1>6. Cardinality(P \cup {n}) = Cardinality(P) + 1
  BY <1>1, <1>2, FS_AddElement
<1>7. QED
  BY <1>3, <1>4, <1>5, <1>6

LEMMA TallyKept ==
    ASSUME TypeOK, ActiveInv, TallyInv, [Next]_vars
    PROVE  TallyInv'
<1>1. /\ at \in [Jobs -> Phases] /\ exit \in [Jobs -> BOOLEAN] /\ tally \in Counts
      /\ recent \in Seq(Rows) /\ ended \in Seq(Rows) /\ raced \in BOOLEAN
      /\ seen \in [Jobs -> [tally : Counts, recent : Seq(Rows)]]
  BY DEF TypeOK
<1>2. CASE \E j \in Jobs : WriteTally(j)
  <2>1. PICK j \in Jobs : WriteTally(j)
    BY <1>2
  <2> DEFINE row == [job |-> j, ok |-> exit[j]]
  <2>2. PICK counts \in {seen[j].tally, tally}, rows \in {seen[j].recent, recent} :
          tally' = Counted(counts, exit[j]) /\ recent' = Newest(row, rows)
    BY <2>1 DEF WriteTally
  <2>3. row \in Rows /\ row.ok = exit[j] /\ exit[j] \in BOOLEAN
    BY <1>1 DEF Rows
  <2>4. ended' = Append(ended, row)
    BY <2>1 DEF WriteTally
  <2>5. SUFFICES ASSUME ~raced'
                 PROVE  TallyInv'
    BY DEF TallyInv
  <2>6. ~raced /\ \A k \in Jobs \ {j} : at[k] # "tallying"
    BY <2>1, <2>5 DEF WriteTally
  <2>7. counts = tally /\ rows = recent
    <3>1. at[j] = "tallying"
      BY <2>1 DEF WriteTally, Goto
    <3>2. seen[j] = [tally |-> tally, recent |-> recent]
      BY <2>6, <3>1 DEF TallyInv
    <3>3. QED
      BY <2>2, <3>2
  <2> HIDE DEF row
  <2>8. /\ Passed(ended) \in Nat
        /\ Passed(ended') = IF exit[j] THEN Passed(ended) + 1 ELSE Passed(ended)
    BY <1>1, <2>3, <2>4, PassedAppended
  <2>9. /\ Len(ended) \in Nat /\ Len(ended') = Len(ended) + 1
        /\ \A i \in 1..Len(ended) : ended'[i] = ended[i]
        /\ ended'[Len(ended) + 1] = row
    BY <1>1, <2>3, <2>4
  <2>10. tally'.ok = Passed(ended') /\ tally'.ok + tally'.failed = Len(ended')
    <3>1. tally.ok = Passed(ended) /\ tally.ok + tally.failed = Len(ended)
      BY <2>6 DEF TallyInv
    <3>2. /\ tally'.ok = IF exit[j] THEN tally.ok + 1 ELSE tally.ok
          /\ tally'.ok + tally'.failed = tally.ok + tally.failed + 1
      BY <1>1, <2>2, <2>3, <2>7, CountedTyped
    <3>3. QED
      BY <2>8, <2>9, <3>1, <3>2
  <2>11. ASSUME NEW i \in 1..Len(ended'), i <= RecentLimit
         PROVE  i <= Len(recent') /\ recent'[i] = ended'[Len(ended') + 1 - i]
    <3>1. /\ Len(recent) \in Nat
          /\ Len(recent') = IF Len(recent) < RecentLimit THEN Len(recent) + 1
                            ELSE RecentLimit
          /\ \A k \in 1..Len(recent') : recent'[k] = IF k = 1 THEN row ELSE recent[k - 1]
      <4>1. recent' = Newest(row, recent) /\ recent \in Seq(Rows) /\ Len(recent) \in Nat
        BY <1>1, <2>2, <2>7
      <4>2. QED
        BY <2>3, <4>1, NewestTyped
    <3>2. RecentLimit \in Nat \ {0}
      BY WindowAssumption
    <3>3. CASE i = 1
      <4>1. 1 \in 1..Len(recent') /\ Len(ended') + 1 - i = Len(ended) + 1
        BY <2>9, <3>1, <3>2, <3>3
      <4>2. QED
        BY <2>9, <3>1, <3>3, <4>1
    <3>4. CASE i # 1
      <4>1. i - 1 \in 1..Len(ended) /\ i - 1 <= RecentLimit
        BY <2>9, <2>11, <3>2, <3>4
      <4>2. i - 1 <= Len(recent) /\ recent[i - 1] = ended[Len(ended) + 1 - (i - 1)]
        BY <2>6, <4>1 DEF TallyInv
      <4>3. i <= Len(recent') /\ i \in 1..Len(recent')
        BY <2>9, <2>11, <3>1, <3>2, <4>2
      <4>4. recent'[i] = recent[i - 1]
        BY <3>1, <3>4, <4>3
      <4>5. /\ Len(ended') + 1 - i = Len(ended) + 1 - (i - 1)
            /\ Len(ended) + 1 - (i - 1) \in 1..Len(ended)
        BY <2>9, <4>1
      <4>6. QED
        BY <2>9, <4>2, <4>3, <4>4, <4>5
    <3>5. QED
      BY <3>3, <3>4
  <2>12. \A k \in Jobs : at'[k] # "tallying"
    BY <1>1, <2>1, <2>6 DEF WriteTally, Goto
  <2>13. QED
    BY <2>10, <2>11, <2>12 DEF TallyInv
<1>3. CASE \E j \in Jobs : ReadTally(j)
  <2>1. PICK j \in Jobs : ReadTally(j)
    BY <1>3
  <2>2. /\ UNCHANGED <<tally, recent, ended, raced>>
        /\ \A k \in Jobs : at'[k] = "tallying" =>
             \/ seen'[k] = [tally |-> tally, recent |-> recent]
             \/ at[k] = "tallying" /\ seen'[k] = seen[k]
    BY <1>1, <2>1 DEF ReadTally, Goto, history
  <2>3. QED
    BY <2>2 DEF TallyInv, Passed
<1>4. CASE /\ UNCHANGED <<tally, recent, seen, ended, raced>>
           /\ \A k \in Jobs : at'[k] = "tallying" => at[k] = "tallying"
  BY <1>4 DEF TallyInv, Passed
<1>5. CASE Unqueued /\ ~(\E j \in Jobs : WriteTally(j)) /\ ~(\E j \in Jobs : ReadTally(j))
  BY <1>1, <1>4, <1>5
     DEF Unqueued, Register, ScriptNotFound, Unregister, StopAnswered, GoesUp, Click, vars,
         jobVars, history, Goto
<1>6. CASE Queued
  <2>1. PICK k \in Jobs \cup {NoJob} :
          /\ UNCHANGED <<tally, recent, seen, ended, raced>>
          /\ \/ UNCHANGED at
             \/ at' = [at EXCEPT ![k] = "running"]
             \/ at' = [at EXCEPT ![k] = "idle"]
             \/ at' = [at EXCEPT ![k] = "off"]
    BY <1>6, QueuedCall
  <2>2. QED
    BY <1>1, <1>4, <2>1
<1>7. CASE Showing
  BY <1>4, <1>7, Shown DEF jobVars
<1>8. QED
  BY <1>2, <1>3, <1>5, <1>6, <1>7, Steps

LEMMA StopKept ==
    ASSUME TypeOK, ActiveInv, StopInv, [Next]_vars
    PROVE  StopInv'
<1>1. /\ queue \in Seq(Entry) /\ quiet \in Jobs \cup {NoJob} /\ asked \subseteq Jobs
      /\ handler \in BOOLEAN /\ button \in BOOLEAN
  BY DEF TypeOK, Entry
<1>2. NoJob \notin Jobs
  BY WindowAssumption
<1> DEFINE Coming == \E i \in 1..Len(queue) :
                       /\ queue[i] = Closure("running", quiet)
                       /\ \A h \in i + 1..Len(queue) : queue[h].call \in Harmless
           Has    == /\ activeJobID = quiet /\ (button \/ quiet \in asked)
                     /\ \A h \in 1..Len(queue) : queue[h].call \in Harmless
<1>3. CASE Unqueued
  <2>1. UNCHANGED <<queue, handler, activeJobID, quiet>>
    BY <1>3 DEF Unqueued, Register, ReadTally, WriteTally, ScriptNotFound, Unregister,
                StopAnswered, GoesUp, Click, vars, fyneVars, history
  <2>2. activeJobID # NoJob /\ (button \/ activeJobID \in asked)
          => button' \/ activeJobID \in asked'
    <3>1. CASE Click
      BY <3>1 DEF Click
    <3>2. CASE ~Click
      <4>1. UNCHANGED <<button, asked>>
        BY <1>3, <3>2 DEF Unqueued, Register, ReadTally, WriteTally, ScriptNotFound,
                          Unregister, StopAnswered, GoesUp, vars, fyneVars, history
      <4>2. QED
        BY <4>1
    <3>3. QED
      BY <3>1, <3>2
  <2>3. QED
    BY <2>1, <2>2 DEF StopInv
<1>4. CASE Queued
  <2>1. PICK c \in Calls, k \in Jobs \cup {NoJob} :
          /\ Do(c, k)
          /\ UNCHANGED <<handler, activeJobID, button>>
          /\ \/ quiet' = NoJob
             \/ c = "running" /\ quiet' = k
             \/ c \in Harmless /\ UNCHANGED <<quiet, asked>>
    <3> USE DEF fyneVars, history, Calls, Harmless
    <3>1. CASE \E j \in Jobs : AnnounceRunning(j) \/ AnnounceComplete(j) \/ AnnounceIdle(j)
      BY <3>1 DEF AnnounceRunning, AnnounceComplete, AnnounceIdle
    <3>2. CASE \E j \in Jobs : StopAnswered(j, TRUE)
      BY <3>2 DEF StopAnswered
    <3>3. CASE \E l \in Loops : AnnounceConnected(l) \/ GoesDown(l)
      BY <3>3 DEF AnnounceConnected, GoesDown
    <3>4. CASE Close
      BY <3>4 DEF Close
    <3>5. QED
      BY <1>4, <3>1, <3>2, <3>3, <3>4 DEF Queued
  <2>2. /\ Len(queue) \in Nat /\ Len(queue') = Len(queue) + 1
        /\ \A i \in 1..Len(queue) : queue'[i] = queue[i]
        /\ queue'[Len(queue) + 1] = Closure(c, k)
    BY <1>1, <2>1, Appended
  <2>3. ~handler' => queue' # <<>> /\ queue'[1].call = "handler"
    <3>1. queue' # <<>>
      BY <2>2
    <3>2. queue # <<>> => queue'[1] = queue[1]
      BY <1>1, <2>2
    <3>3. QED
      BY <2>1, <3>1, <3>2 DEF StopInv
  <2>4. CASE quiet' = NoJob
    BY <2>3, <2>4 DEF StopInv
  <2>5. CASE c = "running" /\ quiet' = k
    <3>1. /\ Len(queue) + 1 \in 1..Len(queue')
          /\ \A h \in Len(queue) + 1 + 1..Len(queue') : queue'[h].call \in Harmless
      BY <2>2
    <3>2. QED
      BY <2>2, <2>3, <2>5, <3>1 DEF StopInv
  <2>6. CASE c \in Harmless /\ UNCHANGED <<quiet, asked>>
    <3>1. \A h \in 1..Len(queue') :
            \/ h \in 1..Len(queue) /\ queue'[h] = queue[h]
            \/ queue'[h].call \in Harmless
      BY <2>2, <2>6 DEF Closure
    <3>2. \A i \in 1..Len(queue) :
            /\ i \in 1..Len(queue')
            /\ \A h \in i + 1..Len(queue') :
                 \/ h \in i + 1..Len(queue) /\ queue'[h] = queue[h]
                 \/ queue'[h].call \in Harmless
      BY <2>2, <2>6 DEF Closure
    <3>3. Coming => Coming'
      <4>1. ASSUME NEW i \in 1..Len(queue), queue[i] = Closure("running", quiet),
                   \A h \in i + 1..Len(queue) : queue[h].call \in Harmless
            PROVE  /\ i \in 1..Len(queue') /\ queue'[i] = Closure("running", quiet')
                   /\ \A h \in i + 1..Len(queue') : queue'[h].call \in Harmless
        BY <2>2, <2>6, <3>2, <4>1
      <4>2. QED
        BY <4>1
    <3>4. Has => Has'
      BY <2>1, <2>6, <3>1
    <3>5. QED
      BY <2>3, <2>6, <3>3, <3>4 DEF StopInv
  <2>7. QED
    BY <2>1, <2>4, <2>5, <2>6
<1>5. CASE Showing
  <2>1. PICK c \in Calls : Pop(c)
    BY <1>5, Shown
  <2>2. quiet' = quiet
    BY <1>5, Shown
  <2>3. /\ Len(queue) \in Nat \ {0} /\ Len(queue') = Len(queue) - 1
        /\ Head(queue) = queue[1] /\ queue[1].call = c
        /\ \A i \in 1..Len(queue') : queue'[i] = queue[i + 1]
    BY <1>1, <2>1, Popped
  <2>4. \A d : Pop(d) => d = c
    BY <1>1, <2>1, Popped
  <2>5. handler'
    <3>1. handler \/ c = "handler"
      BY <2>3 DEF StopInv
    <3>2. CASE ShowHandler
      BY <3>2 DEF ShowHandler
    <3>3. CASE ~ShowHandler
      <4>1. c # "handler" /\ handler' = handler
        BY <1>5, <2>4, <3>3
           DEF Showing, ShowConnecting, ShowConnected, ShowDisconnected, ShowRunning,
               ShowComplete, ShowIdle, ShowStopError
      <4>2. QED
        BY <3>1, <4>1
    <3>4. QED
      BY <3>2, <3>3
  <2>6. SUFFICES ASSUME quiet # NoJob
                 PROVE  Coming' \/ Has'
    BY <2>2, <2>5 DEF StopInv
  <2>7. CASE Coming
    <3>1. PICK i \in 1..Len(queue) :
            /\ queue[i] = Closure("running", quiet)
            /\ \A h \in i + 1..Len(queue) : queue[h].call \in Harmless
      BY <2>7
    <3>2. \A h \in i..Len(queue') : h \in 1..Len(queue') /\ queue'[h].call \in Harmless
      BY <2>3, <3>1
    <3>3. CASE i # 1
      <4>1. i - 1 \in 1..Len(queue') /\ i - 1 + 1 = i
        BY <2>3, <3>3
      <4>2. queue'[i - 1] = Closure("running", quiet')
        BY <2>2, <2>3, <3>1, <4>1
      <4>3. QED
        BY <3>2, <4>1, <4>2
    <3>4. CASE i = 1
      <4>1. c = "running" /\ Head(queue).job = quiet
        BY <2>3, <3>1, <3>4 DEF Closure
      <4>2. ShowRunning
        BY <1>5, <2>4, <4>1
           DEF Showing, ShowHandler, ShowConnecting, ShowConnected, ShowDisconnected,
               ShowComplete, ShowIdle, ShowStopError
      <4>3. handler
        BY <2>5, <4>2 DEF ShowRunning
      <4>4. activeJobID' = quiet /\ button'
        BY <2>6, <4>1, <4>2, <4>3 DEF ShowRunning, RefreshButton
      <4>5. QED
        BY <2>2, <3>2, <3>4, <4>4
    <3>5. QED
      BY <3>3, <3>4
  <2>8. CASE Has
    <3>1. c \in Harmless /\ \A h \in 1..Len(queue') : queue'[h].call \in Harmless
      BY <2>3, <2>8
    <3>2. ShowConnected \/ ShowStopError
      BY <1>5, <2>4, <3>1
         DEF Showing, ShowHandler, ShowConnecting, ShowDisconnected, ShowRunning,
             ShowComplete, ShowIdle, Harmless
    <3>3. activeJobID' = quiet /\ (button' \/ quiet \in asked')
      BY <2>8, <3>2 DEF ShowConnected, ShowStopError
    <3>4. QED
      BY <2>2, <3>1, <3>3
  <2>9. QED
    BY <2>6, <2>7, <2>8 DEF StopInv
<1>6. QED
  BY <1>3, <1>4, <1>5, Steps
-----------------------------------------------------------------------------
(* The theorems *)

WindowInv ==
    /\ TypeOK
    /\ ActiveInv
    /\ FollowInv
    /\ CardsInv
    /\ TodayInv
    /\ LinkInv
    /\ TallyInv
    /\ ShownInv
    /\ StopInv

LEMMA WindowStarts ==
    ASSUME Init
    PROVE  WindowInv
<1> USE DEF Init
<1>1. TypeOK
  <2>1. /\ starts \in 0..MaxStarts /\ outages \in 0..MaxOutages /\ clicks \in 0..MaxClicks
        /\ Len(recent) <= RecentLimit
    BY WindowAssumption
  <2>2. queue \in Seq([call : Calls, job : Jobs \cup {NoJob}])
    BY DEF Closure, Calls
  <2>3. /\ seen \in [Jobs -> [tally : Counts, recent : Seq(Rows)]]
        /\ tally \in Counts /\ recent \in Seq(Rows) /\ ended \in Seq(Rows)
        /\ shown \in [cards : SUBSET Jobs, section : BOOLEAN, today : Nat,
                      tally : Counts, recent : Seq(Rows)]
    BY DEF Nothing, NoCounts, Counts
  <2>4. QED
    BY <2>1, <2>2, <2>3 DEF TypeOK, Phases
<1>2. ActiveInv /\ CardsInv /\ TodayInv /\ ShownInv /\ LinkInv
  BY DEF ActiveInv, CardsInv, TodayInv, ShownInv, LinkInv, Badge
<1>3. /\ Len(queue) = 2 /\ queue[1] = Closure("handler", NoJob)
      /\ queue[2] = Closure("connecting", NoJob)
  OBVIOUS
<1>4. FollowInv
  <2>1. \A i \in 1..2 : queue[i].call # "running"
    BY <1>3 DEF Closure
  <2>2. QED
    BY <1>3, <2>1 DEF FollowInv
<1>5. TallyInv
  <2>1. Passed(<<>>) = 0
    <3>1. {i \in 1..Len(<<>>) : <<>>[i].ok} = {}
      OBVIOUS
    <3>2. QED
      BY <3>1, FS_EmptySet DEF Passed
  <2>2. QED
    BY <2>1 DEF TallyInv, NoCounts
<1>6. StopInv
  BY <1>3 DEF StopInv, Closure
<1>7. QED
  BY <1>1, <1>2, <1>4, <1>5, <1>6 DEF WindowInv

LEMMA WindowHolds == Spec => []WindowInv
<1>1. ASSUME WindowInv, [Next]_vars
      PROVE  WindowInv'
  BY <1>1, TypesKept, ActiveKept, FollowKept, CardsKept, TodayKept, LinkKept, TallyKept,
     ShownKept, StopKept DEF WindowInv
<1>2. QED
  BY <1>1, WindowStarts, PTL DEF Spec

\* Every field, closure and displayed count has the type the model gives it, and
\* the history never grows over its limit.
THEOREM WindowTypeOK == Spec => []TypeOK
<1>1. WindowInv => TypeOK
  BY DEF WindowInv
<1>2. QED
  BY <1>1, WindowHolds, PTL

\* Once nobody is in the middle of a call and every closure has run, the window
\* shows the truth, whatever the interleaving was (SettledWindow).
THEOREM WindowSettles == Spec => []SettledWindow
<1>1. ASSUME WindowInv, Settled
      PROVE  /\ shown.cards = {j \in Jobs : at[j] = "running"}
             /\ shown.section <=> shown.cards # {}
             /\ link = "up" /\ ~closed => state \in {"idle", "running"}
             /\ state = "idle" => shown.cards = {}
             /\ state = "running" => shown.cards # {}
             /\ activeJobID # NoJob => activeJobID \in shown.cards
             /\ shown.today = today
             /\ ~raced =>
                  /\ shown.tally.ok = Passed(ended)
                  /\ shown.tally.ok + shown.tally.failed = Len(ended)
                  /\ \A i \in 1..Len(ended) :
                       i <= RecentLimit => shown.recent[i] = ended[Len(ended) + 1 - i]
  <2>1. /\ queue = <<>> /\ announcing = {}
        /\ \A j \in Jobs : at[j] \in {"off", "running"}
    BY <1>1 DEF Settled
  <2>2. \A S : ~InQueue(S)
    BY <2>1 DEF InQueue
  <2>3. ~Pending
    BY <2>1, <2>2 DEF Pending, Ending
  <2>4. activeJobs = {j \in Jobs : at[j] = "running"}
    BY <1>1, <2>1 DEF WindowInv, ActiveInv
  <2>5. /\ shown.cards = activeJobs
        /\ shown.section <=> activeJobs # {}
        /\ state \in {"idle", "running"} => state = Badge
        /\ activeJobID # NoJob => activeJobID \in activeJobs
    BY <1>1, <2>3 DEF WindowInv, CardsInv
  <2>6. state \in {"idle", "running"} => (state = "idle" <=> activeJobs = {})
    BY <2>5 DEF Badge
  <2>7. link = "up" /\ ~closed => state \in {"idle", "running"}
    BY <1>1, <2>1, <2>2 DEF WindowInv, LinkInv
  <2>8. shown.today = today
    BY <1>1, <2>1, <2>2 DEF WindowInv, TodayInv
  <2>9. shown.tally = tally /\ shown.recent = recent
    BY <1>1, <2>1, <2>2 DEF WindowInv, ShownInv
  <2>10. ~raced =>
           /\ tally.ok = Passed(ended) /\ tally.ok + tally.failed = Len(ended)
           /\ \A i \in 1..Len(ended) :
                i <= RecentLimit => recent[i] = ended[Len(ended) + 1 - i]
    BY <1>1 DEF WindowInv, TallyInv
  <2>11. QED
    BY <2>4, <2>5, <2>6, <2>7, <2>8, <2>9, <2>10
<1>2. WindowInv => SettledWindow
  BY <1>1 DEF SettledWindow
<1>3. QED
  BY <1>2, WindowHolds, PTL

\* The job that started last can be stopped, or has been asked to stop, as long
\* as no other job ends and the connection is not lost (LoneJobCanBeStopped).
THEOREM LoneJobStoppable == Spec => []LoneJobCanBeStopped
<1>1. ASSUME WindowInv, Settled, quiet # NoJob
      PROVE  activeJobID = quiet /\ (button \/ quiet \in asked)
  <2>1. Len(queue) = 0
    BY <1>1 DEF Settled
  <2>2. QED
    BY <1>1, <2>1 DEF WindowInv, StopInv
<1>2. WindowInv => LoneJobCanBeStopped
  BY <1>1 DEF LoneJobCanBeStopped
<1>3. QED
  BY <1>2, WindowHolds, PTL
=============================================================================
