-------------------------- MODULE LocalStateProofs --------------------------
(***************************************************************************)
(* Proofs about LocalState: the library (for any number of goroutines and  *)
(* texts), then the registration and the settings (for any number of       *)
(* processes and registrations), whatever goes wrong and however often.    *)
(***************************************************************************)
EXTENDS LocalState, TLAPS

-----------------------------------------------------------------------------
(* The script *)

Saving  == {"saveOpen", "saveWrite", "saveMeta"}
Writers == {w \in Workers : work[w].at \in {"write", "saveWrite"}}

\* No text on its way is newer than the last that was saved, and none is empty.
TextInv ==
    /\ server <= newest
    /\ \A push \in pushes : push[2] <= newest
    /\ \A w \in Workers :
         /\ work[w].at \in {"stat", "fetch"} => server # 0
         /\ work[w].at \in {"open", "write"} \cup Saving => work[w].text \in 1..newest

\* As long as writes do not overlap, only a writer at work (or one cut short)
\* leaves the file without a text.
FileInv ==
    L!None({"overlap"}) =>
        /\ script.text # L!Garbled
        /\ \A w \in Writers : script.text = L!Empty /\ Writers = {w}
        /\ script.there /\ script.text = L!Empty
             => Writers # {} \/ "halfWritten" \in mishaps

\* The last text is on its way to the platform, or there.
ServerInv ==
    L!None({"notPushed", "reordered"}) =>
        \/ server = newest
        \/ \E w \in Workers : work[w].at \in Saving /\ work[w].text = newest
        \/ \E push \in pushes : push[2] = newest

\* A file that is not behind has the platform's text, or something is under way
\* that will change it or put it behind.
CurrentInv ==
    script.there /\ ~behind /\ server # 0
      /\ L!None({"overtaken", "overlap", "halfWritten", "notPushed"}) =>
        \/ script.text = server
        \/ pushes # {}
        \/ \E w \in Workers : work[w].at \in {"write"} \cup Saving

\* The description is of the file's text, or a writer is at work.
MetaInv ==
    script.there /\ meta # 0
      /\ L!None({"pulled", "metaRaced", "halfWritten", "notPushed"}) =>
        \/ meta = script.text
        \/ \E w \in Workers : work[w].at \in {"write", "saveWrite", "saveMeta"}

\* A job ran half a text only after another mishap.
RanInv ==
    "ranHalf" \in mishaps => ~L!None({"readEarly", "overlap", "halfWritten"})

LibraryInv ==
    L!LibraryTypeOK /\ TextInv /\ FileInv /\ ServerInv /\ CurrentInv /\ MetaInv /\ RanInv

\* What the library does in a step.
LibraryMoves ==
    \/ \E w \in Workers :
         \/ L!SyncList(w) \/ L!SyncStat(w) \/ L!SyncFetch(w) \/ L!SyncOpen(w) \/ L!SyncWrite(w)
         \/ L!SaveScript(w) \/ L!SaveOpen(w) \/ L!SaveWrite(w) \/ L!SaveMeta(w)
         \/ L!LoadScript(w) \/ L!ReadMeta(w) \/ L!WriteMeta(w)
    \/ \E push \in pushes : L!PushArrives(push) \/ L!PushFails(push)
    \/ L!RemoteSave \/ L!RemoveScripts
    \/ \E W \in SUBSET Workers, lost \in SUBSET pushes : L!Interrupt(W, lost)
    \/ UNCHANGED libVars

LEMMA LibrarySteps ==
    ASSUME [Next]_vars
    PROVE  LibraryMoves
<1>1. CASE LocalStep \/ UNCHANGED vars
  BY <1>1 DEF LocalStep, vars, LibraryMoves
<1>2. CASE LibraryStep
  <2>1. CASE \E w \in Workers : L!WriteFails(w)
    <3>1. \E w \in Workers : L!Interrupt({w}, {})
      BY <2>1 DEF L!WriteFails
    <3>2. \A w \in Workers : {w} \in SUBSET Workers /\ {} \in SUBSET pushes
      OBVIOUS
    <3>3. QED
      BY <3>1, <3>2 DEF LibraryMoves
  <2>2. CASE ~\E w \in Workers : L!WriteFails(w)
    BY <1>2, <2>2 DEF LibraryStep, LibraryMoves, L!WorkerStep, L!WorkerStarts
  <2>3. QED
    BY <2>1, <2>2
<1>3. CASE \E p \in Procs : ResetsScripts(p)
  BY <1>3 DEF ResetsScripts, LibraryMoves
<1>4. CASE \E p \in Procs : ProcessEnds(p)
  <2>1. PICK p \in Procs :
          L!Interrupt(WorkersOf(p), {push \in pushes : push[1] \in WorkersOf(p)})
    BY <1>4 DEF ProcessEnds
  <2>2. /\ WorkersOf(p) \in SUBSET Workers
        /\ {push \in pushes : push[1] \in WorkersOf(p)} \in SUBSET pushes
    BY DEF WorkersOf
  <2>3. QED
    BY <2>1, <2>2 DEF LibraryMoves
<1>5. QED
  BY <1>1, <1>2, <1>3, <1>4 DEF Next

-----------------------------------------------------------------------------
-----------------------------------------------------------------------------
(* Its types *)

\* What the write of one worker does to the workers.
LEMMA AfterTouched ==
    ASSUME L!LibraryTypeOK, NEW w \in Workers, NEW stage \in L!Stages,
           L!AfterTouch(w, [work[w] EXCEPT !.at = stage])
    PROVE  /\ work' \in [Workers -> [at : L!Stages, text : 0..MaxText, older : BOOLEAN]]
           /\ \A v \in Workers : /\ work'[v].at = IF v = w THEN stage ELSE work[v].at
                                 /\ work'[v].text = work[v].text
BY DEF L!AfterTouch, L!LibraryTypeOK

LEMMA AfterTouchedIdle ==
    ASSUME L!LibraryTypeOK, NEW w \in Workers, L!AfterTouch(w, L!Idle)
    PROVE  /\ work' \in [Workers -> [at : L!Stages, text : 0..MaxText, older : BOOLEAN]]
           /\ \A v \in Workers : /\ work'[v].at = IF v = w THEN "idle" ELSE work[v].at
                                 /\ work'[v].text = IF v = w THEN 0 ELSE work[v].text
<1>1. L!Idle \in [at : L!Stages, text : 0..MaxText, older : BOOLEAN]
  BY LocalStateAssumption DEF L!Idle, L!Stages, L!Empty
<1>2. QED
  BY <1>1 DEF L!AfterTouch, L!LibraryTypeOK, L!Idle, L!Empty

\* A write at offset 0 leaves the text, or parts of two.
LEMMA Overlaid ==
    ASSUME NEW text
    PROVE  /\ L!Overlay(text) \subseteq {text, L!Garbled}
           /\ script.text = L!Empty => L!Overlay(text) = {text}
BY DEF L!Overlay

Doing == [at : L!Stages, text : 0..MaxText, older : BOOLEAN]

LEMMA LibraryTyped ==
    ASSUME L!LibraryTypeOK, TextInv, LibraryMoves
    PROVE  L!LibraryTypeOK'
<1>1. /\ script \in [there : BOOLEAN, text : 0..L!Garbled] /\ behind \in BOOLEAN
      /\ meta \in 0..MaxText /\ server \in 0..MaxText /\ newest \in 0..MaxText
      /\ pushes \subseteq Workers \X (1..MaxText)
      /\ work \in [Workers -> Doing] /\ mishaps \subseteq L!Mishaps
  BY DEF L!LibraryTypeOK, Doing
<1>2. MaxText \in Nat /\ L!Garbled = MaxText + 1 /\ L!Empty = 0
  BY LocalStateAssumption DEF L!Garbled, L!Empty
<1>3. L!Idle \in Doing
  BY <1>2 DEF L!Idle, Doing, L!Stages
<1>4. ASSUME script' \in [there : BOOLEAN, text : 0..L!Garbled], behind' \in BOOLEAN,
             meta' \in 0..MaxText, server' \in 0..MaxText, newest' \in 0..MaxText,
             pushes' \subseteq Workers \X (1..MaxText),
             work' \in [Workers -> Doing], mishaps' \subseteq L!Mishaps
      PROVE  L!LibraryTypeOK'
  BY <1>2, <1>4 DEF L!LibraryTypeOK, Doing, L!Garbled
<1>5. CASE \E w \in Workers : L!SyncList(w) \/ L!SyncStat(w) \/ L!SyncFetch(w) \/ L!ReadMeta(w)
  <2>1. PICK w \in Workers : L!SyncList(w) \/ L!SyncStat(w) \/ L!SyncFetch(w) \/ L!ReadMeta(w)
    BY <1>5
  <2>2. work' \in [Workers -> Doing]
    <3>1. PICK x \in Doing : work' = [work EXCEPT ![w] = x]
      <4>1. CASE L!SyncList(w)
        BY <1>1, <1>3, <4>1 DEF L!SyncList, Doing, L!Stages
      <4>2. CASE L!SyncStat(w)
        BY <1>1, <1>3, <4>2 DEF L!SyncStat, Doing, L!Stages
      <4>3. CASE L!SyncFetch(w)
        <5>1. CASE work' = [work EXCEPT ![w] = L!Idle]
          BY <1>3, <5>1
        <5>2. CASE work' = [work EXCEPT ![w].at = "open", ![w].text = server]
          BY <1>1, <5>2 DEF Doing, L!Stages
        <5>3. QED
          BY <4>3, <5>1, <5>2 DEF L!SyncFetch
      <4>4. CASE L!ReadMeta(w)
        BY <1>1, <1>3, <4>4 DEF L!ReadMeta, L!Idle, Doing, L!Stages
      <4>5. QED
        BY <2>1, <4>1, <4>2, <4>3, <4>4
    <3>2. QED
      BY <1>1, <3>1
  <2>3. UNCHANGED <<script, behind, meta, server, newest, pushes, mishaps>>
    BY <2>1 DEF L!SyncList, L!SyncStat, L!SyncFetch, L!ReadMeta
  <2>4. QED
    BY <1>1, <1>4, <2>2, <2>3
<1>6. CASE \E w \in Workers : L!SaveScript(w)
  <2>1. /\ newest < MaxText /\ newest' = newest + 1
        /\ UNCHANGED <<script, behind, meta, server, pushes, mishaps>>
    BY <1>6 DEF L!SaveScript
  <2>2. newest' \in 0..MaxText
    BY <1>1, <1>2, <2>1
  <2>3. work' \in [Workers -> Doing]
    <3>1. PICK w \in Workers :
            work' = [work EXCEPT ![w] = [L!Idle EXCEPT !.at = "saveOpen", !.text = newest']]
      BY <1>6 DEF L!SaveScript
    <3>2. [L!Idle EXCEPT !.at = "saveOpen", !.text = newest'] \in Doing
      BY <1>3, <2>2 DEF Doing, L!Stages
    <3>3. QED
      BY <1>1, <3>1, <3>2
  <2>4. QED
    BY <1>1, <1>4, <2>1, <2>2, <2>3
<1>7. CASE \E w \in Workers : L!LoadScript(w)
  <2>1. work' \in [Workers -> Doing]
    <3>1. PICK w \in Workers : work' = [work EXCEPT ![w] = [L!Idle EXCEPT !.at = "readMeta"]]
      BY <1>7 DEF L!LoadScript
    <3>2. [L!Idle EXCEPT !.at = "readMeta"] \in Doing
      BY <1>3 DEF Doing, L!Stages
    <3>3. QED
      BY <1>1, <3>1, <3>2
  <2>2. mishaps' \subseteq L!Mishaps
    BY <1>1, <1>7 DEF L!LoadScript, L!Note, L!Mishaps
  <2>3. UNCHANGED <<script, behind, meta, server, newest, pushes>>
    BY <1>7 DEF L!LoadScript
  <2>4. QED
    BY <1>1, <1>4, <2>1, <2>2, <2>3
<1>8. CASE \E w \in Workers : L!SyncOpen(w) \/ L!SaveOpen(w)
  <2>1. PICK w \in Workers : L!SyncOpen(w) \/ L!SaveOpen(w)
    BY <1>8
  <2>2. work' \in [Workers -> Doing]
    BY <2>1, AfterTouched DEF L!SyncOpen, L!SaveOpen, L!Stages, Doing
  <2>3. mishaps' \subseteq L!Mishaps
    BY <1>1, <2>1 DEF L!SyncOpen, L!SaveOpen, L!Note, L!Mishaps
  <2>4. script' \in [there : BOOLEAN, text : 0..L!Garbled] /\ behind' \in BOOLEAN
    <3>1. L!Touch(L!Empty)
      BY <2>1 DEF L!SyncOpen, L!SaveOpen
    <3>2. L!Empty \in 0..L!Garbled
      BY <1>2
    <3>3. QED
      BY <3>1, <3>2 DEF L!Touch
  <2>5. UNCHANGED <<meta, server, newest, pushes>>
    BY <2>1 DEF L!SyncOpen, L!SaveOpen
  <2>6. QED
    BY <1>1, <1>4, <2>2, <2>3, <2>4, <2>5
<1>9. CASE \E w \in Workers : L!SyncWrite(w) \/ L!SaveWrite(w)
  <2>1. PICK w \in Workers : L!SyncWrite(w) \/ L!SaveWrite(w)
    BY <1>9
  <2>2. work' \in [Workers -> Doing]
    BY <2>1, AfterTouched, AfterTouchedIdle DEF L!SyncWrite, L!SaveWrite, L!Stages, Doing
  <2>3. mishaps' \subseteq L!Mishaps
    BY <1>1, <2>1 DEF L!SyncWrite, L!SaveWrite, L!Note, L!Mishaps
  <2>4. script' \in [there : BOOLEAN, text : 0..L!Garbled] /\ behind' \in BOOLEAN
    <3>1. PICK t \in L!Overlay(work[w].text) : L!Touch(t)
      BY <2>1 DEF L!SyncWrite, L!SaveWrite
    <3>2. t \in 0..L!Garbled
      <4>1. t \in {work[w].text, L!Garbled}
        BY <3>1, Overlaid
      <4>2. work[w].text \in 0..MaxText
        BY <1>1 DEF Doing
      <4>3. QED
        BY <1>2, <4>1, <4>2
    <3>3. QED
      BY <3>1, <3>2 DEF L!Touch
  <2>5. UNCHANGED <<meta, server, newest, pushes>>
    BY <2>1 DEF L!SyncWrite, L!SaveWrite
  <2>6. QED
    BY <1>1, <1>4, <2>2, <2>3, <2>4, <2>5
<1>10. CASE \E w \in Workers : L!SaveMeta(w) \/ L!WriteMeta(w)
  <2>1. PICK w \in Workers : L!SaveMeta(w) \/ L!WriteMeta(w)
    BY <1>10
  <2>2. work' \in [Workers -> Doing] /\ meta' \in 0..MaxText
    BY <1>1, <1>3, <2>1 DEF L!SaveMeta, L!WriteMeta, Doing
  <2>3. mishaps' \subseteq L!Mishaps
    BY <1>1, <2>1 DEF L!SaveMeta, L!WriteMeta, L!Note, L!Mishaps
  <2>4. pushes' \subseteq Workers \X (1..MaxText)
    <3>1. CASE L!SaveMeta(w)
      <4>1. pushes' \subseteq pushes \cup {<<w, work[w].text>>}
        BY <3>1 DEF L!SaveMeta
      <4>2. work[w].text \in 1..newest
        BY <3>1 DEF L!SaveMeta, TextInv, Saving
      <4>3. work[w].text \in 1..MaxText
        BY <1>1, <1>2, <4>2
      <4>4. QED
        BY <1>1, <4>1, <4>3
    <3>2. CASE L!WriteMeta(w)
      BY <1>1, <3>2 DEF L!WriteMeta
    <3>3. QED
      BY <2>1, <3>1, <3>2
  <2>5. UNCHANGED <<script, behind, server, newest>>
    BY <2>1 DEF L!SaveMeta, L!WriteMeta
  <2>6. QED
    BY <1>1, <1>4, <2>2, <2>3, <2>4, <2>5
<1>11. CASE \E push \in pushes : L!PushArrives(push) \/ L!PushFails(push)
  <2>1. PICK push \in pushes : L!PushArrives(push) \/ L!PushFails(push)
    BY <1>11
  <2>2. push[2] \in 1..MaxText
    BY <1>1
  <2>3. mishaps' \subseteq L!Mishaps
    BY <1>1, <2>1 DEF L!PushArrives, L!PushFails, L!Note, L!Mishaps
  <2>4. server' \in {server, push[2]} /\ behind' \in {behind, TRUE} /\ pushes' \subseteq pushes
    BY <2>1 DEF L!PushArrives, L!PushFails
  <2>5. server' \in 0..MaxText
    BY <1>2, <1>1, <2>2, <2>4
  <2>6. UNCHANGED <<script, meta, newest, work>>
    BY <2>1 DEF L!PushArrives, L!PushFails
  <2>7. QED
    BY <1>1, <1>4, <2>3, <2>4, <2>5, <2>6
<1>12. CASE L!RemoteSave
  <2>1. /\ newest < MaxText /\ newest' = newest + 1 /\ server' = newest' /\ behind' = TRUE
        /\ UNCHANGED <<script, meta, pushes, work, mishaps>>
    BY <1>12 DEF L!RemoteSave
  <2>2. newest' \in 0..MaxText
    BY <1>1, <1>2, <2>1
  <2>3. QED
    BY <1>1, <1>4, <2>1, <2>2
<1>13. CASE L!RemoveScripts
  BY <1>1, <1>2, <1>4, <1>13 DEF L!RemoveScripts
<1>14. CASE \E W \in SUBSET Workers, lost \in SUBSET pushes : L!Interrupt(W, lost)
  <2>1. mishaps' \subseteq L!Mishaps
    BY <1>1, <1>14 DEF L!Interrupt, L!Note, L!Mishaps
  <2>2. work' \in [Workers -> Doing] /\ pushes' \subseteq pushes
    BY <1>1, <1>3, <1>14 DEF L!Interrupt
  <2>3. QED
    BY <1>1, <1>4, <1>14, <2>1, <2>2 DEF L!Interrupt
<1>15. CASE UNCHANGED libVars
  BY <1>1, <1>4, <1>15 DEF libVars
<1>16. QED
  BY <1>5, <1>6, <1>7, <1>8, <1>9, <1>10, <1>11, <1>12, <1>13, <1>14, <1>15 DEF LibraryMoves
-----------------------------------------------------------------------------
(* Its invariants *)

\* w goes from one stage to another, and no other worker does.
Moves(w, from, to) ==
    /\ work[w].at = from
    /\ \A v \in Workers : /\ work'[v].at = IF v = w THEN to ELSE work[v].at
                          /\ v # w => work'[v].text = work[v].text

LEMMA Moved ==
    ASSUME L!LibraryTypeOK, NEW w \in Workers
    PROVE  /\ L!SyncList(w) => Moves(w, "idle", "stat")
           /\ L!SyncStat(w) => Moves(w, "stat", "fetch") \/ Moves(w, "stat", "idle")
           /\ L!SyncFetch(w) => \/ Moves(w, "fetch", "open") /\ work'[w].text = server
                                \/ Moves(w, "fetch", "idle")
           /\ L!SyncOpen(w) => Moves(w, "open", "write") /\ work'[w].text = work[w].text
           /\ L!SyncWrite(w) => Moves(w, "write", "idle")
           /\ L!SaveScript(w) => Moves(w, "idle", "saveOpen") /\ work'[w].text = newest'
           /\ L!SaveOpen(w) => Moves(w, "saveOpen", "saveWrite") /\ work'[w].text = work[w].text
           /\ L!SaveWrite(w) => Moves(w, "saveWrite", "saveMeta") /\ work'[w].text = work[w].text
           /\ L!SaveMeta(w) => Moves(w, "saveMeta", "idle")
           /\ L!LoadScript(w) => Moves(w, "idle", "readMeta")
           /\ L!ReadMeta(w) => Moves(w, "readMeta", "idle") \/ Moves(w, "readMeta", "writeMeta")
           /\ L!WriteMeta(w) => Moves(w, "writeMeta", "idle")
<1>1. work \in [Workers -> Doing]
  BY DEF L!LibraryTypeOK, Doing
<1>2. {"write", "saveWrite", "saveMeta"} \subseteq L!Stages
  BY DEF L!Stages
<1> USE DEF Moves
<1>3. L!SyncList(w) => Moves(w, "idle", "stat")
  BY <1>1 DEF L!SyncList, L!Idle, Doing
<1>4. L!SyncStat(w) => Moves(w, "stat", "fetch") \/ Moves(w, "stat", "idle")
  BY <1>1 DEF L!SyncStat, L!Idle, Doing
<1>5. L!SyncFetch(w) => \/ Moves(w, "fetch", "open") /\ work'[w].text = server
                        \/ Moves(w, "fetch", "idle")
  BY <1>1 DEF L!SyncFetch, L!Idle, Doing
<1>6. L!SyncOpen(w) => Moves(w, "open", "write") /\ work'[w].text = work[w].text
  BY <1>2, AfterTouched DEF L!SyncOpen
<1>7. L!SyncWrite(w) => Moves(w, "write", "idle")
  BY AfterTouchedIdle DEF L!SyncWrite
<1>8. L!SaveScript(w) => Moves(w, "idle", "saveOpen") /\ work'[w].text = newest'
  BY <1>1 DEF L!SaveScript, L!Idle, Doing
<1>9. L!SaveOpen(w) => Moves(w, "saveOpen", "saveWrite") /\ work'[w].text = work[w].text
  BY <1>2, AfterTouched DEF L!SaveOpen
<1>10. L!SaveWrite(w) => Moves(w, "saveWrite", "saveMeta") /\ work'[w].text = work[w].text
  BY <1>2, AfterTouched DEF L!SaveWrite
<1>11. L!SaveMeta(w) => Moves(w, "saveMeta", "idle")
  BY <1>1 DEF L!SaveMeta, L!Idle, Doing
<1>12. L!LoadScript(w) => Moves(w, "idle", "readMeta")
  BY <1>1 DEF L!LoadScript, L!Idle, Doing
<1>13. L!ReadMeta(w) => Moves(w, "readMeta", "idle") \/ Moves(w, "readMeta", "writeMeta")
  BY <1>1 DEF L!ReadMeta, L!Idle, Doing
<1>14. L!WriteMeta(w) => Moves(w, "writeMeta", "idle")
  BY <1>1 DEF L!WriteMeta, L!Idle, Doing
<1>15. QED
  BY <1>3, <1>4, <1>5, <1>6, <1>7, <1>8, <1>9, <1>10, <1>11, <1>12, <1>13, <1>14

LEMMA Interrupted ==
    ASSUME NEW W \in SUBSET Workers, NEW lost \in SUBSET pushes, L!Interrupt(W, lost)
    PROVE  /\ \A v \in Workers : /\ work'[v].at = IF v \in W THEN "idle" ELSE work[v].at
                                 /\ v \notin W => work'[v] = work[v]
           /\ pushes' = pushes \ lost /\ mishaps \subseteq mishaps'
           /\ UNCHANGED <<script, behind, meta, server, newest>>
           /\ \A v \in W : /\ work[v].at \in {"write", "saveWrite"} => "halfWritten" \in mishaps'
                           /\ work[v].at \in Saving => "notPushed" \in mishaps'
           /\ lost # {} => "notPushed" \in mishaps'
BY DEF L!Interrupt, L!Note, L!Idle, Saving

LEMMA TextKept ==
    ASSUME L!LibraryTypeOK, TextInv, LibraryMoves
    PROVE  TextInv'
<1>1. /\ server \in Nat /\ newest \in Nat
      /\ pushes \subseteq Workers \X (1..MaxText)
  BY LocalStateAssumption DEF L!LibraryTypeOK
<1>2. TextInv
  OBVIOUS
<1> USE DEF TextInv, Saving
<1>3. CASE \E w \in Workers : L!SyncList(w) \/ L!SyncStat(w) \/ L!SyncFetch(w) \/ L!ReadMeta(w)
  <2>1. PICK w \in Workers : L!SyncList(w) \/ L!SyncStat(w) \/ L!SyncFetch(w) \/ L!ReadMeta(w)
    BY <1>3
  <2>2. UNCHANGED <<server, newest, pushes>> /\ (L!SyncList(w) => server # 0)
    BY <2>1 DEF L!SyncList, L!SyncStat, L!SyncFetch, L!ReadMeta
  <2>3. QED
    BY <1>1, <2>1, <2>2, Moved DEF Moves
<1>4. CASE \E w \in Workers : L!LoadScript(w) \/ L!SyncOpen(w) \/ L!SyncWrite(w)
                              \/ L!SaveOpen(w) \/ L!SaveWrite(w) \/ L!WriteMeta(w)
  <2>1. PICK w \in Workers : L!LoadScript(w) \/ L!SyncOpen(w) \/ L!SyncWrite(w)
                              \/ L!SaveOpen(w) \/ L!SaveWrite(w) \/ L!WriteMeta(w)
    BY <1>4
  <2>2. UNCHANGED <<server, newest, pushes>>
    BY <2>1 DEF L!LoadScript, L!SyncOpen, L!SyncWrite, L!SaveOpen, L!SaveWrite, L!WriteMeta
  <2>3. QED
    BY <1>1, <2>1, <2>2, Moved DEF Moves
<1>5. CASE \E w \in Workers : L!SaveScript(w)
  <2>1. PICK w \in Workers : L!SaveScript(w)
    BY <1>5
  <2>2. newest' = newest + 1 /\ UNCHANGED <<server, pushes>>
    BY <2>1 DEF L!SaveScript
  <2>3. QED
    BY <1>1, <2>1, <2>2, Moved DEF Moves
<1>6. CASE \E w \in Workers : L!SaveMeta(w)
  <2>1. PICK w \in Workers : L!SaveMeta(w)
    BY <1>6
  <2>2. /\ UNCHANGED <<server, newest>> /\ pushes' \subseteq pushes \cup {<<w, work[w].text>>}
        /\ work[w].text \in 1..newest
    BY <2>1 DEF L!SaveMeta
  <2>3. QED
    BY <1>1, <2>1, <2>2, Moved DEF Moves
<1>7. CASE \E push \in pushes : L!PushArrives(push) \/ L!PushFails(push)
  <2>1. PICK push \in pushes : L!PushArrives(push) \/ L!PushFails(push)
    BY <1>7
  <2>2. /\ UNCHANGED <<newest, work>> /\ pushes' \subseteq pushes
        /\ server' \in {server, push[2]}
    BY <2>1 DEF L!PushArrives, L!PushFails
  <2>3. push[2] # 0 /\ push[2] <= newest
    BY <1>1
  <2>4. QED
    BY <1>1, <2>2, <2>3
<1>8. CASE L!RemoteSave
  <2>1. newest' = newest + 1 /\ server' = newest + 1 /\ UNCHANGED <<pushes, work>>
    BY <1>8 DEF L!RemoteSave
  <2>2. \A push \in pushes : push[2] \in Nat
    BY <1>1
  <2>3. \A push \in pushes : push[2] <= newest'
    BY <1>1, <1>2, <2>1, <2>2
  <2>4. QED
    BY <1>1, <2>1, <2>3
<1>9. CASE L!RemoveScripts
  BY <1>9 DEF L!RemoveScripts
<1>10. CASE \E W \in SUBSET Workers, lost \in SUBSET pushes : L!Interrupt(W, lost)
  <2>1. PICK W \in SUBSET Workers, lost \in SUBSET pushes : L!Interrupt(W, lost)
    BY <1>10
  <2>2. /\ \A v \in Workers : /\ work'[v].at = IF v \in W THEN "idle" ELSE work[v].at
                              /\ v \notin W => work'[v] = work[v]
        /\ pushes' = pushes \ lost /\ UNCHANGED <<server, newest>>
    BY <2>1, Interrupted
  <2>3. QED
    BY <2>2
<1>11. CASE UNCHANGED libVars
  BY <1>11 DEF libVars
<1>12. QED
  BY <1>3, <1>4, <1>5, <1>6, <1>7, <1>8, <1>9, <1>10, <1>11 DEF LibraryMoves

LEMMA MishapsGrow ==
    ASSUME LibraryMoves
    PROVE  mishaps \subseteq mishaps'
BY DEF LibraryMoves, L!SyncList, L!SyncStat, L!SyncFetch, L!SyncOpen, L!SyncWrite, L!SaveScript,
       L!SaveOpen, L!SaveWrite, L!SaveMeta, L!LoadScript, L!ReadMeta, L!WriteMeta,
       L!PushArrives, L!PushFails, L!RemoteSave, L!RemoveScripts, L!Interrupt, L!Note, libVars

\* The file is written, or is as it was.
LEMMA Written ==
    ASSUME L!LibraryTypeOK, TextInv, NEW w \in Workers,
           work[w].at \in {"write", "saveWrite"},
           NEW t \in L!Overlay(work[w].text), L!Touch(t)
    PROVE  /\ script'.there /\ script'.text = t /\ behind' = FALSE
           /\ work[w].text \notin {L!Empty, L!Garbled}
           /\ script.text = L!Empty => t = work[w].text
<1>1. work[w].text \in 1..newest /\ newest \in 0..MaxText /\ MaxText \in Nat
  BY LocalStateAssumption DEF TextInv, L!LibraryTypeOK, Saving
<1>2. work[w].text \notin {L!Empty, L!Garbled}
  BY <1>1 DEF L!Empty, L!Garbled
<1>3. script.text = L!Empty => t = work[w].text
  BY Overlaid
<1>4. QED
  BY <1>2, <1>3 DEF L!Touch

LEMMA FileKept ==
    ASSUME L!LibraryTypeOK, TextInv, FileInv, LibraryMoves
    PROVE  FileInv'
<1>1. mishaps \subseteq mishaps'
  BY MishapsGrow
<1>2. FileInv /\ L!Garbled # L!Empty
  BY LocalStateAssumption DEF L!Garbled, L!Empty
<1>3. ASSUME script' = script, Writers' = Writers
      PROVE  FileInv'
  BY <1>1, <1>2, <1>3 DEF FileInv, L!None
<1>4. CASE \E w \in Workers : L!SyncList(w) \/ L!SyncStat(w) \/ L!SyncFetch(w)
                              \/ L!SaveScript(w) \/ L!SaveMeta(w)
                              \/ L!LoadScript(w) \/ L!ReadMeta(w) \/ L!WriteMeta(w)
  <2>1. PICK w \in Workers : L!SyncList(w) \/ L!SyncStat(w) \/ L!SyncFetch(w)
                              \/ L!SaveScript(w) \/ L!SaveMeta(w)
                              \/ L!LoadScript(w) \/ L!ReadMeta(w) \/ L!WriteMeta(w)
    BY <1>4
  <2>2. Writers' = Writers
    BY <2>1, Moved DEF Moves, Writers
  <2>3. script' = script
    BY <2>1 DEF L!SyncList, L!SyncStat, L!SyncFetch, L!SaveScript, L!SaveMeta, L!LoadScript,
                L!ReadMeta, L!WriteMeta
  <2>4. QED
    BY <1>3, <2>2, <2>3
<1>5. CASE \E w \in Workers : L!SyncOpen(w) \/ L!SaveOpen(w)
  <2>1. PICK w \in Workers : L!SyncOpen(w) \/ L!SaveOpen(w)
    BY <1>5
  <2>2. script'.there /\ script'.text = L!Empty
    BY <2>1 DEF L!SyncOpen, L!SaveOpen, L!Touch
  <2>3. Writers' = Writers \cup {w} /\ L!Writing(w) = Writers \ {w}
    BY <2>1, Moved DEF Moves, Writers, L!Writing
  <2>4. L!Writing(w) = {} \/ "overlap" \in mishaps'
    BY <2>1 DEF L!SyncOpen, L!SaveOpen, L!Note
  <2>5. "overlap" \in mishaps' \/ Writers' = {w}
    BY <2>3, <2>4
  <2>6. QED
    BY <1>2, <2>2, <2>5 DEF FileInv, L!None
<1>6. CASE \E w \in Workers : L!SyncWrite(w) \/ L!SaveWrite(w)
  <2>1. PICK w \in Workers : L!SyncWrite(w) \/ L!SaveWrite(w)
    BY <1>6
  <2>2. PICK t \in L!Overlay(work[w].text) : L!Touch(t)
    BY <2>1 DEF L!SyncWrite, L!SaveWrite
  <2>3. work[w].at \in {"write", "saveWrite"} /\ Writers' = Writers \ {w} /\ w \in Writers
    BY <2>1, Moved DEF Moves, Writers
  <2>4. /\ script'.text = t
        /\ work[w].text \notin {L!Empty, L!Garbled}
        /\ script.text = L!Empty => t = work[w].text
    BY <2>2, <2>3, Written
  <2>5. SUFFICES ASSUME "overlap" \notin mishaps'
                 PROVE  FileInv'
    BY DEF FileInv, L!None
  <2>6. script.text = L!Empty /\ Writers = {w}
    BY <1>1, <2>3, <2>5 DEF FileInv, L!None
  <2>7. Writers' = {}
    BY <2>3, <2>6
  <2>8. QED
    BY <2>4, <2>6, <2>7 DEF FileInv, L!None, L!Garbled, L!Empty
<1>7. CASE \E push \in pushes : L!PushArrives(push) \/ L!PushFails(push)
  BY <1>3, <1>7 DEF L!PushArrives, L!PushFails, Writers
<1>8. CASE L!RemoteSave \/ UNCHANGED libVars
  BY <1>3, <1>8 DEF L!RemoteSave, Writers, libVars
<1>9. CASE L!RemoveScripts
  BY <1>2, <1>9 DEF L!RemoveScripts, Writers, FileInv, L!None
<1>10. CASE \E W \in SUBSET Workers, lost \in SUBSET pushes : L!Interrupt(W, lost)
  <2>1. PICK W \in SUBSET Workers, lost \in SUBSET pushes : L!Interrupt(W, lost)
    BY <1>10
  <2>2. script' = script /\ Writers' = Writers \ W
    <3>1. /\ \A v \in Workers : work'[v].at = IF v \in W THEN "idle" ELSE work[v].at
          /\ script' = script
      BY <2>1, Interrupted
    <3>2. \A v : v \in Writers' <=> v \in Writers /\ v \notin W
      BY <3>1 DEF Writers
    <3>3. QED
      BY <3>1, <3>2
  <2>3. "halfWritten" \in mishaps' \/ Writers' = Writers
    BY <2>1, <2>2, Interrupted DEF Writers
  <2>4. QED
    BY <1>1, <1>2, <2>2, <2>3 DEF FileInv, L!None
<1>11. QED
  BY <1>4, <1>5, <1>6, <1>7, <1>8, <1>9, <1>10 DEF LibraryMoves

LEMMA ServerKept ==
    ASSUME L!LibraryTypeOK, TextInv, ServerInv, LibraryMoves
    PROVE  ServerInv'
<1>1. SUFFICES ASSUME L!None({"notPushed", "reordered"})'
               PROVE  ServerInv'
  BY DEF ServerInv
<1>2. "notPushed" \notin mishaps' /\ "reordered" \notin mishaps'
  BY <1>1 DEF L!None
<1>3. \/ server = newest
      \/ \E w \in Workers : work[w].at \in Saving /\ work[w].text = newest
      \/ \E push \in pushes : push[2] = newest
  BY <1>2, MishapsGrow DEF ServerInv, L!None
<1>4. /\ server \in Nat /\ newest \in Nat /\ server <= newest
      /\ \A push \in pushes : push[2] \in Nat /\ push[2] <= newest
  BY LocalStateAssumption DEF L!LibraryTypeOK, TextInv
<1>5. ASSUME UNCHANGED <<server, newest, pushes>>,
             \A w \in Workers : work[w].at \in Saving =>
               work'[w].at \in Saving /\ work'[w].text = work[w].text
      PROVE  ServerInv'
  BY <1>3, <1>5 DEF ServerInv
<1>6. CASE \E w \in Workers : L!SyncList(w) \/ L!SyncStat(w) \/ L!SyncFetch(w)
                              \/ L!SyncOpen(w) \/ L!SyncWrite(w) \/ L!SaveOpen(w)
                              \/ L!SaveWrite(w) \/ L!LoadScript(w) \/ L!ReadMeta(w)
                              \/ L!WriteMeta(w)
  <2>1. PICK w \in Workers : L!SyncList(w) \/ L!SyncStat(w) \/ L!SyncFetch(w)
                              \/ L!SyncOpen(w) \/ L!SyncWrite(w) \/ L!SaveOpen(w)
                              \/ L!SaveWrite(w) \/ L!LoadScript(w) \/ L!ReadMeta(w)
                              \/ L!WriteMeta(w)
    BY <1>6
  <2>2. UNCHANGED <<server, newest, pushes>>
    BY <2>1 DEF L!SyncList, L!SyncStat, L!SyncFetch, L!SyncOpen, L!SyncWrite, L!SaveOpen,
                L!SaveWrite, L!LoadScript, L!ReadMeta, L!WriteMeta
  <2>3. \A v \in Workers : work[v].at \in Saving =>
          work'[v].at \in Saving /\ work'[v].text = work[v].text
    BY <2>1, Moved DEF Moves, Saving
  <2>4. QED
    BY <1>5, <2>2, <2>3
<1>7. CASE \E w \in Workers : L!SaveScript(w)
  BY <1>7, Moved DEF Moves, Saving, ServerInv
<1>8. CASE \E w \in Workers : L!SaveMeta(w)
  <2>1. PICK w \in Workers : L!SaveMeta(w)
    BY <1>8
  <2>2. pushes' = pushes \cup {<<w, work[w].text>>} /\ UNCHANGED <<server, newest>>
    BY <1>2, <2>1 DEF L!SaveMeta, L!Note
  <2>3. \A v \in Workers \ {w} : work[v].at \in Saving =>
          work'[v].at \in Saving /\ work'[v].text = work[v].text
    BY <2>1, Moved DEF Moves
  <2>4. <<w, work[w].text>>[2] = work[w].text
    OBVIOUS
  <2>5. QED
    BY <1>3, <2>2, <2>3, <2>4 DEF ServerInv
<1>9. CASE \E push \in pushes : L!PushArrives(push)
  <2>1. PICK push \in pushes : L!PushArrives(push)
    BY <1>9
  <2>2. server' = push[2] /\ ~(push[2] < server) /\ UNCHANGED <<newest, work>>
        /\ pushes' = pushes \ {push}
    BY <1>2, <2>1 DEF L!PushArrives, L!Note
  <2>3. server = newest => server' = newest
    BY <1>4, <2>2
  <2>4. QED
    BY <1>3, <2>2, <2>3 DEF ServerInv
<1>10. CASE \E push \in pushes : L!PushFails(push)
  BY <1>2, <1>10 DEF L!PushFails, L!Note
<1>11. CASE L!RemoteSave
  BY <1>11 DEF L!RemoteSave, ServerInv
<1>12. CASE L!RemoveScripts \/ UNCHANGED libVars
  BY <1>5, <1>12 DEF L!RemoveScripts, libVars
<1>13. CASE \E W \in SUBSET Workers, lost \in SUBSET pushes : L!Interrupt(W, lost)
  <2>1. PICK W \in SUBSET Workers, lost \in SUBSET pushes : L!Interrupt(W, lost)
    BY <1>13
  <2>2. /\ \A v \in Workers : v \notin W => work'[v] = work[v]
        /\ pushes' = pushes \ lost /\ UNCHANGED <<server, newest>>
        /\ \A v \in W : /\ work[v].at \in {"write", "saveWrite"} => "halfWritten" \in mishaps'
                        /\ work[v].at \in Saving => "notPushed" \in mishaps'
        /\ lost # {} => "notPushed" \in mishaps'
    BY <2>1, Interrupted
  <2>3. lost = {} /\ \A v \in W : work[v].at \notin Saving
    BY <1>2, <2>2
  <2>4. pushes' = pushes /\ \A v \in Workers : work[v].at \in Saving => work'[v] = work[v]
    BY <2>2, <2>3
  <2>5. QED
    BY <1>5, <2>2, <2>4
<1>14. QED
  BY <1>6, <1>7, <1>8, <1>9, <1>10, <1>11, <1>12, <1>13 DEF LibraryMoves

LEMMA CurrentKept ==
    ASSUME L!LibraryTypeOK, TextInv, FileInv, CurrentInv, LibraryMoves
    PROVE  CurrentInv'
<1>1. SUFFICES ASSUME script'.there, ~behind', server' # 0,
                      L!None({"overtaken", "overlap", "halfWritten", "notPushed"})'
               PROVE  \/ script'.text = server'
                      \/ pushes' # {}
                      \/ \E w \in Workers : work'[w].at \in {"write"} \cup Saving
  BY DEF CurrentInv
<1>2. {"overtaken", "overlap", "halfWritten", "notPushed"} \cap mishaps' = {}
  BY <1>1 DEF L!None
<1>3. {"overtaken", "overlap", "halfWritten", "notPushed"} \cap mishaps = {}
  BY <1>2, MishapsGrow
<1>4. ASSUME UNCHANGED <<script, behind, server>>,
             pushes' # {} \/ /\ pushes' = pushes
                             /\ \A w \in Workers : work[w].at \in {"write"} \cup Saving =>
                                  work'[w].at \in {"write"} \cup Saving
      PROVE  \/ script'.text = server'
             \/ pushes' # {}
             \/ \E w \in Workers : work'[w].at \in {"write"} \cup Saving
  <2>1. \/ script.text = server
        \/ pushes # {}
        \/ \E w \in Workers : work[w].at \in {"write"} \cup Saving
    BY <1>1, <1>3, <1>4 DEF CurrentInv, L!None
  <2>2. QED
    BY <1>4, <2>1
<1>5. CASE \E w \in Workers : L!SyncList(w) \/ L!SyncStat(w) \/ L!SyncFetch(w)
                              \/ L!SaveScript(w)
                              \/ L!LoadScript(w) \/ L!ReadMeta(w) \/ L!WriteMeta(w)
  <2>1. PICK w \in Workers : L!SyncList(w) \/ L!SyncStat(w) \/ L!SyncFetch(w)
                              \/ L!SaveScript(w)
                              \/ L!LoadScript(w) \/ L!ReadMeta(w) \/ L!WriteMeta(w)
    BY <1>5
  <2>2. UNCHANGED <<script, behind, server, pushes>>
    BY <2>1 DEF L!SyncList, L!SyncStat, L!SyncFetch, L!SaveScript, L!LoadScript, L!ReadMeta,
                L!WriteMeta
  <2>3. \A v \in Workers : work[v].at \in {"write"} \cup Saving =>
          work'[v].at \in {"write"} \cup Saving
    BY <2>1, Moved DEF Moves, Saving
  <2>4. QED
    BY <1>4, <2>2, <2>3
<1>6. CASE \E w \in Workers : L!SyncOpen(w) \/ L!SaveOpen(w) \/ L!SaveWrite(w)
  BY <1>6, Moved DEF Moves, Saving
<1>7. CASE \E w \in Workers : L!SyncWrite(w)
  <2>1. PICK w \in Workers : L!SyncWrite(w)
    BY <1>7
  <2>2. PICK t \in L!Overlay(work[w].text) : L!Touch(t)
    BY <2>1 DEF L!SyncWrite
  <2>3. server' = work[w].text
    BY <1>2, <2>1 DEF L!SyncWrite, L!Note
  <2>4. w \in Writers /\ work[w].at \in {"write", "saveWrite"}
    BY <2>1 DEF L!SyncWrite, Writers
  <2>5. script.text = L!Empty
    BY <1>3, <2>4 DEF FileInv, L!None
  <2>6. script'.text = work[w].text
    BY <2>2, <2>4, <2>5, Written
  <2>7. QED
    BY <2>3, <2>6
<1>8. CASE \E w \in Workers : L!SaveMeta(w)
  <2>1. PICK w \in Workers : L!SaveMeta(w)
    BY <1>8
  <2>2. pushes' = pushes \cup {<<w, work[w].text>>}
    BY <1>2, <2>1 DEF L!SaveMeta, L!Note
  <2>3. QED
    BY <2>2
<1>9. CASE \E push \in pushes : L!PushArrives(push) \/ L!PushFails(push)
  BY <1>1, <1>2, <1>9 DEF L!PushArrives, L!PushFails, L!Note
<1>10. CASE L!RemoteSave \/ L!RemoveScripts
  BY <1>1, <1>10 DEF L!RemoteSave, L!RemoveScripts
<1>11. CASE \E W \in SUBSET Workers, lost \in SUBSET pushes : L!Interrupt(W, lost)
  <2>1. PICK W \in SUBSET Workers, lost \in SUBSET pushes : L!Interrupt(W, lost)
    BY <1>11
  <2>2. /\ \A v \in Workers : v \notin W => work'[v] = work[v]
        /\ pushes' = pushes \ lost /\ UNCHANGED <<script, behind, server>>
        /\ \A v \in W : /\ work[v].at \in {"write", "saveWrite"} => "halfWritten" \in mishaps'
                        /\ work[v].at \in Saving => "notPushed" \in mishaps'
        /\ lost # {} => "notPushed" \in mishaps'
    BY <2>1, Interrupted
  <2>3. lost = {} /\ \A v \in W : work[v].at \notin {"write"} \cup Saving
    BY <1>2, <2>2
  <2>4. pushes' = pushes /\ \A v \in Workers : work[v].at \in {"write"} \cup Saving => work'[v] = work[v]
    BY <2>2, <2>3
  <2>5. QED
    BY <1>4, <2>2, <2>4
<1>12. CASE UNCHANGED libVars
  BY <1>4, <1>12 DEF libVars
<1>13. QED
  BY <1>5, <1>6, <1>7, <1>8, <1>9, <1>10, <1>11, <1>12 DEF LibraryMoves

LEMMA MetaKept ==
    ASSUME L!LibraryTypeOK, MetaInv, LibraryMoves
    PROVE  MetaInv'
<1>1. SUFFICES ASSUME script'.there, meta' # 0,
                      L!None({"pulled", "metaRaced", "halfWritten", "notPushed"})'
               PROVE  \/ meta' = script'.text
                      \/ \E w \in Workers : work'[w].at \in {"write", "saveWrite", "saveMeta"}
  BY DEF MetaInv
<1>2. {"pulled", "metaRaced", "halfWritten", "notPushed"} \cap mishaps' = {}
  BY <1>1 DEF L!None
<1>3. {"pulled", "metaRaced", "halfWritten", "notPushed"} \cap mishaps = {}
  BY <1>2, MishapsGrow
<1>4. ASSUME UNCHANGED <<script, meta>>,
             \A w \in Workers : work[w].at \in {"write", "saveWrite", "saveMeta"} =>
               work'[w].at \in {"write", "saveWrite", "saveMeta"}
      PROVE  \/ meta' = script'.text
             \/ \E w \in Workers : work'[w].at \in {"write", "saveWrite", "saveMeta"}
  BY <1>1, <1>3, <1>4 DEF MetaInv, L!None
<1>5. CASE \E w \in Workers : L!SyncList(w) \/ L!SyncStat(w) \/ L!SyncFetch(w)
                              \/ L!SaveScript(w) \/ L!LoadScript(w) \/ L!ReadMeta(w)
  <2>1. PICK w \in Workers : L!SyncList(w) \/ L!SyncStat(w) \/ L!SyncFetch(w)
                              \/ L!SaveScript(w) \/ L!LoadScript(w) \/ L!ReadMeta(w)
    BY <1>5
  <2>2. UNCHANGED <<script, meta>>
    BY <2>1 DEF L!SyncList, L!SyncStat, L!SyncFetch, L!SaveScript, L!LoadScript, L!ReadMeta
  <2>3. QED
    BY <1>4, <2>1, <2>2, Moved DEF Moves
<1>6. CASE \E w \in Workers : L!SyncOpen(w) \/ L!SaveOpen(w) \/ L!SaveWrite(w)
  BY <1>6, Moved DEF Moves
<1>7. CASE \E w \in Workers : L!SyncWrite(w)
  BY <1>2, <1>7 DEF L!SyncWrite, L!Note
<1>8. CASE \E w \in Workers : L!SaveMeta(w)
  BY <1>2, <1>8 DEF L!SaveMeta, L!Note
<1>9. CASE \E w \in Workers : L!WriteMeta(w)
  <2>1. PICK w \in Workers : L!WriteMeta(w)
    BY <1>9
  <2>2. UNCHANGED <<script, meta>>
    BY <1>2, <2>1 DEF L!WriteMeta, L!Note
  <2>3. QED
    BY <1>4, <2>1, <2>2, Moved DEF Moves
<1>10. CASE \E push \in pushes : L!PushArrives(push) \/ L!PushFails(push)
  BY <1>4, <1>10 DEF L!PushArrives, L!PushFails
<1>11. CASE L!RemoteSave \/ UNCHANGED libVars
  BY <1>4, <1>11 DEF L!RemoteSave, libVars
<1>12. CASE L!RemoveScripts
  BY <1>1, <1>12 DEF L!RemoveScripts
<1>13. CASE \E W \in SUBSET Workers, lost \in SUBSET pushes : L!Interrupt(W, lost)
  <2>1. PICK W \in SUBSET Workers, lost \in SUBSET pushes : L!Interrupt(W, lost)
    BY <1>13
  <2>2. /\ \A v \in Workers : v \notin W => work'[v] = work[v]
        /\ UNCHANGED <<script, meta>>
        /\ \A v \in W : /\ work[v].at \in {"write", "saveWrite"} => "halfWritten" \in mishaps'
                        /\ work[v].at \in Saving => "notPushed" \in mishaps'
    BY <2>1, Interrupted
  <2>3. \A v \in W : work[v].at \notin {"write", "saveWrite", "saveMeta"}
    BY <1>2, <2>2 DEF Saving
  <2>4. QED
    BY <1>4, <2>2, <2>3
<1>14. QED
  BY <1>5, <1>6, <1>7, <1>8, <1>9, <1>10, <1>11, <1>12, <1>13 DEF LibraryMoves

LEMMA RanKept ==
    ASSUME L!LibraryTypeOK, FileInv, RanInv, LibraryMoves
    PROVE  RanInv'
<1>1. mishaps \subseteq mishaps'
  BY MishapsGrow
<1>2. CASE \E w \in Workers : L!LoadScript(w)
  <2>1. PICK w \in Workers : L!LoadScript(w)
    BY <1>2
  <2>2. SUFFICES ASSUME "ranHalf" \in mishaps', "ranHalf" \notin mishaps,
                        L!None({"readEarly", "overlap", "halfWritten"})'
                 PROVE  FALSE
    BY <1>1 DEF RanInv, L!None
  <2>3. /\ script.there /\ work[w] = L!Idle /\ script.text \in {L!Empty, L!Garbled}
        /\ L!Writing(w) = {}
    BY <2>1, <2>2 DEF L!LoadScript, L!Note, L!None
  <2>4. Writers = {}
    BY <2>3 DEF Writers, L!Writing, L!Idle
  <2>5. QED
    BY <1>1, <2>2, <2>3, <2>4 DEF FileInv, L!None
<1>3. CASE ~\E w \in Workers : L!LoadScript(w)
  <2>1. "ranHalf" \in mishaps' => "ranHalf" \in mishaps
    <3>1. CASE \E w \in Workers : \/ L!SyncList(w) \/ L!SyncStat(w) \/ L!SyncFetch(w)
                                  \/ L!SyncOpen(w) \/ L!SyncWrite(w) \/ L!ReadMeta(w)
      BY <3>1 DEF L!SyncList, L!SyncStat, L!SyncFetch, L!SyncOpen, L!SyncWrite, L!ReadMeta, L!Note
    <3>2. CASE \E w \in Workers : \/ L!SaveScript(w) \/ L!SaveOpen(w) \/ L!SaveWrite(w)
                                  \/ L!SaveMeta(w) \/ L!WriteMeta(w)
      BY <3>2 DEF L!SaveScript, L!SaveOpen, L!SaveWrite, L!SaveMeta, L!WriteMeta, L!Note
    <3>3. CASE \E push \in pushes : L!PushArrives(push) \/ L!PushFails(push)
      BY <3>3 DEF L!PushArrives, L!PushFails, L!Note
    <3>4. CASE L!RemoteSave \/ L!RemoveScripts \/ UNCHANGED libVars
      BY <3>4 DEF L!RemoteSave, L!RemoveScripts, libVars
    <3>5. CASE \E W \in SUBSET Workers, lost \in SUBSET pushes : L!Interrupt(W, lost)
      BY <3>5 DEF L!Interrupt, L!Note
    <3>6. QED
      BY <1>3, <3>1, <3>2, <3>3, <3>4, <3>5 DEF LibraryMoves
  <2>2. QED
    BY <1>1, <2>1 DEF RanInv, L!None
<1>4. QED
  BY <1>2, <1>3

LEMMA LibraryHolds == Spec => []LibraryInv
<1>1. Init => LibraryInv
  <2>1. ASSUME L!LibraryInit
        PROVE  LibraryInv
    <3>1. MaxText \in Nat /\ L!Empty = 0 /\ L!Garbled = MaxText + 1
      BY LocalStateAssumption DEF L!Empty, L!Garbled
    <3>2. /\ script = [there |-> FALSE, text |-> 0] /\ behind = FALSE
          /\ meta = 0 /\ server = 0 /\ newest = 0 /\ pushes = {} /\ mishaps = {}
          /\ work = [w \in Workers |-> [at |-> "idle", text |-> 0, older |-> FALSE]]
      BY <2>1, <3>1 DEF L!LibraryInit, L!Idle
    <3>3. L!LibraryTypeOK
      <4>1. script \in [there : BOOLEAN, text : 0..L!Garbled]
        BY <3>1, <3>2
      <4>2. work \in [Workers -> [at : L!Stages, text : 0..MaxText, older : BOOLEAN]]
        BY <3>1, <3>2 DEF L!Stages
      <4>3. 0 \in 0..MaxText
        BY <3>1
      <4>4. QED
        BY <3>2, <4>1, <4>2, <4>3 DEF L!LibraryTypeOK
    <3>4. TextInv
      BY <3>2 DEF TextInv, Saving
    <3>5. FileInv
      BY <3>1, <3>2 DEF FileInv, Writers
    <3>6. ServerInv /\ CurrentInv /\ MetaInv /\ RanInv
      BY <3>2 DEF ServerInv, CurrentInv, MetaInv, RanInv
    <3>7. QED
      BY <3>3, <3>4, <3>5, <3>6 DEF LibraryInv
  <2>2. QED
    BY <2>1 DEF Init
<1>2. LibraryInv /\ [Next]_vars => LibraryInv'
  BY LibrarySteps, LibraryTyped, TextKept, FileKept, ServerKept, CurrentKept, MetaKept, RanKept
     DEF LibraryInv
<1>3. QED
  BY <1>1, <1>2, PTL DEF Spec

\* With nothing under way and no mishap that has a name, a script that no sync
\* would fetch has the platform's text, the platform has the last text anybody
\* saved, the description belongs to the text, and no job has run half of one
\* (LibraryIsCurrent), whatever registrations and processes come and go.
THEOREM LibraryStaysCurrent == Spec => []LibraryIsCurrent
<1>1. ASSUME LibraryInv
      PROVE  LibraryIsCurrent
  <2>1. L!Quiet => pushes = {} /\ \A w \in Workers : work[w].at = "idle"
    BY DEF L!Quiet, L!Idle
  <2>2. ASSUME L!Quiet, script.there, ~behind, server # 0,
               L!None({"overtaken", "overlap", "halfWritten", "notPushed"})
        PROVE  script.text = server
    BY <1>1, <2>1, <2>2 DEF LibraryInv, CurrentInv, Saving
  <2>3. ASSUME L!Quiet, L!None({"notPushed", "reordered"})
        PROVE  server = newest
    BY <1>1, <2>1, <2>3 DEF LibraryInv, ServerInv, Saving
  <2>4. ASSUME L!Quiet, script.there, meta # 0,
               L!None({"pulled", "metaRaced", "overlap", "overtaken", "halfWritten", "notPushed"})
        PROVE  meta = script.text
    BY <1>1, <2>1, <2>4 DEF LibraryInv, MetaInv, L!None
  <2>5. "ranHalf" \in mishaps => ~L!None({"readEarly", "overlap", "halfWritten"})
    BY <1>1 DEF LibraryInv, RanInv
  <2>6. QED
    BY <2>2, <2>3, <2>4, <2>5 DEF LibraryIsCurrent, L!LibraryIsCurrent
<1>2. LibraryInv => LibraryIsCurrent
  BY <1>1
<1>3. QED
  BY <1>2, LibraryHolds, PTL
-----------------------------------------------------------------------------
(* The registration and the settings *)

\* A process on its way to serve.
Settling(p) ==
    \/ Register(p)
    \/ \E m \in Modes : WizardSaves(p, m)
    \/ WizardCredentials(p) \/ Install(p) \/ StartServing(p)

\* What changes the settings of a process, or a window that will.
Tuning(p) ==
    \/ \E f \in Prints : AlwaysAllow(p, f)
    \/ HeartbeatOrg(p)
    \/ \E from \in {"gear", "tray"} : OpenSettings(p, from)
    \/ \E m \in Modes, keep \in SUBSET Prints : SaveSettings(p, m, keep)
    \/ CloseSettings(p)
    \/ SaveOpens(p) \/ SaveWrites(p) \/ SaveFails(p) \/ OnSave(p)

\* A reset or a revocation, but for the launch of the next process.
Removing(p) ==
    \/ Reset(p) \/ ResetServer(p) \/ ResetClears(p) \/ ResetScripts(p)
    \/ Revoked(p) \/ RevokeClears(p) \/ RevokeStops(p)

Relaunching(p) == ResetRelaunches(p) \/ RevokeRelaunches(p)

\* What happens outside the processes.
Outside ==
    \/ \E m \in Modes : InitLocal(m)
    \/ RegisterCommand
    \/ \E r \in Regs : AdminDeletes(r)
    \/ UNCHANGED localVars

LocalMoves ==
    \/ \E p \in Procs :
         \/ \E shell \in BOOLEAN : Launch(p, shell)
         \/ StartSetup(p) \/ End(p)
         \/ Settling(p) \/ Tuning(p) \/ Removing(p) \/ Relaunching(p)
    \/ Outside

LEMMA LocalSteps ==
    ASSUME [Next]_vars
    PROVE  LocalMoves
<1> USE DEF LocalMoves
<1>1. CASE LocalStep
  <2>1. CASE \E p \in Procs, shell \in BOOLEAN : Launch(p, shell)
    BY <2>1
  <2>2. CASE SetsUp
    BY <2>2 DEF SetsUp, Outside
  <2>3. CASE \E p \in Procs : ProcessStep(p)
    BY <2>3 DEF ProcessStep, Settling, Tuning, Removing, Relaunching
  <2>4. CASE \E p \in Procs : OperatorDecides(p)
    BY <2>4 DEF OperatorDecides, Settling, Tuning
  <2>5. CASE \E p \in Procs : OperatorActs(p)
    BY <2>5 DEF OperatorActs, Tuning, Removing
  <2>6. CASE \E r \in Regs : AdminDeletes(r)
    BY <2>6 DEF Outside
  <2>7. QED
    BY <1>1, <2>1, <2>2, <2>3, <2>4, <2>5, <2>6 DEF LocalStep
<1>2. CASE LibraryStep
  BY <1>2 DEF LibraryStep, Outside
<1>3. CASE \E p \in Procs : ResetsScripts(p)
  BY <1>3 DEF ResetsScripts, Removing
<1>4. CASE \E p \in Procs : ProcessEnds(p)
  BY <1>4 DEF ProcessEnds
<1>5. CASE UNCHANGED vars
  BY <1>5 DEF vars, Outside
<1>6. QED
  BY <1>1, <1>2, <1>3, <1>4, <1>5 DEF Next

\* What went wrong is not forgotten.
LEMMA TroubleGrows ==
    ASSUME LocalMoves
    PROVE  trouble \subseteq trouble'
<1> USE DEF Warn
<1>1. CASE \E p \in Procs, shell \in BOOLEAN : Launch(p, shell)
  BY <1>1 DEF Launch
<1>2. CASE \E p \in Procs : StartSetup(p) \/ End(p)
  BY <1>2 DEF StartSetup, End
<1>3. CASE \E p \in Procs : Settling(p)
  BY <1>3 DEF Settling, Register, WizardSaves, WizardCredentials, Install, StartServing, Saves,
              SaveBreaks
<1>4. CASE \E p \in Procs : Tuning(p)
  BY <1>4 DEF Tuning, AlwaysAllow, HeartbeatOrg, OpenSettings, SaveSettings, CloseSettings,
              SaveOpens, SaveWrites, SaveFails, OnSave
<1>5. CASE \E p \in Procs : Removing(p)
  BY <1>5 DEF Removing, Reset, ResetServer, ResetClears, ResetScripts, Revoked, RevokeClears,
              RevokeStops, ClearCredentials, ClearYaml, ClearFails
<1>6. CASE \E p \in Procs : Relaunching(p)
  BY <1>6 DEF Relaunching, ResetRelaunches, RevokeRelaunches
<1>7. CASE Outside
  BY <1>7 DEF Outside, InitLocal, Saves, SaveBreaks, RegisterCommand, AdminDeletes, localVars
<1>8. QED
  BY <1>1, <1>2, <1>3, <1>4, <1>5, <1>6, <1>7 DEF LocalMoves
-----------------------------------------------------------------------------
(* Their types *)

LEMMA ConfigTyped ==
    /\ Default \in Config /\ NoWindow \in Window
    /\ \A m \in Modes : Chosen(m) \in Config
<1>1. Default \in Config
  BY LocalAssumption DEF Default, Config
<1>2. NoWindow \in Window
  BY DEF NoWindow, Window
<1>3. \A m \in Modes : Chosen(m) \in Config
  BY LocalAssumption DEF Chosen, Default, Config
<1>4. QED
  BY <1>1, <1>2, <1>3

LEMMA DownTyped == Down \in Process
<1>1. "off" \in Phases /\ "idle" \in Stages
  BY DEF Phases, Stages
<1>2. QED
  BY <1>1, ConfigTyped DEF Down, Process

LEMMA BootedTyped ==
    ASSUME yaml \in Config \cup {NoConfig}, NEW token \in Regs \cup {NoReg}
    PROVE  Booted(token) \in Process
<1>1. {"wizard", "naming"} \subseteq Phases
  BY DEF Phases
<1>2. Loaded \in Config
  BY ConfigTyped DEF Loaded
<1>3. QED
  BY <1>1, <1>2, DownTyped, ConfigTyped DEF Booted, Process

Wish == [mode : Modes, always : SUBSET Prints]

LEMMA Types ==
    ASSUME LocalTypeOK
    PROVE  /\ env \in Regs \cup {NoReg} /\ creds \in Regs \cup {NoReg}
           /\ yaml \in Config \cup {NoConfig}
           /\ live \subseteq spent /\ spent \subseteq Regs /\ cleared \subseteq Regs
           /\ proc \in [Procs -> Process]
           /\ wanted \in Wish /\ trouble \subseteq Troubles
BY DEF LocalTypeOK, Wish

LEMMA Retyped ==
    ASSUME env' \in Regs \cup {NoReg}, creds' \in Regs \cup {NoReg},
           yaml' \in Config \cup {NoConfig},
           live' \subseteq spent', spent' \subseteq Regs, cleared' \subseteq Regs,
           proc' \in [Procs -> Process],
           wanted' \in Wish, trouble' \subseteq Troubles
    PROVE  LocalTypeOK'
BY DEF LocalTypeOK, Wish

LEMMA SettlingTyped ==
    ASSUME LocalTypeOK, NEW p \in Procs, Settling(p)
    PROVE  LocalTypeOK'
<1> USE Types
<1>1. {"registered", "saved", "done", "installing", "naming", "serving"} \subseteq Phases
  BY DEF Phases
<1>2. proc[p] \in Process /\ proc[p].token \in Regs \cup {NoReg} /\ proc[p].exec \in Config
  BY DEF Process
<1>3. CASE Register(p)
  <2>1. proc' \in [Procs -> Process]
    BY <1>1, <1>3 DEF Register, Process
  <2>2. PICK r \in Regs : spent' = spent \cup {r} /\ live' = live \cup {r}
    BY <1>3 DEF Register, RegisterAPI
  <2>3. QED
    BY <1>3, <2>1, <2>2, Retyped DEF Register
<1>4. CASE \E m \in Modes : WizardSaves(p, m)
  <2>1. PICK m \in Modes : WizardSaves(p, m)
    BY <1>4
  <2>2. proc' \in [Procs -> Process]
    <3> DEFINE x == [proc[p] EXCEPT !.phase = "saved", !.exec = Chosen(m)]
    <3>1. proc' = [proc EXCEPT ![p] = x] \/ proc' = proc
      BY <2>1 DEF WizardSaves
    <3>2. x \in Process
      BY <1>1, <1>2, ConfigTyped DEF Process
    <3>3. QED
      BY <3>1, <3>2
  <2>3. yaml' \in Config \cup {NoConfig} /\ wanted' \in Wish /\ trouble' \subseteq Troubles
    BY <2>1, ConfigTyped DEF WizardSaves, SaveBreaks, Warn, Wants, Wish, Troubles
  <2>4. QED
    BY <2>1, <2>2, <2>3, Retyped DEF WizardSaves
<1>5. CASE WizardCredentials(p)
  <2>1. proc' \in [Procs -> Process]
    BY <1>1, <1>5 DEF WizardCredentials, Process
  <2>2. creds' \in {creds, NoReg, proc[p].token}
    BY <1>5 DEF WizardCredentials, WriteCredentials
  <2>3. QED
    BY <1>2, <1>5, <2>1, <2>2, Retyped DEF WizardCredentials
<1>6. CASE Install(p)
  <2>1. proc' \in [Procs -> Process]
    BY <1>1, <1>6 DEF Install, Process
  <2>2. yaml' \in {yaml, NoConfig, proc[p].exec} /\ trouble' \subseteq Troubles
    BY <1>6 DEF Install, Saves, SaveBreaks, Warn, Troubles
  <2>3. QED
    BY <1>2, <1>6, <2>1, <2>2, Retyped DEF Install
<1>7. CASE StartServing(p)
  <2>1. [proc[p].exec EXCEPT !.log = proc[p].token] \in Config
    BY <1>2 DEF Config
  <2>2. proc' \in [Procs -> Process]
    BY <1>1, <1>7, <2>1 DEF StartServing, Process
  <2>3. proc'[p].exec \in Config
    BY <2>2 DEF Process
  <2>4. yaml' \in {yaml, NoConfig, proc'[p].exec} /\ trouble' \subseteq Troubles
    <3>1. Saves(proc'[p].exec, {}) \/ UNCHANGED <<yaml, trouble>>
      BY <1>7 DEF StartServing
    <3>2. QED
      BY <3>1 DEF Saves, SaveBreaks, Warn, Troubles
  <2>5. QED
    BY <1>7, <2>2, <2>3, <2>4, Retyped DEF StartServing
<1>8. QED
  BY <1>3, <1>4, <1>5, <1>6, <1>7 DEF Settling

LEMMA BegunTyped ==
    ASSUME NEW who \in Savers, NEW config \in Config
    PROVE  Begun(who, config) \subseteq Save
BY DEF Begun, Save

LEMMA OverTyped ==
    ASSUME LocalTypeOK, NEW p \in Procs, NEW s \in proc[p].saves, Over(p, s)
    PROVE  proc' \in [Procs -> Process]
<1> DEFINE left == proc[p].saves \ {s}
           end  == IF s.by = "window" THEN {[s EXCEPT !.at = "written"]} ELSE {}
<1>1. proc \in [Procs -> Process] /\ proc[p] \in Process /\ proc[p].saves \subseteq Save
  BY Types DEF Process
<1>2. end \subseteq Save
  BY <1>1 DEF Save
<1>3. proc' = [proc EXCEPT ![p].saves = left \cup end]
  BY DEF Over
<1> HIDE DEF left, end
<1>4. left \subseteq Save
  BY <1>1 DEF left
<1>5. QED
  BY <1>1, <1>2, <1>3, <1>4 DEF Process

LEMMA TuningTyped ==
    ASSUME LocalTypeOK, NEW p \in Procs, Tuning(p)
    PROVE  LocalTypeOK'
<1> USE Types
<1>1. /\ proc[p] \in Process /\ proc[p].exec \in Config /\ proc[p].window \in Window
      /\ proc[p].copy \in Config \cup {NoConfig} /\ proc[p].saves \subseteq Save
  BY DEF Process
<1>2. CASE \E f \in Prints : AlwaysAllow(p, f)
  <2>1. PICK f \in Prints : AlwaysAllow(p, f)
    BY <1>2
  <2>2. [proc[p].exec EXCEPT !.always = @ \cup {f}] \in Config
    BY <1>1 DEF Config
  <2> DEFINE config == [proc[p].exec EXCEPT !.always = @ \cup {f}]
             saves  == proc[p].saves \cup Begun(f, config)
             x      == [proc[p] EXCEPT !.exec = config, !.saves = saves]
  <2>3. saves \subseteq Save
    BY <1>1, <2>2, BegunTyped DEF Savers
  <2>4. proc' = [proc EXCEPT ![p] = x]
    BY <2>1 DEF AlwaysAllow
  <2>5. x \in Process
    <3> HIDE DEF config, saves
    <3>1. QED
      BY <1>1, <2>2, <2>3 DEF Process, config
  <2>6. wanted' \in Wish /\ trouble' \subseteq Troubles
    <3>1. wanted' \in Wish
      BY <2>1 DEF AlwaysAllow, Wish
    <3>2. trouble' \subseteq Troubles
      BY <2>1 DEF AlwaysAllow, Hurried, Warn, If, Troubles
    <3>3. QED
      BY <3>1, <3>2
  <2>7. proc' \in [Procs -> Process]
    <3> HIDE DEF x
    <3>1. QED
      BY <2>4, <2>5
  <2>8. QED
    BY <2>1, <2>6, <2>7, Retyped DEF AlwaysAllow
<1>3. CASE HeartbeatOrg(p)
  <2> DEFINE shared == IF proc[p].copy = NoConfig THEN proc[p].exec ELSE proc[p].copy
             config == [shared EXCEPT !.org = TRUE]
  <2>1. config \in Config
    BY <1>1 DEF Config
  <2> DEFINE learned == [proc[p] EXCEPT !.saves = @ \cup Begun("heartbeat", config)]
             x       == IF proc[p].copy = NoConfig THEN [learned EXCEPT !.exec = config]
                                                   ELSE [learned EXCEPT !.copy = config]
  <2>2. /\ proc' = [proc EXCEPT ![p] = x]
        /\ trouble' \subseteq Troubles
    BY <1>3 DEF HeartbeatOrg, Hurried, Warn, If, Troubles
  <2> HIDE DEF config
  <2>3. Begun("heartbeat", config) \subseteq Save
    BY <2>1, BegunTyped DEF Savers
  <2>4. learned \in Process
    BY <1>1, <2>3 DEF Process
  <2>5. x \in Process
    <3> HIDE DEF learned
    <3>1. QED
      BY <2>1, <2>4 DEF Process
  <2>6. proc' \in [Procs -> Process]
    <3> HIDE DEF x
    <3>1. QED
      BY <2>2, <2>5
  <2>7. QED
    BY <1>3, <2>2, <2>6, Retyped DEF HeartbeatOrg
<1>4. CASE \E from \in {"gear", "tray"} : OpenSettings(p, from)
  <2>1. PICK from \in {"gear", "tray"} : OpenSettings(p, from)
    BY <1>4
  <2>2. [from |-> from, always |-> proc[p].exec.always] \in Window
    BY <1>1 DEF Window, Config
  <2>3. proc' \in [Procs -> Process]
    BY <2>1, <2>2 DEF OpenSettings, Process
  <2>4. QED
    BY <2>1, <2>3, Retyped DEF OpenSettings
<1>5. CASE \E m \in Modes, keep \in SUBSET Prints : SaveSettings(p, m, keep)
  <2>1. PICK m \in Modes, keep \in SUBSET Prints : SaveSettings(p, m, keep)
    BY <1>5
  <2> DEFINE updated == [proc[p].exec EXCEPT !.mode = m, !.always = keep]
  <2>2. updated \in Config
    BY <1>1 DEF Config
  <2>3. /\ proc' = [proc EXCEPT ![p].saves = @ \cup Begun("window", updated)]
        /\ wanted' = [mode |-> m, always |-> wanted.always \ (proc[p].window.always \ keep)]
        /\ trouble' \subseteq Troubles
    BY <2>1 DEF SaveSettings, Hurried, Warn, If, Troubles
  <2> HIDE DEF updated
  <2>4. Begun("window", updated) \subseteq Save
    BY <2>2, BegunTyped DEF Savers
  <2>5. proc' \in [Procs -> Process]
    BY <1>1, <2>3, <2>4 DEF Process
  <2>6. wanted' \in Wish
    BY <2>3 DEF Wish
  <2>7. QED
    BY <2>1, <2>3, <2>5, <2>6, Retyped DEF SaveSettings
<1>6. CASE CloseSettings(p)
  <2>1. proc' \in [Procs -> Process]
    BY <1>6, ConfigTyped DEF CloseSettings, Process
  <2>2. QED
    BY <1>6, <2>1, Retyped DEF CloseSettings
<1>7. CASE SaveOpens(p)
  <2>1. PICK s \in proc[p].saves :
          proc' = [proc EXCEPT ![p].saves = (@ \ {s}) \cup {[s EXCEPT !.at = "open"]}]
    BY <1>7 DEF SaveOpens
  <2>2. [s EXCEPT !.at = "open"] \in Save
    BY <1>1 DEF Save
  <2>3. proc' \in [Procs -> Process]
    BY <1>1, <2>1, <2>2 DEF Process
  <2>4. trouble' \subseteq Troubles
    BY <1>7 DEF SaveOpens, Warn, If, Troubles
  <2>5. QED
    BY <1>7, <2>3, <2>4, Retyped DEF SaveOpens
<1>8. CASE SaveWrites(p)
  <2>1. PICK s \in proc[p].saves : Over(p, s) /\ yaml' \in {s.config, NoConfig}
    BY <1>8 DEF SaveWrites
  <2>2. yaml' \in Config \cup {NoConfig}
    BY <1>1, <2>1 DEF Save
  <2>3. trouble' \subseteq Troubles
    BY <1>8 DEF SaveWrites, Warn, If, Troubles
  <2>4. QED
    BY <1>8, <2>1, <2>2, <2>3, OverTyped, Retyped DEF SaveWrites
<1>9. CASE SaveFails(p)
  <2>1. PICK s \in proc[p].saves : Over(p, s)
    BY <1>9 DEF SaveFails
  <2>2. trouble' \subseteq Troubles
    BY <1>9 DEF SaveFails, Warn, Troubles
  <2>3. QED
    BY <1>9, <2>1, <2>2, OverTyped, Retyped DEF SaveFails
<1>10. CASE OnSave(p)
  <2>1. PICK s \in proc[p].saves :
          proc' = [proc EXCEPT ![p] = Handed([proc[p] EXCEPT !.saves = @ \ {s}], s.config)]
    BY <1>10 DEF OnSave
  <2>2. s.config \in Config
    BY <1>1 DEF Save
  <2> DEFINE rest == [proc[p] EXCEPT !.saves = @ \ {s}]
             x    == Handed(rest, s.config)
  <2>3. rest \in Process
    BY <1>1 DEF Process
  <2>4. proc' = [proc EXCEPT ![p] = x]
    BY <2>1
  <2> HIDE DEF rest
  <2>5. x \in Process
    BY <2>2, <2>3, ConfigTyped DEF Handed, Process
  <2> HIDE DEF x
  <2>6. proc' \in [Procs -> Process]
    BY <2>4, <2>5
  <2>7. QED
    BY <1>10, <2>6, Retyped DEF OnSave
<1>11. QED
  BY <1>2, <1>3, <1>4, <1>5, <1>6, <1>7, <1>8, <1>9, <1>10 DEF Tuning

LEMMA RemovingTyped ==
    ASSUME LocalTypeOK, NEW p \in Procs, Removing(p)
    PROVE  LocalTypeOK'
<1> USE Types
<1>1. /\ Stages = {"idle", "server", "credentials", "yaml", "scripts", "stop", "relaunch", "quit"}
      /\ "stopping" \in Phases
  BY DEF Stages, Phases
<1>2. proc[p] \in Process /\ proc[p].token \in Regs \cup {NoReg}
  BY DEF Process
<1>3. proc' \in [Procs -> Process]
  <2>1. CASE Reset(p) \/ ResetServer(p) \/ ResetScripts(p)
    BY <1>1, <2>1 DEF Reset, ResetServer, ResetScripts, Process
  <2>2. CASE ResetClears(p)
    <3>1. \/ proc' = [proc EXCEPT ![p].reset = "yaml"]
          \/ proc' = [proc EXCEPT ![p].reset = "scripts"]
          \/ proc' = [proc EXCEPT ![p].reset = "relaunch", ![p].failed = TRUE]
      BY <2>2 DEF ResetClears
    <3>2. QED
      BY <1>1, <3>1 DEF Process
  <2>3. CASE Revoked(p) \/ RevokeClears(p)
    <3>1. \/ proc' = [proc EXCEPT ![p].revoke = "credentials"]
          \/ proc' = [proc EXCEPT ![p].revoke = "yaml"]
          \/ proc' = [proc EXCEPT ![p].revoke = "stop"]
      BY <2>3 DEF Revoked, RevokeClears
    <3>2. QED
      BY <1>1, <3>1 DEF Process
  <2>4. CASE RevokeStops(p)
    <3> DEFINE x == [proc[p] EXCEPT !.revoke = "relaunch", !.phase = "stopping"]
    <3>1. proc' = [proc EXCEPT ![p] = x]
      BY <2>4 DEF RevokeStops
    <3>2. x \in Process
      BY <1>1, <1>2 DEF Process
    <3>3. QED
      BY <3>1, <3>2
  <2>5. QED
    BY <2>1, <2>2, <2>3, <2>4 DEF Removing
<1>4. CASE ResetClears(p) \/ RevokeClears(p)
  <2>1. ClearCredentials(p) \/ ClearYaml \/ ClearFails
    BY <1>4 DEF ResetClears, RevokeClears
  <2>2. /\ creds' \in {creds, NoReg} /\ yaml' \in {yaml, NoConfig}
        /\ cleared' \subseteq Regs /\ trouble' \subseteq Troubles
    <3>1. CASE ClearCredentials(p)
      BY <1>2, <3>1 DEF ClearCredentials, Warn, If, Troubles
    <3>2. CASE ClearYaml \/ ClearFails
      BY <3>2 DEF ClearYaml, ClearFails, Warn, Troubles
    <3>3. QED
      BY <2>1, <3>1, <3>2
  <2>3. wanted' \in Wish
    <3>1. wanted' = wanted \/ wanted' = [mode |-> DefaultMode, always |-> {}]
      BY <2>1 DEF ClearCredentials, ClearYaml, ClearFails
    <3>2. QED
      BY <3>1, LocalAssumption DEF Wish
  <2>4. UNCHANGED <<env, live, spent>>
    BY <1>4 DEF ResetClears, RevokeClears
  <2>5. QED
    BY <1>3, <2>2, <2>3, <2>4, Retyped
<1>5. CASE Reset(p) \/ ResetServer(p) \/ ResetScripts(p) \/ Revoked(p) \/ RevokeStops(p)
  <2>1. /\ UNCHANGED <<env, creds, yaml, spent, wanted, cleared>> /\ live' \subseteq live
        /\ trouble' \subseteq Troubles
    BY <1>5 DEF Reset, ResetServer, ResetScripts, Revoked, RevokeStops, Warn, If, Troubles
  <2>2. QED
    BY <1>3, <2>1, Retyped
<1>6. QED
  BY <1>4, <1>5 DEF Removing

LEMMA RelaunchingTyped ==
    ASSUME LocalTypeOK, NEW p \in Procs, Relaunching(p)
    PROVE  LocalTypeOK'
<1> USE Types
<1>1. Stages = {"idle", "server", "credentials", "yaml", "scripts", "stop", "relaunch", "quit"}
  BY DEF Stages
<1>2. proc[p] \in Process /\ Booted(Token(FilteredEnv)) \in Process
  <2>1. Token(FilteredEnv) \in Regs \cup {NoReg}
    BY DEF Token, FilteredEnv
  <2>2. QED
    BY <2>1, BootedTyped
<1>3. ASSUME NEW self \in Process, Relaunched(p, self)
      PROVE  proc' \in [Procs -> Process]
  BY <1>2, <1>3 DEF Relaunched
<1>4. \A stage \in Stages : /\ [proc[p] EXCEPT !.reset = stage] \in Process
                            /\ [proc[p] EXCEPT !.revoke = stage] \in Process
  BY <1>2 DEF Process
<1>5. proc' \in [Procs -> Process]
  <2>1. CASE ResetRelaunches(p)
    <3>1. CASE Relaunched(p, [proc[p] EXCEPT !.reset = IF proc[p].failed THEN "idle" ELSE "quit"])
      BY <1>1, <1>3, <1>4, <3>1
    <3>2. CASE proc' = [proc EXCEPT ![p].reset = "idle", ![p].failed = TRUE]
      BY <1>1, <1>2, <3>2 DEF Process
    <3>3. QED
      BY <2>1, <3>1, <3>2 DEF ResetRelaunches
  <2>2. CASE RevokeRelaunches(p)
    <3>1. CASE Relaunched(p, [proc[p] EXCEPT !.revoke = "quit"])
      BY <1>1, <1>3, <1>4, <3>1
    <3>2. CASE proc' = [proc EXCEPT ![p].revoke = "quit"]
      BY <1>1, <1>4, <3>2
    <3>3. QED
      BY <2>2, <3>1, <3>2 DEF RevokeRelaunches
  <2>3. QED
    BY <2>1, <2>2 DEF Relaunching
<1>6. /\ UNCHANGED <<env, creds, yaml, live, spent, wanted, cleared>>
      /\ trouble' \subseteq Troubles
  BY DEF Relaunching, ResetRelaunches, RevokeRelaunches, Warn, Troubles
<1>7. QED
  BY <1>5, <1>6, Retyped

LEMMA LocalTyped ==
    ASSUME LocalTypeOK, LocalMoves
    PROVE  LocalTypeOK'
<1> USE Types
<1>1. CASE \E p \in Procs, shell \in BOOLEAN : Launch(p, shell)
  <2>1. PICK p \in Procs, shell \in BOOLEAN : Launch(p, shell)
    BY <1>1
  <2>2. Token(IF shell THEN env ELSE NoReg) \in Regs \cup {NoReg}
    BY DEF Token
  <2>3. proc' \in [Procs -> Process]
    BY <2>1, <2>2, BootedTyped DEF Launch
  <2>4. trouble' \subseteq Troubles
    BY <2>1 DEF Launch, Warn, If, Troubles
  <2>5. QED
    BY <2>1, <2>3, <2>4, Retyped DEF Launch
<1>2. CASE \E p \in Procs : StartSetup(p) \/ End(p)
  <2>1. PICK p \in Procs : StartSetup(p) \/ End(p)
    BY <1>2
  <2>2. [Down EXCEPT !.phase = "wizard", !.setup = TRUE] \in Process
    BY DownTyped DEF Process, Phases
  <2>3. proc' \in [Procs -> Process]
    BY <2>1, <2>2, DownTyped DEF StartSetup, End
  <2>4. trouble' \subseteq Troubles
    BY <2>1 DEF StartSetup, End, Beside, Warn, If, Troubles
  <2>5. UNCHANGED <<env, creds, yaml, live, spent, wanted, cleared>>
    BY <2>1 DEF StartSetup, End
  <2>6. QED
    BY <2>3, <2>4, <2>5, Retyped
<1>3. CASE \E m \in Modes : InitLocal(m)
  <2>1. PICK m \in Modes : InitLocal(m)
    BY <1>3
  <2>2. yaml' \in Config \cup {NoConfig} /\ wanted' \in Wish
    BY <2>1, ConfigTyped DEF InitLocal, Saves, SaveBreaks, Wants, Wish
  <2>3. trouble' \subseteq Troubles
    BY <2>1 DEF InitLocal, Saves, SaveBreaks, Beside, Warn, If, Troubles
  <2>4. QED
    BY <2>1, <2>2, <2>3, Retyped DEF InitLocal
<1>4. CASE RegisterCommand
  <2>1. PICK r \in Regs : RegisterAPI(r) /\ env' \in {env, r}
    BY <1>4 DEF RegisterCommand
  <2>2. trouble' \subseteq Troubles
    BY <1>4 DEF RegisterCommand, Beside, Warn, If, Troubles
  <2>3. QED
    BY <1>4, <2>1, <2>2, Retyped DEF RegisterCommand, RegisterAPI
<1>5. CASE \E r \in Regs : AdminDeletes(r)
  BY <1>5, Retyped DEF AdminDeletes
<1>6. CASE UNCHANGED localVars
  BY <1>6, Retyped DEF localVars
<1>7. QED
  BY <1>1, <1>2, <1>3, <1>4, <1>5, <1>6, SettlingTyped, TuningTyped, RemovingTyped,
     RelaunchingTyped DEF LocalMoves, Outside
-----------------------------------------------------------------------------
(* Their invariants *)

\* As long as the files were removed and the program was launched as meant, ...
Orderly == Without({"shell", "clearFailed", "relaunchFailed", "both"})
\* ... nothing was set up beside a process, ...
Unmixed == Orderly /\ Without({"beside"})
\* ... no process saved after it had removed its registration, ...
InTime  == Unmixed /\ Without({"lateSave"})
\* ... and every save went well, alone, and hit the list and the object it was
\* meant for.
Plain   == InTime /\ Without({"saveFailed", "overlap", "tray", "snapshot"})

\* The process that is the runner: it has not launched another.
Main(p) == Up(p) /\ ~proc[p].setup /\ proc[p].reset # "quit" /\ proc[p].revoke # "quit"

Starting == {"wizard", "registered", "saved"}

\* Where p has removed credentials.env, and runner.yaml.
Removed(p)     == \/ proc[p].reset \in {"yaml", "scripts", "relaunch", "quit"}
                  \/ proc[p].revoke \in {"yaml", "stop", "relaunch", "quit"}
YamlRemoved(p) == \/ proc[p].reset \in {"scripts", "relaunch"}
                  \/ proc[p].revoke \in {"stop", "relaunch"}

\* Registrations come from the platform.
KnownInv ==
    /\ env \in spent \cup {NoReg} /\ creds \in spent \cup {NoReg}
    /\ cleared \subseteq spent
    /\ \A p \in Procs : proc[p].token \in spent \cup {NoReg}

\* The window saves a copy of the object of the executors, and has more to do then.
SavesFit(p) ==
    \A s \in proc[p].saves : /\ s.by = "window" => s.config.log = proc[p].exec.log
                             /\ s.at = "written" => s.by = "window"

PhaseInv ==
    \A p \in Procs :
      /\ proc[p].reset # "idle" \/ proc[p].revoke # "idle" => Running(p)
      /\ proc[p].setup => proc[p].phase \in Starting \cup {"done"}
      /\ proc[p].phase \notin {"off", "wizard"} => proc[p].token # NoReg
      /\ proc[p].window # NoWindow => Running(p) /\ proc[p].window.from # "none"
      /\ proc[p].saves # {} => Running(p) /\ SavesFit(p)

OneInv ==
    Orderly =>
      /\ \A p, q \in Procs : Main(p) /\ Main(q) => p = q
      /\ \A p \in Procs : /\ ~proc[p].failed
                          /\ proc[p].reset = "idle" \/ proc[p].revoke = "idle"

\* A set-up is alone; credentials.env is that of the runner until it removes it.
FilesInv ==
    Unmixed =>
      /\ \A p, q \in Procs : Up(p) /\ proc[p].setup /\ Up(q) => p = q
      /\ \A p \in Procs : Removed(p) => proc[p].token \in cleared
      /\ \A p \in Procs : Main(p) =>
           /\ Removed(p) \/ proc[p].phase \in Starting => creds = NoReg
           /\ ~Removed(p) /\ proc[p].phase \notin Starting =>
                proc[p].token = IF creds = NoReg THEN env ELSE creds
           /\ ~Removed(p) => proc[p].token \notin cleared
      /\ "foreign" \notin trouble

\* The audit log is that of the registration; runner.yaml goes when it is removed.
LogInv ==
    InTime =>
      \A p \in Procs : Main(p) =>
        /\ proc[p].phase \in {"saved", "installing"} => proc[p].exec.log = NoReg
        /\ proc[p].phase = "naming" => proc[p].exec.log \in {NoReg, proc[p].token}
        /\ Running(p) => proc[p].exec.log = proc[p].token
        /\ YamlRemoved(p) => yaml = NoConfig

Choice(config) == [mode |-> config.mode, always |-> config.always]

\* The runner has no save under way that is still to reach runner.yaml.
Quiet == \A p \in Procs : Main(p) /\ ~YamlRemoved(p) => proc[p].saves = {}

\* One save at a time, of the only LocalConfig there is.
Tidy(p) ==
    /\ proc[p].copy = NoConfig
    /\ proc[p].window # NoWindow => proc[p].window.always = proc[p].exec.always
    /\ \A s, t \in proc[p].saves : s = t
    /\ \A s \in proc[p].saves : s.by = "window" => proc[p].window.from = "gear"

\* A save of p on its way into runner.yaml.
Underway(p, s) ==
    /\ Choice(s.config) = wanted
    /\ s.by # "window" => s.config = proc[p].exec
    /\ s.at = "open" => yaml = NoConfig
    /\ s.at = "written" => yaml = s.config

\* The copy in memory is runner.yaml, or what the save makes of it.
Backed(p) ==
    /\ proc[p].phase = "naming" =>
         /\ Choice(proc[p].exec) = wanted
         /\ proc[p].exec.log = NoReg \/ yaml = proc[p].exec
    /\ proc[p].phase \in {"saved", "installing", "serving", "stopping"} /\ ~YamlRemoved(p) =>
         /\ proc[p].saves = {} => yaml = proc[p].exec
         /\ \A s \in proc[p].saves : Underway(p, s)

\* runner.yaml holds the operator's choices, and the runner's copy is that file.
SettingsInv ==
    Plain =>
      /\ Quiet => Choice(Loaded) = wanted
      /\ \A p \in Procs : Tidy(p) /\ (Main(p) => Backed(p))

LocalInv ==
    /\ LocalTypeOK
    /\ KnownInv
    /\ PhaseInv
    /\ OneInv
    /\ FilesInv
    /\ LogInv
    /\ SettingsInv

LEMMA BackThen ==
    ASSUME LocalMoves
    PROVE  /\ Orderly' => Orderly
           /\ Unmixed' => Unmixed /\ Orderly'
           /\ InTime' => InTime /\ Unmixed'
           /\ Plain' => Plain /\ InTime'
BY TroubleGrows DEF Orderly, Unmixed, InTime, Plain, Without

LEMMA BootedIs ==
    ASSUME NEW token
    PROVE  /\ Booted(token).phase = IF token = NoReg THEN "wizard" ELSE "naming"
           /\ Booted(token).token = token
           /\ Booted(token).exec = IF token = NoReg THEN Default ELSE Loaded
           /\ ~Booted(token).setup /\ ~Booted(token).failed
           /\ Booted(token).copy = NoConfig /\ Booted(token).window = NoWindow
           /\ Booted(token).reset = "idle" /\ Booted(token).revoke = "idle"
           /\ Booted(token).saves = {}
BY DEF Booted, Down

LEMMA NoRegIsNone ==
    ASSUME LocalTypeOK, KnownInv
    PROVE  NoReg \notin spent /\ NoReg \notin cleared
BY LocalAssumption DEF LocalTypeOK, KnownInv

LEMMA LaunchKeeps ==
    ASSUME LocalInv, LocalMoves, NEW p \in Procs, NEW shell \in BOOLEAN, Launch(p, shell)
    PROVE  LocalInv'
<1> DEFINE token == Token(IF shell THEN env ELSE NoReg)
<1>1. LocalTypeOK /\ KnownInv /\ PhaseInv /\ OneInv /\ FilesInv /\ LogInv /\ SettingsInv
  BY DEF LocalInv
<1>2. proc \in [Procs -> Process] /\ yaml \in Config \cup {NoConfig}
  BY <1>1, Types
<1>3. /\ token \in {env, creds} /\ (token = NoReg => creds = NoReg)
      /\ creds = NoReg => token \in {env, NoReg}
      /\ token # creds => token = env /\ token # NoReg
  BY DEF Token
<1>4. /\ \A q \in Procs : ~Up(q)
      /\ proc' = [proc EXCEPT ![p] = Booted(token)]
      /\ UNCHANGED <<env, creds, yaml, live, spent, wanted, cleared>>
      /\ trouble' = trouble \cup If(/\ token # NoReg
                                    /\ {creds, Loaded.log} \ {NoReg, token} # {}
                                       \/ token \in cleared, "shell")
  BY DEF Launch, Warn
<1> HIDE DEF token
<1>5. /\ proc'[p] = Booted(token)
      /\ \A q \in Procs : q # p => proc'[q] = proc[q] /\ ~Up(q)'
  BY <1>2, <1>4 DEF Up
<1>6. Orderly' /\ token # NoReg =>
        creds \in {NoReg, token} /\ Loaded.log \in {NoReg, token} /\ token \notin cleared
  BY <1>4 DEF Orderly, Without, If
<1>7. \A q \in Procs : Main(q)' => q = p
  BY <1>5 DEF Main, Up
<1>8. KnownInv'
  BY <1>1, <1>3, <1>4, <1>5, BootedIs DEF KnownInv
<1>9. PhaseInv'
  BY <1>1, <1>5, BootedIs DEF PhaseInv, SavesFit, Running, Up
<1>10. OneInv'
  BY <1>1, <1>5, <1>7, BootedIs, BackThen DEF OneInv
<1>11. FilesInv'
  BY <1>1, <1>3, <1>4, <1>5, <1>6, <1>7, BootedIs, BackThen, NoRegIsNone
     DEF FilesInv, Removed, Starting, If
<1>12. LogInv'
  BY <1>1, <1>5, <1>6, <1>7, BootedIs, BackThen DEF LogInv, YamlRemoved, Running
<1>13. SettingsInv'
  <2>1. Plain' => Plain
    BY BackThen
  <2>2. Loaded' = Loaded
    BY <1>4 DEF Loaded
  <2>3. Plain' => Choice(Loaded) = wanted /\ wanted' = wanted
    BY <1>1, <1>4, <2>1 DEF SettingsInv, Quiet, Main
  <2>4. Plain' => \A q \in Procs : Tidy(q)'
    BY <1>1, <1>5, <2>1, BootedIs DEF SettingsInv, Tidy
  <2>5. /\ proc'[p].phase \in {"wizard", "naming"}
        /\ proc'[p].phase = "naming" => proc'[p].exec = Loaded
    BY <1>5, BootedIs
  <2>6. Loaded.log = NoReg \/ yaml = Loaded
    BY DEF Loaded, Default
  <2>7. Plain' => Backed(p)'
    BY <1>4, <2>3, <2>5, <2>6 DEF Backed, Choice
  <2>8. Plain' => Choice(Loaded)' = wanted'
    BY <2>2, <2>3 DEF Choice
  <2>9. QED
    BY <1>7, <2>4, <2>7, <2>8 DEF SettingsInv
<1>14. QED
  BY <1>1, <1>8, <1>9, <1>10, <1>11, <1>12, <1>13, LocalTyped DEF LocalInv

\* Nothing of q changes that the files depend on.
Steady(q) ==
    /\ proc'[q].setup = proc[q].setup /\ proc'[q].token = proc[q].token
    /\ Up(q)' <=> Up(q)
    /\ Main(q)' <=> Main(q)
    /\ Removed(q)' <=> Removed(q)
    /\ proc'[q].phase \in Starting <=> proc[q].phase \in Starting

LEMMA Framed ==
    ASSUME LocalInv, LocalMoves, UNCHANGED <<env, creds, cleared>>, spent \subseteq spent',
           \A q \in Procs : Steady(q), "foreign" \in trouble' => "foreign" \in trouble
    PROVE  /\ KnownInv' /\ FilesInv'
           /\ Orderly' => \A p, q \in Procs : Main(p)' /\ Main(q)' => p = q
<1>1. LocalTypeOK /\ KnownInv /\ OneInv /\ FilesInv
  BY DEF LocalInv
<1>2. KnownInv'
  BY <1>1 DEF KnownInv, Steady
<1>3. Orderly' => \A p, q \in Procs : Main(p)' /\ Main(q)' => p = q
  BY <1>1, BackThen DEF OneInv, Steady
<1>4. FilesInv'
  <2> SUFFICES ASSUME Unmixed'
               PROVE  /\ \A p, q \in Procs : Up(p)' /\ proc'[p].setup /\ Up(q)' => p = q
                      /\ \A p \in Procs : Removed(p)' => proc'[p].token \in cleared'
                      /\ \A p \in Procs : Main(p)' =>
                           /\ Removed(p)' \/ proc'[p].phase \in Starting => creds' = NoReg
                           /\ ~Removed(p)' /\ proc'[p].phase \notin Starting =>
                                proc'[p].token = IF creds' = NoReg THEN env' ELSE creds'
                           /\ ~Removed(p)' => proc'[p].token \notin cleared'
                      /\ "foreign" \notin trouble'
    BY DEF FilesInv
  <2>1. Unmixed
    BY BackThen
  <2>2. QED
    BY <1>1, <2>1 DEF FilesInv, Steady
<1>5. QED
  BY <1>2, <1>3, <1>4

\* A save that comes in time is one of the runner, before it has removed anything.
LEMMA InTimeSaver ==
    ASSUME LocalInv, Unmixed, NEW p \in Procs, Running(p), ~Late(p)
    PROVE  Main(p) /\ ~Removed(p) /\ ~YamlRemoved(p)
<1>1. PhaseInv /\ FilesInv
  BY DEF LocalInv
<1>2. ~Removed(p)
  BY <1>1 DEF FilesInv, Late
<1>3. Up(p) /\ ~proc[p].setup
  BY <1>1 DEF PhaseInv, Running, Up, Starting
<1>4. QED
  BY <1>2, <1>3 DEF Main, Removed, YamlRemoved

\* A process on its way to serve is the runner, unless it only sets up.
LEMMA Settler ==
    ASSUME LocalInv, NEW p \in Procs, Up(p), ~Running(p)
    PROVE  /\ ~Removed(p) /\ ~YamlRemoved(p) /\ proc[p].window = NoWindow
           /\ proc[p].reset = "idle" /\ proc[p].revoke = "idle" /\ proc[p].saves = {}
           /\ ~proc[p].setup => Main(p)
           /\ Unmixed => Quiet /\ \A q \in Procs : Main(q) => q = p
<1>1. PhaseInv /\ OneInv /\ FilesInv
  BY DEF LocalInv
<1>2. /\ proc[p].reset = "idle" /\ proc[p].revoke = "idle" /\ proc[p].window = NoWindow
      /\ proc[p].saves = {}
  BY <1>1 DEF PhaseInv
<1>3. ~Removed(p) /\ ~YamlRemoved(p)
  BY <1>2 DEF Removed, YamlRemoved
<1>4. ~proc[p].setup => Main(p)
  BY <1>2 DEF Main
<1>5. Unmixed => \A q \in Procs : Main(q) => q = p
  BY <1>1, <1>4 DEF OneInv, FilesInv, Unmixed, Main
<1>6. QED
  BY <1>2, <1>3, <1>4, <1>5 DEF Quiet

LEMMA StartSetupKeeps ==
    ASSUME LocalInv, LocalMoves, NEW p \in Procs, StartSetup(p)
    PROVE  LocalInv'
<1>1. LocalTypeOK /\ KnownInv /\ PhaseInv /\ OneInv /\ FilesInv /\ LogInv /\ SettingsInv
  BY DEF LocalInv
<1>2. proc \in [Procs -> Process] /\ yaml \in Config \cup {NoConfig}
  BY <1>1, Types
<1>3. /\ ~Up(p)
      /\ proc' = [proc EXCEPT ![p] = [Down EXCEPT !.phase = "wizard", !.setup = TRUE]]
      /\ UNCHANGED <<env, creds, yaml, live, spent, wanted, cleared>>
      /\ trouble' = trouble \cup If(\E q \in Procs : Up(q), "beside")
  BY DEF StartSetup, Beside, Warn
<1>4. /\ proc'[p].phase = "wizard" /\ proc'[p].setup /\ proc'[p].token = NoReg
      /\ proc'[p].reset = "idle" /\ proc'[p].revoke = "idle" /\ ~proc'[p].failed
      /\ proc'[p].copy = NoConfig /\ proc'[p].window = NoWindow /\ proc'[p].saves = {}
      /\ \A q \in Procs : q # p => proc'[q] = proc[q]
  BY <1>2, <1>3 DEF Down
<1>5. \A q \in Procs : Main(q)' => q # p /\ Main(q)
  BY <1>4 DEF Main, Up
<1>6. Unmixed' => \A q \in Procs : ~Up(q)
  BY <1>3 DEF Unmixed, Without, If
<1>7. Unmixed' => \A q \in Procs : ~Main(q)' /\ ~Removed(q)'
  <2>1. \A q \in Procs : ~Up(q) => ~Main(q) /\ ~Removed(q)
    BY <1>1 DEF Main, Up, PhaseInv, Running, Removed
  <2>2. ~Removed(p)'
    BY <1>4 DEF Removed
  <2>3. \A q \in Procs : q # p /\ ~Removed(q) => ~Removed(q)'
    BY <1>4 DEF Removed
  <2>4. QED
    BY <1>5, <1>6, <2>1, <2>2, <2>3
<1>8. KnownInv' /\ PhaseInv'
  BY <1>1, <1>3, <1>4 DEF KnownInv, PhaseInv, SavesFit, Running, Starting
<1>9. OneInv'
  BY <1>1, <1>4, <1>5, BackThen DEF OneInv
<1>10. FilesInv'
  <2>1. Unmixed' => \A q \in Procs : Up(q)' => q = p
    BY <1>4, <1>6 DEF Up
  <2>2. Unmixed' => "foreign" \notin trouble'
    BY <1>1, <1>3, BackThen DEF FilesInv, If
  <2>3. QED
    BY <1>7, <2>1, <2>2 DEF FilesInv
<1>11. LogInv'
  BY <1>7, BackThen DEF LogInv
<1>12. SettingsInv'
  <2>1. Plain' => Plain /\ Unmixed'
    BY BackThen
  <2>2. Plain' => Quiet
    BY <1>6, <2>1 DEF Quiet, Main
  <2>3. Plain' => Choice(Loaded)' = wanted'
    BY <1>1, <1>3, <2>1, <2>2 DEF SettingsInv, Choice, Loaded
  <2>4. Plain' => \A q \in Procs : Tidy(q)'
    BY <1>1, <1>4, <2>1 DEF SettingsInv, Tidy
  <2>5. QED
    BY <1>7, <2>1, <2>3, <2>4 DEF SettingsInv
<1>13. QED
  BY <1>1, <1>8, <1>9, <1>10, <1>11, <1>12, LocalTyped DEF LocalInv

LEMMA EndKeeps ==
    ASSUME LocalInv, LocalMoves, NEW p \in Procs, End(p)
    PROVE  LocalInv'
<1>1. LocalTypeOK /\ KnownInv /\ PhaseInv /\ OneInv /\ FilesInv /\ LogInv /\ SettingsInv
  BY DEF LocalInv
<1>2. proc \in [Procs -> Process] /\ proc[p].saves \subseteq Save
  BY <1>1, Types DEF Process
<1>3. /\ UNCHANGED <<env, creds, yaml, live, spent, wanted, cleared>>
      /\ trouble' = trouble \cup If(\E s \in proc[p].saves : s.at # "written", "saveFailed")
  BY DEF End, Warn
<1>4. /\ proc'[p] = Down
      /\ \A q \in Procs : q # p => proc'[q] = proc[q]
  BY <1>2 DEF End
<1>5. \A q \in Procs : /\ Up(q)' => q # p /\ Up(q)
                       /\ Main(q)' => q # p /\ Main(q)
                       /\ Removed(q)' => q # p /\ Removed(q)
  BY <1>4 DEF Main, Up, Removed, Down
<1>6. KnownInv'
  BY <1>1, <1>3, <1>4 DEF KnownInv, Down
<1>7. PhaseInv'
  BY <1>1, <1>4 DEF PhaseInv, SavesFit, Running, Down
<1>8. OneInv'
  BY <1>1, <1>4, <1>5, BackThen DEF OneInv, Down
<1>9. FilesInv'
  <2>1. Unmixed' => Unmixed
    BY BackThen
  <2>2. Unmixed' => \A q, r \in Procs : Up(q)' /\ proc'[q].setup /\ Up(r)' => q = r
    BY <1>1, <1>4, <1>5, <2>1 DEF FilesInv
  <2>3. Unmixed' => \A q \in Procs : Removed(q)' => proc'[q].token \in cleared'
    BY <1>1, <1>3, <1>4, <1>5, <2>1 DEF FilesInv
  <2>4. \A q \in Procs : q # p => (Removed(q)' <=> Removed(q))
    BY <1>4 DEF Removed
  <2>5. "foreign" \in trouble' => "foreign" \in trouble
    BY <1>3 DEF If
  <2>6. QED
    BY <1>1, <1>3, <1>4, <1>5, <2>1, <2>2, <2>3, <2>4, <2>5 DEF FilesInv
<1>10. LogInv'
  BY <1>1, <1>3, <1>4, <1>5, BackThen DEF LogInv, YamlRemoved, Running
<1>11. SettingsInv'
  <2>1. Plain' => Plain /\ Orderly /\ "saveFailed" \notin trouble'
    BY BackThen DEF InTime, Unmixed, Plain, Without
  <2>2. ASSUME Plain', Quiet'
        PROVE  Choice(Loaded) = wanted
    <3>1. CASE Quiet
      BY <1>1, <2>1, <2>2, <3>1 DEF SettingsInv
    <3>2. CASE ~Quiet
      <4>1. PICK q \in Procs : Main(q) /\ ~YamlRemoved(q) /\ proc[q].saves # {}
        BY <3>2 DEF Quiet
      <4>2. q = p
        BY <1>4, <2>2, <4>1 DEF Quiet, Main, Up, YamlRemoved
      <4>3. PICK s \in proc[p].saves : s.at = "written"
        BY <1>3, <2>1, <2>2, <4>1, <4>2 DEF If
      <4>4. Underway(p, s)
        BY <1>1, <2>1, <2>2, <4>1, <4>2, <4>3 DEF SettingsInv, Backed, PhaseInv, Running
      <4>5. s.config \in Config
        BY <1>2, <4>3 DEF Save
      <4>6. Loaded = s.config
        BY <4>3, <4>4, <4>5, ConfigAssumption DEF Underway, Loaded
      <4>7. QED
        BY <4>4, <4>6 DEF Underway
    <3>3. QED
      BY <3>1, <3>2
  <2>3. Plain' /\ Quiet' => Choice(Loaded)' = wanted'
    BY <1>3, <2>2 DEF Choice, Loaded
  <2>4. Plain' => \A q \in Procs : Tidy(q)'
    BY <1>1, <1>4, <2>1 DEF SettingsInv, Tidy, Down
  <2>5. Plain' => \A q \in Procs : Main(q)' => Backed(q)'
    BY <1>1, <1>3, <1>4, <1>5, <2>1 DEF SettingsInv, Backed, Underway, Choice, YamlRemoved
  <2>6. QED
    BY <2>3, <2>4, <2>5 DEF SettingsInv
<1>12. QED
  BY <1>1, <1>6, <1>7, <1>8, <1>9, <1>10, <1>11, LocalTyped DEF LocalInv

LEMMA OutsideKeeps ==
    ASSUME LocalInv, LocalMoves, Outside
    PROVE  LocalInv'
<1>1. LocalTypeOK /\ KnownInv /\ PhaseInv /\ OneInv /\ FilesInv /\ LogInv /\ SettingsInv
  BY DEF LocalInv
<1>2. proc \in [Procs -> Process] /\ yaml \in Config \cup {NoConfig}
  BY <1>1, Types
<1>3. proc' = proc /\ UNCHANGED <<creds, cleared>> /\ spent \subseteq spent'
  BY DEF Outside, InitLocal, RegisterCommand, RegisterAPI, AdminDeletes, localVars
<1>4. "foreign" \in trouble' => "foreign" \in trouble
  BY DEF Outside, InitLocal, Saves, SaveBreaks, RegisterCommand, Beside, Warn, If, AdminDeletes,
         localVars
<1>5. \A q \in Procs : Steady(q)
  BY <1>3 DEF Steady, Up, Main, Removed
<1>6. PhaseInv'
  BY <1>1, <1>3 DEF PhaseInv, SavesFit, Running
<1>7. CASE (\E r \in Regs : AdminDeletes(r)) \/ UNCHANGED localVars
  <2>1. UNCHANGED <<env, yaml, wanted>>
    BY <1>7 DEF AdminDeletes, localVars
  <2>2. KnownInv' /\ FilesInv' /\ (Orderly' => \A p, q \in Procs : Main(p)' /\ Main(q)' => p = q)
    BY <1>3, <1>4, <1>5, <2>1, Framed
  <2>3. OneInv'
    BY <1>1, <1>3, <2>2, BackThen DEF OneInv
  <2>4. LogInv'
    BY <1>1, <1>3, <2>1, BackThen DEF LogInv, Main, Up, YamlRemoved, Running
  <2>5. SettingsInv'
    BY <1>1, <1>3, <2>1, BackThen DEF SettingsInv, Tidy, Backed, Underway, Quiet, Main, Up,
       YamlRemoved, Loaded, Choice
  <2>6. QED
    BY <1>1, <1>6, <2>2, <2>3, <2>4, <2>5, LocalTyped DEF LocalInv
<1>8. CASE (\E m \in Modes : InitLocal(m)) \/ RegisterCommand
  <2>1. KnownInv'
    BY <1>1, <1>3, <1>8 DEF KnownInv, InitLocal, RegisterCommand, RegisterAPI
  <2>2. OneInv'
    BY <1>1, <1>3, BackThen DEF OneInv, Main, Up
  <2>3. If(\E q \in Procs : Up(q), "beside") \subseteq trouble'
    BY <1>8 DEF InitLocal, Saves, SaveBreaks, RegisterCommand, Beside, Warn
  <2>4. Unmixed' => \A q \in Procs : ~Up(q)'
    BY <1>3, <2>3 DEF Unmixed, Without, If, Up
  <2>5. Unmixed' => \A q \in Procs : ~Main(q)' /\ ~Removed(q)'
    BY <1>6, <2>4 DEF Main, Up, PhaseInv, Running, Removed
  <2>6. FilesInv'
    BY <1>1, <1>4, <2>4, <2>5, BackThen DEF FilesInv
  <2>7. LogInv'
    BY <2>5, BackThen DEF LogInv
  <2>8. SettingsInv'
    <3>1. Plain' => Plain /\ Unmixed' /\ "saveFailed" \notin trouble'
      BY BackThen DEF Plain, Without
    <3>2. ASSUME NEW m \in Modes, InitLocal(m), Plain'
          PROVE  Choice(Loaded)' = wanted'
      <4>1. yaml' = Chosen(m) /\ yaml' # NoConfig /\ wanted' = [mode |-> m, always |-> {}]
        BY <3>1, <3>2, ConfigTyped, ConfigAssumption
           DEF InitLocal, Saves, SaveBreaks, Warn, Wants
      <4>2. Loaded' = Chosen(m)
        BY <4>1 DEF Loaded
      <4>3. QED
        BY <4>1, <4>2 DEF Choice, Chosen, Default
    <3>3. ASSUME RegisterCommand, Plain'
          PROVE  Choice(Loaded)' = wanted'
      <4>1. Quiet
        BY <1>3, <2>4, <3>1, <3>3 DEF Quiet, Main, Up
      <4>2. QED
        BY <1>1, <3>1, <3>3, <4>1 DEF SettingsInv, RegisterCommand, Choice, Loaded
    <3>4. Plain' => \A q \in Procs : Tidy(q)'
      BY <1>1, <1>3, <3>1 DEF SettingsInv, Tidy
    <3>5. QED
      BY <1>8, <2>5, <3>1, <3>2, <3>3, <3>4 DEF SettingsInv
  <2>9. QED
    BY <1>1, <1>6, <2>1, <2>2, <2>6, <2>7, <2>8, LocalTyped DEF LocalInv
<1>9. QED
  BY <1>7, <1>8 DEF Outside

LEMMA RegisterKeeps ==
    ASSUME LocalInv, LocalMoves, NEW p \in Procs, Register(p)
    PROVE  LocalInv'
<1>1. LocalTypeOK /\ KnownInv /\ PhaseInv /\ OneInv /\ FilesInv /\ LogInv /\ SettingsInv
  BY DEF LocalInv
<1>2. proc \in [Procs -> Process] /\ yaml \in Config \cup {NoConfig}
  BY <1>1, Types
<1>3. PICK r \in Regs : /\ r \notin spent /\ spent' = spent \cup {r}
                        /\ \/ proc' = [proc EXCEPT ![p].phase = "registered", ![p].token = r]
                           \/ proc' = proc
  BY DEF Register, RegisterAPI
<1>4. proc[p].phase = "wizard" /\ UNCHANGED <<env, creds, yaml, wanted, cleared, trouble>>
  BY DEF Register
<1>5. CASE proc' = proc
  <2>1. \A q \in Procs : Steady(q)
    BY <1>5 DEF Steady, Up, Main, Removed
  <2>2. KnownInv' /\ FilesInv' /\ (Orderly' => \A q, v \in Procs : Main(q)' /\ Main(v)' => q = v)
    BY <1>3, <1>4, <2>1, Framed
  <2>3. OneInv' /\ PhaseInv'
    BY <1>1, <1>5, <2>2, BackThen DEF OneInv, PhaseInv, SavesFit, Running
  <2>4. LogInv'
    BY <1>1, <1>4, <1>5, BackThen DEF LogInv, Main, Up, YamlRemoved, Running
  <2>5. SettingsInv'
    BY <1>1, <1>4, <1>5, BackThen DEF SettingsInv, Tidy, Backed, Underway, Quiet, Main, Up,
       YamlRemoved, Loaded, Choice
  <2>6. QED
    BY <1>1, <2>2, <2>3, <2>4, <2>5, LocalTyped DEF LocalInv
<1>6. CASE proc' = [proc EXCEPT ![p].phase = "registered", ![p].token = r]
  <2> DEFINE x == [proc[p] EXCEPT !.phase = "registered", !.token = r]
  <2>1. proc' = [proc EXCEPT ![p] = x]
    BY <1>6
  <2>2. /\ proc'[p] = x /\ proc[p] \in Process
        /\ \A q \in Procs : q # p => proc'[q] = proc[q]
    BY <1>2, <2>1
  <2>3. /\ proc'[p].phase = "registered" /\ proc'[p].token = r
        /\ proc'[p].setup = proc[p].setup /\ proc'[p].exec = proc[p].exec
        /\ proc'[p].copy = proc[p].copy /\ proc'[p].window = proc[p].window
        /\ proc'[p].reset = proc[p].reset /\ proc'[p].revoke = proc[p].revoke
        /\ proc'[p].failed = proc[p].failed /\ proc'[p].saves = proc[p].saves
    BY <2>2 DEF Process
  <2> HIDE DEF x
  <2>4. Up(p) /\ ~Running(p) /\ r # NoReg /\ r \notin cleared
    BY <1>1, <1>3, <1>4, LocalAssumption DEF Up, Running, KnownInv
  <2>5. /\ ~Removed(p) /\ proc[p].window = NoWindow
        /\ proc[p].reset = "idle" /\ proc[p].revoke = "idle" /\ proc[p].saves = {}
        /\ Unmixed => Quiet
    BY <2>4, Settler
  <2>6. \A q \in Procs : /\ Up(q)' <=> Up(q)
                         /\ Main(q)' <=> Main(q)
                         /\ Removed(q)' <=> Removed(q)
    BY <1>4, <2>2, <2>3 DEF Up, Main, Removed
  <2>7. KnownInv'
    BY <1>1, <1>3, <1>4, <2>2, <2>3 DEF KnownInv
  <2>8. PhaseInv'
    BY <1>1, <1>4, <2>2, <2>3, <2>4, <2>5 DEF PhaseInv, SavesFit, Running, Starting
  <2>9. OneInv'
    BY <1>1, <2>2, <2>3, <2>6, BackThen DEF OneInv
  <2>10. FilesInv'
    <3>1. Unmixed' => Unmixed
      BY BackThen
    <3>2. Unmixed' => \A q \in Procs : Main(q)' =>
             /\ Removed(q)' \/ proc'[q].phase \in Starting => creds' = NoReg
             /\ ~Removed(q)' /\ proc'[q].phase \notin Starting =>
                  proc'[q].token = IF creds' = NoReg THEN env' ELSE creds'
             /\ ~Removed(q)' => proc'[q].token \notin cleared'
      BY <1>1, <1>4, <2>2, <2>3, <2>4, <2>6, <3>1 DEF FilesInv, Starting
    <3>3. Unmixed' => \A q \in Procs : Removed(q)' => proc'[q].token \in cleared'
      BY <1>1, <1>4, <2>2, <2>5, <2>6, <3>1 DEF FilesInv
    <3>4. Unmixed' => \A q, v \in Procs : Up(q)' /\ proc'[q].setup /\ Up(v)' => q = v
      BY <1>1, <2>2, <2>3, <2>6, <3>1 DEF FilesInv
    <3>5. QED
      BY <1>1, <1>4, <3>1, <3>2, <3>3, <3>4 DEF FilesInv
  <2>11. LogInv'
    BY <1>1, <1>4, <2>2, <2>3, <2>5, <2>6, BackThen DEF LogInv, YamlRemoved, Running
  <2>12. SettingsInv'
    <3>1. Plain' => Plain /\ Unmixed
      BY BackThen
    <3>2. Plain' => Choice(Loaded)' = wanted'
      BY <1>1, <1>4, <2>5, <3>1 DEF SettingsInv, Choice, Loaded
    <3>3. Plain' => \A q \in Procs : Tidy(q)'
      BY <1>1, <2>2, <2>3, <3>1 DEF SettingsInv, Tidy
    <3>4. Plain' => \A q \in Procs : Main(q)' => Backed(q)'
      BY <1>1, <1>4, <2>2, <2>3, <2>6, <3>1
         DEF SettingsInv, Backed, Underway, Choice, YamlRemoved
    <3>5. QED
      BY <3>2, <3>3, <3>4 DEF SettingsInv
  <2>13. QED
    BY <1>1, <2>7, <2>8, <2>9, <2>10, <2>11, <2>12, LocalTyped DEF LocalInv
<1>7. QED
  BY <1>3, <1>5, <1>6

LEMMA BrokenKeeps ==
    ASSUME LocalInv, LocalMoves, SaveBreaks({}),
           UNCHANGED <<env, creds, live, spent, proc, wanted, cleared>>
    PROVE  LocalInv'
<1>1. LocalTypeOK /\ PhaseInv /\ OneInv /\ LogInv
  BY DEF LocalInv
<1>2. yaml' \in {yaml, NoConfig} /\ trouble' = trouble \cup {"saveFailed"}
  BY DEF SaveBreaks, Warn
<1>3. \A q \in Procs : Steady(q)
  BY DEF Steady, Up, Main, Removed
<1>4. KnownInv' /\ FilesInv' /\ (Orderly' => \A q, v \in Procs : Main(q)' /\ Main(v)' => q = v)
  BY <1>2, <1>3, Framed
<1>5. PhaseInv'
  BY <1>1 DEF PhaseInv, SavesFit, Running
<1>6. OneInv'
  BY <1>1, <1>4, BackThen DEF OneInv
<1>7. LogInv'
  BY <1>1, <1>2, BackThen DEF LogInv, Main, Up, YamlRemoved, Running
<1>8. SettingsInv'
  BY <1>2 DEF SettingsInv, Plain, Without
<1>9. QED
  BY <1>1, <1>4, <1>5, <1>6, <1>7, <1>8, LocalTyped DEF LocalInv

LEMMA WizardSavesKeeps ==
    ASSUME LocalInv, LocalMoves, NEW p \in Procs, NEW m \in Modes, WizardSaves(p, m)
    PROVE  LocalInv'
<1> DEFINE x == [proc[p] EXCEPT !.phase = "saved", !.exec = Chosen(m)]
<1>1. LocalTypeOK /\ KnownInv /\ PhaseInv /\ OneInv /\ FilesInv /\ LogInv /\ SettingsInv
  BY DEF LocalInv
<1>2. proc \in [Procs -> Process] /\ yaml \in Config \cup {NoConfig}
  BY <1>1, Types
<1> SUFFICES ASSUME ~(SaveBreaks({}) /\ UNCHANGED <<proc, wanted>>)
             PROVE  LocalInv'
  BY BrokenKeeps DEF WizardSaves
<1>3. /\ proc[p].phase = "registered" /\ yaml' = Chosen(m)
      /\ proc' = [proc EXCEPT ![p] = x]
      /\ wanted' = [mode |-> m, always |-> {}]
      /\ UNCHANGED <<env, creds, live, spent, cleared, trouble>>
  BY DEF WizardSaves, Wants
<1>4. /\ proc'[p] = x /\ proc[p] \in Process
      /\ \A q \in Procs : q # p => proc'[q] = proc[q]
  BY <1>2, <1>3
<1>5. /\ proc'[p].phase = "saved" /\ proc'[p].exec = Chosen(m)
      /\ proc'[p].setup = proc[p].setup /\ proc'[p].token = proc[p].token
      /\ proc'[p].copy = proc[p].copy /\ proc'[p].window = proc[p].window
      /\ proc'[p].reset = proc[p].reset /\ proc'[p].revoke = proc[p].revoke
      /\ proc'[p].failed = proc[p].failed /\ proc'[p].saves = proc[p].saves
  BY <1>4 DEF Process
<1> HIDE DEF x
<1>6. Up(p) /\ ~Running(p)
  BY <1>3 DEF Up, Running
<1>7. /\ ~Removed(p) /\ proc[p].window = NoWindow
      /\ proc[p].reset = "idle" /\ proc[p].revoke = "idle" /\ proc[p].saves = {}
      /\ Unmixed => \A q \in Procs : Main(q) => q = p
  BY <1>6, Settler
<1>8. \A q \in Procs : Steady(q)
  BY <1>3, <1>4, <1>5 DEF Steady, Up, Main, Removed, Starting
<1>9. KnownInv' /\ FilesInv' /\ (Orderly' => \A q, v \in Procs : Main(q)' /\ Main(v)' => q = v)
  BY <1>3, <1>8, Framed
<1>10. PhaseInv'
  BY <1>1, <1>3, <1>4, <1>5, <1>7 DEF PhaseInv, SavesFit, Running, Starting
<1>11. OneInv'
  BY <1>1, <1>4, <1>5, <1>9, BackThen DEF OneInv
<1>12. /\ Chosen(m).log = NoReg /\ Choice(Chosen(m)) = [mode |-> m, always |-> {}]
       /\ Chosen(m) # NoConfig
  BY ConfigTyped, ConfigAssumption DEF Chosen, Default, Choice
<1>13. Unmixed' => \A q \in Procs : Main(q)' => q = p
  BY <1>7, <1>8, BackThen DEF Steady
<1>14. LogInv'
  BY <1>5, <1>7, <1>12, <1>13, BackThen DEF LogInv, YamlRemoved, Running
<1>15. SettingsInv'
  <2>1. Plain' => Plain /\ Unmixed'
    BY BackThen
  <2>2. Choice(Loaded)' = wanted'
    BY <1>3, <1>12 DEF Choice, Loaded
  <2>3. Plain' => \A q \in Procs : Tidy(q)'
    BY <1>1, <1>4, <1>5, <1>7, <2>1 DEF SettingsInv, Tidy
  <2>4. Backed(p)'
    BY <1>3, <1>5, <1>7 DEF Backed
  <2>5. QED
    BY <1>13, <2>1, <2>2, <2>3, <2>4 DEF SettingsInv
<1>16. QED
  BY <1>1, <1>9, <1>10, <1>11, <1>14, <1>15, LocalTyped DEF LocalInv

LEMMA WizardCredentialsKeeps ==
    ASSUME LocalInv, LocalMoves, NEW p \in Procs, WizardCredentials(p)
    PROVE  LocalInv'
<1>1. LocalTypeOK /\ KnownInv /\ PhaseInv /\ OneInv /\ FilesInv /\ LogInv /\ SettingsInv
  BY DEF LocalInv
<1>2. proc \in [Procs -> Process] /\ yaml \in Config \cup {NoConfig} /\ proc[p] \in Process
  BY <1>1, Types
<1>3. PICK phase \in {"done", "installing", "registered"} :
        /\ proc' = [proc EXCEPT ![p].phase = phase]
        /\ IF phase = "registered" THEN creds' \in {creds, NoReg} ELSE creds' = proc[p].token
        /\ phase = "installing" => ~proc[p].setup
        /\ phase = "done" => proc[p].setup
  BY DEF WizardCredentials, WriteCredentials
<1>4. /\ proc[p].phase = "saved"
      /\ UNCHANGED <<env, yaml, live, spent, wanted, cleared, trouble>>
  BY DEF WizardCredentials
<1>5. /\ proc'[p].phase = phase /\ proc'[p].exec = proc[p].exec
      /\ proc'[p].setup = proc[p].setup /\ proc'[p].token = proc[p].token
      /\ proc'[p].copy = proc[p].copy /\ proc'[p].window = proc[p].window
      /\ proc'[p].reset = proc[p].reset /\ proc'[p].revoke = proc[p].revoke
      /\ proc'[p].failed = proc[p].failed /\ proc'[p].saves = proc[p].saves
      /\ \A q \in Procs : q # p => proc'[q] = proc[q]
  BY <1>2, <1>3 DEF Process
<1>6. Up(p) /\ ~Running(p) /\ proc[p].token # NoReg
  BY <1>1, <1>4 DEF Up, Running, PhaseInv
<1>7. /\ ~Removed(p) /\ ~YamlRemoved(p) /\ proc[p].window = NoWindow
      /\ proc[p].reset = "idle" /\ proc[p].revoke = "idle" /\ proc[p].saves = {}
      /\ Unmixed => Quiet /\ \A q \in Procs : Main(q) => q = p
  BY <1>6, Settler
<1>8. \A q \in Procs : /\ Up(q)' <=> Up(q)
                       /\ Main(q)' <=> Main(q)
                       /\ Removed(q)' <=> Removed(q)
  BY <1>4, <1>5 DEF Up, Main, Removed
<1>9. Unmixed' => \A q \in Procs : Main(q)' => q = p
  BY <1>7, <1>8, BackThen
<1>10. KnownInv'
  BY <1>1, <1>3, <1>4, <1>5 DEF KnownInv
<1>11. PhaseInv'
  <2>1. ~Running(p)'
    BY <1>5 DEF Running
  <2>2. /\ proc'[p].setup => proc'[p].phase \in Starting \cup {"done"}
    BY <1>3, <1>5 DEF Starting
  <2>3. QED
    BY <1>1, <1>5, <1>6, <1>7, <2>1, <2>2 DEF PhaseInv, SavesFit, Running
<1>12. OneInv'
  BY <1>1, <1>5, <1>8, BackThen DEF OneInv
<1>13. FilesInv'
  <2>1. Unmixed' => Unmixed
    BY BackThen
  <2>2. Unmixed' => \A q, v \in Procs : Up(q)' /\ proc'[q].setup /\ Up(v)' => q = v
    BY <1>1, <1>5, <1>8, <2>1 DEF FilesInv
  <2>3. Unmixed' => \A q \in Procs : Removed(q)' => proc'[q].token \in cleared'
    BY <1>1, <1>4, <1>5, <1>8, <2>1 DEF FilesInv
  <2>4. Unmixed' /\ Main(p)' =>
          /\ proc'[p].phase \in Starting => creds' = NoReg
          /\ proc'[p].phase \notin Starting =>
               proc'[p].token = IF creds' = NoReg THEN env' ELSE creds'
          /\ proc'[p].token \notin cleared'
    <3>1. Unmixed' /\ Main(p)' => creds = NoReg /\ proc[p].token \notin cleared
      BY <1>1, <1>4, <1>7, <1>8, <2>1 DEF FilesInv, Starting
    <3>2. QED
      BY <1>3, <1>4, <1>5, <1>6, <3>1 DEF Starting
  <2>5. QED
    BY <1>1, <1>4, <1>7, <1>8, <1>9, <2>1, <2>2, <2>3, <2>4 DEF FilesInv
<1>14. LogInv'
  <2>1. InTime' /\ Main(p)' => proc[p].exec.log = NoReg
    BY <1>1, <1>4, <1>8, BackThen DEF LogInv
  <2>2. QED
    BY <1>3, <1>5, <1>7, <1>9, <2>1, BackThen DEF LogInv, YamlRemoved, Running
<1>15. SettingsInv'
  <2>1. Plain' => Plain /\ Unmixed /\ Unmixed'
    BY BackThen
  <2>2. Plain' => Choice(Loaded)' = wanted'
    BY <1>1, <1>4, <1>7, <2>1 DEF SettingsInv, Choice, Loaded
  <2>3. Plain' => \A q \in Procs : Tidy(q)'
    BY <1>1, <1>5, <1>7, <2>1 DEF SettingsInv, Tidy
  <2>4. Plain' /\ Main(p)' => yaml' = proc'[p].exec
    BY <1>1, <1>4, <1>5, <1>7, <1>8, <2>1 DEF SettingsInv, Backed
  <2>5. Plain' /\ Main(p)' => Backed(p)'
    BY <1>3, <1>5, <1>7, <2>4 DEF Backed
  <2>6. QED
    BY <1>9, <2>1, <2>2, <2>3, <2>5 DEF SettingsInv
<1>16. QED
  BY <1>1, <1>10, <1>11, <1>12, <1>13, <1>14, <1>15, LocalTyped DEF LocalInv

LEMMA InstallKeeps ==
    ASSUME LocalInv, LocalMoves, NEW p \in Procs, Install(p)
    PROVE  LocalInv'
<1>1. LocalTypeOK /\ KnownInv /\ PhaseInv /\ OneInv /\ FilesInv /\ LogInv /\ SettingsInv
  BY DEF LocalInv
<1>2. /\ proc \in [Procs -> Process] /\ yaml \in Config \cup {NoConfig}
      /\ proc[p] \in Process /\ proc[p].exec \in Config
  BY <1>1, Types DEF Process
<1>3. /\ proc[p].phase = "installing"
      /\ proc' = [proc EXCEPT ![p].phase = "naming"]
      /\ UNCHANGED <<env, creds, live, spent, wanted, cleared>>
      /\ trouble' \in {trouble, trouble \cup {"saveFailed"}}
      /\ yaml' \in {proc[p].exec, yaml} \/ "saveFailed" \in trouble'
  BY DEF Install, Saves, SaveBreaks, Warn
<1>4. /\ proc'[p].phase = "naming" /\ proc'[p].exec = proc[p].exec
      /\ proc'[p].setup = proc[p].setup /\ proc'[p].token = proc[p].token
      /\ proc'[p].copy = proc[p].copy /\ proc'[p].window = proc[p].window
      /\ proc'[p].reset = proc[p].reset /\ proc'[p].revoke = proc[p].revoke
      /\ proc'[p].failed = proc[p].failed /\ proc'[p].saves = proc[p].saves
      /\ \A q \in Procs : q # p => proc'[q] = proc[q]
  BY <1>2, <1>3 DEF Process
<1>5. Up(p) /\ ~Running(p) /\ ~proc[p].setup
  BY <1>1, <1>3 DEF Up, Running, PhaseInv, Starting
<1>6. /\ ~Removed(p) /\ ~YamlRemoved(p) /\ proc[p].window = NoWindow /\ Main(p)
      /\ proc[p].reset = "idle" /\ proc[p].revoke = "idle" /\ proc[p].saves = {}
      /\ Unmixed => Quiet /\ \A q \in Procs : Main(q) => q = p
  BY <1>5, Settler
<1>7. \A q \in Procs : Steady(q)
  BY <1>3, <1>4 DEF Steady, Up, Main, Removed, Starting
<1>8. KnownInv' /\ FilesInv' /\ (Orderly' => \A q, v \in Procs : Main(q)' /\ Main(v)' => q = v)
  BY <1>3, <1>7, Framed
<1>9. Unmixed' => \A q \in Procs : Main(q)' => q = p
  BY <1>6, <1>7, BackThen DEF Steady
<1>10. PhaseInv'
  BY <1>1, <1>3, <1>4, <1>5, <1>6 DEF PhaseInv, SavesFit, Running
<1>11. OneInv'
  BY <1>1, <1>4, <1>8, BackThen DEF OneInv
<1>12. LogInv'
  <2>1. InTime' => proc[p].exec.log = NoReg
    BY <1>1, <1>3, <1>6, BackThen DEF LogInv
  <2>2. QED
    BY <1>4, <1>6, <1>9, <2>1, BackThen DEF LogInv, YamlRemoved, Running
<1>13. SettingsInv'
  <2>1. Plain' => Plain /\ InTime' /\ Unmixed /\ Unmixed' /\ "saveFailed" \notin trouble'
    BY BackThen DEF Plain, Without
  <2>2. Plain' => yaml = proc[p].exec
    BY <1>1, <1>3, <1>6, <2>1 DEF SettingsInv, Backed
  <2>3. Plain' => yaml' = yaml /\ Loaded = proc[p].exec
    BY <1>2, <1>3, <2>1, <2>2, ConfigAssumption DEF Loaded
  <2>4. Plain' => Choice(Loaded)' = wanted'
    BY <1>1, <1>3, <1>6, <2>1, <2>3 DEF SettingsInv, Choice, Loaded
  <2>5. Plain' => \A q \in Procs : Tidy(q)'
    BY <1>1, <1>4, <1>6, <2>1 DEF SettingsInv, Tidy
  <2>6. Plain' => Choice(proc'[p].exec) = wanted' /\ yaml' = proc'[p].exec
    BY <1>1, <1>3, <1>4, <1>6, <2>1, <2>2, <2>3 DEF SettingsInv, Choice
  <2>7. Plain' => Backed(p)'
    BY <1>4, <1>6, <2>6 DEF Backed, Choice
  <2>8. QED
    BY <1>9, <2>1, <2>4, <2>5, <2>7 DEF SettingsInv
<1>14. QED
  BY <1>1, <1>8, <1>10, <1>11, <1>12, <1>13, LocalTyped DEF LocalInv

LEMMA StartServingKeeps ==
    ASSUME LocalInv, LocalMoves, NEW p \in Procs, StartServing(p)
    PROVE  LocalInv'
<1> DEFINE named == [proc[p].exec EXCEPT !.log = proc[p].token]
           exec  == IF proc[p].exec.log = NoReg THEN named ELSE proc[p].exec
           x     == [proc[p] EXCEPT !.phase = "serving", !.exec = exec]
<1>1. LocalTypeOK /\ KnownInv /\ PhaseInv /\ OneInv /\ FilesInv /\ LogInv /\ SettingsInv
  BY DEF LocalInv
<1>2. /\ proc \in [Procs -> Process] /\ yaml \in Config \cup {NoConfig}
      /\ proc[p] \in Process /\ proc[p].exec \in Config /\ proc[p].token \in Regs \cup {NoReg}
  BY <1>1, Types DEF Process
<1>3. /\ proc[p].phase = "naming"
      /\ UNCHANGED <<env, creds, live, spent, wanted, cleared>>
  BY DEF StartServing
<1>4. proc'[p] = x /\ \A q \in Procs : q # p => proc'[q] = proc[q]
  <2>1. CASE proc[p].exec.log = NoReg
    <3>1. proc' = [proc EXCEPT ![p].phase = "serving", ![p].exec.log = proc[p].token]
      BY <2>1 DEF StartServing
    <3>2. x = [proc[p] EXCEPT !.phase = "serving", !.exec = named]
      BY <2>1
    <3> HIDE DEF x
    <3>3. /\ proc'[p] = [proc[p] EXCEPT !.phase = "serving", !.exec.log = proc[p].token]
          /\ \A q \in Procs : q # p => proc'[q] = proc[q]
      BY <1>2, <3>1
    <3>4. [proc[p] EXCEPT !.phase = "serving", !.exec.log = proc[p].token]
            = [proc[p] EXCEPT !.phase = "serving", !.exec = named]
      BY <1>2 DEF Process
    <3>5. QED
      BY <3>2, <3>3, <3>4
  <2>2. CASE proc[p].exec.log # NoReg
    <3>1. proc' = [proc EXCEPT ![p] = [proc[p] EXCEPT !.phase = "serving"]]
      BY <2>2 DEF StartServing
    <3>2. x = [proc[p] EXCEPT !.phase = "serving"]
      BY <1>2, <2>2 DEF Process
    <3>3. QED
      BY <1>2, <3>1, <3>2
  <2>3. QED
    BY <2>1, <2>2
<1>5. proc'[p] = x /\ \A q \in Procs : q # p => proc'[q] = proc[q]
  BY <1>4
<1>6. /\ proc'[p].phase = "serving" /\ proc'[p].exec = exec
      /\ proc'[p].setup = proc[p].setup /\ proc'[p].token = proc[p].token
      /\ proc'[p].copy = proc[p].copy /\ proc'[p].window = proc[p].window
      /\ proc'[p].reset = proc[p].reset /\ proc'[p].revoke = proc[p].revoke
      /\ proc'[p].failed = proc[p].failed /\ proc'[p].saves = proc[p].saves
  BY <1>2, <1>5 DEF Process
<1>7. /\ exec.always = proc[p].exec.always /\ exec.mode = proc[p].exec.mode
      /\ exec.log = IF proc[p].exec.log = NoReg THEN proc[p].token ELSE proc[p].exec.log
      /\ exec \in Config
  BY <1>2 DEF Config
<1>8. IF proc[p].exec.log = NoReg
      THEN Saves(exec, {})
      ELSE UNCHANGED <<yaml, trouble>>
  BY <1>6 DEF StartServing
<1> HIDE DEF x, exec
<1>9. /\ "foreign" \in trouble' => "foreign" \in trouble
      /\ \/ "saveFailed" \in trouble'
         \/ yaml' = exec
         \/ proc[p].exec.log # NoReg /\ yaml' = yaml /\ exec = proc[p].exec
  <2>1. CASE proc[p].exec.log = NoReg
    BY <1>8, <2>1 DEF Saves, SaveBreaks, Warn
  <2>2. CASE proc[p].exec.log # NoReg
    <3>1. exec = proc[p].exec
      BY <2>2 DEF exec
    <3>2. UNCHANGED <<yaml, trouble>>
      BY <1>8, <2>2
    <3>3. QED
      BY <2>2, <3>1, <3>2
  <2>3. QED
    BY <2>1, <2>2
<1>10. Up(p) /\ ~Running(p) /\ ~proc[p].setup /\ proc[p].token # NoReg
  BY <1>1, <1>3 DEF Up, Running, PhaseInv, Starting
<1>11. /\ ~Removed(p) /\ ~YamlRemoved(p) /\ proc[p].window = NoWindow /\ Main(p)
       /\ proc[p].reset = "idle" /\ proc[p].revoke = "idle" /\ proc[p].saves = {}
       /\ Unmixed => \A q \in Procs : Main(q) => q = p
  BY <1>10, Settler
<1>12. \A q \in Procs : Steady(q)
  BY <1>3, <1>5, <1>6 DEF Steady, Up, Main, Removed, Starting
<1>13. KnownInv' /\ FilesInv' /\ (Orderly' => \A q, v \in Procs : Main(q)' /\ Main(v)' => q = v)
  BY <1>3, <1>9, <1>12, Framed
<1>14. Unmixed' => \A q \in Procs : Main(q)' => q = p
  BY <1>11, <1>12, BackThen DEF Steady
<1>15. PhaseInv'
  BY <1>1, <1>3, <1>5, <1>6, <1>10, <1>11 DEF PhaseInv, SavesFit, Running
<1>16. OneInv'
  BY <1>1, <1>5, <1>6, <1>13, BackThen DEF OneInv
<1>17. LogInv'
  <2>1. InTime' => proc[p].exec.log \in {NoReg, proc[p].token}
    BY <1>1, <1>3, <1>11, BackThen DEF LogInv
  <2>2. InTime' => proc'[p].exec.log = proc'[p].token
    BY <1>6, <1>7, <2>1
  <2>3. ~YamlRemoved(p)'
    BY <1>6, <1>11 DEF YamlRemoved
  <2>4. QED
    BY <1>6, <1>14, <2>2, <2>3, BackThen DEF LogInv
<1>18. SettingsInv'
  <2>1. Plain' => Plain /\ InTime' /\ Unmixed' /\ "saveFailed" \notin trouble'
    BY BackThen DEF Plain, Without
  <2>2. Plain' => /\ Choice(proc[p].exec) = wanted
                  /\ proc[p].exec.log = NoReg \/ yaml = proc[p].exec
    BY <1>1, <1>3, <1>11, <2>1 DEF SettingsInv, Backed
  <2>3. Plain' => yaml' = exec
    BY <1>9, <2>1, <2>2
  <2>4. Plain' => Choice(Loaded)' = wanted'
    BY <1>3, <1>7, <2>2, <2>3, ConfigAssumption DEF Choice, Loaded
  <2>5. Plain' => \A q \in Procs : Tidy(q)'
    BY <1>1, <1>5, <1>6, <1>11, <2>1 DEF SettingsInv, Tidy
  <2>6. Plain' => Backed(p)'
    BY <1>6, <1>11, <2>3 DEF Backed
  <2>7. QED
    BY <1>14, <2>1, <2>4, <2>5, <2>6 DEF SettingsInv
<1>19. QED
  BY <1>1, <1>13, <1>15, <1>16, <1>17, <1>18, LocalTyped DEF LocalInv

\* All that the settings of p change beside its copies, its window, its saves and
\* runner.yaml.
Tuned(p) ==
    /\ \A q \in Procs : q # p => proc'[q] = proc[q]
    /\ proc'[p].phase = proc[p].phase /\ proc'[p].setup = proc[p].setup
    /\ proc'[p].token = proc[p].token /\ proc'[p].failed = proc[p].failed
    /\ proc'[p].reset = proc[p].reset /\ proc'[p].revoke = proc[p].revoke
    /\ proc'[p].exec.log = proc[p].exec.log
    /\ \/ proc'[p].window \in {proc[p].window, NoWindow}
       \/ Running(p) /\ proc'[p].window.from # "none"
    /\ proc'[p].saves # {} => Running(p) /\ SavesFit(p)'
    /\ UNCHANGED <<env, creds, spent, cleared>>
    /\ "foreign" \in trouble' => "foreign" \in trouble
    /\ yaml' = yaml \/ (Running(p) /\ (Late(p) => "lateSave" \in trouble'))

LEMMA Appearances ==
    ASSUME LocalTypeOK, NEW p \in Procs
    PROVE  /\ proc \in [Procs -> Process] /\ yaml \in Config \cup {NoConfig}
           /\ proc[p] \in Process /\ proc[p].exec \in Config
           /\ proc[p].copy \in Config \cup {NoConfig} /\ proc[p].window \in Window
           /\ proc[p].saves \subseteq Save
BY Types DEF Process

LEMMA BeginningFits ==
    ASSUME PhaseInv, NEW p \in Procs, NEW who, NEW config,
           proc'[p].saves = proc[p].saves \cup Begun(who, config),
           proc'[p].exec.log = proc[p].exec.log,
           who = "window" => config.log = proc[p].exec.log
    PROVE  SavesFit(p)'
BY DEF PhaseInv, SavesFit, Begun

LEMMA Allowed ==
    ASSUME LocalTypeOK, PhaseInv, NEW p \in Procs, NEW f \in Prints, AlwaysAllow(p, f)
    PROVE  /\ Tuned(p)
           /\ proc'[p].exec = [proc[p].exec EXCEPT !.always = @ \cup {f}]
           /\ proc'[p].copy = proc[p].copy /\ proc'[p].window = proc[p].window
           /\ proc'[p].saves = proc[p].saves \cup Begun(f, proc'[p].exec)
<1> DEFINE config == [proc[p].exec EXCEPT !.always = @ \cup {f}]
           saves  == proc[p].saves \cup Begun(f, config)
           x      == [proc[p] EXCEPT !.exec = config, !.saves = saves]
<1>1. /\ Running(p) /\ UNCHANGED <<env, creds, yaml, spent, cleared>>
      /\ proc' = [proc EXCEPT ![p] = x]
      /\ Warn(Hurried(p) \cup If(proc[p].window # NoWindow, "snapshot"))
  BY DEF AlwaysAllow
<1>2. proc[p] \in Process /\ proc[p].exec \in Config /\ proc \in [Procs -> Process]
  BY Appearances
<1>3. config.log = proc[p].exec.log
  BY <1>2 DEF Config
<1> HIDE DEF config, saves
<1>4. /\ x.exec = config /\ x.saves = saves
      /\ x.phase = proc[p].phase /\ x.setup = proc[p].setup
      /\ x.token = proc[p].token /\ x.failed = proc[p].failed
      /\ x.reset = proc[p].reset /\ x.revoke = proc[p].revoke
      /\ x.copy = proc[p].copy /\ x.window = proc[p].window
  BY <1>2 DEF Process
<1> HIDE DEF x
<1>5. proc'[p] = x /\ \A q \in Procs : q # p => proc'[q] = proc[q]
  BY <1>1, <1>2
<1>6. SavesFit(p)'
  BY <1>3, <1>4, <1>5, BeginningFits, LocalAssumption DEF saves
<1>7. "foreign" \in trouble' => "foreign" \in trouble
  BY <1>1 DEF Warn, If, Hurried
<1>8. QED
  BY <1>1, <1>3, <1>4, <1>5, <1>6, <1>7 DEF Tuned, config, saves

LEMMA OrgLearnt ==
    ASSUME LocalTypeOK, PhaseInv, NEW p \in Procs, HeartbeatOrg(p)
    PROVE  /\ Tuned(p)
           /\ proc[p].copy = NoConfig =>
                /\ proc'[p].exec = [proc[p].exec EXCEPT !.org = TRUE]
                /\ proc'[p].copy = NoConfig
                /\ proc'[p].saves = proc[p].saves \cup Begun("heartbeat", proc'[p].exec)
           /\ proc'[p].window = proc[p].window
<1> DEFINE shared  == IF proc[p].copy = NoConfig THEN proc[p].exec ELSE proc[p].copy
           config  == [shared EXCEPT !.org = TRUE]
           saves   == proc[p].saves \cup Begun("heartbeat", config)
           learned == [proc[p] EXCEPT !.saves = saves]
           x       == IF proc[p].copy = NoConfig THEN [learned EXCEPT !.exec = config]
                                                 ELSE [learned EXCEPT !.copy = config]
<1>1. /\ Running(p) /\ UNCHANGED <<env, creds, yaml, spent, cleared>>
      /\ proc' = [proc EXCEPT ![p] = x]
      /\ Warn(Hurried(p))
  BY DEF HeartbeatOrg, Serving, Running
<1>2. /\ proc[p] \in Process /\ proc[p].exec \in Config /\ proc \in [Procs -> Process]
      /\ proc[p].copy \in Config \cup {NoConfig}
  BY Appearances
<1>3. proc[p].copy = NoConfig => /\ config = [proc[p].exec EXCEPT !.org = TRUE]
                                 /\ config.log = proc[p].exec.log
  BY <1>2 DEF Config
<1> HIDE DEF config, saves
<1>4. /\ x.phase = proc[p].phase /\ x.setup = proc[p].setup
      /\ x.token = proc[p].token /\ x.failed = proc[p].failed
      /\ x.reset = proc[p].reset /\ x.revoke = proc[p].revoke
      /\ x.window = proc[p].window /\ x.saves = saves
      /\ proc[p].copy = NoConfig => x.exec = config /\ x.copy = NoConfig
      /\ proc[p].copy # NoConfig => x.exec = proc[p].exec
  BY <1>2 DEF Process
<1> HIDE DEF x
<1>5. proc'[p] = x /\ \A q \in Procs : q # p => proc'[q] = proc[q]
  BY <1>1, <1>2
<1>6. SavesFit(p)'
  BY <1>3, <1>4, <1>5, BeginningFits DEF saves
<1>7. "foreign" \in trouble' => "foreign" \in trouble
  BY <1>1 DEF Warn, If, Hurried
<1>8. QED
  BY <1>1, <1>3, <1>4, <1>5, <1>6, <1>7 DEF Tuned, saves

LEMMA WindowMoves ==
    ASSUME LocalTypeOK, PhaseInv, NEW p \in Procs,
           CloseSettings(p) \/ \E from \in {"gear", "tray"} : OpenSettings(p, from)
    PROVE  /\ Tuned(p)
           /\ proc'[p].exec = proc[p].exec /\ proc'[p].copy = proc[p].copy
           /\ proc'[p].saves = proc[p].saves
           /\ proc'[p].window = NoWindow \/ proc'[p].window.always = proc[p].exec.always
           /\ ~InSave(p, "window") \/ proc[p].window = NoWindow
           /\ UNCHANGED <<yaml, wanted>>
<1>1. UNCHANGED <<env, creds, yaml, live, spent, wanted, cleared, trouble>>
  BY DEF CloseSettings, OpenSettings
<1>2. proc[p] \in Process /\ proc \in [Procs -> Process]
  BY Appearances
<1>3. PICK window : /\ proc' = [proc EXCEPT ![p].window = window]
                    /\ \/ window = NoWindow
                       \/ /\ Running(p) /\ window.from # "none"
                          /\ window.always = proc[p].exec.always
  <2>1. CASE CloseSettings(p)
    BY <2>1 DEF CloseSettings
  <2>2. CASE \E from \in {"gear", "tray"} : OpenSettings(p, from)
    <3>1. PICK from \in {"gear", "tray"} : OpenSettings(p, from)
      BY <2>2
    <3>2. WITNESS [from |-> from, always |-> proc[p].exec.always]
    <3>3. QED
      BY <3>1 DEF OpenSettings
  <2>3. QED
    BY <2>1, <2>2
<1>4. /\ proc'[p].window = window
      /\ proc'[p].exec = proc[p].exec /\ proc'[p].copy = proc[p].copy
      /\ proc'[p].phase = proc[p].phase /\ proc'[p].setup = proc[p].setup
      /\ proc'[p].token = proc[p].token /\ proc'[p].failed = proc[p].failed
      /\ proc'[p].reset = proc[p].reset /\ proc'[p].revoke = proc[p].revoke
      /\ proc'[p].saves = proc[p].saves
      /\ \A q \in Procs : q # p => proc'[q] = proc[q]
  BY <1>2, <1>3 DEF Process
<1>5. proc'[p].saves # {} => Running(p) /\ SavesFit(p)'
  BY <1>4 DEF PhaseInv, SavesFit
<1>6. ~InSave(p, "window") \/ proc[p].window = NoWindow
  BY DEF CloseSettings, OpenSettings
<1>7. QED
  BY <1>1, <1>3, <1>4, <1>5, <1>6 DEF Tuned

LEMMA SettingsSaved ==
    ASSUME LocalTypeOK, PhaseInv, NEW p \in Procs, NEW m \in Modes,
           NEW keep \in SUBSET Prints, SaveSettings(p, m, keep)
    PROVE  /\ Tuned(p)
           /\ proc'[p].exec = proc[p].exec /\ proc'[p].copy = proc[p].copy
           /\ proc'[p].window = proc[p].window
           /\ proc'[p].saves = proc[p].saves
                \cup Begun("window", [proc[p].exec EXCEPT !.mode = m, !.always = keep])
<1> DEFINE updated == [proc[p].exec EXCEPT !.mode = m, !.always = keep]
<1>1. /\ Running(p) /\ UNCHANGED <<env, creds, yaml, spent, cleared>>
      /\ proc' = [proc EXCEPT ![p].saves = @ \cup Begun("window", updated)]
      /\ Warn(Hurried(p) \cup If(proc[p].window.from = "tray", "tray"))
  BY DEF SaveSettings
<1>2. proc[p] \in Process /\ proc[p].exec \in Config /\ proc \in [Procs -> Process]
  BY Appearances
<1>3. updated.log = proc[p].exec.log
  BY <1>2 DEF Config
<1> HIDE DEF updated
<1>4. /\ proc'[p].saves = proc[p].saves \cup Begun("window", updated)
      /\ proc'[p].exec = proc[p].exec /\ proc'[p].copy = proc[p].copy
      /\ proc'[p].phase = proc[p].phase /\ proc'[p].setup = proc[p].setup
      /\ proc'[p].token = proc[p].token /\ proc'[p].failed = proc[p].failed
      /\ proc'[p].reset = proc[p].reset /\ proc'[p].revoke = proc[p].revoke
      /\ proc'[p].window = proc[p].window
      /\ \A q \in Procs : q # p => proc'[q] = proc[q]
  BY <1>1, <1>2 DEF Process
<1>5. SavesFit(p)'
  BY <1>3, <1>4, BeginningFits
<1>6. "foreign" \in trouble' => "foreign" \in trouble
  BY <1>1 DEF Warn, If, Hurried
<1>7. QED
  BY <1>1, <1>4, <1>5, <1>6 DEF Tuned, updated

\* The next step of a save, or its end: left is what is still to do.
LEMMA SaveGoesOn ==
    ASSUME LocalTypeOK, PhaseInv, NEW p \in Procs,
           SaveOpens(p) \/ SaveWrites(p) \/ SaveFails(p)
    PROVE  /\ Tuned(p) /\ wanted' = wanted
           /\ proc'[p].exec = proc[p].exec /\ proc'[p].copy = proc[p].copy
           /\ proc'[p].window = proc[p].window
           /\ \/ "saveFailed" \in trouble'
              \/ /\ Late(p) => "lateSave" \in trouble'
                 /\ \E s \in proc[p].saves, left \in SUBSET Save :
                      /\ proc'[p].saves = (proc[p].saves \ {s}) \cup left
                      /\ \/ /\ s.at = "begun" /\ left = {[s EXCEPT !.at = "open"]}
                            /\ yaml' = NoConfig
                         \/ /\ s.at = "open"
                            /\ left = IF s.by = "window" THEN {[s EXCEPT !.at = "written"]}
                                                         ELSE {}
                            /\ yaml = NoConfig => yaml' = s.config
<1>1. /\ proc[p] \in Process /\ proc \in [Procs -> Process] /\ proc[p].saves \subseteq Save
  BY Appearances
<1>2. PICK s \in proc[p].saves, left \in SUBSET Save :
        /\ proc' = [proc EXCEPT ![p].saves = (@ \ {s}) \cup left]
        /\ \/ s.at # "written" /\ left = {[s EXCEPT !.at = "open"]}
           \/ left = IF s.by = "window" THEN {[s EXCEPT !.at = "written"]} ELSE {}
        /\ \/ "saveFailed" \in trouble' /\ yaml' = yaml
           \/ /\ Late(p) => "lateSave" \in trouble'
              /\ \/ /\ s.at = "begun" /\ left = {[s EXCEPT !.at = "open"]}
                    /\ yaml' = NoConfig
                 \/ /\ s.at = "open"
                    /\ left = IF s.by = "window" THEN {[s EXCEPT !.at = "written"]} ELSE {}
                    /\ yaml = NoConfig => yaml' = s.config
  <2>1. \A s \in proc[p].saves : /\ [s EXCEPT !.at = "open"] \in Save
                                 /\ [s EXCEPT !.at = "written"] \in Save
    BY <1>1 DEF Save
  <2>2. CASE SaveOpens(p)
    <3>1. PICK s \in proc[p].saves :
            /\ s.at = "begun"
            /\ proc' = [proc EXCEPT ![p].saves = (@ \ {s}) \cup {[s EXCEPT !.at = "open"]}]
      BY <2>2 DEF SaveOpens
    <3>2. yaml' = NoConfig /\ (Late(p) => "lateSave" \in trouble')
      BY <2>2 DEF SaveOpens, Warn, If
    <3>3. {[s EXCEPT !.at = "open"]} \in SUBSET Save
      BY <2>1
    <3>4. WITNESS s \in proc[p].saves, {[s EXCEPT !.at = "open"]} \in SUBSET Save
    <3>5. QED
      BY <3>1, <3>2
  <2>3. CASE SaveWrites(p)
    <3>1. PICK s \in proc[p].saves :
            /\ s.at = "open" /\ Over(p, s)
            /\ yaml' \in {s.config} \cup (IF yaml = NoConfig THEN {} ELSE {NoConfig})
      BY <2>3 DEF SaveWrites
    <3>2. Late(p) => "lateSave" \in trouble'
      BY <2>3 DEF SaveWrites, Warn, If
    <3> DEFINE left == IF s.by = "window" THEN {[s EXCEPT !.at = "written"]} ELSE {}
    <3>3. left \in SUBSET Save
      BY <2>1
    <3>4. yaml = NoConfig => yaml' = s.config
      BY <3>1
    <3>5. proc' = [proc EXCEPT ![p].saves = (@ \ {s}) \cup left]
      BY <3>1 DEF Over
    <3>6. WITNESS s \in proc[p].saves, left \in SUBSET Save
    <3>7. QED
      BY <3>1, <3>2, <3>4, <3>5
  <2>4. CASE SaveFails(p)
    <3>1. PICK s \in proc[p].saves : s.at # "written" /\ Over(p, s)
      BY <2>4 DEF SaveFails
    <3>2. "saveFailed" \in trouble' /\ yaml' = yaml
      BY <2>4 DEF SaveFails, Warn
    <3> DEFINE left == IF s.by = "window" THEN {[s EXCEPT !.at = "written"]} ELSE {}
    <3>3. left \in SUBSET Save
      BY <2>1
    <3>4. proc' = [proc EXCEPT ![p].saves = (@ \ {s}) \cup left]
      BY <3>1 DEF Over
    <3>5. WITNESS s \in proc[p].saves, left \in SUBSET Save
    <3>6. QED
      BY <3>1, <3>2, <3>4
  <2>5. QED
    BY <2>2, <2>3, <2>4
<1>3. /\ UNCHANGED <<env, creds, spent, wanted, cleared>>
      /\ "foreign" \in trouble' => "foreign" \in trouble
  BY DEF SaveOpens, SaveWrites, SaveFails, Warn, If
<1>4. /\ proc'[p].saves = (proc[p].saves \ {s}) \cup left
      /\ proc'[p].exec = proc[p].exec /\ proc'[p].copy = proc[p].copy
      /\ proc'[p].phase = proc[p].phase /\ proc'[p].setup = proc[p].setup
      /\ proc'[p].token = proc[p].token /\ proc'[p].failed = proc[p].failed
      /\ proc'[p].reset = proc[p].reset /\ proc'[p].revoke = proc[p].revoke
      /\ proc'[p].window = proc[p].window
      /\ \A q \in Procs : q # p => proc'[q] = proc[q]
  BY <1>1, <1>2 DEF Process
<1>5. Running(p) /\ SavesFit(p)
  BY DEF PhaseInv
<1>6. \A t \in left : /\ t.by = s.by /\ t.config = s.config
                      /\ t.at = "written" => t.by = "window"
  <2>1. s \in Save
    BY <1>1
  <2>2. CASE left = {[s EXCEPT !.at = "open"]}
    BY <2>1, <2>2 DEF Save
  <2>3. CASE left = IF s.by = "window" THEN {[s EXCEPT !.at = "written"]} ELSE {}
    BY <2>1, <2>3 DEF Save
  <2>4. QED
    BY <1>2, <2>2, <2>3
<1>7. SavesFit(p)'
  BY <1>4, <1>5, <1>6 DEF SavesFit
<1>8. yaml' = yaml \/ (Late(p) => "lateSave" \in trouble')
  BY <1>2
<1>9. Tuned(p)
  BY <1>3, <1>4, <1>5, <1>7, <1>8 DEF Tuned
<1>10. QED
  BY <1>2, <1>3, <1>4, <1>9

LEMMA HandedOver ==
    ASSUME LocalTypeOK, PhaseInv, NEW p \in Procs, OnSave(p)
    PROVE  /\ Tuned(p) /\ UNCHANGED <<yaml, wanted>>
           /\ \E s \in proc[p].saves :
                /\ s.at = "written" /\ s.by = "window"
                /\ proc'[p].saves = proc[p].saves \ {s}
                /\ proc[p].window.from = "gear" =>
                     /\ proc'[p].exec = s.config
                     /\ proc'[p].copy = NoConfig /\ proc'[p].window = NoWindow
<1>1. /\ proc[p] \in Process /\ proc \in [Procs -> Process] /\ proc[p].saves \subseteq Save
  BY Appearances
<1>2. PICK s \in proc[p].saves :
        /\ s.at = "written"
        /\ proc' = [proc EXCEPT ![p] = Handed([proc[p] EXCEPT !.saves = @ \ {s}], s.config)]
  BY DEF OnSave
<1>3. UNCHANGED <<env, creds, yaml, spent, wanted, cleared, trouble>>
  BY DEF OnSave
<1>4. Running(p) /\ SavesFit(p)
  BY DEF PhaseInv
<1>5. s.by = "window" /\ s.config.log = proc[p].exec.log
  BY <1>2, <1>4 DEF SavesFit
<1> DEFINE rest == [proc[p] EXCEPT !.saves = @ \ {s}]
           x    == Handed(rest, s.config)
<1>6. /\ rest \in Process /\ rest.saves = proc[p].saves \ {s}
      /\ rest.phase = proc[p].phase /\ rest.setup = proc[p].setup
      /\ rest.token = proc[p].token /\ rest.failed = proc[p].failed
      /\ rest.reset = proc[p].reset /\ rest.revoke = proc[p].revoke
      /\ rest.window = proc[p].window /\ rest.exec = proc[p].exec
  BY <1>1 DEF Process
<1>7. proc' = [proc EXCEPT ![p] = x]
  BY <1>2
<1>8. x = IF rest.window.from = "gear"
          THEN [rest EXCEPT !.exec = s.config, !.copy = NoConfig, !.window = NoWindow]
          ELSE [rest EXCEPT !.copy = s.config, !.window = NoWindow]
  BY DEF Handed
<1> HIDE DEF rest, x
<1>9. /\ x.phase = rest.phase /\ x.setup = rest.setup
      /\ x.token = rest.token /\ x.failed = rest.failed
      /\ x.reset = rest.reset /\ x.revoke = rest.revoke
      /\ x.window = NoWindow /\ x.saves = rest.saves
      /\ rest.window.from = "gear" => x.exec = s.config /\ x.copy = NoConfig
      /\ rest.window.from # "gear" => x.exec = rest.exec
  BY <1>6, <1>8 DEF Process
<1>10. /\ x.phase = proc[p].phase /\ x.setup = proc[p].setup
       /\ x.token = proc[p].token /\ x.failed = proc[p].failed
       /\ x.reset = proc[p].reset /\ x.revoke = proc[p].revoke
       /\ x.window = NoWindow /\ x.saves = proc[p].saves \ {s}
       /\ proc[p].window.from = "gear" => x.exec = s.config /\ x.copy = NoConfig
       /\ proc[p].window.from # "gear" => x.exec = proc[p].exec
  BY <1>6, <1>9
<1>11. proc'[p] = x /\ \A q \in Procs : q # p => proc'[q] = proc[q]
  BY <1>1, <1>7
<1>12. proc'[p].exec.log = proc[p].exec.log
  BY <1>5, <1>10, <1>11
<1>13. SavesFit(p)'
  BY <1>4, <1>10, <1>11, <1>12 DEF SavesFit
<1>14. Tuned(p)
  BY <1>3, <1>4, <1>10, <1>11, <1>12, <1>13 DEF Tuned
<1>15. QED
  BY <1>2, <1>3, <1>5, <1>10, <1>11, <1>14

LEMMA TuningFrame ==
    ASSUME LocalInv, LocalMoves, NEW p \in Procs, Tuned(p)
    PROVE  KnownInv' /\ PhaseInv' /\ OneInv' /\ FilesInv' /\ LogInv'
<1>1. LocalTypeOK /\ KnownInv /\ PhaseInv /\ OneInv /\ FilesInv /\ LogInv
  BY DEF LocalInv
<1>2. \A q \in Procs : Steady(q)
  BY DEF Tuned, Steady, Up, Main, Removed
<1>3. KnownInv' /\ FilesInv' /\ (Orderly' => \A q, v \in Procs : Main(q)' /\ Main(v)' => q = v)
  BY <1>2, Framed DEF Tuned
<1>4. OneInv'
  BY <1>1, <1>3, BackThen DEF OneInv, Tuned
<1>5. PhaseInv'
  <2>1. \A q \in Procs : q # p /\ SavesFit(q) => SavesFit(q)'
    BY DEF SavesFit, Tuned
  <2>2. QED
    BY <1>1, <2>1 DEF PhaseInv, Tuned, Running
<1>6. LogInv'
  <2>1. InTime' => InTime /\ Unmixed /\ "lateSave" \notin trouble'
    BY BackThen DEF InTime, Without
  <2>2. InTime' /\ yaml' # yaml => Main(p) /\ ~YamlRemoved(p)
    BY <2>1, InTimeSaver DEF Tuned
  <2>3. \A q \in Procs : YamlRemoved(q)' <=> YamlRemoved(q)
    BY DEF Tuned, YamlRemoved
  <2>4. \A q \in Procs : InTime' /\ Main(q)' /\ YamlRemoved(q)' => yaml' = NoConfig
    BY <1>1, <1>2, <2>1, <2>2, <2>3 DEF Steady, LogInv, OneInv, Unmixed
  <2>5. \A q \in Procs : InTime' /\ Main(q)' =>
          /\ proc'[q].phase \in {"saved", "installing"} => proc'[q].exec.log = NoReg
          /\ proc'[q].phase = "naming" => proc'[q].exec.log \in {NoReg, proc'[q].token}
          /\ Running(q)' => proc'[q].exec.log = proc'[q].token
    BY <1>1, <1>2, <2>1 DEF LogInv, Tuned, Running, Steady
  <2>6. QED
    BY <2>4, <2>5 DEF LogInv
<1>7. QED
  BY <1>3, <1>4, <1>5, <1>6

\* What the runner finds when a save begins alone and in time.
LEMMA PlainRunner ==
    ASSUME LocalInv, LocalMoves, NEW p \in Procs, Running(p), Hurried(p) \subseteq trouble', Plain'
    PROVE  /\ Main(p) /\ ~YamlRemoved(p)
           /\ proc[p].saves = {} /\ Choice(proc[p].exec) = wanted
           /\ proc[p].copy = NoConfig
           /\ proc[p].window # NoWindow => proc[p].window.always = proc[p].exec.always
<1>1. LocalTypeOK /\ OneInv /\ SettingsInv
  BY DEF LocalInv
<1>2. proc[p].exec \in Config
  BY <1>1, Appearances
<1>3. Plain /\ Unmixed /\ Orderly
  BY BackThen DEF Unmixed
<1>4. proc[p].saves = {} /\ ~Late(p)
  BY DEF Hurried, If, Plain, InTime, Without
<1>5. Main(p) /\ ~YamlRemoved(p)
  BY <1>3, <1>4, InTimeSaver
<1>6. Tidy(p) /\ Backed(p)
  BY <1>1, <1>3, <1>5 DEF SettingsInv
<1>7. yaml = proc[p].exec
  BY <1>4, <1>5, <1>6 DEF Backed, Running
<1>8. Quiet
  BY <1>1, <1>3, <1>4, <1>5 DEF Quiet, OneInv
<1>9. Loaded = proc[p].exec
  BY <1>2, <1>7, ConfigAssumption DEF Loaded
<1>10. QED
  BY <1>1, <1>3, <1>4, <1>5, <1>6, <1>8, <1>9 DEF SettingsInv, Tidy

\* What such a save goes on from.
LEMMA PlainSaver ==
    ASSUME LocalInv, LocalMoves, NEW p \in Procs, NEW s \in proc[p].saves, Plain',
           Late(p) => "lateSave" \in trouble'
    PROVE  /\ Main(p) /\ ~YamlRemoved(p) /\ Running(p)
           /\ Tidy(p) /\ Underway(p, s) /\ proc[p].saves = {s}
<1>1. PhaseInv /\ SettingsInv
  BY DEF LocalInv
<1>2. Plain /\ Unmixed
  BY BackThen
<1>3. ~Late(p) /\ Running(p)
  BY <1>1 DEF PhaseInv, Plain, InTime, Without
<1>4. Main(p) /\ ~YamlRemoved(p)
  BY <1>2, <1>3, InTimeSaver
<1>5. Tidy(p) /\ Underway(p, s)
  BY <1>1, <1>2, <1>3, <1>4 DEF SettingsInv, Backed, Running
<1>6. proc[p].saves = {s}
  BY <1>5 DEF Tidy
<1>7. QED
  BY <1>3, <1>4, <1>5, <1>6

\* What the runner has to leave behind.
LEMMA SavedSettings ==
    ASSUME LocalInv, LocalMoves, NEW p \in Procs, Tuned(p), Main(p), ~YamlRemoved(p), Plain',
           Tidy(p)', Backed(p)', proc'[p].saves = {} => Choice(Loaded)' = wanted'
    PROVE  SettingsInv'
<1>1. OneInv /\ SettingsInv
  BY DEF LocalInv
<1>2. Plain /\ Orderly
  BY BackThen DEF InTime, Unmixed
<1>3. (\A q \in Procs : Main(q)' <=> Main(q)) /\ ~YamlRemoved(p)'
  BY DEF Tuned, Main, Up, YamlRemoved
<1>4. \A q \in Procs : Main(q)' => q = p
  BY <1>1, <1>2, <1>3 DEF OneInv
<1>5. Quiet' => Choice(Loaded)' = wanted'
  BY <1>3 DEF Quiet
<1>6. \A q \in Procs : Tidy(q)'
  BY <1>1, <1>2 DEF SettingsInv, Tuned, Tidy
<1>7. QED
  BY <1>4, <1>5, <1>6 DEF SettingsInv

LEMMA SaveBegins ==
    ASSUME LocalInv, LocalMoves, NEW p \in Procs, Tuned(p), Running(p), NEW who, NEW config,
           proc'[p].saves = proc[p].saves \cup Begun(who, config),
           Hurried(p) \subseteq trouble', Plain',
           Choice(config) = wanted', proc'[p].copy = NoConfig,
           proc'[p].window # NoWindow => proc'[p].window.always = proc'[p].exec.always,
           IF who = "window" THEN proc'[p].window.from = "gear" ELSE config = proc'[p].exec
    PROVE  SettingsInv'
<1> DEFINE s == [by |-> who, config |-> config, at |-> "begun"]
<1>1. Main(p) /\ ~YamlRemoved(p) /\ proc[p].saves = {}
  BY PlainRunner
<1>2. proc'[p].saves = {s}
  BY <1>1 DEF Begun
<1>3. s.by = who /\ s.config = config /\ s.at = "begun"
  OBVIOUS
<1> HIDE DEF s
<1>4. Tidy(p)'
  BY <1>2, <1>3 DEF Tidy
<1>5. Underway(p, s)'
  BY <1>3 DEF Underway, Choice
<1>6. proc'[p].phase # "naming"
  BY DEF Tuned, Running
<1>7. Backed(p)'
  BY <1>2, <1>5, <1>6 DEF Backed
<1>8. QED
  BY <1>1, <1>2, <1>4, <1>7, SavedSettings

LEMMA TuningKeeps ==
    ASSUME LocalInv, LocalMoves, NEW p \in Procs, Tuning(p)
    PROVE  LocalInv'
<1>1. LocalTypeOK /\ PhaseInv /\ OneInv /\ SettingsInv
  BY DEF LocalInv
<1>2. /\ yaml \in Config \cup {NoConfig} /\ proc[p] \in Process
      /\ proc[p].exec \in Config /\ proc[p].window \in Window
      /\ proc[p].saves \subseteq Save /\ wanted \in Wish
  BY <1>1, Appearances, Types
<1>3. ~Plain' => SettingsInv'
  BY DEF SettingsInv
<1>4. Plain' => /\ Plain /\ Unmixed
                /\ trouble' \cap {"saveFailed", "overlap", "tray", "snapshot"} = {}
  BY BackThen DEF Plain, Without
<1>5. ASSUME NEW f \in Prints, AlwaysAllow(p, f)
      PROVE  Tuned(p) /\ SettingsInv'
  <2>1. /\ Tuned(p)
        /\ proc'[p].exec = [proc[p].exec EXCEPT !.always = @ \cup {f}]
        /\ proc'[p].copy = proc[p].copy /\ proc'[p].window = proc[p].window
        /\ proc'[p].saves = proc[p].saves \cup Begun(f, proc'[p].exec)
    BY <1>1, <1>5, Allowed
  <2>2. ASSUME Plain'
        PROVE  SettingsInv'
    <3>1. /\ Running(p) /\ wanted' = [wanted EXCEPT !.always = @ \cup {f}]
          /\ Hurried(p) \subseteq trouble'
          /\ proc[p].window # NoWindow => "snapshot" \in trouble'
      BY <1>5 DEF AlwaysAllow, Warn, If
    <3>2. proc[p].window = NoWindow
      BY <1>4, <2>2, <3>1
    <3>3. Choice(proc[p].exec) = wanted /\ proc[p].copy = NoConfig
      BY <2>2, <3>1, PlainRunner
    <3>4. Choice(proc'[p].exec) = [mode |-> proc[p].exec.mode,
                                   always |-> proc[p].exec.always \cup {f}]
      BY <1>2, <2>1 DEF Config, Choice
    <3>5. wanted' = [mode |-> wanted.mode, always |-> wanted.always \cup {f}]
      BY <1>2, <3>1 DEF Wish
    <3>6. Choice(proc'[p].exec) = wanted'
      BY <3>3, <3>4, <3>5 DEF Choice
    <3>7. f # "window"
      BY LocalAssumption
    <3>8. QED
      BY <2>1, <2>2, <3>1, <3>2, <3>3, <3>6, <3>7, SaveBegins
  <2>3. QED
    BY <1>3, <2>1, <2>2
<1>6. ASSUME HeartbeatOrg(p)
      PROVE  Tuned(p) /\ SettingsInv'
  <2>1. /\ Tuned(p)
        /\ proc[p].copy = NoConfig =>
             /\ proc'[p].exec = [proc[p].exec EXCEPT !.org = TRUE]
             /\ proc'[p].copy = NoConfig
             /\ proc'[p].saves = proc[p].saves \cup Begun("heartbeat", proc'[p].exec)
        /\ proc'[p].window = proc[p].window
    BY <1>1, <1>6, OrgLearnt
  <2>2. ASSUME Plain'
        PROVE  SettingsInv'
    <3>1. Running(p) /\ wanted' = wanted /\ Hurried(p) \subseteq trouble'
      BY <1>6 DEF HeartbeatOrg, Serving, Running, Warn
    <3>2. /\ Choice(proc[p].exec) = wanted /\ proc[p].copy = NoConfig
          /\ proc[p].window # NoWindow => proc[p].window.always = proc[p].exec.always
      BY <2>2, <3>1, PlainRunner
    <3>3. /\ proc'[p].exec.mode = proc[p].exec.mode
          /\ proc'[p].exec.always = proc[p].exec.always
      BY <1>2, <2>1, <3>2 DEF Config
    <3>4. Choice(proc'[p].exec) = wanted'
      BY <3>1, <3>2, <3>3 DEF Choice
    <3>5. QED
      BY <2>1, <2>2, <3>1, <3>2, <3>3, <3>4, SaveBegins
  <2>3. QED
    BY <1>3, <2>1, <2>2
<1>7. ASSUME NEW m \in Modes, NEW keep \in SUBSET Prints, SaveSettings(p, m, keep)
      PROVE  Tuned(p) /\ SettingsInv'
  <2> DEFINE updated == [proc[p].exec EXCEPT !.mode = m, !.always = keep]
  <2>1. /\ Tuned(p)
        /\ proc'[p].exec = proc[p].exec /\ proc'[p].copy = proc[p].copy
        /\ proc'[p].window = proc[p].window
        /\ proc'[p].saves = proc[p].saves \cup Begun("window", updated)
    BY <1>1, <1>7, SettingsSaved
  <2>2. ASSUME Plain'
        PROVE  SettingsInv'
    <3>1. /\ Running(p) /\ proc[p].window # NoWindow /\ keep \subseteq proc[p].window.always
          /\ wanted' = [mode |-> m,
                        always |-> wanted.always \ (proc[p].window.always \ keep)]
          /\ Hurried(p) \subseteq trouble'
          /\ proc[p].window.from = "tray" => "tray" \in trouble'
      BY <1>7 DEF SaveSettings, Warn, If
    <3>2. updated.mode = m /\ updated.always = keep
      BY <1>2 DEF Config
    <3> HIDE DEF updated
    <3>3. proc[p].window.from = "gear"
      BY <1>1, <1>2, <1>4, <2>2, <3>1 DEF PhaseInv, Window
    <3>4. /\ Choice(proc[p].exec) = wanted /\ proc[p].copy = NoConfig
          /\ proc[p].window.always = proc[p].exec.always
      BY <2>2, <3>1, PlainRunner
    <3>5. wanted.always = proc[p].window.always
      BY <3>4 DEF Choice
    <3>6. wanted.always \ (proc[p].window.always \ keep) = keep
      BY <3>1, <3>5
    <3>7. Choice(updated) = wanted'
      BY <3>1, <3>2, <3>6 DEF Choice
    <3>8. QED
      BY <2>1, <2>2, <3>1, <3>3, <3>4, <3>7, SaveBegins
  <2>3. QED
    BY <1>3, <2>1, <2>2
<1>8. ASSUME CloseSettings(p) \/ \E from \in {"gear", "tray"} : OpenSettings(p, from)
      PROVE  Tuned(p) /\ SettingsInv'
  <2>1. /\ Tuned(p)
        /\ proc'[p].exec = proc[p].exec /\ proc'[p].copy = proc[p].copy
        /\ proc'[p].saves = proc[p].saves
        /\ proc'[p].window = NoWindow \/ proc'[p].window.always = proc[p].exec.always
        /\ ~InSave(p, "window") \/ proc[p].window = NoWindow
        /\ UNCHANGED <<yaml, wanted>>
    BY <1>1, <1>8, WindowMoves
  <2>2. /\ Loaded' = Loaded
        /\ \A q \in Procs : /\ (Main(q)' <=> Main(q)) /\ (YamlRemoved(q)' <=> YamlRemoved(q))
                            /\ proc'[q].exec = proc[q].exec /\ proc'[q].phase = proc[q].phase
                            /\ proc'[q].copy = proc[q].copy /\ proc'[q].saves = proc[q].saves
    BY <2>1 DEF Tuned, Loaded, Main, Up, YamlRemoved
  <2>3. Plain' => \A q \in Procs : Tidy(q)'
    <3>1. Plain' => Tidy(p) /\ ~InSave(p, "window")
      BY <1>1, <1>4, <2>1 DEF SettingsInv, Tidy, InSave, NoWindow
    <3>2. Plain' => Tidy(p)'
      BY <2>1, <3>1 DEF Tidy, InSave
    <3>3. QED
      BY <1>1, <1>4, <2>1, <3>2 DEF SettingsInv, Tidy, Tuned
  <2>4. Plain' => \A q \in Procs : Main(q)' => Backed(q)'
    BY <1>1, <1>4, <2>1, <2>2 DEF SettingsInv, Backed, Underway, Choice
  <2>5. Plain' /\ Quiet' => Choice(Loaded)' = wanted'
    BY <1>1, <1>4, <2>1, <2>2 DEF SettingsInv, Quiet, Choice
  <2>6. QED
    BY <2>1, <2>3, <2>4, <2>5 DEF SettingsInv
<1>9. ASSUME SaveOpens(p) \/ SaveWrites(p) \/ SaveFails(p)
      PROVE  Tuned(p) /\ SettingsInv'
  <2>1. /\ Tuned(p) /\ wanted' = wanted
        /\ proc'[p].exec = proc[p].exec /\ proc'[p].copy = proc[p].copy
        /\ proc'[p].window = proc[p].window
    BY <1>1, <1>9, SaveGoesOn
  <2>2. ASSUME Plain'
        PROVE  SettingsInv'
    <3>1. PICK s \in proc[p].saves, left \in SUBSET Save :
            /\ Late(p) => "lateSave" \in trouble'
            /\ proc'[p].saves = (proc[p].saves \ {s}) \cup left
            /\ \/ /\ s.at = "begun" /\ left = {[s EXCEPT !.at = "open"]}
                  /\ yaml' = NoConfig
               \/ /\ s.at = "open"
                  /\ left = IF s.by = "window" THEN {[s EXCEPT !.at = "written"]} ELSE {}
                  /\ yaml = NoConfig => yaml' = s.config
      BY <1>1, <1>4, <1>9, <2>2, SaveGoesOn
    <3>2. /\ Main(p) /\ ~YamlRemoved(p) /\ Running(p)
          /\ Tidy(p) /\ Underway(p, s) /\ proc[p].saves = {s}
      BY <2>2, <3>1, PlainSaver
    <3>3. s \in Save /\ proc'[p].saves = left
      BY <1>2, <3>1, <3>2
    <3>4. proc'[p].phase # "naming"
      BY <2>1, <3>2 DEF Tuned, Running
    <3>5. CASE s.at = "begun" /\ left = {[s EXCEPT !.at = "open"]} /\ yaml' = NoConfig
      <4> DEFINE t == [s EXCEPT !.at = "open"]
      <4>1. t.by = s.by /\ t.config = s.config /\ t.at = "open"
        BY <3>3 DEF Save
      <4> HIDE DEF t
      <4>2. proc'[p].saves = {t}
        BY <3>3, <3>5 DEF t
      <4>3. Tidy(p)'
        BY <2>1, <3>2, <4>1, <4>2 DEF Tidy
      <4>4. Underway(p, t)'
        BY <2>1, <3>2, <3>5, <4>1 DEF Underway, Choice
      <4>5. Backed(p)'
        BY <3>4, <4>2, <4>4 DEF Backed
      <4>6. QED
        BY <2>1, <2>2, <3>2, <4>2, <4>3, <4>5, SavedSettings
    <3>6. CASE /\ s.at = "open"
               /\ left = IF s.by = "window" THEN {[s EXCEPT !.at = "written"]} ELSE {}
               /\ yaml = NoConfig => yaml' = s.config
      <4> DEFINE t == [s EXCEPT !.at = "written"]
      <4>1. t.by = s.by /\ t.config = s.config /\ t.at = "written"
        BY <3>3 DEF Save
      <4> HIDE DEF t
      <4>2. yaml' = s.config /\ Choice(s.config) = wanted' /\ s.config \in Config
        BY <2>1, <3>2, <3>3, <3>6 DEF Underway, Save
      <4>3. proc'[p].saves = IF s.by = "window" THEN {t} ELSE {}
        BY <3>3, <3>6 DEF t
      <4>4. Tidy(p)'
        BY <2>1, <3>2, <4>1, <4>3 DEF Tidy
      <4>5. Backed(p)'
        <5>1. CASE s.by = "window"
          <6>1. Underway(p, t)'
            BY <4>1, <4>2, <5>1 DEF Underway, Choice
          <6>2. QED
            BY <3>4, <4>3, <5>1, <6>1 DEF Backed
        <5>2. CASE s.by # "window"
          <6>1. yaml' = proc'[p].exec
            BY <2>1, <3>2, <4>2, <5>2 DEF Underway
          <6>2. QED
            BY <3>4, <4>3, <5>2, <6>1 DEF Backed
        <5>3. QED
          BY <5>1, <5>2
      <4>6. Choice(Loaded)' = wanted'
        BY <4>2, ConfigAssumption DEF Choice, Loaded
      <4>7. QED
        BY <2>1, <2>2, <3>2, <4>4, <4>5, <4>6, SavedSettings
    <3>7. QED
      BY <3>1, <3>5, <3>6
  <2>3. QED
    BY <1>3, <2>1, <2>2
<1>10. ASSUME OnSave(p)
       PROVE  Tuned(p) /\ SettingsInv'
  <2>1. Tuned(p) /\ UNCHANGED <<yaml, wanted>>
    BY <1>1, <1>10, HandedOver
  <2>2. PICK s \in proc[p].saves :
          /\ s.at = "written" /\ s.by = "window"
          /\ proc'[p].saves = proc[p].saves \ {s}
          /\ proc[p].window.from = "gear" =>
               /\ proc'[p].exec = s.config
               /\ proc'[p].copy = NoConfig /\ proc'[p].window = NoWindow
    BY <1>1, <1>10, HandedOver
  <2>3. Running(p)
    BY <1>1 DEF PhaseInv
  <2>4. ASSUME Plain'
        PROVE  SettingsInv'
    <3>1. Plain /\ Orderly /\ Tidy(p)
      BY <1>1, <1>4, <2>4 DEF SettingsInv, Unmixed
    <3>2. /\ proc[p].saves = {s} /\ proc'[p].saves = {}
          /\ proc'[p].exec = s.config
          /\ proc'[p].copy = NoConfig /\ proc'[p].window = NoWindow
      BY <2>2, <3>1 DEF Tidy
    <3>3. Tidy(p)'
      BY <3>2 DEF Tidy
    <3>4. proc'[p].phase # "naming"
      BY <2>1, <2>3 DEF Tuned, Running
    <3>5. CASE Main(p) /\ ~YamlRemoved(p)
      <4>1. Underway(p, s)
        BY <1>1, <2>2, <2>3, <3>1, <3>5 DEF SettingsInv, Backed, Running
      <4>2. yaml' = s.config /\ Choice(s.config) = wanted' /\ s.config \in Config
        BY <1>2, <2>1, <2>2, <4>1 DEF Underway, Save
      <4>3. Backed(p)'
        BY <3>2, <3>4, <4>2 DEF Backed
      <4>4. Choice(Loaded)' = wanted'
        BY <4>2, ConfigAssumption DEF Choice, Loaded
      <4>5. QED
        BY <2>1, <2>4, <3>3, <3>5, <4>3, <4>4, SavedSettings
    <3>6. CASE ~Main(p) \/ YamlRemoved(p)
      <4>1. /\ \A q \in Procs : (Main(q)' <=> Main(q)) /\ (YamlRemoved(q)' <=> YamlRemoved(q))
            /\ \A q \in Procs : q # p => proc'[q] = proc[q]
        BY <2>1 DEF Tuned, Main, Up, YamlRemoved
      <4>2. Quiet' => Quiet
        BY <3>6, <4>1 DEF Quiet
      <4>3. Quiet' => Choice(Loaded)' = wanted'
        BY <1>1, <2>1, <3>1, <4>2 DEF SettingsInv, Choice, Loaded
      <4>4. \A q \in Procs : Tidy(q)'
        BY <1>1, <3>1, <3>3, <4>1 DEF SettingsInv, Tidy
      <4>5. Main(p)' => Backed(p)'
        BY <3>4, <3>6, <4>1 DEF Backed
      <4>6. \A q \in Procs : q # p /\ Main(q)' => Backed(q)'
        BY <1>1, <2>1, <3>1, <4>1 DEF SettingsInv, Backed, Underway, Choice
      <4>7. QED
        BY <4>3, <4>4, <4>5, <4>6 DEF SettingsInv
    <3>7. QED
      BY <3>5, <3>6
  <2>5. QED
    BY <1>3, <2>1, <2>4
<1>11. Tuned(p) /\ SettingsInv'
  BY <1>5, <1>6, <1>7, <1>8, <1>9, <1>10 DEF Tuning
<1>12. QED
  BY <1>1, <1>11, TuningFrame, LocalTyped DEF LocalInv

\* A reset or a revocation leaves p at work, with what it knows.
Stepped(p) ==
    /\ \A q \in Procs : q # p => proc'[q] = proc[q]
    /\ proc'[p].setup = proc[p].setup /\ proc'[p].token = proc[p].token
    /\ proc'[p].exec = proc[p].exec /\ proc'[p].copy = proc[p].copy
    /\ proc'[p].window = proc[p].window /\ proc'[p].saves = proc[p].saves
    /\ Running(p) /\ Running(p)'

\* The part of p in it that is under way, from one stage to the next.
Resets(p, from, to) ==
    /\ proc[p].reset = from /\ proc'[p].reset = to
    /\ proc'[p].revoke = proc[p].revoke

Revokes(p, from, to) ==
    /\ proc[p].revoke = from /\ proc'[p].revoke = to
    /\ proc'[p].reset = proc[p].reset /\ proc'[p].failed = proc[p].failed

LEMMA PassingSteps ==
    ASSUME LocalTypeOK, PhaseInv, NEW p \in Procs,
           Reset(p) \/ ResetServer(p) \/ ResetScripts(p) \/ Revoked(p) \/ RevokeStops(p)
    PROVE  /\ Stepped(p)
           /\ UNCHANGED <<env, creds, yaml, spent, wanted, cleared>>
           /\ "foreign" \in trouble' => "foreign" \in trouble
           /\ \/ Resets(p, "idle", "server") /\ ~proc'[p].failed
                   /\ (proc[p].revoke = "idle" \/ "both" \in trouble')
              \/ /\ Resets(p, "server", "credentials") \/ Resets(p, "scripts", "relaunch")
                 /\ proc'[p].failed = proc[p].failed
              \/ /\ Revokes(p, "idle", "credentials")
                 /\ proc[p].reset = "idle" \/ "both" \in trouble'
              \/ Revokes(p, "stop", "relaunch")
<1> USE DEF Stepped, Running, Resets, Revokes
<1>1. proc \in [Procs -> Process] /\ proc[p] \in Process
  BY Appearances
<1>2. proc[p].reset # "idle" \/ proc[p].revoke # "idle" => Running(p)
  BY DEF PhaseInv
<1>3. CASE Reset(p)
  <2> DEFINE x == [proc[p] EXCEPT !.reset = "server", !.failed = FALSE]
  <2>1. /\ proc[p].reset = "idle" /\ Running(p) /\ proc' = [proc EXCEPT ![p] = x]
        /\ UNCHANGED <<env, creds, yaml, spent, wanted, cleared>>
        /\ trouble' = trouble \cup If(proc[p].revoke # "idle", "both")
    BY <1>3 DEF Reset, Warn
  <2>2. /\ x.setup = proc[p].setup /\ x.token = proc[p].token
        /\ x.exec = proc[p].exec /\ x.copy = proc[p].copy /\ x.window = proc[p].window
        /\ x.phase = proc[p].phase /\ x.reset = "server" /\ x.revoke = proc[p].revoke
        /\ x.failed = FALSE /\ x.saves = proc[p].saves
    BY <1>1 DEF Process
  <2> HIDE DEF x
  <2>3. proc'[p] = x /\ \A q \in Procs : q # p => proc'[q] = proc[q]
    BY <1>1, <2>1
  <2>4. /\ "foreign" \in trouble' => "foreign" \in trouble
        /\ proc[p].revoke = "idle" \/ "both" \in trouble'
    BY <2>1 DEF If
  <2>5. Stepped(p) /\ Resets(p, "idle", "server") /\ ~proc'[p].failed
    BY <2>1, <2>2, <2>3
  <2>6. QED
    BY <2>1, <2>4, <2>5
<1>4. CASE ResetServer(p) \/ ResetScripts(p)
  <2>1. PICK to \in {"credentials", "relaunch"} :
          /\ proc' = [proc EXCEPT ![p].reset = to]
          /\ IF to = "credentials" THEN proc[p].reset = "server" ELSE proc[p].reset = "scripts"
          /\ UNCHANGED <<env, creds, yaml, spent, wanted, cleared, trouble>>
    BY <1>4 DEF ResetServer, ResetScripts
  <2>2. /\ proc'[p] = [proc[p] EXCEPT !.reset = to]
        /\ \A q \in Procs : q # p => proc'[q] = proc[q]
    BY <1>1, <2>1
  <2>3. Stepped(p) /\ proc'[p].failed = proc[p].failed /\ proc'[p].reset = to
        /\ proc'[p].revoke = proc[p].revoke
    BY <1>1, <1>2, <2>1, <2>2 DEF Process
  <2>4. QED
    BY <2>1, <2>3
<1>5. CASE Revoked(p)
  <2>1. /\ proc[p].revoke = "idle" /\ Running(p)
        /\ proc' = [proc EXCEPT ![p].revoke = "credentials"]
        /\ UNCHANGED <<env, creds, yaml, spent, wanted, cleared>>
        /\ trouble' = trouble \cup If(Late(p) \/ proc[p].reset # "idle", "both")
    BY <1>5 DEF Revoked, Warn, Serving
  <2>2. /\ proc'[p] = [proc[p] EXCEPT !.revoke = "credentials"]
        /\ \A q \in Procs : q # p => proc'[q] = proc[q]
    BY <1>1, <2>1
  <2>3. Stepped(p) /\ Revokes(p, "idle", "credentials")
    BY <1>1, <2>1, <2>2 DEF Process
  <2>4. /\ "foreign" \in trouble' => "foreign" \in trouble
        /\ proc[p].reset = "idle" \/ "both" \in trouble'
    BY <2>1 DEF If
  <2>5. QED
    BY <2>1, <2>3, <2>4
<1>6. CASE RevokeStops(p)
  <2> DEFINE x == [proc[p] EXCEPT !.revoke = "relaunch", !.phase = "stopping"]
  <2>1. /\ proc[p].revoke = "stop" /\ proc' = [proc EXCEPT ![p] = x]
        /\ UNCHANGED <<env, creds, yaml, spent, wanted, cleared, trouble>>
    BY <1>6 DEF RevokeStops
  <2>2. /\ x.setup = proc[p].setup /\ x.token = proc[p].token
        /\ x.exec = proc[p].exec /\ x.copy = proc[p].copy /\ x.window = proc[p].window
        /\ x.phase = "stopping" /\ x.revoke = "relaunch" /\ x.reset = proc[p].reset
        /\ x.failed = proc[p].failed /\ x.saves = proc[p].saves
    BY <1>1 DEF Process
  <2> HIDE DEF x
  <2>3. proc'[p] = x /\ \A q \in Procs : q # p => proc'[q] = proc[q]
    BY <1>1, <2>1
  <2>4. Stepped(p) /\ Revokes(p, "stop", "relaunch")
    BY <1>2, <2>1, <2>2, <2>3
  <2>5. QED
    BY <2>1, <2>4
<1>7. QED
  BY <1>3, <1>4, <1>5, <1>6

LEMMA ClearingSteps ==
    ASSUME LocalTypeOK, PhaseInv, NEW p \in Procs, ResetClears(p) \/ RevokeClears(p)
    PROVE  /\ Stepped(p) /\ UNCHANGED <<env, spent>>
           /\ \/ /\ ClearCredentials(p)
                 /\ \/ Resets(p, "credentials", "yaml") /\ proc'[p].failed = proc[p].failed
                    \/ Revokes(p, "credentials", "yaml")
              \/ /\ ClearYaml
                 /\ \/ Resets(p, "yaml", "scripts") /\ proc'[p].failed = proc[p].failed
                    \/ Revokes(p, "yaml", "stop")
              \/ ClearFails
<1> USE DEF Stepped, Running, Resets, Revokes
<1>1. proc \in [Procs -> Process] /\ proc[p] \in Process
  BY Appearances
<1>2. proc[p].reset # "idle" \/ proc[p].revoke # "idle" => Running(p)
  BY DEF PhaseInv
<1>3. UNCHANGED <<env, spent>>
  BY DEF ResetClears, RevokeClears
<1>4. ASSUME NEW to, proc' = [proc EXCEPT ![p].reset = to], proc[p].reset # "idle"
      PROVE  /\ Stepped(p) /\ proc'[p].reset = to /\ proc'[p].revoke = proc[p].revoke
             /\ proc'[p].failed = proc[p].failed
  BY <1>1, <1>2, <1>4 DEF Process
<1>5. ASSUME NEW to, proc' = [proc EXCEPT ![p].revoke = to], proc[p].revoke # "idle"
      PROVE  /\ Stepped(p) /\ proc'[p].revoke = to /\ proc'[p].reset = proc[p].reset
             /\ proc'[p].failed = proc[p].failed
  BY <1>1, <1>2, <1>5 DEF Process
<1>6. ASSUME proc' = [proc EXCEPT ![p].reset = "relaunch", ![p].failed = TRUE],
             proc[p].reset # "idle"
      PROVE  Stepped(p)
  BY <1>1, <1>2, <1>6 DEF Process
<1>7. CASE ResetClears(p)
  <2>1. CASE /\ proc[p].reset = "credentials" /\ ClearCredentials(p)
             /\ proc' = [proc EXCEPT ![p].reset = "yaml"]
    BY <1>3, <1>4, <2>1
  <2>2. CASE /\ proc[p].reset = "yaml" /\ ClearYaml
             /\ proc' = [proc EXCEPT ![p].reset = "scripts"]
    BY <1>3, <1>4, <2>2
  <2>3. CASE /\ proc[p].reset \in {"credentials", "yaml", "scripts"} /\ ClearFails
             /\ proc' = [proc EXCEPT ![p].reset = "relaunch", ![p].failed = TRUE]
    BY <1>3, <1>6, <2>3
  <2>4. QED
    BY <1>7, <2>1, <2>2, <2>3 DEF ResetClears
<1>8. CASE RevokeClears(p)
  <2>1. CASE /\ proc[p].revoke = "credentials" /\ ClearCredentials(p)
             /\ proc' = [proc EXCEPT ![p].revoke = "yaml"]
    BY <1>3, <1>5, <2>1
  <2>2. CASE /\ proc[p].revoke = "yaml" /\ ClearYaml
             /\ proc' = [proc EXCEPT ![p].revoke = "stop"]
    BY <1>3, <1>5, <2>2
  <2>3. CASE /\ proc[p].revoke \in {"credentials", "yaml"} /\ ClearFails
             /\ proc' = [proc EXCEPT ![p].revoke = "stop"]
    BY <1>3, <1>5, <2>3
  <2>4. QED
    BY <1>8, <2>1, <2>2, <2>3 DEF RevokeClears
<1>9. QED
  BY <1>7, <1>8

\* Whatever a step of a reset or a revocation does to the files.
LEMMA SteppedFrame ==
    ASSUME LocalInv, LocalMoves, NEW p \in Procs, Stepped(p)
    PROVE  /\ PhaseInv' /\ ~proc[p].setup /\ ~proc'[p].setup
           /\ \A q \in Procs : Up(q)' <=> Up(q)
           /\ proc'[p].phase \in Starting <=> proc[p].phase \in Starting
           /\ proc[p].token # NoReg
           /\ Plain' => \A q \in Procs : Tidy(q)'
<1>1. PhaseInv /\ SettingsInv
  BY DEF LocalInv
<1>2. ~proc[p].setup /\ proc[p].token # NoReg
  BY <1>1 DEF PhaseInv, Stepped, Running, Starting
<1>3. PhaseInv'
  BY <1>1, <1>2 DEF PhaseInv, SavesFit, Stepped, Running
<1>4. \A q \in Procs : Up(q)' <=> Up(q)
  BY DEF Up, Stepped, Running
<1>5. proc'[p].phase \in Starting <=> proc[p].phase \in Starting
  BY DEF Starting, Stepped, Running
<1>6. Plain' => \A q \in Procs : Tidy(q)'
  BY <1>1, BackThen DEF SettingsInv, Tidy, Stepped
<1>7. QED
  BY <1>2, <1>3, <1>4, <1>5, <1>6 DEF Stepped

LEMMA PassingKeeps ==
    ASSUME LocalInv, LocalMoves, NEW p \in Procs,
           Reset(p) \/ ResetServer(p) \/ ResetScripts(p) \/ Revoked(p) \/ RevokeStops(p)
    PROVE  LocalInv'
<1>1. LocalTypeOK /\ PhaseInv /\ OneInv /\ LogInv /\ SettingsInv
  BY DEF LocalInv
<1>2. /\ Stepped(p)
      /\ UNCHANGED <<env, creds, yaml, spent, wanted, cleared>>
      /\ "foreign" \in trouble' => "foreign" \in trouble
      /\ \/ Resets(p, "idle", "server") /\ ~proc'[p].failed
              /\ (proc[p].revoke = "idle" \/ "both" \in trouble')
         \/ /\ Resets(p, "server", "credentials") \/ Resets(p, "scripts", "relaunch")
            /\ proc'[p].failed = proc[p].failed
         \/ /\ Revokes(p, "idle", "credentials")
            /\ proc[p].reset = "idle" \/ "both" \in trouble'
         \/ Revokes(p, "stop", "relaunch")
  BY <1>1, PassingSteps
<1>3. /\ PhaseInv' /\ ~proc[p].setup /\ ~proc'[p].setup
      /\ \A q \in Procs : Up(q)' <=> Up(q)
      /\ proc'[p].phase \in Starting <=> proc[p].phase \in Starting
      /\ Plain' => \A q \in Procs : Tidy(q)'
  BY <1>2, SteppedFrame
<1>4. /\ Main(p)' <=> Main(p)
      /\ Removed(p)' <=> Removed(p)
      /\ YamlRemoved(p)' <=> YamlRemoved(p)
  BY <1>2, <1>3 DEF Main, Removed, YamlRemoved, Resets, Revokes
<1>5. \A q \in Procs : /\ Main(q)' <=> Main(q)
                       /\ Removed(q)' <=> Removed(q)
                       /\ YamlRemoved(q)' <=> YamlRemoved(q)
  BY <1>2, <1>4 DEF Main, Removed, YamlRemoved, Up, Stepped
<1>6. \A q \in Procs : Steady(q)
  BY <1>2, <1>3, <1>5 DEF Steady, Stepped
<1>7. KnownInv' /\ FilesInv' /\ (Orderly' => \A q, v \in Procs : Main(q)' /\ Main(v)' => q = v)
  BY <1>2, <1>6, Framed
<1>8. OneInv'
  <2>1. Orderly' => "both" \notin trouble'
    BY DEF Orderly, Without
  <2>2. Orderly' => /\ ~proc'[p].failed
                    /\ proc'[p].reset = "idle" \/ proc'[p].revoke = "idle"
    BY <1>1, <1>2, <2>1, BackThen DEF OneInv, Resets, Revokes
  <2>3. Orderly' => \A q \in Procs : q # p =>
          /\ ~proc'[q].failed
          /\ proc'[q].reset = "idle" \/ proc'[q].revoke = "idle"
    BY <1>1, <1>2, BackThen DEF OneInv, Stepped
  <2>4. QED
    BY <1>7, <2>2, <2>3 DEF OneInv
<1>9. LogInv'
  BY <1>1, <1>2, <1>5, BackThen DEF LogInv, Stepped, Running
<1>10. SettingsInv'
  <2>1. Plain' => Plain
    BY BackThen
  <2>2. Plain' /\ Quiet' => Choice(Loaded)' = wanted'
    BY <1>1, <1>2, <1>5, <2>1 DEF SettingsInv, Quiet, Stepped, Choice, Loaded
  <2>3. Plain' /\ Main(p)' => Backed(p)'
    <3>1. Plain' /\ Main(p)' => Backed(p)
      BY <1>1, <1>5, <2>1 DEF SettingsInv
    <3>2. QED
      BY <1>2, <1>5, <3>1 DEF Backed, Underway, Choice, Stepped, Running
  <2>4. Plain' => \A q \in Procs : q # p /\ Main(q)' => Backed(q)'
    BY <1>1, <1>2, <1>5, <2>1 DEF SettingsInv, Backed, Underway, Choice, Stepped
  <2>5. QED
    BY <1>3, <2>2, <2>3, <2>4 DEF SettingsInv
<1>11. QED
  BY <1>1, <1>3, <1>7, <1>8, <1>9, <1>10, LocalTyped DEF LocalInv

LEMMA ClearingKeeps ==
    ASSUME LocalInv, LocalMoves, NEW p \in Procs, ResetClears(p) \/ RevokeClears(p)
    PROVE  LocalInv'
<1>1. LocalTypeOK /\ KnownInv /\ PhaseInv /\ OneInv /\ FilesInv /\ LogInv /\ SettingsInv
  BY DEF LocalInv
<1>2. Stepped(p) /\ UNCHANGED <<env, spent>>
  BY <1>1, ClearingSteps
<1>3. /\ PhaseInv' /\ ~proc[p].setup /\ ~proc'[p].setup
      /\ \A q \in Procs : Up(q)' <=> Up(q)
      /\ proc'[p].phase \in Starting <=> proc[p].phase \in Starting
      /\ proc[p].token # NoReg
      /\ Plain' => \A q \in Procs : Tidy(q)'
  BY <1>2, SteppedFrame
<1>4. \A q \in Procs : q # p => /\ Main(q)' <=> Main(q)
                                /\ Removed(q)' <=> Removed(q)
  BY <1>2 DEF Main, Up, Removed, Stepped
<1>5. CASE ClearFails
  <2>1. KnownInv'
    BY <1>1, <1>2, <1>5 DEF KnownInv, Stepped, ClearFails
  <2>2. ~Orderly'
    BY <1>5 DEF ClearFails, Warn, Orderly, Without
  <2>3. OneInv' /\ FilesInv' /\ LogInv' /\ SettingsInv'
    BY <2>2 DEF OneInv, FilesInv, LogInv, SettingsInv, Unmixed, InTime, Plain
  <2>4. QED
    BY <1>1, <1>3, <2>1, <2>3, LocalTyped DEF LocalInv
<1>6. ASSUME \/ Resets(p, "credentials", "yaml") /\ proc'[p].failed = proc[p].failed
             \/ Revokes(p, "credentials", "yaml"),
             ClearCredentials(p)
      PROVE  LocalInv'
  <2>1. /\ creds' = NoReg /\ yaml' = yaml /\ wanted' = wanted
        /\ cleared' = cleared \cup ({creds, proc[p].token} \ {NoReg})
        /\ trouble' = trouble \cup If(creds \notin {NoReg, proc[p].token}, "foreign")
    BY <1>6 DEF ClearCredentials, Warn
  <2>2. Orderly' => /\ Main(p) /\ Main(p)' /\ ~Removed(p) /\ ~YamlRemoved(p)'
    BY <1>1, <1>2, <1>3, <1>6, BackThen
       DEF OneInv, Main, Up, Running, Removed, YamlRemoved, Resets, Revokes, Stepped
  <2>3. Removed(p)'
    BY <1>6 DEF Removed, Resets, Revokes
  <2>4. Orderly' => \A q \in Procs : Main(q)' => q = p
    BY <1>1, <1>4, <2>2, BackThen DEF OneInv
  <2>5. KnownInv'
    BY <1>1, <1>2, <2>1 DEF KnownInv, Stepped
  <2>6. OneInv'
    <3>1. Orderly' => \A q \in Procs :
            /\ ~proc'[q].failed
            /\ proc'[q].reset = "idle" \/ proc'[q].revoke = "idle"
      BY <1>1, <1>2, <1>6, BackThen DEF OneInv, Stepped, Resets, Revokes
    <3>2. QED
      BY <2>4, <3>1 DEF OneInv
  <2>7. FilesInv'
    <3>1. Unmixed' => Unmixed /\ Orderly'
      BY BackThen
    <3>2. Unmixed' => \A q, v \in Procs : Up(q)' /\ proc'[q].setup /\ Up(v)' => q = v
      BY <1>1, <1>2, <1>3, <3>1 DEF FilesInv, Stepped
    <3>3. Unmixed' => \A q \in Procs : Removed(q)' => proc'[q].token \in cleared'
      BY <1>1, <1>2, <1>3, <1>4, <2>1, <3>1 DEF FilesInv, Stepped
    <3>4. Unmixed' => creds \in {NoReg, proc[p].token}
      BY <1>1, <1>2, <2>2, <3>1 DEF FilesInv, Stepped, Running, Starting
    <3>5. Unmixed' => "foreign" \notin trouble'
      BY <1>1, <2>1, <3>1, <3>4 DEF FilesInv, If
    <3>6. QED
      BY <2>1, <2>3, <2>4, <3>1, <3>2, <3>3, <3>5 DEF FilesInv
  <2>8. LogInv'
    <3>1. InTime' => InTime /\ Orderly'
      BY BackThen DEF InTime, Unmixed
    <3>2. QED
      BY <1>1, <1>2, <2>2, <2>4, <3>1 DEF LogInv, Stepped, Running
  <2>9. SettingsInv'
    <3>1. Plain' => Plain /\ Orderly'
      BY BackThen DEF InTime, Unmixed
    <3>2. Orderly' => ~YamlRemoved(p) /\ (Quiet' => Quiet)
      <4>1. Orderly' => ~YamlRemoved(p)
        BY <2>2 DEF Removed, YamlRemoved
      <4>2. \A q \in Procs : q # p /\ Main(q) => Main(q)'
        BY <1>4
      <4>3. QED
        BY <1>2, <2>2, <2>4, <4>1, <4>2 DEF Quiet, Stepped
    <3>3. Plain' /\ Quiet' => Choice(Loaded)' = wanted'
      BY <1>1, <2>1, <3>1, <3>2 DEF SettingsInv, Choice, Loaded
    <3>4. Plain' => Backed(p)
      BY <1>1, <2>2, <3>1 DEF SettingsInv
    <3>5. Plain' => Backed(p)'
      BY <1>2, <2>1, <3>1, <3>2, <3>4 DEF Backed, Underway, Choice, Stepped, Running
    <3>6. QED
      BY <1>3, <2>4, <3>1, <3>3, <3>5 DEF SettingsInv
  <2>10. QED
    BY <1>1, <1>3, <2>5, <2>6, <2>7, <2>8, <2>9, LocalTyped DEF LocalInv
<1>7. ASSUME \/ Resets(p, "yaml", "scripts") /\ proc'[p].failed = proc[p].failed
             \/ Revokes(p, "yaml", "stop"),
             ClearYaml
      PROVE  LocalInv'
  <2>1. /\ yaml' = NoConfig /\ wanted' = [mode |-> DefaultMode, always |-> {}]
        /\ UNCHANGED <<creds, cleared, trouble>>
    BY <1>7 DEF ClearYaml
  <2>2. /\ Main(p)' <=> Main(p)
        /\ Removed(p)' <=> Removed(p)
        /\ YamlRemoved(p)'
    BY <1>2, <1>3, <1>7 DEF Main, Removed, YamlRemoved, Resets, Revokes
  <2>3. \A q \in Procs : Steady(q)
    BY <1>2, <1>3, <1>4, <2>2 DEF Steady, Stepped
  <2>4. KnownInv' /\ FilesInv' /\ (Orderly' => \A q, v \in Procs : Main(q)' /\ Main(v)' => q = v)
    BY <1>2, <2>1, <2>3, Framed
  <2>5. OneInv'
    <3>1. Orderly' => \A q \in Procs :
            /\ ~proc'[q].failed
            /\ proc'[q].reset = "idle" \/ proc'[q].revoke = "idle"
      BY <1>1, <1>2, <1>7, BackThen DEF OneInv, Stepped, Resets, Revokes
    <3>2. QED
      BY <2>4, <3>1 DEF OneInv
  <2>6. Orderly' => \A q \in Procs : Main(q)' => q = p
    <3>1. Orderly' => Main(p)
      BY <1>1, <1>2, <1>3, <1>7, BackThen
         DEF OneInv, Main, Up, Running, Resets, Revokes, Stepped
    <3>2. QED
      BY <2>2, <2>4, <3>1
  <2>7. LogInv'
    <3>1. InTime' => InTime /\ Orderly'
      BY BackThen DEF InTime, Unmixed
    <3>2. InTime' /\ Main(p)' => proc'[p].exec.log = proc'[p].token
      BY <1>1, <1>2, <2>2, <3>1 DEF LogInv, Stepped
    <3>3. proc'[p].phase \notin {"saved", "installing", "naming"}
      BY <1>2 DEF Stepped, Running
    <3>4. QED
      BY <2>1, <2>6, <3>1, <3>2, <3>3 DEF LogInv
  <2>8. SettingsInv'
    <3>1. Plain' => Orderly'
      BY BackThen DEF InTime, Unmixed
    <3>2. Choice(Loaded)' = wanted'
      BY <2>1 DEF Choice, Loaded, Default
    <3>3. Backed(p)'
      BY <1>2, <2>2 DEF Backed, Stepped, Running
    <3>4. QED
      BY <1>3, <2>6, <3>1, <3>2, <3>3 DEF SettingsInv
  <2>9. QED
    BY <1>1, <1>3, <2>4, <2>5, <2>7, <2>8, LocalTyped DEF LocalInv
<1>8. QED
  BY <1>1, <1>5, <1>6, <1>7, ClearingSteps

\* The program is launched beside p, which remains as it was but for its stage.
LEMMA RelaunchSteps ==
    ASSUME LocalTypeOK, PhaseInv, NEW p \in Procs, Relaunching(p)
    PROVE  /\ UNCHANGED <<env, creds, yaml, live, spent, wanted, cleared>>
           /\ Running(p)
           /\ proc'[p].setup = proc[p].setup /\ proc'[p].token = proc[p].token
           /\ proc'[p].exec = proc[p].exec /\ proc'[p].copy = proc[p].copy
           /\ proc'[p].window = proc[p].window /\ proc'[p].phase = proc[p].phase
           /\ proc'[p].saves = proc[p].saves
           /\ \/ /\ "relaunchFailed" \in trouble'
                 /\ \A q \in Procs : q # p => proc'[q] = proc[q]
              \/ /\ trouble' = trouble
                 /\ proc'[p].failed = proc[p].failed
                 /\ \/ /\ proc[p].reset = "relaunch" /\ proc'[p].revoke = proc[p].revoke
                       /\ ~proc[p].failed => proc'[p].reset = "quit"
                    \/ /\ proc[p].revoke = "relaunch" /\ proc'[p].revoke = "quit"
                       /\ proc'[p].reset = proc[p].reset
                 /\ \E n \in Procs :
                      /\ n # p /\ ~Up(n) /\ proc'[n] = Booted(creds)
                      /\ \A q \in Procs : q \notin {p, n} => proc'[q] = proc[q]
<1>1. proc \in [Procs -> Process] /\ proc[p] \in Process
  BY Appearances
<1>2. Running(p) /\ Up(p)
  BY DEF Relaunching, ResetRelaunches, RevokeRelaunches, PhaseInv, Running, Up
<1>3. UNCHANGED <<env, creds, yaml, live, spent, wanted, cleared>>
  BY DEF Relaunching, ResetRelaunches, RevokeRelaunches
<1>4. Token(FilteredEnv) = creds
  BY DEF Token, FilteredEnv
<1>5. ASSUME NEW self, Relaunched(p, self)
      PROVE  /\ proc'[p] = self
             /\ \E n \in Procs :
                  /\ n # p /\ ~Up(n) /\ proc'[n] = Booted(creds)
                  /\ \A q \in Procs : q \notin {p, n} => proc'[q] = proc[q]
  BY <1>1, <1>2, <1>4, <1>5 DEF Relaunched
<1>6. CASE ResetRelaunches(p)
  <2> DEFINE to == IF proc[p].failed THEN "idle" ELSE "quit"
  <2>1. CASE Relaunched(p, [proc[p] EXCEPT !.reset = to]) /\ UNCHANGED trouble
    <3>1. proc'[p] = [proc[p] EXCEPT !.reset = to]
      BY <1>5, <2>1
    <3>2. /\ proc'[p].setup = proc[p].setup /\ proc'[p].token = proc[p].token
          /\ proc'[p].exec = proc[p].exec /\ proc'[p].copy = proc[p].copy
          /\ proc'[p].window = proc[p].window /\ proc'[p].phase = proc[p].phase
          /\ proc'[p].failed = proc[p].failed /\ proc'[p].revoke = proc[p].revoke
          /\ proc'[p].reset = to /\ proc'[p].saves = proc[p].saves
      BY <1>1, <3>1 DEF Process
    <3>3. proc[p].reset = "relaunch"
      BY <1>6 DEF ResetRelaunches
    <3>4. ~proc[p].failed => proc'[p].reset = "quit"
      BY <3>2
    <3>5. QED
      BY <1>2, <1>3, <1>5, <2>1, <3>2, <3>3, <3>4
  <2>2. CASE /\ proc' = [proc EXCEPT ![p].reset = "idle", ![p].failed = TRUE]
             /\ Warn({"relaunchFailed"})
    <3>1. "relaunchFailed" \in trouble'
      BY <2>2 DEF Warn
    <3>2. /\ proc'[p].setup = proc[p].setup /\ proc'[p].token = proc[p].token
          /\ proc'[p].exec = proc[p].exec /\ proc'[p].copy = proc[p].copy
          /\ proc'[p].window = proc[p].window /\ proc'[p].phase = proc[p].phase
          /\ proc'[p].saves = proc[p].saves
          /\ \A q \in Procs : q # p => proc'[q] = proc[q]
      BY <1>1, <2>2 DEF Process
    <3>3. QED
      BY <1>2, <1>3, <3>1, <3>2
  <2>3. QED
    BY <1>6, <2>1, <2>2 DEF ResetRelaunches
<1>7. CASE RevokeRelaunches(p)
  <2>1. /\ proc[p].revoke = "relaunch"
        /\ \/ Relaunched(p, [proc[p] EXCEPT !.revoke = "quit"]) /\ UNCHANGED trouble
           \/ proc' = [proc EXCEPT ![p].revoke = "quit"] /\ Warn({"relaunchFailed"})
    BY <1>7 DEF RevokeRelaunches
  <2>2. proc'[p] = [proc[p] EXCEPT !.revoke = "quit"]
    BY <1>1, <1>5, <2>1
  <2>3. /\ proc'[p].setup = proc[p].setup /\ proc'[p].token = proc[p].token
        /\ proc'[p].exec = proc[p].exec /\ proc'[p].copy = proc[p].copy
        /\ proc'[p].window = proc[p].window /\ proc'[p].phase = proc[p].phase
        /\ proc'[p].failed = proc[p].failed /\ proc'[p].revoke = "quit"
        /\ proc'[p].reset = proc[p].reset /\ proc'[p].saves = proc[p].saves
    BY <1>1, <2>2 DEF Process
  <2>4. CASE Relaunched(p, [proc[p] EXCEPT !.revoke = "quit"]) /\ UNCHANGED trouble
    BY <1>2, <1>3, <1>5, <2>1, <2>3, <2>4
  <2>5. CASE proc' = [proc EXCEPT ![p].revoke = "quit"] /\ Warn({"relaunchFailed"})
    <3>1. "relaunchFailed" \in trouble' /\ \A q \in Procs : q # p => proc'[q] = proc[q]
      BY <1>1, <2>5 DEF Warn
    <3>2. QED
      BY <1>2, <1>3, <2>3, <3>1
  <2>6. QED
    BY <2>1, <2>4, <2>5
<1>8. QED
  BY <1>6, <1>7 DEF Relaunching

LEMMA RelaunchingKeeps ==
    ASSUME LocalInv, LocalMoves, NEW p \in Procs, Relaunching(p)
    PROVE  LocalInv'
<1>1. LocalTypeOK /\ KnownInv /\ PhaseInv /\ OneInv /\ FilesInv /\ LogInv /\ SettingsInv
  BY DEF LocalInv
<1>2. /\ UNCHANGED <<env, creds, yaml, live, spent, wanted, cleared>>
      /\ Running(p)
      /\ proc'[p].setup = proc[p].setup /\ proc'[p].token = proc[p].token
      /\ proc'[p].exec = proc[p].exec /\ proc'[p].copy = proc[p].copy
      /\ proc'[p].window = proc[p].window /\ proc'[p].phase = proc[p].phase
      /\ proc'[p].saves = proc[p].saves
  BY <1>1, RelaunchSteps
<1>3. CASE /\ "relaunchFailed" \in trouble'
           /\ \A q \in Procs : q # p => proc'[q] = proc[q]
  <2>1. KnownInv' /\ PhaseInv'
    BY <1>1, <1>2, <1>3 DEF KnownInv, PhaseInv, SavesFit, Running
  <2>2. ~Orderly'
    BY <1>3 DEF Orderly, Without
  <2>3. OneInv' /\ FilesInv' /\ LogInv' /\ SettingsInv'
    BY <2>2 DEF OneInv, FilesInv, LogInv, SettingsInv, Unmixed, InTime, Plain
  <2>4. QED
    BY <1>1, <2>1, <2>3, LocalTyped DEF LocalInv
<1>4. ASSUME trouble' = trouble, proc'[p].failed = proc[p].failed,
             \/ /\ proc[p].reset = "relaunch" /\ proc'[p].revoke = proc[p].revoke
                /\ ~proc[p].failed => proc'[p].reset = "quit"
             \/ /\ proc[p].revoke = "relaunch" /\ proc'[p].revoke = "quit"
                /\ proc'[p].reset = proc[p].reset,
             NEW n \in Procs, n # p, ~Up(n), proc'[n] = Booted(creds),
             \A q \in Procs : q \notin {p, n} => proc'[q] = proc[q]
      PROVE  LocalInv'
  <2>1. /\ proc'[n].phase \in {"wizard", "naming"} /\ proc'[n].token = creds
        /\ proc'[n].phase = "wizard" <=> creds = NoReg
        /\ ~proc'[n].setup /\ ~proc'[n].failed
        /\ proc'[n].copy = NoConfig /\ proc'[n].window = NoWindow
        /\ proc'[n].reset = "idle" /\ proc'[n].revoke = "idle" /\ proc'[n].saves = {}
    BY <1>4, BootedIs
  <2>2. KnownInv'
    BY <1>1, <1>2, <1>4, <2>1 DEF KnownInv
  <2>3. PhaseInv'
    BY <1>1, <1>2, <1>4, <2>1 DEF PhaseInv, SavesFit, Running
  <2>4. Up(p) /\ ~proc[p].setup /\ Up(p)'
    BY <1>1, <1>2 DEF Up, Running, PhaseInv, Starting
  <2>5. Orderly => /\ Main(p) /\ Removed(p) /\ ~Main(p)' /\ Removed(p)'
                   /\ proc'[p].reset = "idle" \/ proc'[p].revoke = "idle"
    BY <1>1, <1>4, <2>4 DEF OneInv, Main, Removed
  <2>6. Orderly' => Orderly
    BY BackThen
  <2>7. Orderly => \A q \in Procs : Main(q)' => q = n
    BY <1>1, <1>4, <2>5 DEF OneInv, Main, Up
  <2>8. OneInv'
    BY <1>1, <1>4, <2>1, <2>5, <2>6, <2>7 DEF OneInv
  <2>9. Unmixed' => creds = NoReg /\ proc'[n].phase = "wizard" /\ proc'[n].token = NoReg
    BY <1>1, <2>1, <2>5, BackThen DEF FilesInv, Unmixed
  <2>10. FilesInv'
    <3>1. Unmixed' => Unmixed /\ Orderly
      BY BackThen DEF Unmixed
    <3>2. Unmixed' => \A q \in Procs : ~(Up(q)' /\ proc'[q].setup)
      BY <1>1, <1>2, <1>4, <2>1, <2>4, <3>1 DEF FilesInv, Up
    <3>3. Unmixed' => \A q \in Procs : Removed(q)' => proc'[q].token \in cleared'
      <4>1. ~Removed(n)'
        BY <2>1 DEF Removed
      <4>2. \A q \in Procs : q \notin {p, n} => (Removed(q)' <=> Removed(q))
        BY <1>4 DEF Removed
      <4>3. QED
        BY <1>1, <1>2, <1>4, <2>5, <3>1, <4>1, <4>2 DEF FilesInv
    <3>4. Unmixed' => proc'[n].token \notin cleared' /\ creds' = NoReg
      BY <1>1, <1>2, <2>9, NoRegIsNone
    <3>5. Unmixed' => "foreign" \notin trouble'
      BY <1>1, <1>4, <3>1 DEF FilesInv
    <3>6. "wizard" \in Starting
      BY DEF Starting
    <3>7. QED
      BY <2>7, <2>9, <3>1, <3>2, <3>3, <3>4, <3>5, <3>6 DEF FilesInv
  <2>11. InTime' => \A q \in Procs : Main(q)' => q = n /\ proc'[q].phase = "wizard"
    BY <2>6, <2>7, <2>9, BackThen
  <2>12. ~YamlRemoved(n)'
    BY <2>1 DEF YamlRemoved
  <2>13. LogInv'
    BY <2>11, <2>12 DEF LogInv, Running
  <2>14. SettingsInv'
    <3>1. Plain' => Plain /\ InTime' /\ Orderly
      BY BackThen DEF InTime, Unmixed
    <3>2. Orderly => Quiet
      <4>1. Orderly => YamlRemoved(p)
        BY <1>1, <1>4 DEF YamlRemoved
      <4>2. QED
        BY <1>1, <2>5, <4>1 DEF OneInv, Quiet
    <3>3. Plain' => Choice(Loaded)' = wanted'
      BY <1>1, <1>2, <3>1, <3>2 DEF SettingsInv, Choice, Loaded
    <3>4. Plain' => \A q \in Procs : Tidy(q)'
      BY <1>1, <1>2, <1>4, <2>1, <3>1 DEF SettingsInv, Tidy
    <3>5. Plain' => \A q \in Procs : Main(q)' => Backed(q)'
      BY <2>11, <3>1 DEF Backed
    <3>6. QED
      BY <3>3, <3>4, <3>5 DEF SettingsInv
  <2>15. QED
    BY <1>1, <2>2, <2>3, <2>8, <2>10, <2>13, <2>14, LocalTyped DEF LocalInv
<1>5. QED
  BY <1>1, <1>3, <1>4, RelaunchSteps

LEMMA LocalHolds == Spec => []LocalInv
<1>1. ASSUME LocalInit
      PROVE  LocalInv
  <2>1. /\ env \in Regs \cup {NoReg} /\ creds \in Regs \cup {NoReg} /\ NoReg \in {env, creds}
        /\ spent = {env, creds} \ {NoReg} /\ live = spent
        /\ yaml \in {NoConfig} \cup {[Default EXCEPT !.log = r] : r \in spent}
        /\ proc = [p \in Procs |-> Down]
        /\ wanted = [mode |-> DefaultMode, always |-> {}]
        /\ cleared = {} /\ trouble = {}
    BY <1>1 DEF LocalInit
  <2>2. spent \subseteq Regs
    BY <2>1
  <2>3. \A r \in spent : /\ [Default EXCEPT !.log = r] \in Config
                         /\ Choice([Default EXCEPT !.log = r]) = wanted
    BY <2>1, <2>2, LocalAssumption DEF Default, Config, Choice
  <2>4. proc \in [Procs -> Process]
    BY <2>1, DownTyped
  <2>5. wanted \in Wish
    BY <2>1, LocalAssumption DEF Wish
  <2>6. LocalTypeOK
    BY <2>1, <2>2, <2>3, <2>4, <2>5 DEF LocalTypeOK, Wish
  <2>7. \A p \in Procs :
          /\ proc[p].phase = "off" /\ ~proc[p].setup /\ proc[p].token = NoReg
          /\ proc[p].copy = NoConfig /\ proc[p].window = NoWindow
          /\ proc[p].reset = "idle" /\ proc[p].revoke = "idle" /\ ~proc[p].failed
          /\ proc[p].saves = {}
    BY <2>1 DEF Down
  <2>8. KnownInv /\ PhaseInv
    BY <2>1, <2>7 DEF KnownInv, PhaseInv
  <2>9. OneInv /\ FilesInv /\ LogInv
    BY <2>1, <2>7 DEF OneInv, FilesInv, LogInv, Main, Up, Removed
  <2>10. Choice(Loaded) = wanted
    <3>1. CASE yaml = NoConfig
      BY <2>1, <3>1 DEF Loaded, Choice, Default
    <3>2. CASE yaml # NoConfig
      BY <2>1, <2>3, <3>2 DEF Loaded
    <3>3. QED
      BY <3>1, <3>2
  <2>11. SettingsInv
    BY <2>7, <2>10 DEF SettingsInv, Tidy, Main, Up
  <2>12. QED
    BY <2>6, <2>8, <2>9, <2>11 DEF LocalInv
<1>2. Init => LocalInv
  BY <1>1 DEF Init
<1>3. ASSUME LocalInv, LocalMoves
      PROVE  LocalInv'
  <2>1. CASE \E p \in Procs, shell \in BOOLEAN : Launch(p, shell)
    BY <1>3, <2>1, LaunchKeeps
  <2>2. CASE \E p \in Procs : StartSetup(p)
    BY <1>3, <2>2, StartSetupKeeps
  <2>3. CASE \E p \in Procs : End(p)
    BY <1>3, <2>3, EndKeeps
  <2>4. CASE \E p \in Procs : Settling(p)
    <3>1. PICK p \in Procs : Settling(p)
      BY <2>4
    <3>2. CASE \E m \in Modes : WizardSaves(p, m)
      BY <1>3, <3>2, WizardSavesKeeps
    <3>3. QED
      BY <1>3, <3>1, <3>2, RegisterKeeps, WizardCredentialsKeeps, InstallKeeps,
         StartServingKeeps DEF Settling
  <2>5. CASE \E p \in Procs : Tuning(p)
    BY <1>3, <2>5, TuningKeeps
  <2>6. CASE \E p \in Procs : Removing(p)
    BY <1>3, <2>6, PassingKeeps, ClearingKeeps DEF Removing
  <2>7. CASE \E p \in Procs : Relaunching(p)
    BY <1>3, <2>7, RelaunchingKeeps
  <2>8. CASE Outside
    BY <1>3, <2>8, OutsideKeeps
  <2>9. QED
    BY <1>3, <2>1, <2>2, <2>3, <2>4, <2>5, <2>6, <2>7, <2>8 DEF LocalMoves
<1>4. LocalInv /\ [Next]_vars => LocalInv'
  BY <1>3, LocalSteps
<1>5. QED
  BY <1>2, <1>4, PTL DEF Spec

\* The files, the registrations, the processes, the script and its workers keep
\* their types, and the bounds of the model hold (TypeOK).
THEOREM LocalStateTypeOK == Spec => []TypeOK
<1> DEFINE Bounds == launches \in 0..MaxLaunches /\ events \in 0..MaxEvents
<1>1. Init => Bounds
  BY LocalStateAssumption DEF Init
<1>2. Bounds /\ [Next]_vars => Bounds'
  <2> SUFFICES ASSUME Bounds, [Next]_vars
               PROVE  Bounds'
    OBVIOUS
  <2>1. \/ UNCHANGED <<launches, events>>
        \/ launches < MaxLaunches /\ launches' = launches + 1 /\ UNCHANGED events
        \/ events < MaxEvents /\ events' = events + 1 /\ UNCHANGED launches
    <3>1. CASE LocalStep
      BY <3>1 DEF LocalStep, Event, Free
    <3>2. CASE LibraryStep
      BY <3>2 DEF LibraryStep, Event, Free
    <3>3. CASE \E p \in Procs : ResetsScripts(p) \/ ProcessEnds(p)
      BY <3>3 DEF ResetsScripts, ProcessEnds, Free
    <3>4. QED
      BY <3>1, <3>2, <3>3 DEF Next, vars
  <2>2. QED
    BY <2>1, LocalStateAssumption
<1>3. LocalInv /\ LibraryInv /\ Bounds => TypeOK
  BY DEF LocalInv, LibraryInv, TypeOK
<1>4. QED
  BY <1>1, <1>2, <1>3, LocalHolds, LibraryHolds, PTL DEF Spec

\* After any number of registrations, resets, revocations and relaunches, at most
\* one process settles; it serves the registration of the files, or of the shell
\* without a file, which nobody has removed, with the audit log of it; and a
\* process removes the registration of nobody else, unless one of the troubles
\* the code meets has happened (RegistrationIsWhole).
THEOREM RegistrationWhole == Spec => []RegistrationIsWhole
<1>1. ASSUME LocalInv
      PROVE  RegistrationIsWhole
  <2>1. PhaseInv /\ OneInv /\ FilesInv /\ LogInv
    BY <1>1 DEF LocalInv
  <2>2. ASSUME NEW p \in Procs, Settled(p)
        PROVE  Main(p) /\ Running(p) /\ ~Removed(p) /\ proc[p].phase \notin Starting
    BY <2>1, <2>2 DEF Settled, Serving, PhaseInv, Main, Up, Running, Removed, Starting
  <2>3. Orderly => \A p, q \in Procs : Settled(p) /\ Settled(q) => p = q
    BY <2>1, <2>2 DEF OneInv
  <2>4. ASSUME InTime, NEW p \in Procs, Settled(p)
        PROVE  /\ proc[p].token = IF creds = NoReg THEN env ELSE creds
               /\ proc[p].token \notin cleared
               /\ proc[p].exec.log = proc[p].token
    BY <2>1, <2>2, <2>4 DEF FilesInv, LogInv, InTime
  <2>5. Unmixed => "foreign" \notin trouble
    BY <2>1 DEF FilesInv
  <2>6. /\ Without({"shell", "clearFailed", "relaunchFailed", "both"}) <=> Orderly
        /\ Without({"shell", "clearFailed", "relaunchFailed", "both", "lateSave",
                    "beside"}) <=> InTime
        /\ Without({"shell", "clearFailed", "relaunchFailed", "both", "beside"}) <=> Unmixed
    BY DEF Without, Orderly, Unmixed, InTime
  <2>7. QED
    BY <2>3, <2>4, <2>5, <2>6 DEF RegistrationIsWhole
<1>2. LocalInv => RegistrationIsWhole
  BY <1>1
<1>3. QED
  BY <1>2, LocalHolds, PTL

\* Whenever no save is under way, the settings the operator last asked for are in
\* runner.yaml and in the memory of the process at work, through any number of
\* starts, resets and relaunches and however the steps of the saves fall between
\* those of a reset or a revocation, unless one of the troubles the code meets
\* has happened: among them a save that failed or was cut short between the
\* truncation and the write, and two saves of a process that overlapped
\* (SettingsInForce).
THEOREM SettingsHold == Spec => []SettingsInForce
<1>1. ASSUME LocalInv
      PROVE  SettingsInForce
  <2>1. LocalTypeOK /\ PhaseInv /\ OneInv /\ SettingsInv
    BY <1>1 DEF LocalInv
  <2>2. Without({"shell", "clearFailed", "relaunchFailed", "both", "lateSave",
                 "beside", "saveFailed", "overlap", "tray", "snapshot"}) => Plain
    BY DEF Without, Orderly, Unmixed, InTime, Plain
  <2>3. ASSUME Plain, NEW p \in Procs, Settled(p), proc[p].saves = {}
        PROVE  yaml = proc[p].exec /\ [mode |-> yaml.mode, always |-> yaml.always] = wanted
    <3>1. Main(p) /\ ~YamlRemoved(p) /\ proc[p].phase = "serving"
      BY <2>1, <2>3 DEF Settled, Serving, PhaseInv, Main, Up, YamlRemoved, Starting
    <3>2. Quiet
      BY <2>1, <2>3, <3>1 DEF Quiet, OneInv, Plain, InTime, Unmixed
    <3>3. yaml = proc[p].exec /\ Choice(Loaded) = wanted
      BY <2>1, <2>3, <3>1, <3>2 DEF SettingsInv, Backed
    <3>4. Loaded = yaml
      BY <2>1, <3>3, Appearances, ConfigAssumption DEF Loaded
    <3>5. QED
      BY <3>3, <3>4 DEF Choice
  <2>4. QED
    BY <2>2, <2>3 DEF SettingsInForce
<1>2. LocalInv => SettingsInForce
  BY <1>1
<1>3. QED
  BY <1>2, LocalHolds, PTL
=============================================================================
