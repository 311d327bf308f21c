-------------------------- MODULE ConnectionProofs --------------------------
(***************************************************************************)
(* Proofs about Connection and its history, for any bound on the failures  *)
(* that are counted while the platform is unreachable.                     *)
(***************************************************************************)
EXTENDS ConnectionHistory, TLAPS

\* Steps of the surroundings and of the poll loop that no answer takes part in.
Aside == Delete \/ NetworkChanges \/ Quit \/ Dispatched \/ RunReturns

\* Every step is one of these.
LEMMA ConnSteps ==
  ASSUME [ConnNext]_connVars
  PROVE  \/ Aside
         \/ \E l \in Loops : \/ \E a \in Answers : Call(l, a)
                             \/ Handle(l)
                             \/ Stop(l)
         \/ UNCHANGED connVars
  BY DEF ConnNext, Aside

-----------------------------------------------------------------------------
(* Types *)

LEMMA ConnTypeStep == ConnTypeOK /\ [ConnNext]_connVars => ConnTypeOK'
  <1> SUFFICES ASSUME ConnTypeOK, [ConnNext]_connVars PROVE ConnTypeOK'
    OBVIOUS
  <1> USE DEF ConnTypeOK, Loops, Positions, Answers, Goto
  <1>1. CASE Aside
    BY <1>1 DEF Aside, Delete, NetworkChanges, Quit, Dispatched, RunReturns
  <1>2. ASSUME NEW l \in Loops, NEW a \in Answers, Call(l, a)
        PROVE  ConnTypeOK'
    BY <1>2 DEF Call
  <1>3. ASSUME NEW l \in Loops, Handle(l)
        PROVE  ConnTypeOK'
    <2>1. CASE ResetAuth(l)
      BY <2>1 DEF ResetAuth
    <2>2. CASE CountRefusal(l)
      BY <2>2 DEF CountRefusal
    <2>3. CASE EnterOnce(l) \/ SkipOnce(l)
      BY <2>3 DEF EnterOnce, SkipOnce
    <2>4. CASE Logout(l)
      BY <2>4 DEF Logout
    <2>5. CASE LeaveOnce(l)
      BY <2>5 DEF LeaveOnce
    <2>6. Resume(l) => /\ at' \in [Loops -> Positions]
                       /\ answer' \in [Loops -> Answers \cup {"none"}]
      BY DEF Resume
    <2>7. CASE RecordSuccess(l)
      BY <2>6, <2>7 DEF RecordSuccess
    <2>8. CASE AnnounceConnected(l)
      BY <2>6, <2>8 DEF AnnounceConnected
    <2>9. CASE RecordFailure(l)
      <3>1. apiReachable' \in BOOLEAN /\ apiFailures' \in Nat
        <4>1. \/ apiReachable' = FALSE /\ apiFailures' = 0
              \/ apiReachable' = apiReachable /\ apiFailures' = apiFailures + 1
          BY <2>9 DEF RecordFailure, apiFailureThreshold
        <4>2. apiReachable' \in BOOLEAN
          BY <4>1, Zenon
        <4>3. apiFailures' \in Nat
          BY <4>1
        <4> QED
          BY <4>2, <4>3
      <3>2. badge' \in {"connecting", "connected", "reconnecting", "offline"}
        BY <2>9 DEF RecordFailure, apiFailureThreshold
      <3> QED
        BY <2>6, <2>9, <3>1, <3>2 DEF RecordFailure
    <2> QED
      BY <1>3, <2>1, <2>2, <2>3, <2>4, <2>5, <2>7, <2>8, <2>9 DEF Handle
  <1>4. ASSUME NEW l \in Loops, Stop(l)
        PROVE  ConnTypeOK'
    BY <1>4 DEF Stop
  <1>5. CASE UNCHANGED connVars
    BY <1>5 DEF connVars
  <1> QED
    BY <1>1, <1>2, <1>3, <1>4, <1>5, ConnSteps

\* Whatever the answers and the order in which two loops handle them, every
\* variable of the connection keeps its type.
THEOREM ConnectionTypeOK == ConnSpec => []ConnTypeOK
  <1>1. ASSUME ConnInit PROVE ConnTypeOK
    <2>1. at \in [Loops -> Positions]
      BY <1>1 DEF ConnInit, Positions
    <2>2. answer \in [Loops -> Answers \cup {"none"}]
      BY <1>1 DEF ConnInit
    <2> QED
      BY <1>1, <2>1, <2>2 DEF ConnInit, ConnTypeOK
  <1> QED
    BY <1>1, ConnTypeStep, PTL DEF ConnSpec

-----------------------------------------------------------------------------
(* The logout *)

Inside(l) == at[l] \in {"logout", "relaunch"}

\* The sync.Once: nobody is inside before it was entered or after it is done,
\* one loop is inside in between, and logouts says how far that one has got.
OnceInv ==
    /\ revokedOnce = "running" <=> \E l \in Loops : Inside(l)
    /\ \A l, k \in Loops : Inside(l) /\ Inside(k) => l = k
    /\ \A l \in Loops : /\ at[l] = "logout" => logouts = 0
                        /\ at[l] = "relaunch" => logouts = 1
                        /\ at[l] = "revoked" => revokedOnce = "done"
    /\ revokedOnce = "new" => logouts = 0
    /\ revokedOnce = "done" => logouts = 1

LEMMA OnceStep ==
  ConnTypeOK /\ OnceInv /\ [ConnNext]_connVars => OnceInv'
  <1> SUFFICES ASSUME ConnTypeOK, OnceInv, [ConnNext]_connVars PROVE OnceInv'
    OBVIOUS
  <1> USE DEF ConnTypeOK, OnceInv, Inside, Loops, Goto
  <1>1. CASE Aside
    BY <1>1 DEF Aside, Delete, NetworkChanges, Quit, Dispatched, RunReturns
  <1>2. ASSUME NEW l \in Loops, NEW a \in Answers, Call(l, a)
        PROVE  OnceInv'
    BY <1>2 DEF Call
  <1>3. ASSUME NEW l \in Loops, Handle(l)
        PROVE  OnceInv'
    <2>1. CASE ResetAuth(l) \/ CountRefusal(l)
      BY <2>1 DEF ResetAuth, CountRefusal
    <2>2. CASE EnterOnce(l)
      BY <2>2 DEF EnterOnce
    <2>3. CASE Logout(l)
      BY <2>3 DEF Logout
    <2>4. CASE LeaveOnce(l)
      BY <2>4 DEF LeaveOnce
    <2>5. CASE SkipOnce(l)
      BY <2>5 DEF SkipOnce
    <2>6. CASE RecordSuccess(l)
      BY <2>6 DEF RecordSuccess, Resume, Starting
    <2>7. CASE AnnounceConnected(l)
      BY <2>7 DEF AnnounceConnected, Resume, Starting
    <2>8. CASE RecordFailure(l)
      BY <2>8 DEF RecordFailure, Resume, Starting
    <2> QED
      BY <1>3, <2>1, <2>2, <2>3, <2>4, <2>5, <2>6, <2>7, <2>8 DEF Handle
  <1>4. ASSUME NEW l \in Loops, Stop(l)
        PROVE  OnceInv'
    BY <1>4 DEF Stop
  <1>5. CASE UNCHANGED connVars
    BY <1>5 DEF connVars
  <1> QED
    BY <1>1, <1>2, <1>3, <1>4, <1>5, ConnSteps

LEMMA OnceInvariant == ConnSpec => []OnceInv
  <1>1. ConnInit => OnceInv
    BY DEF ConnInit, OnceInv, Inside, Loops
  <1> QED
    BY <1>1, OnceStep, ConnectionTypeOK, PTL DEF ConnSpec

\* handleAuthRevoked: sync.Once.Do returns to its second caller only when the
\* first is done, so no loop gives up before the logout and the relaunch are
\* over, and there is one logout.
THEOREM LogoutIsAwaited == ConnSpec => []LoserWaitsForLogout
  <1>1. OnceInv => LoserWaitsForLogout
    BY DEF OnceInv, LoserWaitsForLogout
  <1> QED
    BY <1>1, OnceInvariant, PTL

-----------------------------------------------------------------------------
(* The badge *)

LEMMA BadgeStep ==
  ConnTypeOK /\ BadgeCatchesUp /\ [ConnNext]_connVars => BadgeCatchesUp'
  <1> SUFFICES ASSUME ConnTypeOK, BadgeCatchesUp, [ConnNext]_connVars
               PROVE  BadgeCatchesUp'
    OBVIOUS
  <1> USE DEF ConnTypeOK, BadgeCatchesUp, Loops, Goto
  <1>1. CASE Aside
    BY <1>1 DEF Aside, Delete, NetworkChanges, Quit, Dispatched, RunReturns
  <1>2. ASSUME NEW l \in Loops, NEW a \in Answers, Call(l, a)
        PROVE  BadgeCatchesUp'
    BY <1>2 DEF Call
  <1>3. ASSUME NEW l \in Loops, Handle(l)
        PROVE  BadgeCatchesUp'
    <2>1. CASE ResetAuth(l) \/ CountRefusal(l)
      BY <2>1 DEF ResetAuth, CountRefusal
    <2>2. CASE EnterOnce(l) \/ Logout(l) \/ LeaveOnce(l) \/ SkipOnce(l)
      BY <2>2 DEF EnterOnce, Logout, LeaveOnce, SkipOnce
    <2>3. CASE RecordSuccess(l)
      BY <2>3 DEF RecordSuccess, Resume, Starting
    <2>4. CASE AnnounceConnected(l)
      BY <2>4 DEF AnnounceConnected
    <2>5. CASE RecordFailure(l)
      BY <2>5 DEF RecordFailure, Resume, Starting
    <2> QED
      BY <1>3, <2>1, <2>2, <2>3, <2>4, <2>5 DEF Handle
  <1>4. ASSUME NEW l \in Loops, Stop(l)
        PROVE  BadgeCatchesUp'
    BY <1>4 DEF Stop
  <1>5. CASE UNCHANGED connVars
    BY <1>5 DEF connVars
  <1> QED
    BY <1>1, <1>2, <1>3, <1>4, <1>5, ConnSteps

\* recordAPISuccess tells the sinks outside the lock: late, but never not at all.
THEOREM BadgeFollows == ConnSpec => []BadgeCatchesUp
  <1>1. ConnInit => BadgeCatchesUp
    BY DEF ConnInit, BadgeCatchesUp
  <1> QED
    BY <1>1, BadgeStep, ConnectionTypeOK, PTL DEF ConnSpec

-----------------------------------------------------------------------------
(* The history *)

\* What the counters know of the last answers.
HistoryInv ==
    /\ authFailures > 0 => judged[2] = "refused"
    /\ apiReachable /\ apiFailures > 0 => recorded[2] # "ok"

\* A loop passes a position alone: then the history takes its answer.
LEMMA CountedByOne ==
  ASSUME NEW l \in Loops, NEW position, NEW history,
         at[l] = position, at'[l] # position,
         \A k \in Loops \ {l} : at[k] = position => at'[k] = position
  PROVE  Counted(history, position) = <<history[2], answer[l]>>
  <1>1. \A k \in Loops : at[k] = position /\ at'[k] # position <=> k = l
    OBVIOUS
  <1>2. (CHOOSE k \in Loops : at[k] = position /\ at'[k] # position) = l
    BY <1>1
  <1> QED
    BY <1>2 DEF Counted

\* A step in which nobody passes leaves it alone.
LEMMA CountedByNone ==
  ASSUME NEW position, NEW history,
         \A l \in Loops : at[l] = position => at'[l] = position
  PROVE  Counted(history, position) = history
  BY DEF Counted

\* handleAuthRevoked counts one answer, and says which.
LEMMA Judging ==
  ASSUME ConnTypeOK, HistNext, NEW l \in Loops, ResetAuth(l) \/ CountRefusal(l)
  PROVE  judged' = <<judged[2], answer[l]>> /\ recorded' = recorded
  <1> USE DEF ConnTypeOK, Loops, Goto, ResetAuth, CountRefusal
  <1>1. at[l] = "judge" /\ at'[l] # "judge"
    OBVIOUS
  <1>2. \A k \in Loops \ {l} : at'[k] = at[k]
    OBVIOUS
  <1>3. Counted(judged, "judge") = <<judged[2], answer[l]>>
    BY <1>1, <1>2, CountedByOne
  <1>4. Counted(recorded, "record") = recorded
    BY <1>1, <1>2, CountedByNone
  <1> QED
    BY <1>3, <1>4 DEF HistNext

\* So do recordAPISuccess and recordAPIFailure, also when Run then starts the
\* heartbeat loop.
LEMMA Recording ==
  ASSUME ConnTypeOK, HistNext, NEW l \in Loops, RecordSuccess(l) \/ RecordFailure(l)
  PROVE  judged' = judged /\ recorded' = <<recorded[2], answer[l]>>
  <1> USE DEF ConnTypeOK, Loops, Positions, Goto
  <1>1. at[l] = "record" /\ at'[l] # "record"
    BY DEF RecordSuccess, RecordFailure, Resume
  <1>2. \A k \in Loops \ {l} : at'[k] = at[k] \/ at[k] = "off"
    BY DEF RecordSuccess, RecordFailure, Resume, Starting
  <1>3. Counted(recorded, "record") = <<recorded[2], answer[l]>>
    BY <1>1, <1>2, CountedByOne
  <1>4. Counted(judged, "judge") = judged
    BY <1>1, <1>2, CountedByNone
  <1> QED
    BY <1>3, <1>4 DEF HistNext

\* Everything else is not counted.
Uncounted ==
    \/ Aside
    \/ \E l \in Loops : \/ \E a \in Answers : Call(l, a)
                        \/ EnterOnce(l) \/ Logout(l) \/ LeaveOnce(l) \/ SkipOnce(l)
                        \/ AnnounceConnected(l) \/ Stop(l)

LEMMA NotCounting ==
  ASSUME ConnTypeOK, HistNext, Uncounted
  PROVE  judged' = judged /\ recorded' = recorded
  <1> USE DEF ConnTypeOK, Loops, Positions, Goto
  <1>1. \A k \in Loops : at[k] \in {"judge", "record"} => at'[k] = at[k]
    <2>1. CASE Aside
      BY <2>1 DEF Aside, Delete, NetworkChanges, Quit, Dispatched, RunReturns
    <2>2. ASSUME NEW l \in Loops, NEW a \in Answers, Call(l, a)
          PROVE  \A k \in Loops : at[k] \in {"judge", "record"} => at'[k] = at[k]
      BY <2>2 DEF Call
    <2>3. ASSUME NEW l \in Loops,
                 EnterOnce(l) \/ Logout(l) \/ LeaveOnce(l) \/ SkipOnce(l) \/ Stop(l)
          PROVE  \A k \in Loops : at[k] \in {"judge", "record"} => at'[k] = at[k]
      BY <2>3 DEF EnterOnce, Logout, LeaveOnce, SkipOnce, Stop
    <2>4. ASSUME NEW l \in Loops, AnnounceConnected(l)
          PROVE  \A k \in Loops : at[k] \in {"judge", "record"} => at'[k] = at[k]
      BY <2>4 DEF AnnounceConnected, Resume, Starting
    <2> QED
      BY <2>1, <2>2, <2>3, <2>4 DEF Uncounted
  <1>2. Counted(judged, "judge") = judged /\ Counted(recorded, "record") = recorded
    BY <1>1, CountedByNone
  <1> QED
    BY <1>2 DEF HistNext

\* The steps of the history, by what they count.
LEMMA HistSteps ==
  ASSUME HistNext
  PROVE  \/ \E l \in Loops : ResetAuth(l) \/ CountRefusal(l)
         \/ \E l \in Loops : RecordSuccess(l) \/ RecordFailure(l)
         \/ Uncounted
  BY DEF HistNext, ConnNext, Handle, Aside, Uncounted

\* What is not counted leaves the counters alone, and takes nobody to the Once.
LEMMA CountersKept ==
  ASSUME ConnTypeOK, Uncounted
  PROVE  /\ UNCHANGED <<authFailures, apiFailures, apiReachable>>
         /\ \A l \in Loops : at'[l] = "once" => at[l] = "once"
  <1> USE DEF ConnTypeOK, Loops, Goto
  <1>1. CASE Aside
    BY <1>1 DEF Aside, Delete, NetworkChanges, Quit, Dispatched, RunReturns
  <1>2. ASSUME NEW l \in Loops, NEW a \in Answers, Call(l, a)
        PROVE  /\ UNCHANGED <<authFailures, apiFailures, apiReachable>>
               /\ \A k \in Loops : at'[k] = "once" => at[k] = "once"
    BY <1>2 DEF Call
  <1>3. ASSUME NEW l \in Loops,
               EnterOnce(l) \/ Logout(l) \/ LeaveOnce(l) \/ SkipOnce(l) \/ Stop(l)
        PROVE  /\ UNCHANGED <<authFailures, apiFailures, apiReachable>>
               /\ \A k \in Loops : at'[k] = "once" => at[k] = "once"
    BY <1>3 DEF EnterOnce, Logout, LeaveOnce, SkipOnce, Stop
  <1>4. ASSUME NEW l \in Loops, AnnounceConnected(l)
        PROVE  /\ UNCHANGED <<authFailures, apiFailures, apiReachable>>
               /\ \A k \in Loops : at'[k] = "once" => at[k] = "once"
    BY <1>4 DEF AnnounceConnected, Resume
  <1> QED
    BY <1>1, <1>2, <1>3, <1>4 DEF Uncounted

\* One step of the two thresholds.
InARow ==
    /\ \A l \in Loops : at[l] # "once" /\ at'[l] = "once"
         => judged' = <<"refused", "refused">>
    /\ apiReachable /\ ~apiReachable' => "ok" \notin {recorded'[1], recorded'[2]}

LEMMA HistoryStep ==
  ASSUME ConnTypeOK, HistoryInv, HistNext
  PROVE  HistoryInv' /\ InARow
  <1> USE DEF HistoryInv, InARow
  <1>1. ASSUME NEW l \in Loops, ResetAuth(l) \/ CountRefusal(l)
        PROVE  HistoryInv' /\ InARow
    <2>1. judged' = <<judged[2], answer[l]>> /\ recorded' = recorded
      BY <1>1, Judging
    <2>2. judged'[2] = answer[l]
      BY <2>1
    <2>3. CASE ResetAuth(l)
      BY <2>1, <2>3 DEF ResetAuth, ConnTypeOK, Goto
    <2>4. CASE CountRefusal(l)
      BY <2>1, <2>2, <2>4 DEF CountRefusal, ConnTypeOK, Goto, apiFailureThreshold
    <2> QED
      BY <1>1, <2>3, <2>4
  <1>2. ASSUME NEW l \in Loops, RecordSuccess(l) \/ RecordFailure(l)
        PROVE  HistoryInv' /\ InARow
    <2>1. judged' = judged /\ recorded' = <<recorded[2], answer[l]>>
      BY <1>2, Recording
    <2>2. recorded'[1] = recorded[2] /\ recorded'[2] = answer[l]
      BY <2>1
    <2>3. \A k \in Loops : at'[k] = "once" => at[k] = "once"
      BY <1>2 DEF RecordSuccess, RecordFailure, Resume, ConnTypeOK, Goto
    <2>4. CASE RecordSuccess(l)
      BY <2>1, <2>3, <2>4 DEF RecordSuccess
    <2>5. CASE RecordFailure(l)
      <3>1. authFailures' = authFailures /\ answer[l] # "ok"
        BY <2>5 DEF RecordFailure
      <3>2. apiFailures + 1 >= apiFailureThreshold => apiFailures > 0
        BY DEF ConnTypeOK, apiFailureThreshold
      <3>3. apiReachable /\ ~apiReachable' => apiFailures > 0
        BY <2>5, <3>2 DEF RecordFailure
      <3>4. apiReachable' => apiReachable
        BY <2>5 DEF RecordFailure
      <3> QED
        BY <2>1, <2>2, <2>3, <3>1, <3>3, <3>4
    <2> QED
      BY <1>2, <2>4, <2>5
  <1>3. CASE Uncounted
    BY <1>3, NotCounting, CountersKept
  <1> QED
    BY <1>1, <1>2, <1>3, HistSteps

\* The history only watches: a behaviour with it is one of Connection.
LEMMA HistoryWatches == HistSpec => ConnSpec
  <1>1. HistInit => ConnInit
    BY DEF HistInit
  <1>2. [HistNext]_histVars => [ConnNext]_connVars
    BY DEF HistNext, histVars
  <1> QED
    BY <1>1, <1>2, PTL DEF HistSpec, ConnSpec

\* handleAuthRevoked and recordAPIFailure: though two loops share the counters,
\* the logout is decided on two refusals in a row, and "unreachable" on two
\* failures in a row.
THEOREM CountsInARow == HistSpec => ThresholdsCountInARow
  <1>1. HistInit => HistoryInv
    BY DEF HistInit, ConnInit, HistoryInv
  <1>2. ConnTypeOK /\ HistoryInv /\ [HistNext]_histVars => HistoryInv'
    <2>1. CASE HistNext
      BY <2>1, HistoryStep
    <2>2. CASE UNCHANGED histVars
      BY <2>2 DEF histVars, connVars, HistoryInv
    <2> QED
      BY <2>1, <2>2
  <1>3. HistSpec => []ConnTypeOK
    BY HistoryWatches, ConnectionTypeOK, PTL
  <1>4. ConnTypeOK /\ HistoryInv /\ [HistNext]_histVars => [InARow]_histVars
    BY HistoryStep
  <1>5. HistSpec => [][InARow]_histVars
    BY <1>1, <1>2, <1>3, <1>4, PTL DEF HistSpec
  <1> QED
    BY <1>5 DEF ThresholdsCountInARow, InARow

=============================================================================
