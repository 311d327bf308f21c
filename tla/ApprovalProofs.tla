--------------------------- MODULE ApprovalProofs ---------------------------
(***************************************************************************)
(* Proofs about Approval, for any number of jobs and scripts, any number   *)
(* of faults, and every setting of the patterns and of the mode.           *)
(***************************************************************************)
EXTENDS Approval, TLAPS

-----------------------------------------------------------------------------
(* The steps, and the types *)

\* The steps of Execute before the question, at the question and after it.
Layers(j) == BlockedPatternCheck(j) \/ IsSessionAllowed(j) \/ IsAlwaysAllowed(j)
Question(j) ==
    \/ OpenDialog(j) \/ TakeAnswer(j) \/ ReportApprovalResolved(j)
    \/ Prompt(j) \/ TakeLine(j) \/ PromptTimesOut(j)
Ending(j) ==
    \/ Deny(j) \/ Allow(j) \/ AllowSession(j) \/ AlwaysAllow(j) \/ Saved(j)
    \/ RunWithSandbox(j)

LEMMA Steps ==
  ASSUME [Next]_vars
  PROVE  \/ \E j \in Jobs : Layers(j) \/ Question(j) \/ Ending(j) \/ CountdownEnds(j)
         \/ \E s \in Savers : SaveStep(s)
         \/ Operator
         \/ Crash
         \/ Restart
         \/ UNCHANGED vars
  BY DEF Next, Execute, Layers, Question, Ending, Finished

LEMMA ConfigStep ==
  ASSUME ConfigTypeOK, NEW s \in Savers, NEW config \in SUBSET Entries,
         \/ Marshal(s, config) \/ Open(s) \/ Write(s) \/ SaveFails(s)
         \/ Reload \/ UNCHANGED configVars
  PROVE  ConfigTypeOK'
  <1> USE DEF ConfigTypeOK
  <1>1. CASE Marshal(s, config)
    BY <1>1 DEF Marshal
  <1>2. CASE SaveFails(s) \/ UNCHANGED configVars
    BY <1>2 DEF SaveFails, configVars
  <1>3. CASE Open(s)
    BY <1>3 DEF Open, Yaml, Text
  <1>4. CASE Write(s)
    <2>1. draft[s] \in SUBSET Entries
      OBVIOUS
    <2>2. file' = Yaml(draft[s]) \/ file' = Garbled
      BY <1>4 DEF Write, Overlays
    <2>3. Yaml(draft[s]) \in Text /\ Garbled \in Text
      BY <2>1 DEF Yaml, Garbled, Text
    <2> QED
      BY <1>4, <2>2, <2>3 DEF Write
  <1>5. CASE Reload
    BY <1>5 DEF Reload, Load, Text
  <1> QED
    BY <1>1, <1>2, <1>3, <1>4, <1>5

Decisions == [Jobs -> Answers \cup {"none"}]

LEMMA TypeStep == TypeOK /\ [Next]_vars => TypeOK'
  <1> SUFFICES ASSUME TypeOK, [Next]_vars PROVE TypeOK'
    OBVIOUS
  <1> USE DEF TypeOK, Goto, gateVars, askVars, history
  <1>a. UNCHANGED configVars => ConfigTypeOK'
    BY DEF ConfigTypeOK, configVars
  <1>b. /\ "none" \in Answers \cup {"none"}
        /\ \A r \in Answers : r \in Answers \cup {"none"}
        /\ "deny" \in Answers
    BY DEF Answers
  <1>c. answer \in Decisions /\ result \in Decisions /\ first \in Decisions
    BY DEF Decisions
  <1>d. answer' \in Decisions /\ result' \in Decisions /\ first' \in Decisions
          => ({answer, result, first} \subseteq [Jobs -> Answers \cup {"none"}])'
    BY DEF Decisions
  <1>e. ASSUME NEW j \in Jobs, NEW w \in {"pending", "allowed", "denied"}, Tell(j, w)
        PROVE  /\ platform' \in [Jobs -> {"none", "pending", "allowed", "denied"}]
               /\ lost' \subseteq Jobs
               /\ faults' \in 0..MaxFaults
    BY <1>e, ApprovalAssumption DEF Tell, Fault
  <1>1. ASSUME NEW j \in Jobs, Layers(j) PROVE TypeOK'
    <2>1. at' \in [Jobs -> Phases]
      <3>1. \A p \in {"blocked", "session", "run", "always", "ask"} : p \in Phases
        BY DEF Phases, Final
      <3> QED
        BY <1>1, <3>1 DEF Layers, BlockedPatternCheck, IsSessionAllowed, IsAlwaysAllowed
    <2>2. UNCHANGED <<gateVars, askVars, configVars, history>>
      BY <1>1 DEF Layers, BlockedPatternCheck, IsSessionAllowed, IsAlwaysAllowed
    <2> QED
      BY <2>1, <2>2, <1>a
  <1>2. ASSUME NEW j \in Jobs, Question(j) PROVE TypeOK'
    <2>0. at' \in [Jobs -> Phases]
      BY <1>2 DEF Question, OpenDialog, TakeAnswer, ReportApprovalResolved, Prompt,
                  TakeLine, PromptTimesOut, Phases
    <2>1. CASE OpenDialog(j)
      BY <2>0, <2>1, <1>a, <1>e DEF OpenDialog
    <2>2. CASE TakeAnswer(j)
      <3>1. result' \in Decisions
        BY <2>2, <1>c DEF TakeAnswer, Decisions
      <3> QED
        BY <2>0, <2>2, <3>1, <1>a, <1>c, <1>d DEF TakeAnswer
    <2>3. CASE ReportApprovalResolved(j)
      BY <2>0, <2>3, <1>a, <1>e DEF ReportApprovalResolved
    <2>4. CASE Prompt(j)
      <3>1. /\ readers' \in Seq(Jobs) /\ typed' \in Seq(Lines) /\ Len(typed') <= MaxTyped
            /\ answer' \in Decisions /\ early' \subseteq Jobs
        <4>1. CASE typed = <<>>
          <5>1. readers' = Append(readers, j) /\ UNCHANGED <<answer, typed, early>>
            BY <2>4, <4>1 DEF Prompt
          <5> QED
            BY <5>1, <1>c
        <4>2. CASE typed # <<>>
          <5>1. /\ Head(typed) \in Lines /\ Tail(typed) \in Seq(Lines)
                /\ Len(Tail(typed)) <= Len(typed)
            BY <4>2
          <5>2. Head(typed) \in Answers
            BY <5>1 DEF Lines, Answers
          <5>3. /\ answer' = [answer EXCEPT ![j] = Head(typed)] /\ typed' = Tail(typed)
                /\ early' = early \cup {j} /\ readers' = readers
            BY <2>4, <4>2 DEF Prompt
          <5>4. answer' \in Decisions
            BY <5>2, <5>3, <1>c DEF Decisions
          <5>5. Len(typed') <= MaxTyped
            <6>1. Len(typed) \in Nat /\ Len(typed') \in Nat /\ MaxTyped \in Nat
              BY <5>1, <5>3, ApprovalAssumption
            <6> QED
              BY <5>1, <5>3, <6>1
          <5> QED
            BY <5>1, <5>3, <5>4, <5>5
        <4> QED
          BY <4>1, <4>2
      <3>2. overlap' \subseteq Jobs
        BY <2>4 DEF Prompt, Prompted
      <3> QED
        BY <2>0, <2>4, <3>1, <3>2, <1>a, <1>c, <1>d, <1>e DEF Prompt
    <2>5. CASE TakeLine(j) \/ PromptTimesOut(j)
      <3>1. result' \in Decisions
        <4>1. CASE TakeLine(j)
          <5>1. result' = [result EXCEPT ![j] = answer[j]]
            BY <4>1 DEF TakeLine
          <5> QED
            BY <5>1, <1>c DEF Decisions
        <4>2. CASE PromptTimesOut(j)
          <5>1. result' = [result EXCEPT ![j] = "deny"]
            BY <4>2 DEF PromptTimesOut
          <5> QED
            BY <5>1, <1>b, <1>c DEF Decisions
        <4> QED
          BY <2>5, <4>1, <4>2
      <3> QED
        BY <2>0, <2>5, <3>1, <1>a, <1>c, <1>d DEF TakeLine, PromptTimesOut
    <2> QED
      BY <1>2, <2>1, <2>2, <2>3, <2>4, <2>5 DEF Question
  <1>3. ASSUME NEW j \in Jobs, Ending(j) PROVE TypeOK'
    <2>0. at' \in [Jobs -> Phases]
      BY <1>3 DEF Ending, Deny, Allow, AllowSession, AlwaysAllow, Saved,
                  RunWithSandbox, Phases, Final
    <2>1. CASE Deny(j) \/ RunWithSandbox(j)
      <3>1. answer' \in Decisions /\ result' \in Decisions /\ first' \in Decisions
        BY <2>1, <1>b, <1>c DEF Deny, RunWithSandbox, Forget, Decisions
      <3>2. /\ meant' \subseteq Jobs /\ overlap' \subseteq Jobs /\ early' \subseteq Jobs
            /\ dialog' \subseteq Jobs
        BY <2>1 DEF Deny, RunWithSandbox, Forget
      <3> QED
        BY <2>0, <2>1, <3>1, <3>2, <1>a, <1>d DEF Deny, RunWithSandbox
    <2>2. CASE Allow(j) \/ AllowSession(j) \/ Saved(j)
      BY <2>0, <2>2, <1>a DEF Allow, AllowSession, Saved
    <2>3. CASE AlwaysAllow(j)
      <3>1. ConfigTypeOK'
        BY <2>3, ApprovalAssumption DEF AlwaysAllow, BeginSave, ConfigTypeOK
      <3> QED
        BY <2>0, <2>3, <3>1 DEF AlwaysAllow, NoteOverlap
    <2> QED
      BY <1>3, <2>1, <2>2, <2>3 DEF Ending
  <1>4. ASSUME NEW j \in Jobs, NEW r \in Answers, Decide(j, r)
        PROVE  answer' \in Decisions /\ first' \in Decisions
    BY <1>4, <1>b, <1>c DEF Decide, Offer, Decisions
  <1>5. ASSUME NEW j \in Jobs, CountdownEnds(j) PROVE TypeOK'
    BY <1>5, <1>4, <1>a, <1>b, <1>c, <1>d DEF CountdownEnds
  <1>6. ASSUME NEW s \in Savers, SaveStep(s) PROVE TypeOK'
    <2>1. ConfigTypeOK'
      BY <1>6, ConfigStep DEF SaveStep, ConfigTypeOK
    <2>2. faults' \in 0..MaxFaults
      BY <1>6, ApprovalAssumption DEF SaveStep, Fault
    <2> QED
      BY <1>6, <2>1, <2>2 DEF SaveStep
  <1>7. CASE Operator
    <2>1. ASSUME NEW j \in Jobs, NEW r \in Answers, Click(j, r) PROVE TypeOK'
      <3>1. meant' \subseteq Jobs /\ granted' \subseteq Scripts
        BY <2>1 DEF Click, Mean
      <3> QED
        BY <2>1, <3>1, <1>4, <1>a, <1>c, <1>d DEF Click
    <2>2. ASSUME NEW j \in Jobs, CloseByOperator(j) PROVE TypeOK'
      BY <2>2, <1>4, <1>a, <1>b, <1>c, <1>d DEF CloseByOperator
    <2>3. ASSUME NEW r \in Lines, TypeLine(r) PROVE TypeOK'
      <3>1. /\ readers' \in Seq(Jobs) /\ typed' \in Seq(Lines) /\ Len(typed') <= MaxTyped
            /\ answer' \in Decisions
        <4>1. CASE readers = <<>>
          <5>1. /\ Len(typed) < MaxTyped
                /\ typed' = Append(typed, r)
                /\ readers' = readers /\ answer' = answer
            BY <2>3, <4>1 DEF TypeLine
          <5>2. typed' \in Seq(Lines) /\ Len(typed') = Len(typed) + 1
            BY <2>3, <5>1, <1>c
          <5> QED
            BY <5>1, <5>2, <1>c, ApprovalAssumption
        <4>2. CASE readers # <<>>
          <5>1. r \in Answers
            BY DEF Lines, Answers
          <5>2. readers' = Tail(readers) /\ typed' = typed
            BY <2>3, <4>2 DEF TypeLine
          <5>3. answer' = answer \/ answer' = [answer EXCEPT ![Head(readers)] = r]
            BY <2>3, <4>2 DEF TypeLine
          <5> QED
            BY <4>2, <5>1, <5>2, <5>3, <1>c DEF Decisions
        <4> QED
          BY <4>1, <4>2
      <3>2. meant' \subseteq Jobs /\ granted' \subseteq Scripts
        BY <2>3 DEF TypeLine, MeanLine, Mean, Asking, Prompted
      <3> QED
        BY <2>3, <3>1, <3>2, <1>a, <1>c, <1>d DEF TypeLine
    <2>4. CASE EndOfInput
      <3>1. answer' \in Decisions
        BY <2>4, <1>b, <1>c DEF EndOfInput, Decisions
      <3> QED
        BY <2>4, <3>1, <1>a, <1>c, <1>d DEF EndOfInput
    <2> QED
      BY <1>7, <2>1, <2>2, <2>3, <2>4 DEF Operator
  <1>8. CASE Crash
    <2>1. ConfigTypeOK'
      BY <1>8 DEF Crash, Reload, Load, ConfigTypeOK, Text
    <2>2. readers' \in Seq(Jobs) /\ typed' \in Seq(Lines) /\ Len(typed') <= MaxTyped
      <3>1. typed' = typed \/ typed' = <<>>
        BY <1>8 DEF Crash
      <3>2. <<>> \in Seq(Lines) /\ Len(<<>>) <= MaxTyped
        BY ApprovalAssumption
      <3>3. readers' \in Seq(Jobs)
        BY <1>8 DEF Crash
      <3>4. typed \in Seq(Lines) /\ Len(typed) <= MaxTyped
        OBVIOUS
      <3> QED
        BY ONLY <3>1, <3>2, <3>3, <3>4
    <2>3. answer' \in Decisions /\ result' \in Decisions /\ first' \in Decisions
      BY <1>8, <1>b DEF Crash, NoneYet, Decisions
    <2>4. at' \in [Jobs -> Phases]
      BY <1>8 DEF Crash, Phases
    <2>5. lost' \subseteq Jobs /\ faults' \in 0..MaxFaults
      BY <1>8, ApprovalAssumption DEF Crash, Fault, Executing
    <2> QED
      BY <1>8, <2>1, <2>2, <2>3, <2>4, <2>5, <1>d DEF Crash
  <1>9. CASE Restart \/ UNCHANGED vars
    BY <1>9, <1>a DEF Restart, vars, configVars
  <1> QED
    BY <1>1, <1>2, <1>3, <1>5, <1>6, <1>7, <1>8, <1>9, Steps

LEMMA TypeInit == Init => TypeOK
  <1> SUFFICES ASSUME Init PROVE TypeOK
    OBVIOUS
  <1> USE ApprovalAssumption DEF Init
  <1>1. ConfigTypeOK
    <2>1. PICK e \in AtStart : file = Yaml(e)
      BY DEF ConfigInit
    <2>2. e \subseteq Entries /\ file \in Text
      BY <2>1, ConfigAssumption DEF Yaml, Text
    <2> QED
      BY <2>1, <2>2 DEF ConfigInit, ConfigTypeOK, Yaml, Load
  <1>2. script \in [Jobs -> Scripts]
    OBVIOUS
  <1>3. {answer, result, first} \subseteq [Jobs -> Answers \cup {"none"}]
    BY DEF NoneYet
  <1>4. readers \in Seq(Jobs) /\ typed \in Seq(Lines) /\ Len(typed) <= MaxTyped
    OBVIOUS
  <1> QED
    BY <1>1, <1>2, <1>3, <1>4 DEF TypeOK, Phases, NoneYet

\* Whatever jobs, operators, clocks and kills do to the gate, every variable
\* keeps its type.
THEOREM ApprovalTypeOK == Spec => []TypeOK
  BY TypeInit, TypeStep, PTL DEF Spec

-----------------------------------------------------------------------------
(* What the operator said *)

\* What counts as leave to run: the configuration asks nothing, the operator
\* allowed the script for good, or this job; on a terminal two prompts that
\* shared the screen may have been mixed up, and a line may have come early.
Leave(j) ==
    \/ ~ConfirmAsks(script[j])
    \/ script[j] \in granted
    \/ j \in meant
    \/ mode.headless /\ j \in overlap \cup early

\* Every list the gate looks at, and every copy of it on its way to the disk or
\* back, names only scripts the operator has allowed beyond one job.
ListsGranted ==
    /\ session \subseteq granted
    /\ memory \cap Scripts \subseteq granted
    /\ file.says \cap Scripts \subseteq granted
    /\ \A s \in Savers : draft[s] \cap Scripts \subseteq granted

\* With a display the channel holds the first decision and nothing else, and
\* that is what the operator meant.
DialogAnswers ==
    ~mode.headless => \A j \in Jobs :
        /\ answer[j] = first[j]
        /\ result[j] \in {"none", first[j]}
        /\ first[j] \in {"session", "always"} => script[j] \in granted
        /\ first[j] = "allow" => j \in meant

\* On a terminal a line allows one job, whose operator said so, unless another
\* prompt stood next to it or the line was there before the prompt.
PromptAnswers ==
    mode.headless =>
        /\ dialog = {} /\ ticker = {}
        /\ \A j \in Jobs :
             /\ {answer[j], result[j]} \subseteq {"none", "deny", "allow"}
             /\ "allow" \in {answer[j], result[j]} => j \in meant \cup overlap \cup early
        /\ \A j, k \in Prompted : j # k => j \in overlap

\* Past the first layer no script is blocked; at the end of the gate there is
\* leave to run it.
Cleared ==
    \A j \in Jobs :
        /\ at[j] \notin Final \cup {"new"} => ~MatchesBlocked(script[j])
        /\ at[j] = "save" => script[j] \in granted
        /\ at[j] = "run" => Leave(j)

GateInv == ListsGranted /\ DialogAnswers /\ PromptAnswers /\ Cleared

\* What never changes, and what only grows.
LEMMA Kept ==
  ASSUME [Next]_vars
  PROVE  UNCHANGED <<mode, script>> /\ granted \subseteq granted'
  <1> USE DEF gateVars, history
  <1>1. ASSUME NEW j \in Jobs, Layers(j)
        PROVE  UNCHANGED <<mode, script>> /\ granted \subseteq granted'
    BY <1>1 DEF Layers, BlockedPatternCheck, IsSessionAllowed, IsAlwaysAllowed
  <1>2. ASSUME NEW j \in Jobs, Question(j)
        PROVE  UNCHANGED <<mode, script>> /\ granted \subseteq granted'
    BY <1>2 DEF Question, OpenDialog, TakeAnswer, ReportApprovalResolved, Prompt,
                TakeLine, PromptTimesOut
  <1>3. ASSUME NEW j \in Jobs, Ending(j)
        PROVE  UNCHANGED <<mode, script>> /\ granted \subseteq granted'
    BY <1>3 DEF Ending, Deny, Allow, AllowSession, AlwaysAllow, Saved, RunWithSandbox
  <1>4. ASSUME NEW j \in Jobs, CountdownEnds(j)
        PROVE  UNCHANGED <<mode, script>> /\ granted \subseteq granted'
    BY <1>4 DEF CountdownEnds
  <1>5. ASSUME NEW s \in Savers, SaveStep(s)
        PROVE  UNCHANGED <<mode, script>> /\ granted \subseteq granted'
    BY <1>5 DEF SaveStep
  <1>6. CASE Operator
    BY <1>6 DEF Operator, Click, CloseByOperator, TypeLine, MeanLine, EndOfInput, Mean
  <1>7. CASE Crash \/ Restart \/ UNCHANGED vars
    BY <1>7 DEF Crash, Restart, vars
  <1> QED
    BY <1>1, <1>2, <1>3, <1>4, <1>5, <1>6, <1>7, Steps

\* An answer that reaches beyond one job was given by the operator.
LEMMA GrantedAnswers ==
  ASSUME DialogAnswers, PromptAnswers, NEW j \in Jobs,
         result[j] \in {"session", "always"}
  PROVE  script[j] \in granted
  BY DEF DialogAnswers, PromptAnswers

LEMMA ListsStep ==
  TypeOK /\ GateInv /\ [Next]_vars => ListsGranted'
  <1> SUFFICES ASSUME TypeOK, GateInv, [Next]_vars PROVE ListsGranted'
    OBVIOUS
  <1> USE DEF GateInv, ListsGranted
  <1>0. granted \subseteq granted' /\ script' = script
    BY Kept
  <1>1. CASE UNCHANGED session /\ UNCHANGED configVars
    BY <1>0, <1>1 DEF configVars
  <1>2. ASSUME NEW j \in Jobs, AllowSession(j) PROVE ListsGranted'
    <2>1. script[j] \in granted
      BY <1>2, GrantedAnswers DEF AllowSession
    <2> QED
      BY <1>0, <1>2, <2>1 DEF AllowSession, configVars
  <1>3. ASSUME NEW j \in Jobs, AlwaysAllow(j) PROVE ListsGranted'
    <2>1. script[j] \in granted
      BY <1>3, GrantedAnswers DEF AlwaysAllow
    <2> QED
      BY <1>0, <1>3, <2>1 DEF AlwaysAllow, gateVars
  <1>4. ASSUME NEW s \in Savers, SaveStep(s) PROVE ListsGranted'
    <2> USE DEF TypeOK, ConfigTypeOK
    <2>0. UNCHANGED session
      BY <1>4 DEF SaveStep, gateVars
    <2>1. CASE Marshal(s, memory) \/ SaveFails(s)
      BY <1>0, <2>0, <2>1 DEF Marshal, SaveFails
    <2>2. CASE Open(s)
      BY <1>0, <2>0, <2>2 DEF Open, Yaml
    <2>3. CASE Write(s)
      <3>1. file' = Yaml(draft[s]) \/ file' = Garbled
        BY <2>3 DEF Write, Overlays
      <3>2. file'.says = draft[s] \/ file'.says = {}
        BY <3>1 DEF Yaml, Garbled
      <3> QED
        BY <1>0, <2>0, <2>3, <3>2 DEF Write
    <2> QED
      BY <1>4, <2>1, <2>2, <2>3 DEF SaveStep
  <1>5. CASE Crash
    BY <1>0, <1>5 DEF Crash, Reload, Load
  <1>6. ASSUME NEW j \in Jobs, Layers(j) \/ Question(j) \/ CountdownEnds(j)
        PROVE  UNCHANGED session /\ UNCHANGED configVars
    BY <1>6 DEF Layers, BlockedPatternCheck, IsSessionAllowed, IsAlwaysAllowed,
                Question, OpenDialog, TakeAnswer, ReportApprovalResolved, Prompt,
                TakeLine, PromptTimesOut, CountdownEnds, gateVars
  <1>7. ASSUME NEW j \in Jobs, Ending(j), ~AllowSession(j), ~AlwaysAllow(j)
        PROVE  UNCHANGED session /\ UNCHANGED configVars
    BY <1>7 DEF Ending, Deny, Allow, Saved, RunWithSandbox, gateVars
  <1>8. CASE Operator \/ Restart \/ UNCHANGED vars
    <2>1. UNCHANGED session /\ UNCHANGED configVars
      BY <1>8 DEF Operator, Click, CloseByOperator, TypeLine, EndOfInput, Restart,
                  gateVars, vars
    <2> QED
      BY <1>1, <2>1
  <1> QED
    BY <1>1, <1>2, <1>3, <1>4, <1>5, <1>6, <1>7, <1>8, Steps

LEMMA DialogStep ==
  TypeOK /\ GateInv /\ [Next]_vars => DialogAnswers'
  <1> SUFFICES ASSUME TypeOK, GateInv, [Next]_vars, ~mode.headless, mode' = mode
               PROVE  DialogAnswers'
    BY Kept DEF DialogAnswers
  <1> USE DEF GateInv, DialogAnswers
  <1>0. granted \subseteq granted' /\ script' = script
    BY Kept
  <1>T. /\ answer \in [Jobs -> Answers \cup {"none"}]
        /\ result \in [Jobs -> Answers \cup {"none"}]
        /\ first \in [Jobs -> Answers \cup {"none"}]
    BY DEF TypeOK
  <1>1. CASE UNCHANGED <<answer, result, first, meant>>
    BY <1>0, <1>1
  <1>2. ASSUME NEW j \in Jobs, TakeAnswer(j) PROVE DialogAnswers'
    BY <1>0, <1>2, <1>T DEF TakeAnswer, history
  <1>3. ASSUME NEW j \in Jobs, Forget(j), UNCHANGED <<mode, script>>
        PROVE  DialogAnswers'
    BY <1>0, <1>3, <1>T DEF Forget
  <1>4. ASSUME NEW j \in Jobs, Decide(j, "deny"), UNCHANGED <<result, meant>>
        PROVE  DialogAnswers'
    BY <1>0, <1>4, <1>T DEF Decide, Offer
  <1>5. ASSUME NEW j \in Jobs, NEW r \in Answers, Click(j, r)
        PROVE  DialogAnswers'
    BY <1>0, <1>5, <1>T DEF Click, Decide, Offer, Mean, Answers
  <1>6. CASE Crash
    BY <1>0, <1>6 DEF Crash, NoneYet
  <1>7. ASSUME NEW j \in Jobs, Layers(j) PROVE DialogAnswers'
    BY <1>1, <1>7 DEF Layers, BlockedPatternCheck, IsSessionAllowed, IsAlwaysAllowed,
                      askVars, history
  <1>8. ASSUME NEW j \in Jobs, Question(j) PROVE DialogAnswers'
    BY <1>1, <1>2, <1>8
       DEF Question, OpenDialog, ReportApprovalResolved, Prompt, TakeLine, PromptTimesOut
  <1>9. ASSUME NEW j \in Jobs, Ending(j) PROVE DialogAnswers'
    <2>1. CASE Deny(j) \/ RunWithSandbox(j)
      BY <1>3, <2>1 DEF Deny, RunWithSandbox, gateVars
    <2>2. CASE Allow(j) \/ AllowSession(j) \/ AlwaysAllow(j) \/ Saved(j)
      BY <1>1, <2>2 DEF Allow, AllowSession, AlwaysAllow, Saved, askVars, history
    <2> QED
      BY <1>9, <2>1, <2>2 DEF Ending
  <1>10. ASSUME NEW j \in Jobs, CountdownEnds(j) PROVE DialogAnswers'
    BY <1>4, <1>10 DEF CountdownEnds
  <1>11. CASE Operator
    <2>1. ASSUME NEW j \in Jobs, CloseByOperator(j) PROVE DialogAnswers'
      BY <1>4, <2>1 DEF CloseByOperator
    <2>2. ASSUME NEW r \in Lines, TypeLine(r) PROVE DialogAnswers'
      BY <2>2 DEF TypeLine
    <2>3. CASE EndOfInput
      <3>1. answer' = answer
        BY <2>3, <1>T DEF EndOfInput, Asking, Prompted
      <3> QED
        BY <1>1, <2>3, <3>1 DEF EndOfInput, history
    <2> QED
      BY <1>5, <1>11, <2>1, <2>2, <2>3 DEF Operator
  <1>12. CASE (\E s \in Savers : SaveStep(s)) \/ Restart \/ UNCHANGED vars
    BY <1>1, <1>12 DEF SaveStep, Restart, vars, askVars, history
  <1> QED
    BY <1>6, <1>7, <1>8, <1>9, <1>10, <1>11, <1>12, Steps

\* A prompt that is over no longer counts.
LEMMA PromptEnds ==
  ASSUME TypeOK, PromptAnswers, mode.headless, mode' = mode, NEW j \in Jobs,
         NEW from, NEW to, Goto(j, from, to), to # "wait",
         overlap' = overlap \/ overlap' = overlap \ {j}
  PROVE  \A k, l \in Prompted' : k # l => k \in overlap'
  <1>1. Prompted' \subseteq Prompted \ {j}
    BY DEF Prompted, Goto, TypeOK
  <1> QED
    BY <1>1 DEF PromptAnswers

LEMMA PromptStep ==
  TypeOK /\ GateInv /\ [Next]_vars => PromptAnswers'
  <1> SUFFICES ASSUME TypeOK, GateInv, [Next]_vars, mode.headless, mode' = mode
               PROVE  PromptAnswers'
    BY Kept DEF PromptAnswers
  <1> USE DEF GateInv
  <1>T. /\ answer \in [Jobs -> Answers \cup {"none"}]
        /\ result \in [Jobs -> Answers \cup {"none"}]
        /\ at \in [Jobs -> Phases]
    BY DEF TypeOK
  <1>1. CASE /\ UNCHANGED <<dialog, ticker, answer, result, meant, overlap, early>>
             /\ Prompted' \subseteq Prompted
    BY <1>1 DEF PromptAnswers
  <1>2. ASSUME NEW j \in Jobs, NEW from, NEW to, to # "wait", Goto(j, from, to)
        PROVE  Prompted' \subseteq Prompted
    BY <1>2, <1>T DEF Goto, Prompted
  <1>3. ASSUME NEW j \in Jobs, Layers(j) PROVE PromptAnswers'
    BY <1>1, <1>2, <1>3
       DEF Layers, BlockedPatternCheck, IsSessionAllowed, IsAlwaysAllowed,
           askVars, history
  <1>4. ASSUME NEW j \in Jobs, Prompt(j) PROVE PromptAnswers'
    <2>1. Prompted' = Prompted \cup {j}
      BY <1>4, <1>T DEF Prompt, Goto, Prompted
    <2>2. UNCHANGED <<dialog, ticker, result, meant>> /\ early \subseteq early'
      BY <1>4 DEF Prompt
    <2>3. overlap \subseteq overlap'
      BY <1>4 DEF Prompt
    <2>4. Prompted # {} => Prompted \cup {j} \subseteq overlap'
      BY <1>4 DEF Prompt
    <2>5. \A k, l \in Prompted' : k # l => k \in overlap'
      BY <2>1, <2>4
    <2>6. /\ \A k \in Jobs : answer'[k] = answer[k] \/ (k = j /\ j \in early')
          /\ \A k \in Jobs : answer'[k] \in {answer[k]} \cup Lines
      <3>1. CASE typed = <<>>
        BY <1>4, <3>1 DEF Prompt
      <3>2. CASE typed # <<>>
        <4>1. Head(typed) \in Lines
          BY <3>2 DEF TypeOK
        <4>2. answer' = [answer EXCEPT ![j] = Head(typed)] /\ early' = early \cup {j}
          BY <1>4, <3>2 DEF Prompt
        <4> QED
          BY <4>1, <4>2, <1>T
      <3> QED
        BY <3>1, <3>2
    <2> QED
      BY <2>2, <2>3, <2>5, <2>6 DEF PromptAnswers, Lines
  <1>5. ASSUME NEW j \in Jobs, TakeLine(j) \/ PromptTimesOut(j)
        PROVE  PromptAnswers'
    <2>1. Prompted' \subseteq Prompted
      BY <1>2, <1>5 DEF TakeLine, PromptTimesOut
    <2>2. UNCHANGED <<dialog, ticker, answer, meant, overlap, early>>
      BY <1>5 DEF TakeLine, PromptTimesOut, history
    <2>3. result'[j] \in {answer[j], "deny"} /\ \A k \in Jobs \ {j} : result'[k] = result[k]
      BY <1>5, <1>T DEF TakeLine, PromptTimesOut
    <2> QED
      BY <2>1, <2>2, <2>3 DEF PromptAnswers
  <1>6. ASSUME NEW j \in Jobs, Question(j) PROVE PromptAnswers'
    <2>1. CASE ReportApprovalResolved(j)
      BY <1>1, <1>2, <2>1 DEF ReportApprovalResolved
    <2>2. ~OpenDialog(j) /\ ~TakeAnswer(j)
      BY DEF OpenDialog, TakeAnswer
    <2> QED
      BY <1>4, <1>5, <1>6, <2>1, <2>2 DEF Question
  <1>7. ASSUME NEW j \in Jobs, Deny(j) \/ RunWithSandbox(j) PROVE PromptAnswers'
    <2>1. Forget(j) /\ UNCHANGED ticker
      BY <1>7 DEF Deny, RunWithSandbox
    <2>2. \A k, l \in Prompted' : k # l => k \in overlap'
      BY <1>7, <2>1, PromptEnds DEF Deny, RunWithSandbox, Forget
    <2> QED
      BY <2>1, <2>2, <1>T DEF Forget, PromptAnswers
  <1>8. ASSUME NEW j \in Jobs, Ending(j) PROVE PromptAnswers'
    <2>1. CASE Allow(j) \/ AllowSession(j) \/ AlwaysAllow(j) \/ Saved(j)
      <3>1. /\ UNCHANGED <<ticker, answer, result, meant, overlap, early>>
            /\ dialog' \subseteq dialog
        BY <2>1 DEF Allow, AllowSession, AlwaysAllow, Saved, askVars, history
      <3>2. Prompted' \subseteq Prompted
        BY <1>2, <2>1 DEF Allow, AllowSession, AlwaysAllow, Saved
      <3> QED
        BY <3>1, <3>2 DEF PromptAnswers
    <2> QED
      BY <1>7, <1>8, <2>1 DEF Ending
  <1>9. ASSUME NEW j \in Jobs, CountdownEnds(j) PROVE PromptAnswers'
    BY <1>9 DEF CountdownEnds, PromptAnswers
  <1>10. CASE Operator
    <2>1. ~ \E j \in Jobs : (\E r \in Answers : Click(j, r)) \/ CloseByOperator(j)
      BY DEF Click, CloseByOperator, PromptAnswers
    <2>2. ASSUME NEW r \in Lines, TypeLine(r) PROVE PromptAnswers'
      <3>1. UNCHANGED <<dialog, ticker, result, overlap, early>> /\ Prompted' = Prompted
        BY <2>2 DEF TypeLine, Prompted
      <3>2. meant \subseteq meant'
        BY <2>2 DEF TypeLine, MeanLine, Mean
      <3>3. \A k \in Jobs : answer'[k] \in {answer[k]} \cup Lines
        BY <2>2, <1>T DEF TypeLine
      <3>4. ASSUME NEW k \in Jobs, answer'[k] = "allow", answer'[k] # answer[k]
            PROVE  k \in meant' \cup overlap
        <4>1. readers # <<>> /\ k = Head(readers) /\ k \in Prompted /\ r = "allow"
          BY <2>2, <3>4, <1>T DEF TypeLine
        <4>2. k \in Asking
          BY <4>1 DEF Asking, Contains, TypeOK
        <4>3. PICK j \in Asking : Mean(j, r)
          BY <2>2, <4>2 DEF TypeLine, MeanLine
        <4>4. j \in meant' /\ j \in Prompted
          BY <4>1, <4>3 DEF Mean, Asking
        <4>5. CASE j = k
          BY <4>4, <4>5
        <4>6. CASE j # k
          BY <4>1, <4>4, <4>6 DEF PromptAnswers
        <4> QED
          BY <4>5, <4>6
      <3>5. ASSUME NEW k \in Jobs, answer'[k] = "allow"
            PROVE  k \in meant' \cup overlap' \cup early'
        <4>1. CASE answer'[k] = answer[k]
          BY <3>1, <3>2, <3>5, <4>1 DEF PromptAnswers
        <4>2. CASE answer'[k] # answer[k]
          BY <3>1, <3>4, <3>5, <4>2
        <4> QED
          BY <4>1, <4>2
      <3> QED
        BY <3>1, <3>2, <3>3, <3>5 DEF PromptAnswers, Lines
    <2>3. CASE EndOfInput
      <3>1. UNCHANGED <<dialog, ticker, result, meant, overlap, early>> /\ Prompted' = Prompted
        BY <2>3 DEF EndOfInput, Prompted, history
      <3>2. \A k \in Jobs : answer'[k] \in {answer[k], "deny"}
        BY <2>3 DEF EndOfInput
      <3> QED
        BY <3>1, <3>2 DEF PromptAnswers
    <2> QED
      BY <1>10, <2>1, <2>2, <2>3 DEF Operator
  <1>11. CASE Crash
    <2>1. Prompted' = {}
      BY <1>11, <1>T DEF Crash, Executing, Final, Prompted
    <2> QED
      BY <1>11, <2>1 DEF Crash, NoneYet, PromptAnswers
  <1>12. CASE (\E s \in Savers : SaveStep(s)) \/ Restart \/ UNCHANGED vars
    BY <1>1, <1>12 DEF SaveStep, Restart, vars, askVars, history, Prompted
  <1> QED
    BY <1>3, <1>6, <1>8, <1>9, <1>10, <1>11, <1>12, Steps

\* Leave to run is not taken back: only the process's end forgets a job that
\* is at the end of the gate, and "confirm: always" is not set on the way.
LEMMA LeaveKept ==
  ASSUME NEW k \in Jobs, Leave(k), UNCHANGED <<mode, script>>, granted \subseteq granted',
         memory' \cap {"confirm", "block"} \subseteq memory,
         k \in meant => k \in meant', k \in overlap \cup early => k \in overlap' \cup early'
  PROVE  Leave(k)'
  BY DEF Leave, ConfirmAsks

LEMMA ClearedStep ==
  TypeOK /\ GateInv /\ [Next]_vars => Cleared'
  <1> SUFFICES ASSUME TypeOK, GateInv, [Next]_vars PROVE Cleared'
    OBVIOUS
  <1> USE DEF GateInv
  <1>0. UNCHANGED <<mode, script>> /\ granted \subseteq granted'
    BY Kept
  <1>T. at \in [Jobs -> Phases] /\ script \in [Jobs -> Scripts]
    BY DEF TypeOK
  <1>1. ASSUME memory' \cap {"confirm", "block"} \subseteq memory,
               NEW k \in Jobs, at'[k] = at[k],
               k \in meant => k \in meant', k \in overlap \cup early => k \in overlap' \cup early'
        PROVE  /\ at'[k] \notin Final \cup {"new"} => ~MatchesBlocked(script[k])'
               /\ at'[k] = "save" => script'[k] \in granted'
               /\ at'[k] = "run" => Leave(k)'
    <2>1. MatchesBlocked(script[k])' => MatchesBlocked(script[k])
      BY <1>0, <1>1 DEF MatchesBlocked
    <2> QED
      BY <1>0, <1>1, <2>1, LeaveKept DEF Cleared
  \* A step that changes the position of one job, and what is known of others not.
  <1>2. ASSUME memory' \cap {"confirm", "block"} \subseteq memory,
               NEW j \in Jobs, NEW from, NEW to, Goto(j, from, to),
               meant \ {j} \subseteq meant', overlap \ {j} \subseteq overlap',
               early \ {j} \subseteq early',
               to \notin Final \cup {"new"} => ~MatchesBlocked(script[j]),
               to = "save" => script[j] \in granted,
               to = "run" => Leave(j)'
        PROVE  Cleared'
    <2>1. at'[j] = to /\ \A k \in Jobs \ {j} : at'[k] = at[k]
      BY <1>2, <1>T DEF Goto
    <2>2. script' = script
      BY <1>0
    <2>3. MatchesBlocked(script[j])' => MatchesBlocked(script[j])
      BY <1>2, <2>2 DEF MatchesBlocked
    <2>4. ASSUME NEW k \in Jobs \ {j}
          PROVE  /\ at'[k] \notin Final \cup {"new"} => ~MatchesBlocked(script[k])'
                 /\ at'[k] = "save" => script'[k] \in granted'
                 /\ at'[k] = "run" => Leave(k)'
      BY <1>1, <1>2, <2>1
    <2>5. /\ at'[j] \notin Final \cup {"new"} => ~MatchesBlocked(script[j])'
          /\ at'[j] = "save" => script'[j] \in granted'
          /\ at'[j] = "run" => Leave(j)'
      BY <1>0, <1>2, <2>1, <2>2, <2>3
    <2> QED
      BY <2>4, <2>5 DEF Cleared
  <1>3. ASSUME NEW j \in Jobs, Layers(j) PROVE Cleared'
    <2>1. UNCHANGED <<memory, meant, overlap, early>>
      BY <1>3 DEF Layers, BlockedPatternCheck, IsSessionAllowed, IsAlwaysAllowed,
                  configVars, history
    <2>2. CASE BlockedPatternCheck(j)
      <3>1. Goto(j, "new", IF MatchesBlocked(script[j]) THEN "blocked" ELSE "session")
        BY <2>2 DEF BlockedPatternCheck
      <3>2. CASE MatchesBlocked(script[j])
        BY <1>2, <2>1, <3>1, <3>2 DEF Final
      <3>3. CASE ~MatchesBlocked(script[j])
        BY <1>2, <2>1, <3>1, <3>3
      <3> QED
        BY <3>2, <3>3
    <2>3. CASE IsSessionAllowed(j)
      <3>1. at[j] = "session"
        BY <2>3 DEF IsSessionAllowed, Goto
      <3>2. ~MatchesBlocked(script[j])
        BY <3>1 DEF Cleared, Final
      <3>3. script[j] \in session => Leave(j)'
        BY <1>0, <1>T DEF Leave, ListsGranted
      <3>4. CASE script[j] \in session
        BY <1>2, <2>1, <2>3, <3>2, <3>3, <3>4 DEF IsSessionAllowed
      <3>5. CASE script[j] \notin session
        BY <1>2, <2>1, <2>3, <3>2, <3>5 DEF IsSessionAllowed
      <3> QED
        BY <3>4, <3>5
    <2>4. CASE IsAlwaysAllowed(j)
      <3>1. at[j] = "always"
        BY <2>4 DEF IsAlwaysAllowed, Goto
      <3>2. ~MatchesBlocked(script[j])
        BY <3>1 DEF Cleared, Final
      <3>3. script[j] \in memory \/ ~ConfirmAsks(script[j]) => Leave(j)'
        BY <1>0, <1>T, <2>1 DEF Leave, ListsGranted, ConfirmAsks
      <3>4. CASE script[j] \in memory \/ ~ConfirmAsks(script[j])
        BY <1>2, <2>1, <2>4, <3>2, <3>3, <3>4 DEF IsAlwaysAllowed
      <3>5. CASE ~(script[j] \in memory \/ ~ConfirmAsks(script[j]))
        BY <1>2, <2>1, <2>4, <3>2, <3>5 DEF IsAlwaysAllowed
      <3> QED
        BY <3>4, <3>5
    <2> QED
      BY <1>3, <2>2, <2>3, <2>4 DEF Layers
  <1>4. ASSUME NEW j \in Jobs, Question(j) PROVE Cleared'
    <2>1. /\ UNCHANGED memory /\ UNCHANGED meant /\ overlap \subseteq overlap'
          /\ early \subseteq early'
      BY <1>4 DEF Question, OpenDialog, TakeAnswer, ReportApprovalResolved, Prompt,
                  TakeLine, PromptTimesOut, configVars, history
    <2>2. \E from \in {"ask", "wait", "resolve"}, to \in {"wait", "resolve", "act"} :
             Goto(j, from, to)
      BY <1>4 DEF Question, OpenDialog, TakeAnswer, ReportApprovalResolved, Prompt,
                  TakeLine, PromptTimesOut
    <2>3. at[j] \in {"ask", "wait", "resolve"}
      BY <2>2 DEF Goto
    <2>4. ~MatchesBlocked(script[j])
      BY <2>3 DEF Cleared, Final
    <2> QED
      BY <1>2, <2>1, <2>2, <2>4
  <1>5. ASSUME NEW j \in Jobs, Ending(j) PROVE Cleared'
    <2>1. at[j] \in {"act", "save", "run"}
      BY <1>5 DEF Ending, Deny, Allow, AllowSession, AlwaysAllow, Saved,
                  RunWithSandbox, Goto
    <2>2. ~MatchesBlocked(script[j])
      BY <2>1 DEF Cleared, Final
    <2>3. CASE Deny(j) \/ RunWithSandbox(j)
      <3>1. /\ UNCHANGED memory /\ meant' = meant \ {j} /\ overlap' = overlap \ {j}
            /\ early' = early \ {j}
        BY <2>3 DEF Deny, RunWithSandbox, Forget, configVars
      <3>2. \E from \in {"act", "run"}, to \in Final : Goto(j, from, to)
        BY <2>3 DEF Deny, RunWithSandbox, Final
      <3> QED
        BY <1>2, <3>1, <3>2 DEF Final
    <2>4. CASE Allow(j)
      <3>1. UNCHANGED <<memory, meant, overlap, early>>
        BY <2>4 DEF Allow, configVars, history
      <3>2. result[j] = "allow"
        BY <2>4 DEF Allow
      <3>3. j \in meant \/ (mode.headless /\ j \in overlap \cup early)
        BY <3>2 DEF DialogAnswers, PromptAnswers
      <3>4. Leave(j)'
        BY <1>0, <3>1, <3>3 DEF Leave
      <3> QED
        BY <1>2, <2>2, <2>4, <3>1, <3>4 DEF Allow
    <2>5. CASE AllowSession(j)
      <3>1. UNCHANGED <<memory, meant, overlap, early>>
        BY <2>5 DEF AllowSession, configVars, history
      <3>2. script[j] \in granted
        BY <2>5, GrantedAnswers DEF AllowSession
      <3>3. Leave(j)'
        BY <1>0, <3>2 DEF Leave
      <3> QED
        BY <1>2, <2>2, <2>5, <3>1, <3>3 DEF AllowSession
    <2>6. CASE AlwaysAllow(j)
      <3>1. script[j] \in granted
        BY <2>6, GrantedAnswers DEF AlwaysAllow
      <3>2. memory' \cap {"confirm", "block"} \subseteq memory
        BY <2>6, <1>T, ApprovalAssumption DEF AlwaysAllow
      <3>3. UNCHANGED <<meant, overlap, early>>
        BY <2>6 DEF AlwaysAllow
      <3> QED
        BY <1>2, <2>2, <2>6, <3>1, <3>2, <3>3 DEF AlwaysAllow
    <2>7. CASE Saved(j)
      <3>1. UNCHANGED <<memory, meant, overlap, early>>
        BY <2>7 DEF Saved, configVars, history
      <3>2. at[j] = "save"
        BY <2>7 DEF Saved, Goto
      <3>3. Leave(j)'
        BY <1>0, <3>2 DEF Leave, Cleared
      <3> QED
        BY <1>2, <2>2, <2>7, <3>1, <3>3 DEF Saved
    <2> QED
      BY <1>5, <2>3, <2>4, <2>5, <2>6, <2>7 DEF Ending
  <1>6. CASE /\ UNCHANGED <<at, memory, overlap, early>>
             /\ meant \subseteq meant'
    BY <1>0, <1>1, <1>6 DEF Cleared
  <1>7. ASSUME NEW j \in Jobs, CountdownEnds(j) PROVE Cleared'
    BY <1>6, <1>7 DEF CountdownEnds, configVars
  <1>8. CASE Operator
    <2>1. UNCHANGED <<at, memory, overlap, early>>
      BY <1>8 DEF Operator, Click, CloseByOperator, TypeLine, EndOfInput,
                  configVars, history
    <2>2. meant \subseteq meant'
      BY <1>8 DEF Operator, Click, CloseByOperator, TypeLine, MeanLine, EndOfInput,
                  history, Mean
    <2> QED
      BY <1>6, <2>1, <2>2
  <1>9. CASE Crash
    <2>1. \A k \in Jobs : at'[k] \in Final \cup {"new"}
      BY <1>9 DEF Crash, Executing
    <2> QED
      BY <2>1 DEF Cleared, Final
  <1>10. CASE (\E s \in Savers : SaveStep(s)) \/ Restart \/ UNCHANGED vars
    BY <1>6, <1>10 DEF SaveStep, Restart, vars, configVars, history,
                       Marshal, Open, Write, SaveFails
  <1> QED
    BY <1>3, <1>4, <1>5, <1>7, <1>8, <1>9, <1>10, Steps

LEMMA GateInvariant == Spec => [](TypeOK /\ GateInv)
  <1>1. ASSUME Init PROVE GateInv
    <2> USE <1>1 DEF Init
    <2>1. ListsGranted
      <3>1. \A s \in Savers : draft[s] = {}
        BY DEF ConfigInit
      <3>2. memory \subseteq file.says
        BY DEF ConfigInit, Load
      <3> QED
        BY <3>1, <3>2 DEF ListsGranted
    <2>2. DialogAnswers
      BY DEF DialogAnswers, NoneYet
    <2>3. PromptAnswers
      BY DEF PromptAnswers, NoneYet, Prompted
    <2>4. Cleared
      BY DEF Cleared
    <2> QED
      BY <2>1, <2>2, <2>3, <2>4 DEF GateInv
  <1>2. TypeOK /\ GateInv /\ [Next]_vars => GateInv'
    BY ListsStep, DialogStep, PromptStep, ClearedStep DEF GateInv
  <1> QED
    BY <1>1, <1>2, TypeInit, TypeStep, PTL DEF Spec

\* Execute, before runWithSandbox: no list, and no answer to another job, lets a
\* script through that the operator did not allow, and nothing lets a blocked one
\* through.  In the terminal the line of a prompt may answer another one that
\* shares the screen, and a line that was waiting the prompt that comes next.
THEOREM OnlyAllowedRuns == Spec => []RunsOnlyAllowed
  <1>1. GateInv => RunsOnlyAllowed
    BY DEF GateInv, Cleared, Leave, RunsOnlyAllowed, Final
  <1> QED
    BY <1>1, GateInvariant, PTL

\* s.once in approval.go: buttons, Escape, the countdown and SetOnClosed may
\* all decide, and the job gets what the first of them said.
THEOREM FirstAnswerObeyed == Spec => []FirstAnswerCounts
  <1>1. GateInv => FirstAnswerCounts
    BY DEF GateInv, DialogAnswers, FirstAnswerCounts
  <1> QED
    BY <1>1, GateInvariant, PTL

-----------------------------------------------------------------------------
(* What is on the disk *)

\* As long as nothing went wrong, one goroutine saves at most, and where it
\* stands in Save says what its draft and the file hold.
SaveInv ==
    mishaps = {} =>
        /\ \A s, t \in Saving : s = t
        /\ Saving = {} => file = Yaml(memory)
        /\ \A s \in Savers :
             /\ save[s] \in {"open", "write"} => draft[s] = memory
             /\ save[s] = "write" => file = Yaml({})

\* Only an answer and the end of the process begin or end a save elsewhere.
LEMMA ConfigKept ==
  ASSUME NEW j \in Jobs,
         Layers(j) \/ Question(j) \/ CountdownEnds(j) \/ (Ending(j) /\ ~AlwaysAllow(j))
  PROVE  UNCHANGED configVars /\ UNCHANGED mishaps
  <1>1. CASE Layers(j)
    BY <1>1 DEF Layers, BlockedPatternCheck, IsSessionAllowed, IsAlwaysAllowed, history
  <1>2. CASE Question(j)
    BY <1>2 DEF Question, OpenDialog, TakeAnswer, ReportApprovalResolved, Prompt,
                TakeLine, PromptTimesOut, history
  <1>3. CASE CountdownEnds(j)
    BY <1>3 DEF CountdownEnds
  <1>4. CASE Ending(j) /\ ~AlwaysAllow(j)
    BY <1>4 DEF Ending, Deny, Allow, AllowSession, Saved, RunWithSandbox, history
  <1> QED
    BY <1>1, <1>2, <1>3, <1>4

LEMMA SaveInvStep == TypeOK /\ SaveInv /\ [Next]_vars => SaveInv'
  <1> SUFFICES ASSUME TypeOK, SaveInv, [Next]_vars PROVE SaveInv'
    OBVIOUS
  <1>T. /\ save \in [Savers -> {"idle", "marshal", "open", "write"}]
        /\ draft \in [Savers -> SUBSET Entries]
        /\ memory \subseteq Entries
        /\ Savers = Jobs
    BY ApprovalAssumption DEF TypeOK, ConfigTypeOK
  <1>1. CASE UNCHANGED configVars /\ UNCHANGED mishaps
    BY <1>1 DEF SaveInv, Saving, configVars
  <1>2. ASSUME NEW j \in Jobs, AlwaysAllow(j) PROVE SaveInv'
    <2>1. CASE Saving # {}
      BY <1>2, <2>1 DEF AlwaysAllow, NoteOverlap, SaveInv
    <2>2. CASE Saving = {}
      <3>1. \A s \in Savers : save[s] = "idle"
        BY <2>2 DEF Saving
      <3>2. save' = [save EXCEPT ![j] = "marshal"]
        BY <1>2 DEF AlwaysAllow, BeginSave
      <3>3. Saving' = {j} /\ \A s \in Savers : save'[s] \notin {"open", "write"}
        BY <1>T, <3>1, <3>2 DEF Saving
      <3> QED
        BY <3>3 DEF SaveInv
    <2> QED
      BY <2>1, <2>2
  <1>3. ASSUME NEW s \in Savers, SaveStep(s), mishaps' = {} PROVE SaveInv'
    <2>1. mishaps = {} /\ (Marshal(s, memory) \/ Open(s) \/ Write(s))
      BY <1>3 DEF SaveStep
    <2>2. s \in Saving
      BY <2>1 DEF Marshal, Open, Write, Saving
    <2>3. Saving = {s}
      BY <2>1, <2>2 DEF SaveInv
    <2>4. \A t \in Savers \ {s} : save[t] = "idle"
      BY <2>3 DEF Saving
    <2>5. \A t \in Savers \ {s} : save'[t] = "idle"
      BY <1>T, <2>1, <2>4 DEF Marshal, Open, Write
    <2>6. Saving' \subseteq {s}
      BY <2>5 DEF Saving
    <2>7. CASE Marshal(s, memory)
      <3>1. save'[s] = "open" /\ draft'[s] = memory' /\ UNCHANGED <<memory, file>>
        BY <2>7, <1>T DEF Marshal
      <3>2. s \in Saving'
        BY <3>1 DEF Saving
      <3> QED
        BY <2>5, <2>6, <3>1, <3>2 DEF SaveInv
    <2>8. CASE Open(s)
      <3>1. save'[s] = "write" /\ file' = Yaml({}) /\ draft'[s] = memory'
        BY <2>1, <2>8, <1>T DEF Open, SaveInv
      <3>2. s \in Saving'
        BY <3>1 DEF Saving
      <3> QED
        BY <2>5, <2>6, <3>1, <3>2 DEF SaveInv
    <2>9. CASE Write(s)
      <3>1. file = Yaml({}) /\ draft[s] = memory
        BY <2>1, <2>9 DEF Write, SaveInv
      <3>2. Overlays(file, draft[s]) = {Yaml(memory)}
        BY <3>1 DEF Overlays, Yaml
      <3>3. file' = Yaml(memory') /\ save'[s] = "idle"
        BY <2>9, <3>2, <1>T DEF Write
      <3> QED
        BY <2>5, <2>6, <3>3 DEF SaveInv
    <2> QED
      BY <2>1, <2>7, <2>8, <2>9
  <1>4. CASE Crash
    <2>1. CASE Saving # {}
      BY <1>4, <2>1 DEF Crash, SaveInv
    <2>2. CASE Saving = {}
      <3>1. Saving' = {} /\ UNCHANGED <<file, mishaps>> /\ memory' = file.says
        BY <1>4, <2>2, ApprovalAssumption DEF Crash, Reload, Load, Saving
      <3>2. mishaps = {} => file = Yaml(memory)
        BY <2>2 DEF SaveInv
      <3>3. mishaps' = {} => file' = Yaml(memory')
        BY <3>1, <3>2 DEF Yaml
      <3>4. \A s \in Savers : save'[s] = "idle"
        BY <1>4 DEF Crash, Reload
      <3> QED
        BY <3>1, <3>3, <3>4 DEF SaveInv
    <2> QED
      BY <2>1, <2>2
  <1>5. ASSUME NEW j \in Jobs, Ending(j) PROVE SaveInv'
    BY <1>1, <1>2, <1>5, ConfigKept
  <1>6. CASE Operator \/ Restart \/ UNCHANGED vars
    <2>1. UNCHANGED configVars /\ UNCHANGED mishaps
      BY <1>6 DEF Operator, Click, CloseByOperator, TypeLine, EndOfInput, Restart,
                  vars, history
    <2> QED
      BY <1>1, <2>1
  <1>7. CASE mishaps' # {}
    BY <1>7 DEF SaveInv
  <1> QED
    BY <1>1, <1>3, <1>4, <1>5, <1>6, <1>7, ConfigKept, Steps

\* LocalConfig.Save: after a save that met no other, did not fail and was not
\* cut short by a kill, runner.yaml parses and says what the process knows.
THEOREM LoneSaveLasts == Spec => []LoneSavePersists
  <1>1. ASSUME Init PROVE SaveInv
    <2>1. PICK e \in AtStart : file = Yaml(e)
      BY <1>1 DEF Init, ConfigInit
    <2>2. memory = e
      BY <1>1, <2>1, ApprovalAssumption DEF Init, ConfigInit, Load, Yaml
    <2>3. \A s \in Savers : save[s] = "idle"
      BY <1>1 DEF Init, ConfigInit
    <2> QED
      BY <2>1, <2>2, <2>3 DEF SaveInv, Saving
  <1>2. SaveInv => LoneSavePersists
    BY ApprovalAssumption DEF SaveInv, LoneSavePersists, Yaml, Load
  <1> QED
    BY <1>1, <1>2, SaveInvStep, ApprovalTypeOK, PTL DEF Spec

-----------------------------------------------------------------------------
(* What the platform was told *)

PendingInv ==
    \A j \in Jobs :
        platform[j] = "pending" =>
            mode.headless \/ j \in lost \/ at[j] \in {"wait", "resolve"}

LEMMA PendingStep == TypeOK /\ PendingInv /\ [Next]_vars => PendingInv'
  <1> SUFFICES ASSUME TypeOK, PendingInv, [Next]_vars, mode' = mode PROVE PendingInv'
    BY Kept
  <1>T. /\ at \in [Jobs -> Phases]
        /\ platform \in [Jobs -> {"none", "pending", "allowed", "denied"}]
    BY DEF TypeOK
  <1>1. CASE UNCHANGED <<at, platform, lost>>
    BY <1>1 DEF PendingInv
  \* A step between two positions at which nothing has been asked.
  <1>2. ASSUME NEW j \in Jobs, NEW from, NEW to, Goto(j, from, to),
               from \in {"wait", "resolve"} => mode.headless \/ to \in {"wait", "resolve"},
               UNCHANGED <<platform, lost>>
        PROVE  PendingInv'
    BY <1>2, <1>T DEF Goto, PendingInv
  <1>3. ASSUME NEW j \in Jobs, Layers(j) PROVE PendingInv'
    <2>1. UNCHANGED <<platform, lost>>
      BY <1>3 DEF Layers, BlockedPatternCheck, IsSessionAllowed, IsAlwaysAllowed,
                  askVars, history
    <2>2. \E from \in {"new", "session", "always"}, to \in Phases : Goto(j, from, to)
      BY <1>3 DEF Layers, BlockedPatternCheck, IsSessionAllowed, IsAlwaysAllowed,
                  Phases, Final
    <2> QED
      BY <1>2, <2>1, <2>2
  <1>4. ASSUME NEW j \in Jobs, Question(j) PROVE PendingInv'
    <2>1. CASE OpenDialog(j) \/ Prompt(j)
      BY <2>1, <1>T DEF OpenDialog, Prompt, Goto, Tell, PendingInv
    <2>2. CASE ReportApprovalResolved(j)
      BY <2>2, <1>T DEF ReportApprovalResolved, Goto, Tell, PendingInv
    <2>3. CASE TakeAnswer(j) \/ TakeLine(j) \/ PromptTimesOut(j)
      BY <1>2, <2>3 DEF TakeAnswer, TakeLine, PromptTimesOut, history
    <2> QED
      BY <1>4, <2>1, <2>2, <2>3 DEF Question
  <1>5. ASSUME NEW j \in Jobs, Ending(j) PROVE PendingInv'
    <2>1. UNCHANGED <<platform, lost>>
      BY <1>5 DEF Ending, Deny, Allow, AllowSession, AlwaysAllow, Saved,
                  RunWithSandbox, askVars, history
    <2>2. \E from \in {"act", "save", "run"}, to \in Phases : Goto(j, from, to)
      BY <1>5 DEF Ending, Deny, Allow, AllowSession, AlwaysAllow, Saved,
                  RunWithSandbox, Phases, Final
    <2> QED
      BY <1>2, <2>1, <2>2
  <1>6. ASSUME NEW j \in Jobs, CountdownEnds(j) PROVE PendingInv'
    BY <1>1, <1>6 DEF CountdownEnds
  <1>7. CASE Operator
    BY <1>1, <1>7 DEF Operator, Click, CloseByOperator, TypeLine, EndOfInput, history
  <1>8. CASE Crash
    BY <1>8, <1>T DEF Crash, Executing, Final, PendingInv
  <1>9. CASE (\E s \in Savers : SaveStep(s)) \/ Restart \/ UNCHANGED vars
    BY <1>1, <1>9 DEF SaveStep, Restart, vars, askVars, history
  <1> QED
    BY <1>3, <1>4, <1>5, <1>6, <1>7, <1>8, <1>9, Steps

\* OnPending and OnResolved in local.go: with a display every job that leaves
\* the gate has told the platform how its question ended, except where a report
\* was lost or the process was killed.
THEOREM PendingEnds == Spec => []PendingIsResolved
  <1>1. Init => PendingInv
    BY DEF Init, NoneYet, PendingInv
  <1>2. PendingInv => PendingIsResolved
    BY DEF PendingInv, PendingIsResolved, Final
  <1> QED
    BY <1>1, <1>2, PendingStep, ApprovalTypeOK, PTL DEF Spec
=============================================================================
