--------------------------- MODULE ExecutionProofs ---------------------------
(***************************************************************************)
(* Proofs about Execution, for every executor, any length of the output,   *)
(* any capacity of the channel, any number of attempts and of faults.      *)
(***************************************************************************)
EXTENDS Execution, TLAPS

-----------------------------------------------------------------------------
(* Where the goroutines of a job stand together *)

Unboxed == {"off", "pull", "create", "gate", "script", "launch", "refuse"}
Early   == Unboxed \cup {"start", "logs", "pod"}
Leaving == {"return", "drain", "verdict", "report", "over"}

\* Which executor gets to a station.
KindInv ==
    /\ at \in {"pull", "start", "logs", "wait", "close"} => kind = "docker"
    /\ at \in {"pod", "stream", "exit"} => kind = "kubernetes"
    /\ at \in {"gate", "script", "launch", "refuse", "reap"} => kind = "local"
    /\ at = "join" => kind # "kubernetes"
    /\ at \in {"create", "remove"} => kind # "local"

\* What has become of the box and of a foreign job of the same name.
BoxInv ==
    /\ at \in Unboxed => box = "none"
    /\ at = "start" => box = "created"
    /\ at \in {"logs", "wait"} => box \in {"running", "ended"}
    /\ at \in {"stream", "exit"} => box \in {"running", "ended"}
    /\ kind = "local" => box \in {"none", "running", "ended", "killed"}
    /\ at \in Leaving =>
         \/ box \in {"none", "gone"} \/ leaked
         \/ kind = "local" /\ box \in {"ended", "killed"}
    /\ foreign # "gone"
    /\ foreign = "there" => kind = "kubernetes" /\ at \in {"off", "create"} \cup Leaving

\* The streaming goroutine runs between two stations, and ends for a reason.
StreamInv ==
    /\ at \in Early => stream = "none"
    /\ at \in {"wait", "close", "stream", "join"} => stream # "none"
    /\ at \in {"exit", "reap"} => stream = "done"
    /\ at \in {"remove"} \cup Leaving => stream \in {"none", "done"}
    /\ stream = "send" => sent < written
    /\ kind = "docker" /\ at \notin {"wait", "close"} =>
         /\ stream # "read"
         /\ stream = "send" => cut
    /\ stream = "done" => cut \/ (sent = written /\ box \in {"ended", "killed", "gone"})

\* Execute returns one result, and "ok" only for a script that ended with 0.
OutcomeInv ==
    /\ outcome = "none" <=>
         \/ at \in Early \cup {"wait", "stream", "exit", "reap"}
         \/ at = "join" /\ kind = "local"
    /\ outcome = "ok" => code = "zero" /\ box \in {"ended", "gone"} /\ stream # "none"

\* The goroutine that posts, and whose call it is.
DrainInv ==
    /\ drain = "post" => call.phase # "idle" /\ call.body = Chunk(taken) /\ taken > 0
    /\ drain = "done" => Closed /\ taken = sent
    /\ at = "off" => drain = "none"
    /\ at \in {"verdict", "report", "over"} => drain = "done"
    /\ at = "report" => call.phase # "idle" /\ call.body = Verdict
    /\ call.phase # "idle" => drain = "post" \/ at = "report"
    /\ call.phase = "sleep" => call.attempt < MaxAttempts - 1

\* Nobody but docker.go spoils a chunk.
TornInv == torn => kind = "docker"

JobInv == KindInv /\ BoxInv /\ StreamInv /\ OutcomeInv /\ DrainInv /\ TornInv

-----------------------------------------------------------------------------
(* What the platform hears *)

\* The chunk k has arrived, or is not going to by a call of the client.
Heard(k) == k \in givenUp \/ \E h \in 1..Len(inbox) : inbox[h] = Chunk(k)

\* What may still arrive.
Pending ==
    {l[1] : l \in late} \cup
        (IF call.phase \in {"sent", "sleep"} THEN {call.body} ELSE {})

Known(m) ==
    \/ \E k \in 1..taken : m = Chunk(k)
    \/ m = Verdict /\ at \in {"report", "over"}

MessageInv ==
    /\ \A m \in Pending : Known(m)
    /\ \A i \in 1..Len(inbox) : Known(inbox[i])

OrderInv ==
    /\ OutputInOrder
    /\ \A m \in Pending : \A k \in Before(m) : Heard(k)
    /\ \A k \in 1..taken : Heard(k) \/ (drain = "post" /\ k = taken)
    /\ call.phase = "ok" => \E h \in 1..Len(inbox) : inbox[h] = call.body

-----------------------------------------------------------------------------
(* The client of the platform *)

SleepersRetry == call.phase = "sleep" => call.attempt < MaxAttempts - 1

\* What a step of the client does to its call, the inbox and the late requests.
LEMMA CallMoves ==
    ASSUME RetryTypeOK, SleepersRetry, Proceed
    PROVE  /\ call'.phase \in {"sent", "sleep", "ok", "error"}
           /\ call'.attempt \in 0..MaxAttempts - 1
           /\ call'.body = call.body
           /\ call' = [phase |-> call'.phase, attempt |-> call'.attempt, body |-> call.body]
           /\ SleepersRetry'
           /\ call.phase \in {"sent", "sleep"}
<1> USE RetryAssumption
<1>1. /\ call.phase \in Phases /\ call.attempt \in 0..MaxAttempts - 1
      /\ call.body \in Messages
      /\ call = [phase |-> call.phase, attempt |-> call.attempt, body |-> call.body]
  BY DEF RetryTypeOK
<1>2. \/ \E phase \in {"ok", "error"} : call.phase = "sent" /\ To(phase)
      \/ call.phase = "sent" /\ call.attempt < MaxAttempts - 1 /\ To("sleep")
      \/ Wake
  BY DEF Proceed, Served, Refused, NotServed, AnswerLost, Overdue, Retry
<1>3. CASE \E phase \in {"ok", "error"} : call.phase = "sent" /\ To(phase)
  BY <1>1, <1>3 DEF To, SleepersRetry
<1>4. CASE call.phase = "sent" /\ call.attempt < MaxAttempts - 1 /\ To("sleep")
  BY <1>1, <1>4 DEF To, SleepersRetry
<1>5. CASE Wake
  <2>1. call' = [phase |-> "sent", attempt |-> call.attempt + 1, body |-> call.body]
    BY <1>1, <1>5 DEF Wake
  <2>2. call.attempt + 1 \in 0..MaxAttempts - 1 /\ call.phase = "sleep"
    BY <1>1, <1>5 DEF Wake, SleepersRetry
  <2>3. QED
    BY <2>1, <2>2 DEF SleepersRetry
<1>6. QED
  BY <1>2, <1>3, <1>4, <1>5

LEMMA MailMoves ==
    ASSUME RetryTypeOK, Proceed
    PROVE  /\ faults' \in 0..MaxFaults
           /\ late' \subseteq late \cup {<<call.body, call.attempt>>}
           /\ late' # late => call.phase = "sent"
           /\ inbox' = inbox \/ (call.phase = "sent" /\ inbox' = Append(inbox, call.body))
           /\ call'.phase = "ok" => inbox' = Append(inbox, call.body)
<1> USE RetryAssumption
<1>1. faults' \in 0..MaxFaults
  BY DEF RetryTypeOK, Proceed, Served, Refused, NotServed, AnswerLost, Overdue, Wake, Fault
<1>2. /\ late' \subseteq late \cup {<<call.body, call.attempt>>}
      /\ late' # late => call.phase = "sent"
      /\ inbox' = inbox \/ (call.phase = "sent" /\ inbox' = Append(inbox, call.body))
  BY DEF Proceed, Served, Refused, NotServed, AnswerLost, Overdue, Wake
<1>3. call'.phase = "ok" => inbox' = Append(inbox, call.body)
  <2>1. ~Served => call'.phase \in {"error", "sleep", "sent"}
    BY DEF RetryTypeOK, Proceed, Refused, NotServed, AnswerLost, Overdue, Wake, Retry, To
  <2>2. QED
    BY <2>1 DEF Served
<1>4. QED
  BY <1>1, <1>2, <1>3

LEMMA CallTyped ==
    ASSUME RetryTypeOK, SleepersRetry, Proceed \/ Arrives
    PROVE  RetryTypeOK' /\ SleepersRetry'
<1>1. CASE Proceed
  <2>1. /\ call'.phase \in Phases /\ call'.attempt \in 0..MaxAttempts - 1
        /\ call' = [phase |-> call'.phase, attempt |-> call'.attempt, body |-> call.body]
        /\ SleepersRetry'
    BY <1>1, CallMoves DEF Phases
  <2>2. call.body \in Messages /\ call.attempt \in 0..MaxAttempts - 1
    BY DEF RetryTypeOK
  <2>3. call' \in [phase : Phases, attempt : 0..MaxAttempts - 1, body : Messages]
    BY <2>1, <2>2
  <2>4. late' \subseteq Messages \X (0..MaxAttempts - 1)
    BY <1>1, <2>2, MailMoves DEF RetryTypeOK
  <2>5. inbox' \in Seq(Messages) /\ faults' \in 0..MaxFaults
    <3>1. faults' \in 0..MaxFaults /\ (inbox' = inbox \/ inbox' = Append(inbox, call.body))
      BY <1>1, MailMoves
    <3>2. inbox \in Seq(Messages)
      BY DEF RetryTypeOK
    <3>3. Append(inbox, call.body) \in Seq(Messages)
      BY ONLY <2>2, <3>2
    <3>4. QED
      BY ONLY <3>1, <3>2, <3>3
  <2>6. QED
    BY <2>1, <2>3, <2>4, <2>5 DEF RetryTypeOK
<1>2. CASE Arrives
  <2>1. PICK l \in late : late' = late \ {l} /\ inbox' = Append(inbox, l[1])
                         /\ UNCHANGED <<call, faults>>
    BY <1>2 DEF Arrives
  <2>2. l[1] \in Messages
    BY DEF RetryTypeOK
  <2>3. QED
    BY <2>1, <2>2 DEF RetryTypeOK, SleepersRetry
<1>3. QED
  BY <1>1, <1>2
-----------------------------------------------------------------------------
(* Types *)

\* The steps by what they do to the client and to the channel.
Quiet ==
    \/ HandleJob \/ Pull \/ CreateContainer \/ CreateFails \/ Start \/ Logs
    \/ CreateJob \/ NameIsTaken \/ PodRuns \/ PodFails \/ LogsEnd
    \/ Wait \/ CloseLogs \/ Join \/ Remove
    \/ GetPodExitCode \/ Gate \/ WriteScript \/ Launch \/ Reap
    \/ CloseChannel \/ AwaitDrain \/ Drained
    \/ PodStarts \/ ScriptEnds \/ OrphanEnds \/ Stop \/ Expire \/ Kill
    \/ ReadChunk \/ EndOfOutput \/ StreamBreaks

LEMMA Steps ==
    ASSUME [Next]_vars
    PROVE  \/ Quiet \/ Refuse \/ ScriptWrites \/ SendChunk \/ TakeChunk \/ Posted
           \/ ReportVerdict \/ Reported \/ Network \/ UNCHANGED vars
BY DEF Next, JobStep, StreamStep, DrainStep, Script, Finished, Quiet

\* A quiet step leaves the client and the channel alone.
LEMMA QuietStep ==
    ASSUME Quiet
    PROVE  /\ UNCHANGED <<call, late, inbox, written, sent, taken, givenUp>>
           /\ UNCHANGED faults \/ Fault
<1> USE DEF callVars, outVars, history, jobVars
<1>1. CASE HandleJob \/ CloseChannel \/ AwaitDrain \/ Drained
  BY <1>1 DEF HandleJob, CloseChannel, AwaitDrain, Drained, Move
<1>2. CASE Pull \/ CreateContainer \/ CreateFails \/ Start \/ Logs \/ Wait \/ CloseLogs
             \/ Join \/ Remove
  BY <1>2 DEF Pull, CreateContainer, CreateFails, Start, Logs, Wait, CloseLogs, Join,
              Remove, Go, CallFails
<1>3. CASE CreateJob \/ NameIsTaken \/ PodRuns \/ PodFails \/ LogsEnd \/ GetPodExitCode
  BY <1>3 DEF CreateJob, NameIsTaken, PodRuns, PodFails, LogsEnd, GetPodExitCode, Go, CallFails
<1>4. CASE Gate \/ WriteScript \/ Launch \/ Reap
  BY <1>4 DEF Gate, WriteScript, Launch, Reap, Go, CallFails
<1>5. CASE PodStarts \/ ScriptEnds \/ OrphanEnds \/ Stop \/ Expire \/ Kill
  BY <1>5 DEF PodStarts, ScriptEnds, OrphanEnds, Stop, Expire, Kill
<1>6. CASE ReadChunk \/ EndOfOutput \/ StreamBreaks
  BY <1>6 DEF ReadChunk, EndOfOutput, StreamBreaks, Stream
<1>7. QED
  BY <1>1, <1>2, <1>3, <1>4, <1>5, <1>6 DEF Quiet
LEMMA ChunkIsMessage ==
    ASSUME NEW k \in 1..Chunks
    PROVE  Chunk(k) \in Messages
BY MessagesAssumption

LEMMA VerdictIsMessage ==
    ASSUME outcome \in Verdicts, taken \in 0..Chunks, torn \in BOOLEAN
    PROVE  Verdict \in Messages
<1>1. 0 \in 0..Chunks
  BY ExecutionAssumption
<1>2. Verdict \in [what : Verdicts, n : 0..Chunks, whole : BOOLEAN]
  BY <1>1 DEF Verdict
<1>3. QED
  BY <1>2, MessagesAssumption

LEMMA NoCallTyped ==
    NoCall \in [phase : Phases, attempt : 0..MaxAttempts - 1, body : Messages]
<1>1. 0 \in 0..Chunks
  BY ExecutionAssumption
<1>2. [what |-> "ok", n |-> 0, whole |-> TRUE] \in Messages
  BY <1>1, MessagesAssumption DEF Verdicts
<1>3. (CHOOSE m \in Messages : TRUE) \in Messages
  BY <1>2
<1>4. 0 \in 0..MaxAttempts - 1
  BY RetryAssumption
<1>5. QED
  BY <1>3, <1>4 DEF NoCall, Phases

LEMMA BegunTyped ==
    ASSUME RetryTypeOK, NEW m \in Messages, Begin(m)
    PROVE  RetryTypeOK' /\ SleepersRetry'
<1>1. 0 \in 0..MaxAttempts - 1
  BY RetryAssumption
<1>2. QED
  BY <1>1 DEF Begin, RetryTypeOK, SleepersRetry, Phases

LEMMA EndedTyped ==
    ASSUME RetryTypeOK, End
    PROVE  RetryTypeOK' /\ SleepersRetry'
<1>1. call' \in [phase : Phases, attempt : 0..MaxAttempts - 1, body : Messages]
  BY NoCallTyped DEF End
<1>2. QED
  BY <1>1 DEF End, RetryTypeOK, SleepersRetry, NoCall

LEMMA ClientTyped ==
    ASSUME TypeOK, JobInv, [Next]_vars
    PROVE  RetryTypeOK' /\ SleepersRetry'
<1>1. RetryTypeOK /\ SleepersRetry
  BY DEF TypeOK, JobInv, DrainInv, SleepersRetry
<1>2. taken \in 0..Chunks
  BY ExecutionAssumption DEF TypeOK
<1>3. CASE Quiet
  <2>1. faults' \in 0..MaxFaults
    BY <1>1, <1>3, QuietStep, RetryAssumption DEF RetryTypeOK, Fault
  <2>2. QED
    BY <1>1, <1>3, <2>1, QuietStep DEF RetryTypeOK, SleepersRetry
<1>4. CASE Refuse \/ ScriptWrites \/ UNCHANGED vars
  BY <1>1, <1>4 DEF Refuse, ScriptWrites, vars, callVars, RetryTypeOK, SleepersRetry
<1>5. CASE SendChunk
  <2>1. UNCHANGED <<call, late, inbox, faults>>
    BY <1>5 DEF SendChunk, Stream
  <2>2. QED
    BY <1>1, <2>1 DEF RetryTypeOK, SleepersRetry
<1>6. CASE TakeChunk
  <2>1. taken' \in 1..Chunks
    BY <1>6, <1>2, ExecutionAssumption DEF TakeChunk, TypeOK
  <2>2. Begin(Chunk(taken')) /\ Chunk(taken') \in Messages
    BY <1>6, <2>1, ChunkIsMessage DEF TakeChunk
  <2>3. QED
    BY <1>1, <2>2, BegunTyped
<1>7. CASE Posted \/ Reported
  BY <1>1, <1>7, EndedTyped DEF Posted, Reported
<1>8. CASE ReportVerdict
  <2>1. outcome \in Verdicts /\ torn \in BOOLEAN
    BY <1>8 DEF ReportVerdict, Move, TypeOK, JobInv, OutcomeInv, Early, Unboxed
  <2>2. Verdict \in Messages
    BY <1>2, <2>1, VerdictIsMessage
  <2>3. QED
    BY <1>1, <1>8, <2>2, BegunTyped DEF ReportVerdict
<1>9. CASE Network
  BY <1>1, <1>9, CallTyped DEF Network
<1>10. QED
  BY <1>3, <1>4, <1>5, <1>6, <1>7, <1>8, <1>9, Steps

LEMMA CountsTyped ==
    ASSUME TypeOK, JobInv, [Next]_vars
    PROVE  /\ written' \in 0..Chunks /\ sent' \in 0..written' /\ taken' \in 0..sent'
           /\ sent' - taken' <= Capacity /\ givenUp' \subseteq 1..Chunks
<1>1. /\ written \in 0..Chunks /\ sent \in 0..written /\ taken \in 0..sent
      /\ sent - taken <= Capacity /\ givenUp \subseteq 1..Chunks
  BY DEF TypeOK
<1> USE ExecutionAssumption
<1>3. CASE Quiet \/ UNCHANGED vars
  BY <1>1, <1>3, QuietStep DEF vars, outVars, history
<1>4. CASE Refuse
  BY <1>1, <1>4 DEF Refuse, history, JobInv, StreamInv, Early, Unboxed
<1>5. CASE ScriptWrites
  BY <1>1, <1>5 DEF ScriptWrites, history
<1>6. CASE SendChunk
  <2>1. sent < written
    BY <1>6 DEF SendChunk, Stream, JobInv, StreamInv
  <2>2. QED
    BY <1>1, <1>6, <2>1 DEF SendChunk, Stream
<1>7. CASE TakeChunk
  BY <1>1, <1>7 DEF TakeChunk, history
<1>8. CASE Posted
  <2>1. taken \in 1..Chunks
    BY <1>1, <1>8 DEF Posted, JobInv, DrainInv
  <2>2. QED
    BY <1>1, <1>8, <2>1 DEF Posted
<1>9. CASE ReportVerdict \/ Reported \/ Network
  BY <1>1, <1>9 DEF ReportVerdict, Reported, Network, Move, outVars, history
<1>10. QED
  BY <1>3, <1>4, <1>5, <1>6, <1>7, <1>8, <1>9, Steps
\* The steps of the job's goroutine that are one executor's own.
DockerStep  == Pull \/ CreateContainer \/ Start \/ Logs \/ Wait \/ CloseLogs
ClusterStep == CreateJob \/ NameIsTaken \/ PodRuns \/ PodFails \/ LogsEnd \/ GetPodExitCode
ProcessStep == Gate \/ Refuse \/ WriteScript \/ Launch \/ Reap
SharedStep  == HandleJob \/ CreateFails \/ Join \/ Remove
HandOver    == CloseChannel \/ AwaitDrain \/ ReportVerdict \/ Reported
Outside     == Script \/ Stop \/ Expire \/ Kill

LEMMA Groups ==
    ASSUME [Next]_vars
    PROVE  \/ DockerStep \/ ClusterStep \/ ProcessStep \/ SharedStep \/ HandOver
           \/ Outside \/ StreamStep \/ DrainStep \/ Network \/ UNCHANGED vars
BY DEF Next, JobStep, Finished, DockerStep, ClusterStep, ProcessStep, SharedStep, HandOver,
       Outside

\* What the goroutines of the output and the client leave alone.
LEMMA JobRests ==
    ASSUME StreamStep \/ DrainStep \/ Network \/ UNCHANGED vars
    PROVE  UNCHANGED jobVars /\ UNCHANGED <<written, leaked>>
BY DEF StreamStep, DrainStep, Network, ReadChunk, SendChunk, EndOfOutput, StreamBreaks, Stream,
       TakeChunk, Posted, Drained, vars, outVars, history

LEMMA PlacesTyped ==
    ASSUME TypeOK, [Next]_vars
    PROVE  /\ kind' \in Kinds /\ foreign' \in {"none", "there", "gone"}
           /\ at' \in Stations
           /\ ctx' \in {"live", "canceled", "expired"}
           /\ outcome' \in Verdicts \cup {"none"}
<1> USE DEF TypeOK, Stations
<1>1. CASE DockerStep
  BY <1>1 DEF DockerStep, Pull, CreateContainer, Start, Logs, Wait, CloseLogs, Go, CallFails,
              CtxErr, ExitStatus, Verdicts
<1>2. CASE ClusterStep
  BY <1>2 DEF ClusterStep, CreateJob, NameIsTaken, PodRuns, PodFails, LogsEnd,
              GetPodExitCode, Go, CallFails, CtxErr, ExitStatus, Verdicts
<1>3. CASE ProcessStep
  BY <1>3 DEF ProcessStep, Gate, Refuse, WriteScript, Launch, Reap, Go, CallFails, CtxErr,
              ExitStatus, Verdicts
<1>4. CASE SharedStep
  BY <1>4, ExecutionAssumption
     DEF SharedStep, HandleJob, CreateFails, Join, Remove, Go, CallFails, CtxErr, Verdicts
<1>5. CASE HandOver
  BY <1>5 DEF HandOver, CloseChannel, AwaitDrain, ReportVerdict, Reported, Move
<1>6. CASE Outside
  BY <1>6 DEF Outside, Script, PodStarts, ScriptWrites, ScriptEnds, OrphanEnds, Stop,
              Expire, Kill, jobVars
<1>7. CASE StreamStep \/ DrainStep \/ Network \/ UNCHANGED vars
  BY <1>7, JobRests DEF jobVars
<1>8. QED
  BY <1>1, <1>2, <1>3, <1>4, <1>5, <1>6, <1>7, Groups

LEMMA BoxTyped ==
    ASSUME TypeOK, [Next]_vars
    PROVE  /\ box' \in {"none", "created", "running", "ended", "killed", "gone"}
           /\ code' \in {"none", "zero", "other"} /\ orphan' \in BOOLEAN
           /\ stream' \in {"none", "read", "send", "done"}
           /\ drain' \in {"none", "recv", "post", "done"}
           /\ {cut', leaked'} \subseteq BOOLEAN
<1> USE DEF TypeOK, history, outVars, jobVars
<1>1. CASE DockerStep
  BY <1>1 DEF DockerStep, Pull, CreateContainer, Start, Logs, Wait, CloseLogs, Go
<1>2. CASE ClusterStep
  BY <1>2 DEF ClusterStep, CreateJob, NameIsTaken, PodRuns, PodFails, LogsEnd,
              GetPodExitCode, Go
<1>3. CASE ProcessStep
  BY <1>3 DEF ProcessStep, Gate, Refuse, WriteScript, Launch, Reap, Go
<1>4. CASE SharedStep
  BY <1>4 DEF SharedStep, HandleJob, CreateFails, Join, Remove, Go
<1>5. CASE HandOver
  BY <1>5 DEF HandOver, CloseChannel, AwaitDrain, ReportVerdict, Reported, Move
<1>6. CASE Outside
  BY <1>6 DEF Outside, Script, PodStarts, ScriptWrites, ScriptEnds, OrphanEnds, Stop,
              Expire, Kill
<1>7. CASE StreamStep
  BY <1>7 DEF StreamStep, ReadChunk, SendChunk, EndOfOutput, StreamBreaks, Stream
<1>8. CASE DrainStep
  BY <1>8 DEF DrainStep, TakeChunk, Posted, Drained
<1>9. CASE Network \/ UNCHANGED vars
  BY <1>9 DEF Network, vars
<1>10. QED
  BY <1>1, <1>2, <1>3, <1>4, <1>5, <1>6, <1>7, <1>8, <1>9, Groups

\* Only the streaming goroutine of docker.go spoils a chunk.
LEMMA Tearing ==
    ASSUME TypeOK, [Next]_vars
    PROVE  /\ torn' \in BOOLEAN /\ kind' = kind
           /\ torn' => torn \/ kind = "docker"
           /\ SendChunk \/ torn' = torn
<1> USE DEF TypeOK, outVars, jobVars
<1>1. CASE DockerStep
  BY <1>1 DEF DockerStep, Pull, CreateContainer, Start, Logs, Wait, CloseLogs, Go
<1>2. CASE ClusterStep
  BY <1>2 DEF ClusterStep, CreateJob, NameIsTaken, PodRuns, PodFails, LogsEnd,
              GetPodExitCode, Go
<1>3. CASE ProcessStep
  BY <1>3 DEF ProcessStep, Gate, Refuse, WriteScript, Launch, Reap, Go
<1>4. CASE SharedStep
  BY <1>4 DEF SharedStep, HandleJob, CreateFails, Join, Remove, Go
<1>5. CASE HandOver
  BY <1>5 DEF HandOver, CloseChannel, AwaitDrain, ReportVerdict, Reported, Move
<1>6. CASE Outside
  <2>1. UNCHANGED <<torn, kind>>
    BY <1>6 DEF Outside, Script, PodStarts, ScriptWrites, ScriptEnds, OrphanEnds, Stop,
                Expire, Kill
  <2>2. QED
    BY <2>1
<1>7. CASE StreamStep
  <2>1. CASE SendChunk
    <3>1. kind' = kind /\ (torn' = torn \/ (torn' = TRUE /\ kind = "docker"))
      BY <2>1 DEF SendChunk, Stream, Unframe
    <3>2. CASE torn' = torn
      BY <3>1, <3>2
    <3>3. CASE torn' = TRUE /\ kind = "docker"
      BY <2>1, <3>1, <3>3
    <3>4. QED
      BY <3>1, <3>2, <3>3
  <2>2. CASE ~SendChunk
    <3>1. kind' = kind /\ torn' = torn
      BY <1>7, <2>2 DEF StreamStep, ReadChunk, EndOfOutput, StreamBreaks, Stream
    <3>2. QED
      BY <3>1
  <2>3. QED
    BY <2>1, <2>2
<1>8. CASE DrainStep
  BY <1>8 DEF DrainStep, TakeChunk, Posted, Drained
<1>9. CASE Network \/ UNCHANGED vars
  BY <1>9 DEF Network, vars
<1>10. QED
  BY <1>1, <1>2, <1>3, <1>4, <1>5, <1>6, <1>7, <1>8, <1>9, Groups

LEMMA TypesKept ==
    ASSUME TypeOK, JobInv, [Next]_vars
    PROVE  TypeOK'
BY ClientTyped, CountsTyped, PlacesTyped, BoxTyped, Tearing DEF TypeOK
-----------------------------------------------------------------------------
(* The job's goroutine, the box and the streams *)

LEMMA KindKept ==
    ASSUME TypeOK, KindInv, [Next]_vars
    PROVE  KindInv'
<1>1. kind \in {"docker", "kubernetes", "local"}
  BY ExecutionAssumption DEF TypeOK
<1> USE DEF KindInv, jobVars, outVars, history
<1>2. CASE DockerStep
  BY <1>1, <1>2 DEF DockerStep, Pull, CreateContainer, Start, Logs, Wait, CloseLogs, Go,
                    CallFails
<1>3. CASE ClusterStep
  BY <1>1, <1>3 DEF ClusterStep, CreateJob, NameIsTaken, PodRuns, PodFails, LogsEnd,
              GetPodExitCode, Go, CallFails
<1>4. CASE ProcessStep
  BY <1>1, <1>4 DEF ProcessStep, Gate, Refuse, WriteScript, Launch, Reap, Go, CallFails
<1>5. CASE SharedStep
  BY <1>1, <1>5 DEF SharedStep, HandleJob, CreateFails, Join, Remove, Go, CallFails
<1>6. CASE HandOver
  BY <1>6 DEF HandOver, CloseChannel, AwaitDrain, ReportVerdict, Reported, Move
<1>7. CASE Outside
  BY <1>7 DEF Outside, Script, PodStarts, ScriptWrites, ScriptEnds, OrphanEnds, Stop,
              Expire, Kill
<1>8. CASE StreamStep \/ DrainStep \/ Network \/ UNCHANGED vars
  BY <1>8, JobRests
<1>9. QED
  BY <1>2, <1>3, <1>4, <1>5, <1>6, <1>7, <1>8, Groups

LEMMA BoxKept ==
    ASSUME TypeOK, KindInv, BoxInv, [Next]_vars
    PROVE  BoxInv'
<1>1. /\ kind \in {"docker", "kubernetes", "local"}
      /\ box \in {"none", "created", "running", "ended", "killed", "gone"}
      /\ foreign \in {"none", "there", "gone"}
  BY ExecutionAssumption DEF TypeOK
<1> USE DEF KindInv, BoxInv, Unboxed, Leaving, jobVars, outVars, history
<1>2. CASE DockerStep
  <2>1. CASE Pull \/ CreateContainer
    BY <1>1, <2>1 DEF Pull, CreateContainer, Go
  <2>2. CASE Start
    BY <1>1, <2>2 DEF Start, Go
  <2>3. CASE Logs
    BY <1>1, <2>3 DEF Logs, Go
  <2>4. CASE Wait
    BY <1>1, <2>4 DEF Wait, Go
  <2>5. CASE CloseLogs
    BY <1>1, <2>5 DEF CloseLogs, Go
  <2>6. QED
    BY <1>2, <2>1, <2>2, <2>3, <2>4, <2>5 DEF DockerStep
<1>3. CASE ClusterStep
  BY <1>1, <1>3 DEF ClusterStep, CreateJob, NameIsTaken, PodRuns, PodFails, LogsEnd,
              GetPodExitCode, Go, CallFails
<1>4. CASE ProcessStep
  BY <1>1, <1>4 DEF ProcessStep, Gate, Refuse, WriteScript, Launch, Reap, Go, CallFails
<1>5. CASE SharedStep
  <2>1. CASE HandleJob
    BY <1>1, <2>1 DEF HandleJob
  <2>2. CASE CreateFails
    <3>1. at' = "return" /\ UNCHANGED <<kind, foreign>> /\ box' \in {"none", "created"}
      BY <2>2 DEF CreateFails, Go
    <3>2. box' = "created" => leaked'
      BY <2>2, Zenon DEF CreateFails
    <3>3. at = "create"
      BY <2>2 DEF CreateFails, Go
    <3>4. QED
      BY <3>1, <3>2, <3>3
  <2>3. CASE Join
    BY <1>1, <2>3 DEF Join, Go
  <2>4. CASE Remove
    BY <1>1, <2>4 DEF Remove
  <2>5. QED
    BY <1>5, <2>1, <2>2, <2>3, <2>4 DEF SharedStep
<1>6. CASE HandOver
  BY <1>6 DEF HandOver, CloseChannel, AwaitDrain, ReportVerdict, Reported, Move
<1>7. CASE Outside
  BY <1>1, <1>7 DEF Outside, Script, PodStarts, ScriptWrites, ScriptEnds, OrphanEnds, Stop,
              Expire, Kill
<1>8. CASE StreamStep \/ DrainStep \/ Network \/ UNCHANGED vars
  BY <1>8, JobRests
<1>9. QED
  BY <1>2, <1>3, <1>4, <1>5, <1>6, <1>7, <1>8, Groups
LEMMA StreamKept ==
    ASSUME TypeOK, KindInv, BoxInv, StreamInv, [Next]_vars
    PROVE  StreamInv'
<1>1. /\ kind \in {"docker", "kubernetes", "local"}
      /\ box \in {"none", "created", "running", "ended", "killed", "gone"}
      /\ stream \in {"none", "read", "send", "done"} /\ cut \in BOOLEAN
      /\ written \in Nat /\ sent \in Nat /\ sent <= written
  BY ExecutionAssumption DEF TypeOK
<1> USE DEF KindInv, BoxInv, StreamInv, Early, Unboxed, Leaving, jobVars, outVars, history
<1>2. CASE DockerStep
  <2>1. CASE Pull \/ CreateContainer
    BY <1>1, <2>1 DEF Pull, CreateContainer, Go
  <2>2. CASE Start
    BY <1>1, <2>2 DEF Start, Go
  <2>3. CASE Logs
    BY <1>1, <2>3 DEF Logs, Go
  <2>4. CASE Wait
    BY <1>1, <2>4 DEF Wait, Go
  <2>5. CASE CloseLogs
    BY <1>1, <2>5 DEF CloseLogs, Go
  <2>6. QED
    BY <1>2, <2>1, <2>2, <2>3, <2>4, <2>5 DEF DockerStep
<1>3. CASE ClusterStep
  BY <1>1, <1>3 DEF ClusterStep, CreateJob, NameIsTaken, PodRuns, PodFails, LogsEnd,
              GetPodExitCode, Go, CallFails
<1>4. CASE ProcessStep
  BY <1>1, <1>4 DEF ProcessStep, Gate, Refuse, WriteScript, Launch, Reap, Go, CallFails
<1>5. CASE SharedStep
  BY <1>1, <1>5 DEF SharedStep, HandleJob, CreateFails, Join, Remove, Go, CallFails
<1>6. CASE HandOver
  BY <1>6 DEF HandOver, CloseChannel, AwaitDrain, ReportVerdict, Reported, Move
<1>7. CASE Outside
  <2>1. CASE PodStarts
    BY <2>1 DEF PodStarts
  <2>2. CASE ScriptWrites
    BY <1>1, <2>2 DEF ScriptWrites
  <2>3. CASE ScriptEnds
    BY <2>3 DEF ScriptEnds
  <2>4. CASE OrphanEnds \/ Stop \/ Expire \/ Kill
    BY <2>4 DEF OrphanEnds, Stop, Expire, Kill
  <2>5. QED
    BY <1>7, <2>1, <2>2, <2>3, <2>4 DEF Outside, Script
<1>8. CASE StreamStep
  <2>1. CASE ReadChunk
    BY <1>1, <2>1 DEF ReadChunk, Stream
  <2>2. CASE SendChunk
    BY <1>1, <2>2 DEF SendChunk, Stream, LogsClosed
  <2>3. CASE EndOfOutput
    BY <1>1, <2>3 DEF EndOfOutput, Stream
  <2>4. CASE StreamBreaks
    BY <1>1, <2>4 DEF StreamBreaks, Stream
  <2>5. QED
    BY <1>8, <2>1, <2>2, <2>3, <2>4 DEF StreamStep
<1>9. CASE DrainStep
  BY <1>9 DEF DrainStep, TakeChunk, Posted, Drained
<1>10. CASE Network \/ UNCHANGED vars
  BY <1>10 DEF Network, vars
<1>11. QED
  BY <1>2, <1>3, <1>4, <1>5, <1>6, <1>7, <1>8, <1>9, <1>10, Groups

LEMMA OutcomeKept ==
    ASSUME TypeOK, KindInv, BoxInv, StreamInv, OutcomeInv, [Next]_vars
    PROVE  OutcomeInv'
<1>1. /\ kind \in {"docker", "kubernetes", "local"}
      /\ code \in {"none", "zero", "other"} /\ outcome \in Verdicts \cup {"none"}
  BY ExecutionAssumption DEF TypeOK
<1>2. ExitStatus \in {"ok", "bad"} /\ CtxErr \in {"cancelled", "failed"}
      /\ (ExitStatus = "ok" => code = "zero")
  BY DEF ExitStatus, CtxErr
<1> USE DEF KindInv, OutcomeInv, Early, Unboxed, Verdicts, jobVars, outVars, history
<1>3. CASE DockerStep
  BY <1>1, <1>2, <1>3 DEF DockerStep, Pull, CreateContainer, Start, Logs, Wait, CloseLogs,
                          Go, CallFails, StreamInv
<1>4. CASE ClusterStep
  BY <1>1, <1>2, <1>4 DEF ClusterStep, CreateJob, NameIsTaken, PodRuns, PodFails, LogsEnd,
              GetPodExitCode, Go, CallFails, StreamInv
<1>5. CASE ProcessStep
  BY <1>1, <1>2, <1>5 DEF ProcessStep, Gate, Refuse, WriteScript, Launch, Reap, Go,
                          CallFails, StreamInv
<1>6. CASE SharedStep
  BY <1>1, <1>2, <1>6 DEF SharedStep, HandleJob, CreateFails, Join, Remove, Go, CallFails
<1>7. CASE HandOver
  BY <1>7 DEF HandOver, CloseChannel, AwaitDrain, ReportVerdict, Reported, Move
<1>8. CASE Outside
  BY <1>8 DEF Outside, Script, PodStarts, ScriptWrites, ScriptEnds, OrphanEnds, Stop,
              Expire, Kill
<1>9. CASE StreamStep
  BY <1>9 DEF StreamStep, ReadChunk, SendChunk, EndOfOutput, StreamBreaks, Stream
<1>10. CASE DrainStep \/ Network \/ UNCHANGED vars
  BY <1>10 DEF DrainStep, TakeChunk, Posted, Drained, Network, vars
<1>11. QED
  BY <1>3, <1>4, <1>5, <1>6, <1>7, <1>8, <1>9, <1>10, Groups
\* Execute runs, or begins, while the channel is open.
LEMMA ChannelIsOpen ==
    ASSUME TypeOK, DockerStep \/ ClusterStep \/ ProcessStep \/ SharedStep
    PROVE  /\ ~Closed /\ ~Closed' /\ at' # "off"
           /\ UNCHANGED <<taken, call, late, inbox, givenUp>>
           /\ drain' = drain \/ (at = "off" /\ drain' = "recv")
<1> USE DEF Closed, outVars, history, callVars
<1>1. CASE DockerStep
  BY <1>1 DEF DockerStep, Pull, CreateContainer, Start, Logs, Wait, CloseLogs, Go
<1>2. CASE ClusterStep
  BY <1>2 DEF ClusterStep, CreateJob, NameIsTaken, PodRuns, PodFails, LogsEnd,
              GetPodExitCode, Go
<1>3. CASE ProcessStep
  BY <1>3 DEF ProcessStep, Gate, Refuse, WriteScript, Launch, Reap, Go
<1>4. CASE SharedStep
  <2>1. kind \in {"docker", "kubernetes", "local"}
    BY ExecutionAssumption DEF TypeOK
  <2>2. QED
    BY <1>4, <2>1 DEF SharedStep, HandleJob, CreateFails, Join, Remove, Go
<1>5. QED
  BY <1>1, <1>2, <1>3, <1>4

\* Once the channel is closed nothing is put into it.
LEMMA DrainKept ==
    ASSUME TypeOK, JobInv, [Next]_vars
    PROVE  DrainInv'
<1> USE DEF JobInv, DrainInv, Closed
<1>1. call \in [phase : Phases, attempt : 0..MaxAttempts - 1, body : Messages]
      /\ taken \in Nat /\ sent \in Nat /\ SleepersRetry'
  BY ClientTyped, ExecutionAssumption DEF TypeOK, RetryTypeOK
<1>2. CASE DockerStep \/ ClusterStep \/ ProcessStep \/ SharedStep
  BY <1>1, <1>2, ChannelIsOpen DEF SleepersRetry
<1>3. CASE HandOver
  <2>1. CASE CloseChannel
    BY <2>1 DEF CloseChannel, Move, outVars, callVars
  <2>2. CASE AwaitDrain
    BY <2>2 DEF AwaitDrain, Move, outVars, callVars
  <2>3. CASE ReportVerdict
    BY <2>3 DEF ReportVerdict, Move, outVars, Begin, Verdict
  <2>4. CASE Reported
    BY <2>4 DEF Reported, Move, outVars, End, NoCall
  <2>5. QED
    BY <1>3, <2>1, <2>2, <2>3, <2>4 DEF HandOver
<1>4. CASE Outside
  <2>1. UNCHANGED <<at, outcome, drain, taken, sent, torn, call>>
    BY <1>4 DEF Outside, Script, PodStarts, ScriptWrites, ScriptEnds, OrphanEnds, Stop,
                Expire, Kill, outVars, callVars, jobVars
  <2>2. QED
    BY <2>1 DEF Verdict
<1>5. CASE StreamStep
  <2>1. UNCHANGED <<at, outcome, drain, taken, call>> /\ (Closed => UNCHANGED <<torn, sent>>)
    BY <1>1, <1>5, Tearing DEF StreamStep, ReadChunk, SendChunk, EndOfOutput, StreamBreaks,
             Stream, jobVars, StreamInv, Leaving, Closed
  <2>2. QED
    BY <1>1, <2>1 DEF Verdict, SleepersRetry
<1>6. CASE DrainStep
  <2>1. CASE TakeChunk
    BY <1>1, <2>1 DEF TakeChunk, Begin, jobVars
  <2>2. CASE Posted
    BY <2>2 DEF Posted, End, NoCall, jobVars
  <2>3. CASE Drained
    BY <2>3 DEF Drained, callVars, jobVars
  <2>4. QED
    BY <1>6, <2>1, <2>2, <2>3 DEF DrainStep
<1>7. CASE Network
  <2>0. SleepersRetry
    BY DEF SleepersRetry
  <2>1. call'.body = call.body /\ (call.phase = "idle" <=> call'.phase = "idle")
    BY <1>7, <2>0, CallMoves DEF Network, Arrives, TypeOK
  <2>2. QED
    BY <1>7, <2>1, <1>1 DEF Network, jobVars, outVars, Verdict, SleepersRetry
<1>8. CASE UNCHANGED vars
  BY <1>8 DEF vars, jobVars, outVars, callVars, Verdict
<1>9. QED
  BY <1>2, <1>3, <1>4, <1>5, <1>6, <1>7, <1>8, Groups
LEMMA JobInvHolds == Spec => [](TypeOK /\ JobInv)
<1>1. Init => TypeOK /\ JobInv
  <2>1. ASSUME Init PROVE RetryTypeOK
    <3>1. <<>> \in Seq(Messages) /\ 0 \in 0..MaxFaults
      BY RetryAssumption
    <3>2. QED
      BY <2>1, <3>1, NoCallTyped DEF Init, RetryInit, RetryTypeOK
  <2>2. ASSUME Init PROVE TypeOK
    <3>1. /\ written \in 0..Chunks /\ sent \in 0..written /\ taken \in 0..sent
          /\ sent - taken <= Capacity
      BY <2>2, ExecutionAssumption DEF Init
    <3>2. /\ kind \in Kinds /\ foreign \in {"none", "there", "gone"} /\ at \in Stations
          /\ givenUp \subseteq 1..Chunks /\ {cut, leaked} \subseteq BOOLEAN
      BY <2>2 DEF Init, Stations
    <3>3. QED
      BY <2>1, <2>2, <3>1, <3>2 DEF Init, TypeOK
  <2>3. ASSUME Init PROVE JobInv
    BY <2>3, ExecutionAssumption
       DEF Init, RetryInit, NoCall, JobInv, KindInv, BoxInv, StreamInv, OutcomeInv, DrainInv,
           TornInv, Early, Unboxed, Leaving
  <2>4. QED
    BY <2>2, <2>3
<1>2. TypeOK /\ JobInv /\ [Next]_vars => (TypeOK /\ JobInv)'
  BY TypesKept, KindKept, BoxKept, StreamKept, OutcomeKept, DrainKept, Tearing DEF JobInv, TornInv
<1>3. QED
  BY <1>1, <1>2, PTL DEF Spec

\* Every field has its type; in particular outputChan never holds more than its
\* capacity, and no call is attempted more often than RetryConfig says.
THEOREM ExecutionTypeOK == Spec => []TypeOK
BY JobInvHolds, PTL

\* When outputChan is closed nobody will send on it, the box is removed or has
\* ended, or a call to make or remove it failed, and no job of somebody else's
\* was deleted: for every executor and every way of Execute to its return.
THEOREM NothingIsLeft == Spec => []NothingOutlivesExecute
<1>1. JobInv => NothingOutlivesExecute
  BY DEF JobInv, BoxInv, StreamInv, Leaving, NothingOutlivesExecute, Closed
<1>2. QED
  BY <1>1, JobInvHolds, PTL
-----------------------------------------------------------------------------
(* What the platform hears *)

\* Only four steps and those of the client have to do with its call.
LEMMA Mail ==
    ASSUME TypeOK, JobInv, [Next]_vars
    PROVE  /\ Network \/ UNCHANGED inbox
           /\ UNCHANGED <<call, late>>
              \/ TakeChunk \/ Posted \/ ReportVerdict \/ Reported \/ Network
<1>1. CASE Quiet
  BY <1>1, QuietStep
<1>2. CASE Refuse \/ ScriptWrites \/ SendChunk \/ UNCHANGED vars
  BY <1>2 DEF Refuse, ScriptWrites, SendChunk, Stream, vars, callVars
<1>3. CASE TakeChunk \/ Posted \/ ReportVerdict \/ Reported
  BY <1>3 DEF TakeChunk, Posted, ReportVerdict, Reported, Begin, End
<1>4. QED
  BY <1>1, <1>2, <1>3, Steps

\* The goroutine that posts takes a chunk and keeps it until it is posted.
LEMMA Posting ==
    ASSUME TypeOK, JobInv, [Next]_vars
    PROVE  /\ taken' = taken \/ TakeChunk
           /\ givenUp \subseteq givenUp'
           /\ drain = "post" => Posted \/ UNCHANGED <<drain, taken>>
<1> USE DEF jobVars, outVars, history, callVars
<1>1. CASE DockerStep \/ ClusterStep \/ ProcessStep \/ SharedStep
  BY <1>1, ChannelIsOpen DEF JobInv, DrainInv
<1>2. CASE HandOver
  BY <1>2 DEF HandOver, CloseChannel, AwaitDrain, ReportVerdict, Reported, Move
<1>3. CASE Outside
  BY <1>3 DEF Outside, Script, PodStarts, ScriptWrites, ScriptEnds, OrphanEnds, Stop,
              Expire, Kill
<1>4. CASE StreamStep
  BY <1>4 DEF StreamStep, ReadChunk, SendChunk, EndOfOutput, StreamBreaks, Stream
<1>5. CASE DrainStep
  BY <1>5 DEF DrainStep, TakeChunk, Posted, Drained
<1>6. CASE Network \/ UNCHANGED vars
  BY <1>6 DEF Network, vars
<1>7. QED
  BY <1>1, <1>2, <1>3, <1>4, <1>5, <1>6, Groups

\* When the verdict is on its way nothing of what it says changes any more.
LEMMA VerdictStands ==
    ASSUME TypeOK, JobInv, [Next]_vars, at \in {"report", "over"}
    PROVE  at' \in {"report", "over"} /\ UNCHANGED <<taken, outcome, torn>>
<1>1. drain = "done" /\ Closed
  BY DEF JobInv, DrainInv, Closed
<1>2. taken' = taken
  BY <1>1, Posting DEF TakeChunk
<1>3. at' \in {"report", "over"} /\ outcome' = outcome
  <2>1. CASE HandOver
    BY <2>1 DEF HandOver, CloseChannel, AwaitDrain, ReportVerdict, Reported, Move
  <2>2. CASE Outside
    BY <2>2 DEF Outside, Script, PodStarts, ScriptWrites, ScriptEnds, OrphanEnds, Stop,
                Expire, Kill, jobVars
  <2>3. CASE StreamStep \/ DrainStep \/ Network \/ UNCHANGED vars
    BY <2>3, JobRests DEF jobVars
  <2>4. QED
    BY <1>1, <2>1, <2>2, <2>3, Groups, ChannelIsOpen
<1>4. torn' = torn
  BY Tearing DEF SendChunk, Stream, JobInv, StreamInv, Leaving
<1>5. QED
  BY <1>2, <1>3, <1>4

\* Where what is new in the inbox and in the client comes from.
LEMMA NewMail ==
    ASSUME TypeOK, JobInv, [Next]_vars
    PROVE  /\ inbox' = inbox \/ \E m \in Pending : inbox' = Append(inbox, m)
           /\ \A m \in Pending' :
                \/ m \in Pending
                \/ TakeChunk /\ m = Chunk(taken')
                \/ ReportVerdict /\ m = Verdict
<1>1. RetryTypeOK /\ SleepersRetry
  BY DEF TypeOK, JobInv, DrainInv, SleepersRetry
<1>2. CASE UNCHANGED <<call, late, inbox>>
  BY <1>2 DEF Pending
<1>3. CASE TakeChunk \/ ReportVerdict
  BY <1>3 DEF TakeChunk, ReportVerdict, Begin, Pending
<1>4. CASE Posted \/ Reported
  BY <1>4 DEF Posted, Reported, End, NoCall, Pending
<1>5. CASE Network
  <2>1. CASE Proceed
    <3>1. call.body \in Pending
      BY <1>1, <2>1, CallMoves DEF Pending
    <3>2. \A l \in late' : l \in late \/ l[1] = call.body
      BY <1>1, <2>1, MailMoves
    <3>3. Pending' \subseteq Pending \cup {call.body}
      BY <1>1, <2>1, <3>2, CallMoves DEF Pending
    <3>4. QED
      BY <1>1, <2>1, <3>1, <3>3, MailMoves
  <2>2. CASE Arrives
    BY <2>2 DEF Arrives, Pending
  <2>3. QED
    BY <1>5, <2>1, <2>2 DEF Network
<1>6. QED
  BY <1>2, <1>3, <1>4, <1>5, Mail
LEMMA KnownKept ==
    ASSUME TypeOK, JobInv, [Next]_vars, NEW m, Known(m)
    PROVE  Known(m)'
<1>1. taken \in Nat /\ taken' \in Nat /\ taken <= taken'
  BY Posting, TypesKept, ExecutionAssumption DEF TypeOK, TakeChunk
<1>2. CASE \E k \in 1..taken : m = Chunk(k)
  BY <1>1, <1>2 DEF Known, Chunk
<1>3. CASE m = Verdict /\ at \in {"report", "over"}
  BY <1>3, VerdictStands DEF Known, Verdict
<1>4. QED
  BY <1>2, <1>3 DEF Known

LEMMA InboxTyped ==
    ASSUME TypeOK, NEW m, m \in Pending
    PROVE  /\ m \in Messages /\ inbox \in Seq(Messages)
BY DEF TypeOK, RetryTypeOK, Pending

LEMMA MessagesKept ==
    ASSUME TypeOK, JobInv, MessageInv, [Next]_vars
    PROVE  MessageInv'
<1>1. ASSUME NEW m \in Pending' PROVE Known(m)'
  <2>1. CASE m \in Pending
    BY <2>1, KnownKept DEF MessageInv
  <2>2. CASE TakeChunk /\ m = Chunk(taken')
    <3>1. taken' \in 1..taken'
      BY <2>2, ExecutionAssumption DEF TakeChunk, TypeOK
    <3>2. QED
      BY <2>2, <3>1 DEF Known, Chunk
  <2>3. CASE ReportVerdict /\ m = Verdict
    BY <2>3 DEF ReportVerdict, Move, outVars, Known, Verdict
  <2>4. QED
    BY <1>1, <2>1, <2>2, <2>3, NewMail
<1>2. ASSUME NEW i \in 1..Len(inbox'), NEW m, m = inbox'[i]
      PROVE  Known(m)'
  <2>1. \A h \in 1..Len(inbox) : m = inbox[h] => Known(m)
    BY DEF MessageInv, Known
  <2>2. CASE inbox' = inbox
    BY <1>2, <2>1, <2>2, KnownKept
  <2>3. CASE \E new \in Pending : inbox' = Append(inbox, new)
    <3>1. PICK new \in Pending : inbox' = Append(inbox, new)
      BY <2>3
    <3>2. (\E h \in 1..Len(inbox) : m = inbox[h]) \/ m = new
      BY <1>2, <3>1, InboxTyped
    <3>3. Known(m)
      BY <2>1, <3>2 DEF MessageInv
    <3>4. QED
      BY <3>3, KnownKept
  <2>4. QED
    BY <2>2, <2>3, NewMail
<1>3. (\A i \in 1..Len(inbox) : Known(inbox[i]))'
  BY <1>2 DEF Known
<1>4. QED
  BY <1>1, <1>3 DEF MessageInv

LEMMA BeforeKept ==
    ASSUME TypeOK, JobInv, [Next]_vars, NEW m, Known(m)
    PROVE  Before(m)' = Before(m)
<1>1. CASE m.what = "output"
  BY <1>1 DEF Before
<1>2. CASE m.what # "output"
  <2>1. at \in {"report", "over"}
    BY <1>2 DEF Known, Chunk
  <2>2. QED
    BY <1>2, <2>1, VerdictStands DEF Before
<1>3. QED
  BY <1>1, <1>2

LEMMA HeardKept ==
    ASSUME TypeOK, JobInv, [Next]_vars, NEW k, Heard(k)
    PROVE  Heard(k)'
<1>1. CASE k \in givenUp
  BY <1>1, Posting DEF Heard
<1>2. CASE \E h \in 1..Len(inbox) : inbox[h] = Chunk(k)
  <2>1. CASE inbox' = inbox
    BY <1>2, <2>1 DEF Heard, Chunk
  <2>2. CASE \E m \in Pending : inbox' = Append(inbox, m)
    <3>1. PICK m \in Pending : inbox' = Append(inbox, m)
      BY <2>2
    <3>2. \A h \in 1..Len(inbox) : h \in 1..Len(inbox') /\ inbox'[h] = inbox[h]
      BY <3>1, InboxTyped
    <3>3. QED
      BY <1>2, <3>2 DEF Heard, Chunk
  <2>3. QED
    BY <2>1, <2>2, NewMail
<1>3. QED
  BY <1>1, <1>2 DEF Heard
LEMMA PendingInOrder ==
    ASSUME TypeOK, JobInv, MessageInv, OrderInv, [Next]_vars,
           NEW m \in Pending', NEW k \in Before(m)'
    PROVE  Heard(k)'
<1>1. CASE m \in Pending
  <2>1. Known(m)
    BY <1>1 DEF MessageInv
  <2>2. k \in Before(m)
    BY <2>1, BeforeKept
  <2>3. QED
    BY <1>1, <2>2, HeardKept DEF OrderInv
<1>2. CASE TakeChunk /\ m = Chunk(taken')
  <2>1. k \in 1..taken
    BY <1>2, ExecutionAssumption DEF Before, Chunk, TakeChunk, TypeOK
  <2>2. Heard(k)
    BY <1>2, <2>1 DEF OrderInv, TakeChunk
  <2>3. QED
    BY <2>2, HeardKept
<1>3. CASE ReportVerdict /\ m = Verdict
  <2>1. drain = "done" /\ outcome # "output" /\ taken' = taken
    BY <1>3 DEF ReportVerdict, Move, outVars, JobInv, DrainInv, TypeOK, Verdicts
  <2>2. k \in 1..taken
    BY <1>3, <2>1 DEF Before, Verdict
  <2>3. Heard(k)
    BY <2>1, <2>2 DEF OrderInv
  <2>4. QED
    BY <2>3, HeardKept
<1>4. QED
  BY <1>1, <1>2, <1>3, NewMail

LEMMA InboxInOrder ==
    ASSUME TypeOK, JobInv, MessageInv, OrderInv, [Next]_vars,
           NEW i \in 1..Len(inbox'), NEW m, m = inbox'[i], NEW k \in Before(m)'
    PROVE  k \in givenUp' \/ \E h \in 1..i - 1 : inbox'[h] = Chunk(k)
<1>1. givenUp \subseteq givenUp'
  BY Posting
<1>2. ASSUME i \in 1..Len(inbox), inbox[i] = m
      PROVE  k \in givenUp \/ \E h \in 1..i - 1 : inbox[h] = Chunk(k)
  <2>1. Known(m)
    BY <1>2 DEF MessageInv, Known
  <2>2. k \in Before(m)
    BY <2>1, BeforeKept
  <2>3. QED
    BY <1>2, <2>2 DEF OrderInv, OutputInOrder, Before
<1>3. CASE inbox' = inbox
  BY <1>1, <1>2, <1>3
<1>4. CASE \E new \in Pending : inbox' = Append(inbox, new)
  <2>1. PICK new \in Pending : inbox' = Append(inbox, new)
    BY <1>4
  <2>2. \A h \in 1..Len(inbox) : inbox'[h] = inbox[h]
    BY <2>1, InboxTyped
  <2>3. CASE i \in 1..Len(inbox)
    <3>1. inbox[i] = m
      BY <2>2, <2>3
    <3>2. k \in givenUp \/ \E h \in 1..i - 1 : inbox[h] = Chunk(k)
      BY <1>2, <2>3, <3>1
    <3>3. \A h \in 1..i - 1 : h \in 1..Len(inbox)
      BY <2>3
    <3>4. QED
      BY <1>1, <2>2, <3>2, <3>3
  <2>4. CASE i \notin 1..Len(inbox)
    <3>1. i = Len(inbox) + 1 /\ m = new
      BY <2>1, <2>4, InboxTyped
    <3>2. Known(m)
      BY <3>1 DEF MessageInv
    <3>3. Heard(k)
      BY <3>1, <3>2, BeforeKept DEF OrderInv
    <3>4. i - 1 = Len(inbox)
      BY <3>1, InboxTyped
    <3>5. QED
      BY <1>1, <2>2, <3>3, <3>4 DEF Heard
  <2>5. QED
    BY <2>3, <2>4
<1>5. QED
  BY <1>3, <1>4, NewMail

\* Posted records a chunk that was given up; every other chunk has arrived.
LEMMA TakenAreHeard ==
    ASSUME TypeOK, JobInv, OrderInv, [Next]_vars, NEW k \in 1..taken'
    PROVE  Heard(k)' \/ (drain = "post" /\ k = taken)'
<1>1. CASE k \in 1..taken /\ Heard(k)
  BY <1>1, HeardKept
<1>2. CASE k \in 1..taken /\ drain = "post" /\ k = taken
  <2>1. CASE Posted
    <3>1. call.body = Chunk(k) /\ call.phase \in {"ok", "error"}
      BY <1>2, <2>1 DEF Posted, End, JobInv, DrainInv
    <3>2. CASE call.phase = "ok"
      <4>1. Heard(k)
        BY <3>1, <3>2 DEF OrderInv, Heard
      <4>2. QED
        BY <4>1, HeardKept
    <3>3. CASE call.phase # "ok"
      BY <1>2, <2>1, <3>3 DEF Posted, Heard
    <3>4. QED
      BY <3>2, <3>3
  <2>2. CASE UNCHANGED <<drain, taken>>
    BY <1>2, <2>2
  <2>3. QED
    BY <1>2, <2>1, <2>2, Posting
<1>3. CASE k \notin 1..taken
  <2>1. TakeChunk
    BY <1>3, Posting
  <2>2. QED
    BY <1>3, <2>1, ExecutionAssumption DEF TakeChunk, TypeOK
<1>4. QED
  BY <1>1, <1>2, <1>3 DEF OrderInv

LEMMA AnsweredArrived ==
    ASSUME TypeOK, JobInv, OrderInv, [Next]_vars, call'.phase = "ok"
    PROVE  \E h \in 1..Len(inbox') : inbox'[h] = call'.body
<1>1. CASE UNCHANGED <<call, late>> /\ UNCHANGED inbox
  BY <1>1 DEF OrderInv
<1>2. CASE TakeChunk \/ ReportVerdict
  BY <1>2 DEF TakeChunk, ReportVerdict, Begin
<1>3. CASE Posted \/ Reported
  BY <1>3 DEF Posted, Reported, End, NoCall
<1>4. CASE Network
  <2>1. RetryTypeOK /\ SleepersRetry
    BY DEF TypeOK, JobInv, DrainInv, SleepersRetry
  <2>2. inbox \in Seq(Messages)
    BY <2>1 DEF RetryTypeOK
  <2>3. CASE Proceed
    <3>1. inbox' = Append(inbox, call.body) /\ call'.body = call.body
      BY <2>1, <2>3, CallMoves, MailMoves
    <3>2. Len(inbox) + 1 \in 1..Len(inbox') /\ inbox'[Len(inbox) + 1] = call.body
      BY <2>2, <3>1
    <3>3. QED
      BY <3>1, <3>2
  <2>4. CASE Arrives
    <3>1. PICK l \in late : inbox' = Append(inbox, l[1]) /\ call' = call
      BY <2>4 DEF Arrives
    <3>2. PICK h \in 1..Len(inbox) : inbox[h] = call.body
      BY <3>1 DEF OrderInv
    <3>3. h \in 1..Len(inbox') /\ inbox'[h] = inbox[h]
      BY <2>2, <3>1
    <3>4. QED
      BY <3>1, <3>2, <3>3
  <2>5. QED
    BY <1>4, <2>3, <2>4 DEF Network
<1>5. QED
  BY <1>1, <1>2, <1>3, <1>4, Mail

LEMMA OrderKept ==
    ASSUME TypeOK, JobInv, MessageInv, OrderInv, [Next]_vars
    PROVE  OrderInv'
<1>1. OutputInOrder'
  BY InboxInOrder DEF OutputInOrder, Before, Chunk
<1>2. (\A m \in Pending : \A k \in Before(m) : Heard(k))'
  BY PendingInOrder
<1>3. (\A k \in 1..taken : Heard(k) \/ (drain = "post" /\ k = taken))'
  BY TakenAreHeard
<1>4. QED
  BY <1>1, <1>2, <1>3, AnsweredArrived DEF OrderInv

LEMMA MailInvHolds == Spec => [](TypeOK /\ JobInv /\ MessageInv /\ OrderInv)
<1>1. Init => MessageInv /\ OrderInv
  BY DEF Init, RetryInit, NoCall, MessageInv, OrderInv, OutputInOrder, Pending
<1>2. TypeOK /\ JobInv /\ MessageInv /\ OrderInv /\ [Next]_vars => (MessageInv /\ OrderInv)'
  BY MessagesKept, OrderKept
<1>3. QED
  BY <1>1, <1>2, JobInvHolds, PTL DEF Spec

\* Whatever gets lost, arrives twice or arrives late: the platform hears a chunk,
\* or the verdict, only after every earlier chunk was heard or given up.
THEOREM InOrder == Spec => []OutputInOrder
<1>1. OrderInv => OutputInOrder
  BY DEF OrderInv
<1>2. QED
  BY <1>1, MailInvHolds, PTL

\* "Complete with 0" that has reached the platform is true: the script came to
\* its end, returned 0, and every chunk of its output went out, unless its log
\* was cut; only docker.go may have spoiled what is inside a chunk.
THEOREM SuccessIsTrue == Spec => []SuccessIsReal
<1>1. TypeOK /\ JobInv /\ MessageInv => SuccessIsReal
  <2>1. SUFFICES ASSUME TypeOK, JobInv, MessageInv,
                        NEW i \in 1..Len(inbox), inbox[i].what = "ok"
                 PROVE  /\ code = "zero" /\ (inbox[i].n = written \/ cut)
                        /\ inbox[i].whole \/ kind = "docker"
    BY DEF SuccessIsReal
  <2>2. inbox[i] = Verdict /\ at \in {"report", "over"}
    <3>1. Known(inbox[i])
      BY <2>1 DEF MessageInv
    <3>2. \A k : Chunk(k).what # inbox[i].what
      BY <2>1 DEF Chunk
    <3>3. QED
      BY <3>1, <3>2 DEF Known
  <2>3. outcome = "ok" /\ inbox[i].n = taken /\ inbox[i].whole = ~torn
    BY <2>1, <2>2 DEF Verdict
  <2>4. code = "zero" /\ stream # "none"
    BY <2>1, <2>3 DEF JobInv, OutcomeInv
  <2>5. taken = sent
    BY <2>1, <2>2 DEF JobInv, DrainInv
  <2>6. stream = "done"
    BY <2>1, <2>2, <2>4 DEF JobInv, StreamInv, Leaving
  <2>7. cut \/ sent = written
    BY <2>1, <2>6 DEF JobInv, StreamInv
  <2>8. inbox[i].whole \/ kind = "docker"
    BY <2>1, <2>3 DEF JobInv, TornInv, TypeOK
  <2>9. QED
    BY <2>3, <2>4, <2>5, <2>7, <2>8
<1>2. QED
  BY <1>1, MailInvHolds, PTL
=============================================================================
