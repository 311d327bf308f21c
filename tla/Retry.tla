------------------------------- MODULE Retry -------------------------------
(***************************************************************************)
(* One request to the platform at a time: httputil.Do in                   *)
(* internal/httputil/retry.go, as doWithRetry and post of                  *)
(* internal/api/client.go call it, over a network that loses requests and  *)
(* answers and delays requests beyond the 30 s of the client.  A context   *)
(* that ends is left out: doWithRetry passes context.Background().         *)
(***************************************************************************)
EXTENDS Integers, Sequences

CONSTANTS
    Messages,      \* what the caller may send
    MaxAttempts,   \* RetryConfig, in ns: the code has 3, 500 ms and 5 s
    BaseDelay,
    MaxDelay,
    MaxFaults      \* bound: faults of the network and of the caller's services

\* rand.Int64N panics unless half the delay is positive.
ASSUME RetryAssumption ==
    /\ MaxAttempts \in Nat \ {0} /\ MaxFaults \in Nat
    /\ BaseDelay \in Nat \ {0, 1} /\ MaxDelay \in Nat \ {0, 1}

VARIABLES
    call,     \* the request under way, or what became of it
    late,     \* requests that the client gave up and that may still arrive
    inbox,    \* what the platform received, in this order
    faults    \* faults so far

callVars == <<call, late, inbox, faults>>

Phases == {"idle", "sent", "sleep", "ok", "error"}

RetryTypeOK ==
    /\ call \in [phase : Phases, attempt : 0..MaxAttempts - 1, body : Messages]
    /\ late \subseteq Messages \X (0..MaxAttempts - 1)
    /\ inbox \in Seq(Messages)
    /\ faults \in 0..MaxFaults

NoCall == [phase |-> "idle", attempt |-> 0, body |-> CHOOSE m \in Messages : TRUE]

RetryInit ==
    /\ call = NoCall
    /\ late = {} /\ inbox = <<>> /\ faults = 0

Fault == faults < MaxFaults /\ faults' = faults + 1

\* The delays that backoff may choose after the given attempt.
Backoff(attempt) ==
    LET grown == BaseDelay * 2 ^ attempt
        delay == IF grown > MaxDelay THEN MaxDelay ELSE grown
    IN  {delay \div 2 + jitter : jitter \in 0 .. delay \div 2 - 1}

To(phase) == call' = [call EXCEPT !.phase = phase]

\* The call of Do.
Begin(m) ==
    /\ call.phase = "idle"
    /\ call' = [phase |-> "sent", attempt |-> 0, body |-> m]
    /\ UNCHANGED <<late, inbox, faults>>

\* The caller has looked at the result.
End ==
    /\ call.phase \in {"ok", "error"}
    /\ call' = NoCall
    /\ UNCHANGED <<late, inbox, faults>>

\* After an error or a status that IsRetryable names; without a delay to choose
\* from, rand.Int64N panics and nothing follows.
Retry ==
    IF call.attempt < MaxAttempts - 1
    THEN Backoff(call.attempt) # {} /\ To("sleep")
    ELSE To("error")

\* The platform takes the request and says so.
Served ==
    /\ call.phase = "sent"
    /\ inbox' = Append(inbox, call.body)
    /\ To("ok")
    /\ UNCHANGED <<late, faults>>

\* A status from 400 on that is not retried.
Refused ==
    /\ call.phase = "sent" /\ Fault
    /\ To("error")
    /\ UNCHANGED <<late, inbox>>

\* 429, 502, 503, 504, or a request that got lost.
NotServed ==
    /\ call.phase = "sent" /\ Fault
    /\ Retry
    /\ UNCHANGED <<late, inbox>>

\* The platform took it, and the client does not hear of it.
AnswerLost ==
    /\ call.phase = "sent" /\ Fault
    /\ inbox' = Append(inbox, call.body)
    /\ Retry
    /\ UNCHANGED late

\* http.Client.Timeout passes with the request under way.
Overdue ==
    /\ call.phase = "sent" /\ Fault
    /\ late' = late \cup {<<call.body, call.attempt>>}
    /\ Retry
    /\ UNCHANGED inbox

Arrives ==
    \E l \in late :
        /\ late' = late \ {l}
        /\ inbox' = Append(inbox, l[1])
        /\ UNCHANGED <<call, faults>>

Wake ==
    /\ call.phase = "sleep"
    /\ call' = [call EXCEPT !.phase = "sent", !.attempt = @ + 1]
    /\ UNCHANGED <<late, inbox, faults>>

\* The request comes to an end, and the sleep between two attempts.
Proceed == Served \/ Refused \/ NotServed \/ AnswerLost \/ Overdue \/ Wake
=============================================================================
