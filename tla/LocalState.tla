----------------------------- MODULE LocalState -----------------------------
(***************************************************************************)
(* A desktop runner and its machine: Local (registration and settings)     *)
(* and Library (the scripts) composed.  The workers of the library are     *)
(* goroutines of a serving process: they start only there, go no further   *)
(* when it ends, and a reset may remove the file under their hands.        *)
(***************************************************************************)
EXTENDS Local

CONSTANTS
    Slots,       \* goroutines of a process that may touch the script
    MaxText,
    MaxLaunches, \* bound: launches by the operator
    MaxEvents    \* bound: set-ups, resets, deletions, settings windows, answers "Always
                 \* allow", and starts of the goroutines that touch the script

ASSUME LocalStateAssumption ==
    MaxText \in Nat /\ MaxLaunches \in Nat /\ MaxEvents \in Nat

VARIABLES
    script, behind, meta, server, newest, pushes, work, mishaps,   \* Library
    launches, events

Workers == Procs \X Slots

L == INSTANCE Library

libVars == <<script, behind, meta, server, newest, pushes, work, mishaps>>
vars    == <<localVars, libVars, launches, events>>

TypeOK ==
    /\ LocalTypeOK /\ L!LibraryTypeOK
    /\ launches \in 0..MaxLaunches /\ events \in 0..MaxEvents

Init == LocalInit /\ L!LibraryInit /\ launches = 0 /\ events = 0

WorkersOf(p) == {w \in Workers : w[1] = p}
Event        == events < MaxEvents /\ events' = events + 1 /\ UNCHANGED launches
Free         == UNCHANGED <<launches, events>>

LocalStep ==
    /\ \/ \E p \in Procs, shell \in BOOLEAN :
            /\ Launch(p, shell)
            /\ launches < MaxLaunches /\ launches' = launches + 1
            /\ UNCHANGED events
       \/ SetsUp /\ Event
       \/ \E p \in Procs : (ProcessStep(p) \/ OperatorDecides(p)) /\ Free
       \/ \E p \in Procs : OperatorActs(p) /\ Event
       \/ \E r \in Regs : AdminDeletes(r) /\ Event
    /\ UNCHANGED libVars

LibraryStep ==
    /\ \/ \E w \in Workers : Serving(w[1]) /\ L!WorkerStep(w) /\ Free
       \/ \E w \in Workers : Serving(w[1]) /\ L!WorkerStarts(w) /\ Event
       \/ \E push \in pushes : (L!PushArrives(push) \/ L!PushFails(push)) /\ Free
       \/ L!RemoteSave /\ Event
    /\ UNCHANGED localVars

\* Reset Runner with "Delete local script cache" ticked, or not.
ResetsScripts(p) ==
    /\ ResetScripts(p)
    /\ L!RemoveScripts \/ UNCHANGED libVars
    /\ Free

\* The goroutines end with their process.
ProcessEnds(p) ==
    /\ End(p)
    /\ L!Interrupt(WorkersOf(p), {push \in pushes : push[1] \in WorkersOf(p)})
    /\ Free

Next ==
    \/ LocalStep
    \/ LibraryStep
    \/ \E p \in Procs : ResetsScripts(p) \/ ProcessEnds(p)

Spec == Init /\ [][Next]_vars

LibraryIsCurrent == L!LibraryIsCurrent
=============================================================================
