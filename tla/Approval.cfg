\* Two jobs at once, with scripts that need a question or not; terminal or
\* display; one fault.
CONSTANTS
    j1 = j1
    j2 = j2
    plain = plain
    rm = rm
    Jobs = {j1, j2}
    evil = evil
    Scripts = {plain, rm, evil}
    Blocked = {evil}
    Destructive = {rm}
    Assignments <- SomeAssignments
    Modes <- AllModes
    Slots = 2
    MaxTyped = 1
    MaxFaults = 1
    Savers = {j1, j2}
    Entries <- AllEntries
    AtStart <- Starts
    ReadOnly = {}
SPECIFICATION FairSpec
INVARIANTS TypeOK RunsOnlyAllowed FirstAnswerCounts LoneSavePersists PendingIsResolved
PROPERTIES GateIsPassed
