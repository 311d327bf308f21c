\* Both loops and one goroutine.
CONSTANTS
    JobIds = {j1}
    Payload <- ToolPayloads
    Goroutines = {g1}
    MaxConcurrentJobs = 1
    NoJob = NoJob
    NoGoroutine = NoGoroutine
    MaxApiFailures = 1
SPECIFICATION LosingSpec
INVARIANTS ExitLeavesNothing
PROPERTIES ProcessEnds
