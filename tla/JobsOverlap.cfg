\* Two jobs of every kind that run beside each other, handed out again and
\* stopped at any time.
CONSTANTS
    j1 = j1
    j2 = j2
    JobIds = {j1, j2}
    Payload <- AllPayloads
    Goroutines = {g1, g2}
    MaxConcurrentJobs = 2
    NoJob = NoJob
    NoGoroutine = NoGoroutine
SPECIFICATION Spec
SYMMETRY Symmetry
INVARIANTS NoDuplicateExecution CancelReachesItsJob WorktreeHeld 
