\* Two goroutines compete for one slot for ever, under the fairness of Go's
\* scheduler and channels, until a shutdown.
CONSTANTS
    j1 = j1
    j2 = j2
    JobIds = {j1, j2}
    Payload <- QueuePayloads
    Goroutines = {g1, g2}
    MaxConcurrentJobs = 1
    NoJob = NoJob
    NoGoroutine = NoGoroutine
SPECIFICATION FairSpec
INVARIANTS TypeOK SlotBound OneVerdict RunReturnsLast
PROPERTIES ImplementsBoard EveryClaimEnds
