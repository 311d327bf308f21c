\* Two jobs that overlap, start again and end while the connection comes and goes.
CONSTANTS
    Jobs = {j1, j2}
    NoJob = NoJob
    RecentLimit = 1
    MaxStarts = 2
    MaxOutages = 1
    MaxClicks = 1
    MaxQueue = 3
SYMMETRY Symmetry
SPECIFICATION Spec
INVARIANTS TypeOK SettledWindow LoneJobCanBeStopped
