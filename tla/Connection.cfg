\* Both loops and every answer, at most two failures counted while unreachable.
CONSTANTS
    MaxApiFailures = 2
SPECIFICATION HistFairSpec
INVARIANTS ConnTypeOK LoserWaitsForLogout BadgeCatchesUp
PROPERTIES ThresholdsCountInARow DeletedRunnerStops QuitStopsBoth
