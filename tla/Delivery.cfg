\* Every executor, two chunks through a channel for one, three attempts, as
\* in the code, and three faults: a message may be given up, posted twice, or arrive after later ones.
CONSTANTS
    Kinds = {"docker", "kubernetes", "local"}
    Chunks = 2
    Capacity = 1
    Messages <- AllMessages
    MaxAttempts = 3
    BaseDelay = 4
    MaxDelay = 6
    MaxFaults = 3
SPECIFICATION FairSpec
INVARIANTS TypeOK OutputInOrder SuccessIsReal NothingOutlivesExecute
PROPERTIES EveryRunEnds
