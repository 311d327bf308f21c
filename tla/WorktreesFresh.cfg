\* Two jobs one after the other, and a commit between them.
CONSTANTS
    r1 = r1
    r2 = r2
    r3 = r3
    r4 = r4
    repo = repo
    Runs = {r1, r2}
    Repos = {repo}
    RepoOf <- OneOutside
    RefSince <- OnHead
    ToolRuns = {r1, r2}
    Slots = 1
    MaxCommits = 1
    MaxCrashes = 0
    NoRepo = NoRepo
    NoRun = NoRun
    NoTree = NoTree
SPECIFICATION Spec
INVARIANTS CheckoutIsFresh
