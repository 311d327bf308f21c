\* Two tool jobs at once, one of them in a repository.
CONSTANTS
    r1 = r1
    r2 = r2
    r3 = r3
    r4 = r4
    repo = repo
    Runs = {r1, r3}
    Repos = {repo}
    RepoOf <- OneOutside
    RefSince <- OnHead
    ToolRuns = {r1, r3}
    Slots = 2
    MaxCommits = 0
    MaxCrashes = 0
    NoRepo = NoRepo
    NoRun = NoRun
    NoTree = NoTree
SPECIFICATION Spec
INVARIANTS ToolsStayInOwnTree
