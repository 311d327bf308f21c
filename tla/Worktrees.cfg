\* Two slots, two tool jobs and a script in one repository, one kill of the
\* process: first clones that overlap, tools that share the root, git commands
\* cut short, worktrees left behind, a branch that comes after the clone.
CONSTANTS
    r1 = r1
    r2 = r2
    r3 = r3
    r4 = r4
    repo = repo
    Runs = {r1, r2, r4}
    Repos = {repo}
    RepoOf <- OneOutside
    RefSince <- OneLate
    ToolRuns = {r1, r2}
    Slots = 2
    MaxCommits = 1
    MaxCrashes = 1
    NoRepo = NoRepo
    NoRun = NoRun
    NoTree = NoTree
SPECIFICATION Spec
INVARIANTS TypeOK RootIsAlive StaleTreeIsNoObstacle LoneSetupSucceeds
