----------------------------- MODULE Worktrees -----------------------------
(***************************************************************************)
(* Jobs that run inside a repository: EnsureWorktree and RemoveWorktree of *)
(* internal/runner/worktree.go, the one ToolHandler that all tool jobs     *)
(* share, and how resolvePath of internal/executor/tools.go uses its       *)
(* worktreeRoot.  A run is a job that has been given a slot; its id names  *)
(* its worktree, the repository names the bare clone all its runs share.   *)
(*                                                                         *)
(* git is external.  What its commands do to a clone made with --bare and  *)
(* no refspec was read off git itself: clone refuses a directory that      *)
(* exists, and removes its own when it fails; fetch moves FETCH_HEAD and   *)
(* no branch; worktree add makes a locked entry in the clone, then the     *)
(* directory, and then unlocks the entry; worktree remove refuses a locked *)
(* entry, and else deletes the directory and then the entry; prune deletes *)
(* the entries that are not locked and have no directory.                  *)
(***************************************************************************)
EXTENDS Naturals, FiniteSets

CONSTANTS
    Runs,        \* job ids
    Repos,       \* repository URLs
    RepoOf,      \* the repository of each run, or NoRepo
    RefSince,    \* the commit with which the branch GitRef of a run came
    ToolRuns,    \* the runs that are tool jobs; the others are scripts
    Slots,       \* capacity of the semaphore
    MaxCommits,  \* bound: commits pushed to a repository
    MaxCrashes,  \* bound: times the process is killed
    NoRepo, NoRun, NoTree

ASSUME WorktreesAssumption ==
    /\ NoRepo \notin Repos /\ RepoOf \in [Runs -> Repos \cup {NoRepo}]
    /\ RefSince \in [Runs -> Nat]
    /\ ToolRuns \subseteq Runs /\ NoRun \notin Runs
    /\ Slots \in Nat \ {0} /\ MaxCommits \in Nat /\ MaxCrashes \in Nat
    /\ NoTree \notin Nat

VARIABLES
    head,       \* the last commit on the remote
    clone,      \* the bare clone: see CloneStates
    cached,     \* the last commit in the bare clone
    tree,       \* the worktree directory of a run: the commit in it, or NoTree
    entry,      \* what the clone's list of worktrees says of it
    root,       \* toolHandler.worktreeRoot: the run whose worktree it is, or NoRun
    at,         \* where each run stands
    failure,    \* why the setup, or the tool, of a run failed
    base,       \* the directory a tool resolved its path to: a worktree or NoRun, the default
    crashes,
    \* history, which no action reads
    seen,       \* the commit the remote had when the run's clone or fetch succeeded
    met,        \* the runs of the same repository that were set up at the same time
    torn,       \* repositories whose clone was at work when the process was killed
    spoiled     \* runs whose worktree a kill left half made or half removed, or
                \* whose files could not be deleted

gitVars == <<clone, cached, tree, entry>>
history == <<seen, met, torn, spoiled>>
vars == <<head, gitVars, root, at, failure, base, crashes, history>>

\* git clone is at work or was killed; it outlived the process that called it.
CloneStates == {"absent", "partial", "orphan", "ready"}

Setup   == {"stat", "clone", "cloning", "fetch", "stale", "remove", "prune", "delete",
            "add", "adding"}
InTree  == {"enter", "resolve", "permit", "work", "exit"}
Leaving == {"clean", "sweep", "wipe"}
Busy    == Setup \cup InTree \cup Leaving

Failures == {"none", "network", "taken", "broken", "noref", "exists", "git", "denied"}

TypeOK ==
    /\ head \in [Repos -> 0..MaxCommits]
    /\ clone \in [Repos -> CloneStates]
    /\ cached \in [Repos -> 0..MaxCommits]
    /\ tree \in [Runs -> (0..MaxCommits) \cup {NoTree}]
    /\ entry \in [Runs -> {"none", "locked", "plain"}]
    /\ root \in Runs \cup {NoRun}
    /\ at \in [Runs -> Busy \cup {"new", "done"}]
    /\ failure \in [Runs -> Failures]
    /\ base \in [Runs -> Runs \cup {NoRun}]
    /\ crashes \in 0..MaxCrashes
    /\ seen \in [Runs -> 0..MaxCommits]
    /\ met \in [Runs -> SUBSET Runs]
    /\ torn \subseteq Repos /\ spoiled \subseteq Runs

Init ==
    /\ head = [p \in Repos |-> 0]
    /\ clone = [p \in Repos |-> "absent"]
    /\ cached = [p \in Repos |-> 0]
    /\ tree = [r \in Runs |-> NoTree]
    /\ entry = [r \in Runs |-> "none"]
    /\ root = NoRun
    /\ at = [r \in Runs |-> "new"]
    /\ failure = [r \in Runs |-> "none"]
    /\ base = [r \in Runs |-> NoRun]
    /\ crashes = 0
    /\ seen = [r \in Runs |-> 0]
    /\ met = [r \in Runs |-> {}]
    /\ torn = {} /\ spoiled = {}

Goto(r, p) == at' = [at EXCEPT ![r] = p]

Fail(r, why) == Goto(r, "done") /\ failure' = [failure EXCEPT ![r] = why]

\* Somebody pushes a commit, or a branch with it.
Push(p) ==
    /\ head[p] < MaxCommits
    /\ head' = [head EXCEPT ![p] = @ + 1]
    /\ UNCHANGED <<gitVars, root, at, failure, base, crashes, history>>

-----------------------------------------------------------------------------
(* EnsureWorktree: the clone *)

\* The runs that are being set up in the repository of r.
Neighbours(r) == {s \in Runs \ {r} : RepoOf[s] = RepoOf[r] /\ at[s] \in Setup}

\* handleJob or handleToolJob begins.  A job in no repository has no setup.
Begin(r) ==
    /\ at[r] = "new"
    /\ Cardinality({s \in Runs : at[s] \in Busy}) < Slots
    /\ Goto(r, IF RepoOf[r] # NoRepo THEN "stat"
               ELSE IF r \in ToolRuns THEN "resolve" ELSE "work")
    /\ met' = [s \in Runs |-> IF s = r THEN Neighbours(r)
                              ELSE IF s \in Neighbours(r) THEN met[s] \cup {r}
                              ELSE met[s]]
    /\ UNCHANGED <<head, gitVars, root, failure, base, crashes, seen, torn, spoiled>>

\* A step of EnsureWorktree that changes neither the disk nor the result.
Look(r, from, to) ==
    /\ at[r] = from
    /\ Goto(r, to)
    /\ UNCHANGED <<head, gitVars, root, failure, base, crashes, met, torn, spoiled>>

\* Mutant: a directory that is not there is taken for a clone.
StatNothing(r) == Look(r, "stat", "fetch") /\ UNCHANGED seen

\* os.Stat(cacheDir)
Stat(r) ==
    /\ Look(r, "stat", IF clone[RepoOf[r]] = "absent" THEN "clone" ELSE "fetch")
    /\ UNCHANGED seen

\* git clone --bare creates the directory and fills it, ...
CloneBegins(r) ==
    /\ at[r] = "clone"
    /\ clone[RepoOf[r]] = "absent"
    /\ clone' = [clone EXCEPT ![RepoOf[r]] = "partial"]
    /\ Goto(r, "cloning")
    /\ UNCHANGED <<head, cached, tree, entry, root, failure, base, crashes, history>>

\* ... unless another run was faster.
CloneRefuses(r) ==
    /\ at[r] = "clone"
    /\ clone[RepoOf[r]] # "absent"
    /\ Fail(r, "taken")
    /\ UNCHANGED <<head, gitVars, root, base, crashes, history>>

\* The clone has the branches that the remote has now, and gets no others.
Filled(p) ==
    /\ clone' = [clone EXCEPT ![p] = "ready"]
    /\ cached' = [cached EXCEPT ![p] = head[p]]

CloneEnds(r) ==
    /\ at[r] = "cloning"
    /\ Filled(RepoOf[r])
    /\ seen' = [seen EXCEPT ![r] = head[RepoOf[r]]]
    /\ Goto(r, "stale")
    /\ UNCHANGED <<head, tree, entry, root, failure, base, crashes, met, torn, spoiled>>

CloneFails(r) ==
    /\ at[r] = "cloning"
    /\ clone' = [clone EXCEPT ![RepoOf[r]] = "absent"]
    /\ Fail(r, "network")
    /\ UNCHANGED <<head, cached, tree, entry, root, base, crashes, history>>

\* git fetch --all --prune; it may fail, which is ignored.  A bare clone has
\* no fetch refspec, so its branches stay where they are in any case.
Fetch(r) ==
    /\ Look(r, "fetch", "stale")
    /\ \/ clone[RepoOf[r]] = "ready" /\ seen' = [seen EXCEPT ![r] = head[RepoOf[r]]]
       \/ UNCHANGED seen

-----------------------------------------------------------------------------
(* RemoveWorktree: three commands whose errors nobody looks at *)

\* git worktree remove --force: knows nothing of a directory that is not in the
\* list.  Files that cannot be deleted stay, but the entry goes.
GitRemove(r, from, to) ==
    /\ at[r] = from
    /\ Goto(r, to)
    /\ IF entry[r] = "plain"
       THEN /\ entry' = [entry EXCEPT ![r] = "none"]
            /\ tree' \in {tree, [tree EXCEPT ![r] = NoTree]}
       ELSE UNCHANGED <<entry, tree>>
    /\ UNCHANGED <<head, clone, cached, root, failure, base, crashes, history>>

\* git worktree prune, which looks at the worktrees of all runs.
GitPrune(r, from, to) ==
    /\ at[r] = from
    /\ Goto(r, to)
    /\ entry' = [s \in Runs |-> IF /\ RepoOf[s] = RepoOf[r]
                                   /\ entry[s] = "plain" /\ tree[s] = NoTree
                                THEN "none" ELSE entry[s]]
    /\ UNCHANGED <<head, clone, cached, tree, root, failure, base, crashes, history>>

\* os.RemoveAll
RemoveAll(r, from, to) ==
    /\ at[r] = from
    /\ Goto(r, to)
    /\ \/ tree' = [tree EXCEPT ![r] = NoTree] /\ UNCHANGED spoiled
       \/ tree[r] # NoTree /\ spoiled' = spoiled \cup {r} /\ UNCHANGED tree
    /\ UNCHANGED <<head, clone, cached, entry, root, failure, base, crashes, seen, met,
                   torn>>

\* Mutant: nobody looks for an earlier worktree.
StatNoTree(r) == Look(r, "stale", "add") /\ UNCHANGED seen

\* os.Stat(wtPath): a worktree left by an earlier attempt at the same job is
\* removed, if its directory is there.
StatTree(r) ==
    /\ Look(r, "stale", IF tree[r] = NoTree THEN "add" ELSE "remove")
    /\ UNCHANGED seen

RemoveStale(r) ==
    \/ GitRemove(r, "remove", "prune")
    \/ GitPrune(r, "prune", "delete")
    \/ RemoveAll(r, "delete", "add")

\* Deferred, once EnsureWorktree has succeeded.
CleanupWorktree(r) ==
    \/ GitRemove(r, "clean", "sweep")
    \/ GitPrune(r, "sweep", "wipe")
    \/ RemoveAll(r, "wipe", "done")

-----------------------------------------------------------------------------
(* EnsureWorktree: git worktree add --detach *)

\* What git looks at first.  The second try, with origin/<ref>, never finds more
\* than the first: a bare clone has no remote-tracking branches.
CloneIsReady(r) == clone[RepoOf[r]] = "ready"
HasRef(r)       == cached[RepoOf[r]] >= RefSince[r]
PathIsFree(r)   == tree[r] = NoTree /\ entry[r] = "none"

AddBegins(r) ==
    /\ at[r] = "add"
    /\ CloneIsReady(r) /\ HasRef(r) /\ PathIsFree(r)
    /\ entry' = [entry EXCEPT ![r] = "locked"]
    /\ Goto(r, "adding")
    /\ UNCHANGED <<head, clone, cached, tree, root, failure, base, crashes, history>>

AddEnds(r) ==
    /\ at[r] = "adding"
    /\ tree' = [tree EXCEPT ![r] = cached[RepoOf[r]]]
    /\ entry' = [entry EXCEPT ![r] = "plain"]
    /\ Goto(r, IF r \in ToolRuns THEN "enter" ELSE "work")
    /\ UNCHANGED <<head, clone, cached, root, failure, base, crashes, history>>

\* The disk is full, say; git takes back what it has made.
AddBreaks(r) ==
    /\ at[r] = "adding"
    /\ entry' = [entry EXCEPT ![r] = "none"]
    /\ Fail(r, "git")
    /\ UNCHANGED <<head, clone, cached, tree, root, base, crashes, history>>

AddFails(r) ==
    /\ at[r] = "add"
    /\ ~(CloneIsReady(r) /\ HasRef(r) /\ PathIsFree(r))
    /\ Fail(r, IF ~CloneIsReady(r) THEN "broken"
               ELSE IF ~HasRef(r) THEN "noref" ELSE "exists")
    /\ UNCHANGED <<head, gitVars, root, base, crashes, history>>

-----------------------------------------------------------------------------
(* handleToolJob and the shared ToolHandler *)

SetWorktreeRoot(r) ==
    /\ at[r] = "enter"
    /\ root' = r
    /\ Goto(r, "resolve")
    /\ UNCHANGED <<head, gitVars, failure, base, crashes, history>>

\* resolvePath joins a relative path to the root of the moment, or to the
\* working directory when there is none ...  glob_files and grep_files take
\* the root as it is when they are given no directory.
Resolve(r) ==
    /\ at[r] = "resolve"
    /\ base' = [base EXCEPT ![r] = root]
    /\ Goto(r, "permit") \/ Goto(r, "work")
    /\ UNCHANGED <<head, gitVars, root, failure, crashes, history>>

\* ... and then reads the root again to see whether the path is allowed; a
\* worktree is in no allowed path of the configuration.
Permit(r) ==
    /\ at[r] = "permit"
    /\ base[r] \in {root, NoRun}
    /\ Goto(r, "work")
    /\ UNCHANGED <<head, gitVars, root, failure, base, crashes, history>>

Deny(r) ==
    /\ at[r] = "permit"
    /\ base[r] \notin {root, NoRun}
    /\ failure' = [failure EXCEPT ![r] = "denied"]
    /\ Goto(r, "exit")
    /\ UNCHANGED <<head, gitVars, root, base, crashes, history>>

\* The tool or the script has run and the result has been reported.
Work(r) ==
    /\ at[r] = "work"
    /\ Goto(r, "exit")
    /\ UNCHANGED <<head, gitVars, root, failure, base, crashes, history>>

Leave(r) ==
    /\ at[r] = "exit"
    /\ base' = [base EXCEPT ![r] = NoRun]
    /\ Goto(r, IF RepoOf[r] # NoRepo THEN "clean" ELSE "done")
    /\ UNCHANGED <<head, gitVars, failure, crashes, history>>

\* Mutants: the root is left set; it goes back to the clone and not to nothing.
ClearNothing(r) == Leave(r) /\ UNCHANGED root
ClearRootToClone(r) ==
    /\ Leave(r)
    /\ root' = IF r \in ToolRuns /\ RepoOf[r] # NoRepo THEN RepoOf[r] ELSE root

\* Deferred, for a tool job in a repository: SetWorktreeRoot("").
ClearRoot(r) ==
    /\ Leave(r)
    /\ root' = IF r \in ToolRuns /\ RepoOf[r] # NoRepo THEN NoRun ELSE root

-----------------------------------------------------------------------------
(* The end of the process *)

\* Runs whose git worktree command is making or removing something.
AtGit == {r \in Runs : \/ at[r] = "adding"
                       \/ at[r] \in {"remove", "clean"} /\ entry[r] = "plain"}

\* The commands of the runs in ended come to their end, the others stop at their
\* entry; the runs in there have their directory, or some of it.
GitStops(ended, there) ==
    /\ tree' = [r \in Runs |-> IF r \notin AtGit THEN tree[r]
                               ELSE IF r \notin there THEN NoTree
                               ELSE IF at[r] = "adding" THEN cached[RepoOf[r]]
                               ELSE tree[r]]
    /\ entry' = [r \in Runs |-> IF r \notin ended THEN entry[r]
                                ELSE IF at[r] = "adding" /\ r \in there THEN "plain"
                                ELSE "none"]
    /\ spoiled' = spoiled \cup {r \in AtGit \ ended : at[r] = "adding" \/ r \notin there}

\* The process is killed and started again.  The disk stays as it is; a git
\* clone stops, takes back what it has, or works on by itself.  The platform
\* hands the unfinished jobs out again.  (TLC finds nothing for two names that share
\* the bound SUBSET {}: ended and there have one each.)
Crash ==
    /\ crashes < MaxCrashes
    /\ crashes' = crashes + 1
    /\ root' = NoRun
    /\ at' = [r \in Runs |-> IF at[r] = "done" THEN "done" ELSE "new"]
    /\ base' = [r \in Runs |-> NoRun]
    /\ \E ended \in SUBSET AtGit, there \in SUBSET AtGit : GitStops(ended, there)
    /\ \E left \in {"absent", "partial", "orphan"} :
         clone' = [p \in Repos |-> IF clone[p] = "partial" THEN left ELSE clone[p]]
    /\ torn' = torn \cup {p \in Repos : clone[p] = "partial"}
    /\ failure' = [r \in Runs |-> IF at[r] = "done" THEN failure[r] ELSE "none"]
    /\ seen' = [r \in Runs |-> 0]
    /\ met' = [r \in Runs |-> IF at[r] = "done" THEN met[r] ELSE {}]
    /\ UNCHANGED <<head, cached>>

\* The git clone of a process that is gone comes to its end, or fails.
OrphanEnds(p) ==
    /\ clone[p] = "orphan"
    /\ \/ Filled(p)
       \/ clone' = [clone EXCEPT ![p] = "absent"] /\ UNCHANGED cached
    /\ UNCHANGED <<head, tree, entry, root, at, failure, base, crashes, history>>

Finished == (\A r \in Runs : at[r] = "done") /\ UNCHANGED vars

Step(r) ==
    \/ Begin(r) \/ Stat(r)
    \/ CloneBegins(r) \/ CloneRefuses(r) \/ CloneEnds(r) \/ CloneFails(r) \/ Fetch(r)
    \/ StatTree(r) \/ RemoveStale(r)
    \/ AddBegins(r) \/ AddEnds(r) \/ AddBreaks(r) \/ AddFails(r)
    \/ SetWorktreeRoot(r) \/ Resolve(r) \/ Permit(r) \/ Deny(r)
    \/ Work(r) \/ ClearRoot(r) \/ CleanupWorktree(r)

Next ==
    \/ \E p \in Repos : Push(p) \/ OrphanEnds(p)
    \/ \E r \in Runs : Step(r)
    \/ Crash \/ Finished

Spec == Init /\ [][Next]_vars

-----------------------------------------------------------------------------
(* Properties *)

\* Whoever set it last, the shared root is, whenever it is read, the worktree of
\* a run that has not begun to be cleaned up.  What was resolved from it before
\* is another matter (tools.go:120).
RootIsAlive == root # NoRun => tree[root] # NoTree

\* What a killed process leaves behind does not stand in the way of the same job
\* when it is handed out again (worktree.go:45), unless the kill came inside one
\* of the job's own git worktree commands, or its files could not be deleted.
StaleTreeIsNoObstacle == \A r \in Runs : failure[r] = "exists" => r \in spoiled

\* internal/runner/runner.go, "create an isolated worktree and scope file
\* tools to it": a tool works in the worktree of its own job, or in the
\* working directory when its job has no repository.
ToolsStayInOwnTree ==
    \A r \in ToolRuns : at[r] = "work" =>
        base[r] = (IF RepoOf[r] = NoRepo THEN NoRun ELSE r)

\* The clone is in the way of a job only if another job of the same repository
\* was being set up at the same time, or a clone of it was cut short by the end
\* of a process (worktree.go:30).
LoneSetupSucceeds ==
    \A r \in Runs : failure[r] \in {"taken", "broken"} =>
        met[r] # {} \/ RepoOf[r] \in torn

\* internal/runner/worktree.go, "ensures the bare repo cache is up to date":
\* a job whose clone or fetch succeeded sees every commit the remote had then.
CheckoutIsFresh ==
    \A r \in Runs : at[r] \in InTree /\ RepoOf[r] # NoRepo => tree[r] >= seen[r]

=============================================================================
