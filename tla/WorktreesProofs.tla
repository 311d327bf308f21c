-------------------------- MODULE WorktreesProofs --------------------------
(***************************************************************************)
(* Proofs about Worktrees, for any number of jobs, repositories, slots and *)
(* kills of the process, and whichever of the jobs are tool jobs.          *)
(***************************************************************************)
EXTENDS Worktrees, TLAPS

\* How a run gets to its clone and to its worktree, what it does there, and how
\* it leaves.
Prepare(r) ==
    \/ Begin(r) \/ Stat(r) \/ CloneBegins(r) \/ CloneRefuses(r) \/ CloneEnds(r)
    \/ CloneFails(r) \/ Fetch(r)
Make(r) ==
    \/ StatTree(r) \/ RemoveStale(r)
    \/ AddBegins(r) \/ AddEnds(r) \/ AddBreaks(r) \/ AddFails(r)
Use(r) == SetWorktreeRoot(r) \/ Resolve(r) \/ Permit(r) \/ Deny(r) \/ Work(r)
Quit(r) == ClearRoot(r) \/ CleanupWorktree(r)

LEMMA Steps ==
  ASSUME [Next]_vars
  PROVE  \/ \E p \in Repos : Push(p) \/ OrphanEnds(p)
         \/ \E r \in Runs : Prepare(r) \/ Make(r) \/ Use(r) \/ Quit(r)
         \/ Crash
         \/ UNCHANGED vars
  BY DEF Next, Step, Prepare, Make, Use, Quit, Finished

-----------------------------------------------------------------------------
(* Types *)

\* The phases that only a job in a repository gets to.
InRepo == \A r \in Runs : at[r] \in Setup \cup {"enter"} => RepoOf[r] \in Repos

LEMMA InRepoStep == TypeOK /\ InRepo /\ [Next]_vars => InRepo'
  <1> SUFFICES ASSUME TypeOK, InRepo, [Next]_vars PROVE InRepo'
    OBVIOUS
  <1> USE WorktreesAssumption DEF TypeOK, InRepo, Setup, Goto, Fail, Look
  <1>1. ASSUME NEW p \in Repos, Push(p) \/ OrphanEnds(p) PROVE InRepo'
    BY <1>1 DEF Push, OrphanEnds
  <1>2. ASSUME NEW r \in Runs, Prepare(r) PROVE InRepo'
    BY <1>2 DEF Prepare, Begin, Stat, CloneBegins, CloneRefuses, CloneEnds, CloneFails,
                Fetch
  <1>3. ASSUME NEW r \in Runs, Make(r) PROVE InRepo'
    BY <1>3 DEF Make, StatTree, RemoveStale, GitRemove, GitPrune, RemoveAll, AddBegins,
                AddEnds, AddBreaks, AddFails
  <1>4. ASSUME NEW r \in Runs, Use(r) PROVE InRepo'
    BY <1>4 DEF Use, SetWorktreeRoot, Resolve, Permit, Deny, Work
  <1>5. ASSUME NEW r \in Runs, Quit(r) PROVE InRepo'
    BY <1>5 DEF Quit, ClearRoot, Leave, CleanupWorktree, GitRemove, GitPrune, RemoveAll
  <1>6. CASE Crash \/ UNCHANGED vars
    BY <1>6 DEF Crash, vars
  <1> QED
    BY <1>1, <1>2, <1>3, <1>4, <1>5, <1>6, Steps

\* The commands of git change the tree and the entry of one run.
LEMMA GitTyped ==
  ASSUME TypeOK, NEW r \in Runs, NEW from, NEW to \in Busy \cup {"done"},
         GitRemove(r, from, to) \/ GitPrune(r, from, to) \/ RemoveAll(r, from, to)
  PROVE  TypeOK'
  <1> USE DEF TypeOK, Goto, gitVars, history
  <1>1. CASE GitRemove(r, from, to)
    BY <1>1 DEF GitRemove
  <1>2. CASE GitPrune(r, from, to)
    BY <1>2 DEF GitPrune
  <1>3. CASE RemoveAll(r, from, to)
    BY <1>3 DEF RemoveAll
  <1> QED
    BY <1>1, <1>2, <1>3

LEMMA CrashTyped == TypeOK /\ InRepo /\ Crash => TypeOK'
  <1> SUFFICES ASSUME TypeOK, InRepo, Crash PROVE TypeOK'
    OBVIOUS
  <1> USE WorktreesAssumption DEF TypeOK
  <1>1. at' \in [Runs -> Busy \cup {"new", "done"}]
    BY DEF Crash
  <1>2. /\ clone' \in [Repos -> CloneStates]
        /\ cached' \in [Repos -> 0..MaxCommits] /\ head' \in [Repos -> 0..MaxCommits]
        /\ torn' \subseteq Repos
    BY DEF Crash, CloneStates
  <1>3. PICK ended \in SUBSET AtGit, there \in SUBSET AtGit : GitStops(ended, there)
    BY DEF Crash
  <1>4. \A r \in AtGit : at[r] = "adding" => RepoOf[r] \in Repos
    BY DEF AtGit, InRepo, Setup
  <1>5. tree' \in [Runs -> (0..MaxCommits) \cup {NoTree}]
    BY <1>3, <1>4 DEF GitStops, AtGit
  <1>6. entry' \in [Runs -> {"none", "locked", "plain"}] /\ spoiled' \subseteq Runs
    BY <1>3 DEF GitStops, AtGit
  <1>7. /\ failure' \in [Runs -> Failures]
        /\ base' \in [Runs -> Runs \cup {NoRun}] /\ root' \in Runs \cup {NoRun}
    BY DEF Crash, Failures
  <1>8. /\ seen' \in [Runs -> 0..MaxCommits] /\ met' \in [Runs -> SUBSET Runs]
        /\ crashes' \in 0..MaxCrashes
    BY DEF Crash
  <1> QED
    BY ONLY <1>1, <1>2, <1>5, <1>6, <1>7, <1>8 DEF TypeOK

LEMMA TypeStep == TypeOK /\ InRepo /\ [Next]_vars => TypeOK'
  <1> SUFFICES ASSUME TypeOK, InRepo, [Next]_vars PROVE TypeOK'
    OBVIOUS
  <1> USE WorktreesAssumption DEF TypeOK, Busy, Setup, InTree, Leaving, CloneStates,
                                  Failures, Goto, Fail, Look, gitVars, history
  <1>1. ASSUME NEW p \in Repos, Push(p) \/ OrphanEnds(p) PROVE TypeOK'
    BY <1>1 DEF Push, OrphanEnds, Filled
  <1>2. ASSUME NEW r \in Runs, Prepare(r) PROVE TypeOK'
    <2>1. CASE Begin(r)
      <3>1. met' \in [Runs -> SUBSET Runs]
        BY <2>1 DEF Begin, Neighbours
      <3> QED
        BY <2>1, <3>1 DEF Begin
    <2>2. CASE Stat(r) \/ Fetch(r)
      BY <2>2 DEF Stat, Fetch, InRepo
    <2>3. CASE CloneBegins(r) \/ CloneRefuses(r)
      BY <2>3 DEF CloneBegins, CloneRefuses
    <2>4. CASE CloneEnds(r) \/ CloneFails(r)
      BY <2>4 DEF CloneEnds, CloneFails, Filled, InRepo
    <2> QED
      BY <1>2, <2>1, <2>2, <2>3, <2>4 DEF Prepare
  <1>3. ASSUME NEW r \in Runs, Make(r) PROVE TypeOK'
    <2>1. CASE StatTree(r) \/ AddBegins(r)
      BY <2>1 DEF StatTree, AddBegins
    <2>2. CASE RemoveStale(r)
      BY <2>2, GitTyped DEF RemoveStale
    <2>3. CASE AddEnds(r)
      BY <2>3 DEF AddEnds, InRepo
    <2>4. CASE AddBreaks(r) \/ AddFails(r)
      BY <2>4 DEF AddBreaks, AddFails
    <2> QED
      BY <1>3, <2>1, <2>2, <2>3, <2>4 DEF Make
  <1>4. ASSUME NEW r \in Runs, Use(r) PROVE TypeOK'
    BY <1>4 DEF Use, SetWorktreeRoot, Resolve, Permit, Deny, Work
  <1>5. ASSUME NEW r \in Runs, Quit(r) PROVE TypeOK'
    BY <1>5, GitTyped DEF Quit, ClearRoot, Leave, CleanupWorktree
  <1>6. CASE Crash
    BY <1>6, CrashTyped
  <1>7. CASE UNCHANGED vars
    BY <1>7 DEF vars
  <1> QED
    BY <1>1, <1>2, <1>3, <1>4, <1>5, <1>6, <1>7, Steps

LEMMA TypeInvariant == Spec => [](TypeOK /\ InRepo)
  <1>1. Init => TypeOK /\ InRepo
    BY WorktreesAssumption DEF Init, TypeOK, InRepo, Setup, Busy, CloneStates, Failures
  <1> QED
    BY <1>1, InRepoStep, TypeStep, PTL DEF Spec

\* However runs, pushes, git commands and kills follow each other, every
\* variable keeps its type.
THEOREM WorktreesTypeOK == Spec => []TypeOK
  BY TypeInvariant, PTL

-----------------------------------------------------------------------------
(* Worktrees and the shared root *)

\* A worktree is there from EnsureWorktree to CleanupWorktree, and the shared
\* root is one that a tool job works in.
TreeInv ==
    /\ \A r \in Runs :
         /\ at[r] = "enter" => r \in ToolRuns
         /\ at[r] \in InTree /\ RepoOf[r] # NoRepo => tree[r] # NoTree
    /\ root # NoRun =>
         /\ root \in ToolRuns /\ RepoOf[root] # NoRepo
         /\ at[root] \in {"resolve", "permit", "work", "exit"}

\* A command that removes a worktree is run before and after its run is in it.
LEMMA RemovesOwn ==
  ASSUME TypeOK, TreeInv, NEW r \in Runs, NEW from \in Setup \cup Leaving,
         NEW to \in Setup \cup Leaving \cup {"done"},
         GitRemove(r, from, to) \/ GitPrune(r, from, to) \/ RemoveAll(r, from, to)
  PROVE  TreeInv'
  <1> USE WorktreesAssumption DEF TypeOK, TreeInv, Setup, InTree, Leaving, Goto, gitVars,
                                  history
  <1>1. CASE GitRemove(r, from, to)
    BY <1>1 DEF GitRemove
  <1>2. CASE GitPrune(r, from, to)
    BY <1>2 DEF GitPrune
  <1>3. CASE RemoveAll(r, from, to)
    BY <1>3 DEF RemoveAll
  <1> QED
    BY <1>1, <1>2, <1>3

LEMMA TreeStep == TypeOK /\ InRepo /\ TreeInv /\ [Next]_vars => TreeInv'
  <1> SUFFICES ASSUME TypeOK, InRepo, TreeInv, [Next]_vars PROVE TreeInv'
    OBVIOUS
  <1> USE WorktreesAssumption DEF TypeOK, TreeInv, InTree, Goto, Fail, Look, gitVars,
                                  history
  <1>1. ASSUME NEW p \in Repos, Push(p) \/ OrphanEnds(p) PROVE TreeInv'
    BY <1>1 DEF Push, OrphanEnds
  <1>2. ASSUME NEW r \in Runs, Prepare(r) PROVE TreeInv'
    <2>1. CASE Begin(r)
      BY <2>1 DEF Begin
    <2>2. CASE Stat(r) \/ Fetch(r)
      BY <2>2 DEF Stat, Fetch
    <2>3. CASE CloneBegins(r) \/ CloneRefuses(r) \/ CloneEnds(r) \/ CloneFails(r)
      BY <2>3 DEF CloneBegins, CloneRefuses, CloneEnds, CloneFails
    <2> QED
      BY <1>2, <2>1, <2>2, <2>3 DEF Prepare
  <1>3. ASSUME NEW r \in Runs, Make(r) PROVE TreeInv'
    <2>1. CASE StatTree(r) \/ AddBegins(r) \/ AddBreaks(r) \/ AddFails(r)
      BY <2>1 DEF StatTree, AddBegins, AddBreaks, AddFails
    <2>2. CASE RemoveStale(r)
      BY <2>2, RemovesOwn DEF RemoveStale, Setup
    <2>3. CASE AddEnds(r)
      <3>1. cached[RepoOf[r]] # NoTree
        BY <2>3 DEF AddEnds, InRepo, Setup
      <3>2. tree'[r] # NoTree /\ \A s \in Runs \ {r} : tree'[s] = tree[s]
        BY <2>3, <3>1 DEF AddEnds
      <3>3. at'[r] = (IF r \in ToolRuns THEN "enter" ELSE "work")
        BY <2>3 DEF AddEnds
      <3>4. \A s \in Runs \ {r} : at'[s] = at[s]
        BY <2>3 DEF AddEnds
      <3>5. root' = root /\ at[r] = "adding"
        BY <2>3 DEF AddEnds
      <3> QED
        BY <3>2, <3>3, <3>4, <3>5
    <2> QED
      BY <1>3, <2>1, <2>2, <2>3 DEF Make
  <1>4. ASSUME NEW r \in Runs, Use(r) PROVE TreeInv'
    BY <1>4 DEF Use, SetWorktreeRoot, Resolve, Permit, Deny, Work, InRepo
  <1>5. ASSUME NEW r \in Runs, Quit(r) PROVE TreeInv'
    <2>1. CASE ClearRoot(r)
      BY <2>1 DEF ClearRoot, Leave
    <2>2. CASE CleanupWorktree(r)
      BY <2>2, RemovesOwn DEF CleanupWorktree, Leaving
    <2> QED
      BY <1>5, <2>1, <2>2 DEF Quit
  <1>6. CASE Crash
    BY <1>6 DEF Crash
  <1>7. CASE UNCHANGED vars
    BY <1>7 DEF vars
  <1> QED
    BY <1>1, <1>2, <1>3, <1>4, <1>5, <1>6, <1>7, Steps

LEMMA TreeInvariant == Spec => []TreeInv
  <1>1. Init => TreeInv
    BY DEF Init, TreeInv, InTree
  <1> QED
    BY <1>1, TreeStep, TypeInvariant, PTL DEF Spec

\* SetWorktreeRoot and the deferred calls of handleToolJob: tool jobs overwrite
\* and clear each other's root, but never is it that of a worktree removed.
THEOREM RootAlive == Spec => []RootIsAlive
  <1>1. TreeInv => RootIsAlive
    BY WorktreesAssumption DEF TreeInv, RootIsAlive, InTree
  <1> QED
    BY <1>1, TreeInvariant, PTL

-----------------------------------------------------------------------------
(* What an earlier attempt at a job leaves behind *)

\* For a run whose worktree no kill and no refused deletion has spoiled: an entry
\* is locked only while git makes the worktree; a finished entry has a directory,
\* so os.Stat sees what the clone's list knows; once git worktree remove is
\* through there is no entry, and when one is to be added there is nothing.
Sound(r) ==
    /\ entry[r] = "locked" => at[r] = "adding"
    /\ entry[r] = "plain" => tree[r] # NoTree
    /\ at[r] \in {"prune", "delete", "sweep", "wipe"} => entry[r] = "none"
    /\ at[r] = "add" => tree[r] = NoTree /\ entry[r] = "none"
    /\ failure[r] # "exists"

StaleInv == \A r \in Runs \ spoiled : Sound(r)

LEMMA SoundGit ==
  ASSUME TypeOK, StaleInv, NEW r \in Runs,
         NEW from, NEW to \in {"prune", "delete", "add", "sweep", "wipe", "done"},
         \/ GitRemove(r, from, to) /\ from # "adding" /\ to # "add"
         \/ GitPrune(r, from, to) /\ from \in {"prune", "sweep"} /\ to # "add"
         \/ RemoveAll(r, from, to) /\ from \in {"delete", "wipe"}
  PROVE  StaleInv'
  <1> USE DEF TypeOK, StaleInv, Sound, Goto, gitVars, history
  <1>1. CASE GitRemove(r, from, to) /\ from # "adding" /\ to # "add"
    BY <1>1 DEF GitRemove
  <1>2. CASE GitPrune(r, from, to) /\ from \in {"prune", "sweep"} /\ to # "add"
    BY <1>2 DEF GitPrune
  <1>3. CASE RemoveAll(r, from, to) /\ from \in {"delete", "wipe"}
    BY <1>3 DEF RemoveAll
  <1> QED
    BY <1>1, <1>2, <1>3

\* A kill leaves what no command of git was at work on as it was.
LEMMA SoundCrash == TypeOK /\ InRepo /\ StaleInv /\ Crash => StaleInv'
  <1> SUFFICES ASSUME TypeOK, InRepo, StaleInv, Crash, NEW r \in Runs, r \notin spoiled'
               PROVE  Sound(r)'
    BY DEF StaleInv
  <1> USE WorktreesAssumption DEF TypeOK
  <1>1. PICK ended \in SUBSET AtGit, there \in SUBSET AtGit : GitStops(ended, there)
    BY DEF Crash
  <1>2. /\ spoiled' = spoiled \cup {s \in AtGit \ ended : at[s] = "adding" \/ s \notin there}
        /\ tree'[r] = (IF r \notin AtGit THEN tree[r]
                       ELSE IF r \notin there THEN NoTree
                       ELSE IF at[r] = "adding" THEN cached[RepoOf[r]]
                       ELSE tree[r])
        /\ entry'[r] = (IF r \notin ended THEN entry[r]
                        ELSE IF at[r] = "adding" /\ r \in there THEN "plain"
                        ELSE "none")
    BY <1>1 DEF GitStops
  <1>3. Sound(r) /\ at'[r] \in {"done", "new"}
    BY <1>2 DEF StaleInv, Crash
  <1>4. at[r] = "adding" => cached[RepoOf[r]] # NoTree
    BY DEF InRepo, Setup
  <1>5. entry'[r] = "locked" => FALSE
    BY <1>2, <1>3 DEF Sound, AtGit
  <1>6. entry'[r] = "plain" => tree'[r] # NoTree
    BY <1>2, <1>3, <1>4 DEF Sound, AtGit
  <1>7. failure'[r] # "exists"
    BY <1>3 DEF Sound, Crash
  <1> QED
    BY <1>3, <1>5, <1>6, <1>7 DEF Sound

LEMMA StaleStep == TypeOK /\ InRepo /\ StaleInv /\ [Next]_vars => StaleInv'
  <1> SUFFICES ASSUME TypeOK, InRepo, StaleInv, [Next]_vars PROVE StaleInv'
    OBVIOUS
  <1> USE WorktreesAssumption DEF TypeOK, StaleInv, Sound, Goto, Fail, Look, gitVars,
                                  history
  <1>1. ASSUME NEW p \in Repos, Push(p) \/ OrphanEnds(p) PROVE StaleInv'
    BY <1>1 DEF Push, OrphanEnds
  <1>2. ASSUME NEW r \in Runs, Prepare(r) PROVE StaleInv'
    BY <1>2 DEF Prepare, Begin, Stat, CloneBegins, CloneRefuses, CloneEnds, CloneFails,
                Fetch
  <1>3. ASSUME NEW r \in Runs, Make(r) PROVE StaleInv'
    <2>1. CASE StatTree(r)
      BY <2>1 DEF StatTree
    <2>2. CASE RemoveStale(r)
      BY <2>2, SoundGit DEF RemoveStale
    <2>3. CASE AddBegins(r)
      BY <2>3 DEF AddBegins
    <2>4. CASE AddEnds(r)
      <3>1. cached[RepoOf[r]] # NoTree
        BY <2>4 DEF AddEnds, InRepo, Setup
      <3> QED
        BY <2>4, <3>1 DEF AddEnds
    <2>5. CASE AddBreaks(r)
      BY <2>5 DEF AddBreaks
    <2>6. CASE AddFails(r)
      <3>1. r \notin spoiled => failure'[r] # "exists"
        BY <2>6 DEF AddFails, PathIsFree
      <3> QED
        BY <2>6, <3>1 DEF AddFails
    <2> QED
      BY <1>3, <2>1, <2>2, <2>3, <2>4, <2>5, <2>6 DEF Make
  <1>4. ASSUME NEW r \in Runs, Use(r) PROVE StaleInv'
    BY <1>4 DEF Use, SetWorktreeRoot, Resolve, Permit, Deny, Work
  <1>5. ASSUME NEW r \in Runs, Quit(r) PROVE StaleInv'
    <2>1. CASE ClearRoot(r)
      BY <2>1 DEF ClearRoot, Leave
    <2>2. CASE CleanupWorktree(r)
      BY <2>2, SoundGit DEF CleanupWorktree
    <2> QED
      BY <1>5, <2>1, <2>2 DEF Quit
  <1>6. CASE Crash
    BY <1>6, SoundCrash
  <1>7. CASE UNCHANGED vars
    BY <1>7 DEF vars
  <1> QED
    BY <1>1, <1>2, <1>3, <1>4, <1>5, <1>6, <1>7, Steps

\* EnsureWorktree removes what an earlier attempt at the job left behind, so git
\* worktree add finds its directory and its entry free, unless a kill cut one of
\* the job's own git commands short or its files could not be deleted.
THEOREM StaleTreeHarmless == Spec => []StaleTreeIsNoObstacle
  <1>1. Init => StaleInv
    BY DEF Init, StaleInv, Sound
  <1>2. StaleInv => StaleTreeIsNoObstacle
    BY DEF StaleInv, Sound, StaleTreeIsNoObstacle
  <1> QED
    BY <1>1, <1>2, StaleStep, TypeInvariant, PTL DEF Spec

-----------------------------------------------------------------------------
(* The clone that the runs of a repository share *)

Past == {"fetch", "stale", "remove", "prune", "delete", "add"}

\* Runs of one repository that are being set up know of each other, and one git
\* clone of it is at work at most.
MetInv ==
    /\ \A r, s \in Runs :
         /\ r # s /\ RepoOf[r] = RepoOf[s] /\ at[r] \in Setup /\ at[s] \in Setup
         => s \in met[r]
    /\ \A r \in Runs : failure[r] \in {"taken", "broken"} => at[r] = "done"
    /\ \A r \in Runs : at[r] = "cloning" => clone[RepoOf[r]] = "partial"
    /\ \A r, s \in Runs :
         at[r] = "cloning" /\ at[s] = "cloning" /\ RepoOf[r] = RepoOf[s] => r = s

\* Whatever there is of a clone that no kill cut short, a run at work in this
\* process has made, and a run that goes on without a complete clone, or finds one
\* where it saw none, has met another.
CloneInv ==
    /\ \A p \in Repos \ torn :
         /\ clone[p] # "orphan"
         /\ clone[p] = "partial" => \E s \in Runs : RepoOf[s] = p /\ at[s] = "cloning"
    /\ \A r \in Runs : RepoOf[r] \notin torn /\ met[r] = {} =>
         /\ at[r] \in Past => clone[RepoOf[r]] = "ready"
         /\ at[r] = "clone" => clone[RepoOf[r]] = "absent"
         /\ failure[r] \notin {"taken", "broken"}

LEMMA MetStep == TypeOK /\ InRepo /\ MetInv /\ [Next]_vars => MetInv'
  <1> SUFFICES ASSUME TypeOK, InRepo, MetInv, [Next]_vars PROVE MetInv'
    OBVIOUS
  <1> USE WorktreesAssumption DEF TypeOK, MetInv, Setup, Goto, Fail, Look, gitVars, history
  <1>1. ASSUME NEW p \in Repos, Push(p) \/ OrphanEnds(p) PROVE MetInv'
    BY <1>1 DEF Push, OrphanEnds, Filled, InRepo
  <1>2. ASSUME NEW r \in Runs, Prepare(r) PROVE MetInv'
    <2>1. CASE Begin(r)
      BY <2>1 DEF Begin, Neighbours, InRepo
    <2>2. CASE Stat(r) \/ Fetch(r)
      BY <2>2 DEF Stat, Fetch
    <2>3. CASE CloneBegins(r)
      BY <2>3 DEF CloneBegins, InRepo
    <2>4. CASE CloneRefuses(r)
      BY <2>4 DEF CloneRefuses
    <2>5. CASE CloneEnds(r) \/ CloneFails(r)
      BY <2>5 DEF CloneEnds, CloneFails, Filled, InRepo
    <2> QED
      BY <1>2, <2>1, <2>2, <2>3, <2>4, <2>5 DEF Prepare
  <1>3. ASSUME NEW r \in Runs, Make(r) PROVE MetInv'
    BY <1>3 DEF Make, StatTree, RemoveStale, GitRemove, GitPrune, RemoveAll, AddBegins,
                AddEnds, AddBreaks, AddFails
  <1>4. ASSUME NEW r \in Runs, Use(r) PROVE MetInv'
    BY <1>4 DEF Use, SetWorktreeRoot, Resolve, Permit, Deny, Work
  <1>5. ASSUME NEW r \in Runs, Quit(r) PROVE MetInv'
    BY <1>5 DEF Quit, ClearRoot, Leave, CleanupWorktree, GitRemove, GitPrune, RemoveAll
  <1>6. CASE Crash
    BY <1>6 DEF Crash
  <1>7. CASE UNCHANGED vars
    BY <1>7 DEF vars
  <1> QED
    BY <1>1, <1>2, <1>3, <1>4, <1>5, <1>6, <1>7, Steps

LEMMA CloneStep == TypeOK /\ InRepo /\ MetInv /\ CloneInv /\ [Next]_vars => CloneInv'
  <1> SUFFICES ASSUME TypeOK, InRepo, MetInv, CloneInv, [Next]_vars PROVE CloneInv'
    OBVIOUS
  <1> USE WorktreesAssumption DEF TypeOK, CloneInv, Past, Goto, Fail, Look, gitVars, history
  <1>1. ASSUME NEW p \in Repos, Push(p) \/ OrphanEnds(p) PROVE CloneInv'
    BY <1>1 DEF Push, OrphanEnds, Filled, InRepo, Setup
  <1>2. ASSUME NEW r \in Runs, Prepare(r) PROVE CloneInv'
    <2>1. CASE Begin(r)
      <3>1. failure[r] \notin {"taken", "broken"} /\ at[r] = "new"
        BY <2>1 DEF Begin, MetInv
      <3>2. at'[r] \in {"stat", "resolve", "work"}
        BY <2>1 DEF Begin
      <3>3. \A s \in Runs \ {r} : met'[s] = {} => met[s] = {}
        BY <2>1 DEF Begin
      <3>4. \A s \in Runs \ {r} : at'[s] = at[s]
        BY <2>1 DEF Begin
      <3> QED
        BY <2>1, <3>1, <3>2, <3>3, <3>4 DEF Begin
    <2>2. CASE Stat(r)
      <3>1. RepoOf[r] \in Repos /\ at[r] = "stat"
        BY <2>2 DEF Stat, InRepo, Setup
      <3>2. clone[RepoOf[r]] = "partial" /\ RepoOf[r] \notin torn => met[r] # {}
        BY <3>1 DEF MetInv, Setup
      <3>3. clone[RepoOf[r]] \in {"absent", "partial", "ready"} \/ RepoOf[r] \in torn
        BY <3>1 DEF CloneStates
      <3> QED
        BY <2>2, <3>1, <3>2, <3>3 DEF Stat
    <2>3. CASE CloneBegins(r)
      <3>1. RepoOf[r] \in Repos /\ at[r] = "clone"
        BY <2>3 DEF CloneBegins, InRepo, Setup
      <3>2. \A s \in Runs \ {r} : at[s] = "clone" /\ RepoOf[s] = RepoOf[r] => met[s] # {}
        BY <3>1 DEF MetInv, Setup
      <3> QED
        BY <2>3, <3>1, <3>2 DEF CloneBegins
    <2>4. CASE CloneRefuses(r)
      BY <2>4 DEF CloneRefuses
    <2>5. CASE CloneEnds(r)
      <3>1. RepoOf[r] \in Repos /\ at[r] = "cloning"
        BY <2>5 DEF CloneEnds, InRepo, Setup
      <3>2. \A s \in Runs \ {r} : at[s] = "clone" /\ RepoOf[s] = RepoOf[r] => met[s] # {}
        BY <3>1 DEF MetInv, Setup
      <3> QED
        BY <2>5, <3>1, <3>2 DEF CloneEnds, Filled
    <2>6. CASE CloneFails(r)
      <3>1. RepoOf[r] \in Repos /\ at[r] = "cloning" /\ clone[RepoOf[r]] = "partial"
        BY <2>6 DEF CloneFails, InRepo, Setup, MetInv
      <3> QED
        BY <2>6, <3>1 DEF CloneFails
    <2>7. CASE Fetch(r)
      BY <2>7 DEF Fetch
    <2> QED
      BY <1>2, <2>1, <2>2, <2>3, <2>4, <2>5, <2>6, <2>7 DEF Prepare
  <1>3. ASSUME NEW r \in Runs, Make(r) PROVE CloneInv'
    <2>1. CASE StatTree(r)
      BY <2>1 DEF StatTree
    <2>2. CASE RemoveStale(r)
      BY <2>2 DEF RemoveStale, GitRemove, GitPrune, RemoveAll
    <2>3. CASE AddBegins(r)
      BY <2>3 DEF AddBegins
    <2>4. CASE AddEnds(r)
      BY <2>4 DEF AddEnds
    <2>5. CASE AddBreaks(r)
      BY <2>5 DEF AddBreaks
    <2>6. CASE AddFails(r)
      BY <2>6 DEF AddFails, CloneIsReady
    <2> QED
      BY <1>3, <2>1, <2>2, <2>3, <2>4, <2>5, <2>6 DEF Make
  <1>4. ASSUME NEW r \in Runs, Use(r) PROVE CloneInv'
    BY <1>4 DEF Use, SetWorktreeRoot, Resolve, Permit, Deny, Work
  <1>5. ASSUME NEW r \in Runs, Quit(r) PROVE CloneInv'
    BY <1>5 DEF Quit, ClearRoot, Leave, CleanupWorktree, GitRemove, GitPrune, RemoveAll
  <1>6. CASE Crash
    <2>1. /\ \A p \in Repos \ torn' : p \notin torn /\ clone'[p] = clone[p] /\ clone[p] # "partial"
          /\ torn \subseteq torn'
      BY <1>6 DEF Crash
    <2>2. \A r \in Runs : at'[r] \in {"done", "new"}
      BY <1>6 DEF Crash
    <2>3. \A r \in Runs : \/ failure'[r] = "none"
                          \/ failure'[r] = failure[r] /\ met'[r] = met[r]
      BY <1>6 DEF Crash
    <2> QED
      BY <2>1, <2>2, <2>3
  <1>7. CASE UNCHANGED vars
    BY <1>7 DEF vars
  <1> QED
    BY <1>1, <1>2, <1>3, <1>4, <1>5, <1>6, <1>7, Steps

\* EnsureWorktree: the clone is no obstacle for a job that shares its setup with no
\* other job of the repository, if no kill has cut a clone of it short.
THEOREM LoneSetup == Spec => []LoneSetupSucceeds
  <1>1. Init => MetInv /\ CloneInv
    BY DEF Init, MetInv, CloneInv, Setup, Past
  <1>2. CloneInv => LoneSetupSucceeds
    BY DEF CloneInv, LoneSetupSucceeds
  <1> QED
    BY <1>1, <1>2, MetStep, CloneStep, TypeInvariant, PTL DEF Spec
=============================================================================
