# A TLA+ model of workflowfiesta-runner

The runner is a Go program that polls the WorkflowFiesta platform for jobs, runs
them (a script in a sandbox, in Docker or in Kubernetes; or a native tool) and
reports one verdict per job. This directory holds TLA+ modules of it, TLC
configurations that check them on small instances, and proofs that TLAPS checks.
Source paths are relative to the repository root.

1. [The system](#1-the-system)
2. [Modules and their correspondence to the code](#2-modules)
3. [Runs, bounds and fairness](#3-runs)
4. [Proofs](#4-proofs)
5. [Where the code disagrees with its documentation](#5-disagreements)
6. [What is not modelled](#6-not-modelled)
7. [Plan](#7-plan)

## 1. The system

### Threads and shared state

One process holds: the **poll loop** (`Runner.Run`, a tick every 3 s), the
**heartbeat loop** (every 30 s), one **goroutine per claimed job**, one goroutine
per job that drains its output, goroutines that pull the script library, and with
a display the Fyne event loop (status window, tray, approval dialogs). They share:

| state | owner | guarded by | used by |
|---|---|---|---|
| `ctx` | `cmd/runner/main.go` | - | both loops, every job |
| `semaphore` (channel) | `Runner` | itself | job goroutines |
| `activeJobs`, `jobCancels` (`sync.Map`) | `Runner` | itself | poll loop, jobs, heartbeat, Stop button |
| `wg` | `Run` | itself | poll loop, jobs |
| `authFailures`, `apiFailures`, `apiReachable` | `Runner` | `connMu` | both loops |
| `revokedOnce` | `Runner` | itself | both loops |
| `toolHandler.worktreeRoot`, `.orgID`, `.syncer` | `ToolHandler` | nothing | tool jobs, both loops |
| `localCfg` (allow list, org id, interpreters) | `LocalConfig` | partly `localExecutor.mu` | executor, settings, heartbeat |
| `~/.wf-runner/repos/<hash>`, `.../worktrees/<id>` | git | nothing | jobs in a repository |
| `~/.workflowfiesta/*` | several | nothing | configuration, credentials, scripts, reset |
| the script library directory | `ToolHandler` | nothing | tool jobs, library sync |
| status window fields | Fyne thread, mostly | nothing | sinks called from every goroutine |

### Components

| component | state | operations | what makes it correct |
|---|---|---|---|
| Job dispatch, `internal/runner/runner.go` | semaphore, `activeJobs`, `jobCancels`, `wg` | poll, deduplicate, start, acquire or drop, execute, report, deferred cleanup, stop, shutdown | at most `MaxConcurrentJobs` jobs; no id twice at a time; one verdict per job; a stop reaches its job; `Run` returns last, and does return |
| Connection, same file | failure counters, `revokedOnce`, badge | handle an answer, count, log out, notify | log out only after two refusals in a row; nobody leaves before the logout is over; the badge follows |
| Process, `cmd/runner/main.go` | context, exit | signal, logout callback, relaunch, reset | ends, and leaves nothing |
| Worktrees, `internal/runner/worktree.go` | bare clones and worktrees on disk | clone or fetch, remove stale, add, clean up | each job has its own fresh tree; a kill does no lasting harm |
| Native tools, `internal/executor/tools.go` | `worktreeRoot`, script library | 20-odd file, web and library tools | stay inside the own worktree and the allowed paths; the library stays consistent |
| Script library and its sync, `runner.go:422`, `tools.go:800` | script files and metadata | save, load, push; list, compare, fetch, write | the newest version wins, and only a whole one runs |
| API client, `internal/api` | org id, token | claim, heartbeat, stream, report, approve, library | output in order; a refusal is told from a failure |
| HTTP retry, `internal/httputil` | attempt | try, back off | bounded attempts, bounded delay, last answer returned |
| Local executor, `internal/executor/local.go` | session list, always list | block, ask, clamp, run, audit | nothing blocked or denied runs; an allowed script is not asked for again |
| Approval, `internal/localui/approval.go`, `headless.go` | one answer channel per request | show, count down, decide, close | exactly one answer; the answer is for this job; the platform hears of it |
| Docker and Kubernetes executors | container, Kubernetes job | pull, create, stream, wait, remove | removed whatever happens; timeouts and stops told apart |
| Sandboxes | - | build a command line | - |
| Local configuration, `internal/localconfig` | `runner.yaml` | load, normalise, save | a round trip loses nothing |
| Credentials, `internal/config` | credentials file, environment | load, save, apply | documented precedence |
| Clear state, `internal/config/clear_state.go` | `~/.workflowfiesta` | clear, keep logs, keep scripts | all or reported; keeps what was asked |
| Status window, `internal/localui/statuswindow.go` | badge, active jobs, Stop button | the sink's calls, Stop | shows the truth; Stop acts on what it shows |
| Tray, settings, reset, registration, wizard | forms | quit, save, reset, register | no second process; a failed save leaves the old state |
| Interpreters, installers, audit log, platform | - | find, install, append, read | - |

**Interactions.** The poll loop claims a job over the client, which retries; the
heartbeat carries `busy`, derived from `activeJobs`, and brings the org id, which is
written into the client, the tool handler and the configuration. A job goroutine
calls the executor or the tool handler, which may ask the operator (`RequestApproval`
blocks in the goroutine and keeps its slot). Both loops tell the sinks (status window
or CLI) about the connection, the jobs about their progress. The status window calls
back `StopAgentJob`. A revoked registration ends in the logout callback of `main.go`:
clear the state, cancel the context, relaunch the program, quit the GUI.

**What is hard.** The order of a goroutine's deferred calls against the next claim of
the same id; a select between a slot and a done context; two loops that count on
shared counters and race for one `sync.Once`; a callback that cancels the context it
runs under; a process that is killed in the middle of git; fields shared by
concurrent jobs without a lock; answers that come after their timeout. `PROJECT.json`
lists each hazard at its line.

## 2. Modules

| module | models |
|---|---|
| `Jobs` | job dispatch and life cycle |
| `JobBoard` | what `Jobs` promises of a job id, the abstract specification |
| `JobsMC` | payloads and symmetry for TLC |
| `JobsProofs` | proofs about `Jobs`, and that it implements `JobBoard` |
| `Connection` | both loops, the counters, the logout |
| `ConnectionHistory` | `Connection` with two history variables, for "consecutive" |
| `ConnectionProofs` | proofs about both |
| `Runner` | `Connection` and `Jobs` composed, to the end of the process |
| `RunnerMC` | payloads and a network that fails for good, for TLC |
| `RunnerProofs` | `Runner` implements both of its parts; what it leaves at its end |
| `Worktrees` | `EnsureWorktree`, cleanup, and the shared root of the tool handler |
| `WorktreesMC` | which run works in which repository, and since when its branch exists |
| `WorktreesProofs` | proofs about `Worktrees` |
| `ConfigFile` | `runner.yaml` and its copy in memory: load, and a save in three steps |
| `Approval` (extends `ConfigFile`) | the gate of the local executor, the dialog and the terminal prompt |
| `ApprovalMC` | scripts, assignments and modes for TLC |
| `ApprovalProofs` | proofs about `Approval` and the saves in it |
| `Retry` | one request at a time over a network that loses, repeats and delays |
| `Execution` (extends `Retry`) | one script through any of the three executors, its output and its verdict |
| `DeliveryMC` | the messages a job may send, for TLC |
| `ExecutionProofs` | proofs about `Execution` and the messages of its `Retry` |
| `StatusWindow` | the calls of the status sink, the closures they queue, Stop Agent |
| `StatusWindowMC` | symmetry for TLC |
| `StatusWindowProofs` | proofs about `StatusWindow` |
| `Local` | credentials, `runner.yaml`, registrations and the processes that write them |
| `Library` | one script of the library, its copy at the platform, and who writes them |
| `LocalState` (extends `Local`, instantiates `Library`) | both, with the goroutines of a process tied to its life |
| `LocalStateMC` | symmetry and the constraints for TLC |
| `LocalStateProofs` | proofs about `Local` and `Library` as `LocalState` composes them |

### Jobs

`pc[g]` says where a job's goroutine stands; a step is one access to shared state.
`Dispatch` is the poll's answer, `LoadOrStore`, `wg.Add` and `go` together: only the
poll loop stores keys, so nothing can come in between. `Acquire` and `Drop` are the two
arms of the select; `Setup`/`SetupFails` the script library and `EnsureWorktree`;
`Launch` is `jobCancels.Store` and the call of `Execute`; `ExecReturns` its result,
with the drained output; `Report` the one verdict; then the deferred calls, last in
first out: `Unregister` (`jobCancels.Delete`), `Cleanup` (worktree), `Release` (slot),
`Forget` (`activeJobs.Delete`), `Leave` (`wg.Done`). A setup that failed skips the
deferred calls that were not yet registered. `RequestStop` and `CancelLocalJob` are the
two halves of `StopAgentJob`, with the HTTP call between them. `BeginDrain` and
`Return` are `wg.Wait`. A job is its id, its kind and whether it has a repository; its
script, image, environment and output are left out because nothing in this component
tells them apart. The name of a goroutine that ended is reused, so runs are infinite
and only the number alive at once is bounded. `Init` allows worktrees of earlier jobs
on disk: nothing else survives a restart.

The platform is external: it may hand out any job at any poll, also one that runs. A
status sink only listens here; what the window shows is another component.

`JobBoard` says the same of a job id with four sets: taken once, waits, runs beside
at most `Limit - 1` others, leaves, and only then may be taken again; a waiting job is
turned away only when the runner closes. `ImplementsBoard` is the refinement, with
`waiting`, `running` and `leaving` read off `pc` and `job`.

### Connection

`at[l]` is the position of loop `l`, `"poll"` or `"beat"`, in the handling of an
answer; a step is one critical section of `connMu`, one call of the sinks made outside
it, or one step of the logout. `handleAuthRevoked` is `ResetAuth`, `CountRefusal` and the
`sync.Once` (`EnterOnce`, `Logout`, `LeaveOnce`, and `SkipOnce` for the loser, which
waits). `recordAPISuccess` sets `apiReachable` under the lock (`RecordSuccess`) and
tells the sinks after it (`AnnounceConnected`), `recordAPIFailure` with the lock held
(`RecordFailure`). A refusal below the threshold is recorded as a failure, as in the
code. `Call` is a request with all its retries: what matters is whether the platform
accepts, refuses or does not answer properly. The first heartbeat is sent by `Run`
before the other loop exists and without looking at the context (`Starting`).

### Runner

`Runner` instantiates both on one `cancelled`. The poll loop is the same loop in both
parts: `StopPolling`, `RunReturns` and `DispatchJob` are joint steps, everything else is a
step of one part. `Exit` is `main` returning with the other goroutines where they
are. This is the process without a display; nobody calls `StopAgentJob` in it.

### Worktrees

A run is a job that is given a slot; its id names its worktree, the hash of the
URL the bare clone it shares. Every `os.Stat`, `os.RemoveAll` and git command is an action of its
own, because nothing locks the directories: `Stat`; `Fetch`; `StatTree`; the three of
`RemoveWorktree`, `GitRemove`, `GitPrune` and `RemoveAll`, which `RemoveStale` takes before the add and
`CleanupWorktree` after the job, and whose errors nobody looks at. Two commands are two actions each,
because what they make is there before it is complete: `git clone` (`CloneBegins`, then `CloneEnds` or
`CloneFails`; `CloneRefuses` for a directory that exists) and `git worktree add` (`AddBegins`, then
`AddEnds` or `AddBreaks`; `AddFails` for what git looks at first).

git is external. What it does was observed with git itself: `clone` refuses an existing directory
and removes its own when it fails; `fetch` in a bare clone without a refspec moves no branch;
`worktree add` needs a complete clone that knows the branch, a free directory and no entry of that
path in the clone's list, makes a *locked* entry, then the directory, and unlocks the entry at the
end; `worktree remove --force` refuses a locked entry, deletes the directory of another one and then the
entry; `prune` deletes unlocked entries without a directory. `entry` is that list. `RefSince` is
`GitRef`: the commit with which the branch of a run came, which a clone made before does not have.

The tool handler's `worktreeRoot` is one variable for all tool jobs; `resolvePath` reads it twice
(`Resolve`, then `Permit` or `Deny`). `Crash` kills the process at any point and hands the unfinished
jobs out again; a `git worktree` command under way ends by itself or stops where it is (`GitStops`), a
clone stops, takes back what it has, or goes on without its process (`OrphanEnds`). The histories
say whom to blame: `met` the runs set up beside this one, `torn` the repositories whose clone was cut
short, `spoiled` the runs whose own `git worktree` command was, or whose files could not be deleted.

### ConfigFile and Approval

The file `runner.yaml` is a set of entries that differ from `Default()`; a file that was
truncated is empty, which parses and loads as the defaults. `BeginSave`, `Marshal`, `Open`
and `Write` are one `LocalConfig.Save`, whose caller holds no lock; `Overlays` is what
two writers leave that both start at offset 0. `Load` drops the `:ro` marks, as
`stripROSuffix` does.

`at[j]` is the position of job `j` in `localExecutor.Execute`: the blocked patterns, the
session list, the always list, the question, the answer, the save, the launch. With a
display the question is `OpenDialog`; `Click`, `CloseByOperator` and `CountdownEnds`
race, each through `Decide`, which is the `sync.Once` and the channel of capacity one;
`TakeAnswer` is the goroutine that waits for it. In a terminal the question is
`Prompt`, which leaves a goroutine at `Scan`: `readers` is the queue of these
goroutines. The operator may type a line at any time (`TypeLine`). It goes to the oldest reader,
also when its prompt timed out long ago; while nobody reads it stays in the terminal (`typed`), and
the next prompt takes it before anyone can have read the question (`headless.go:30`). So a second
"y" answers the next job, and a script runs that nobody allowed: `RunsOnlyAllowed` exempts the
prompts that took such a line (`early`) or shared the screen with another one (`overlap`), and
says that nothing else lets a script through. A line is a terminal's: what one scanner reads ahead from
a pipe, and keeps from the others, is left out. `Tell` reports to the platform and may fail, which is ignored.
`Crash` and `Restart` are the process; what restarts depends on `Load`: `run-local` gives up
on a file that does not parse, the desktop takes the defaults. The confirm mode
`never` has no gate and is left out; so is the wording of a script, of which only
matters what the two pattern lists say of it. `blocked_patterns` is one entry of the file, so it is
lost when the file is; how a pattern matches is the constant `Blocked`.

### Retry and Execution

`Retry` is `httputil.Do` for one caller: `Begin` sends, an attempt ends as `Served`,
`Refused`, `NotServed`, `AnswerLost` or `Overdue` (the 30 s of the client pass; the
request may still `Arrives`), `Wake` is the end of the delay. `Backoff` is the
set of delays; that it is never empty is what `rand.Int64N` needs. `inbox` is what the
platform received, in order, duplicates included.

`Execution` is one script from `handleJob` to its verdict. `at` follows the goroutine
of the job through the executor of this process, one action per call to docker or
Kubernetes, each of which may fail by itself or for the context: `Pull`,
`CreateContainer`, `Start`, `Logs`, `Wait`, `CloseLogs`, `Join`, `Remove`; `CreateJob` or
`NameIsTaken`, `PodRuns`, `LogsEnd`, `GetPodExitCode`, `Remove`; `Gate`, `WriteScript`,
`Launch`, `Join`, `Reap`. `Wait` is the select over status, error and timeout, which takes
any arm that is ready. `stream` is the goroutine that sends into `outputChan`, `drain` the one
that posts; `written`, `sent` and `taken` count chunks along the way. A chunk is what one `Read` (or a line of
a local script) gave; `docker.go:94` takes 8 bytes off every `Read` as if a frame began there, so a
frame longer than the 4096 bytes of the buffer loses output, and several short ones in one `Read`
keep the headers of all but the first. `Unframe` marks that as `torn`; the chunks are counted all the
same, and nothing is claimed of the bytes in those of docker. `Stop` and `Expire` end the
context, `Kill` is `exec.CommandContext`, which kills the shell and not its children:
`orphan` says that a child has the output open. Jobs share nothing here, so one is enough.
docker, Kubernetes and the platform are external. The 24 random bits of a job's name
are the choice whether the name is taken (`foreign`).

### StatusWindow

A sink call changes some fields where it is made and hands the rest to the Fyne thread
with `fyne.Do`. So each call is two or more actions: `Register` (the maps, under `activeMu`) and
`AnnounceRunning` (the closure is queued) and `ShowRunning` (it runs, and reads the maps as they are
then). The tallies of `SetJobComplete` are read and written under no lock: `ReadTally`
and `WriteTally`, which may take over a value that was read before another goroutine
wrote. `GoesUp` and `AnnounceConnected`, `GoesDown` are the two loops as in
`Connection`; `Click`, `StopAnswered` and `ShowStopError` are Stop Agent. `closed` is the end of `Run`.
Cards stand for the rows of running jobs, `recent` for the history list; layout, uptime and
colours are left out.

### Local

`proc[p]` is a process: its phase from the wizard to serving and stopping, its token, the
`LocalConfig` of the executors (`exec`), and `copy` when `cfg.LocalConfig` has come to be another
object. `Booted` is `config.Load` and `RunAutoLaunch`. `Register`, `WizardSaves`,
`WizardCredentials`, `Install` and `StartServing` are the first start, file by file, with a
failure at each; `StartSetup`, `InitLocal` and `RegisterCommand` are the programs
`register-local`, `init-local` and `register`, which write the same files whatever else is up.
`AlwaysAllow`, `HeartbeatOrg` and `SaveSettings` begin a save of `runner.yaml` in a serving process, each in
its own goroutine and without a lock around `Save`: memory changes first, then `SaveOpens` truncates the
file and `SaveWrites` writes it, or `SaveFails`, or the process ends in between. `NoConfig` is
a file that is absent, empty or does not parse: `Load` or its caller takes the defaults for each. A
save that begins beside another one is the trouble "overlap", one that fails or is cut short
"saveFailed", one of a process that has removed its registration "lateSave". The
settings window works on the lists it copied when it opened; when its save is over, also in
vain, `OnSave` hands the result over (`Handed`), differently for the gear and the tray. A process that
does not serve yet saves with nothing beside it, in one step (`Saves`) that may fail. `Reset` and `Revoked` start the two removals:
`ResetServer`, `ResetClears`, `ResetScripts`, `ResetRelaunches` and `RevokeClears`, `RevokeStops`,
`RevokeRelaunches`, one file at a time in the order of `os.ReadDir`, each with its failure.
`Relaunched` starts the next process while this one is still up, with `FilteredEnv`.

`wanted`, `cleared` and `trouble` are histories. `trouble` has a name for each event that is known
to spoil the state: the properties say that nothing else does.

### Library and LocalState

One script: the file with its time, its `.meta.json`, the copy at the platform. Workers are
goroutines: a sync after a heartbeat (`SyncList`, `SyncStat`, `SyncFetch`, `SyncOpen`, `SyncWrite`), a
`save_local_script` (`SaveScript`, `SaveOpen`, `SaveWrite`, `SaveMeta`) with the push it starts, and
a `run_local_script` (`LoadScript`, `ReadMeta`, `WriteMeta`). Texts are numbered in the order of the
saves, times are kept as comparisons: `behind` (the file is older than `UpdatedAt`) and, for a
sync under way, `older`. `mishaps` is to `Library` what `trouble` is to `Local`.

`LocalState` puts both on one machine: workers are goroutines of a serving process, a process that
ends takes them and their pushes with it, and a reset may remove the scripts under their hands.

## 3. Runs

| run | instance | shows |
|---|---|---|
| `jobs_queue` | 2 goroutines on 1 slot, a script and a job with a worktree | the slot, the verdicts, `JobBoard`; every claim ends; `Run` returns last |
| `jobs_overlap` | 2 goroutines on 2 slots, 2 ids, all 6 payloads per id | no id twice; a stop reaches its job; worktrees live as long as their jobs |
| `connection` | 2 loops, 2 failures counted while unreachable | logout after two refusals in a row, waited for; badge; both loops stop |
| `runner` | 2 loops, 1 goroutine, network lost for good or not | the process ends, and leaves nothing |
| `runner_relaunch` | as above, any network | *violated*: exit before the relaunch |
| `worktrees` | 2 tool jobs and a script in 1 repository on 2 slots, 1 commit, 1 kill | root alive; the path is taken, or the clone unusable, for the named reasons only |
| `worktrees_isolation` | 2 tool jobs at once | *violated*: a tool works in another job's worktree |
| `worktrees_fresh` | 2 jobs in sequence, 1 commit | *violated*: a fetched repository is checked out stale |
| `approval` | 2 jobs at the gate, display or terminal, with and without a timeout, 1 fault | only what was allowed runs, but for the prompts the terminal confuses; the first answer counts; `runner.yaml` keeps what was saved; the platform hears the outcome; every question ends |
| `delivery` | 1 script in each executor, 2 chunks through a channel for 1, 3 attempts, 3 faults | order of the output, a "complete with 0" that lacks no chunk, nothing outlives `Execute`, an end |
| `window` | 2 jobs, 2 starts, 1 outage, 1 click, 3 closures waiting | the settled window shows the truth; a lone job can be stopped |
| `local_state` | 2 processes, 2 registrations, 2 modes, 1 fingerprint, 2 goroutines each, 2 texts | one whole registration, the settings in force, the current script, and what alone can spoil them |

**Why the bounds are enough.** In `Jobs`, goroutines interact in pairs: over one
job id, one worktree, one entry of `jobCancels`, or one slot. Two goroutines on one slot
have a queue, a drop beside a running job and a redelivery; two on two slots overlap
everywhere, and a stop may hit the next run of its id. Whatever the numbers, the proofs of section 4
hold. `jobs_overlap` uses symmetry in goroutines and ids; `jobs_queue`, with its liveness, does not.
`Connection` has two loops by construction and thresholds of two; two failures counted
while unreachable reach every branch of `recordAPIFailure` and the count is not
compared with anything while `apiReachable` is false. `Runner` needs one goroutine,
because the goroutines among themselves are checked in `Jobs`. In `Worktrees`, one
repository is enough because different ones share no directory; two slots and three
jobs in the repository let a third job meet what two concurrent first ones left; two of them are
tool jobs, to share the root; one commit tells fresh from stale, and the branch of one job comes with
it; one kill leaves every kind of debris: 4 million states. (A tool job outside any repository meets one
inside in `worktrees_isolation`.)

In `Approval` jobs meet in pairs: over the session and always lists, the save of
`runner.yaml` (two savers overlap), the terminal and the queue of readers. Three scripts (harmless,
destructive, blocked) take every branch of the gate. One line may wait in the terminal, which is enough to
answer a prompt before it is asked. One fault shows that each one by itself is
survived or excused; two would only add up the excuses. `delivery` has a channel for one chunk and
two chunks, so that the sender blocks and the order can be broken; a message is given up after three
faults, which is the bound. In `window` two jobs overlap in every order of calls and closures, fail
early or come again, and up to three closures wait at once, so that a closure reads fields that
later calls have changed; one outage brings the badge down and up; a history of one row is full after the first job.

`local_state` is bounded by what happens: two launches by the operator, when nothing is up (a
relaunch and the set-up programs are what overlaps), three events (`MaxEvents`: set-ups,
resets, deletions, settings windows, answers, starts of goroutines at the script). That the operator
launches the program only when nothing is up is an assumption about him: the program does not
look for another one. Its constraint `FewTroubles`
follows the system until a second thing goes wrong, and past the first only where the rest is still
of interest: a stale registration in the shell, a failed relaunch, a set-up beside a running
process; no save by a serving process is followed there. `SettingsOrScripts`
lets goroutines work at a script while the settings are the defaults, and settings be saved while there is no
script: they are in different files, and what they share, the process and its end, is in both
halves. A state with a trouble is checked before it is left, so the list of troubles in
`RegistrationIsWhole` and `SettingsInForce` is complete up to the first one; that several together, or
a third process, do no more than each of them is what the proofs of section 4 add. `Procs`, `Slots`, `Regs` are symmetric; there is no liveness
in this run. It stops when the operator has done all he may, hence `CHECK_DEADLOCK FALSE`.

**Fairness and why the code justifies it.**

- Weak fairness of a job's steps: a goroutine that can run does. It includes that an
  execution ends. A script that runs is under a timeout in every executor
  (`EveryRunEnds` in `Execution` shows what follows from it); docker's pull and create come before the
  timeout is made, a child of a killed local script may hold its output open, and git commands,
  native tools and an approval with `ConfirmNeverTimeout` (`internal/executor/local.go:126`)
  have no bound: these are *assumed* to come back in `Jobs`.
- In `Execution`: weak fairness of the goroutines' and the client's steps that are no faults, of the
  timeout and of the kill. Calls to docker and Kubernetes are assumed to return. None
  for the script, its children, or a request that is late.
- In `Approval`: weak fairness of the goroutines, the countdown and the steps of a save; none for
  the operator, who may never answer, nor for a restart. `GateIsPassed` is stated for the modes
  with a timeout.
- Strong fairness of `Acquire`: senders blocked on a Go channel are served in arrival
  order, so a job that sees a free slot again and again gets it.
- Weak fairness of `cancelled /\ BeginDrain` (in `Jobs`) and strong fairness of `Stop`
  (in `Connection`): `select` chooses among ready cases at random, so a done context is
  seen though the ticker may be ready as well.
- Weak fairness of `Call` and `Handle`: tickers fire, and the HTTP client has a timeout
  of 30 s and a bounded number of retries.
- None for the operator, the platform or the network: a signal, a deletion, a stop
  or a loss of connection may never happen.
  `DeletedRunnerStops` says what it needs of them: the runner is deleted, the network
  stays up from some time on, and nobody quits the runner before.

`Returned`, `Finished` and the stuttering step of an exited process are the only ways to
stop; any other deadlock would be reported in the passing runs of `Jobs`, `Runner` and
`Worktrees`, all of which check for it, as do those of `Approval`, `Execution` and `StatusWindow` (with
`Finished` and `Ended`) and of `Connection`, in which the environment may always still move.

Every property of a passing run has a mutant, an operator next to the definition it
mutates that changes it as a plausible bug would (`DropReleases`, `SkipIfEntered`,
`OfferAgain`, `ReportFirst`, `PointedElsewhere`, ...); with it in place of the definition, TLC finds the property violated.

## 4. Proofs

Every safety property of every run that passes is also a theorem, and so are the refinement
`ImplementsBoard` and the action property `ThresholdsCountInARow`. A theorem holds for all values
of the constants that satisfy the assumptions of its module, so for any number of jobs, goroutines,
slots, processes and registrations, and without the bounds and the constraint of the runs.

| module | theorem | property | invariant |
|---|---|---|---|
| `JobsProofs` | `JobsTypeOK`, `SlotsBounded`, `ReturnsLast` | `TypeOK`, `SlotBound`, `RunReturnsLast` | `Base` |
| | `NoDuplicates`; `BusyIsTrue` | `NoDuplicateExecution`; `BusyIsTruthful` (proved, not run) | `Base`, `Dedup` |
| | `AnsweredOnce` | `OneVerdict` | `Base`, `Progressed` |
| | `StopReaches` | `CancelReachesItsJob` | `Base`, `Dedup`, `Registry` |
| | `WorktreeKept`, `WorktreeLeft` | `WorktreeHeld`, `WorktreeRemoved` | `Base`, `Dedup`, `Trees` |
| | `BoardImplemented` | `ImplementsBoard` | `Base`, `Dedup` |
| `ConnectionProofs` | `ConnectionTypeOK`, `BadgeFollows` | `ConnTypeOK`, `BadgeCatchesUp` | themselves |
| | `LogoutIsAwaited` | `LoserWaitsForLogout` | `OnceInv` |
| | `CountsInARow` | `ThresholdsCountInARow` | `HistoryInv` |
| `RunnerProofs` | `ImplementsConnection`, `ImplementsJobs` | the specifications of the parts | |
| | `ExitIsClean` | `ExitLeavesNothing` | `OneLoop`, those of the parts |
| `WorktreesProofs` | `WorktreesTypeOK`, `RootAlive`, `StaleTreeHarmless` | `TypeOK`, `RootIsAlive`, `StaleTreeIsNoObstacle` | `InRepo`; `TreeInv`; `StaleInv` |
| | `LoneSetup` | `LoneSetupSucceeds` | `MetInv`, `CloneInv` |
| `ApprovalProofs` | `ApprovalTypeOK`, `OnlyAllowedRuns`, `FirstAnswerObeyed` | `TypeOK`, `RunsOnlyAllowed`, `FirstAnswerCounts` | `GateInv` |
| | `LoneSaveLasts` | `LoneSavePersists` | `SaveInv` |
| | `PendingEnds` | `PendingIsResolved` | `PendingInv` |
| `ExecutionProofs` | `ExecutionTypeOK`, `NothingIsLeft` | `TypeOK`, `NothingOutlivesExecute` | `JobInv` |
| | `InOrder`, `SuccessIsTrue` | `OutputInOrder`, `SuccessIsReal` | `JobInv`, `MessageInv`, `OrderInv` |
| `StatusWindowProofs` | `WindowTypeOK`, `WindowSettles`, `LoneJobStoppable` | `TypeOK`, `SettledWindow`, `LoneJobCanBeStopped` | `WindowInv` |
| `LocalStateProofs` | `LibraryStaysCurrent` | `LibraryIsCurrent` | `LibraryInv` |
| | `RegistrationWhole`, `SettingsHold` | `RegistrationIsWhole`, `SettingsInForce` | `LocalInv` |
| | `LocalStateTypeOK` | `TypeOK` | both |

### From what

Only from the named assumptions on constants, which TLC evaluates in each run. Most say that a
value that stands for "none" is no member (`NoJob`, `NoReg`, `NoRepo`, `NoConfig`) and that a bound is
a natural number. Those that say more:

- `JobsAssumption`: finitely many goroutines are alive at once, there is at least one slot.
  `RunnerAssumption` is that of both parts.
- `ApprovalAssumption`: whoever saves `runner.yaml` is a job at the gate; its entries are the
  fingerprints of scripts, the confirm mode and the blocked patterns, none of them a path with a `:ro` mark (`ReadOnly`
  is empty here; what `Load` does to such a mark is in `ConfigFile`).
- `ExecutionAssumption`, `MessagesAssumption`: `outputChan` has room for one chunk at least, and the
  messages are the chunks and the verdicts.
- `RetryAssumption`: one attempt at least and delays of at least two units, as in `RetryConfig`.
- `WindowAssumption`: the history has at least one row.

### Along which argument

Each theorem goes from an inductive invariant: `Init => Inv`, one step per action (or group of
actions) that preserves it, and `Inv => property`. Except for
`BadgeCatchesUp` and most of the types, none of the properties is inductive as it stands:

- **Jobs.** `Base` is `TypeOK`, every live goroutine has a job, and `Counted`: `slots` is the number
  of goroutines in a phase that owns a token, `wg` the number that is alive. Without the
  counting, `slots - 1` could leave the naturals and `Acquire` could exceed the bound. `Dedup`:
  two goroutines in an active phase have different ids, and `activeJobs` is exactly the set of their
  ids; `Dispatch` needs the second half to keep the first, `Forget` the first to keep the second.
  `Progressed` says for each phase how many reports have been sent and which outcome is
  possible. `Registry` ties each entry of `jobCancels` to the goroutine that stored it, `Trees`
  the worktrees on disk to the phases; `Unregister` and `Cleanup` delete by id, which is harmless
  only because of `Dedup`. For the refinement, `IdMoves` says that a goroutine that changes its phase
  takes its id from one column of the board to another, and `RunningCount` turns the count of
  goroutines that hold a slot into a bound on the ids that run.
- **Connection.** `OnceInv` says how far the loop inside `sync.Once` has got, so that who comes
  second finds it done. `HistoryInv` says of the counters what they know of the last answers: a
  positive `authFailures` that the last one counted was a refusal. The other loop may count
  between two critical sections, and the invariant does not mind.
- **Runner.** A step of the process is a step or a stutter of each part (`ImplementsConnection`,
  `ImplementsJobs`), so `RunnerProofs` instantiates the proofs of the parts and uses their
  theorems. What is left is `OneLoop`: the poll loop is at the same place in both. `ExitIsClean`
  follows from it, `Base`, `Dedup`, `StopReaches` and `ReturnsLast`.
- **Worktrees.** `TreeInv` ties the shared root and the trees to the runs that work in them.
  `StaleInv` says of every run that no kill or error has `spoiled` that it is `Sound`: at each step of
  the setup and of the removal, which of directory and entry there may be. It has to follow a
  run through the phases of two removals and over a `Crash`, which may fall between any two of
  their commands. `MetInv`: two runs in setup have met, and one
  at a time clones a repository; `CloneInv` says whose work
  an incomplete clone is: that of a run at `cloning`, or its repository is `torn`. A run that goes on
  without a complete clone has then met that run, and this survives the end of either.
- **Approval.** `GateInv`: every list the gate looks at, and every copy of it on its way to the disk
  or back (a draft, the file), names only what the operator allowed; the channel of a dialog holds
  its first decision; a prompt that is alone on the screen, and found no line waiting, has the answer that was
  meant for it. Without the copies a crash
  and a `Load` would break it. `SaveInv`: with no mishap one goroutine saves at a time, and where
  it stands in `Save` says what the file holds.
- **Execution.** `JobInv` ties the station of the job to its box (`BoxInv`), the streaming goroutine
  (`StreamInv`), the result (`OutcomeInv`) and the goroutine that posts (`DrainInv`), for the three
  executors at once (`KindInv`). `OrderInv` has to speak of what may still arrive (`Pending`: late
  requests, the call under way) and not only of `inbox`: a late copy of an earlier chunk is
  harmless, since every chunk before it was heard when it was sent. `TornInv`: nobody but docker's
  stream spoils a chunk.
- **Status window.** `WindowInv` says of each displayed field that it is right *or* which closure in
  the queue, or which call under way, will make it so. `LinkInv` orders closures: behind one that
  takes the connection down there is one that brings it up. `StopInv` follows Stop Agent
  through the queue to its job.
- **Library.** `FileInv` says who may have left the file without a text, `CurrentInv`, `ServerInv`
  and `MetaInv` what is under way while two of file, platform and description differ. They hold
  whatever `Local` does: to the library a process that ends is `Interrupt`.
- **Local.** `Main` is the process that has not launched its successor. `OneInv`: there is one at
  most, and no process is in a reset and a revocation at once. `FilesInv`: `credentials.env` is
  the runner's own until it removes the file, and after that there is none, which is why a
  relaunched program starts in the wizard and not with the old registration. `LogInv` says
  the same of the audit log's name. `SettingsInv` says where the operator's choices are: in memory always, and
  in `runner.yaml` when the runner is `Quiet`; a save on its way there (`Underway`) carries them at each of
  its steps, and is the only one (`Tidy`); `Backed` ties the file to memory at each phase. `PhaseInv`
  says with `SavesFit` what a save may carry. The five levels
  `Orderly`, `Unmixed`, `InTime`, `Plain` of the troubles make one invariant of what the properties
  except: a save by a process on its way out breaks the settings, and not the registration.

Lemmas on the operators of a module are stated once: what moving one goroutine does to the
sets `Holders`, `Active` and `Live` and their cardinality, what appending and taking does to the queue of
the Fyne thread (`Appended`, `Popped`, `InQueueAppended`), what each step of a save or a removal leaves alone (`Tuned`,
`Stepped`, `Framed`).

### What the proofs found

- `RegistrationIsWhole` used to claim one settled process also when a reset and a revocation are
  under way in one process ("both"). `OneInv` was not inductive without it: both handlers call
  `relaunchRunnerApp` (`cmd/runner/main.go:210`, `249`), a reset deletes the runner at the platform
  first and so provokes the revocation, and two successors come up. The run, with two processes,
  could not show it, because a machine with two successors has three; the property now names the
  exception.

### Only model-checked

The liveness properties: `EveryClaimEnds`, `DeletedRunnerStops`, `QuitStopsBoth`, `ProcessEnds`,
`GateIsPassed`, `EveryRunEnds` (liveness under fairness, and `ENABLED`, are beyond TLAPS as
installed); and the three properties that are violated.

## 5. Disagreements

Three are shown by runs that expect a violation, and listed as findings:

- `runner_relaunch`: the logout callback cancels the context before it relaunches the
  app (`cmd/runner/main.go:207`), so the process can end without the relaunch that
  `spec/api-client.md:19` promises.
- `worktrees_isolation`: the scope of file tools is a field all tool jobs share
  (`runner.go:495` against the comment at `runner.go:477`).
- `worktrees_fresh`: the fetch of a bare clone updates no branch (`worktree.go:40` against
  the comment at `worktree.go:23`).

Others were met while modelling; the models follow the code:

- `docs/KNOWLEDGE.md:60-62` draws the slot as taken before the goroutine of a job is
  started; the code claims first and waits for the slot in the goroutine, so the runner
  claims more jobs than it has slots, and drops the waiting ones at shutdown.
- `docs/KNOWLEDGE.md:75-79` reports a non-zero exit as failed; the code reports it as
  complete, with the exit code.
- `spec/api-client.md:19` treats one 401, 403 or 404 as revocation; the code waits for two
  refusals in a row (and for 404 reads the body).
- Two first jobs of one repository at once: one of them fails (`worktree.go:30`), or works
  with an incomplete clone. `LoneSetupSucceeds` states that these, and a kill, are the only ways.
- `SetConnected(true)` is delivered outside `connMu` and may overtake a later
  `SetReconnecting`: the badge can say connected while the platform is unreachable.
- `spec/localconfig.md:97` calls `max_timeout` a hard upper bound; the kill reaches the shell only,
  and a child that keeps the output open keeps the job and its slot. `EveryRunEnds` excepts it.
- A kill inside `git worktree add` leaves a locked entry, one inside `git worktree remove` may leave an
  entry without a directory. `os.Stat` (`worktree.go:45`) then sees nothing to remove, and the add
  of the same job fails. `StaleTreeIsNoObstacle` names both, and shows that they hurt no other run.
- `job.GitRef` that came after the first clone is unknown to it for good, since the fetch brings no
  branch; the second try with `origin/<ref>` (`worktree.go:63`) cannot succeed in a bare clone. The model has
  it as the outcome `noref`.
- docker's output loses 8 bytes per `Read`, not per frame (`docker.go:94`).
- A stop of a local script is reported as complete with -1 (`local.go`), one in docker or
  Kubernetes as an error. When docker's container ends, the log is closed before it is read to the
  end (`docker.go:124`), so the tail of the output may be missing. `SuccessIsReal` names both cases.
- The terminal prompt reads stdin in a goroutine that its timeout does not end
  (`internal/localui/headless.go:30`): the next line typed goes to the job that is gone. A line typed after
  an answer stays in the terminal and answers the next job's prompt. The prompt never tells the platform how the question ended, though it
  was told that it is pending (`local.go:123`).
- Every save of `runner.yaml` truncates the file and then writes it (`config.go:217`), and nothing keeps
  an answer's (`local.go:166`), the heartbeat's (`runner.go:537`) and the settings window's
  (`settings.go:264`) apart: overlapping ones may lose an answer or garble the file, a kill in between leaves it
  empty. `LoneSavePersists` and `SettingsInForce` name both.
- `Load` drops the `:ro` marks (`config.go:196`), and the next save writes the paths without them.
- The window takes Stop Agent away when any other job ends, and when the connection is lost; a
  running job can then not be stopped any more, also after the connection is back
  (`statuswindow.go:445-470`, `716-726`). Jobs of native tools are shown with the button but
  are not in `jobCancels` (`runner.go:54`).
- `spec/localui.md:79` lists three badges; the window has five.
- `spec/localui.md:156` says that `onSave` hot-swaps the configuration. The gear's window changes the
  object the executors use; the tray's gives `cfg.LocalConfig` another object, which
  the executors never see (`main.go:489`).
- The wizard shows "Registered! Token saved automatically." (`launch.go:228`) when the token is only in
  memory; it is written by Save & Start (`launch.go:455`). In the same way `register-local` prints
  "Credentials saved" (`main.go:529`) when its window was closed after the registration.
- The window of the first start quits the app when it is closed (`launch.go:78`), also when
  the runner has been started behind it.
- Closing the settings with `Save` after an approval "Always allow" that came while they were open
  drops that approval (`settings.go:119`).

Where a property concerns one of these, it names it as an exception, and its run shows that there is no
other.

## 6. Not modelled

- **Interpreters and installers**: they search the file system and run package managers one
  after the other; their only effect on others, the paths noted in `runner.yaml`, is in `Install`.
- **Audit log and platform information** append a line and read facts of the host.
- **Sandboxes** are modelled by how a kill ends them. The command lines and profiles
  they build have no state.
- **Native tools** other than the two of the script library read or write one file or
  one page; what they share, the root of the worktree, is in `Worktrees`.
- Of the **API client**, headers, the organization in them and the bodies of the library calls. A
  claim whose answer is lost is handed out again by the platform or not; it is part of the
  platform, which is external, and which may hand out any job at any poll.
- Forms, layout, sounds, uptime and the settings of the server (labels, runtime, namespace).
- Contents of scripts, of output and of arguments; names, and the normalisation of paths.
- In `Local`: a `--config` that is not the default path, a custom path of the audit log, more than one
  settings window at a time, a platform that takes a deleted registration back. In `Library`:
  clocks that differ, a `.meta.json` for pulled scripts (there is none), the usage count itself.

## 7. Plan

Every component is modelled as far as section 6 says, and every safety property is a theorem. What
may still be added, in this order:

1. An abstract specification of the gate of `Approval` (a question, one answer, a verdict) and one of
   the delivery of `Execution` (a job's chunks in order, then its verdict), with their refinements
   checked and proved as `ImplementsBoard` is.
2. Step properties of `Local`, such as that nobody but a removal ends a registration's files.

Runs are kept few: one safety run per module, liveness where something must happen, and
a violation only where the documentation disagrees.
