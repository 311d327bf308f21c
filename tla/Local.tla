------------------------------- MODULE Local -------------------------------
(***************************************************************************)
(* What a desktop runner keeps on its machine, and who changes it:         *)
(* credentials.env, runner.yaml and the copies of the latter in memory.    *)
(* A process starts from them (config.Load, RunAutoLaunch), or registers   *)
(* and writes them (the first-run wizard); the jobs, the heartbeat and the *)
(* settings window of a serving process change runner.yaml; Reset Runner   *)
(* and a revoked registration remove both files and launch the program     *)
(* again.  The programs register-local, init-local and register write the  *)
(* same files, or the shell, whatever else is up.  Sources:                *)
(* cmd/runner/main.go, internal/localui (launch.go, register.go, wizard.go, *)
(* settings.go, tray.go), internal/config.                                 *)
(*                                                                         *)
(* A save by the goroutines of a serving process takes its steps: the      *)
(* LocalConfig is changed and marshalled, the file is truncated, then      *)
(* written; ConfigFile asks what overlapping saves of one process do to an *)
(* answer.  What a process does before it serves, it does alone.  A        *)
(* registration stands for its token, id and name.                         *)
(***************************************************************************)
EXTENDS Naturals, FiniteSets

CONSTANTS
    Procs,      \* processes of the runner that may be up at a time
    Regs,       \* registrations the platform can issue
    NoReg,
    Modes,      \* confirm modes and the other choices of the settings window
    Prints,     \* fingerprints of scripts
    DefaultMode,
    NoConfig    \* no runner.yaml, or one that says nothing: it is empty, or does
                \* not parse; no copy of the settings

ASSUME LocalAssumption ==
    /\ NoReg \notin Regs /\ DefaultMode \in Modes
    /\ Prints \cap {"heartbeat", "window"} = {}

VARIABLES
    env,        \* WORKFLOWFIESTA_TOKEN, _ID and _NAME of the operator's shell
    creds,      \* credentials.env
    yaml,       \* runner.yaml
    live,       \* registrations the platform accepts
    spent,      \* registrations it has issued
    proc,       \* the processes
    wanted,     \* the settings the operator last asked for (a history)
    cleared,    \* registrations whose files a process removed (a history)
    trouble     \* what went wrong so far (a history)

localVars == <<env, creds, yaml, live, spent, proc, wanted, cleared, trouble>>

\* LocalConfig; log is the registration its audit log is named after.
Config  == [mode : Modes, always : SUBSET Prints, org : BOOLEAN, log : Regs \cup {NoReg}]
Default == [mode |-> DefaultMode, always |-> {}, org |-> FALSE, log |-> NoReg]

ASSUME ConfigAssumption == NoConfig \notin Config

\* A settings window, with the always-allowed list it copied when it opened.
Window   == [from : {"none", "gear", "tray"}, always : SUBSET Prints]
NoWindow == [from |-> "none", always |-> {}]

\* A save under way: who saves (a job, by the script its operator allows for good,
\* the heartbeat, the settings window), the text, and how far it is.
Savers == Prints \cup {"heartbeat", "window"}
Save   == [by : Savers, config : Config, at : {"begun", "open", "written"}]

Phases == {"off", "wizard", "registered", "saved", "installing", "naming",
           "serving", "stopping", "done"}

Stages == {"idle", "server", "credentials", "yaml", "scripts", "stop", "relaunch", "quit"}

\* setup is true of register-local; exec is the LocalConfig of the executors and the
\* windows; cfg.LocalConfig is the same object unless copy holds another.
Process ==
    [phase : Phases, setup : BOOLEAN, token : Regs \cup {NoReg},
     exec : Config, copy : Config \cup {NoConfig}, window : Window, saves : SUBSET Save,
     reset : Stages, revoke : Stages, failed : BOOLEAN]

Down == [phase |-> "off", setup |-> FALSE, token |-> NoReg,
         exec |-> Default, copy |-> NoConfig, window |-> NoWindow, saves |-> {},
         reset |-> "idle", revoke |-> "idle", failed |-> FALSE]

Troubles == {"shell", "clearFailed", "relaunchFailed", "saveFailed", "both",
             "foreign", "lateSave", "tray", "snapshot", "beside", "overlap"}

LocalTypeOK ==
    /\ {env, creds} \subseteq Regs \cup {NoReg}
    /\ yaml \in Config \cup {NoConfig}
    /\ live \subseteq spent /\ spent \subseteq Regs /\ cleared \subseteq Regs
    /\ proc \in [Procs -> Process]
    /\ wanted \in [mode : Modes, always : SUBSET Prints]
    /\ trouble \subseteq Troubles

\* A machine with a registration, in its files or in the shell, or none.
LocalInit ==
    /\ env \in Regs \cup {NoReg}
    /\ creds \in Regs \cup {NoReg}
    /\ NoReg \in {env, creds}
    /\ spent = {env, creds} \ {NoReg}
    /\ live = spent
    /\ yaml \in {NoConfig} \cup {[Default EXCEPT !.log = r] : r \in spent}
    /\ proc = [p \in Procs |-> Down]
    /\ wanted = [mode |-> DefaultMode, always |-> {}]
    /\ cleared = {}
    /\ trouble = {}

Up(p)      == proc[p].phase # "off"
Serving(p) == proc[p].phase = "serving"
Running(p) == proc[p].phase \in {"serving", "stopping"}
Warn(S)    == trouble' = trouble \cup S
If(c, x)   == IF c THEN {x} ELSE {}

---------------------------------------------------------------------------
(* Start and registration *)

\* A file that is absent, is empty or does not parse gives the defaults.
Loaded == IF yaml = NoConfig THEN Default ELSE yaml

\* config.Load: a registration in the environment goes before credentials.env.
Token(shell) == IF shell # NoReg THEN shell ELSE creds

\* Mutant: a file that is absent gives no settings.
BootedUnread(token) ==
    [Down EXCEPT !.phase = IF token = NoReg THEN "wizard" ELSE "naming",
                 !.token = token,
                 !.exec  = IF token = NoReg THEN Default ELSE yaml]

\* RunAutoLaunch with that token.
Booted(token) ==
    [Down EXCEPT !.phase = IF token = NoReg THEN "wizard" ELSE "naming",
                 !.token = token,
                 !.exec  = IF token = NoReg THEN Default ELSE Loaded]

\* The operator starts the program when it is not up, from the shell or from the
\* desktop.
Launch(p, shell) ==
    LET token == Token(IF shell THEN env ELSE NoReg) IN
    /\ \A q \in Procs : ~Up(q)
    /\ proc' = [proc EXCEPT ![p] = Booted(token)]
    /\ Warn(If(/\ token # NoReg
               /\ {creds, Loaded.log} \ {NoReg, token} # {} \/ token \in cleared,
               "shell"))
    /\ UNCHANGED <<env, creds, yaml, live, spent, wanted, cleared>>

\* Whoever sets up is not alone on the machine.
Beside == If(\E q \in Procs : Up(q), "beside")

\* register-local, a program of its own: the wizard, but no runner after it.
StartSetup(p) ==
    /\ ~Up(p)
    /\ proc' = [proc EXCEPT ![p] = [Down EXCEPT !.phase = "wizard", !.setup = TRUE]]
    /\ Warn(Beside)
    /\ UNCHANGED <<env, creds, yaml, live, spent, wanted, cleared>>

\* callRegisterAPI: the code is answered with a new registration.
RegisterAPI(r) ==
    /\ r \notin spent
    /\ spent' = spent \cup {r}
    /\ live' = live \cup {r}

\* When the answer is lost, the registration stays.
Register(p) ==
    /\ proc[p].phase = "wizard"
    /\ \E r \in Regs :
        /\ RegisterAPI(r)
        /\ \/ proc' = [proc EXCEPT ![p].phase = "registered", ![p].token = r]
           \/ proc' = proc
    /\ UNCHANGED <<env, creds, yaml, wanted, cleared, trouble>>

\* The command register prints a registration for the operator's shell.
RegisterCommand ==
    /\ \E r \in Regs : RegisterAPI(r) /\ env' \in {env, r}
    /\ Warn(Beside)
    /\ UNCHANGED <<creds, yaml, proc, wanted, cleared>>

\* What the forms of a set-up make of the operator's choices: the rest is default.
Chosen(m) == [Default EXCEPT !.mode = m]
Wants(m)  == wanted' = [mode |-> m, always |-> {}]

\* A save of runner.yaml by a process that has nothing else to do.  One that fails,
\* or that the end of the process cuts short, leaves the file as it was or empty.
SaveBreaks(S)    == yaml' \in {yaml, NoConfig} /\ Warn(S \cup {"saveFailed"})
Saves(config, S) == (yaml' = config /\ Warn(S)) \/ SaveBreaks(S)

\* init-local asks for the settings, and replaces runner.yaml.
InitLocal(m) ==
    /\ Saves(Chosen(m), Beside)
    /\ Wants(m)
    /\ UNCHANGED <<env, creds, live, spent, proc, cleared>>

\* Save & Start writes runner.yaml; a failure is shown, ...
WizardSaves(p, m) ==
    /\ proc[p].phase = "registered"
    /\ \/ /\ yaml' = Chosen(m)
          /\ proc' = [proc EXCEPT ![p].phase = "saved", ![p].exec = Chosen(m)]
          /\ Wants(m)
          /\ UNCHANGED trouble
       \/ SaveBreaks({}) /\ UNCHANGED <<proc, wanted>>
    /\ UNCHANGED <<env, creds, live, spent, cleared>>

\* ... then credentials.env, ...
WriteCredentials(r) == creds' = r

\* ... and when that fails, or is cut short, the operator may try again.
WizardCredentials(p) ==
    /\ proc[p].phase = "saved"
    /\ \/ /\ WriteCredentials(proc[p].token)
          /\ proc' = [proc EXCEPT ![p].phase = IF proc[p].setup THEN "done" ELSE "installing"]
       \/ /\ creds' \in {creds, NoReg}
          /\ proc' = [proc EXCEPT ![p].phase = "registered"]
    /\ UNCHANGED <<env, yaml, live, spent, wanted, cleared, trouble>>

\* The interpreters are looked for, installed and noted in runner.yaml, unless
\* all were there.
Install(p) ==
    /\ proc[p].phase = "installing"
    /\ proc' = [proc EXCEPT ![p].phase = "naming"]
    /\ Saves(proc[p].exec, {}) \/ UNCHANGED <<yaml, trouble>>
    /\ UNCHANGED <<env, creds, live, spent, wanted, cleared>>

\* applyNamedAuditLog; then the runner is started.
StartServing(p) ==
    /\ proc[p].phase = "naming"
    /\ IF proc[p].exec.log = NoReg
       THEN /\ proc' = [proc EXCEPT ![p].phase = "serving",
                                    ![p].exec.log = proc[p].token]
            /\ Saves(proc'[p].exec, {})
       ELSE /\ proc' = [proc EXCEPT ![p].phase = "serving"]
            /\ UNCHANGED <<yaml, trouble>>
    /\ UNCHANGED <<env, creds, live, spent, wanted, cleared>>

---------------------------------------------------------------------------
(* Settings of a serving process *)

\* p has removed its registration.
Late(p) == proc[p].token \in cleared

InSave(p, who) == \E s \in proc[p].saves : s.by = who

\* Save: MkdirAll, yaml.Marshal, ...
Begun(who, config) == {[by |-> who, config |-> config, at |-> "begun"]}
Hurried(p)         == If(proc[p].saves # {}, "overlap") \cup If(Late(p), "lateSave")

\* ... os.WriteFile opens with O_TRUNC, ...
SaveOpens(p) ==
    /\ \E s \in proc[p].saves :
         /\ s.at = "begun"
         /\ proc' = [proc EXCEPT ![p].saves = (@ \ {s}) \cup {[s EXCEPT !.at = "open"]}]
    /\ yaml' = NoConfig
    /\ Warn(If(Late(p), "lateSave"))
    /\ UNCHANGED <<env, creds, live, spent, wanted, cleared>>

\* The save s of p is over; the settings window has something left to do.
Over(p, s) ==
    proc' = [proc EXCEPT ![p].saves =
        (@ \ {s}) \cup (IF s.by = "window" THEN {[s EXCEPT !.at = "written"]} ELSE {})]

\* ... and writes from the start of the file: the tail of a longer text that
\* another save has written meanwhile remains.
SaveWrites(p) ==
    /\ \E s \in proc[p].saves :
         /\ s.at = "open"
         /\ Over(p, s)
         /\ yaml' \in {s.config} \cup (IF yaml = NoConfig THEN {} ELSE {NoConfig})
    /\ Warn(If(Late(p), "lateSave"))
    /\ UNCHANGED <<env, creds, live, spent, wanted, cleared>>

\* It fails, which is at most logged, or the file was removed after the open.
SaveFails(p) ==
    /\ \E s \in proc[p].saves : s.at # "written" /\ Over(p, s)
    /\ Warn({"saveFailed"})
    /\ UNCHANGED <<env, creds, yaml, live, spent, wanted, cleared>>

\* A job's operator answers "Always allow".
AlwaysAllow(p, f) ==
    /\ Running(p)
    /\ f \notin proc[p].exec.always
    /\ ~InSave(p, f)
    /\ LET config == [proc[p].exec EXCEPT !.always = @ \cup {f}] IN
       proc' = [proc EXCEPT ![p].exec = config, ![p].saves = @ \cup Begun(f, config)]
    /\ wanted' = [wanted EXCEPT !.always = @ \cup {f}]
    /\ Warn(Hurried(p) \cup If(proc[p].window # NoWindow, "snapshot"))
    /\ UNCHANGED <<env, creds, yaml, live, spent, cleared>>

\* applyHeartbeatOrgID: cfg.LocalConfig learns the organization and is saved.
HeartbeatOrg(p) ==
    LET shared  == IF proc[p].copy = NoConfig THEN proc[p].exec ELSE proc[p].copy
        config  == [shared EXCEPT !.org = TRUE]
        learned == [proc[p] EXCEPT !.saves = @ \cup Begun("heartbeat", config)]
    IN
    /\ Serving(p)
    /\ proc[p].token \in live
    /\ ~shared.org
    /\ ~InSave(p, "heartbeat")
    /\ proc' = [proc EXCEPT ![p] = IF @.copy = NoConfig
                                   THEN [learned EXCEPT !.exec = config]
                                   ELSE [learned EXCEPT !.copy = config]]
    /\ Warn(Hurried(p))
    /\ UNCHANGED <<env, creds, yaml, live, spent, wanted, cleared>>

\* One window at a time is a bound.
OpenSettings(p, from) ==
    /\ Running(p)
    /\ proc[p].window = NoWindow
    /\ proc' = [proc EXCEPT ![p].window = [from |-> from, always |-> proc[p].exec.always]]
    /\ UNCHANGED <<env, creds, yaml, live, spent, wanted, cleared, trouble>>

\* Mutant: onSave of the gear's window only points cfg.LocalConfig elsewhere.
PointedElsewhere(process, updated) ==
    [process EXCEPT !.copy = updated, !.window = NoWindow]

\* onSave: the gear's window changes the object the executors use, the tray's
\* gives cfg another one.
Handed(process, updated) ==
    IF process.window.from = "gear"
    THEN [process EXCEPT !.exec = updated, !.copy = NoConfig, !.window = NoWindow]
    ELSE [process EXCEPT !.copy = updated, !.window = NoWindow]

\* Save & Close, with the fingerprints the operator kept: the window's callback
\* copies the object of the executors and saves the copy, ...
SaveSettings(p, m, keep) ==
    LET window  == proc[p].window
        updated == [proc[p].exec EXCEPT !.mode = m, !.always = keep]
    IN
    /\ Running(p)
    /\ window # NoWindow
    /\ ~InSave(p, "window")
    /\ keep \subseteq window.always
    /\ proc' = [proc EXCEPT ![p].saves = @ \cup Begun("window", updated)]
    /\ wanted' = [mode |-> m, always |-> wanted.always \ (window.always \ keep)]
    /\ Warn(Hurried(p) \cup If(window.from = "tray", "tray"))
    /\ UNCHANGED <<env, creds, yaml, live, spent, cleared>>

\* ... and then, whether it could save or not, hands the copy over and closes.
OnSave(p) ==
    /\ \E s \in proc[p].saves :
         LET rest == [proc[p] EXCEPT !.saves = @ \ {s}] IN
         /\ s.at = "written"
         /\ proc' = [proc EXCEPT ![p] = Handed(rest, s.config)]
    /\ UNCHANGED <<env, creds, yaml, live, spent, wanted, cleared, trouble>>

\* While that callback runs, the user interface takes no other click.
CloseSettings(p) ==
    /\ proc[p].window # NoWindow
    /\ ~InSave(p, "window")
    /\ proc' = [proc EXCEPT ![p].window = NoWindow]
    /\ UNCHANGED <<env, creds, yaml, live, spent, wanted, cleared, trouble>>

---------------------------------------------------------------------------
(* Reset Runner and a revoked registration *)

\* buildClearConfigurationHandler, in a goroutine of the settings window.
Reset(p) ==
    /\ Running(p)
    /\ proc[p].reset = "idle"
    /\ ~InSave(p, "window")
    /\ proc' = [proc EXCEPT ![p].reset = "server", ![p].failed = FALSE]
    /\ Warn(If(proc[p].revoke # "idle", "both"))
    /\ UNCHANGED <<env, creds, yaml, live, spent, wanted, cleared>>

\* DeleteRunner; a failure is logged.
ResetServer(p) ==
    /\ proc[p].reset = "server"
    /\ proc' = [proc EXCEPT ![p].reset = "credentials"]
    /\ live' \in {live, live \ {proc[p].token}}
    /\ UNCHANGED <<env, creds, yaml, spent, wanted, cleared, trouble>>

\* buildRegistrationRevokedHandler: the platform has refused the token.
Revoked(p) ==
    /\ Serving(p)
    /\ proc[p].token \notin live
    /\ proc[p].revoke = "idle"
    /\ proc' = [proc EXCEPT ![p].revoke = "credentials"]
    /\ Warn(If(Late(p) \/ proc[p].reset # "idle", "both"))
    /\ UNCHANGED <<env, creds, yaml, live, spent, wanted, cleared>>

\* ClearLocalState removes what is in the directory in the order of the names.
\* The first failure ends it: the reset remembers it, the revocation logs it.
ClearCredentials(p) ==
    /\ creds' = NoReg
    /\ cleared' = cleared \cup ({creds, proc[p].token} \ {NoReg})
    /\ Warn(If(creds \notin {NoReg, proc[p].token}, "foreign"))
    /\ UNCHANGED <<yaml, wanted>>

ClearYaml ==
    /\ yaml' = NoConfig
    /\ wanted' = [mode |-> DefaultMode, always |-> {}]
    /\ UNCHANGED <<creds, cleared, trouble>>

ClearFails == Warn({"clearFailed"}) /\ UNCHANGED <<creds, yaml, wanted, cleared>>

ResetClears(p) ==
    /\ \/ /\ proc[p].reset = "credentials"
          /\ ClearCredentials(p)
          /\ proc' = [proc EXCEPT ![p].reset = "yaml"]
       \/ /\ proc[p].reset = "yaml"
          /\ ClearYaml
          /\ proc' = [proc EXCEPT ![p].reset = "scripts"]
       \/ /\ proc[p].reset \in {"credentials", "yaml", "scripts"}
          /\ ClearFails
          /\ proc' = [proc EXCEPT ![p].reset = "relaunch", ![p].failed = TRUE]
    /\ UNCHANGED <<env, live, spent>>

\* The scripts, if the operator ticked the box; they belong to Library.
ResetScripts(p) ==
    /\ proc[p].reset = "scripts"
    /\ proc' = [proc EXCEPT ![p].reset = "relaunch"]
    /\ UNCHANGED <<env, creds, yaml, live, spent, wanted, cleared, trouble>>

RevokeClears(p) ==
    /\ \/ /\ proc[p].revoke = "credentials"
          /\ ClearCredentials(p)
          /\ proc' = [proc EXCEPT ![p].revoke = "yaml"]
       \/ /\ proc[p].revoke = "yaml"
          /\ ClearYaml
          /\ proc' = [proc EXCEPT ![p].revoke = "stop"]
       \/ /\ proc[p].revoke \in {"credentials", "yaml"}
          /\ ClearFails
          /\ proc' = [proc EXCEPT ![p].revoke = "stop"]
    /\ UNCHANGED <<env, live, spent>>

\* onStop: Run returns, and from here on main may end the process.
RevokeStops(p) ==
    /\ proc[p].revoke = "stop"
    /\ proc' = [proc EXCEPT ![p].revoke = "relaunch", ![p].phase = "stopping"]
    /\ UNCHANGED <<env, creds, yaml, live, spent, wanted, cleared, trouble>>

\* Mutant: the relaunched program inherits the whole environment.
UnfilteredEnv == env

\* filteredEnvForRelaunch drops the registration.
FilteredEnv == NoReg

\* relaunchRunnerApp: the program again, beside the process p that goes on as self.
Relaunched(p, self) ==
    \E q \in Procs :
        /\ ~Up(q)
        /\ proc' = [proc EXCEPT ![p] = self, ![q] = Booted(Token(FilteredEnv))]

\* A reset that failed in part shows its error, and the process goes on.
ResetRelaunches(p) ==
    /\ proc[p].reset = "relaunch"
    /\ \/ /\ Relaunched(p,
                 [proc[p] EXCEPT !.reset = IF proc[p].failed THEN "idle" ELSE "quit"])
          /\ UNCHANGED trouble
       \/ /\ proc' = [proc EXCEPT ![p].reset = "idle", ![p].failed = TRUE]
          /\ Warn({"relaunchFailed"})
    /\ UNCHANGED <<env, creds, yaml, live, spent, wanted, cleared>>

RevokeRelaunches(p) ==
    /\ proc[p].revoke = "relaunch"
    /\ \/ Relaunched(p, [proc[p] EXCEPT !.revoke = "quit"]) /\ UNCHANGED trouble
       \/ proc' = [proc EXCEPT ![p].revoke = "quit"] /\ Warn({"relaunchFailed"})
    /\ UNCHANGED <<env, creds, yaml, live, spent, wanted, cleared>>

---------------------------------------------------------------------------
\* The process ends: QuitApp, the operator closes the wizard or quits from the
\* tray, the machine goes down.  A save under way gets no further.
End(p) ==
    /\ Up(p)
    /\ proc' = [proc EXCEPT ![p] = Down]
    /\ Warn(If(\E s \in proc[p].saves : s.at # "written", "saveFailed"))
    /\ UNCHANGED <<env, creds, yaml, live, spent, wanted, cleared>>

\* An administrator deletes the runner.
AdminDeletes(r) ==
    /\ r \in live
    /\ live' = live \ {r}
    /\ UNCHANGED <<env, creds, yaml, spent, proc, wanted, cleared, trouble>>

\* What the program does of its own accord.
ProcessStep(p) ==
    \/ WizardCredentials(p) \/ Install(p) \/ StartServing(p)
    \/ HeartbeatOrg(p) \/ SaveOpens(p) \/ SaveWrites(p) \/ SaveFails(p) \/ OnSave(p)
    \/ ResetServer(p) \/ ResetClears(p) \/ ResetRelaunches(p)
    \/ Revoked(p) \/ RevokeClears(p) \/ RevokeStops(p) \/ RevokeRelaunches(p)

\* The programs that set up, and what its operator does to a process besides
\* launching it.  LocalState bounds SetsUp and OperatorActs.
SetsUp ==
    \/ \E p \in Procs : StartSetup(p)
    \/ \E m \in Modes : InitLocal(m)
    \/ RegisterCommand

OperatorActs(p) ==
    \/ \E f \in Prints : AlwaysAllow(p, f)
    \/ \E from \in {"gear", "tray"} : OpenSettings(p, from)
    \/ Reset(p)

OperatorDecides(p) ==
    \/ Register(p)
    \/ \E m \in Modes : WizardSaves(p, m)
    \/ \E m \in Modes, keep \in SUBSET Prints : SaveSettings(p, m, keep)
    \/ CloseSettings(p)

---------------------------------------------------------------------------
\* A process at work, with neither a reset nor a revocation under way.
Settled(p) == Serving(p) /\ proc[p].reset = "idle" /\ proc[p].revoke = "idle"

Without(S) == trouble \cap S = {}

\* After any number of registrations, resets and revocations, one process is at
\* work, with the registration of the files (or of the shell, without a file),
\* which nobody has removed, and with the audit log of that registration; and a
\* process removes the registration of nobody else.  What can break it has a
\* name: a stale registration in the shell, a removal or a relaunch that failed
\* (main.go:246-257: the process then goes on), a reset and a revocation in one
\* process, a save by a process on its way out, a set-up beside a process that
\* is up (it replaces the files, which the other then removes or saves over).
RegistrationIsWhole ==
    /\ Without({"shell", "clearFailed", "relaunchFailed", "both"}) =>
         \A p, q \in Procs : Settled(p) /\ Settled(q) => p = q
    /\ Without({"shell", "clearFailed", "relaunchFailed", "both", "lateSave",
                "beside"}) =>
         \A p \in Procs : Settled(p) =>
            /\ proc[p].token = IF creds = NoReg THEN env ELSE creds
            /\ proc[p].token \notin cleared
            /\ proc[p].exec.log = proc[p].token
    /\ "foreign" \in trouble =>
         ~Without({"shell", "clearFailed", "relaunchFailed", "both", "beside"})

\* The settings in force are the operator's last, in memory and in runner.yaml,
\* whenever no save is under way: the choices of the wizard or of the settings
\* window, and every "Always allow" that was not taken back.  What can break it
\* has a name: a save that failed, or that the end of the process cut short
\* between the truncation and the write (config.go:217); two saves of a process
\* that overlapped, an answer's, the heartbeat's or the window's (local.go:166,
\* runner.go:537, settings.go:264); settings saved from the tray, whose object
\* the executors do not use (main.go:489-491); an answer given while a settings
\* window was open, which saves the list it copied (settings.go:119,241); a
\* second process, or one on its way out, that saves its own copy; a set-up
\* beside a process that is up.
SettingsInForce ==
    Without({"shell", "clearFailed", "relaunchFailed", "both", "lateSave",
             "beside", "saveFailed", "overlap", "tray", "snapshot"}) =>
      \A p \in Procs : Settled(p) /\ proc[p].saves = {} =>
         /\ yaml = proc[p].exec
         /\ [mode |-> yaml.mode, always |-> yaml.always] = wanted
=============================================================================
