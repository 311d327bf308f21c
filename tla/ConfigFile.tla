----------------------------- MODULE ConfigFile -----------------------------
(***************************************************************************)
(* runner.yaml and its copy in memory: internal/localconfig/config.go.     *)
(* The file is read once, at start.  Afterwards several goroutines change  *)
(* the LocalConfig they share and save it whole, without a lock around the *)
(* save: a job whose operator answered "Always allow", the heartbeat that  *)
(* learns the org id.  Save takes three steps here: yaml.Marshal reads the *)
(* fields, os.WriteFile truncates the file, and then writes it.            *)
(*                                                                         *)
(* What the file says beyond the defaults is a set of entries; a file that *)
(* is absent or empty says nothing and loads as the defaults.              *)
(***************************************************************************)
EXTENDS Naturals, FiniteSets

CONSTANTS
    Savers,    \* goroutines that save
    Entries,   \* settings that differ from Default()
    AtStart,   \* what the file may say when the process starts
    ReadOnly   \* the entries that are ":ro" marks of allowed paths

ASSUME ConfigAssumption ==
    ReadOnly \subseteq Entries /\ AtStart \subseteq SUBSET Entries

VARIABLES
    memory,    \* the LocalConfig in memory
    file,      \* runner.yaml
    save,      \* where each saver stands in Save
    draft      \* what it has marshalled

configVars == <<memory, file, save, draft>>

\* A text of the file: one that parses, with what it says, or one that does not.
Text    == [parses : BOOLEAN, says : SUBSET Entries]
Yaml(e) == [parses |-> TRUE, says |-> e]
Garbled == [parses |-> FALSE, says |-> {}]

ConfigTypeOK ==
    /\ memory \subseteq Entries
    /\ file \in Text
    /\ save \in [Savers -> {"idle", "marshal", "open", "write"}]
    /\ draft \in [Savers -> SUBSET Entries]

\* Load on a file that parses: expandTilde(stripROSuffix(p)) drops the marks.
Load(text) == text.says \ ReadOnly

\* The file is whole when the process starts, with some settings in it.
ConfigInit ==
    /\ file \in {Yaml(e) : e \in AtStart}
    /\ memory = Load(file)
    /\ save = [s \in Savers |-> "idle"]
    /\ draft = [s \in Savers |-> {}]

\* What the file holds after new has been written over old from offset 0: the
\* tail of a longer text that another saver wrote meanwhile remains.
Overlays(old, new) ==
    IF old.parses /\ old.says \subseteq new THEN {Yaml(new)} ELSE {Yaml(new), Garbled}

\* The caller has changed the fields it saves, in the same step.
BeginSave(s) == save[s] = "idle" /\ save' = [save EXCEPT ![s] = "marshal"]

Marshal(s, config) ==
    /\ save[s] = "marshal"
    /\ draft' = [draft EXCEPT ![s] = config]
    /\ save' = [save EXCEPT ![s] = "open"]
    /\ UNCHANGED <<memory, file>>

\* os.WriteFile opens with O_TRUNC.
Open(s) ==
    /\ save[s] = "open"
    /\ file' = Yaml({})
    /\ save' = [save EXCEPT ![s] = "write"]
    /\ UNCHANGED <<memory, draft>>

Write(s) ==
    /\ save[s] = "write"
    /\ file' \in Overlays(file, draft[s])
    /\ save' = [save EXCEPT ![s] = "idle"]
    /\ UNCHANGED <<memory, draft>>

\* MkdirAll, the open or the write fails; a file already truncated stays so.
SaveFails(s) ==
    /\ save[s] \in {"open", "write"}
    /\ save' = [save EXCEPT ![s] = "idle"]
    /\ UNCHANGED <<memory, file, draft>>

\* The process ends, whatever it was saving, and starts again later.  A file
\* that does not parse says nothing: it stops run-local, and RunAutoLaunch then
\* takes the defaults.
Reload ==
    /\ memory' = Load(file)
    /\ save' = [s \in Savers |-> "idle"]
    /\ draft' = [s \in Savers |-> {}]
    /\ UNCHANGED file

Saving == {s \in Savers : save[s] # "idle"}
=============================================================================
