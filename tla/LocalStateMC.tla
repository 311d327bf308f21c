---------------------------- MODULE LocalStateMC ----------------------------
(* Model-checking instance of LocalState. *)
EXTENDS LocalState, TLC

\* Processes, their goroutines and registrations are interchangeable.
Symmetry == Permutations(Procs) \cup Permutations(Slots) \cup Permutations(Regs)

\* Bound: the run follows what happens until the second thing goes wrong, and no
\* further than the first one unless it is one of these or concerns the library;
\* once a registration is in trouble, a process at work saves nothing any more.
Followed  == {"shell", "relaunchFailed", "beside"}
NoneSaves == \A p \in Procs : proc[p].saves = {}
FewTroubles ==
    /\ trouble \subseteq Followed
    /\ trouble # {} => newest = 0 /\ NoneSaves
    /\ Cardinality(trouble) + Cardinality(mishaps \ {"pulled"}) <= 1

\* Bound: a script is worked at only as long as the settings, which are in another
\* file, are the defaults, and they are saved only while there is no script.
AtDefault(config) == config = NoConfig \/ [config EXCEPT !.log = NoReg] = Default
SettingsOrScripts ==
    \/ newest = 0 /\ \A w \in Workers : work[w] = L!Idle
    \/ /\ NoneSaves /\ AtDefault(yaml)
       /\ \A p \in Procs : AtDefault(proc[p].exec) /\ proc[p].copy = NoConfig
=============================================================================
