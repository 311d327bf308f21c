\* Two processes with two goroutines each, two registrations, two texts of one
\* script, two launches and three events; LocalStateMC names the constraints.
CONSTANTS
    Procs = {p1, p2}
    Regs = {r1, r2}
    NoReg = NoReg
    Modes = {ask, never}
    DefaultMode = ask
    Prints = {f1}
    NoConfig = NoConfig
    Slots = {s1, s2}
    MaxText = 2
    MaxLaunches = 2
    MaxEvents = 3
SYMMETRY Symmetry
SPECIFICATION Spec
CHECK_DEADLOCK FALSE
CONSTRAINTS FewTroubles SettingsOrScripts
INVARIANTS TypeOK RegistrationIsWhole SettingsInForce LibraryIsCurrent
