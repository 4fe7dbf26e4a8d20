\* Two runs that follow each other or overlap, on either system; a run may
\* stay where it is, and all of them end: no deadlock is reported.
CONSTANTS
    Install = {i1, i2}
    Systems = {"nt", "posix"}
    Options <- MCOptions
SPECIFICATION BackendSpec
INVARIANTS NoClearnetFallback NothingLeftBehind
PROPERTIES ImplementsInstaller
CHECK_DEADLOCK FALSE
