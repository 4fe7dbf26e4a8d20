------------------------------ MODULE SetupRuns ------------------------------
(***************************************************************************)
(* What the runs of scripts/setup_backend.py have in common, as Installer  *)
(* sees them and as SetupBackend does: the system they run on.             *)
(***************************************************************************)

CONSTANTS
    Install,    \* runs of the programme
    Systems     \* values of os.name

ASSUME SystemsAssumption == Systems \subseteq {"nt", "posix"}

VARIABLE os     \* os.name
==============================================================================
