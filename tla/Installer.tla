------------------------------ MODULE Installer ------------------------------
(***************************************************************************)
(* What scripts/setup_web.py relies on when it runs setup_backend.py: a    *)
(* run puts parts on a disk that keeps them, and its exit code is 0 only   *)
(* if they are there.  Of Tor that is the file: whether it works, nobody   *)
(* asks.  SetupBackend implements this module, SetupWeb uses it.           *)
(***************************************************************************)
EXTENDS SetupRuns

CONSTANT Base  \* the parts every system needs

ASSUME BaseAssumption == Base \subseteq {"venv", "deps", "config"}

VARIABLES
    have,       \* the parts on the disk
    run,        \* run[i]: run i is "off", "running", "ok" or "failed"
    skip        \* skip[i]: its --skip-killswitch

installVars == <<os, have, run, skip>>

Part == Base \cup {"torFile", "killswitch"}

InstallInit ==
    /\ os \in Systems
    /\ have \in SUBSET Part
    /\ run = [i \in Install |-> "off"]
    /\ skip = [i \in Install |-> FALSE]

Start(i, doSkip) ==
    /\ run[i] = "off"
    /\ run' = [run EXCEPT ![i] = "running"]
    /\ skip' = [skip EXCEPT ![i] = doSkip]
    /\ UNCHANGED <<os, have>>

\* Only Windows gets a Tor; everything else comes on every system.
Provide(i) ==
    /\ run[i] = "running"
    /\ \E part \in Part :
         /\ part \in {"torFile", "killswitch"} => os = "nt"
         /\ have' = have \cup {part}
    /\ UNCHANGED <<os, run, skip>>

Installed(i) ==
    /\ Base \subseteq have
    /\ os = "nt" => "torFile" \in have /\ (skip[i] \/ "killswitch" \in have)

End(i) ==
    /\ run[i] = "running"
    /\ \/ Installed(i) /\ run' = [run EXCEPT ![i] = "ok"]
       \/ run' = [run EXCEPT ![i] = "failed"]
    /\ UNCHANGED <<os, have, skip>>

InstallNext ==
    \E i \in Install :
        (\E doSkip \in BOOLEAN : Start(i, doSkip)) \/ Provide(i) \/ End(i)

InstallSpec == InstallInit /\ [][InstallNext]_installVars
==============================================================================
