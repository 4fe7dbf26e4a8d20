---------------------------- MODULE SetupBackend ----------------------------
(***************************************************************************)
(* scripts/setup_backend.py: the process that sets OnionCall up, run again *)
(* after failures and kills, on a disk that keeps what earlier runs did.   *)
(* A step is one call that can fail: a download, an extraction, a child    *)
(* process.  Module SetupWeb uses its abstraction Installer.               *)
(***************************************************************************)
EXTENDS SetupRuns

CONSTANT Options  \* command lines

Option == [allow : BOOLEAN, skip : BOOLEAN]

ASSUME OptionsAssumption == Options \subseteq Option

VARIABLES
    parts,      \* the parts that are installed
    bundle,     \* tools/tor or a Tor of the system; "broken": not all of it
    ffmpeg,     \* tools/ffmpeg; "partial": not both programs in it
    pc,         \* pc[i]: where run i is
    opt,        \* opt[i]: its --allow-clearnet and --skip-killswitch
    goal,       \* goal[i]: what it fetches over Tor
    attempt,    \* attempt[i]: the first or the second try of that
    result,     \* result[i]: how the try ended
    torProc,    \* torProc[i]: the Tor it has started
    staging,    \* staging[i]: its directory .ffmpeg-install-<pid>: "whole", or
                \* the "rest" of files that could not be deleted
    direct,     \* direct[i]: what but Tor itself it fetched without Tor
    code        \* code[i]: how it ended

disk == <<parts, bundle, ffmpeg>>
tryVars == <<goal, attempt, result, torProc>>
backendVars ==
    <<os, disk, pc, opt, tryVars, staging, direct, code>>

BackendPart == {"venv", "deps", "config", "torpath", "killswitch"}
Phase == {"off", "venv", "tor", "fetchTor", "unpackTor", "unpackedTor", "deps",
          "spawn", "wait", "load", "down", "ffmpeg", "stage", "swap", "move",
          "verify", "init", "path", "killswitch", "done", "exited"}

BackendInit ==
    /\ os \in Systems
    /\ parts \in {{}, {"venv", "deps", "config"}}
    /\ bundle \in {"absent", "complete"} /\ ffmpeg \in {"absent", "partial"}
    /\ pc = [i \in Install |-> "off"]
    /\ opt = [i \in Install |-> [allow |-> FALSE, skip |-> FALSE]]
    /\ goal = [i \in Install |-> "deps"]
    /\ attempt = [i \in Install |-> 1]
    /\ result = [i \in Install |-> "ok"]
    /\ torProc = [i \in Install |-> "none"]
    /\ staging = [i \in Install |-> "none"]
    /\ direct = [i \in Install |-> {}]
    /\ code = [i \in Install |-> "none"]

Alive(i) == pc[i] \notin {"off", "exited"}
At(i, phase) == pc[i] = phase
Goes(i, phase) == pc' = [pc EXCEPT ![i] = phase] /\ UNCHANGED code
\* SystemExit, an exception nobody catches, or the end of main().
Exits(i, how) ==
    pc' = [pc EXCEPT ![i] = "exited"] /\ code' = [code EXCEPT ![i] = how]
Installs(part) == parts' = parts \cup {part} /\ UNCHANGED <<bundle, ffmpeg>>
Directly(i, what) == direct' = [direct EXCEPT ![i] = @ \cup {what}]
KeepTry == UNCHANGED <<os, opt, tryVars>>
KeepFiles == UNCHANGED <<staging, direct>>

\* Popen: the programme starts with its options.
Run(i, options) ==
    /\ At(i, "off")
    /\ Goes(i, "venv")
    /\ opt' = [opt EXCEPT ![i] = options]
    /\ UNCHANGED <<os, disk, tryVars>> /\ KeepFiles

\* A step that installs a part or ends the run.
Provides(i, part, next) ==
    /\ \/ Installs(part) /\ Goes(i, next)
       \/ Exits(i, "failed") /\ UNCHANGED disk
    /\ KeepTry /\ KeepFiles
Skips(i, next) == Goes(i, next) /\ UNCHANGED disk /\ KeepTry /\ KeepFiles

------------------------------------------------------------------------------
(* Python and Tor.                                                          *)

\* find_tor looks for the file; it cannot tell a broken Tor from a whole one.
FindTor == bundle # "absent"

EnsureVenv(i) ==
    /\ At(i, "venv")
    /\ IF "venv" \in parts THEN Skips(i, "tor") ELSE Provides(i, "venv", "tor")

LookForTor(i) ==
    /\ At(i, "tor")
    /\ Skips(i, IF os = "nt" /\ ~FindTor THEN "fetchTor" ELSE "deps")

\* The one download that cannot go over Tor, with its checksum ...
FetchTor(i) ==
    /\ At(i, "fetchTor")
    /\ Goes(i, "unpackTor") \/ Exits(i, "failed")
    /\ UNCHANGED disk /\ KeepTry /\ KeepFiles

\* ... is extracted in its place: tor.exe is there before it is complete, and is
\* broken again as long as another run writes it a second time.
UnpackTor(i) ==
    /\ At(i, "unpackTor")
    /\ bundle' = "broken"
    /\ Goes(i, "unpackedTor")
    /\ UNCHANGED <<parts, ffmpeg>> /\ KeepTry /\ KeepFiles

UnpackedBy(runs) == \E j \in runs : At(j, "unpackedTor")

\* The archive's directory, deleted at last, can fail a run that has its Tor.
UnpackedTor(i) ==
    /\ At(i, "unpackedTor")
    /\ \/ /\ bundle' = "complete" \/ (UnpackedBy(Install \ {i}) /\ bundle' = "broken")
          /\ Goes(i, "deps") \/ Exits(i, "failed")
       \/ bundle' = "broken" /\ Exits(i, "failed")
    /\ UNCHANGED <<parts, ffmpeg>> /\ KeepTry /\ KeepFiles

------------------------------------------------------------------------------
(* Downloads over a Tor of our own: _run_tor_install_attempt and            *)
(* _run_ffmpeg_tor_download_attempt, each tried twice.                      *)

\* What follows the packages or FFmpeg's archive, and the failure to get it.
After(i) == IF goal[i] = "deps" THEN "ffmpeg" ELSE "stage"

TryOverTor(i, what) ==
    /\ Goes(i, "spawn")
    /\ goal' = [goal EXCEPT ![i] = what]
    /\ UNCHANGED <<os, disk, opt, attempt, result, torProc>> /\ KeepFiles

Counts(i, n) == attempt' = [attempt EXCEPT ![i] = n]

TryEnds(i, how) ==
    /\ Goes(i, "down")
    /\ result' = [result EXCEPT ![i] = how]

\* Popen raises OSError before the try statement is entered.
SpawnTor(i) ==
    /\ At(i, "spawn")
    /\ \/ /\ torProc' = [torProc EXCEPT ![i] = "starting"]
          /\ Goes(i, "wait") /\ UNCHANGED result
       \/ TryEnds(i, "error") /\ UNCHANGED torProc
    /\ UNCHANGED <<os, disk, opt, goal, attempt>> /\ KeepFiles

\* wait_tor_ready: RuntimeError if Tor has ended, TimeoutError after 180 s.
\* A broken Tor never gets ready.
WaitTorReady(i) ==
    /\ At(i, "wait")
    /\ \/ /\ bundle = "complete"
          /\ torProc' = [torProc EXCEPT ![i] = "ready"]
          /\ Goes(i, "load") /\ UNCHANGED result
       \/ TryEnds(i, "error") /\ UNCHANGED torProc
       \/ TryEnds(i, "error") /\ torProc' = [torProc EXCEPT ![i] = "none"]
    /\ UNCHANGED <<os, disk, opt, goal, attempt>> /\ KeepFiles

\* Mutant: the exit code of pip is not looked at.
PipIgnored(i) == IF goal[i] = "deps" THEN "ok" ELSE "error"
\* pip's failure is a SystemExit, which the retry does not catch; a failed or
\* forged download of FFmpeg is deleted and a RuntimeError.
LoadFailure(i) == IF goal[i] = "deps" THEN "exit" ELSE "error"

Load(i) ==
    /\ At(i, "load")
    /\ \/ /\ TryEnds(i, "ok")
          /\ IF goal[i] = "deps" THEN Installs("deps") ELSE UNCHANGED disk
       \/ TryEnds(i, LoadFailure(i)) /\ UNCHANGED disk
    /\ UNCHANGED <<os, opt, goal, attempt, torProc>> /\ KeepFiles

\* Mutant: Tor is stopped only after a success.
TorDownOnSuccess(i) == IF result[i] = "ok" THEN "none" ELSE torProc[i]
\* finally: Tor is terminated, killed after eight seconds, waited for.
TorDown(i) == "none"

\* Mutant: after two failures the packages are loaded directly.
GiveUpDirectly(i) == IF goal[i] = "deps" THEN Goes(i, "ffmpeg") /\ Directly(i, "pypi")
                     ELSE Goes(i, "init") /\ UNCHANGED direct
\* Without packages the run ends, without FFmpeg it goes on with a warning.
GiveUp(i) ==
    /\ IF goal[i] = "deps" THEN Exits(i, "failed") ELSE Goes(i, "init")
    /\ UNCHANGED direct

EndTry(i) ==
    /\ At(i, "down")
    /\ torProc' = [torProc EXCEPT ![i] = TorDown(i)]
    /\ result' = [result EXCEPT ![i] = "ok"]
    /\ \/ result[i] = "ok" /\ Goes(i, After(i)) /\ Counts(i, 1) /\ UNCHANGED direct
       \/ result[i] = "exit" /\ Exits(i, "failed") /\ Counts(i, 1) /\ UNCHANGED direct
       \/ /\ result[i] = "error" /\ attempt[i] = 1
          /\ Goes(i, "spawn") /\ Counts(i, 2) /\ UNCHANGED direct
       \/ /\ result[i] = "error" /\ attempt[i] = 2
          /\ GiveUp(i) /\ Counts(i, 1)
    /\ UNCHANGED <<os, disk, opt, goal, staging>>

------------------------------------------------------------------------------
(* The Python packages: install_dependencies.                               *)

InstallDependencies(i) ==
    /\ At(i, "deps")
    /\ \/ "deps" \in parts /\ Skips(i, "ffmpeg")
       \/ /\ "deps" \notin parts /\ opt[i].allow
          /\ Directly(i, "pypi")
          /\ \/ Installs("deps") /\ Goes(i, "ffmpeg")
             \/ Exits(i, "failed") /\ UNCHANGED disk
          /\ UNCHANGED staging /\ KeepTry
       \/ /\ "deps" \notin parts /\ ~opt[i].allow /\ ~FindTor
          /\ Exits(i, "failed") /\ UNCHANGED disk /\ KeepTry /\ KeepFiles
       \/ /\ "deps" \notin parts /\ ~opt[i].allow /\ FindTor
          /\ TryOverTor(i, "deps")

------------------------------------------------------------------------------
(* FFmpeg: install_windows_ffmpeg.  Its errors are a warning in main().     *)

FindFfmpeg == ffmpeg = "complete"

InstallFfmpeg(i) ==
    /\ At(i, "ffmpeg")
    /\ \/ os = "posix" /\ Skips(i, "init")
       \/ os = "nt" /\ FindFfmpeg /\ Skips(i, "init")
       \/ /\ os = "nt" /\ ~FindFfmpeg /\ opt[i].allow
          /\ Directly(i, "ffmpeg")
          /\ Goes(i, "stage") \/ Goes(i, "init")
          /\ UNCHANGED <<disk, staging>> /\ KeepTry
       \/ /\ os = "nt" /\ ~FindFfmpeg /\ ~opt[i].allow
          /\ TryOverTor(i, "ffmpeg")

Staging(i, what) == staging' = [staging EXCEPT ![i] = what]

\* rmtree(staging, ignore_errors=True): the files in use remain.
Discard(i) == \E rest \in {"none", "rest"} : Staging(i, rest)

\* The archive is extracted there, unless the directory cannot be made.
Stage(i) ==
    /\ At(i, "stage")
    /\ \/ Goes(i, "swap") /\ Staging(i, "whole")
       \/ Goes(i, "init") /\ (UNCHANGED staging \/ Discard(i))
    /\ UNCHANGED <<disk, direct>> /\ KeepTry

\* rmtree(target, ignore_errors=True) leaves the files that are in use.
RemoveTarget(i) ==
    /\ At(i, "swap")
    /\ \/ ffmpeg' = "absent"
       \/ ffmpeg # "absent" /\ ffmpeg' \in {"partial", ffmpeg}
    /\ Goes(i, "move")
    /\ UNCHANGED <<parts, bundle>> /\ KeepTry /\ KeepFiles

\* replace() fails if the target is still there, or a file of the staging
\* directory is in use.
MoveStaging(i) ==
    /\ At(i, "move")
    /\ \/ /\ ffmpeg = "absent" /\ ffmpeg' = "complete"
          /\ Staging(i, "none") /\ Goes(i, "verify")
       \/ UNCHANGED ffmpeg /\ Discard(i) /\ Goes(i, "init")
    /\ UNCHANGED <<parts, bundle, direct>> /\ KeepTry

\* -version: its time limit raises TimeoutExpired, which main() lets through.
VerifyFfmpeg(i) ==
    /\ At(i, "verify")
    /\ Goes(i, "init") \/ Exits(i, "failed")
    /\ UNCHANGED disk /\ KeepTry /\ KeepFiles

------------------------------------------------------------------------------
(* The configuration, Tor's path in it, and the kill switch.                *)

Initialize(i) == At(i, "init") /\ Provides(i, "config", "path")

PersistTorPath(i) ==
    /\ At(i, "path")
    /\ IF FindTor THEN Provides(i, "torpath", "killswitch") ELSE Skips(i, "killswitch")

\* The rules are installed, or UAC is refused.
InstallKillswitch(i) ==
    /\ At(i, "killswitch")
    /\ IF os = "posix" \/ opt[i].skip THEN Skips(i, "done")
                                     ELSE Provides(i, "killswitch", "done")

Done(i) ==
    /\ At(i, "done")
    /\ Exits(i, "ok")
    /\ UNCHANGED disk /\ KeepTry /\ KeepFiles

BackendStep(i) ==
    \/ EnsureVenv(i) \/ LookForTor(i) \/ FetchTor(i) \/ UnpackTor(i)
    \/ UnpackedTor(i) \/ InstallDependencies(i) \/ SpawnTor(i)
    \/ WaitTorReady(i) \/ Load(i) \/ EndTry(i) \/ InstallFfmpeg(i) \/ Stage(i)
    \/ RemoveTarget(i) \/ MoveStaging(i) \/ VerifyFfmpeg(i) \/ Initialize(i)
    \/ PersistTorPath(i) \/ InstallKillswitch(i) \/ Done(i)

\* The process is killed: its Tor lives on, its files stay.
Kill(i) ==
    /\ Alive(i)
    /\ Exits(i, "killed")
    /\ UNCHANGED disk /\ KeepTry /\ KeepFiles

BackendNext ==
    \E i \in Install :
        \/ \E options \in Options : Run(i, options)
        \/ BackendStep(i) \/ Kill(i)

BackendSpec == BackendInit /\ [][BackendNext]_backendVars

------------------------------------------------------------------------------
(* Properties.                                                              *)

\* Every variable has its type.
BackendTypeOK ==
    /\ os \in {"nt", "posix"}
    /\ parts \subseteq BackendPart
    /\ bundle \in {"absent", "broken", "complete"}
    /\ ffmpeg \in {"absent", "partial", "complete"}
    /\ pc \in [Install -> Phase]
    /\ opt \in [Install -> Option]
    /\ goal \in [Install -> {"deps", "ffmpeg"}]
    /\ attempt \in [Install -> {1, 2}]
    /\ result \in [Install -> {"ok", "error", "exit"}]
    /\ torProc \in [Install -> {"none", "starting", "ready"}]
    /\ staging \in [Install -> {"none", "whole", "rest"}]
    /\ direct \in [Install -> SUBSET {"pypi", "ffmpeg"}]
    /\ code \in [Install -> {"none", "ok", "failed", "killed"}]

\* "Es gibt absichtlich keinen automatischen Clearnet-Fallback": however often
\* Tor fails, nothing but Tor itself is fetched directly without the option.
NoClearnetFallback ==
    \A i \in Install : ~opt[i].allow => direct[i] = {}

\* A run that ended by itself, in success, in an error or between two tries,
\* has left no Tor running, and of its staging directory at most what could not
\* be deleted.  A Tor that is not all there comes from a run that is still at
\* it, or that failed or was killed.
NothingLeftBehind ==
    /\ \A i \in Install : ~Alive(i) /\ code[i] # "killed" =>
                             torProc[i] = "none" /\ staging[i] # "whole"
    /\ bundle = "broken" =>
          UnpackedBy(Install) \/ \E i \in Install : code[i] \in {"failed", "killed"}

\* The parts, the exit codes and the options as Installer's users see them.
PartsSeen == (parts \ {"torpath"}) \cup (IF FindTor THEN {"torFile"} ELSE {})
RunsSeen == [i \in Install |-> CASE pc[i] = "off" -> "off"
                                [] pc[i] = "exited" -> IF code[i] = "ok" THEN "ok" ELSE "failed"
                                [] OTHER -> "running"]
SkipsSeen == [i \in Install |-> opt[i].skip]
I == INSTANCE Installer WITH Base <- {"venv", "deps", "config"},
         have <- PartsSeen, run <- RunsSeen, skip <- SkipsSeen

\* Runs that fail, are killed, are repeated and overlap only ever add parts, and
\* an exit code of 0 means that the parts the run was to install are there: of
\* Tor only the file, which an earlier run may have left broken.
ImplementsInstaller == I!InstallSpec
==============================================================================
