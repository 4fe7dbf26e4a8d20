---------------------------- MODULE Setup_proofs -----------------------------
(***************************************************************************)
(* The setup programme and its page.  SetupBackend is shown to implement   *)
(* Installer, and SetupWeb is proved correct over Installer.               *)
(***************************************************************************)
EXTENDS SetupBackend, SetupWeb, TLAPS

------------------------------------------------------------------------------
(***************************************************************************)
(* Proofs about SetupBackend for any number of runs that overlap, fail and *)
(* are killed on one disk, and that it implements Installer.  The          *)
(* invariant says what is on the disk when a run has got past a step, and  *)
(* where a run owns a Tor or a staging directory.                          *)
(***************************************************************************)

USE SystemsAssumption, OptionsAssumption

------------------------------------------------------------------------------
(* The parts of the invariant.                                              *)

OverTor == {"spawn", "wait", "load", "down"}
Late == {"init", "path", "killswitch", "done"}
AfterDeps == {"ffmpeg", "stage", "swap", "move", "verify"} \cup Late
AfterTor == {"deps"} \cup OverTor \cup AfterDeps
GettingTor == {"tor", "fetchTor", "unpackTor", "unpackedTor"}

\* What a run has got past is on the disk, whoever put it there.
Provided ==
    \A i \in Install :
        /\ pc[i] \in GettingTor \cup AfterTor => "venv" \in parts
        /\ pc[i] \in GettingTor \ {"tor"} => os = "nt"
        /\ pc[i] \in {"unpackedTor"} \cup AfterTor /\ os = "nt" => bundle # "absent"
        /\ \/ pc[i] \in AfterDeps
           \/ pc[i] \in OverTor /\ goal[i] = "ffmpeg"
           \/ pc[i] = "down" /\ result[i] = "ok"
           => "deps" \in parts
        /\ pc[i] \in Late \ {"init"} => "config" \in parts
        /\ pc[i] = "done" /\ os = "nt" /\ ~opt[i].skip => "killswitch" \in parts

\* A run that has not begun has fetched nothing.
Private ==
    /\ NoClearnetFallback
    /\ \A i \in Install : pc[i] = "off" => direct[i] = {}

Killed(i) == pc[i] = "exited" /\ code[i] = "killed"

\* A Tor and a staging directory belong to a run between two of its steps, or
\* to one that was killed there.
Owned ==
    \A i \in Install :
        /\ torProc[i] # "none" => pc[i] \in {"wait", "load", "down"} \/ Killed(i)
        /\ staging[i] = "whole" => pc[i] \in {"swap", "move"} \/ Killed(i)

\* Only a run that has ended has an exit code, and a broken Tor is being
\* extracted, or comes from a run that failed or was killed.
Answerable ==
    /\ \A i \in Install : code[i] # "none" => pc[i] = "exited"
    /\ bundle = "broken" =>
          UnpackedBy(Install) \/ \E i \in Install : code[i] \in {"failed", "killed"}

BackendInv == BackendTypeOK /\ Provided /\ Private /\ Owned /\ Answerable

------------------------------------------------------------------------------
(* Every step keeps every part.                                             *)

\* Every step keeps the types.
LEMMA BackendTypeNext == BackendInv /\ [BackendNext]_backendVars => BackendTypeOK'
<1> SUFFICES ASSUME BackendInv, [BackendNext]_backendVars PROVE BackendTypeOK'
  OBVIOUS
<1> USE DEF BackendInv, BackendTypeOK, disk, tryVars, Phase, BackendPart, Goes, Exits, At, KeepTry, KeepFiles, Option
<1>1. ASSUME NEW i \in Install, NEW options \in Options, Run(i, options) PROVE BackendTypeOK'
  BY <1>1 DEF Run
<1>2. ASSUME NEW i \in Install, EnsureVenv(i) PROVE BackendTypeOK'
  <2>1. CASE Skips(i, "tor")
    BY <2>1, ZenonT(30) DEF Skips
  <2>2. CASE Provides(i, "venv", "tor")
    BY <2>2, ZenonT(30) DEF Provides, Installs
  <2> QED
    BY <1>2, <2>1, <2>2 DEF EnsureVenv
<1>3. ASSUME NEW i \in Install, LookForTor(i) PROVE BackendTypeOK'
  BY <1>3 DEF LookForTor, Skips, FindTor
<1>4. ASSUME NEW i \in Install, FetchTor(i) PROVE BackendTypeOK'
  BY <1>4, ZenonT(30) DEF FetchTor
<1>5. ASSUME NEW i \in Install, UnpackTor(i) PROVE BackendTypeOK'
  BY <1>5 DEF UnpackTor
<1>6. ASSUME NEW i \in Install, UnpackedTor(i) PROVE BackendTypeOK'
  BY <1>6, ZenonT(30) DEF UnpackedTor
<1>7. ASSUME NEW i \in Install, InstallDependencies(i) PROVE BackendTypeOK'
  <2>1. pc' \in [Install -> Phase]
    <3>1. PICK p \in {"ffmpeg", "exited", "spawn"} : pc' = [pc EXCEPT ![i] = p]
      BY <1>7 DEF InstallDependencies, Skips, Directly, Installs, TryOverTor, FindTor
    <3>2. p \in Phase
      OBVIOUS
    <3> QED
      BY <3>1, <3>2
  <2>2. code' \in [Install -> {"none", "ok", "failed", "killed"}]
    BY <1>7 DEF InstallDependencies, Skips, Directly, Installs, TryOverTor, FindTor
  <2>3. /\ goal' \in [Install -> {"deps", "ffmpeg"}]
        /\ attempt' \in [Install -> {1, 2}]
        /\ result' \in [Install -> {"ok", "error", "exit"}]
        /\ torProc' \in [Install -> {"none", "starting", "ready"}]
    BY <1>7 DEF InstallDependencies, Skips, Directly, Installs, TryOverTor, FindTor
  <2>4. direct' \in [Install -> SUBSET {"pypi", "ffmpeg"}] /\ staging' \in [Install -> {"none", "whole", "rest"}]
    BY <1>7 DEF InstallDependencies, Skips, Directly, Installs, TryOverTor, FindTor
  <2>5. UNCHANGED <<os, opt, bundle, ffmpeg>>
    BY <1>7 DEF InstallDependencies, Skips, Directly, Installs, TryOverTor, FindTor
  <2>6. parts' \subseteq BackendPart
    BY <1>7, ZenonT(40) DEF InstallDependencies, Skips, Directly, Installs, TryOverTor, FindTor
  <2> QED
    BY <2>1, <2>2, <2>3, <2>4, <2>5, <2>6
<1>8. ASSUME NEW i \in Install, SpawnTor(i) PROVE BackendTypeOK'
  BY <1>8, ZenonT(30) DEF SpawnTor, TryEnds
<1>9. ASSUME NEW i \in Install, WaitTorReady(i) PROVE BackendTypeOK'
  BY <1>9, ZenonT(60) DEF WaitTorReady, TryEnds
<1>10. ASSUME NEW i \in Install, Load(i) PROVE BackendTypeOK'
  <2>1. pc' \in [Install -> Phase]
    <3>1. PICK p \in {"down"} : pc' = [pc EXCEPT ![i] = p]
      BY <1>10 DEF Load, TryEnds, Installs, LoadFailure
    <3>2. p \in Phase
      OBVIOUS
    <3> QED
      BY <3>1, <3>2
  <2>2. code' \in [Install -> {"none", "ok", "failed", "killed"}]
    BY <1>10 DEF Load, TryEnds, Installs, LoadFailure
  <2>3. /\ goal' \in [Install -> {"deps", "ffmpeg"}]
        /\ attempt' \in [Install -> {1, 2}]
        /\ result' \in [Install -> {"ok", "error", "exit"}]
        /\ torProc' \in [Install -> {"none", "starting", "ready"}]
    BY <1>10 DEF Load, TryEnds, Installs, LoadFailure
  <2>4. direct' \in [Install -> SUBSET {"pypi", "ffmpeg"}] /\ staging' \in [Install -> {"none", "whole", "rest"}]
    BY <1>10 DEF Load, TryEnds, Installs, LoadFailure
  <2>5. UNCHANGED <<os, opt, bundle, ffmpeg>>
    BY <1>10 DEF Load, TryEnds, Installs, LoadFailure
  <2>6. parts' \subseteq BackendPart
    <3>1. parts' = parts \/ parts' = parts \cup {"deps"}
      BY <1>10 DEF Load, TryEnds, Installs, LoadFailure
    <3>2. parts \subseteq BackendPart /\ "deps" \in BackendPart
      OBVIOUS
    <3> QED
      BY <3>1, <3>2, ZenonT(30)
  <2> QED
    BY <2>1, <2>2, <2>3, <2>4, <2>5, <2>6
<1>11. ASSUME NEW i \in Install, EndTry(i) PROVE BackendTypeOK'
  <2>1. pc' \in [Install -> Phase]
    <3>1. PICK p \in {"ffmpeg", "stage", "exited", "spawn", "init"} : pc' = [pc EXCEPT ![i] = p]
      BY <1>11, SMTT(30) DEF EndTry, TorDown, After, Counts, GiveUp
    <3>2. p \in Phase
      OBVIOUS
    <3> QED
      BY <3>1, <3>2
  <2>2. code' \in [Install -> {"none", "ok", "failed", "killed"}]
    BY <1>11 DEF EndTry, TorDown, After, Counts, GiveUp
  <2>3. /\ goal' \in [Install -> {"deps", "ffmpeg"}]
        /\ attempt' \in [Install -> {1, 2}]
        /\ result' \in [Install -> {"ok", "error", "exit"}]
        /\ torProc' \in [Install -> {"none", "starting", "ready"}]
    BY <1>11 DEF EndTry, TorDown, After, Counts, GiveUp
  <2>4. direct' \in [Install -> SUBSET {"pypi", "ffmpeg"}] /\ staging' \in [Install -> {"none", "whole", "rest"}]
    BY <1>11 DEF EndTry, TorDown, After, Counts, GiveUp
  <2>5. UNCHANGED <<os, opt, bundle, ffmpeg>>
    BY <1>11 DEF EndTry, TorDown, After, Counts, GiveUp
  <2>6. parts' \subseteq BackendPart
    BY <1>11 DEF EndTry, TorDown, After, Counts, GiveUp
  <2> QED
    BY <2>1, <2>2, <2>3, <2>4, <2>5, <2>6
<1>12. ASSUME NEW i \in Install, InstallFfmpeg(i) PROVE BackendTypeOK'
  <2>1. pc' \in [Install -> Phase]
    <3>1. PICK p \in {"init", "stage", "spawn"} : pc' = [pc EXCEPT ![i] = p]
      BY <1>12 DEF InstallFfmpeg, Skips, FindFfmpeg, Directly, TryOverTor
    <3>2. p \in Phase
      OBVIOUS
    <3> QED
      BY <3>1, <3>2
  <2>2. code' \in [Install -> {"none", "ok", "failed", "killed"}]
    BY <1>12 DEF InstallFfmpeg, Skips, FindFfmpeg, Directly, TryOverTor
  <2>3. /\ goal' \in [Install -> {"deps", "ffmpeg"}]
        /\ attempt' \in [Install -> {1, 2}]
        /\ result' \in [Install -> {"ok", "error", "exit"}]
        /\ torProc' \in [Install -> {"none", "starting", "ready"}]
    BY <1>12 DEF InstallFfmpeg, Skips, FindFfmpeg, Directly, TryOverTor
  <2>4. direct' \in [Install -> SUBSET {"pypi", "ffmpeg"}] /\ staging' \in [Install -> {"none", "whole", "rest"}]
    BY <1>12 DEF InstallFfmpeg, Skips, FindFfmpeg, Directly, TryOverTor
  <2>5. UNCHANGED <<os, opt, bundle, ffmpeg>>
    BY <1>12 DEF InstallFfmpeg, Skips, FindFfmpeg, Directly, TryOverTor
  <2>6. parts' \subseteq BackendPart
    BY <1>12 DEF InstallFfmpeg, Skips, FindFfmpeg, Directly, TryOverTor
  <2> QED
    BY <2>1, <2>2, <2>3, <2>4, <2>5, <2>6
<1>13. ASSUME NEW i \in Install, Stage(i) PROVE BackendTypeOK'
  <2>1. staging' \in [Install -> {"none", "whole", "rest"}]
    BY <1>13, ZenonT(40) DEF Stage, Discard, Staging
  <2>2. pc' \in [Install -> Phase] /\ UNCHANGED code
    BY <1>13 DEF Stage
  <2>3. UNCHANGED <<os, parts, bundle, ffmpeg, opt, goal, attempt, result, torProc, direct>>
    BY <1>13 DEF Stage
  <2> QED
    BY <2>1, <2>2, <2>3
<1>14. ASSUME NEW i \in Install, RemoveTarget(i) PROVE BackendTypeOK'
  BY <1>14 DEF RemoveTarget
<1>15. ASSUME NEW i \in Install, MoveStaging(i) PROVE BackendTypeOK'
  <2>1. staging' \in [Install -> {"none", "whole", "rest"}]
    BY <1>15 DEF MoveStaging, Discard, Staging
  <2>2. pc' \in [Install -> Phase] /\ UNCHANGED code
    BY <1>15 DEF MoveStaging
  <2>3. ffmpeg' \in {ffmpeg, "complete"}
    BY <1>15 DEF MoveStaging
  <2>4. UNCHANGED <<os, parts, bundle, opt, goal, attempt, result, torProc, direct>>
    BY <1>15 DEF MoveStaging
  <2> QED
    BY <2>1, <2>2, <2>3, <2>4
<1>16. ASSUME NEW i \in Install, VerifyFfmpeg(i) PROVE BackendTypeOK'
  BY <1>16, ZenonT(60) DEF VerifyFfmpeg
<1>17. ASSUME NEW i \in Install, Initialize(i) PROVE BackendTypeOK'
  BY <1>17, ZenonT(30) DEF Initialize, Provides, Installs
<1>18. ASSUME NEW i \in Install, PersistTorPath(i) PROVE BackendTypeOK'
  <2>1. pc' \in [Install -> Phase]
    <3>1. PICK p \in {"killswitch", "exited"} : pc' = [pc EXCEPT ![i] = p]
      BY <1>18 DEF PersistTorPath, FindTor, Provides, Skips, Installs
    <3>2. p \in Phase
      OBVIOUS
    <3> QED
      BY <3>1, <3>2
  <2>2. code' \in [Install -> {"none", "ok", "failed", "killed"}]
    BY <1>18 DEF PersistTorPath, FindTor, Provides, Skips, Installs
  <2>3. /\ goal' \in [Install -> {"deps", "ffmpeg"}]
        /\ attempt' \in [Install -> {1, 2}]
        /\ result' \in [Install -> {"ok", "error", "exit"}]
        /\ torProc' \in [Install -> {"none", "starting", "ready"}]
    BY <1>18 DEF PersistTorPath, FindTor, Provides, Skips, Installs
  <2>4. direct' \in [Install -> SUBSET {"pypi", "ffmpeg"}] /\ staging' \in [Install -> {"none", "whole", "rest"}]
    BY <1>18 DEF PersistTorPath, FindTor, Provides, Skips, Installs
  <2>5. UNCHANGED <<os, opt, bundle, ffmpeg>>
    BY <1>18 DEF PersistTorPath, FindTor, Provides, Skips, Installs
  <2>6. parts' \subseteq BackendPart
    BY <1>18, ZenonT(40) DEF PersistTorPath, FindTor, Provides, Skips, Installs
  <2> QED
    BY <2>1, <2>2, <2>3, <2>4, <2>5, <2>6
<1>19. ASSUME NEW i \in Install, InstallKillswitch(i) PROVE BackendTypeOK'
  <2>1. pc' \in [Install -> Phase]
    <3>1. PICK p \in {"done", "exited"} : pc' = [pc EXCEPT ![i] = p]
      BY <1>19 DEF InstallKillswitch, Skips, Provides, Installs
    <3>2. p \in Phase
      OBVIOUS
    <3> QED
      BY <3>1, <3>2
  <2>2. code' \in [Install -> {"none", "ok", "failed", "killed"}]
    BY <1>19 DEF InstallKillswitch, Skips, Provides, Installs
  <2>3. /\ goal' \in [Install -> {"deps", "ffmpeg"}]
        /\ attempt' \in [Install -> {1, 2}]
        /\ result' \in [Install -> {"ok", "error", "exit"}]
        /\ torProc' \in [Install -> {"none", "starting", "ready"}]
    BY <1>19 DEF InstallKillswitch, Skips, Provides, Installs
  <2>4. direct' \in [Install -> SUBSET {"pypi", "ffmpeg"}] /\ staging' \in [Install -> {"none", "whole", "rest"}]
    BY <1>19 DEF InstallKillswitch, Skips, Provides, Installs
  <2>5. UNCHANGED <<os, opt, bundle, ffmpeg>>
    BY <1>19 DEF InstallKillswitch, Skips, Provides, Installs
  <2>6. parts' \subseteq BackendPart
    BY <1>19, ZenonT(40) DEF InstallKillswitch, Skips, Provides, Installs
  <2> QED
    BY <2>1, <2>2, <2>3, <2>4, <2>5, <2>6
<1>20. ASSUME NEW i \in Install, Done(i) PROVE BackendTypeOK'
  BY <1>20 DEF Done
<1>21. ASSUME NEW i \in Install, Kill(i) PROVE BackendTypeOK'
  BY <1>21 DEF Kill, Alive
<1>22. CASE UNCHANGED backendVars
  BY <1>22 DEF backendVars
<1> QED
  BY <1>1, <1>2, <1>3, <1>4, <1>5, <1>6, <1>7, <1>8, <1>9, <1>10, <1>11, <1>12, <1>13, <1>14, <1>15, <1>16, <1>17, <1>18, <1>19, <1>20, <1>21, <1>22 DEF BackendNext, BackendStep

\* Every step keeps what is on the disk.
LEMMA ProvidedNext == BackendInv /\ [BackendNext]_backendVars => Provided'
<1> SUFFICES ASSUME BackendInv, [BackendNext]_backendVars PROVE Provided'
  OBVIOUS
<1> USE DEF BackendInv, BackendTypeOK, disk, tryVars, Phase, BackendPart, Goes, Exits, At, KeepTry, KeepFiles, Provided, AfterTor, AfterDeps, Late, OverTor, GettingTor
<1>1. ASSUME NEW i \in Install, NEW options \in Options, Run(i, options) PROVE Provided'
  BY <1>1 DEF Run
<1>2. ASSUME NEW i \in Install, EnsureVenv(i) PROVE Provided'
  BY <1>2 DEF EnsureVenv, Skips, Provides, Installs
<1>3. ASSUME NEW i \in Install, LookForTor(i) PROVE Provided'
  BY <1>3 DEF LookForTor, Skips, FindTor
<1>4. ASSUME NEW i \in Install, FetchTor(i) PROVE Provided'
  BY <1>4 DEF FetchTor
<1>5. ASSUME NEW i \in Install, UnpackTor(i) PROVE Provided'
  BY <1>5 DEF UnpackTor
<1>6. ASSUME NEW i \in Install, UnpackedTor(i) PROVE Provided'
  BY <1>6 DEF UnpackedTor
<1>7. ASSUME NEW i \in Install, InstallDependencies(i) PROVE Provided'
  BY <1>7 DEF InstallDependencies, Skips, Directly, Installs, TryOverTor, FindTor
<1>8. ASSUME NEW i \in Install, SpawnTor(i) PROVE Provided'
  BY <1>8 DEF SpawnTor, TryEnds
<1>9. ASSUME NEW i \in Install, WaitTorReady(i) PROVE Provided'
  BY <1>9 DEF WaitTorReady, TryEnds
<1>10. ASSUME NEW i \in Install, Load(i) PROVE Provided'
  BY <1>10 DEF Load, TryEnds, Installs, LoadFailure
<1>11. ASSUME NEW i \in Install, EndTry(i) PROVE Provided'
  BY <1>11 DEF EndTry, TorDown, After, Counts, GiveUp
<1>12. ASSUME NEW i \in Install, InstallFfmpeg(i) PROVE Provided'
  BY <1>12 DEF InstallFfmpeg, Skips, FindFfmpeg, Directly, TryOverTor
<1>13. ASSUME NEW i \in Install, Stage(i) PROVE Provided'
  BY <1>13 DEF Stage, Discard, Staging
<1>14. ASSUME NEW i \in Install, RemoveTarget(i) PROVE Provided'
  BY <1>14 DEF RemoveTarget
<1>15. ASSUME NEW i \in Install, MoveStaging(i) PROVE Provided'
  BY <1>15 DEF MoveStaging, Discard, Staging
<1>16. ASSUME NEW i \in Install, VerifyFfmpeg(i) PROVE Provided'
  BY <1>16 DEF VerifyFfmpeg
<1>17. ASSUME NEW i \in Install, Initialize(i) PROVE Provided'
  BY <1>17 DEF Initialize, Provides, Installs
<1>18. ASSUME NEW i \in Install, PersistTorPath(i) PROVE Provided'
  BY <1>18 DEF PersistTorPath, FindTor, Provides, Skips, Installs
<1>19. ASSUME NEW i \in Install, InstallKillswitch(i) PROVE Provided'
  BY <1>19 DEF InstallKillswitch, Skips, Provides, Installs
<1>20. ASSUME NEW i \in Install, Done(i) PROVE Provided'
  BY <1>20 DEF Done
<1>21. ASSUME NEW i \in Install, Kill(i) PROVE Provided'
  BY <1>21 DEF Kill, Alive
<1>22. CASE UNCHANGED backendVars
  BY <1>22 DEF backendVars
<1> QED
  BY <1>1, <1>2, <1>3, <1>4, <1>5, <1>6, <1>7, <1>8, <1>9, <1>10, <1>11, <1>12, <1>13, <1>14, <1>15, <1>16, <1>17, <1>18, <1>19, <1>20, <1>21, <1>22 DEF BackendNext, BackendStep

\* Every step keeps to what its run was allowed.
LEMMA PrivateNext == BackendInv /\ [BackendNext]_backendVars => Private'
<1> SUFFICES ASSUME BackendInv, [BackendNext]_backendVars PROVE Private'
  OBVIOUS
<1> USE DEF BackendInv, BackendTypeOK, disk, tryVars, Phase, BackendPart, Goes, Exits, At, KeepTry, KeepFiles, Private, NoClearnetFallback, Option
<1>1. ASSUME NEW i \in Install, NEW options \in Options, Run(i, options) PROVE Private'
  BY <1>1 DEF Run
<1>2. ASSUME NEW i \in Install, EnsureVenv(i) PROVE Private'
  BY <1>2 DEF EnsureVenv, Skips, Provides, Installs
<1>3. ASSUME NEW i \in Install, LookForTor(i) PROVE Private'
  BY <1>3 DEF LookForTor, Skips, FindTor
<1>4. ASSUME NEW i \in Install, FetchTor(i) PROVE Private'
  BY <1>4 DEF FetchTor
<1>5. ASSUME NEW i \in Install, UnpackTor(i) PROVE Private'
  BY <1>5 DEF UnpackTor
<1>6. ASSUME NEW i \in Install, UnpackedTor(i) PROVE Private'
  <2>1. UNCHANGED opt
    BY <1>6 DEF UnpackedTor
  <2>2. pc[i] # "off" /\ \A j \in Install : pc'[j] = "off" => pc[j] = "off"
    BY <1>6 DEF UnpackedTor
  <2>3. \/ UNCHANGED direct
        \/ opt[i].allow /\ \A j \in Install \ {i} : direct'[j] = direct[j]
    BY <1>6 DEF UnpackedTor
  <2> QED
    BY <2>1, <2>2, <2>3
<1>7. ASSUME NEW i \in Install, InstallDependencies(i) PROVE Private'
  <2>1. UNCHANGED opt
    BY <1>7 DEF InstallDependencies, Skips, Directly, Installs, TryOverTor, FindTor
  <2>2. pc[i] # "off" /\ \A j \in Install : pc'[j] = "off" => pc[j] = "off"
    BY <1>7 DEF InstallDependencies, Skips, Directly, Installs, TryOverTor, FindTor
  <2>3. \/ UNCHANGED direct
        \/ opt[i].allow /\ \A j \in Install \ {i} : direct'[j] = direct[j]
    BY <1>7 DEF InstallDependencies, Skips, Directly, Installs, TryOverTor, FindTor
  <2> QED
    BY <2>1, <2>2, <2>3
<1>8. ASSUME NEW i \in Install, SpawnTor(i) PROVE Private'
  BY <1>8 DEF SpawnTor, TryEnds
<1>9. ASSUME NEW i \in Install, WaitTorReady(i) PROVE Private'
  <2>1. UNCHANGED <<opt, direct>>
    BY <1>9 DEF WaitTorReady
  <2>2. \A j \in Install : pc'[j] = "off" => pc[j] = "off"
    BY <1>9 DEF WaitTorReady, TryEnds
  <2> QED
    BY <2>1, <2>2
<1>10. ASSUME NEW i \in Install, Load(i) PROVE Private'
  BY <1>10 DEF Load, TryEnds, Installs, LoadFailure
<1>11. ASSUME NEW i \in Install, EndTry(i) PROVE Private'
  <2>1. UNCHANGED opt
    BY <1>11 DEF EndTry, TorDown, After, Counts, GiveUp
  <2>2. pc[i] # "off" /\ \A j \in Install : pc'[j] = "off" => pc[j] = "off"
    BY <1>11 DEF EndTry, TorDown, After, Counts, GiveUp
  <2>3. \/ UNCHANGED direct
        \/ opt[i].allow /\ \A j \in Install \ {i} : direct'[j] = direct[j]
    BY <1>11 DEF EndTry, TorDown, After, Counts, GiveUp
  <2> QED
    BY <2>1, <2>2, <2>3
<1>12. ASSUME NEW i \in Install, InstallFfmpeg(i) PROVE Private'
  <2>1. UNCHANGED opt
    BY <1>12 DEF InstallFfmpeg, Skips, FindFfmpeg, Directly, TryOverTor
  <2>2. pc[i] # "off" /\ \A j \in Install : pc'[j] = "off" => pc[j] = "off"
    BY <1>12 DEF InstallFfmpeg, Skips, FindFfmpeg, Directly, TryOverTor
  <2>3. \/ UNCHANGED direct
        \/ opt[i].allow /\ \A j \in Install \ {i} : direct'[j] = direct[j]
    BY <1>12 DEF InstallFfmpeg, Skips, FindFfmpeg, Directly, TryOverTor
  <2> QED
    BY <2>1, <2>2, <2>3
<1>13. ASSUME NEW i \in Install, Stage(i) PROVE Private'
  BY <1>13 DEF Stage, Discard, Staging
<1>14. ASSUME NEW i \in Install, RemoveTarget(i) PROVE Private'
  BY <1>14 DEF RemoveTarget
<1>15. ASSUME NEW i \in Install, MoveStaging(i) PROVE Private'
  BY <1>15 DEF MoveStaging, Discard, Staging
<1>16. ASSUME NEW i \in Install, VerifyFfmpeg(i) PROVE Private'
  BY <1>16 DEF VerifyFfmpeg
<1>17. ASSUME NEW i \in Install, Initialize(i) PROVE Private'
  BY <1>17 DEF Initialize, Provides, Installs
<1>18. ASSUME NEW i \in Install, PersistTorPath(i) PROVE Private'
  <2>1. UNCHANGED opt
    BY <1>18 DEF PersistTorPath, FindTor, Provides, Skips, Installs
  <2>2. pc[i] # "off" /\ \A j \in Install : pc'[j] = "off" => pc[j] = "off"
    BY <1>18 DEF PersistTorPath, FindTor, Provides, Skips, Installs
  <2>3. \/ UNCHANGED direct
        \/ opt[i].allow /\ \A j \in Install \ {i} : direct'[j] = direct[j]
    BY <1>18 DEF PersistTorPath, FindTor, Provides, Skips, Installs
  <2> QED
    BY <2>1, <2>2, <2>3
<1>19. ASSUME NEW i \in Install, InstallKillswitch(i) PROVE Private'
  <2>1. UNCHANGED opt
    BY <1>19 DEF InstallKillswitch, Skips, Provides, Installs
  <2>2. pc[i] # "off" /\ \A j \in Install : pc'[j] = "off" => pc[j] = "off"
    BY <1>19 DEF InstallKillswitch, Skips, Provides, Installs
  <2>3. \/ UNCHANGED direct
        \/ opt[i].allow /\ \A j \in Install \ {i} : direct'[j] = direct[j]
    BY <1>19 DEF InstallKillswitch, Skips, Provides, Installs
  <2> QED
    BY <2>1, <2>2, <2>3
<1>20. ASSUME NEW i \in Install, Done(i) PROVE Private'
  BY <1>20 DEF Done
<1>21. ASSUME NEW i \in Install, Kill(i) PROVE Private'
  BY <1>21 DEF Kill, Alive
<1>22. CASE UNCHANGED backendVars
  BY <1>22 DEF backendVars
<1> QED
  BY <1>1, <1>2, <1>3, <1>4, <1>5, <1>6, <1>7, <1>8, <1>9, <1>10, <1>11, <1>12, <1>13, <1>14, <1>15, <1>16, <1>17, <1>18, <1>19, <1>20, <1>21, <1>22 DEF BackendNext, BackendStep

\* Every step keeps track of what is a run's own.
LEMMA OwnedNext == BackendInv /\ [BackendNext]_backendVars => Owned'
<1> SUFFICES ASSUME BackendInv, [BackendNext]_backendVars PROVE Owned'
  OBVIOUS
<1> USE DEF BackendInv, BackendTypeOK, disk, tryVars, Phase, BackendPart, Goes, Exits, At, KeepTry, KeepFiles, Owned, Killed
<1>1. ASSUME NEW i \in Install, NEW options \in Options, Run(i, options) PROVE Owned'
  BY <1>1 DEF Run
<1>2. ASSUME NEW i \in Install, EnsureVenv(i) PROVE Owned'
  BY <1>2 DEF EnsureVenv, Skips, Provides, Installs
<1>3. ASSUME NEW i \in Install, LookForTor(i) PROVE Owned'
  BY <1>3 DEF LookForTor, Skips, FindTor
<1>4. ASSUME NEW i \in Install, FetchTor(i) PROVE Owned'
  BY <1>4 DEF FetchTor
<1>5. ASSUME NEW i \in Install, UnpackTor(i) PROVE Owned'
  BY <1>5 DEF UnpackTor
<1>6. ASSUME NEW i \in Install, UnpackedTor(i) PROVE Owned'
  BY <1>6 DEF UnpackedTor
<1>7. ASSUME NEW i \in Install, InstallDependencies(i) PROVE Owned'
  BY <1>7 DEF InstallDependencies, Skips, Directly, Installs, TryOverTor, FindTor
<1>8. ASSUME NEW i \in Install, SpawnTor(i) PROVE Owned'
  BY <1>8 DEF SpawnTor, TryEnds
<1>9. ASSUME NEW i \in Install, WaitTorReady(i) PROVE Owned'
  BY <1>9 DEF WaitTorReady, TryEnds
<1>10. ASSUME NEW i \in Install, Load(i) PROVE Owned'
  BY <1>10 DEF Load, TryEnds, Installs, LoadFailure
<1>11. ASSUME NEW i \in Install, EndTry(i) PROVE Owned'
  BY <1>11 DEF EndTry, TorDown, After, Counts, GiveUp
<1>12. ASSUME NEW i \in Install, InstallFfmpeg(i) PROVE Owned'
  BY <1>12 DEF InstallFfmpeg, Skips, FindFfmpeg, Directly, TryOverTor
<1>13. ASSUME NEW i \in Install, Stage(i) PROVE Owned'
  BY <1>13 DEF Stage, Discard, Staging
<1>14. ASSUME NEW i \in Install, RemoveTarget(i) PROVE Owned'
  BY <1>14 DEF RemoveTarget
<1>15. ASSUME NEW i \in Install, MoveStaging(i) PROVE Owned'
  BY <1>15 DEF MoveStaging, Discard, Staging
<1>16. ASSUME NEW i \in Install, VerifyFfmpeg(i) PROVE Owned'
  BY <1>16 DEF VerifyFfmpeg
<1>17. ASSUME NEW i \in Install, Initialize(i) PROVE Owned'
  BY <1>17 DEF Initialize, Provides, Installs
<1>18. ASSUME NEW i \in Install, PersistTorPath(i) PROVE Owned'
  BY <1>18 DEF PersistTorPath, FindTor, Provides, Skips, Installs
<1>19. ASSUME NEW i \in Install, InstallKillswitch(i) PROVE Owned'
  BY <1>19 DEF InstallKillswitch, Skips, Provides, Installs
<1>20. ASSUME NEW i \in Install, Done(i) PROVE Owned'
  BY <1>20 DEF Done
<1>21. ASSUME NEW i \in Install, Kill(i) PROVE Owned'
  BY <1>21 DEF Kill, Alive
<1>22. CASE UNCHANGED backendVars
  BY <1>22 DEF backendVars
<1> QED
  BY <1>1, <1>2, <1>3, <1>4, <1>5, <1>6, <1>7, <1>8, <1>9, <1>10, <1>11, <1>12, <1>13, <1>14, <1>15, <1>16, <1>17, <1>18, <1>19, <1>20, <1>21, <1>22 DEF BackendNext, BackendStep

\* A step that leaves the Tor as it is, and does not complete an extraction.
LEMMA MovesAnswerable ==
    ASSUME BackendInv, NEW i \in Install, pc[i] # "exited", UNCHANGED bundle,
           NEW p \in Phase \ {"exited"}, NEW how \in {"ok", "failed", "killed"},
           Goes(i, p) \/ Exits(i, how),
           pc[i] = "unpackedTor" => Exits(i, how) /\ how # "ok"
    PROVE  Answerable'
<1> USE DEF BackendInv, BackendTypeOK, Answerable, UnpackedBy, At
<1>1. CASE Goes(i, p)
  <2>1. \A j \in Install : pc[j] = "unpackedTor" => j # i /\ pc'[j] = pc[j]
    BY <1>1 DEF Goes, Exits
  <2> QED
    BY <1>1, <2>1 DEF Goes
<1>2. CASE Exits(i, how)
  <2>1. code'[i] = how /\ \A j \in Install \ {i} : pc'[j] = pc[j] /\ code'[j] = code[j]
    BY <1>2 DEF Exits
  <2>2. pc'[i] = "exited" /\ code[i] = "none"
    BY <1>2 DEF Exits
  <2> QED
    BY <2>1, <2>2
<1> QED
  BY <1>1, <1>2

\* Every step keeps a broken Tor accounted for.
LEMMA AnswerableNext == BackendInv /\ [BackendNext]_backendVars => Answerable'
<1> SUFFICES ASSUME BackendInv, [BackendNext]_backendVars PROVE Answerable'
  OBVIOUS
<1> DEFINE Moves(i) ==
      /\ pc[i] \notin {"exited", "unpackedTor"}
      /\ UNCHANGED bundle
      /\ \/ \E p \in Phase \ {"exited"} : Goes(i, p)
         \/ \E how \in {"ok", "failed", "killed"} : Exits(i, how)
<1>1. ASSUME NEW i \in Install, Moves(i) PROVE Answerable'
  BY <1>1, MovesAnswerable DEF Phase
<1> HIDE DEF Moves
<1> USE DEF At, disk, Skips, Provides, Installs, Phase
<1>2. ASSUME NEW i \in Install,
             \/ \E options \in Options : Run(i, options)
             \/ EnsureVenv(i) \/ LookForTor(i) \/ FetchTor(i)
      PROVE  Moves(i)
  BY <1>2 DEF Moves, Run, EnsureVenv, LookForTor, FetchTor
<1>3. ASSUME NEW i \in Install, UnpackTor(i) PROVE Answerable'
  BY <1>3 DEF BackendInv, BackendTypeOK, Answerable, UnpackedBy, UnpackTor, Goes
<1>4. ASSUME NEW i \in Install, UnpackedTor(i) PROVE Answerable'
  <2> USE DEF BackendInv, BackendTypeOK, Answerable, UnpackedBy
  <2>1. CASE Goes(i, "deps")
    BY <1>4, <2>1 DEF UnpackedTor, Goes, Exits
  <2>2. CASE Exits(i, "failed")
    <3>1. code'[i] = "failed" /\ pc'[i] = "exited"
      BY <2>2 DEF Exits
    <3>2. \A j \in Install \ {i} : pc'[j] = pc[j] /\ code'[j] = code[j]
      BY <2>2 DEF Exits
    <3> QED
      BY <3>1, <3>2
  <2> QED
    BY <1>4, <2>1, <2>2 DEF UnpackedTor
<1>5. ASSUME NEW i \in Install, InstallDependencies(i) PROVE Moves(i)
  BY <1>5 DEF Moves, InstallDependencies, TryOverTor
<1>6. ASSUME NEW i \in Install, SpawnTor(i) \/ WaitTorReady(i) \/ Load(i) PROVE Moves(i)
  BY <1>6 DEF Moves, SpawnTor, WaitTorReady, Load, TryEnds
<1>7. ASSUME NEW i \in Install, EndTry(i) PROVE Moves(i)
  BY <1>7 DEF Moves, EndTry, After, GiveUp
<1>8. ASSUME NEW i \in Install, InstallFfmpeg(i) PROVE Moves(i)
  BY <1>8 DEF Moves, InstallFfmpeg, TryOverTor
<1>9. ASSUME NEW i \in Install, Stage(i) \/ RemoveTarget(i) PROVE Moves(i)
  BY <1>9 DEF Moves, Stage, RemoveTarget
<1>10. ASSUME NEW i \in Install, MoveStaging(i) \/ VerifyFfmpeg(i) PROVE Moves(i)
  BY <1>10 DEF Moves, MoveStaging, VerifyFfmpeg
<1>11. ASSUME NEW i \in Install,
             Initialize(i) \/ PersistTorPath(i) \/ InstallKillswitch(i) \/ Done(i)
       PROVE Moves(i)
  BY <1>11 DEF Moves, Initialize, PersistTorPath, InstallKillswitch, Done
<1>12. ASSUME NEW i \in Install, Kill(i) PROVE Answerable'
  BY <1>12, MovesAnswerable DEF Kill, Alive
<1>13. CASE UNCHANGED backendVars
  BY <1>13 DEF backendVars, BackendInv, Answerable, UnpackedBy
<1> QED
  BY <1>1, <1>2, <1>3, <1>4, <1>5, <1>6, <1>7, <1>8, <1>9, <1>10, <1>11, <1>12, <1>13
     DEF BackendNext, BackendStep

\* The invariant holds at the start.
LEMMA BackendInvInit == BackendInit => BackendInv
<1> SUFFICES ASSUME BackendInit PROVE BackendInv
  OBVIOUS
<1>1. BackendTypeOK
  BY DEF BackendInit, BackendTypeOK, BackendPart, Phase, Option
<1>2. Provided /\ Private /\ Owned /\ Answerable
  BY DEF BackendInit, Answerable, Provided, AfterTor, AfterDeps, Late, OverTor, GettingTor,
         Private, NoClearnetFallback, Owned, Killed
<1> QED
  BY <1>1, <1>2 DEF BackendInv

\* Every step keeps the invariant.
LEMMA BackendInvNext == BackendInv /\ [BackendNext]_backendVars => BackendInv'
<1> SUFFICES ASSUME BackendInv, [BackendNext]_backendVars PROVE BackendInv'
  OBVIOUS
<1> QED
  BY BackendTypeNext, ProvidedNext, PrivateNext, OwnedNext, AnswerableNext DEF BackendInv

\* The invariant holds for ever.
LEMMA BackendInvariance == BackendSpec => []BackendInv
  BY BackendInvInit, BackendInvNext, PTL DEF BackendSpec

------------------------------------------------------------------------------
(* What a step of a run is to Installer.                                    *)

Step == [I!InstallNext]_(I!installVars)
Going == Phase \ {"off", "exited"}

\* A step that installs nothing and does not end the run is none.
LEMMA StayingIsStutter ==
    ASSUME BackendTypeOK, NEW i \in Install, pc[i] \in Going,
           NEW p \in Going, Goes(i, p), UNCHANGED <<os, parts, bundle, opt>>
    PROVE  Step
<1>1. RunsSeen' = RunsSeen
  BY DEF RunsSeen, Goes, BackendTypeOK, Going, Phase
<1>2. PartsSeen' = PartsSeen /\ SkipsSeen' = SkipsSeen
  BY DEF PartsSeen, FindTor, SkipsSeen
<1> QED
  BY <1>1, <1>2 DEF Step, I!installVars

\* A step that adds to the parts and does not end the run provides one, or none.
LEMMA AddingIsProvide ==
    ASSUME BackendTypeOK, NEW i \in Install, pc[i] \in Going,
           NEW p \in Going, Goes(i, p), UNCHANGED <<os, opt>>,
           \/ PartsSeen' = PartsSeen
           \/ \E part \in I!Part : /\ part \in {"torFile", "killswitch"} => os = "nt"
                                 /\ PartsSeen' = PartsSeen \cup {part}
    PROVE  Step
<1>1. RunsSeen' = RunsSeen
  BY DEF RunsSeen, Goes, BackendTypeOK, Going, Phase
<1>2. RunsSeen[i] = "running"
  BY DEF RunsSeen, Going
<1>3. SkipsSeen' = SkipsSeen
  BY DEF SkipsSeen
<1>4. CASE PartsSeen' = PartsSeen
  BY <1>1, <1>3, <1>4 DEF Step, I!installVars
<1>5. CASE PartsSeen' # PartsSeen
  <2>1. I!Provide(i)
    BY <1>1, <1>2, <1>3, <1>5 DEF I!Provide
  <2> QED
    BY <2>1 DEF Step, I!InstallNext
<1> QED
  BY <1>4, <1>5

\* A step that ends the run, with 0 only if everything is there.
LEMMA EndingIsEnd ==
    ASSUME BackendTypeOK, NEW i \in Install, pc[i] \in Going,
           NEW how \in {"ok", "failed", "killed"}, Exits(i, how),
           UNCHANGED <<os, opt>>,
           UNCHANGED <<parts, bundle>> \/ PartsSeen' = PartsSeen,
           how = "ok" => I!Installed(i)
    PROVE  Step
<1> DEFINE end == IF how = "ok" THEN "ok" ELSE "failed"
<1>1. RunsSeen' = [RunsSeen EXCEPT ![i] = end]
  BY DEF RunsSeen, Exits, BackendTypeOK, Going, Phase
<1>2. RunsSeen[i] = "running"
  BY DEF RunsSeen, Going
<1>3. PartsSeen' = PartsSeen /\ SkipsSeen' = SkipsSeen
  BY DEF PartsSeen, FindTor, SkipsSeen
<1>4. I!End(i)
  BY <1>1, <1>2, <1>3 DEF I!End
<1> QED
  BY <1>4 DEF Step, I!InstallNext

\* Every step of every run is one of these.
LEMMA StepIsStep == BackendInv /\ [BackendNext]_backendVars => Step
<1> SUFFICES ASSUME BackendInv, [BackendNext]_backendVars PROVE Step
  OBVIOUS
<1> USE DEF BackendInv, disk, tryVars, At, Skips, KeepTry, Going, Phase
<1>1. ASSUME NEW i \in Install, NEW options \in Options, Run(i, options) PROVE Step
  <2> USE DEF BackendTypeOK
  <2>1. RunsSeen' = [RunsSeen EXCEPT ![i] = "running"] /\ RunsSeen[i] = "off"
    BY <1>1 DEF RunsSeen, Run, Goes
  <2>2. SkipsSeen' = [SkipsSeen EXCEPT ![i] = options.skip] /\ options.skip \in BOOLEAN
    BY <1>1 DEF SkipsSeen, Run, Option
  <2>3. PartsSeen' = PartsSeen /\ os' = os
    BY <1>1 DEF PartsSeen, FindTor, Run
  <2>4. I!Start(i, options.skip)
    BY <2>1, <2>2, <2>3 DEF I!Start
  <2> QED
    BY <2>2, <2>4 DEF Step, I!InstallNext
<1>2. ASSUME NEW i \in Install, NEW part \in BackendPart, NEW next \in Going, pc[i] \in Going,
             Provides(i, part, next), part = "killswitch" => os = "nt" PROVE Step
  <2>1. CASE Installs(part) /\ Goes(i, next)
    <3>1. PartsSeen' = IF part = "torpath" THEN PartsSeen ELSE PartsSeen \cup {part}
      BY <2>1 DEF PartsSeen, FindTor, Installs
    <3>2. part # "torpath" => part \in I!Part /\ part # "torFile"
      BY DEF BackendPart, I!Part
    <3> QED
      BY <1>2, <2>1, <3>1, <3>2, AddingIsProvide DEF Provides
  <2>2. CASE Exits(i, "failed") /\ UNCHANGED disk
    BY <1>2, <2>2, EndingIsEnd DEF Provides
  <2> QED
    BY <1>2, <2>1, <2>2 DEF Provides
<1>3. ASSUME NEW i \in Install, EnsureVenv(i) PROVE Step
  BY <1>2, <1>3, StayingIsStutter DEF EnsureVenv, BackendPart
<1>4. ASSUME NEW i \in Install, LookForTor(i) PROVE Step
  BY <1>4, StayingIsStutter DEF LookForTor
<1>5. ASSUME NEW i \in Install, FetchTor(i) PROVE Step
  BY <1>5, StayingIsStutter, EndingIsEnd DEF FetchTor
<1>6. ASSUME NEW i \in Install, UnpackTor(i) PROVE Step
  <2>1. os = "nt" /\ UNCHANGED <<os, opt>> /\ Goes(i, "unpackedTor") /\ pc[i] \in Going
    BY <1>6 DEF UnpackTor, Provided, GettingTor
  <2>2. PartsSeen' = PartsSeen \cup {"torFile"}
    BY <1>6 DEF UnpackTor, PartsSeen, FindTor
  <2> QED
    BY <2>1, <2>2, AddingIsProvide DEF I!Part
<1>7. ASSUME NEW i \in Install, UnpackedTor(i) PROVE Step
  <2>1. os = "nt" /\ UNCHANGED <<os, opt>> /\ pc[i] \in Going
    BY <1>7 DEF UnpackedTor, Provided, GettingTor
  <2>2. PartsSeen' = PartsSeen
    <3>1. FindTor
      BY <1>7, <2>1 DEF UnpackedTor, FindTor, Provided
    <3>2. FindTor'
      BY <1>7 DEF UnpackedTor, FindTor
    <3> QED
      BY <1>7, <3>1, <3>2 DEF UnpackedTor, PartsSeen
  <2>3. CASE Goes(i, "deps")
    BY <2>1, <2>2, <2>3, AddingIsProvide
  <2>4. CASE Exits(i, "failed")
    BY <2>1, <2>2, <2>4, EndingIsEnd
  <2> QED
    BY <1>7, <2>3, <2>4 DEF UnpackedTor
<1>8. ASSUME NEW i \in Install, NEW next \in Going, pc[i] \in Going, Installs("deps"),
             Goes(i, next), UNCHANGED <<os, opt>> PROVE Step
  <2>1. PartsSeen' = PartsSeen \cup {"deps"}
    BY <1>8 DEF Installs, PartsSeen, FindTor
  <2> QED
    BY <1>8, <2>1, AddingIsProvide DEF I!Part
<1>9. ASSUME NEW i \in Install, InstallDependencies(i) PROVE Step
  BY <1>8, <1>9, StayingIsStutter, EndingIsEnd DEF InstallDependencies, TryOverTor
<1>10. ASSUME NEW i \in Install, SpawnTor(i) PROVE Step
  BY <1>10, StayingIsStutter DEF SpawnTor, TryEnds
<1>11. ASSUME NEW i \in Install, WaitTorReady(i) PROVE Step
  BY <1>11, StayingIsStutter DEF WaitTorReady, TryEnds
<1>12. ASSUME NEW i \in Install, Load(i) PROVE Step
  BY <1>8, <1>12, StayingIsStutter DEF Load, TryEnds
<1>13. ASSUME NEW i \in Install, EndTry(i) PROVE Step
  BY <1>13, StayingIsStutter, EndingIsEnd DEF EndTry, After, GiveUp
<1>14. ASSUME NEW i \in Install, InstallFfmpeg(i) PROVE Step
  BY <1>14, StayingIsStutter DEF InstallFfmpeg, TryOverTor
<1>15. ASSUME NEW i \in Install, Stage(i) PROVE Step
  BY <1>15, StayingIsStutter DEF Stage
<1>16. ASSUME NEW i \in Install, RemoveTarget(i) PROVE Step
  BY <1>16, StayingIsStutter DEF RemoveTarget
<1>17. ASSUME NEW i \in Install, MoveStaging(i) PROVE Step
  BY <1>17, StayingIsStutter DEF MoveStaging
<1>18. ASSUME NEW i \in Install, VerifyFfmpeg(i) PROVE Step
  BY <1>18, StayingIsStutter, EndingIsEnd DEF VerifyFfmpeg
<1>19. ASSUME NEW i \in Install, Initialize(i) PROVE Step
  BY <1>2, <1>19 DEF Initialize, BackendPart
<1>20. ASSUME NEW i \in Install, PersistTorPath(i) PROVE Step
  BY <1>2, <1>20, StayingIsStutter DEF PersistTorPath, BackendPart
<1>21. ASSUME NEW i \in Install, InstallKillswitch(i) PROVE Step
  <2>1. os \in {"nt", "posix"}
    BY DEF BackendTypeOK
  <2> QED
    BY <1>2, <1>21, <2>1, StayingIsStutter DEF InstallKillswitch, BackendPart
<1>22. ASSUME NEW i \in Install, Done(i) PROVE Step
  <2>1. pc[i] = "done" /\ Exits(i, "ok") /\ UNCHANGED <<os, parts, bundle, opt>>
    BY <1>22 DEF Done
  <2>2. {"venv", "deps", "config"} \subseteq PartsSeen
    BY <2>1 DEF PartsSeen, Provided, AfterTor, AfterDeps, Late
  <2>3. os = "nt" => "torFile" \in PartsSeen /\ (SkipsSeen[i] \/ "killswitch" \in PartsSeen)
    BY <2>1 DEF PartsSeen, SkipsSeen, FindTor, Provided, AfterTor, AfterDeps, Late
  <2>4. I!Installed(i)
    BY <2>2, <2>3 DEF I!Installed
  <2> QED
    BY <2>1, <2>4, EndingIsEnd
<1>23. ASSUME NEW i \in Install, Kill(i) PROVE Step
  BY <1>23, EndingIsEnd DEF Kill, Alive, BackendTypeOK
<1>24. CASE UNCHANGED backendVars
  BY <1>24 DEF backendVars, Step, I!installVars, PartsSeen, RunsSeen, SkipsSeen, FindTor
<1> QED
  BY <1>1, <1>3, <1>4, <1>5, <1>6, <1>7, <1>9, <1>10, <1>11, <1>12, <1>13, <1>14, <1>15, <1>16, <1>17, <1>18,
     <1>19, <1>20, <1>21, <1>22, <1>23, <1>24 DEF BackendNext, BackendStep

------------------------------------------------------------------------------
(* The theorems.                                                            *)

\* The disk and every run are always well typed.
THEOREM BackendTypeCorrect == BackendSpec => []BackendTypeOK
<1>1. BackendInv => BackendTypeOK
  BY DEF BackendInv
<1> QED
  BY BackendInvariance, <1>1, PTL

\* However often Tor fails and whoever else runs: a run without the option
\* fetches nothing but Tor directly.
THEOREM NoFallback == BackendSpec => []NoClearnetFallback
<1>1. BackendInv => NoClearnetFallback
  BY DEF BackendInv, Private
<1> QED
  BY BackendInvariance, <1>1, PTL

\* On every path out of a run that was not killed, its Tor is gone, and of its
\* staging directory there is at most what could not be deleted.  Where a broken
\* Tor lies, a run is at it, or one has failed or was killed.
THEOREM NothingLeft == BackendSpec => []NothingLeftBehind
<1>1. BackendInv => NothingLeftBehind
  <2> SUFFICES ASSUME BackendInv PROVE NothingLeftBehind
    OBVIOUS
  <2>1. ASSUME NEW i \in Install, ~Alive(i), code[i] # "killed"
        PROVE  torProc[i] = "none" /\ staging[i] # "whole"
    BY <2>1 DEF BackendInv, Owned, Killed, Alive
  <2> QED
    BY <2>1 DEF BackendInv, Answerable, NothingLeftBehind
<1> QED
  BY BackendInvariance, <1>1, PTL

\* The programme implements Installer: any number of overlapping runs only
\* ever add parts, and one that ends with 0 has found or made all of them.
\* Installer's part of Tor is the file alone, so this does not say that the Tor
\* works; where it may not, NothingLeft says.
THEOREM InstallerImplemented == BackendSpec => ImplementsInstaller
<1>1. BackendInit => I!InstallInit
  BY DEF BackendInit, I!InstallInit, I!Part, PartsSeen, RunsSeen, SkipsSeen, FindTor
<1>2. BackendInv /\ [BackendNext]_backendVars => [I!InstallNext]_(I!installVars)
  BY StepIsStep DEF Step
<1> QED
  BY BackendInvariance, <1>1, <1>2, PTL DEF BackendSpec, ImplementsInstaller, I!InstallSpec

------------------------------------------------------------------------------
(***************************************************************************)
(* Proofs about SetupWeb for any number of install requests, whatever the  *)
(* polls, the refreshes and the threads' collections interleave into.      *)
(***************************************************************************)

USE SystemsAssumption, BaseAssumption, PatientAssumption, InstallAssumption

------------------------------------------------------------------------------
(* The parts of the invariant.                                              *)

\* Nothing that was ever collected or stored is missing on the disk.
Collected ==
    /\ cache \subseteq Seen
    /\ \A c \in Collector : got[c] \subseteq Seen

\* A request whose thread has not yet run has no backend and no option.
NotBegun ==
    \A i \in Install : thread[i] \in {"new", "refused", "created"} =>
                           run[i] = "off" /\ ~skip[i]

\* What an exit code of 0, the option and "done" still stand for later.
KillswitchKnown == os = "nt" => "killswitch" \in have \/ \E i \in Install : skip[i]
Settled ==
    /\ \A i \in Install : run[i] = "ok" => Installed(i)
    /\ skipped => \E i \in Install : skip[i]
    /\ state = "done" => KillswitchKnown

\* A backend is watched by its thread; a patient user has one thread that has
\* not settled, and while it has begun the state says so.
Active == {"created", "watch", "failed"}
Watched ==
    /\ \A i \in Install : run[i] = "running" => thread[i] = "watch"
    /\ Patient => \A i \in Install :
         /\ thread[i] \in {"watch", "failed"} => state = "running"
         /\ \A j \in Install : thread[i] \in Active /\ thread[j] \in Active => i = j

Inv == TypeOK /\ Collected /\ NotBegun /\ Settled /\ ReadyIsTrue /\ Watched

------------------------------------------------------------------------------
(* Every step keeps every part.                                             *)

\* Every step keeps the types.
LEMMA TypeNext == Inv /\ [Next]_vars => TypeOK'
<1> SUFFICES ASSUME Inv, [Next]_vars PROVE TypeOK'
  OBVIOUS
<1> USE DEF Inv, stateVars, collectVars, cacheVars, installVars, TypeOK, Collector, Status, Refresh, Seen, Part
<1>1. CASE LookStatus
  <2>1. Status \in Collector /\ Seen \subseteq Part
    OBVIOUS
  <2>2. PICK l \in {"collecting", "answer"} : look' = [look EXCEPT ![Status] = l]
    BY <1>1 DEF LookStatus, BeginCollect
  <2>3. PICK g \in {cache, Seen} : got' = [got EXCEPT ![Status] = g]
    BY <1>1 DEF LookStatus, BeginCollect
  <2>4. look' \in [Collector -> {"idle", "collecting", "answer"}]
    BY <2>1, <2>2
  <2>5. got' \in [Collector -> SUBSET Part]
    BY <2>1, <2>3
  <2>6. UNCHANGED <<state, skipped, cached, cache, thread, ready, os, have, run, skip>>
    BY <1>1 DEF LookStatus, BeginCollect
  <2> QED
    BY <2>4, <2>5, <2>6
<1>2. CASE StoreStatus
  BY <1>2 DEF StoreStatus, Store, Checks
<1>3. CASE AnswerStatus
  BY <1>3 DEF AnswerStatus, NeedsKillswitch
<1>4. CASE BeginRefresh
  BY <1>4 DEF BeginRefresh, Empty, BeginCollect
<1>5. CASE EndRefresh
  BY <1>5 DEF EndRefresh, Store, Checks
<1>6. CASE Age
  BY <1>6 DEF Age, GrowsOld, Empty
<1>7. ASSUME NEW i \in Install, Ask(i) PROVE TypeOK'
  BY <1>7 DEF Ask, Thread, Running
<1>8. ASSUME NEW i \in Install, StartBackend(i) PROVE TypeOK'
  BY <1>8, ZenonT(30) DEF StartBackend, Thread, Start
<1>9. ASSUME NEW i \in Install, Settle(i) PROVE TypeOK'
  BY <1>9 DEF Settle, Thread, Verdict
<1>10. ASSUME NEW i \in Install, EmptyCache(i) PROVE TypeOK'
  BY <1>10 DEF EmptyCache, Thread, Empty, BeginCollect
<1>11. ASSUME NEW i \in Install, FillCache(i) PROVE TypeOK'
  BY <1>11 DEF FillCache, Thread, Store, Checks
<1>12. ASSUME NEW i \in Install, Process(i) PROVE TypeOK'
  BY <1>12 DEF Process, Provide, End, Installed
<1>13. CASE UNCHANGED vars
  BY <1>13 DEF vars
<1> QED
  BY <1>1, <1>2, <1>3, <1>4, <1>5, <1>6, <1>7, <1>8, <1>9, <1>10, <1>11, <1>12, <1>13 DEF Next, StatusStep, ThreadStep

\* Every step keeps to what is on the disk.
LEMMA CollectedNext == Inv /\ [Next]_vars => Collected'
<1> SUFFICES ASSUME Inv, [Next]_vars PROVE Collected'
  OBVIOUS
<1> USE DEF Inv, stateVars, collectVars, cacheVars, installVars, TypeOK, Collected, Seen, Collector, Status, Refresh
<1>1. CASE LookStatus
  BY <1>1 DEF LookStatus, BeginCollect
<1>2. CASE StoreStatus
  BY <1>2 DEF StoreStatus, Store, Checks
<1>3. CASE AnswerStatus
  BY <1>3 DEF AnswerStatus, NeedsKillswitch
<1>4. CASE BeginRefresh
  BY <1>4 DEF BeginRefresh, Empty, BeginCollect
<1>5. CASE EndRefresh
  BY <1>5 DEF EndRefresh, Store, Checks
<1>6. CASE Age
  BY <1>6 DEF Age, GrowsOld, Empty
<1>7. ASSUME NEW i \in Install, Ask(i) PROVE Collected'
  BY <1>7 DEF Ask, Thread, Running
<1>8. ASSUME NEW i \in Install, StartBackend(i) PROVE Collected'
  BY <1>8 DEF StartBackend, Thread, Start
<1>9. ASSUME NEW i \in Install, Settle(i) PROVE Collected'
  BY <1>9 DEF Settle, Thread, Verdict
<1>10. ASSUME NEW i \in Install, EmptyCache(i) PROVE Collected'
  BY <1>10 DEF EmptyCache, Thread, Empty, BeginCollect
<1>11. ASSUME NEW i \in Install, FillCache(i) PROVE Collected'
  BY <1>11 DEF FillCache, Thread, Store, Checks
<1>12. ASSUME NEW i \in Install, Process(i) PROVE Collected'
  BY <1>12 DEF Process, Provide, End, Installed
<1>13. CASE UNCHANGED vars
  BY <1>13 DEF vars
<1> QED
  BY <1>1, <1>2, <1>3, <1>4, <1>5, <1>6, <1>7, <1>8, <1>9, <1>10, <1>11, <1>12, <1>13 DEF Next, StatusStep, ThreadStep

\* Every step leaves the requests alone that have not begun.
LEMMA NotBegunNext == Inv /\ [Next]_vars => NotBegun'
<1> SUFFICES ASSUME Inv, [Next]_vars PROVE NotBegun'
  OBVIOUS
<1> USE DEF Inv, stateVars, collectVars, cacheVars, installVars, TypeOK, NotBegun
<1>1. CASE LookStatus
  BY <1>1 DEF LookStatus, BeginCollect
<1>2. CASE StoreStatus
  BY <1>2 DEF StoreStatus, Store, Checks
<1>3. CASE AnswerStatus
  BY <1>3 DEF AnswerStatus, NeedsKillswitch
<1>4. CASE BeginRefresh
  BY <1>4 DEF BeginRefresh, Empty, BeginCollect
<1>5. CASE EndRefresh
  BY <1>5 DEF EndRefresh, Store, Checks
<1>6. CASE Age
  BY <1>6 DEF Age, GrowsOld, Empty
<1>7. ASSUME NEW i \in Install, Ask(i) PROVE NotBegun'
  BY <1>7 DEF Ask, Thread, Running
<1>8. ASSUME NEW i \in Install, StartBackend(i) PROVE NotBegun'
  BY <1>8 DEF StartBackend, Thread, Start
<1>9. ASSUME NEW i \in Install, Settle(i) PROVE NotBegun'
  BY <1>9 DEF Settle, Thread, Verdict
<1>10. ASSUME NEW i \in Install, EmptyCache(i) PROVE NotBegun'
  BY <1>10 DEF EmptyCache, Thread, Empty, BeginCollect
<1>11. ASSUME NEW i \in Install, FillCache(i) PROVE NotBegun'
  BY <1>11 DEF FillCache, Thread, Store, Checks
<1>12. ASSUME NEW i \in Install, Process(i) PROVE NotBegun'
  BY <1>12 DEF Process, Provide, End, Installed
<1>13. CASE UNCHANGED vars
  BY <1>13 DEF vars
<1> QED
  BY <1>1, <1>2, <1>3, <1>4, <1>5, <1>6, <1>7, <1>8, <1>9, <1>10, <1>11, <1>12, <1>13 DEF Next, StatusStep, ThreadStep

\* Every step keeps what has been settled.
LEMMA SettledNext == Inv /\ [Next]_vars => Settled'
<1> SUFFICES ASSUME Inv, [Next]_vars PROVE Settled'
  OBVIOUS
<1> USE DEF Inv, stateVars, collectVars, cacheVars, installVars, TypeOK, NotBegun, Settled, KillswitchKnown, Installed
<1>1. CASE LookStatus
  BY <1>1 DEF LookStatus, BeginCollect
<1>2. CASE StoreStatus
  BY <1>2 DEF StoreStatus, Store, Checks
<1>3. CASE AnswerStatus
  BY <1>3 DEF AnswerStatus, NeedsKillswitch
<1>4. CASE BeginRefresh
  BY <1>4 DEF BeginRefresh, Empty, BeginCollect
<1>5. CASE EndRefresh
  BY <1>5 DEF EndRefresh, Store, Checks
<1>6. CASE Age
  BY <1>6 DEF Age, GrowsOld, Empty
<1>7. ASSUME NEW i \in Install, Ask(i) PROVE Settled'
  BY <1>7 DEF Ask, Thread, Running
<1>8. ASSUME NEW i \in Install, StartBackend(i) PROVE Settled'
  BY <1>8 DEF StartBackend, Thread, Start
<1>9. ASSUME NEW i \in Install, Settle(i) PROVE Settled'
  BY <1>9 DEF Settle, Thread, Verdict
<1>10. ASSUME NEW i \in Install, EmptyCache(i) PROVE Settled'
  BY <1>10 DEF EmptyCache, Thread, Empty, BeginCollect
<1>11. ASSUME NEW i \in Install, FillCache(i) PROVE Settled'
  BY <1>11 DEF FillCache, Thread, Store, Checks
<1>12. ASSUME NEW i \in Install, Process(i) PROVE Settled'
  BY <1>12 DEF Process, Provide, End, Installed
<1>13. CASE UNCHANGED vars
  BY <1>13 DEF vars
<1> QED
  BY <1>1, <1>2, <1>3, <1>4, <1>5, <1>6, <1>7, <1>8, <1>9, <1>10, <1>11, <1>12, <1>13 DEF Next, StatusStep, ThreadStep

\* Every answer is true and stays true.
LEMMA ReadyNext == Inv /\ [Next]_vars => ReadyIsTrue'
<1> SUFFICES ASSUME Inv, [Next]_vars PROVE ReadyIsTrue'
  OBVIOUS
<1> USE DEF Inv, stateVars, collectVars, cacheVars, installVars, TypeOK, NotBegun, ReadyIsTrue, Critical
<1>1. CASE LookStatus
  BY <1>1 DEF LookStatus, BeginCollect
<1>2. CASE StoreStatus
  BY <1>2 DEF StoreStatus, Store, Checks
<1>3. CASE AnswerStatus
  <2>1. UNCHANGED <<os, have, skip>>
    BY <1>3 DEF AnswerStatus
  <2>2. ready' => /\ Critical \subseteq Seen
                  /\ os = "nt" => "killswitch" \in have \/ skipped \/ state = "done"
    BY <1>3 DEF AnswerStatus, NeedsKillswitch, Collected, Collector, Status, Seen
  <2>3. Critical \subseteq Seen => Critical \subseteq have
    BY DEF Seen
  <2> QED
    BY <2>1, <2>2, <2>3 DEF Settled, KillswitchKnown
<1>4. CASE BeginRefresh
  BY <1>4 DEF BeginRefresh, Empty, BeginCollect
<1>5. CASE EndRefresh
  BY <1>5 DEF EndRefresh, Store, Checks
<1>6. CASE Age
  BY <1>6 DEF Age, GrowsOld, Empty
<1>7. ASSUME NEW i \in Install, Ask(i) PROVE ReadyIsTrue'
  BY <1>7 DEF Ask, Thread, Running
<1>8. ASSUME NEW i \in Install, StartBackend(i) PROVE ReadyIsTrue'
  BY <1>8 DEF StartBackend, Thread, Start
<1>9. ASSUME NEW i \in Install, Settle(i) PROVE ReadyIsTrue'
  BY <1>9 DEF Settle, Thread, Verdict
<1>10. ASSUME NEW i \in Install, EmptyCache(i) PROVE ReadyIsTrue'
  BY <1>10 DEF EmptyCache, Thread, Empty, BeginCollect
<1>11. ASSUME NEW i \in Install, FillCache(i) PROVE ReadyIsTrue'
  BY <1>11 DEF FillCache, Thread, Store, Checks
<1>12. ASSUME NEW i \in Install, Process(i) PROVE ReadyIsTrue'
  BY <1>12 DEF Process, Provide, End, Installed
<1>13. CASE UNCHANGED vars
  BY <1>13 DEF vars
<1> QED
  BY <1>1, <1>2, <1>3, <1>4, <1>5, <1>6, <1>7, <1>8, <1>9, <1>10, <1>11, <1>12, <1>13 DEF Next, StatusStep, ThreadStep

\* Every step keeps the backends watched.
LEMMA WatchedNext == Inv /\ [Next]_vars => Watched'
<1> SUFFICES ASSUME Inv, [Next]_vars PROVE Watched'
  OBVIOUS
<1> USE DEF Inv, stateVars, collectVars, cacheVars, installVars, TypeOK, NotBegun, Watched, Active
<1>1. CASE LookStatus
  BY <1>1 DEF LookStatus, BeginCollect
<1>2. CASE StoreStatus
  BY <1>2 DEF StoreStatus, Store, Checks
<1>3. CASE AnswerStatus
  BY <1>3 DEF AnswerStatus, NeedsKillswitch
<1>4. CASE BeginRefresh
  BY <1>4 DEF BeginRefresh, Empty, BeginCollect
<1>5. CASE EndRefresh
  BY <1>5 DEF EndRefresh, Store, Checks
<1>6. CASE Age
  BY <1>6 DEF Age, GrowsOld, Empty
<1>7. ASSUME NEW i \in Install, Ask(i) PROVE Watched'
  BY <1>7 DEF Ask, Thread, Running
<1>8. ASSUME NEW i \in Install, StartBackend(i) PROVE Watched'
  BY <1>8 DEF StartBackend, Thread, Start
<1>9. ASSUME NEW i \in Install, Settle(i) PROVE Watched'
  BY <1>9 DEF Settle, Thread, Verdict
<1>10. ASSUME NEW i \in Install, EmptyCache(i) PROVE Watched'
  BY <1>10 DEF EmptyCache, Thread, Empty, BeginCollect
<1>11. ASSUME NEW i \in Install, FillCache(i) PROVE Watched'
  BY <1>11 DEF FillCache, Thread, Store, Checks
<1>12. ASSUME NEW i \in Install, Process(i) PROVE Watched'
  BY <1>12 DEF Process, Provide, End, Installed
<1>13. CASE UNCHANGED vars
  BY <1>13 DEF vars
<1> QED
  BY <1>1, <1>2, <1>3, <1>4, <1>5, <1>6, <1>7, <1>8, <1>9, <1>10, <1>11, <1>12, <1>13 DEF Next, StatusStep, ThreadStep

\* The invariant holds at the start.
LEMMA InvInit == Init => Inv
<1> SUFFICES ASSUME Init PROVE Inv
  OBVIOUS
<1> USE DEF Init, InstallInit
<1>1. TypeOK
  BY DEF TypeOK
<1>2. Collected /\ NotBegun /\ Settled /\ ReadyIsTrue /\ Watched
  BY DEF Collected, NotBegun, Settled, ReadyIsTrue, Watched, Active
<1> QED
  BY <1>1, <1>2 DEF Inv

\* Every step keeps the invariant.
LEMMA InvNext == Inv /\ [Next]_vars => Inv'
<1> SUFFICES ASSUME Inv, [Next]_vars PROVE Inv'
  OBVIOUS
<1> QED
  BY TypeNext, CollectedNext, NotBegunNext, SettledNext, ReadyNext, WatchedNext DEF Inv

\* The invariant holds for ever.
LEMMA Invariance == Spec => []Inv
  BY InvInit, InvNext, PTL DEF Spec

------------------------------------------------------------------------------
(* The theorems.                                                            *)

\* The page's server, its threads and the disk are always well typed.
THEOREM TypeCorrect == Spec => []TypeOK
<1>1. Inv => TypeOK
  BY DEF Inv
<1> QED
  BY Invariance, <1>1, PTL

\* However old the checks are from which an answer is made: a page that offers
\* to start OnionCall offers something that is there.
THEOREM ReadyIsAlwaysTrue == Spec => []ReadyIsTrue
<1>1. Inv => ReadyIsTrue
  BY DEF Inv
<1> QED
  BY Invariance, <1>1, PTL

\* Two backends never work on the disk at once for a user who waits for the
\* page, however many requests that user makes.
THEOREM OneBackend == Spec => []OneBackendAtATime
<1>1. Inv => OneBackendAtATime
  BY DEF Inv, Watched, Active, OneBackendAtATime
<1> QED
  BY Invariance, <1>1, PTL
==============================================================================
