---------------------------- MODULE AudioBackend ----------------------------
(***************************************************************************)
(* onioncall.audio.AudioBackend: record_opus and play_opus, run by several *)
(* threads on one runtime directory.  A step is one temporary file created *)
(* or one child process run to its end.  Of a file the model knows whether *)
(* it may hold sound (recorded, encoded, decoded); of a call, where it is  *)
(* and how it ended.  The caller (InteractiveSession, GuiSession) starts a *)
(* call with Record or Play and takes its outcome when it has returned.    *)
(***************************************************************************)

CONSTANTS
    Thread,     \* threads that record or play
    Platforms   \* platforms the program runs on

ASSUME PlatformAssumption ==
    Platforms \subseteq {"Linux", "Termux", "Darwin", "Windows"}

VARIABLES
    platform,   \* platform.system() and is_termux()
    aud,        \* aud[t]: where t's call is; "none" if there is none
    ret,        \* ret[t]: how t's call ends
    file        \* file[t][n]: the temporary file n of t's call

audioVars == <<platform, aud, ret, file>>

Name == {"raw", "mobile", "encoded", "wav"}

AudioInit ==
    /\ platform \in Platforms
    /\ aud = [t \in Thread |-> "none"]
    /\ ret = [t \in Thread |-> "ok"]
    /\ file = [t \in Thread |-> [n \in Name |-> "absent"]]

\* A call begins, goes on, raises on its way out, or has its outcome taken.
Begin(t, first) ==
    /\ aud[t] = "none"
    /\ aud' = [aud EXCEPT ![t] = first]
    /\ UNCHANGED <<platform, ret, file>>
Record(t) == Begin(t, "check")
Play(t) == Begin(t, "validate")

Goes(t, to) == aud' = [aud EXCEPT ![t] = to] /\ UNCHANGED ret
Raises(t, errors, to) ==
    /\ aud' = [aud EXCEPT ![t] = to]
    /\ \E e \in errors : ret' = [ret EXCEPT ![t] = e]

Holds(t, n, content) == file' = [file EXCEPT ![t][n] = content]

Taken(t) ==
    /\ aud[t] = "returned"
    /\ aud' = [aud EXCEPT ![t] = "none"]
    /\ ret' = [ret EXCEPT ![t] = "ok"]
    /\ UNCHANGED <<platform, file>>

\* _run: whatever happens to the child process is reported as AudioError.
RunErrors == {"AudioError"}

\* _private_temp: an empty file, or OSError and no file.
PrivateTemp(t, from, n, to, failed) ==
    /\ aud[t] = from
    /\ \/ Goes(t, to) /\ Holds(t, n, "empty")
       \/ Raises(t, {"OSError"}, failed) /\ UNCHANGED file
    /\ UNCHANGED platform

\* A child process that writes sound to file n; one that fails may have
\* written some of it, too.
Produces(t, from, n, to, errors) ==
    /\ aud[t] = from
    /\ Goes(t, to) \/ Raises(t, errors, "unlink")
    /\ Holds(t, n, "sound")
    /\ UNCHANGED platform

\* A step that writes nothing: it goes on or raises.
Passes(t, from, to, errors, failed) ==
    /\ aud[t] = from
    /\ Goes(t, to) \/ Raises(t, errors, failed)
    /\ UNCHANGED <<platform, file>>

------------------------------------------------------------------------------
(* record_opus.  raw and encoded are created before the try statement; a    *)
(* failure to create the second leaves the first behind, empty.             *)

\* What the recorder writes, and what comes after it.
Recorded == CASE platform = "Windows" -> "encoded"
              [] platform = "Termux" -> "mobile"
              [] OTHER -> "raw"
AfterCapture == CASE platform = "Windows" -> "read"
                  [] platform = "Termux" -> "quit"
                  [] OTHER -> "encode"

RecordStep(t) ==
    \/ Passes(t, "check", "raw", {"AudioError"}, "returned")
    \/ PrivateTemp(t, "raw", "raw", "encoded", "returned")
    \/ PrivateTemp(t, "encoded", "encoded",
                   IF platform = "Termux" THEN "mobile" ELSE "capture", "returned")
    \/ PrivateTemp(t, "mobile", "mobile", "capture", "unlink")
    \* termux-microphone-record is run without _run's conversion of errors
    \/ Produces(t, "capture", Recorded, AfterCapture,
                IF platform = "Termux" THEN {"OSError", "SubprocessError"}
                                       ELSE RunErrors)
    \/ Passes(t, "quit", "convert", {"OSError", "SubprocessError"}, "unlink")
    \/ Produces(t, "convert", "raw", "encode", RunErrors)
    \/ Produces(t, "encode", "encoded", "read", RunErrors)
    \/ Passes(t, "read", "unlink", {"AudioError", "OSError"}, "unlink")

------------------------------------------------------------------------------
(* play_opus.  The payload is validated before anything is written.         *)

PlayStep(t) ==
    \/ Passes(t, "validate", "copy", {"AudioError"}, "returned")
    \/ PrivateTemp(t, "copy", "encoded", "wav", "returned")
    \/ PrivateTemp(t, "wav", "wav", "write", "returned")
    \/ Produces(t, "write", "encoded", "decode", {"OSError"})
    \/ Produces(t, "decode", "wav", "sound", RunErrors)
    \/ Passes(t, "sound", "unlink", {"AudioError", "OSError"}, "unlink")

\* Mutant: the decoded file is forgotten.
UnlinkedButWav == Name \ {"wav"}
\* The two finally clauses, over the files their call can have.
Unlinked == Name

Unlink(t) ==
    /\ aud[t] = "unlink"
    /\ Goes(t, "returned")
    /\ file' = [file EXCEPT ![t] = [n \in Name |->
                  IF n \in Unlinked THEN "absent" ELSE file[t][n]]]
    /\ UNCHANGED platform

AudioStep(t) == RecordStep(t) \/ PlayStep(t) \/ Unlink(t)

AudioNext == \E t \in Thread : Record(t) \/ Play(t) \/ Taken(t) \/ AudioStep(t)

AudioSpec == AudioInit /\ [][AudioNext]_audioVars

------------------------------------------------------------------------------
(* Properties.                                                              *)

\* Every variable has its type.
AudioTypeOK ==
    /\ platform \in Platforms
    /\ aud \in [Thread -> {"none", "check", "raw", "encoded", "mobile", "capture",
                           "quit", "convert", "encode", "read", "validate",
                           "copy", "wav", "write", "decode", "sound", "unlink",
                           "returned"}]
    /\ ret \in [Thread -> {"ok", "AudioError", "OSError", "SubprocessError"}]
    /\ file \in [Thread -> [Name -> {"absent", "empty", "sound"}]]

InCall(t) == aud[t] \notin {"none", "returned"}

\* "Die Dateien werden nach Kodierung beziehungsweise Wiedergabe entfernt": on
\* every path out of record_opus and play_opus, errors included, no file with
\* sound is left; at most an empty one is.
ClearSoundDeleted ==
    \A t \in Thread, n \in Name : file[t][n] = "sound" => InCall(t)
==============================================================================
