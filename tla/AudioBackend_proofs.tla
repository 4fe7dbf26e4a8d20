------------------------- MODULE AudioBackend_proofs -------------------------
(***************************************************************************)
(* Proofs about AudioBackend for any threads and platforms.                *)
(***************************************************************************)
EXTENDS AudioBackend, TLAPS

\* The steps of a call between the first program that writes sound and the
\* finally clause.
SoundPhases == {"quit", "convert", "encode", "read", "decode", "sound", "unlink"}

\* Sound is on the disk in no other step: what raises earlier has none to leave.
SoundInPhase ==
    \A t \in Thread, n \in Name : file[t][n] = "sound" => aud[t] \in SoundPhases

AudioInv == AudioTypeOK /\ SoundInPhase

Outcome == {"ok", "AudioError", "OSError", "SubprocessError"}
Content == {"absent", "empty", "sound"}
AudioPhase == {"none", "check", "raw", "encoded", "mobile", "capture", "validate",
               "copy", "wav", "write", "returned"} \cup SoundPhases

\* A call that moves on, or raises on its way, leaves the others' alone.
LEMMA MovingOn ==
    ASSUME AudioInv, NEW t \in Thread, NEW to \in AudioPhase,
           NEW failed \in AudioPhase, NEW errors \in SUBSET Outcome,
           Goes(t, to) \/ Raises(t, errors, failed)
    PROVE  /\ aud' \in [Thread -> AudioPhase] /\ ret' \in [Thread -> Outcome]
           /\ aud'[t] \in {to, failed}
           /\ \A u \in Thread \ {t} : aud'[u] = aud[u]
<1> USE DEF AudioInv, AudioTypeOK, AudioPhase, SoundPhases, Outcome
<1>1. CASE Goes(t, to)
  BY <1>1 DEF Goes
<1>2. CASE Raises(t, errors, failed)
  BY <1>2 DEF Raises
<1> QED
  BY <1>1, <1>2

\* A file of a call gets new content, every other file keeps its own.
LEMMA Writing ==
    ASSUME AudioInv, NEW t \in Thread, NEW n \in Name, NEW content \in Content,
           Holds(t, n, content)
    PROVE  /\ file' \in [Thread -> [Name -> Content]]
           /\ file'[t][n] = content
           /\ \A m \in Name \ {n} : file'[t][m] = file[t][m]
           /\ \A u \in Thread \ {t} : file'[u] = file[u]
<1>1. file' = [file EXCEPT ![t] = [file[t] EXCEPT ![n] = content]]
  BY DEF Holds
<1>2. file \in [Thread -> [Name -> Content]]
  BY DEF AudioInv, AudioTypeOK, Content
<1>3. [file[t] EXCEPT ![n] = content] \in [Name -> Content]
  BY <1>2
<1> QED
  BY <1>1, <1>2, <1>3

\* A step that writes nothing does not leave the sound behind.
LEMMA PassesKeeps ==
    ASSUME AudioInv, NEW t \in Thread, NEW from, NEW to \in AudioPhase,
           NEW failed \in AudioPhase, NEW errors \in SUBSET Outcome,
           Passes(t, from, to, errors, failed),
           from \in SoundPhases => to \in SoundPhases /\ failed \in SoundPhases
    PROVE  AudioInv'
<1>1. UNCHANGED <<platform, file>> /\ aud[t] = from
  BY DEF Passes
<1>2. /\ aud' \in [Thread -> AudioPhase] /\ ret' \in [Thread -> Outcome]
      /\ aud'[t] \in {to, failed} /\ \A u \in Thread \ {t} : aud'[u] = aud[u]
  BY MovingOn DEF Passes
<1>3. AudioTypeOK'
  BY <1>1, <1>2 DEF AudioInv, AudioTypeOK, AudioPhase, SoundPhases, Outcome
<1>4. SoundInPhase'
  BY <1>1, <1>2 DEF AudioInv, SoundInPhase
<1> QED
  BY <1>3, <1>4 DEF AudioInv

\* Neither does the creation of a file, before there is any.
LEMMA PrivateTempKeeps ==
    ASSUME AudioInv, NEW t \in Thread, NEW n \in Name, NEW from,
           from \notin SoundPhases, NEW to \in AudioPhase,
           NEW failed \in AudioPhase, PrivateTemp(t, from, n, to, failed)
    PROVE  AudioInv'
<1>1. UNCHANGED platform /\ aud[t] = from
  BY DEF PrivateTemp
<1>2. /\ aud' \in [Thread -> AudioPhase] /\ ret' \in [Thread -> Outcome]
      /\ \A u \in Thread \ {t} : aud'[u] = aud[u]
  <2>1. Goes(t, to) \/ Raises(t, {"OSError"}, failed)
    BY DEF PrivateTemp
  <2>2. {"OSError"} \in SUBSET Outcome
    BY DEF Outcome
  <2> QED
    BY <2>1, <2>2, MovingOn
<1>3. \A m \in Name : file[t][m] # "sound"
  BY <1>1 DEF AudioInv, SoundInPhase
<1>4. CASE UNCHANGED file
  <2>1. AudioTypeOK'
    BY <1>1, <1>2, <1>4 DEF AudioInv, AudioTypeOK, AudioPhase, SoundPhases, Outcome
  <2>2. SoundInPhase'
    BY <1>2, <1>3, <1>4 DEF AudioInv, SoundInPhase
  <2> QED
    BY <2>1, <2>2 DEF AudioInv
<1>5. CASE Holds(t, n, "empty")
  <2>1. /\ file' \in [Thread -> [Name -> Content]]
        /\ file'[t][n] = "empty"
        /\ \A m \in Name \ {n} : file'[t][m] = file[t][m]
        /\ \A u \in Thread \ {t} : file'[u] = file[u]
    BY <1>5, Writing DEF Content
  <2>2. AudioTypeOK'
    BY <1>1, <1>2, <2>1 DEF AudioInv, AudioTypeOK, AudioPhase, SoundPhases, Outcome,
       Content
  <2>3. SoundInPhase'
    BY <1>2, <1>3, <2>1 DEF AudioInv, SoundInPhase
  <2> QED
    BY <2>2, <2>3 DEF AudioInv
<1> QED
  BY <1>4, <1>5 DEF PrivateTemp

\* A program that writes sound is followed by steps that end in the deletion.
LEMMA ProducesKeeps ==
    ASSUME AudioInv, NEW t \in Thread, NEW n \in Name, NEW from,
           NEW to \in SoundPhases, NEW errors \in SUBSET Outcome,
           Produces(t, from, n, to, errors)
    PROVE  AudioInv'
<1>1. UNCHANGED platform
  BY DEF Produces
<1>2. /\ aud' \in [Thread -> AudioPhase] /\ ret' \in [Thread -> Outcome]
      /\ aud'[t] \in SoundPhases
      /\ \A u \in Thread \ {t} : aud'[u] = aud[u]
  <2>1. Goes(t, to) \/ Raises(t, errors, "unlink")
    BY DEF Produces
  <2>2. to \in AudioPhase /\ "unlink" \in SoundPhases /\ "unlink" \in AudioPhase
    BY DEF AudioPhase, SoundPhases
  <2> QED
    BY <2>1, <2>2, MovingOn
<1>3. /\ file' \in [Thread -> [Name -> Content]]
      /\ \A u \in Thread \ {t} : file'[u] = file[u]
  BY Writing DEF Produces, Content
<1>4. AudioTypeOK'
  BY <1>1, <1>2, <1>3 DEF AudioInv, AudioTypeOK, AudioPhase, SoundPhases, Outcome,
     Content
<1>5. SoundInPhase'
  BY <1>2, <1>3 DEF AudioInv, SoundInPhase
<1> QED
  BY <1>4, <1>5 DEF AudioInv

\* A step inside a call: only its thread's place moves, and not out of it.
LEMMA AudioStepStays ==
    ASSUME AudioTypeOK, NEW t \in Thread, AudioStep(t)
    PROVE  /\ aud[t] # "none" /\ aud'[t] # "none"
           /\ \A u \in Thread \ {t} : aud'[u] = aud[u]
<1> USE DEF AudioTypeOK, Goes, Raises
<1>1. CASE RecordStep(t)
  BY <1>1 DEF RecordStep, Passes, PrivateTemp, Produces, AfterCapture
<1>2. CASE PlayStep(t)
  BY <1>2 DEF PlayStep, Passes, PrivateTemp, Produces
<1>3. CASE Unlink(t)
  BY <1>3 DEF Unlink
<1> QED
  BY <1>1, <1>2, <1>3 DEF AudioStep

\* Every step of every call keeps types and places of sound.
LEMMA AudioInvNext == AudioInv /\ [AudioNext]_audioVars => AudioInv'
<1> SUFFICES ASSUME AudioInv, [AudioNext]_audioVars PROVE AudioInv'
  OBVIOUS
<1> USE DEF AudioPhase, SoundPhases, Name, Outcome, RunErrors
<1>1. ASSUME NEW t \in Thread, Record(t) \/ Play(t) \/ Taken(t) PROVE AudioInv'
  BY <1>1 DEF AudioInv, AudioTypeOK, SoundInPhase, Record, Play, Begin, Taken
<1>2. ASSUME NEW t \in Thread, RecordStep(t) PROVE AudioInv'
  <2>1. CASE \/ Passes(t, "check", "raw", {"AudioError"}, "returned")
             \/ Passes(t, "quit", "convert", {"OSError", "SubprocessError"}, "unlink")
             \/ Passes(t, "read", "unlink", {"AudioError", "OSError"}, "unlink")
    BY <2>1, PassesKeeps
  <2>2. CASE \/ PrivateTemp(t, "raw", "raw", "encoded", "returned")
             \/ PrivateTemp(t, "mobile", "mobile", "capture", "unlink")
    BY <2>2, PrivateTempKeeps
  <2>3. CASE PrivateTemp(t, "encoded", "encoded",
                   IF platform = "Termux" THEN "mobile" ELSE "capture", "returned")
    BY <2>3, PrivateTempKeeps
  <2>4. CASE Produces(t, "capture", Recorded, AfterCapture,
                IF platform = "Termux" THEN {"OSError", "SubprocessError"}
                                       ELSE RunErrors)
    <3>1. Recorded \in Name /\ AfterCapture \in SoundPhases
      BY DEF Recorded, AfterCapture
    <3>2. (IF platform = "Termux" THEN {"OSError", "SubprocessError"}
                                  ELSE RunErrors) \in SUBSET Outcome
      OBVIOUS
    <3> QED
      BY <2>4, <3>1, <3>2, ProducesKeeps
  <2>5. CASE \/ Produces(t, "convert", "raw", "encode", RunErrors)
             \/ Produces(t, "encode", "encoded", "read", RunErrors)
    BY <2>5, ProducesKeeps
  <2> QED
    BY <1>2, <2>1, <2>2, <2>3, <2>4, <2>5 DEF RecordStep
<1>3. ASSUME NEW t \in Thread, PlayStep(t) PROVE AudioInv'
  <2>1. CASE \/ Passes(t, "validate", "copy", {"AudioError"}, "returned")
             \/ Passes(t, "sound", "unlink", {"AudioError", "OSError"}, "unlink")
    BY <2>1, PassesKeeps
  <2>2. CASE \/ PrivateTemp(t, "copy", "encoded", "wav", "returned")
             \/ PrivateTemp(t, "wav", "wav", "write", "returned")
    BY <2>2, PrivateTempKeeps
  <2>3. CASE \/ Produces(t, "write", "encoded", "decode", {"OSError"})
             \/ Produces(t, "decode", "wav", "sound", RunErrors)
    BY <2>3, ProducesKeeps
  <2> QED
    BY <1>3, <2>1, <2>2, <2>3 DEF PlayStep
<1>4. ASSUME NEW t \in Thread, Unlink(t) PROVE AudioInv'
  BY <1>4 DEF AudioInv, AudioTypeOK, SoundInPhase, Unlink, Unlinked, Goes
<1>5. CASE UNCHANGED audioVars
  BY <1>5 DEF AudioInv, AudioTypeOK, SoundInPhase, audioVars
<1> QED
  BY <1>1, <1>2, <1>3, <1>4, <1>5 DEF AudioNext, AudioStep

\* Types and places of sound, from the start on.
LEMMA AudioInvariance == AudioSpec => []AudioInv
<1>1. AudioInit => AudioInv
  BY DEF AudioInit, AudioInv, AudioTypeOK, SoundInPhase
<1> QED
  BY <1>1, AudioInvNext, PTL DEF AudioSpec

\* Every variable keeps its type.
THEOREM AudioTypeCorrect == AudioSpec => []AudioTypeOK
<1>1. AudioInv => AudioTypeOK
  BY DEF AudioInv
<1> QED
  BY <1>1, AudioInvariance, PTL

\* Whatever fails on its way, a call has deleted its sound when it returns.
THEOREM SoundDeleted == AudioSpec => []ClearSoundDeleted
<1>1. AudioInv => ClearSoundDeleted
  BY DEF AudioInv, SoundInPhase, SoundPhases, ClearSoundDeleted, InCall
<1> QED
  BY <1>1, AudioInvariance, PTL
==============================================================================
