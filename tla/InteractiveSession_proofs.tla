---------------------- MODULE InteractiveSession_proofs ----------------------
(***************************************************************************)
(* Proofs about InteractiveSession for any platforms and bounds: its steps *)
(* are those of AudioBackend, and what holds when run() has returned.      *)
(***************************************************************************)
EXTENDS InteractiveSession, AudioBackend_proofs

\* Each thread is inside AudioBackend exactly while it waits for it.
CallsMatch ==
    /\ aud["main"] # "none" <=> main = "recording"
    /\ aud["receiver"] # "none" <=> recv = "playing"

\* A prompt runs exactly while the main thread is in it, and somebody stops
\* one, or tries to, only in a session that is over.
PromptOrder ==
    /\ prompt # "off" <=> main = "prompt"
    /\ scheduled \/ recv \in {"early", "earlyStop", "look", "stop", "last", "ended"}
         => finished

\* What run() has done at each of its last steps.
EndOrder ==
    /\ main = "start" <=> recv = "new"
    /\ main \in {"close", "join", "done", "exited"} => finished
    /\ main \in {"join", "done", "exited"} => chan = "closed"

SessionInv == TypeOK /\ SoundInPhase /\ CallsMatch /\ PromptOrder /\ EndOrder

------------------------------------------------------------------------------
\* A step of each group changes only its own variables.
LEMMA StepIsAudio == TypeOK /\ [Next]_vars => [AudioNext]_audioVars
<1> SUFFICES ASSUME TypeOK, [Next]_vars PROVE [AudioNext]_audioVars
  OBVIOUS
<1>0. "main" \in Thread /\ "receiver" \in Thread
  BY SessionAssumption
<1>1. CASE StartRecording \/ RecordingEnds
  BY <1>0, <1>1 DEF AudioNext, StartRecording, RecordingEnds
<1>2. CASE \/ StartReceiver \/ TestFinished \/ OpenPrompt \/ PromptExits \/ SayBye
           \/ SendText \/ Deliver \/ SetFinished \/ CloseChannel \/ JoinReceiver
           \/ ExitProcess \/ EnterLine \/ Interrupt
  BY <1>2 DEF StartReceiver, TestFinished, OpenPrompt, PromptExits, SayBye, SendText,
     Deliver, SetFinished, CloseChannel, JoinReceiver, ExitProcess, EnterLine, Interrupt
<1>3. CASE Receive
  <2>1. Head(inbox) \in Message
    BY <1>3 DEF Receive, TypeOK
  <2> QED
    BY <1>0, <1>3, <2>1 DEF AudioNext, Receive, Message
<1>4. CASE PlayingEnds
  BY <1>0, <1>4 DEF AudioNext, PlayingEnds
<1>5. CASE \/ ReceiverTests \/ ReceiveEnds \/ ReceiverFinishes \/ ReceiverStopsPrompt
           \/ ReceiverEnds
  BY <1>5 DEF ReceiverTests, ReceiveEnds, ReceiverFinishes, ReceiverStopsPrompt,
     LookForPrompt, StopPrompt, ReceiverEnds
<1>6. CASE PeerSends \/ PeerGoes \/ PeerStalls \/ Rest \/ UNCHANGED vars
  BY <1>6 DEF PeerSends, PeerGoes, PeerStalls, Rest, vars
<1>7. CASE \E t \in Thread : Sound(t)
  BY <1>7 DEF Sound, AudioNext
<1> QED
  BY <1>1, <1>2, <1>3, <1>4, <1>5, <1>6, <1>7 DEF Next, MainStep, ReceiverStep

\* The main thread's steps.
LEMMA MainKeeps ==
    ASSUME SessionInv, MainStep \/ ExitProcess \/ EnterLine \/ Interrupt, AudioTypeOK'
    PROVE  TypeOK' /\ CallsMatch' /\ PromptOrder' /\ EndOrder'
<1> USE DEF Main, eventVars, wireVars, audioVars, SessionInv, TypeOK, CallsMatch,
        PromptOrder, EndOrder
<1>1. CASE StartReceiver
  BY <1>1 DEF StartReceiver
<1>2. CASE TestFinished
  BY <1>2 DEF TestFinished, SessionOn
<1>3. CASE OpenPrompt \/ PromptExits
  BY <1>3 DEF OpenPrompt, PromptExits
<1>4. CASE EnterLine
  BY <1>4 DEF EnterLine
<1>5. CASE SayBye \/ SendText \/ Deliver \/ Interrupt
  <2>1. CASE SayBye
    BY <2>1 DEF SayBye
  <2>2. CASE SendText
    <3>1. /\ main = "text" /\ main' = "test" /\ finished' \in {finished, TRUE}
          /\ UNCHANGED <<recv, scheduled, prompt, chan, inbox, peer, sent, stalled, lines, aud>>
      BY <2>2 DEF SendText
    <3> QED
      BY <3>1, ZenonT(40)
  <2>3. CASE Deliver
    BY <2>3 DEF Deliver
  <2>4. CASE Interrupt
    BY <2>4 DEF Interrupt
  <2> QED
    BY <1>5, <2>1, <2>2, <2>3, <2>4
<1>6. CASE StartRecording \/ RecordingEnds
  <2>1. "main" \in Thread /\ "receiver" \in Thread
    BY SessionAssumption
  <2>2. CASE StartRecording
    BY <2>1, <2>2 DEF StartRecording, Record, Begin, AudioTypeOK
  <2>3. CASE RecordingEnds
    BY <2>1, <2>3 DEF RecordingEnds, Taken, AudioTypeOK
  <2> QED
    BY <1>6, <2>2, <2>3
<1>7. CASE SetFinished \/ CloseChannel
  BY <1>7 DEF SetFinished, CloseChannel, ChannelShut
<1>8. CASE JoinReceiver \/ ExitProcess
  BY <1>8 DEF JoinReceiver, ExitProcess
<1> QED
  BY <1>1, <1>2, <1>3, <1>4, <1>5, <1>6, <1>7, <1>8 DEF MainStep

\* The receiver thread's steps.
LEMMA ReceiverKeeps ==
    ASSUME SessionInv, ReceiverStep, AudioTypeOK'
    PROVE  TypeOK' /\ CallsMatch' /\ PromptOrder' /\ EndOrder'
<1> USE DEF Recv, eventVars, wireVars, audioVars, SessionInv, TypeOK, CallsMatch,
        PromptOrder, EndOrder
<1>1. CASE ReceiverTests \/ ReceiveEnds
  BY <1>1 DEF ReceiverTests, ReceiveEnds
<1>2. CASE Receive
  <2>1. Head(inbox) \in Message /\ Tail(inbox) \in Seq(Message)
    BY <1>2 DEF Receive
  <2>2. CASE Head(inbox) = "AUDIO_OPUS"
    <3>1. aud'["receiver"] # "none" /\ aud'["main"] = aud["main"]
      BY <1>2, <2>2, SessionAssumption, ZenonT(30) DEF Receive, Play, Begin, AudioTypeOK
    <3>2. main # "exited" /\ recv = "receive" /\ recv' = "playing" /\ UNCHANGED main
      BY <1>2, <2>2 DEF Receive
    <3>3. UNCHANGED <<finished, scheduled, prompt, chan, peer, sent, stalled, lines>>
      BY <1>2, <2>2 DEF Receive
    <3>4. inbox' \in Seq(Message)
      BY <1>2, <2>1 DEF Receive
    <3>5. TypeOK'
      BY <3>2, <3>3, <3>4
    <3> QED
      BY <3>1, <3>2, <3>3, <3>5
  <2>3. CASE Head(inbox) \in {"TEXT", "CLOSE"}
    BY <1>2, <2>1, <2>3, ZenonT(40) DEF Receive
  <2> QED
    BY <2>1, <2>2, <2>3 DEF Message
<1>3. CASE PlayingEnds
  BY <1>3, SessionAssumption DEF PlayingEnds, Taken, AudioTypeOK
<1>4. CASE ReceiverFinishes \/ ReceiverEnds
  BY <1>4 DEF ReceiverFinishes, ReceiverEnds
<1>5. CASE LookForPrompt("early", "earlyStop", "finally") \/ LookForPrompt("look", "stop", "last")
  BY <1>5 DEF LookForPrompt
<1>6. CASE StopPrompt("earlyStop", "finally") \/ StopPrompt("stop", "last")
  BY <1>6 DEF StopPrompt, LoopWoken
<1> QED
  BY <1>1, <1>2, <1>3, <1>4, <1>5, <1>6 DEF ReceiverStep, ReceiverStopsPrompt

\* All other steps.
LEMMA OthersKeep ==
    ASSUME SessionInv, AudioTypeOK',
           PeerSends \/ PeerGoes \/ PeerStalls \/ Rest \/ (\E t \in Thread : Sound(t)) \/ UNCHANGED vars
    PROVE  TypeOK' /\ CallsMatch' /\ PromptOrder' /\ EndOrder'
<1> USE DEF threadVars, eventVars, wireVars, SessionInv, TypeOK, CallsMatch,
        PromptOrder, EndOrder
<1>1. CASE PeerSends \/ PeerGoes \/ PeerStalls
  <2>1. CASE PeerSends
    <3>1. inbox' \in Seq(Message) /\ sent' \in Nat
      BY <2>1 DEF PeerSends
    <3> QED
      BY <2>1, <3>1 DEF PeerSends, audioVars
  <2>2. CASE PeerGoes
    BY <2>2 DEF PeerGoes, audioVars
  <2>3. CASE PeerStalls
    BY <2>3 DEF PeerStalls, audioVars
  <2> QED
    BY <1>1, <2>1, <2>2, <2>3
<1>2. CASE Rest \/ UNCHANGED vars
  BY <1>2 DEF Rest, vars, audioVars
<1>3. ASSUME NEW t \in Thread, Sound(t)
      PROVE  TypeOK' /\ CallsMatch' /\ PromptOrder' /\ EndOrder'
  <2>1. \A u \in Thread : aud'[u] # "none" <=> aud[u] # "none"
    BY <1>3, AudioStepStays DEF Sound
  <2> QED
    BY <1>3, <2>1, SessionAssumption DEF Sound
<1> QED
  BY <1>1, <1>2, <1>3

\* Together.
LEMMA SessionInvariance == Spec => []SessionInv
<1>1. Init => SessionInv
  <2> SUFFICES ASSUME Init PROVE SessionInv
    OBVIOUS
  <2>1. AudioTypeOK /\ SoundInPhase /\ CallsMatch
    BY SessionAssumption DEF Init, AudioInit, AudioTypeOK, SoundInPhase, CallsMatch
  <2>2. <<>> \in Seq(Message)
    OBVIOUS
  <2> QED
    BY <2>1, <2>2 DEF Init, SessionInv, TypeOK, PromptOrder, EndOrder
<1>2. SessionInv /\ [Next]_vars => SessionInv'
  <2> SUFFICES ASSUME SessionInv, [Next]_vars PROVE SessionInv'
    OBVIOUS
  <2>1. AudioInv'
    BY AudioInvNext, StepIsAudio DEF SessionInv, TypeOK, AudioInv
  <2>2. TypeOK' /\ CallsMatch' /\ PromptOrder' /\ EndOrder'
    BY <2>1, MainKeeps, ReceiverKeeps, OthersKeep DEF Next, AudioInv
  <2> QED
    BY <2>1, <2>2 DEF SessionInv, AudioInv
<1> QED
  BY <1>1, <1>2, PTL DEF Spec

------------------------------------------------------------------------------
\* Every variable keeps its type.
THEOREM TypeCorrect == Spec => []TypeOK
<1>1. SessionInv => TypeOK
  BY DEF SessionInv
<1> QED
  BY <1>1, SessionInvariance, PTL

\* A terminal session uses AudioBackend as its specification allows ...
THEOREM SessionImplementsAudio == Spec => AudioSpec
<1>1. Init => AudioInit
  BY DEF Init
<1> QED
  BY <1>1, TypeCorrect, StepIsAudio, PTL DEF Spec, AudioSpec

\* ... and so, for any platforms and whatever fails, a call that has returned
\* has deleted its sound.
THEOREM SessionSoundDeleted == Spec => []ClearSoundDeleted
BY SessionImplementsAudio, SoundDeleted, PTL

\* What a caller of run() finds: the event set, the channel closed, no prompt
\* on the terminal, and no recorded sound on the disk.  What the receiver is
\* playing at that moment may still be there: it is a daemon thread that
\* run() waits for two seconds only.
ReturnsClean ==
    main \in {"done", "exited"} =>
        /\ finished /\ chan = "closed" /\ prompt = "off"
        /\ \A n \in Name : file["main"][n] # "sound"
        /\ recv # "playing" => \A n \in Name : file["receiver"][n] # "sound"

\* run() leaves nothing behind on any way out of it.
THEOREM RunReturnsClean == Spec => []ReturnsClean
<1>1. SessionInv => ReturnsClean
  <2> SUFFICES ASSUME SessionInv PROVE ReturnsClean
    OBVIOUS
  <2>1. \A t \in Thread, n \in Name : file[t][n] = "sound" => aud[t] # "none"
    BY DEF SessionInv, SoundInPhase, SoundPhases
  <2> QED
    BY <2>1, SessionAssumption DEF SessionInv, ReturnsClean, CallsMatch, PromptOrder,
       EndOrder
<1> QED
  BY <1>1, SessionInvariance, PTL

\* The receiver stops prompts of a session that is over, never of one that is
\* still on, and the one it finds is the one the main thread is in.
THEOREM PromptStopped == Spec => []PromptOrder
<1>1. SessionInv => PromptOrder
  BY DEF SessionInv
<1> QED
  BY <1>1, SessionInvariance, PTL

------------------------------------------------------------------------------
(* A terminal session as a session of SessionLife.                          *)

\* run() is over once it has closed the channel.
Life == IF main \in {"join", "done", "exited"} THEN "over" ELSE "running"

L == INSTANCE SessionLife WITH life <- Life

\* What every step does to event and channel.
LEMMA StepIsLife == SessionInv /\ [Next]_vars => [L!LifeNext]_(L!lifeVars)
<1> SUFFICES ASSUME SessionInv, [Next]_vars PROVE [L!LifeNext]_(L!lifeVars)
  OBVIOUS
<1> USE DEF Main, Recv, threadVars, eventVars, wireVars, SessionInv, TypeOK, EndOrder,
        Life, L!lifeVars
<1>1. CASE SendText \/ SetFinished
  BY <1>1 DEF SendText, SetFinished, L!LifeNext, L!Finish
<1>2. CASE CloseChannel
  BY <1>2 DEF CloseChannel, ChannelShut, L!LifeNext, L!Return
<1>3. CASE Receive
  <2>1. Head(inbox) \in Message
    BY <1>3 DEF Receive
  <2>2. UNCHANGED <<main, chan>> /\ finished' \in {finished, TRUE}
    BY <1>3, <2>1 DEF Receive, Message
  <2> QED
    BY <2>2 DEF L!LifeNext, L!Finish
<1>4. CASE ReceiverFinishes
  BY <1>4 DEF ReceiverFinishes, L!LifeNext, L!Finish
<1>5. CASE \/ StartReceiver \/ TestFinished \/ OpenPrompt \/ PromptExits \/ SayBye
           \/ StartRecording \/ RecordingEnds \/ Deliver \/ JoinReceiver \/ ExitProcess
           \/ EnterLine \/ Interrupt
  BY <1>5 DEF StartReceiver, TestFinished, OpenPrompt, PromptExits, SayBye,
     StartRecording, RecordingEnds, Deliver, JoinReceiver, ExitProcess, EnterLine,
     Interrupt
<1>6. CASE ReceiverTests \/ ReceiveEnds \/ PlayingEnds \/ ReceiverStopsPrompt \/ ReceiverEnds
  BY <1>6 DEF ReceiverTests, ReceiveEnds, PlayingEnds, ReceiverStopsPrompt,
     LookForPrompt, StopPrompt, ReceiverEnds
<1>7. CASE \/ PeerSends \/ PeerGoes \/ PeerStalls \/ Rest \/ UNCHANGED vars
           \/ \E t \in Thread : Sound(t)
  BY <1>7 DEF PeerSends, PeerGoes, PeerStalls, Rest, vars, Sound
<1> QED
  BY <1>1, <1>2, <1>3, <1>4, <1>5, <1>6, <1>7 DEF Next, MainStep, ReceiverStep

\* Whatever ends a terminal session, it finishes once, keeps its channel until
\* then, and run() returns only when both are done.
THEOREM SessionImplementsLife == Spec => L!LifeSpec
<1>1. Init => L!LifeInit
  BY DEF Init, L!LifeInit, Life
<1> QED
  BY <1>1, SessionInvariance, StepIsLife, PTL DEF Spec, L!LifeSpec
==============================================================================
