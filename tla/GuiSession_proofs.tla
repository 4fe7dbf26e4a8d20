-------------------------- MODULE GuiSession_proofs --------------------------
(***************************************************************************)
(* Proofs about GuiSession for any requests, threads and platforms.  What  *)
(* AudioBackend promises of its calls carries over, as a session's steps   *)
(* are, for the audio, steps of AudioNext or none at all.                  *)
(***************************************************************************)
EXTENDS GuiSession, AudioBackend_proofs

\* A thread that has to clear audio_busy again, or is about to set it.
Holding(r) == req[r] = "launch" \/ JobActive(r)

\* A recording thread is started by the handler's last step.
StartedLast == \A r \in Request : job[r] # "none" => req[r] = "done"

\* The threads are inside AudioBackend exactly while they wait for it.
CallsMatch ==
    /\ \A r \in Request : aud[r] # "none" <=> job[r] \in {"record", "play"}
    /\ aud["receiver"] # "none" <=> recv = "playing"

\* An event that is set has somebody who will clear it.
Held == busy => \E r \in Request : Holding(r)

\* Requests that do not overlap: one at a time is on its way, what it finds
\* free stays free until it claims it, and only one thread holds it.
OneRequest == \A q, r \in Request : ~Answered(q) /\ ~Answered(r) => q = r
FreeAtClaim == \A q, r \in Request : req[r] = "claim" => ~Holding(q)
OneHolder ==
    /\ \A q, r \in Request : Holding(q) /\ Holding(r) => q = r
    /\ \A r \in Request : Holding(r) => busy

\* The order in which a session begins and ends.
SessionOrder ==
    /\ worker = "start" <=> recv = "new"
    /\ worker \in {"join", "ended"} => finished /\ chan = "closed"
    /\ recv = "ended" => finished

GuiInv ==
    /\ TypeOK /\ SoundInPhase
    /\ StartedLast /\ CallsMatch /\ Held /\ SessionOrder
    /\ Serial => OneRequest /\ FreeAtClaim /\ OneHolder

------------------------------------------------------------------------------
(* The steps of a session as steps of AudioBackend.                         *)

\* Requests and the receiver are threads, and different ones.
LEMMA Threads ==
    /\ "receiver" \in Thread
    /\ \A r \in Request : r \in Thread /\ r # "receiver"
BY RequestAssumption

\* What is on its way to us is messages, of which Receive knows every type.
InboxOK == inbox \in Seq(Message)

\* Every step keeps it so.
LEMMA InboxNext == InboxOK /\ [Next]_vars => InboxOK'
<1> SUFFICES ASSUME InboxOK, [Next]_vars PROVE InboxOK'
  OBVIOUS
<1> USE DEF InboxOK, wireVars, SessionOnly, ReqOnly
<1>1. CASE PeerSends
  BY <1>1 DEF PeerSends
<1>2. CASE Receive
  BY <1>2 DEF Receive
<1>3. ASSUME NEW r \in Request, Arrive(r) \/ RequestStep(r) \/ JobStep(r)
      PROVE  UNCHANGED inbox
  BY <1>3 DEF Arrive, RequestStep, Lookup, SendText, SetFinished, ShutChannel, Gate,
     Claim, Launch, JobStep, RecordingEnds, Deliver, Listen, TestPlayed, Release
<1>4. CASE WorkerStep \/ ReceiverTests \/ ReceiveEnds \/ PlayingEnds \/ ReceiverEnds
  BY <1>4 DEF WorkerStep, StartReceiver, FinishedSeen, JoinReceiver, ReceiverTests,
     ReceiveEnds, PlayingEnds, ReceiverEnds
<1>5. CASE PeerGoes \/ PeerStalls \/ Rest \/ UNCHANGED vars \/ \E t \in Thread : Sound(t)
  BY <1>5 DEF PeerGoes, PeerStalls, Rest, vars, Sound
<1> QED
  BY <1>1, <1>2, <1>3, <1>4, <1>5 DEF Next, ReceiverStep

\* What every step of a session does to the audio.
LEMMA StepIsAudio == InboxOK /\ [Next]_vars => [AudioNext]_audioVars
<1> SUFFICES ASSUME InboxOK, [Next]_vars PROVE [AudioNext]_audioVars
  OBVIOUS
<1> USE Threads DEF sessionVars, wireVars, callVars, SessionOnly, ReqOnly
<1>1. ASSUME NEW r \in Request, Arrive(r) \/ RequestStep(r)
      PROVE  [AudioNext]_audioVars
  BY <1>1 DEF AudioNext, Arrive, RequestStep, Lookup, SendText, SetFinished,
     ShutChannel, Gate, Claim, Launch
<1>2. ASSUME NEW r \in Request, JobStep(r) PROVE [AudioNext]_audioVars
  BY <1>2 DEF AudioNext, JobStep, RecordingEnds, Deliver, Listen, TestPlayed, Release
<1>3. CASE WorkerStep
  BY <1>3 DEF WorkerStep, StartReceiver, FinishedSeen, JoinReceiver
<1>4. CASE ReceiverStep
  <2>1. CASE Receive
    <3>1. Head(inbox) \in Message
      BY <2>1 DEF Receive, InboxOK
    <3> QED
      BY <2>1, <3>1 DEF AudioNext, Receive, Message
  <2>2. CASE PlayingEnds
    BY <2>2 DEF AudioNext, PlayingEnds
  <2> QED
    BY <1>4, <2>1, <2>2 DEF ReceiverStep, ReceiverTests, ReceiveEnds, ReceiverEnds
<1>5. CASE PeerSends \/ PeerGoes \/ PeerStalls \/ Rest \/ UNCHANGED vars
  BY <1>5 DEF PeerSends, PeerGoes, PeerStalls, Rest, vars
<1>6. ASSUME NEW t \in Thread, Sound(t) PROVE [AudioNext]_audioVars
  BY <1>6 DEF Sound, AudioNext
<1> QED
  BY <1>1, <1>2, <1>3, <1>4, <1>5, <1>6 DEF Next

\* A session uses AudioBackend as its specification allows.
THEOREM SessionImplementsAudio == Spec => AudioSpec
<1>1. Init => AudioInit /\ InboxOK
  BY DEF Init, InboxOK
<1> QED
  BY <1>1, InboxNext, StepIsAudio, PTL DEF Spec, AudioSpec

------------------------------------------------------------------------------
(* The inductive invariant.                                                 *)

\* Types, and with them what AudioBackend keeps.
LEMMA TypesNext ==
    TypeOK /\ SoundInPhase /\ [Next]_vars => TypeOK' /\ SoundInPhase'
<1> SUFFICES ASSUME TypeOK, SoundInPhase, [Next]_vars PROVE TypeOK' /\ SoundInPhase'
  OBVIOUS
<1>1. AudioInv' /\ InboxOK'
  BY AudioInvNext, StepIsAudio, InboxNext DEF TypeOK, AudioInv, InboxOK
<1>2. TypeOK'
  <2> USE <1>1 DEF TypeOK, AudioInv, InboxOK, callVars, wireVars, sessionVars,
          ReqOnly, SessionOnly, Req, Job, Recv
  <2>1. ASSUME NEW r \in Request, Arrive(r) \/ RequestStep(r) PROVE TypeOK'
    <3>1. CASE Arrive(r) \/ Lookup(r) \/ Gate(r)
      BY <3>1 DEF Arrive, Lookup, Gate
    <3>2. CASE SendText(r) \/ SetFinished(r) \/ ShutChannel(r)
      <4>1. CASE SendText(r)
        BY <4>1, ZenonT(40) DEF SendText
      <4>2. CASE SetFinished(r)
        BY <4>2, ZenonT(40) DEF SetFinished
      <4>3. CASE ShutChannel(r)
        BY <4>3, ZenonT(40) DEF ShutChannel
      <4> QED
        BY <3>2, <4>1, <4>2, <4>3
    <3>3. CASE Claim(r) \/ Launch(r)
      BY <3>3, ZenonT(30) DEF Claim, Launch
    <3> QED
      BY <2>1, <3>1, <3>2, <3>3 DEF RequestStep
  <2>2. ASSUME NEW r \in Request, JobStep(r) PROVE TypeOK'
    <3>1. CASE RecordingEnds(r)
      BY <3>1 DEF RecordingEnds, ReleaseAlways
    <3>2. CASE Deliver(r) \/ Release(r)
      BY <3>2, ZenonT(30) DEF Deliver, Release
    <3>3. CASE Listen(r) \/ TestPlayed(r)
      BY <3>3 DEF Listen, TestPlayed
    <3> QED
      BY <2>2, <3>1, <3>2, <3>3 DEF JobStep
  <2>3. CASE WorkerStep
    BY <2>3 DEF WorkerStep, StartReceiver, FinishedSeen, JoinReceiver
  <2>4. CASE Receive
    <3>1. Head(inbox) \in Message
      BY <2>4 DEF Receive
    <3> QED
      BY <2>4, <3>1 DEF Receive, Message
  <2>5. CASE ReceiverTests \/ ReceiveEnds \/ PlayingEnds \/ ReceiverEnds
    BY <2>5 DEF ReceiverTests, ReceiveEnds, PlayingEnds, ReceiverEnds, LoudEnd
  <2>6. CASE PeerSends \/ PeerGoes \/ Rest \/ UNCHANGED vars
    BY <2>6 DEF PeerSends, PeerGoes, Rest, vars
  <2>7. CASE PeerStalls
    BY <2>7 DEF PeerStalls
  <2>8. CASE \E t \in Thread : Sound(t)
    BY <2>8 DEF Sound
  <2> QED
    BY <2>1, <2>2, <2>3, <2>4, <2>5, <2>6, <2>7, <2>8 DEF Next, ReceiverStep
<1> QED
  BY <1>1, <1>2 DEF AudioInv

\* The rest of the invariant.
Order == StartedLast /\ CallsMatch /\ Held /\ SessionOrder
Apart == OneRequest /\ FreeAtClaim /\ OneHolder

\* One handler moves, the others stay where they are.
LEMMA ReqMoves ==
    ASSUME GuiInv, NEW r \in Request, NEW from, NEW to, Req(r, from, to)
    PROVE  /\ req[r] = from /\ req'[r] = to
           /\ \A q \in Request \ {r} : req'[q] = req[q]
BY DEF Req, GuiInv, TypeOK

\* One recording thread moves, the others stay where they are.
LEMMA JobMoves ==
    ASSUME GuiInv, NEW r \in Request, NEW from, NEW to, Job(r, from, to)
    PROVE  /\ job[r] = from /\ job'[r] = to
           /\ \A q \in Request \ {r} : job'[q] = job[q]
BY DEF Job, GuiInv, TypeOK

\* One call begins or is over, the others stay where they are.
LEMMA CallMoves ==
    ASSUME GuiInv, NEW t \in Thread
    PROVE  /\ Record(t) \/ Play(t) => aud[t] = "none" /\ aud'[t] # "none"
           /\ Taken(t) => aud[t] # "none" /\ aud'[t] = "none"
           /\ Record(t) \/ Play(t) \/ Taken(t)
                => \A u \in Thread \ {t} : aud'[u] = aud[u]
BY DEF Record, Play, Begin, Taken, GuiInv, TypeOK, AudioTypeOK

\* A handler's step before it claims the microphone touches nothing of that.
LEMMA EarlyKeeps ==
    ASSUME GuiInv, NEW r \in Request,
           req[r] \in {"new", "lookup", "send", "shut", "gate"},
           req'[r] \notin {"new", "launch"}, req'[r] = "claim" => ~busy,
           \A q \in Request \ {r} : req'[q] = req[q],
           req[r] = "new" /\ Serial => \A q \in Request : Answered(q),
           UNCHANGED <<job, busy, aud, recv>>
    PROVE  StartedLast' /\ CallsMatch' /\ Held' /\ (Serial => Apart')
<1> USE DEF GuiInv
<1>1. StartedLast' /\ CallsMatch'
  BY Threads DEF StartedLast, CallsMatch
<1>2. Held'
  BY DEF Held, Holding, JobActive
<1>3. ASSUME Serial PROVE OneRequest'
  BY <1>3 DEF OneRequest, Answered
<1>4. \A q \in Request : Holding(q)' => Holding(q)
  BY DEF Holding, JobActive
<1>5. ASSUME Serial PROVE FreeAtClaim' /\ OneHolder'
  <2>1. OneHolder'
    BY <1>4, <1>5 DEF OneHolder
  <2>2. FreeAtClaim'
    <3> SUFFICES ASSUME NEW q \in Request, NEW p \in Request, req'[p] = "claim"
                 PROVE  ~Holding(q)'
      BY DEF FreeAtClaim
    <3>1. CASE p = r
      BY <1>4, <1>5, <3>1 DEF OneHolder
    <3>2. CASE p # r
      BY <1>4, <1>5, <3>2 DEF FreeAtClaim
    <3> QED
      BY <3>1, <3>2
  <2> QED
    BY <2>1, <2>2
<1> QED
  BY <1>1, <1>2, <1>3, <1>5 DEF Apart

\* A handler thread's step.
LEMMA RequestKeeps ==
    ASSUME GuiInv, NEW r \in Request, Arrive(r) \/ RequestStep(r)
    PROVE  Order' /\ (Serial => Apart')
<1> USE DEF ReqOnly, callVars, wireVars, sessionVars, audioVars
<1>1. SessionOrder'
  BY DEF GuiInv, SessionOrder, Arrive, RequestStep, Lookup, SendText, SetFinished,
     ShutChannel, Gate, Claim, Launch
<1>2. CASE Arrive(r)
  <2>1. Req(r, "new", IF kind[r] = "test" THEN "gate" ELSE "lookup")
        /\ UNCHANGED <<job, busy, aud, recv>>
        /\ (Serial => \A q \in Request : Answered(q))
    BY <1>2 DEF Arrive
  <2> QED
    BY <1>1, <2>1, ReqMoves, EarlyKeeps DEF Order
<1>3. CASE Lookup(r)
  <2>1. Req(r, "lookup", IF worker = "ended" \/ finished THEN "refused"
                         ELSE IF kind[r] = "audio" THEN "gate" ELSE "send")
        /\ UNCHANGED <<job, busy, aud, recv>>
    BY <1>3 DEF Lookup
  <2> QED
    BY <1>1, <2>1, ReqMoves, EarlyKeeps DEF Order
<1>4. CASE SendText(r) \/ SetFinished(r) \/ ShutChannel(r)
  <2>1. UNCHANGED <<job, busy, aud, recv>>
    BY <1>4 DEF SendText, SetFinished, ShutChannel
  <2>2. \/ Req(r, "send", "done") \/ Req(r, "send", "refused")
        \/ Req(r, "send", "shut") \/ Req(r, "shut", "done")
    BY <1>4 DEF SendText, SetFinished, ShutChannel
  <2> QED
    BY <1>1, <2>1, <2>2, ReqMoves, EarlyKeeps DEF Order
<1>5. CASE Gate(r)
  <2>1. Req(r, "gate", IF ~busy THEN "claim" ELSE "refused")
        /\ UNCHANGED <<job, busy, aud, recv>>
    BY <1>5 DEF Gate, GateFree
  <2> QED
    BY <1>1, <2>1, ReqMoves, EarlyKeeps DEF Order
<1>6. CASE Claim(r)
  <2>1. /\ req[r] = "claim" /\ req'[r] = "launch" /\ busy' = TRUE
        /\ \A q \in Request \ {r} : req'[q] = req[q]
        /\ UNCHANGED <<job, aud, recv>>
    BY <1>6, ReqMoves DEF Claim
  <2> USE <2>1 DEF GuiInv
  <2>2. StartedLast' /\ CallsMatch'
    BY Threads DEF StartedLast, CallsMatch
  <2>3. Holding(r)' /\ Held'
    BY DEF Held, Holding
  <2>4. \A q \in Request \ {r} : Holding(q)' = Holding(q)
    BY DEF Holding, JobActive
  <2>5. ASSUME Serial PROVE Apart'
    <3>1. \A q \in Request \ {r} : ~Holding(q)'
      BY <2>4, <2>5 DEF FreeAtClaim
    <3>2. OneRequest'
      BY <2>5 DEF OneRequest, Answered
    <3>3. \A q \in Request : req'[q] # "claim"
      BY <2>5 DEF OneRequest, Answered
    <3> QED
      BY <3>1, <3>2, <3>3 DEF Apart, FreeAtClaim, OneHolder
  <2> QED
    BY <1>1, <2>2, <2>3, <2>5 DEF Order
<1>7. CASE Launch(r)
  <2>1. /\ req[r] = "launch" /\ req'[r] = "done"
        /\ \A q \in Request \ {r} : req'[q] = req[q]
        /\ job[r] = "none" /\ job'[r] = "record"
        /\ \A q \in Request \ {r} : job'[q] = job[q]
        /\ aud[r] = "none" /\ aud'[r] # "none"
        /\ \A u \in Thread \ {r} : aud'[u] = aud[u]
        /\ UNCHANGED <<busy, recv>>
    BY <1>7, Threads, ReqMoves, JobMoves, CallMoves DEF Launch
  <2> USE <2>1 DEF GuiInv
  <2>2. StartedLast' /\ CallsMatch'
    BY Threads DEF StartedLast, CallsMatch
  <2>3. \A q \in Request : Holding(q)' = Holding(q)
    BY DEF Holding, JobActive
  <2>4. Held'
    BY <2>3 DEF Held
  <2>5. ASSUME Serial PROVE Apart'
    <3>1. OneRequest'
      BY <2>5 DEF OneRequest, Answered
    <3>2. FreeAtClaim' /\ OneHolder'
      BY <2>3, <2>5 DEF FreeAtClaim, OneHolder
    <3> QED
      BY <3>1, <3>2 DEF Apart
  <2> QED
    BY <1>1, <2>2, <2>4, <2>5 DEF Order
<1> QED
  BY <1>2, <1>3, <1>4, <1>5, <1>6, <1>7 DEF RequestStep

\* A recording thread's step.
LEMMA JobKeeps ==
    ASSUME GuiInv, NEW r \in Request, JobStep(r)
    PROVE  Order' /\ (Serial => Apart')
<1> USE DEF GuiInv, callVars, wireVars, sessionVars, audioVars
<1>1. SessionOrder' /\ UNCHANGED <<req, recv>>
  BY DEF SessionOrder, JobStep, RecordingEnds, Deliver, Listen, TestPlayed, Release
<1>2. PICK from \in {"record", "deliver", "listen", "play", "release"},
           to \in {"deliver", "listen", "play", "release", "ended"} :
         /\ Job(r, from, to)
         /\ to = "ended" <=> from = "release"
         /\ IF from = "release" THEN busy' = FALSE ELSE UNCHANGED busy
         /\ CASE from \in {"record", "play"} -> Taken(r) /\ to # "play"
              [] from = "listen" -> Play(r) /\ to = "play"
              [] OTHER -> UNCHANGED aud /\ to # "play"
  BY DEF JobStep, RecordingEnds, Deliver, Listen, TestPlayed, Release, ReleaseAlways
<1>3. /\ job[r] = from /\ job'[r] = to
      /\ \A q \in Request \ {r} : job'[q] = job[q]
  BY <1>2, JobMoves
<1>4. StartedLast'
  BY <1>1, <1>3 DEF StartedLast
<1>5. CallsMatch'
  <2>1. \A u \in Thread \ {r} : aud'[u] = aud[u]
    BY <1>2, Threads, CallMoves
  <2>2. aud'[r] # "none" <=> to = "play"
    BY <1>2, <1>3, Threads, CallMoves DEF CallsMatch
  <2> QED
    BY <1>1, <1>2, <1>3, <2>1, <2>2, Threads DEF CallsMatch
<1>6. \A q \in Request : Holding(q)' <=> Holding(q) /\ ~(q = r /\ from = "release")
  BY <1>1, <1>2, <1>3 DEF Holding, JobActive, StartedLast
<1>7. Held'
  BY <1>2, <1>6 DEF Held
<1>8. ASSUME Serial PROVE Apart'
  <2>1. OneRequest' /\ FreeAtClaim'
    BY <1>1, <1>6, <1>8 DEF OneRequest, Answered, FreeAtClaim
  <2>2. Holding(r)
    BY <1>2, <1>3 DEF Holding, JobActive
  <2>3. OneHolder'
    BY <1>2, <1>6, <1>8, <2>2 DEF OneHolder
  <2> QED
    BY <2>1, <2>3 DEF Apart
<1> QED
  BY <1>1, <1>4, <1>5, <1>7, <1>8 DEF Order

\* A step of run() or of the receiver thread, of the peer, or inside a call.
LEMMA SessionKeeps ==
    ASSUME GuiInv,
           \/ WorkerStep \/ ReceiverStep \/ PeerSends \/ PeerGoes \/ PeerStalls \/ Rest
           \/ (\E t \in Thread : Sound(t)) \/ UNCHANGED vars
    PROVE  Order' /\ (Serial => Apart')
<1> USE Threads DEF GuiInv, TypeOK, callVars, wireVars, sessionVars, audioVars,
        SessionOnly, Recv
<1>1. UNCHANGED callVars
  BY DEF WorkerStep, StartReceiver, FinishedSeen, JoinReceiver, ReceiverStep,
     ReceiverTests, Receive, ReceiveEnds, PlayingEnds, ReceiverEnds, PeerSends, PeerGoes,
     PeerStalls, Rest, vars, Sound
<1>2. StartedLast' /\ Held' /\ (Serial => Apart')
  BY <1>1 DEF StartedLast, Held, Apart, OneRequest, FreeAtClaim, OneHolder, Answered,
     Holding, JobActive
<1>3. CallsMatch' /\ SessionOrder'
  <2>1. CASE WorkerStep
    BY <1>1, <2>1 DEF CallsMatch, SessionOrder, WorkerStep, StartReceiver, FinishedSeen,
       JoinReceiver
  <2>5. CASE PeerSends \/ PeerGoes \/ PeerStalls \/ Rest \/ UNCHANGED vars
    BY <1>1, <2>5 DEF CallsMatch, SessionOrder, PeerSends, PeerGoes, PeerStalls, Rest, vars
  <2>2. CASE ReceiverTests \/ ReceiveEnds \/ PlayingEnds \/ ReceiverEnds
    BY <1>1, <2>2 DEF CallsMatch, SessionOrder, ReceiverTests, ReceiveEnds, PlayingEnds,
       ReceiverEnds, LoudEnd, Taken, AudioTypeOK
  <2>3. CASE Receive
    <3>1. Head(inbox) \in Message
      BY <2>3 DEF Receive
    <3> QED
      BY <1>1, <2>3, <3>1, ZenonT(30) DEF CallsMatch, SessionOrder, Receive, Message, Play, Begin,
         AudioTypeOK
  <2>4. ASSUME NEW t \in Thread, Sound(t) PROVE CallsMatch' /\ SessionOrder'
    <3>1. \A u \in Thread : aud'[u] # "none" <=> aud[u] # "none"
      BY <2>4, AudioStepStays DEF Sound
    <3> QED
      BY <1>1, <2>4, <3>1 DEF CallsMatch, SessionOrder, Sound
  <2> QED
    BY <2>1, <2>2, <2>3, <2>4, <2>5 DEF ReceiverStep
<1> QED
  BY <1>2, <1>3 DEF Order

\* Together.
LEMMA GuiInvariance == Spec => []GuiInv
<1>1. Init => GuiInv
  <2> SUFFICES ASSUME Init PROVE GuiInv
    OBVIOUS
  <2> USE DEF Init, AudioInit
  <2>1. TypeOK /\ SoundInPhase
    <3>1. AudioTypeOK /\ SoundInPhase
      BY DEF AudioTypeOK, SoundInPhase
    <3>2. <<>> \in Seq(Message)
      OBVIOUS
    <3> QED
      BY <3>1, <3>2 DEF TypeOK
  <2>2. StartedLast /\ CallsMatch /\ Held /\ SessionOrder
    BY Threads DEF StartedLast, CallsMatch, Held, SessionOrder
  <2>3. OneRequest /\ FreeAtClaim /\ OneHolder
    BY DEF OneRequest, FreeAtClaim, OneHolder, Answered, Holding, JobActive
  <2> QED
    BY <2>1, <2>2, <2>3 DEF GuiInv
<1>2. GuiInv /\ [Next]_vars => GuiInv'
  <2> SUFFICES ASSUME GuiInv, [Next]_vars PROVE GuiInv'
    OBVIOUS
  <2>1. TypeOK' /\ SoundInPhase'
    BY TypesNext DEF GuiInv
  <2>2. Order' /\ (Serial => Apart')
    BY RequestKeeps, JobKeeps, SessionKeeps DEF Next
  <2> QED
    BY <2>1, <2>2 DEF GuiInv, Order, Apart
<1> QED
  BY <1>1, <1>2, PTL DEF Spec

------------------------------------------------------------------------------
(* What it gives.                                                           *)

\* Every variable keeps its type.
THEOREM TypeCorrect == Spec => []TypeOK
<1>1. GuiInv => TypeOK
  BY DEF GuiInv
<1> QED
  BY <1>1, GuiInvariance, PTL

\* "Audio ist bereits aktiv" is said exactly while a recording is started or
\* runs, and no two run at a time, as long as requests do not overlap.
THEOREM BusyExact == Spec => []BusyMeansAudio
<1>1. GuiInv => BusyMeansAudio
  BY DEF GuiInv, BusyMeansAudio, Held, OneHolder, Holding
<1> QED
  BY <1>1, GuiInvariance, PTL

\* Overlapping or not, an event that is set has a thread that clears it as its
\* last step: it is never left set by nobody (the safety half of AudioComesFree,
\* whose thread may be stuck in a send).
THEOREM BusyHasHolder == Spec => []Held
<1>1. GuiInv => Held
  BY DEF GuiInv
<1> QED
  BY <1>1, GuiInvariance, PTL

\* In a session, too, a call that has returned has deleted its sound.
THEOREM SessionSoundDeleted == Spec => []ClearSoundDeleted
BY SessionImplementsAudio, SoundDeleted, PTL

\* A recording thread that is over, and a receiver that is not playing, have
\* no sound on the disk: none outlasts the session.
NoSoundAfter ==
    /\ \A r \in Request, n \in Name : ~JobActive(r) => file[r][n] # "sound"
    /\ \A n \in Name : recv # "playing" => file["receiver"][n] # "sound"

\* The deletion in AudioBackend is in time for its callers.
THEOREM SoundGone == Spec => []NoSoundAfter
<1>1. GuiInv => NoSoundAfter
  <2> SUFFICES ASSUME GuiInv PROVE NoSoundAfter
    OBVIOUS
  <2>1. \A t \in Thread, n \in Name : file[t][n] = "sound" => aud[t] # "none"
    BY DEF GuiInv, SoundInPhase, SoundPhases
  <2> QED
    BY <2>1, Threads DEF GuiInv, NoSoundAfter, CallsMatch, JobActive
<1> QED
  BY <1>1, GuiInvariance, PTL

\* The worker cleans up only after the event is set and the channel closed, and
\* a receiver that has ended has set the event (the safety half of SessionEnds).
THEOREM EndsInOrder == Spec => []SessionOrder
<1>1. GuiInv => SessionOrder
  BY DEF GuiInv
<1> QED
  BY <1>1, GuiInvariance, PTL

------------------------------------------------------------------------------
(* A GUI session as a session of SessionLife.                               *)

\* run() is over once its wait has ended.
Life == IF worker \in {"start", "wait"} THEN "running" ELSE "over"

L == INSTANCE SessionLife WITH life <- Life

\* A hangup closes the channel of a session it found or made finished.
HangupOrder == \A r \in Request : req[r] = "shut" => finished

\* Every step keeps that order.
LEMMA HangupNext == TypeOK /\ HangupOrder /\ [Next]_vars => HangupOrder'
<1> SUFFICES ASSUME TypeOK, HangupOrder, [Next]_vars PROVE HangupOrder'
  OBVIOUS
<1> USE DEF TypeOK, HangupOrder, callVars, sessionVars, wireVars, ReqOnly, SessionOnly
<1>1. ASSUME NEW r \in Request, Arrive(r) \/ RequestStep(r) PROVE HangupOrder'
  <2>1. CASE SendText(r) \/ SetFinished(r) \/ ShutChannel(r)
    BY <2>1 DEF SendText, SetFinished, ShutChannel, Req
  <2>2. CASE Arrive(r) \/ Lookup(r) \/ Gate(r) \/ Claim(r) \/ Launch(r)
    BY <2>2 DEF Arrive, Lookup, Gate, Claim, Launch, Req
  <2> QED
    BY <1>1, <2>1, <2>2 DEF RequestStep
<1>2. ASSUME NEW r \in Request, JobStep(r) PROVE HangupOrder'
  BY <1>2 DEF JobStep, RecordingEnds, Deliver, Listen, TestPlayed, Release
<1>3. CASE WorkerStep \/ ReceiverStep
  BY <1>3 DEF WorkerStep, StartReceiver, FinishedSeen, JoinReceiver, ReceiverStep,
     ReceiverTests, Receive, ReceiveEnds, PlayingEnds, ReceiverEnds, LoudEnd
<1>4. CASE \/ PeerSends \/ PeerGoes \/ PeerStalls \/ Rest \/ UNCHANGED vars
           \/ \E t \in Thread : Sound(t)
  BY <1>4 DEF PeerSends, PeerGoes, PeerStalls, Rest, vars, Sound
<1> QED
  BY <1>1, <1>2, <1>3, <1>4 DEF Next

\* What every step does to event and channel.
LEMMA StepIsLife ==
    GuiInv /\ HangupOrder /\ [Next]_vars => [L!LifeNext]_(L!lifeVars)
<1> SUFFICES ASSUME GuiInv, HangupOrder, [Next]_vars PROVE [L!LifeNext]_(L!lifeVars)
  OBVIOUS
<1> USE DEF GuiInv, TypeOK, SessionOrder, HangupOrder, callVars, sessionVars, wireVars,
        ReqOnly, SessionOnly, Life, L!lifeVars
<1>1. ASSUME NEW r \in Request, Arrive(r) \/ RequestStep(r)
      PROVE  [L!LifeNext]_(L!lifeVars)
  <2>1. CASE SendText(r) \/ SetFinished(r)
    BY <2>1 DEF SendText, SetFinished, L!LifeNext, L!Finish
  <2>2. CASE ShutChannel(r)
    BY <2>2 DEF ShutChannel, Req, L!LifeNext, L!Shut
  <2>3. CASE Arrive(r) \/ Lookup(r) \/ Gate(r) \/ Claim(r) \/ Launch(r)
    BY <2>3 DEF Arrive, Lookup, Gate, Claim, Launch
  <2> QED
    BY <1>1, <2>1, <2>2, <2>3 DEF RequestStep
<1>2. ASSUME NEW r \in Request, JobStep(r) PROVE [L!LifeNext]_(L!lifeVars)
  BY <1>2 DEF JobStep, RecordingEnds, Deliver, Listen, TestPlayed, Release
<1>3. CASE WorkerStep
  BY <1>3 DEF WorkerStep, StartReceiver, FinishedSeen, JoinReceiver, L!LifeNext, L!Return
<1>4. CASE ReceiverEnds
  BY <1>4 DEF ReceiverEnds, LoudEnd, Recv, L!LifeNext, L!Finish
<1>5. CASE ReceiverTests \/ Receive \/ ReceiveEnds \/ PlayingEnds
  <2>1. CASE Receive
    <3>1. Head(inbox) \in Message
      BY <2>1 DEF Receive
    <3> QED
      BY <2>1, <3>1 DEF Receive, Message, Recv
  <2>2. CASE ReceiverTests \/ ReceiveEnds \/ PlayingEnds
    BY <2>2 DEF ReceiverTests, ReceiveEnds, PlayingEnds, Recv
  <2> QED
    BY <1>5, <2>1, <2>2
<1>6. CASE \/ PeerSends \/ PeerGoes \/ PeerStalls \/ Rest \/ UNCHANGED vars
           \/ \E t \in Thread : Sound(t)
  BY <1>6 DEF PeerSends, PeerGoes, PeerStalls, Rest, vars, Sound
<1> QED
  BY <1>1, <1>2, <1>3, <1>4, <1>5, <1>6 DEF Next, ReceiverStep

\* Whichever thread ends a GUI session, it finishes once, keeps its channel
\* until then, and run() returns only when both are done.
THEOREM SessionImplementsLife == Spec => L!LifeSpec
<1>1. Init => HangupOrder /\ L!LifeInit
  BY DEF Init, HangupOrder, L!LifeInit, Life
<1>2. GuiInv => TypeOK
  BY DEF GuiInv
<1> QED
  BY <1>1, <1>2, GuiInvariance, HangupNext, StepIsLife, PTL DEF Spec, L!LifeSpec
==============================================================================
