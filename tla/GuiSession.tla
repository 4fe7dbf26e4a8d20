----------------------------- MODULE GuiSession -----------------------------
(***************************************************************************)
(* onioncall.gui_session.GuiSession in a running connection, with the      *)
(* GuiController methods that use it: send_text, send_audio, test_audio    *)
(* and the close() of a disconnect.  Every request is a handler thread,    *)
(* every recording a thread of its own; the audio_busy event is to keep    *)
(* two of them apart.  audio.AudioBackend does the recording and playing.  *)
(* How sessions come and go is in module GuiController.                    *)
(***************************************************************************)
EXTENDS AudioBackend, Naturals, Sequences

CONSTANTS
    Request,      \* the requests of a behaviour
    Serial,       \* the browser sends a request only after the last answer
    MaxMessages   \* bound: messages of the peer

ASSUME RequestAssumption ==
    "receiver" \notin Request /\ Thread = Request \cup {"receiver"}
ASSUME BoundAssumption == Serial \in BOOLEAN /\ MaxMessages \in Nat

\* POST /api/message, /api/audio, /api/audio/test and /api/disconnect.
Kind == {"text", "audio", "test", "hangup"}

VARIABLES
    kind,       \* kind[r]: what r asks for; chosen by the browser
    req,        \* req[r]: where r's handler thread is
    job,        \* job[r]: where the recording thread of r is
    busy,       \* the event self.audio_busy
    worker,     \* where run() is, in the controller's worker thread
    recv,       \* where the receiver thread is
    finished,   \* the session's finished event
    chan,       \* the session's channel
    inbox,      \* messages on their way to us
    peer,       \* "up", or "gone": the stream ends or breaks after inbox
    sent,       \* number of messages the peer has sent
    stalled     \* the peer has stopped reading and the buffers are full

callVars == <<kind, req, job, busy>>
wireVars == <<chan, inbox, peer, sent, stalled>>
sessionVars == <<worker, recv, finished>>
vars == <<callVars, sessionVars, wireVars, audioVars>>

Message == {"TEXT", "AUDIO_OPUS", "CLOSE"}
Answered(r) == req[r] \in {"new", "done", "refused"}
JobActive(r) == job[r] \notin {"none", "ended"}

Init ==
    /\ AudioInit
    /\ kind \in [Request -> Kind]
    /\ req = [r \in Request |-> "new"]
    /\ job = [r \in Request |-> "none"]
    /\ busy = FALSE
    /\ worker = "start" /\ recv = "new" /\ finished = FALSE
    /\ chan = "open" /\ inbox = <<>> /\ peer = "up" /\ sent = 0 /\ stalled = FALSE

Req(r, from, to) == req[r] = from /\ req' = [req EXCEPT ![r] = to]
Job(r, from, to) == job[r] = from /\ job' = [job EXCEPT ![r] = to]
ReqOnly == UNCHANGED <<kind, job, busy, sessionVars, wireVars, audioVars>>
SessionOnly == UNCHANGED <<callVars, wireVars, audioVars>>

\* sendall() has no time limit.  It returns once the peer reads, and in any case
\* from a channel that is closed; whoever waits for _send_lock waits as long.
SendReturns == ~stalled \/ chan = "closed"
\* It fails only once the connection is gone, and then not always.
SendMayFail == chan = "closed" \/ peer = "gone"
SendMayWork == chan = "open"

------------------------------------------------------------------------------
(* The requests, in their handler threads.                                  *)

Arrive(r) ==
    /\ Serial => \A q \in Request : Answered(q)
    /\ Req(r, "new", IF kind[r] = "test" THEN "gate" ELSE "lookup")
    /\ ReqOnly

\* Is there a session, and is it not finished?
Lookup(r) ==
    /\ Req(r, "lookup", IF worker = "ended" \/ finished THEN "refused"
                        ELSE IF kind[r] = "audio" THEN "gate" ELSE "send")
    /\ ReqOnly

\* GuiSession.send_text: a failure finishes the session.
SendText(r) ==
    /\ kind[r] = "text" /\ SendReturns
    /\ \/ SendMayWork /\ Req(r, "send", "done") /\ UNCHANGED finished
       \/ SendMayFail /\ Req(r, "send", "refused") /\ finished' = TRUE
    /\ UNCHANGED <<kind, job, busy, worker, recv, wireVars, audioVars>>

\* GuiSession.close: CLOSE is sent, errors are suppressed, then the event ...
SetFinished(r) ==
    /\ kind[r] = "hangup" /\ SendReturns
    /\ Req(r, "send", "shut")
    /\ finished' = TRUE
    /\ UNCHANGED <<kind, job, busy, worker, recv, wireVars, audioVars>>

\* ... and the channel.
ShutChannel(r) ==
    /\ Req(r, "shut", "done")
    /\ chan' = "closed"
    /\ UNCHANGED <<kind, job, busy, sessionVars, inbox, peer, sent, stalled, audioVars>>

\* Mutant: the event is not tested.
GateOpen == TRUE
GateFree == ~busy

\* audio_busy is tested ...
Gate(r) == Req(r, "gate", IF GateFree THEN "claim" ELSE "refused") /\ ReqOnly

\* ... and set in a step of its own; then the recording thread starts.
Claim(r) ==
    /\ Req(r, "claim", "launch")
    /\ busy' = TRUE
    /\ UNCHANGED <<kind, job, sessionVars, wireVars, audioVars>>

Launch(r) ==
    /\ Req(r, "launch", "done")
    /\ Job(r, "none", "record")
    /\ Record(r)
    /\ UNCHANGED <<kind, busy, sessionVars, wireVars>>

RequestStep(r) ==
    \/ Lookup(r) \/ SendText(r) \/ SetFinished(r) \/ ShutChannel(r)
    \/ Gate(r) \/ Claim(r) \/ Launch(r)

------------------------------------------------------------------------------
(* work() of send_audio and test_audio, in the recording thread.            *)

\* Mutant: the event is cleared only after a recording that worked.
ReleaseOnSuccess(r) == IF ret[r] = "ok" THEN "release" ELSE "ended"
\* Every exception is caught, the finally clause clears the event.
ReleaseAlways(r) == "release"

RecordingEnds(r) ==
    /\ Taken(r)
    /\ Job(r, "record", IF ret[r] # "ok" THEN ReleaseAlways(r)
                        ELSE IF kind[r] = "audio" THEN "deliver" ELSE "listen")
    /\ UNCHANGED <<kind, req, busy, sessionVars, wireVars>>

\* GuiSession.send_audio sends on the session it was started with; a failure
\* leaves that session as it is.
Deliver(r) ==
    /\ SendReturns
    /\ Job(r, "deliver", "release")
    /\ UNCHANGED <<kind, req, busy, sessionVars, wireVars, audioVars>>

\* test_audio plays what it has recorded.
Listen(r) ==
    /\ Job(r, "listen", "play")
    /\ Play(r)
    /\ UNCHANGED <<kind, req, busy, sessionVars, wireVars>>

TestPlayed(r) ==
    /\ Taken(r)
    /\ Job(r, "play", "release")
    /\ UNCHANGED <<kind, req, busy, sessionVars, wireVars>>

Release(r) ==
    /\ Job(r, "release", "ended")
    /\ busy' = FALSE
    /\ UNCHANGED <<kind, req, sessionVars, wireVars, audioVars>>

JobStep(r) ==
    RecordingEnds(r) \/ Deliver(r) \/ Listen(r) \/ TestPlayed(r) \/ Release(r)

------------------------------------------------------------------------------
(* run() and _receive_loop().                                               *)

StartReceiver ==
    /\ worker = "start" /\ worker' = "wait"
    /\ recv' = "test"
    /\ UNCHANGED finished /\ SessionOnly

\* finished.wait() returns, the channel is closed, the receiver joined for at
\* most two seconds.
FinishedSeen ==
    /\ worker = "wait" /\ finished
    /\ worker' = "join"
    /\ chan' = "closed"
    /\ UNCHANGED <<callVars, recv, finished, inbox, peer, sent, stalled, audioVars>>

JoinReceiver ==
    /\ worker = "join" /\ worker' = "ended"
    /\ UNCHANGED <<recv, finished>> /\ SessionOnly

WorkerStep == StartReceiver \/ FinishedSeen \/ JoinReceiver

Recv(from, to) == recv = from /\ recv' = to /\ UNCHANGED worker

ReceiverTests ==
    /\ Recv("test", IF finished THEN "last" ELSE "receive")
    /\ UNCHANGED finished /\ SessionOnly

Receive ==
    /\ chan = "open" /\ inbox # <<>>
    /\ inbox' = Tail(inbox)
    /\ CASE Head(inbox) = "TEXT" -> Recv("receive", "test") /\ UNCHANGED audioVars
         [] Head(inbox) = "AUDIO_OPUS" -> Recv("receive", "playing") /\ Play("receiver")
         [] Head(inbox) = "CLOSE" -> Recv("receive", "last") /\ UNCHANGED audioVars
    /\ UNCHANGED <<callVars, finished, chan, peer, sent, stalled>>

ReceiveEnds ==
    /\ chan = "closed" \/ (inbox = <<>> /\ peer = "gone")
    /\ Recv("receive", "last")
    /\ UNCHANGED finished /\ SessionOnly

\* Only AudioError is caught inside the loop; OSError ends the session.
PlayingEnds ==
    /\ Taken("receiver")
    /\ Recv("playing", IF ret["receiver"] = "OSError" THEN "last" ELSE "test")
    /\ UNCHANGED <<callVars, finished, wireVars>>

\* Mutant: the receiver ends without setting the event.
SilentEnd == finished
LoudEnd == TRUE

ReceiverEnds ==
    /\ Recv("last", "ended")
    /\ finished' = LoudEnd
    /\ SessionOnly

ReceiverStep ==
    ReceiverTests \/ Receive \/ ReceiveEnds \/ PlayingEnds \/ ReceiverEnds

------------------------------------------------------------------------------
Sound(t) == AudioStep(t) /\ UNCHANGED <<callVars, sessionVars, wireVars>>

PeerSends ==
    /\ peer = "up" /\ sent < MaxMessages
    /\ \E m \in Message : inbox' = Append(inbox, m)
    /\ sent' = sent + 1
    /\ UNCHANGED <<callVars, sessionVars, chan, peer, stalled, audioVars>>

\* The peer leaves, Tor breaks the circuit, or a message arrives damaged.
PeerGoes ==
    /\ peer = "up" /\ peer' = "gone"
    /\ UNCHANGED <<callVars, sessionVars, chan, inbox, sent, stalled, audioVars>>

\* A peer that is there reads no more, which only those notice who send, and for
\* good: if it only pauses, or leaves, a send is but slow.
PeerStalls ==
    /\ \E r \in Request : req[r] = "send" \/ job[r] = "deliver"
    /\ chan = "open" /\ peer = "up" /\ ~stalled
    /\ stalled' = TRUE
    /\ UNCHANGED <<callVars, sessionVars, chan, inbox, peer, sent, audioVars>>

\* Nothing is being handled or recorded; the session waits for its peer.
Rest ==
    /\ \A r \in Request : Answered(r)
    /\ \A r \in Request : ~JobActive(r)
    /\ UNCHANGED vars

Next ==
    \/ \E r \in Request : Arrive(r) \/ RequestStep(r)
    \/ \E r \in Request : JobStep(r)
    \/ WorkerStep \/ ReceiverStep \/ PeerSends \/ PeerGoes \/ PeerStalls \/ Rest
    \/ \E t \in Thread : Sound(t)

Spec == Init /\ [][Next]_vars

\* Threads and child processes go on; the browser and the peer owe nothing.
Fairness ==
    /\ \A r \in Request : WF_vars(RequestStep(r))
    /\ \A r \in Request : WF_vars(JobStep(r))
    /\ WF_vars(WorkerStep) /\ WF_vars(ReceiverStep)
    /\ \A t \in Thread : WF_vars(Sound(t))

FairSpec == Spec /\ Fairness

------------------------------------------------------------------------------
(* Properties.                                                              *)

\* Every variable has its type.
TypeOK ==
    /\ AudioTypeOK
    /\ kind \in [Request -> Kind]
    /\ req \in [Request -> {"new", "lookup", "send", "shut", "gate", "claim",
                            "launch", "done", "refused"}]
    /\ job \in [Request -> {"none", "record", "deliver", "listen", "play",
                            "release", "ended"}]
    /\ busy \in BOOLEAN /\ finished \in BOOLEAN
    /\ worker \in {"start", "wait", "join", "ended"}
    /\ recv \in {"new", "test", "receive", "playing", "last", "ended"}
    /\ chan \in {"open", "closed"} /\ peer \in {"up", "gone"}
    /\ inbox \in Seq(Message) /\ sent \in Nat /\ stalled \in BOOLEAN

\* "Audio ist bereits aktiv": while the browser's requests do not overlap, the
\* event is set exactly as long as a recording is being started or runs, so no
\* two run at a time and none is refused for a recording that is over.
BusyMeansAudio ==
    Serial =>
        /\ busy <=> \E r \in Request : req[r] = "launch" \/ JobActive(r)
        /\ \A q, r \in Request : JobActive(q) /\ JobActive(r) => q = r

\* A recording thread in a send that does not return.
Stuck == ~SendReturns /\ \E r \in Request : job[r] = "deliver"

\* However recordings fail and whatever ends the session, the microphone comes
\* free, unless a recording is sent for ever to a peer that does not read.
AudioComesFree == busy ~> (~busy \/ []Stuck)

\* Whatever ends the session (a failed text, CLOSE, an error, a hangup), its
\* worker goes on to clean up and its receiver thread ends.
SessionEnds ==
    finished \/ recv = "last" ~> worker = "ended" /\ recv = "ended"
==============================================================================
