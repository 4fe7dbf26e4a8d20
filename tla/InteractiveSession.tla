------------------------- MODULE InteractiveSession -------------------------
(***************************************************************************)
(* onioncall.session.InteractiveSession over audio.AudioBackend: the main  *)
(* thread prompts the user, sends, and records; the receiver thread shows  *)
(* and plays what arrives; the two meet in the finished event, in the      *)
(* prompt that one of them has to end for the other, and in the channel.   *)
(* The channel is a first-in first-out stream (module SecureChannel shows  *)
(* that it is) which the peer or an error may end at any time.             *)
(***************************************************************************)
EXTENDS AudioBackend, Naturals, Sequences

CONSTANTS
    MaxMessages,   \* bound: messages of the peer
    MaxLines       \* bound: lines the user enters

ASSUME SessionAssumption ==
    Thread = {"main", "receiver"} /\ MaxMessages \in Nat /\ MaxLines \in Nat

VARIABLES
    main,        \* where the main thread is in run()
    recv,        \* where the receiver thread is in _receive_loop()
    finished,    \* the event self.finished
    scheduled,   \* the event self.prompt_stop_scheduled
    prompt,      \* "off", "on", or "exit": its loop has exit_active_prompt
    chan,        \* our channel: "open" or "closed"
    inbox,       \* messages on their way to us
    peer,        \* "up"; "silent": its stream ends or is damaged after inbox;
                 \* "gone": the connection is broken
    sent,        \* number of messages the peer has sent
    stalled,     \* the peer has stopped reading and the buffers are full
    lines        \* number of lines the user has entered

threadVars == <<main, recv>>
eventVars == <<finished, scheduled, prompt>>
wireVars == <<chan, inbox, peer, sent, stalled>>
vars == <<threadVars, eventVars, wireVars, lines, audioVars>>

Message == {"TEXT", "AUDIO_OPUS", "CLOSE"}

Init ==
    /\ AudioInit
    /\ main = "start" /\ recv = "new"
    /\ finished = FALSE /\ scheduled = FALSE /\ prompt = "off"
    /\ chan = "open" /\ inbox = <<>> /\ peer = "up" /\ sent = 0 /\ stalled = FALSE
    /\ lines = 0

Main(from, to) == main = from /\ main' = to /\ UNCHANGED recv
Recv(from, to) ==
    main # "exited" /\ recv = from /\ recv' = to /\ UNCHANGED main

------------------------------------------------------------------------------
(* run(), in the main thread.                                               *)

StartReceiver ==
    /\ main = "start" /\ main' = "test"
    /\ recv' = "test"
    /\ UNCHANGED <<eventVars, wireVars, lines, audioVars>>

SessionOn == ~finished

\* while not self.finished.is_set() ...
TestFinished ==
    /\ Main("test", IF SessionOn THEN "open" ELSE "finally")
    /\ UNCHANGED <<eventVars, wireVars, lines, audioVars>>

\* ... and then the prompt: the receiver may have set the event in between.
OpenPrompt ==
    /\ Main("open", "prompt")
    /\ prompt' = "on"
    /\ UNCHANGED <<finished, scheduled, wireVars, lines, audioVars>>

\* The user enters nothing or a help command, a quit command or end of file,
\* a text, a recording, or interrupts the program.
EnterLine ==
    /\ lines < MaxLines
    /\ \E next \in {"test", "bye", "text", "record", "finally"} : Main("prompt", next)
    /\ prompt' = "off"
    /\ lines' = lines + 1
    /\ UNCHANGED <<finished, scheduled, wireVars, audioVars>>

\* exit_active_prompt raises EOFError in the prompt, which stands for /quit.
PromptExits ==
    /\ prompt = "exit"
    /\ Main("prompt", "bye")
    /\ prompt' = "off"
    /\ UNCHANGED <<finished, scheduled, wireVars, lines, audioVars>>

\* sendall() has no time limit.  It returns once the peer reads or when the
\* connection is broken; the channel is closed by this thread alone.
SendReturns == ~stalled \/ peer = "gone"

Sending == main \in {"bye", "text", "deliver"}

\* CLOSE is sent, errors are suppressed.
SayBye ==
    /\ SendReturns
    /\ Main("bye", "finally")
    /\ UNCHANGED <<eventVars, wireVars, lines, audioVars>>

\* _send_text: a text that is sent leaves the session as it is; a failure,
\* possible once the connection is gone, ends it.
SendText ==
    /\ SendReturns
    /\ Main("text", "test")
    /\ \/ UNCHANGED finished
       \/ peer = "gone" /\ finished' = TRUE
    /\ UNCHANGED <<scheduled, prompt, wireVars, lines, audioVars>>

\* _send_audio: a bad duration is refused, otherwise the recording begins.
StartRecording ==
    /\ \/ Main("record", "test") /\ UNCHANGED audioVars
       \/ Main("record", "recording") /\ Record("main")
    /\ UNCHANGED <<eventVars, wireVars, lines>>

\* A failure does not end the session, except for an error of the Termux
\* recorder, which nothing catches.
RecordingEnds ==
    /\ Taken("main")
    /\ \/ ret["main"] = "ok" /\ Main("recording", "deliver")
       \/ ret["main"] = "SubprocessError" /\ Main("recording", "finally")
       \/ ret["main"] \notin {"ok", "SubprocessError"} /\ Main("recording", "test")
    /\ UNCHANGED <<eventVars, wireVars, lines>>

\* A recording that cannot be sent does not end the session either.
Deliver ==
    /\ SendReturns
    /\ Main("deliver", "test")
    /\ UNCHANGED <<eventVars, wireVars, lines, audioVars>>

\* The user interrupts the program (Ctrl-C) in one of these sends.
Interrupt ==
    /\ \E sending \in {"bye", "text", "deliver"} : Main(sending, "finally")
    /\ UNCHANGED <<eventVars, wireVars, lines, audioVars>>

\* The finally clause; _stop_prompt finds no running prompt in this thread.
SetFinished ==
    /\ Main("finally", "close")
    /\ finished' = TRUE
    /\ UNCHANGED <<scheduled, prompt, wireVars, lines, audioVars>>

\* Mutant: the channel is left open.
ChannelLeft == chan
ChannelShut == "closed"

CloseChannel ==
    /\ Main("close", "join")
    /\ chan' = ChannelShut
    /\ UNCHANGED <<eventVars, inbox, peer, sent, stalled, lines, audioVars>>

\* receiver.join(timeout=2) returns in any case.
JoinReceiver ==
    Main("join", "done") /\ UNCHANGED <<eventVars, wireVars, lines, audioVars>>

\* The command returns and the process ends, daemon threads with it.
ExitProcess ==
    Main("done", "exited") /\ UNCHANGED <<eventVars, wireVars, lines, audioVars>>

MainStep ==
    \/ StartReceiver \/ TestFinished \/ OpenPrompt \/ PromptExits \/ SayBye
    \/ SendText \/ StartRecording \/ RecordingEnds \/ Deliver \/ SetFinished
    \/ CloseChannel \/ JoinReceiver

------------------------------------------------------------------------------
(* _receive_loop(), in the receiver thread.                                 *)

ReceiverTests ==
    /\ Recv("test", IF finished THEN "finally" ELSE "receive")
    /\ UNCHANGED <<eventVars, wireVars, lines, audioVars>>

\* The next message is shown, played, or ends the session.
Receive ==
    /\ chan = "open" /\ inbox # <<>>
    /\ inbox' = Tail(inbox)
    /\ CASE Head(inbox) = "TEXT" -> Recv("receive", "test") /\ UNCHANGED <<finished, audioVars>>
         [] Head(inbox) = "AUDIO_OPUS" ->
              Recv("receive", "playing") /\ Play("receiver") /\ UNCHANGED finished
         [] Head(inbox) = "CLOSE" ->
              Recv("receive", "early") /\ finished' = TRUE /\ UNCHANGED audioVars
    /\ UNCHANGED <<scheduled, prompt, chan, peer, sent, stalled, lines>>

\* End of file, a broken connection or message, or our own channel closed.
ReceiveEnds ==
    /\ chan = "closed" \/ (inbox = <<>> /\ peer # "up")
    /\ Recv("receive", "finally")
    /\ UNCHANGED <<eventVars, wireVars, lines, audioVars>>

\* Only AudioError is caught inside the loop; OSError ends the session.
PlayingEnds ==
    /\ Taken("receiver")
    /\ Recv("playing", IF ret["receiver"] = "OSError" THEN "finally" ELSE "test")
    /\ UNCHANGED <<eventVars, wireVars, lines>>

\* The event is set before the prompt is looked for.
ReceiverFinishes ==
    /\ Recv("finally", "look")
    /\ finished' = TRUE
    /\ UNCHANGED <<scheduled, prompt, wireVars, lines, audioVars>>

\* _stop_prompt: is there a prompt, and has nobody stopped it yet?
LookForPrompt(here, stop, after) ==
    /\ Recv(here, IF prompt # "off" /\ ~scheduled THEN stop ELSE after)
    /\ UNCHANGED <<eventVars, wireVars, lines, audioVars>>

\* Mutant: the callback is put into the loop without waking it.
LoopAsleep == prompt
LoopWoken == IF prompt = "on" THEN "exit" ELSE prompt

\* The callback reaches the prompt's loop, unless the prompt has ended since:
\* then there is no loop, and an exception takes the thread to its end.
StopPrompt(here, after) ==
    /\ Recv(here, after)
    /\ scheduled' = TRUE
    /\ prompt' = LoopWoken
    /\ UNCHANGED <<finished, wireVars, lines, audioVars>>

\* It runs in the finally clause, and after a CLOSE a first time before it.
ReceiverStopsPrompt ==
    \/ LookForPrompt("early", "earlyStop", "finally") \/ StopPrompt("earlyStop", "finally")
    \/ LookForPrompt("look", "stop", "last") \/ StopPrompt("stop", "last")

\* The thread's last step.
ReceiverEnds ==
    /\ Recv("last", "ended")
    /\ UNCHANGED <<finished, scheduled, prompt, wireVars, lines, audioVars>>

ReceiverStep ==
    \/ ReceiverTests \/ Receive \/ ReceiveEnds \/ PlayingEnds
    \/ ReceiverFinishes \/ ReceiverStopsPrompt \/ ReceiverEnds

------------------------------------------------------------------------------
\* A child process or a file operation of either thread ends.
Sound(t) ==
    main # "exited" /\ AudioStep(t) /\ UNCHANGED <<threadVars, eventVars, wireVars, lines>>

PeerSends ==
    /\ peer = "up" /\ sent < MaxMessages
    /\ \E m \in Message : inbox' = Append(inbox, m)
    /\ sent' = sent + 1
    /\ UNCHANGED <<threadVars, eventVars, chan, peer, stalled, lines, audioVars>>

\* The peer ends its stream or a message arrives damaged; it leaves, or Tor
\* breaks the circuit.
PeerGoes ==
    /\ \/ peer = "up" /\ peer' = "silent"
       \/ peer # "gone" /\ peer' = "gone"
    /\ UNCHANGED <<threadVars, eventVars, chan, inbox, sent, stalled, lines, audioVars>>

\* The peer reads no more, which only a sender notices, and for good: if it
\* only pauses, a send is but slow.
PeerStalls ==
    /\ Sending /\ peer # "gone" /\ ~stalled
    /\ stalled' = TRUE
    /\ UNCHANGED <<threadVars, eventVars, chan, inbox, peer, sent, lines, audioVars>>

\* The process has ended, or it waits for a user who enters nothing more.
Waiting == main = "prompt" /\ lines = MaxLines
Rest == (main = "exited" \/ Waiting) /\ UNCHANGED vars

Next ==
    \/ MainStep \/ ExitProcess \/ EnterLine \/ Interrupt \/ ReceiverStep
    \/ PeerSends \/ PeerGoes \/ PeerStalls \/ Rest
    \/ \E t \in Thread : Sound(t)

Spec == Init /\ [][Next]_vars

\* The program's threads and child processes go on (_run has a timeout); the
\* user and the peer owe nothing.
Fairness ==
    /\ WF_vars(MainStep) /\ WF_vars(ReceiverStep)
    /\ \A t \in Thread : WF_vars(Sound(t))

FairSpec == Spec /\ Fairness

------------------------------------------------------------------------------
(* Properties.                                                              *)

\* Every variable has its type.
TypeOK ==
    /\ AudioTypeOK
    /\ main \in {"start", "test", "open", "prompt", "bye", "text", "record",
                 "recording", "deliver", "finally", "close", "join", "done", "exited"}
    /\ recv \in {"new", "test", "receive", "playing", "early", "earlyStop",
                 "finally", "look", "stop", "last", "ended"}
    /\ finished \in BOOLEAN /\ scheduled \in BOOLEAN
    /\ prompt \in {"off", "on", "exit"}
    /\ chan \in {"open", "closed"} /\ peer \in {"up", "silent", "gone"}
    /\ inbox \in Seq(Message) /\ sent \in Nat /\ stalled \in BOOLEAN /\ lines \in Nat

Returned == main \in {"done", "exited"}

\* The main thread in a send that does not return.
Stuck == Sending /\ ~SendReturns

\* A session that is over returns to the menu, even from a prompt that is open
\* when the receiver looks for one, unless the main thread is stuck for ever in
\* a send to a peer that does not read: no other thread closes the channel.  A
\* prompt opened between the receiver's look and the main thread's own test of
\* the event stays, too, until the user presses a key.
SessionReturns ==
    /\ finished /\ main \notin {"open", "prompt"} ~> (Returned \/ []Stuck)
    /\ recv = "look" /\ main = "prompt" ~> (Returned \/ []Stuck)

\* The receiver does not hang on after run() has returned: the closed channel
\* ends it, at the latest after the message it is playing.
ReceiverLeaves == main = "done" ~> (recv = "ended" \/ main = "exited")
==============================================================================
