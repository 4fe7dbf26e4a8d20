---------------------------- MODULE GuiController ----------------------------
(***************************************************************************)
(* onioncall.webgui.GuiController with the TorProcess and GuiSession       *)
(* objects it owns.  Every HTTP request runs in a handler thread of its    *)
(* own; a listen or call request starts a worker thread that starts Tor,   *)
(* waits for or connects to the peer, runs the session and cleans up; a    *)
(* disconnect request stops what it finds.  A step is a critical section   *)
(* of self.lock, an access to a shared attribute or flag, or a blocking    *)
(* call.  accept_authenticated (module PreAuthListener) and the handshake  *)
(* (module SecureChannel for what follows it) are one step each.           *)
(***************************************************************************)
EXTENDS Naturals, FiniteSets

CONSTANTS
    Listen,      \* POST /api/listen requests
    Call,        \* POST /api/call requests
    Disconnect,  \* POST /api/disconnect requests (and shutdown)
    Serial,      \* the browser sends a request only after the last answer
    Stalls,      \* the peer may stop reading while the connection stays up
    None         \* no request

ASSUME RequestAssumption ==
    /\ IsFiniteSet(Listen \cup Call \cup Disconnect)
    /\ Listen \cap Call = {}
    /\ Disconnect \cap (Listen \cup Call) = {}
    /\ None \notin Listen \cup Call \cup Disconnect
ASSUME SwitchAssumption == Serial \in BOOLEAN /\ Stalls \in BOOLEAN

Job == Listen \cup Call            \* a worker thread is named by its request
Request == Job \cup Disconnect

VARIABLES
    req,            \* req[r]: where r's handler thread is
    snap,           \* snap[d]: what disconnect d found under the lock
    job,            \* job[j]: where j's worker thread is
    worker,         \* self.worker
    session,        \* self.session, named by its job
    listener,       \* self.listener
    tor,            \* self.tor
    state,          \* self.state
    stopRequested,  \* self.stop_requested
    listening,      \* listening[j]: j's listening socket is open
    torFlag,        \* torFlag[j]: _stop_requested of j's TorProcess
    torRef,         \* torRef[j]: its process attribute is not None
    torProc,        \* torProc[j]: the operating system's process
    channel,        \* channel[j]: j's SecureChannel
    finished,       \* finished[j]: the event of j's GuiSession
    stalled         \* stalled[j]: the peer has stopped reading

reqVars == <<req, snap>>
refs    == <<worker, session, listener, tor>>
gui     == <<refs, state, stopRequested>>
torVars == <<torFlag, torRef, torProc>>
chanVars == <<channel, finished, stalled>>
objects == <<listening, torVars, chanVars>>
vars == <<reqVars, job, gui, objects>>

Nothing == [session |-> None, listener |-> None, tor |-> None]

JobStates == {"none", "load", "publish", "start", "spawn", "boot", "boot2",
              "wait", "accepting", "attach", "run", "stop", "stopping", "clear",
              "idle", "ended"}
Alive(j) == job[j] \notin {"none", "ended"}
Answered(r) == req[r] \in {"new", "done", "refused"}

Init ==
    /\ req = [r \in Request |-> "new"]
    /\ snap = [d \in Disconnect |-> Nothing]
    /\ job = [j \in Job |-> "none"]
    /\ worker = None /\ session = None /\ listener = None /\ tor = None
    /\ state = "idle"
    /\ stopRequested = FALSE
    /\ listening = [j \in Job |-> FALSE]
    /\ torFlag = [j \in Job |-> FALSE]
    /\ torRef = [j \in Job |-> FALSE]
    /\ torProc = [j \in Job |-> "none"]
    /\ channel = [j \in Job |-> "none"]
    /\ finished = [j \in Job |-> FALSE]
    /\ stalled = [j \in Job |-> FALSE]

\* A handler thread or a worker thread goes from one step to the next.
Req(r, from, to) == req[r] = from /\ req' = [req EXCEPT ![r] = to]
Work(j, from, to) == job[j] = from /\ job' = [job EXCEPT ![j] = to]
ReqOnly == UNCHANGED <<snap, job, gui, objects>>
WorkOnly == UNCHANGED <<reqVars, gui, objects>>

------------------------------------------------------------------------------
(* start_listen and start_call, in the handler thread.                      *)

Arrive(r) ==
    /\ Serial => \A q \in Request : Answered(q)
    /\ Req(r, "new", IF r \in Job THEN "guard" ELSE "signal")
    /\ ReqOnly

\* Mutant: the guard looks at the session only, not at the worker.
BusyIgnoresWorker == session # None /\ ~finished[session]
Busy ==
    \/ worker # None /\ Alive(worker)
    \/ session # None /\ ~finished[session]

\* _busy_guard: the lock is released again when it returns.
BusyGuard(j) == Req(j, "guard", IF Busy THEN "refused" ELSE "clear") /\ ReqOnly

ClearStop(j) ==
    /\ Req(j, "clear", "assign")
    /\ stopRequested' = FALSE
    /\ UNCHANGED <<snap, job, refs, state, objects>>

\* self.worker = Thread(...); it is not alive yet.
AssignWorker(j) ==
    /\ Req(j, "assign", "launch")
    /\ worker' = j
    /\ UNCHANGED <<snap, job, session, listener, tor, state, stopRequested,
                   objects>>

\* self.worker.start() starts the thread the attribute now names, and raises
\* if that one has been started before.
LaunchWorker(j) ==
    /\ req[j] = "launch"
    /\ IF job[worker] = "none"
         THEN Req(j, "launch", "done") /\ job' = [job EXCEPT ![worker] = "load"]
         ELSE Req(j, "launch", "refused") /\ UNCHANGED job
    /\ UNCHANGED <<snap, gui, objects>>

------------------------------------------------------------------------------
(* work(), in the worker thread.                                            *)

\* Configuration, profile and identity; an exception here ends the thread
\* without a word, as the try statement has not been entered yet.
Load(j) == (Work(j, "load", "publish") \/ Work(j, "load", "ended")) /\ WorkOnly

\* Under the lock: the new TorProcess and, for a listener, its socket.
Publish(j) ==
    /\ Work(j, "publish", "start")
    /\ tor' = j
    /\ listener' = IF j \in Listen THEN j ELSE listener
    /\ listening' = [listening EXCEPT ![j] = j \in Listen]
    /\ UNCHANGED <<reqVars, worker, session, state, stopRequested, torVars,
                   chanVars>>

\* A listener that cannot bind (or was closed already) ends the work.
BindFails(j) == j \in Listen /\ Work(j, "start", "stop") /\ WorkOnly

SocksPortFree(j) == \A k \in Job \ {j} : torProc[k] \notin {"running", "dying"}

\* TorProcess.start(): the stop flag is reset, then binary and port checked.
TorStart(j) ==
    /\ j \in Listen => listening[j]
    /\ Work(j, "start", IF SocksPortFree(j) THEN "spawn" ELSE "stop")
    /\ state' = "starting"
    /\ torFlag' = [torFlag EXCEPT ![j] = FALSE]
    /\ UNCHANGED <<reqVars, refs, stopRequested, listening, torRef, torProc,
                   chanVars>>

\* Popen; a Tor that finds the SOCKS port taken exits by itself.
TorSpawn(j) ==
    /\ Work(j, "spawn", "boot")
    /\ torRef' = [torRef EXCEPT ![j] = TRUE]
    /\ torProc' = [torProc EXCEPT ![j] =
                     IF SocksPortFree(j) THEN "running" ELSE "dead"]
    /\ UNCHANGED <<reqVars, gui, listening, torFlag, chanVars>>

\* Mutant: the waiting loop does not look at the stop flag.
FlagIgnored(j) == FALSE
FlagSeen(j) == torFlag[j]

\* One round of the waiting loop: first the flag ...
BootCheck(j) ==
    Work(j, "boot", IF FlagSeen(j) THEN "stop" ELSE "boot2") /\ WorkOnly

\* ... then the process: ready, or exited, stopped or too late.
BootReady(j) ==
    /\ torRef[j] /\ torProc[j] = "running"
    /\ Work(j, "boot2", "wait")
    /\ state' = IF j \in Listen THEN "waiting" ELSE "connecting"
    /\ UNCHANGED <<reqVars, refs, stopRequested, objects>>

BootFails(j) == Work(j, "boot2", "stop") /\ WorkOnly

\* Mutant: the accept loop does not look at the stop event.
StopIgnored == FALSE
StopSeen == stopRequested

\* One round of accept_authenticated: first the stop event ...
Poll(j) ==
    /\ j \in Listen
    /\ Work(j, "wait", IF StopSeen THEN "stop" ELSE "accepting")
    /\ WorkOnly

\* ... then accept(), which times out or raises on a closed listener.
AcceptEnds(j) ==
    Work(j, "accepting", IF listening[j] THEN "wait" ELSE "stop") /\ WorkOnly

\* A peer authenticates while the listener waits, or the SOCKS connection and
\* the client handshake succeed: both need Tor.
PeerConnects(j) ==
    /\ torProc[j] = "running"
    /\ Work(j, IF j \in Listen THEN "accepting" ELSE "wait", "attach")
    /\ channel' = [channel EXCEPT ![j] = "open"]
    /\ UNCHANGED <<reqVars, gui, listening, torVars, finished, stalled>>

\* A call that SOCKS, the handshake or one of their timeouts ends.
CallFails(j) == j \in Call /\ Work(j, "wait", "stop") /\ WorkOnly

\* Under the lock: the session becomes visible; then it runs.
Attach(j) ==
    /\ Work(j, "attach", "run")
    /\ session' = j
    /\ state' = "connected"
    /\ UNCHANGED <<reqVars, worker, listener, tor, stopRequested, objects>>

\* Pinning the fingerprint or preparing the audio directory raises.
AttachFails(j) == Work(j, "attach", "stop") /\ WorkOnly

\* The receive loop ends ...
Finish(j) ==
    /\ job[j] = "run" /\ ~finished[j]
    /\ finished' = [finished EXCEPT ![j] = TRUE]
    /\ UNCHANGED <<reqVars, job, gui, listening, torVars, channel, stalled>>

\* ... on CLOSE or EOF from the peer, or as channel or Tor are gone.
PeerLeaves(j) == Finish(j)
ReceiveFails(j) == (channel[j] = "closed" \/ torProc[j] # "running") /\ Finish(j)

\* GuiSession.run: finished is set, the channel is closed.
RunEnds(j) ==
    /\ finished[j]
    /\ Work(j, "run", "stop")
    /\ channel' = [channel EXCEPT ![j] = "closed"]
    /\ UNCHANGED <<reqVars, gui, listening, torVars, finished, stalled>>

\* Mutant: the finally clause forgets Tor.
LeaveTor(j) == UNCHANGED torVars
\* TorProcess.stop(), first half: flag set, process attribute taken, SIGTERM.
TakeTor(j) ==
    /\ torFlag' = [torFlag EXCEPT ![j] = TRUE]
    /\ torRef' = [torRef EXCEPT ![j] = FALSE]
    /\ torProc' = [torProc EXCEPT ![j] =
                     IF torRef[j] /\ @ = "running" THEN "dying" ELSE @]

\* The finally clause closes the listener and stops Tor; it waits for the
\* process only when nobody else has taken it.
CleanUp(j) ==
    /\ Work(j, "stop", IF torRef[j] THEN "stopping" ELSE "clear")
    /\ listening' = [listening EXCEPT ![j] = FALSE]
    /\ TakeTor(j)
    /\ UNCHANGED <<reqVars, gui, chanVars>>

\* The terminated (or, after eight seconds, killed) process is gone; one that
\* runs may also end by itself at any time.
TorGone(j, from) ==
    /\ torProc[j] = from
    /\ torProc' = [torProc EXCEPT ![j] = "dead"]
    /\ UNCHANGED <<reqVars, job, gui, listening, torFlag, torRef, chanVars>>
TorExits(j) == TorGone(j, "dying")
TorCrashes(j) == TorGone(j, "running")

StopWaited(j) ==
    torProc[j] # "dying" /\ Work(j, "stopping", "clear") /\ WorkOnly

\* Mutant: the finished session stays published.
KeepSession == session
NoSession == None

\* Under the lock all references are dropped, whoever they belong to.
ClearRefs(j) ==
    /\ Work(j, "clear", "idle")
    /\ tor' = None
    /\ session' = NoSession
    /\ listener' = IF j \in Listen THEN None ELSE listener
    /\ UNCHANGED <<reqVars, worker, state, stopRequested, objects>>

\* The thread's last line.  A channel that never got a session goes with the
\* thread's last reference.
SetIdle(j) ==
    /\ Work(j, "idle", "ended")
    /\ state' = "idle"
    /\ channel' = [channel EXCEPT ![j] = IF @ = "open" THEN "closed" ELSE @]
    /\ UNCHANGED <<reqVars, refs, stopRequested, listening, torVars, finished,
                   stalled>>

------------------------------------------------------------------------------
(* disconnect, in its handler thread.                                       *)

Signal(d) ==
    /\ Req(d, "signal", "snap")
    /\ stopRequested' = TRUE
    /\ UNCHANGED <<snap, job, refs, state, objects>>

PublishedRefs == [session |-> session, listener |-> listener, tor |-> tor]

Snapshot(d) ==
    /\ Req(d, "snap", "session")
    /\ snap' = [snap EXCEPT ![d] = PublishedRefs]
    /\ UNCHANGED <<job, gui, objects>>

\* sendall() of the CLOSE message returns, with or without success.
SendReturns(j) == ~stalled[j] \/ channel[j] = "closed" \/ torProc[j] # "running"

\* GuiSession.close(): unless finished, CLOSE is sent, finished set and the
\* channel closed.
CloseSession(d) ==
    /\ Req(d, "session", "listener")
    /\ LET j == snap[d].session IN
         IF j = None \/ finished[j]
           THEN UNCHANGED <<channel, finished>>
           ELSE /\ SendReturns(j)
                /\ finished' = [finished EXCEPT ![j] = TRUE]
                /\ channel' = [channel EXCEPT ![j] = "closed"]
    /\ UNCHANGED <<snap, job, gui, listening, torVars, stalled>>

CloseListener(d) ==
    /\ Req(d, "listener", "tor")
    /\ listening' = [j \in Job |-> listening[j] /\ j # snap[d].listener]
    /\ UNCHANGED <<snap, job, gui, torVars, chanVars>>

StopTor(d) ==
    /\ LET j == snap[d].tor IN
         IF j = None
           THEN Req(d, "tor", "state") /\ UNCHANGED torVars
           ELSE /\ Req(d, "tor", IF torRef[j] THEN "tor2" ELSE "state")
                /\ TakeTor(j)
    /\ UNCHANGED <<snap, job, gui, listening, chanVars>>

StopTorWaited(d) ==
    Req(d, "tor2", "state") /\ torProc[snap[d].tor] # "dying" /\ ReqOnly

\* Mutant: disconnect joins the worker thread before it answers.
WorkerJoined == worker # None => ~Alive(worker)
AnswerReady == TRUE

ReportIdle(d) ==
    /\ Req(d, "state", "done")
    /\ AnswerReady
    /\ state' = "idle"
    /\ UNCHANGED <<snap, job, refs, stopRequested, objects>>

\* The peer stops reading and the buffers between the two are full.
PeerStalls(j) ==
    /\ Stalls /\ channel[j] = "open" /\ ~stalled[j]
    /\ stalled' = [stalled EXCEPT ![j] = TRUE]
    /\ UNCHANGED <<reqVars, job, gui, listening, torVars, channel, finished>>

------------------------------------------------------------------------------
StartStep(j) == BusyGuard(j) \/ ClearStop(j) \/ AssignWorker(j) \/ LaunchWorker(j)

\* What the worker does on its own, peer and Tor aside.
WorkStep(j) ==
    \/ Load(j) \/ Publish(j) \/ BindFails(j) \/ TorStart(j) \/ TorSpawn(j)
    \/ BootCheck(j) \/ BootReady(j) \/ BootFails(j) \/ Poll(j) \/ AcceptEnds(j)
    \/ CallFails(j) \/ Attach(j) \/ AttachFails(j) \/ RunEnds(j) \/ CleanUp(j)
    \/ StopWaited(j) \/ ClearRefs(j) \/ SetIdle(j)

DisconnectStep(d) ==
    \/ Signal(d) \/ Snapshot(d) \/ CloseSession(d) \/ CloseListener(d)
    \/ StopTor(d) \/ StopTorWaited(d) \/ ReportIdle(d)

\* No request is being handled and no worker runs.
AtRest == (\A r \in Request : Answered(r)) /\ (\A j \in Job : ~Alive(j))

Next ==
    \/ \E r \in Request : Arrive(r)
    \/ \E j \in Job :
         \/ StartStep(j) \/ WorkStep(j) \/ ReceiveFails(j) \/ TorExits(j)
         \/ PeerConnects(j) \/ PeerLeaves(j) \/ PeerStalls(j) \/ TorCrashes(j)
    \/ \E d \in Disconnect : DisconnectStep(d)
    \/ AtRest /\ UNCHANGED vars

Spec == Init /\ [][Next]_vars

\* Threads that can run do run, a terminated process exits (it is killed
\* after eight seconds), reads on a dead connection fail.  Browser, peer and
\* Tor network owe nothing.
Fairness ==
    /\ \A j \in Job :
         /\ WF_vars(StartStep(j))
         /\ WF_vars(WorkStep(j))
         /\ WF_vars(ReceiveFails(j))
         /\ WF_vars(TorExits(j))
    /\ \A d \in Disconnect : WF_vars(DisconnectStep(d))

FairSpec == Spec /\ Fairness

------------------------------------------------------------------------------
(* Properties.                                                              *)

\* Every variable has its type.
TypeOK ==
    /\ req \in [Request -> {"new", "guard", "clear", "assign", "launch",
                            "signal", "snap", "session", "listener", "tor",
                            "tor2", "state", "done", "refused"}]
    /\ snap \in [Disconnect -> [session : Job \cup {None}, tor : Job \cup {None},
                              listener : Listen \cup {None}]]
    /\ job \in [Job -> JobStates]
    /\ worker \in Job \cup {None} /\ session \in Job \cup {None}
    /\ tor \in Job \cup {None} /\ listener \in Listen \cup {None}
    /\ state \in {"idle", "starting", "waiting", "connecting", "connected"}
    /\ stopRequested \in BOOLEAN
    /\ listening \in [Job -> BOOLEAN]
    /\ torFlag \in [Job -> BOOLEAN] /\ torRef \in [Job -> BOOLEAN]
    /\ finished \in [Job -> BOOLEAN] /\ stalled \in [Job -> BOOLEAN]
    /\ torProc \in [Job -> {"none", "running", "dying", "dead"}]
    /\ channel \in [Job -> {"none", "open", "closed"}]

\* "Eine Verbindungsaktion laeuft bereits": two workers never run at once.
OneActionAtATime == \A j, k \in Job : Alive(j) /\ Alive(k) => j = k

\* A session that runs is the one the GUI's commands reach: send_text finds
\* it and disconnect can end it.
RunningSessionIsReachable ==
    \A j \in Job : job[j] = "run" => session = j /\ tor = j

\* When nothing is going on any more, the GUI says so and nothing is left
\* behind: no reference, no Tor process, no open channel or listener.
RestIsClean ==
    AtRest => /\ state = "idle"
              /\ session = None /\ tor = None /\ listener = None
              /\ \A j \in Job : /\ torProc[j] # "running"
                                /\ channel[j] # "open"
                                /\ ~listening[j]

\* A worker's Tor does not outlive it, except while a disconnect that took
\* the process waits for its end.
TorEndsWithItsWorker ==
    \A j \in Job :
        /\ job[j] = "ended" => torProc[j] # "running"
        /\ job[j] = "ended" /\ torProc[j] = "dying" =>
             \E d \in Disconnect : req[d] = "tor2" /\ snap[d].tor = j

\* A disconnect that reaches a TorProcess whose start() is past its first
\* line ends that worker, wherever the two threads meet.
StopAfterResetHonoured ==
    \A j \in Job :
        torFlag[j] /\ job[j] \notin {"load", "publish", "start"}
            ~> job[j] = "ended"

\* A disconnect ends a listener even if it comes before the worker thread has
\* published anything, because accept_authenticated reads the stop event;
\* only a peer that stops reading can keep its session, and so the worker.
DisconnectEndsListen ==
    \A d \in Disconnect, j \in Listen :
        req[d] = "snap" /\ Alive(j) ~> ~Alive(j) \/ stalled[j]

\* Every request is answered, unless it sends to a peer that does not read.
RequestsAnswered ==
    \A r \in Request : req[r] # "new" ~> Answered(r) \/ \E j \in Job : stalled[j]

\* "Mit Verbindung beenden werden Sitzung und die zugehoerige Tor-Instanz
\* beendet": a disconnect ends a call that is under way.  The code does not keep
\* this promise nor the next one (README, section 6).
DisconnectEndsCall ==
    \A d \in Disconnect, j \in Call :
        req[d] = "snap" /\ Alive(j) ~> ~Alive(j)

\* The same of a session that is running, call or listener.
DisconnectEndsSession ==
    \A d \in Disconnect, j \in Job :
        req[d] = "snap" /\ job[j] = "run" ~> ~Alive(j)
==============================================================================
