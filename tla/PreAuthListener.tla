-------------------------- MODULE PreAuthListener --------------------------
(***************************************************************************)
(* onioncall.listener.accept_authenticated: one main thread that accepts   *)
(* sockets, one worker thread per admitted socket that runs the server     *)
(* handshake, a shared set of pending sockets, a queue for the winner and  *)
(* a done flag.  A step is one critical section, one blocking call or one  *)
(* access to shared state; everything between two of those is local to a   *)
(* thread.  The handshake is reduced to its outcome (module Handshake has  *)
(* its messages).                                                          *)
(***************************************************************************)
EXTENDS Integers, Sequences, FiniteSets

CONSTANTS
    Conn,        \* the connections that may arrive
    Trusted,     \* those whose peer holds the shared secret and the pinned key
    Prompt,      \* trusted ones whose messages all arrive within the timeout
    MaxPending,  \* max_pending
    None         \* not a connection

ASSUME ConnAssumption == IsFiniteSet(Conn) /\ None \notin Conn
ASSUME PeerAssumption == Prompt \subseteq Trusted /\ Trusted \subseteq Conn
ASSUME PendingAssumption == MaxPending \in 1 .. 32

VARIABLES
    main,        \* where the calling thread is
    handled,     \* the socket accept() returned, not yet admitted or refused
    toClose,     \* the snapshot close_pending is working through
    returned,    \* the channel taken from the queue
    outcome,     \* how the call will end: "returned" or "raised"
    active,      \* the set of pending sockets, guarded by lock
    result,      \* the queue of authenticated channels
    done,        \* the event that ends the race
    winnerLock,  \* the worker that holds winner_lock
    worker,      \* worker[c]: where c's thread is
    sock,        \* sock[c]: the state of the listener's socket for c
    stopEvent,   \* the caller's stop_event
    listening,   \* the listening socket is open
    queued       \* history: the connections whose channel was put in result

call  == <<handled, toClose, returned, outcome>>
race  == <<result, done, winnerLock, queued>>
conns == <<active, worker, sock>>
env   == <<stopEvent, listening>>
vars  == <<main, call, race, conns, env>>

MainStates == {"poll", "stopcheck", "accept", "admit", "settle", "closing",
               "finally", "finalClosing", "returned", "raised"}
WorkerStates == {"none", "handshake", "authenticated", "winning", "leaving",
                 "ended"}
SockStates == {"absent", "backlog", "open", "closed"}

Init ==
    /\ main = "poll"
    /\ handled = None /\ toClose = {} /\ returned = None
    /\ outcome = "returned"
    /\ active = {}
    /\ result = <<>>
    /\ done = FALSE
    /\ winnerLock = None
    /\ worker = [c \in Conn |-> "none"]
    /\ sock = [c \in Conn |-> "absent"]
    /\ stopEvent = FALSE
    /\ listening = TRUE
    /\ queued = {}

Close(c) == sock' = [sock EXCEPT ![c] = "closed"]

------------------------------------------------------------------------------
(* The calling thread.                                                      *)

\* result.get_nowait() finds a channel: done is set and the others are closed.
TakeChannel ==
    /\ main = "poll" /\ result # <<>>
    /\ returned' = Head(result)
    /\ result' = Tail(result)
    /\ done' = TRUE
    /\ outcome' = "returned"
    /\ main' = "settle"
    /\ UNCHANGED <<handled, toClose, winnerLock, queued, conns, env>>

FindNoChannel ==
    /\ main = "poll" /\ result = <<>>
    /\ main' = "stopcheck"
    /\ UNCHANGED <<call, race, conns, env>>

ObserveStop ==
    /\ main = "stopcheck" /\ stopEvent
    /\ done' = TRUE
    /\ outcome' = "raised"
    /\ main' = "settle"
    /\ UNCHANGED <<handled, toClose, returned, result, winnerLock, queued, conns,
                   env>>

\* accept() on a listener that was closed meanwhile raises at once.
EnterAccept ==
    /\ main = "stopcheck" /\ ~stopEvent
    /\ IF listening
         THEN main' = "accept" /\ UNCHANGED outcome
         ELSE main' = "finally" /\ outcome' = "raised"
    /\ UNCHANGED <<handled, toClose, returned, race, conns, env>>

Accept(c) ==
    /\ main = "accept" /\ sock[c] = "backlog"
    /\ sock' = [sock EXCEPT ![c] = "open"]
    /\ handled' = c
    /\ main' = "admit"
    /\ UNCHANGED <<toClose, returned, outcome, race, active, worker, env>>

\* Mutant: after a timeout accept() is called again, stop_event is not read.
RetryAccept == "accept"
AfterTimeout == "poll"

AcceptTimeout ==
    /\ main = "accept"
    /\ \A c \in Conn : sock[c] # "backlog"
    /\ main' = AfterTimeout
    /\ UNCHANGED <<call, race, conns, env>>

\* Any other OSError of accept() leaves the loop through the finally clause.
\* It need not happen, so Fairness does not ask for it.
AcceptError ==
    /\ main = "accept"
    /\ outcome' = "raised"
    /\ main' = "finally"
    /\ UNCHANGED <<handled, toClose, returned, race, conns, env>>

\* Mutant: the limit is compared with > instead of >=.
FullOffByOne == Cardinality(active) > MaxPending
Full == Cardinality(active) >= MaxPending

\* Under lock: refuse above max_pending, else register the socket; the
\* worker thread is started before the loop goes on.
Admit ==
    /\ main = "admit"
    /\ IF Full
         THEN Close(handled) /\ UNCHANGED <<active, worker>>
         ELSE /\ active' = active \cup {handled}
              /\ worker' = [worker EXCEPT ![handled] = "handshake"]
              /\ UNCHANGED sock
    /\ handled' = None
    /\ main' = "poll"
    /\ UNCHANGED <<toClose, returned, outcome, race, env>>

\* close_pending(except_socket): the snapshot, taken under lock ...
Settle ==
    /\ main = "settle"
    /\ toClose' = active \ {returned}
    /\ main' = "closing"
    /\ UNCHANGED <<handled, returned, outcome, race, conns, env>>

\* ... the finally clause's close_pending(), which spares nobody ...
Finally ==
    /\ main = "finally"
    /\ done' = TRUE
    /\ toClose' = active
    /\ main' = "finalClosing"
    /\ UNCHANGED <<handled, returned, outcome, result, winnerLock, queued, conns,
                   env>>

\* ... and the loop that shuts the snapshot's sockets down, without lock.
CloseOne(c) ==
    /\ main \in {"closing", "finalClosing"}
    /\ c \in toClose
    /\ toClose' = toClose \ {c}
    /\ Close(c)
    /\ UNCHANGED <<main, handled, returned, outcome, race, active, worker, env>>

AfterClosing == IF main = "closing" THEN "finally" ELSE outcome

CloseDone ==
    /\ main \in {"closing", "finalClosing"}
    /\ toClose = {}
    /\ main' = AfterClosing
    /\ UNCHANGED <<call, race, conns, env>>

------------------------------------------------------------------------------
(* The worker of connection c.                                              *)

Goto(c, step) == worker' = [worker EXCEPT ![c] = step]

\* perform_server_handshake ends well; its finally clause restores the
\* socket's timeout and so fails on a socket that was closed meanwhile.
HandshakeOk(c) ==
    /\ worker[c] = "handshake"
    /\ c \in Trusted
    /\ sock[c] = "open"
    /\ Goto(c, "authenticated")
    /\ UNCHANGED <<main, call, race, active, sock, env>>

\* Mutant: a worker whose handshake failed leaves its socket open.
KeepFailed(c) == UNCHANGED sock
CloseFailed(c) == Close(c)

\* AuthenticationError, OSError or EOFError: bad proof, timeout, closed socket.
HandshakeFail(c) ==
    /\ worker[c] = "handshake"
    /\ c \in Prompt => sock[c] = "closed"
    /\ CloseFailed(c)
    /\ Goto(c, "leaving")
    /\ UNCHANGED <<main, call, race, active, env>>

\* Mutant: the loser returns without closing its channel.
KeepLoser(c) == UNCHANGED sock
CloseLoser(c) == Close(c)

\* Under winner_lock: done is set, the channel is closed.
LoseRace(c) ==
    /\ worker[c] = "authenticated"
    /\ winnerLock = None /\ done
    /\ CloseLoser(c)
    /\ Goto(c, "leaving")
    /\ UNCHANGED <<main, call, race, active, env>>

\* Mutant: done is read without holding winner_lock.
RaceOpenUnlocked == ~done
RaceOpen == winnerLock = None /\ ~done

\* Under winner_lock: done is not set yet; the lock is kept.
EnterRace(c) ==
    /\ worker[c] = "authenticated"
    /\ RaceOpen
    /\ winnerLock' = c
    /\ Goto(c, "winning")
    /\ UNCHANGED <<main, call, result, done, queued, active, sock, env>>

\* Mutant: done is set but the channel does not reach the queue.
LoseChannel(c) == UNCHANGED <<result, queued>>
PutChannel(c) ==
    /\ result' = Append(result, c)
    /\ queued' = queued \cup {c}

\* done.set(); result.put(channel); winner_lock is released.
WinRace(c) ==
    /\ worker[c] = "winning"
    /\ done' = TRUE
    /\ PutChannel(c)
    /\ winnerLock' = None
    /\ Goto(c, "leaving")
    /\ UNCHANGED <<main, call, active, sock, env>>

\* The worker's finally clause.
Discard(c) ==
    /\ worker[c] = "leaving"
    /\ active' = active \ {c}
    /\ Goto(c, "ended")
    /\ UNCHANGED <<main, call, race, sock, env>>

------------------------------------------------------------------------------
(* The environment: peers, the caller's other threads, the interpreter.     *)

Arrive(c) ==
    /\ sock[c] = "absent" /\ listening
    /\ main \notin {"returned", "raised"}
    /\ sock' = [sock EXCEPT ![c] = "backlog"]
    /\ UNCHANGED <<main, call, race, active, worker, env>>

\* GuiController.disconnect sets the event ...
RequestStop ==
    /\ ~stopEvent
    /\ stopEvent' = TRUE
    /\ UNCHANGED <<main, call, race, conns, listening>>

\* ... and closes the listener, which resets what waits in its backlog.
CloseListener ==
    /\ stopEvent /\ listening
    /\ listening' = FALSE
    /\ sock' = [c \in Conn |-> IF sock[c] = "backlog" THEN "closed" ELSE sock[c]]
    /\ UNCHANGED <<main, call, race, active, worker, stopEvent>>

\* A channel nobody took is closed when the queue that holds it is freed.
Release ==
    /\ main = "raised"
    /\ result # <<>>
    /\ worker[Head(result)] = "ended"
    /\ Close(Head(result))
    /\ result' = Tail(result)
    /\ UNCHANGED <<main, call, done, winnerLock, queued, active, worker, env>>

------------------------------------------------------------------------------
MainStep ==
    \/ TakeChannel \/ FindNoChannel \/ ObserveStop \/ EnterAccept
    \/ AcceptTimeout \/ Admit \/ Settle \/ Finally \/ CloseDone
    \/ \E c \in Conn : Accept(c) \/ CloseOne(c)

WorkerStep(c) ==
    \/ HandshakeOk(c) \/ HandshakeFail(c) \/ LoseRace(c) \/ EnterRace(c)
    \/ WinRace(c) \/ Discard(c)

Environment ==
    \/ RequestStop \/ CloseListener \/ AcceptError
    \/ \E c \in Conn : Arrive(c)

\* The call has ended and so have its workers.
Quiet ==
    /\ main \in {"returned", "raised"}
    /\ \A c \in Conn : worker[c] \in {"none", "ended"}

Next ==
    \/ MainStep
    \/ \E c \in Conn : WorkerStep(c)
    \/ Environment
    \/ Release
    \/ Quiet /\ UNCHANGED vars

Spec == Init /\ [][Next]_vars

\* Threads that can run do run; accept() and recv() carry timeouts, so no
\* call blocks for ever.  Nothing is assumed of peers or of the user.
Fairness ==
    /\ WF_vars(MainStep)
    /\ \A c \in Conn : WF_vars(WorkerStep(c))
    /\ WF_vars(Release)

FairSpec == Spec /\ Fairness
------------------------------------------------------------------------------
(* Properties.                                                              *)

\* Every variable has its type; a call that returns has a channel to return.
TypeOK ==
    /\ main \in MainStates
    /\ handled \in Conn \cup {None}
    /\ main = "admit" => handled \in Conn
    /\ toClose \subseteq Conn
    /\ returned \in Conn \cup {None}
    /\ main = "returned" => returned \in Conn
    /\ outcome \in {"returned", "raised"}
    /\ active \subseteq Conn
    /\ result \in Seq(Conn)
    /\ done \in BOOLEAN
    /\ winnerLock \in Conn \cup {None}
    /\ worker \in [Conn -> WorkerStates]
    /\ sock \in [Conn -> SockStates]
    /\ stopEvent \in BOOLEAN
    /\ listening \in BOOLEAN
    /\ queued \subseteq Conn

\* However the workers interleave, and even when stop_event sets done behind
\* the back of winner_lock, at most one channel is ever put in the queue: a
\* second authenticated peer would be left with an open, unserved session.
OneWinner == \A c, d \in queued : c = d

\* Never more than max_pending sockets wait for authentication.
PendingBounded == Cardinality(active) <= MaxPending

Finished == main \in {"returned", "raised"}

\* When the call ends, every socket it accepted is closed except the returned
\* channel and one that is still inside the queue nobody will read again.
OthersClosed ==
    Finished => \A c \in Conn :
        sock[c] = "open" => c = returned \/ \E i \in DOMAIN result : result[i] = c

\* An admitted peer that authenticates within its timeout ends the wait, and
\* no number of idle or hostile sockets can keep the call from returning.
PromptPeerEndsTheWait ==
    \A c \in Prompt : worker[c] = "handshake" ~> Finished

\* A caller that sets stop_event gets the call back.
StopHonoured == stopEvent ~> Finished

\* After the call nothing leaks: every worker thread ends, and no socket but
\* the returned channel stays open, not even one authenticated during a stop.
NothingLeaks ==
    Finished ~> [](\A c \in Conn :
                      /\ worker[c] \in {"none", "ended"}
                      /\ sock[c] = "open" => c = returned)

\* The returned channel is usable: its socket has not been closed by the
\* listener ("all other pending sockets are closed").
ReturnedChannelOpen == main = "returned" => sock[returned] = "open"

\* What became of each connection, in the terms of AcceptOne.
Phase(c) ==
    CASE c \in queued                          -> "chosen"
      [] c \in active \ queued                 -> "pending"
      [] c \notin active \cup queued
         /\ (sock[c] \in {"absent", "backlog"} \/ c = handled) -> "new"
      [] OTHER                                 -> "gone"

Simple == INSTANCE AcceptOne WITH
    Capacity <- MaxPending,
    phase <- [c \in Conn |-> Phase(c)],
    outcome <- IF Finished THEN main ELSE "listening"

\* The threads, locks and flags implement the sequential promise.
ImplementsAcceptOne == Simple!Spec
==============================================================================
