---------------------------- MODULE SecureChannel ----------------------------
(***************************************************************************)
(* One direction of onioncall.protocol.SecureChannel: the threads of one   *)
(* endpoint that call send() (a chat prompt, an audio upload, a closing    *)
(* disconnect), the byte stream between the endpoints, and the receive     *)
(* loop of the other endpoint.  The two directions use independent keys    *)
(* and counters and share only the life of the socket.                     *)
(*                                                                         *)
(* A message stands for its type and payload.  Encryption is symbolic: a   *)
(* frame is intact when its bytes are those the sender sealed, and only an *)
(* intact frame passes decrypt() under the nonce of its own sequence.      *)
(***************************************************************************)
EXTENDS Naturals, Sequences, FiniteSets

CONSTANTS
    Thread,      \* the sending endpoint's threads
    Msg,         \* messages a thread may try to send
    TooLarge,    \* those beyond the limit of their type (TYPE_LIMITS)
    Window,      \* frames the socket buffers between the endpoints hold
    MaxSeals,    \* bound: frames encrypted in a behaviour
    MaxFaults,   \* bound: frames touched on the way in a behaviour
    None         \* not a thread, not a message

ASSUME ThreadAssumption == IsFiniteSet(Thread) /\ None \notin Thread
ASSUME MsgAssumption == TooLarge \subseteq Msg /\ None \notin Msg
ASSUME BoundAssumption == Window \in Nat /\ MaxSeals \in Nat /\ MaxFaults \in Nat

VARIABLES
    pc,          \* pc[t]: where t is in send()
    cur,         \* cur[t]: the message t is sending
    seq,         \* seq[t]: the sequence t read from _send_sequence
    lock,        \* the thread that holds _send_lock
    sendSeq,     \* _send_sequence
    wire,        \* the frames on their way
    linkUp,      \* the socket still takes bytes
    receiver,    \* where the receive loop is
    recvSeq,     \* _receive_sequence
    delivered,   \* history: the messages receive() returned
    sealed,      \* history: what was encrypted, and under which sequence
    sent,        \* history: the frames sendall() wrote to the end
    torn,        \* history: the frames sendall() wrote in part
    faults       \* number of frames touched on the way

sender  == <<pc, cur, seq, lock, sendSeq>>
loop    == <<receiver, recvSeq, delivered>>
history == <<sealed, sent, torn>>
vars == <<sender, wire, linkUp, loop, history, faults>>

Sealed == [seq : Nat, msg : Msg]
Frame == [seq : Nat, msg : Msg,
          header : {"ok", "long", "bad"},  \* long: claims a larger ciphertext
          intact : BOOLEAN,
          whole : BOOLEAN]                 \* FALSE: the stream ends inside it

FrameOf(s) == [seq |-> s.seq, msg |-> s.msg, header |-> "ok",
               intact |-> TRUE, whole |-> TRUE]

Mine(t) == [seq |-> seq[t], msg |-> cur[t]]
Waiting == {t \in Thread : pc[t] = "waiting"}
Ended == receiver \in {"eof", "error"}

Init ==
    /\ pc = [t \in Thread |-> "idle"]
    /\ cur = [t \in Thread |-> None]
    /\ seq = [t \in Thread |-> 0]
    /\ lock = None
    /\ sendSeq = 0 /\ recvSeq = 0
    /\ wire = <<>>
    /\ linkUp = TRUE
    /\ receiver = "header"
    /\ delivered = <<>>
    /\ sealed = <<>> /\ sent = <<>> /\ torn = {}
    /\ faults = 0

------------------------------------------------------------------------------
(* send().                                                                  *)

\* Mutant: the size limit is not checked before sending.
AnyMessage == Msg
Sendable == Msg \ TooLarge

HoldMessage(t, m) == cur' = [cur EXCEPT ![t] = m]

\* A message beyond its limit raises ProtocolError and changes nothing.
BeginSend(t, m) ==
    /\ pc[t] = "idle"
    /\ m \in Sendable
    /\ Len(sealed) + Cardinality(Waiting) < MaxSeals
    /\ pc' = [pc EXCEPT ![t] = "waiting"]
    /\ HoldMessage(t, m)
    /\ UNCHANGED <<seq, lock, sendSeq, wire, linkUp, loop, history, faults>>

LockFree == lock = None

\* _send_lock is taken, the sequence read and the frame encrypted.
Seal(t) ==
    /\ pc[t] = "waiting"
    /\ LockFree
    /\ lock' = t
    /\ seq' = [seq EXCEPT ![t] = sendSeq]
    /\ sealed' = Append(sealed, [seq |-> sendSeq, msg |-> cur[t]])
    /\ pc' = [pc EXCEPT ![t] = "sealed"]
    /\ UNCHANGED <<cur, sendSeq, wire, linkUp, loop, sent, torn, faults>>

\* Mutant: the lock is not released when sendall() raises.
LeaveLocked(t) == pc' = [pc EXCEPT ![t] = "idle"] /\ UNCHANGED <<cur, seq, lock>>
Leave(t) ==
    /\ pc' = [pc EXCEPT ![t] = "idle"]
    /\ lock' = None
    /\ UNCHANGED <<cur, seq>>

\* sendall() returns, the counter advances and the lock is released.  The
\* receiver may read the frame earlier; the counter is read under the lock.
SendAllOk(t) ==
    /\ pc[t] = "sealed" /\ linkUp
    /\ Len(wire) < Window
    /\ wire' = Append(wire, FrameOf(Mine(t)))
    /\ sent' = Append(sent, Mine(t))
    /\ sendSeq' = sendSeq + 1
    /\ Leave(t)
    /\ UNCHANGED <<linkUp, loop, sealed, torn, faults>>

\* Mutant: the socket keeps the handshake's timeout, so sendall() can give up
\* in the middle of a frame on a connection that lives on.
TimesOut == linkUp' = linkUp
Breaks == linkUp' = FALSE

\* The connection breaks while sendall() is inside a frame: OSError leaves the
\* lock, _send_sequence stays as it was.  The socket has no timeout any more,
\* so this is the only way to fail in the middle.
SendAllTorn(t) ==
    /\ pc[t] = "sealed" /\ linkUp
    /\ wire' = Append(wire, [FrameOf(Mine(t)) EXCEPT !.whole = FALSE])
    /\ torn' = torn \cup {Mine(t)}
    /\ Breaks
    /\ Leave(t)
    /\ UNCHANGED <<sendSeq, loop, sealed, sent, faults>>

\* sendall() on a socket that is closed or reset writes nothing.
SendAllFails(t) ==
    /\ pc[t] = "sealed" /\ ~linkUp
    /\ Leave(t)
    /\ UNCHANGED <<sendSeq, wire, linkUp, loop, history, faults>>

------------------------------------------------------------------------------
(* receive().                                                               *)

\* Mutant: the sequence in the header is not compared with the counter.
HeaderFineAnySequence(f) == f.header # "bad" /\ f.msg \notin TooLarge
HeaderFine(f) == f.header # "bad" /\ f.seq = recvSeq /\ f.msg \notin TooLarge

\* Mutant: the receiver waits for bytes beyond the frame it needs.
HeaderHereLate == Len(wire) > 1 /\ Head(wire).whole
HeaderHere == wire # <<>> /\ Head(wire).whole

\* Version, sequence, size and type are checked before the ciphertext is read.
ReadHeader ==
    /\ receiver = "header"
    /\ HeaderHere
    /\ receiver' = IF HeaderFine(Head(wire)) THEN "body" ELSE "error"
    /\ UNCHANGED <<sender, wire, linkUp, recvSeq, delivered, history, faults>>

Decrypts(f) == f.whole /\ f.intact

NextSequence == recvSeq + 1

\* decrypt() accepts; the counter advances and the message is returned.
Deliver ==
    /\ receiver = "body"
    /\ wire # <<>> /\ Decrypts(Head(wire))
    /\ delivered' = Append(delivered, Head(wire).msg)
    /\ recvSeq' = NextSequence
    /\ wire' = Tail(wire)
    /\ receiver' = "header"
    /\ UNCHANGED <<sender, linkUp, history, faults>>

\* decrypt() raises InvalidTag.  A header that claims too long a ciphertext
\* keeps recv_exact() waiting until bytes of a following frame fill it up.
Reject ==
    /\ receiver = "body"
    /\ wire # <<>> /\ Head(wire).whole /\ ~Head(wire).intact
    /\ Head(wire).header = "long" => Len(wire) > 1
    /\ receiver' = "error"
    /\ UNCHANGED <<sender, wire, linkUp, recvSeq, delivered, history, faults>>

\* recv() returns no bytes: between two frames or in the middle of one.
Eof ==
    /\ ~Ended
    /\ ~linkUp
    /\ \/ wire = <<>>
       \/ wire # <<>> /\ ~Head(wire).whole
       \/ receiver = "body" /\ Len(wire) = 1 /\ Head(wire).header = "long"
    /\ receiver' = "eof"
    /\ UNCHANGED <<sender, wire, linkUp, recvSeq, delivered, history, faults>>

------------------------------------------------------------------------------
(* close() at either end, and the network, which may damage frames.         *)

\* close() of either endpoint or a network failure: no more bytes are taken,
\* and of those on their way only some still arrive.
Cut ==
    /\ linkUp
    /\ linkUp' = FALSE
    /\ \E n \in 0 .. Len(wire) : wire' = SubSeq(wire, 1, n)
    /\ UNCHANGED <<sender, loop, history, faults>>

\* A session whose receive loop has ended closes its channel.
CloseEnded ==
    /\ Ended /\ linkUp
    /\ linkUp' = FALSE
    /\ wire' = <<>>
    /\ UNCHANGED <<sender, loop, history, faults>>

\* One more frame is touched; the receiver has not read its header yet.
Touch(i) ==
    /\ faults < MaxFaults /\ linkUp
    /\ i = 1 => receiver = "header"
    /\ faults' = faults + 1
    /\ UNCHANGED <<sender, linkUp, loop, history>>

Tamper(i, header, n) ==
    /\ i \in DOMAIN wire
    /\ Touch(i)
    /\ wire' = [wire EXCEPT ![i] = [@ EXCEPT !.header = header, !.seq = n,
                                            !.intact = FALSE]]

Remove(i) ==
    /\ i \in DOMAIN wire
    /\ Touch(i)
    /\ wire' = SubSeq(wire, 1, i - 1) \o SubSeq(wire, i + 1, Len(wire))

Replay(i) ==
    /\ i \in DOMAIN sent
    /\ Touch(Len(wire) + 1)
    /\ Len(wire) < Window
    /\ wire' = Append(wire, FrameOf(sent[i]))

------------------------------------------------------------------------------
SendStep(t) == Seal(t) \/ SendAllOk(t) \/ SendAllTorn(t) \/ SendAllFails(t)

ReceiveStep == ReadHeader \/ Deliver \/ Reject \/ Eof

Disturbance ==
    \/ \E i \in DOMAIN wire, h \in {"ok", "long", "bad"}, n \in 0 .. MaxSeals :
          Tamper(i, h, n)
    \/ \E i \in DOMAIN wire : Remove(i)
    \/ \E i \in DOMAIN sent : Replay(i)

\* Nothing is left to do: the channel is closed and no thread is inside it.
Quiet ==
    /\ Ended /\ ~linkUp
    /\ \A t \in Thread : pc[t] = "idle"
    /\ Len(sealed) = MaxSeals

Next ==
    \/ \E t \in Thread, m \in Msg : BeginSend(t, m)
    \/ \E t \in Thread : SendStep(t)
    \/ ReceiveStep
    \/ Cut
    \/ CloseEnded
    \/ Disturbance
    \/ Quiet /\ UNCHANGED vars

Spec == Init /\ [][Next]_vars

\* Threads inside send() and the receive loop run on; a session that is over
\* closes its channel.  Nothing is assumed of callers or of the network.
Fairness ==
    /\ \A t \in Thread : WF_vars(SendStep(t))
    /\ WF_vars(ReceiveStep)
    /\ WF_vars(CloseEnded)

FairSpec == Spec /\ Fairness

------------------------------------------------------------------------------
(* Properties.                                                              *)

\* Every variable has its type.
TypeOK ==
    /\ pc \in [Thread -> {"idle", "waiting", "sealed"}]
    /\ cur \in [Thread -> Msg \cup {None}]
    /\ \A t \in Thread : pc[t] # "idle" => cur[t] \in Msg
    /\ seq \in [Thread -> Nat]
    /\ lock \in Thread \cup {None}
    /\ sendSeq \in Nat
    /\ wire \in Seq(Frame)
    /\ linkUp \in BOOLEAN
    /\ receiver \in {"header", "body", "eof", "error"}
    /\ recvSeq \in Nat
    /\ delivered \in Seq(Msg)
    /\ sealed \in Seq(Sealed)
    /\ sent \in Seq(Sealed)
    /\ torn \subseteq Sealed
    /\ faults \in Nat

\* What receive() returned is a prefix of what send() wrote: no loss in the
\* middle, no duplicate, no reordering and no forgery gets through, whatever
\* happens to the frames on their way and however the senders interleave.
DeliveredIsPrefix ==
    /\ Len(delivered) <= Len(sent)
    /\ \A i \in DOMAIN delivered : delivered[i] = sent[i].msg

\* No two frames of which bytes reached the socket carry the same sequence,
\* not even when one of them was written only in part.
WireSequencesDistinct ==
    /\ \A i, j \in DOMAIN sent : sent[i].seq = sent[j].seq => i = j
    /\ \A f \in torn, i \in DOMAIN sent : f.seq # sent[i].seq
    /\ \A f, g \in torn : f.seq = g.seq => f = g

\* Two correct endpoints never end a session "for security reasons" on their
\* own: the receiver rejects a frame only if somebody touched one.
HonestTrafficAccepted == receiver = "error" => faults > 0

\* Sequences and nonces are not used twice: each encryption has its own.  The
\* code does not keep this promise (README, section 6).
NonceUsedOnce ==
    \A i, j \in DOMAIN sealed : sealed[i].seq = sealed[j].seq => i = j

\* A thread inside send() comes out again: it is not left behind in sendall()
\* on a full buffer when the other side has stopped reading for good.
SendReturns == \A t \in Thread : pc[t] # "idle" ~> pc[t] = "idle"

\* What was sent on an untouched connection that stays up is received.
SentIsDelivered ==
    \A n \in 1 .. MaxSeals :
        Len(sent) >= n ~> Len(delivered) >= n \/ ~linkUp \/ faults > 0

Fifo == INSTANCE FifoChannel WITH
    sent <- [i \in DOMAIN sent |-> sent[i].msg],
    over <- Ended

\* Counters, lock and checks implement the first-in first-out promise.
ImplementsFifo == Fifo!Spec
==============================================================================
