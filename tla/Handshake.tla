------------------------------ MODULE Handshake ------------------------------
(***************************************************************************)
(* onioncall.protocol.perform_client_handshake and                         *)
(* perform_server_handshake over onioncall.crypto, with symbolic           *)
(* cryptography.  A session is one call of one of the two functions on one *)
(* connection.  Its ephemeral key and nonce are fresh, so both are named   *)
(* by the session; a signature or proof is what it was computed from, and  *)
(* nobody makes one without the key.  Messages of one connection may be    *)
(* lost, may turn up late or repeatedly on another one, and a hello may    *)
(* arrive changed.                                                         *)
(***************************************************************************)
EXTENDS Naturals, Sequences

CONSTANTS
    Session,     \* the handshakes of a run
    Identity,    \* long-term identity keys, one per device
    Secret,      \* the shared secrets of the contacts
    Role,        \* Role[s]: which of the two functions s runs
    Id,          \* Id[s]: the identity of the device that runs s
    Psk,         \* Psk[s]: the secret s was started with
    Pin,         \* Pin[s]: the fingerprint s expects, or Absent
    Reads,       \* Reads[s]: the sessions whose messages may reach s
    WrongKeys,   \* bound: keys that may replace the key of a hello
    MaxChanges,  \* bound: changed hellos in a behaviour
    Absent       \* no pin, no key, no part of a message

ASSUME RoleAssumption == Role \in [Session -> {"client", "server"}]
ASSUME CredentialAssumption ==
    /\ Id \in [Session -> Identity]
    /\ Psk \in [Session -> Secret]
    /\ Pin \in [Session -> Identity \cup {Absent}]
ASSUME WiringAssumption == Reads \in [Session -> SUBSET Session]
ASSUME ChangesAssumption == MaxChanges \in Nat /\ WrongKeys \subseteq Session \cup {Absent}

VARIABLES
    step,     \* step[s]: how far s is
    peer,     \* peer[s]: the hello s read from the other side
    channel,  \* channel[s]: the keys and the peer of the SecureChannel made
    net,      \* every message ever sent, as it may arrive
    changes   \* number of hellos changed on their way

handshakeVars == <<step, peer, channel, net, changes>>

Side == {"client", "server"}
Hello == [role : Side, key : Session \cup {Absent}, id : Identity]
Signed == [id : Identity, label : Side, text : Seq(Hello)]
Proved == [psk : Secret, label : Side, text : Seq(Hello)]
Message == [from : Session, hello : Hello \cup {Absent},
            sig : Signed \cup {Absent}, proof : Proved \cup {Absent}]
Key == [from : Side, of : [keys : SUBSET (Session \cup {Absent}), psk : Secret,
                           salt : Seq(Hello)]]
Channel == [send : Key, receive : Key, peer : Identity]

ASSUME AbsentAssumption ==
    Absent \notin Session \cup Identity \cup Hello \cup Signed \cup Channel

\* make_hello.
HelloOf(s) == [role |-> Role[s], key |-> s, id |-> Id[s]]

HandshakeInit ==
    /\ step = [s \in Session |-> "start"]
    /\ peer = [s \in Session |-> Absent]
    /\ channel = [s \in Session |-> Absent]
    /\ net = {}
    /\ changes = 0

------------------------------------------------------------------------------
(* crypto.py.                                                               *)

\* Mutant: the transcript is the client's hello alone.
ClientHelloOnly(s, hello) ==
    IF Role[s] = "client" THEN <<HelloOf(s)>> ELSE <<hello>>
\* client_hello + server_hello, whichever of the two is one's own.
Transcript(s, hello) ==
    IF Role[s] = "client" THEN <<HelloOf(s), hello>> ELSE <<hello, HelloOf(s)>>

\* identity.private.sign(label + transcript) and proof(psk, label, transcript).
Signature(s, hello) ==
    [id |-> Id[s], label |-> Role[s], text |-> Transcript(s, hello)]
Proof(s, hello) ==
    [psk |-> Psk[s], label |-> Role[s], text |-> Transcript(s, hello)]

Other(role) == IF role = "client" THEN "server" ELSE "client"

\* Mutant: the pinned fingerprint is not compared.
AnyIdentity(s, id) == TRUE
\* _verify_peer_identity.
PinFits(s, id) == Pin[s] \in {Absent, id}

SignatureFits(s, hello, sig) ==
    sig = [id |-> hello.id, label |-> Other(Role[s]), text |-> Transcript(s, hello)]

\* Mutant: the proof is compared with one's own, label included.
OwnProof(s, hello, proof) == proof = Proof(s, hello)
\* verify_proof.
ProofFits(s, hello, proof) ==
    proof = [psk |-> Psk[s], label |-> Other(Role[s]), text |-> Transcript(s, hello)]

Authentic(s, hello, m) ==
    /\ PinFits(s, hello.id)
    /\ SignatureFits(s, hello, m.sig)
    /\ ProofFits(s, hello, m.proof)

\* derive_keys: the shared secret is that of the two ephemeral keys.
Material(s, hello) ==
    [keys |-> {s, hello.key}, psk |-> Psk[s], salt |-> Transcript(s, hello)]

\* Mutant: the flag client is ignored, both sides send with the same key.
SameSendKey(s, hello) == [from |-> "client", of |-> Material(s, hello)]
SendKey(s, hello) == [from |-> Role[s], of |-> Material(s, hello)]
ReceiveKey(s, hello) == [from |-> Other(Role[s]), of |-> Material(s, hello)]

------------------------------------------------------------------------------
(* The two functions.                                                       *)

Send(m) == net' = net \cup {m}
Goto(s, from, to) == step[s] = from /\ step' = [step EXCEPT ![s] = to]

Arrives(s, m) == m.from \in Reads[s]

OpenChannel(s, hello) ==
    channel' = [channel EXCEPT ![s] = [send |-> SendKey(s, hello),
                                       receive |-> ReceiveKey(s, hello),
                                       peer |-> hello.id]]

\* The client sends its hello.
SendHello(s) ==
    /\ Role[s] = "client"
    /\ Goto(s, "start", "waiting")
    /\ Send([from |-> s, hello |-> HelloOf(s), sig |-> Absent, proof |-> Absent])
    /\ UNCHANGED <<peer, channel, changes>>

\* The server reads a hello and answers it with its own, signed and proved.
AnswerHello(s, m) ==
    /\ Role[s] = "server"
    /\ Goto(s, "start", "waiting")
    /\ Arrives(s, m) /\ m.hello # Absent
    /\ m.hello.role = "client"
    /\ peer' = [peer EXCEPT ![s] = m.hello]
    /\ Send([from |-> s, hello |-> HelloOf(s), sig |-> Signature(s, m.hello),
             proof |-> Proof(s, m.hello)])
    /\ UNCHANGED <<channel, changes>>

SendFinish(s, hello) ==
    Send([from |-> s, hello |-> Absent, sig |-> Signature(s, hello),
          proof |-> Proof(s, hello)])

\* The client verifies the answer, sends its own part and has its channel.
ClientAccepts(s, m) ==
    /\ Role[s] = "client"
    /\ Goto(s, "waiting", "done")
    /\ Arrives(s, m) /\ m.hello # Absent
    /\ m.hello.role = "server"
    /\ Authentic(s, m.hello, m)
    /\ peer' = [peer EXCEPT ![s] = m.hello]
    /\ OpenChannel(s, m.hello)
    /\ SendFinish(s, m.hello)
    /\ UNCHANGED changes

\* The server verifies the client's part and has its channel.
ServerAccepts(s, m) ==
    /\ Role[s] = "server"
    /\ Goto(s, "waiting", "done")
    /\ Arrives(s, m) /\ m.hello = Absent
    /\ Authentic(s, peer[s], m)
    /\ OpenChannel(s, peer[s])
    /\ UNCHANGED <<peer, net, changes>>

\* The side that reads a hello next.
HelloDue(s) == step[s] = IF Role[s] = "client" THEN "waiting" ELSE "start"

\* What parse_hello, the pin, the signature or the proof do not allow.
Unacceptable(s, m) ==
    \/ m.hello # Absent /\ HelloDue(s) /\ m.hello.role = Role[s]
    \/ m.hello # Absent /\ HelloDue(s) /\ Role[s] = "client" /\ ~Authentic(s, m.hello, m)
    \/ m.hello = Absent /\ Role[s] = "server" /\ step[s] = "waiting"
         /\ ~Authentic(s, peer[s], m)

\* AuthenticationError: the other side's bytes are complete but not acceptable.
Refuse(s, m) ==
    /\ Arrives(s, m)
    /\ Unacceptable(s, m)
    /\ step' = [step EXCEPT ![s] = "failed"]
    /\ UNCHANGED <<peer, channel, net, changes>>

------------------------------------------------------------------------------
(* The environment.                                                         *)

\* A timeout, an end of file, a closed socket or bytes out of step.  (A
\* server that times out before its first hello just stays at its start.)
Abort(s) ==
    /\ Goto(s, "waiting", "aborted")
    /\ UNCHANGED <<peer, channel, net, changes>>

\* A hello arrives with another key or another identity in it.
Change(m, key, id) ==
    /\ changes < MaxChanges
    /\ m.hello # Absent
    /\ Send([m EXCEPT !.hello = [@ EXCEPT !.key = key, !.id = id]])
    /\ changes' = changes + 1
    /\ UNCHANGED <<step, peer, channel>>

------------------------------------------------------------------------------
Proceed(s) ==
    \/ SendHello(s)
    \/ \E m \in net : AnswerHello(s, m) \/ ClientAccepts(s, m)
                          \/ ServerAccepts(s, m) \/ Refuse(s, m)

\* Every handshake that has begun has come to its end.
HandshakeQuiet == \A s \in Session : step[s] # "waiting"

HandshakeNext ==
    \/ \E s \in Session : Proceed(s) \/ Abort(s)
    \/ \E m \in net, id \in Identity : \E key \in WrongKeys : Change(m, key, id)
    \/ HandshakeQuiet /\ UNCHANGED handshakeVars

HandshakeSpec == HandshakeInit /\ [][HandshakeNext]_handshakeVars

\* Each thread goes on when what it waits for has arrived.
HandshakeFairness == \A s \in Session : WF_handshakeVars(Proceed(s))
HandshakeFairSpec == HandshakeSpec /\ HandshakeFairness

------------------------------------------------------------------------------
(* Properties.                                                              *)

\* Every variable has its type; a channel exists exactly after a success.
HandshakeTypeOK ==
    /\ step \in [Session -> {"start", "waiting", "done", "failed", "aborted"}]
    /\ peer \in [Session -> Hello \cup {Absent}]
    /\ channel \in [Session -> Channel \cup {Absent}]
    /\ \A s \in Session : channel[s] # Absent <=> step[s] = "done"
    /\ net \subseteq Message
    /\ changes \in Nat

\* What one endpoint sends the other one can read.
Linked(s, t) ==
    /\ channel[s].send = channel[t].receive
    /\ channel[s].receive = channel[t].send

\* A server that has a channel shares it with a client that has finished too:
\* same secret, the identity it pins, the same keys the other way round.
ServerAgrees ==
    \A s \in Session : Role[s] = "server" /\ step[s] = "done" =>
        \E c \in Session :
            /\ Role[c] = "client" /\ step[c] = "done"
            /\ Psk[c] = Psk[s] /\ Pin[s] \in {Absent, Id[c]}
            /\ channel[s].peer = Id[c] /\ channel[c].peer = Id[s]
            /\ Linked(s, c)

\* A client that has a channel has spoken to a server with the same secret
\* and the identity it pins, which answered this very hello; that server may
\* not have finished yet, but if it has, the two share their keys.
ClientAgrees ==
    \A c \in Session : Role[c] = "client" /\ step[c] = "done" =>
        \E s \in Session :
            /\ Role[s] = "server" /\ Psk[s] = Psk[c]
            /\ Pin[c] \in {Absent, Id[s]}
            /\ peer[s] = HelloOf(c) /\ peer[c] = HelloOf(s)
            /\ step[s] = "done" => Linked(c, s)

\* No two channels ever send under the same key, in whichever way hellos are
\* repeated or mixed up: sequences, and so nonces, start at 0 in each.
OneSenderPerKey ==
    \A s, t \in Session :
        /\ step[s] = "done" /\ step[t] = "done"
        /\ channel[s].send = channel[t].send
        => s = t

\* Two sessions on one connection of their own, with the right credentials.
GoodPair(c, s) ==
    /\ Role[c] = "client" /\ Role[s] = "server"
    /\ Reads[c] = {s} /\ Reads[s] = {c}
    /\ Psk[c] = Psk[s]
    /\ Pin[c] \in {Absent, Id[s]} /\ Pin[s] \in {Absent, Id[c]}

\* A client and a server with the right credentials on an untouched
\* connection both get a channel, unless a timeout comes first.
GoodPairCompletes ==
    \A c, s \in Session : GoodPair(c, s) =>
        (step[c] = "waiting"
            ~> \/ step[c] = "done" /\ step[s] = "done"
               \/ "aborted" \in {step[c], step[s]}
               \/ changes > 0)
==============================================================================
