--------------------------- MODULE Protocol_proofs ---------------------------
(***************************************************************************)
(* protocol.py: the channel a handshake opens, and the handshake.          *)
(***************************************************************************)
EXTENDS Handshake, SecureChannel, SequenceTheorems, TLAPS

------------------------------------------------------------------------------
(***************************************************************************)
(* The safety of one direction of a SecureChannel for any number of        *)
(* threads, messages, frames in flight and disturbances.  The inductive    *)
(* invariant says who may be inside send() (Sender), what a half written   *)
(* frame means (Torn), where the frames on the wire come from (Wire), what *)
(* the receiver has read (Reader), and how an untouched wire looks         *)
(* (Untouched).                                                            *)
(***************************************************************************)

------------------------------------------------------------------------------
(* Sequences.                                                               *)

\* What Append does to length and elements.
LEMMA AppendFacts ==
    ASSUME NEW S, NEW s \in Seq(S), NEW e \in S
    PROVE  /\ Append(s, e) \in Seq(S)
           /\ Len(Append(s, e)) = Len(s) + 1
           /\ \A i \in 1 .. Len(s) : Append(s, e)[i] = s[i]
           /\ Append(s, e)[Len(s) + 1] = e
  OBVIOUS

\* What Tail does to length and elements of a sequence that has some.
LEMMA TailFacts ==
    ASSUME NEW S, NEW s \in Seq(S), s # <<>>
    PROVE  /\ Head(s) \in S /\ Head(s) = s[1] /\ Len(s) > 0
           /\ Tail(s) \in Seq(S)
           /\ Len(Tail(s)) = Len(s) - 1
           /\ \A i \in 1 .. Len(Tail(s)) : Tail(s)[i] = s[i + 1]
  OBVIOUS

\* A prefix of a sequence.
LEMMA PrefixFacts ==
    ASSUME NEW S, NEW s \in Seq(S), NEW n \in 0 .. Len(s)
    PROVE  /\ SubSeq(s, 1, n) \in Seq(S)
           /\ Len(SubSeq(s, 1, n)) = n
           /\ \A i \in 1 .. n : SubSeq(s, 1, n)[i] = s[i]
  OBVIOUS

\* Taking out one element leaves elements of the sequence only.
LEMMA RemoveFacts ==
    ASSUME NEW S, NEW s \in Seq(S), NEW i \in 1 .. Len(s)
    PROVE  LET r == SubSeq(s, 1, i - 1) \o SubSeq(s, i + 1, Len(s)) IN
           /\ r \in Seq(S)
           /\ Len(r) = Len(s) - 1
           /\ \A k \in 1 .. Len(r) : r[k] = s[k] \/ r[k] = s[k + 1]
           /\ i # 1 => r[1] = s[1]
<1> DEFINE a == SubSeq(s, 1, i - 1)
           b == SubSeq(s, i + 1, Len(s))
<1>1. a \in Seq(S) /\ Len(a) = i - 1 /\ \A k \in 1 .. i - 1 : a[k] = s[k]
  OBVIOUS
<1>2. /\ b \in Seq(S) /\ Len(b) = Len(s) - i
      /\ \A k \in 1 .. Len(s) - i : b[k] = s[k + i]
  OBVIOUS
<1> HIDE DEF a, b
<1>3. a \o b \in Seq(S) /\ Len(a \o b) = Len(s) - 1
  <2>1. Len(a \o b) = Len(a) + Len(b) /\ a \o b \in Seq(S)
    BY <1>1, <1>2, ConcatProperties
  <2> QED
    BY <1>1, <1>2, <2>1
<1>4. ASSUME NEW k \in 1 .. Len(s) - 1
      PROVE  (a \o b)[k] = IF k <= i - 1 THEN s[k] ELSE s[k + 1]
  <2>1. k \in 1 .. Len(a) + Len(b)
    BY <1>1, <1>2
  <2>2. (a \o b)[k] = IF k <= Len(a) THEN a[k] ELSE b[k - Len(a)]
    BY <2>1, <1>1, <1>2, ConcatProperties
  <2>3. CASE k <= i - 1
    BY <2>2, <2>3, <1>1
  <2>4. CASE ~(k <= i - 1)
    <3>1. k - (i - 1) \in 1 .. Len(s) - i /\ (k - (i - 1)) + i = k + 1
      BY <2>4
    <3> QED
      BY <2>2, <2>4, <3>1, <1>1, <1>2
  <2> QED
    BY <2>3, <2>4
<1>5. i # 1 => 1 \in 1 .. Len(s) - 1 /\ 1 <= i - 1
  OBVIOUS
<1>6. i # 1 => (a \o b)[1] = s[1]
  BY <1>4, <1>5
<1>7. \A k \in 1 .. Len(a \o b) : (a \o b)[k] = s[k] \/ (a \o b)[k] = s[k + 1]
  BY <1>3, <1>4
<1> QED
  BY <1>3, <1>6, <1>7 DEF a, b

------------------------------------------------------------------------------
(* Types.                                                                   *)

\* The frame a thread has sealed is a well formed frame and record.
LEMMA MineTyped ==
    ASSUME TypeOK, NEW t \in Thread, pc[t] # "idle"
    PROVE  Mine(t) \in Sealed /\ FrameOf(Mine(t)) \in Frame
  BY DEF TypeOK, Mine, Sealed, FrameOf, Frame

\* Every step keeps every variable in its type.
THEOREM TypeNext == TypeOK /\ [Next]_vars => TypeOK'
<1> SUFFICES ASSUME TypeOK, [Next]_vars PROVE TypeOK'
  OBVIOUS
<1> USE DEF sender, loop, history
<1>1. ASSUME NEW t \in Thread, NEW m \in Msg, BeginSend(t, m) PROVE TypeOK'
  BY <1>1 DEF BeginSend, HoldMessage, TypeOK
<1>2. ASSUME NEW t \in Thread, SendStep(t) PROVE TypeOK'
  <2>1. CASE Seal(t)
    <3>1. [seq |-> sendSeq, msg |-> cur[t]] \in Sealed
      BY <2>1 DEF Seal, TypeOK, Sealed
    <3> QED
      BY <2>1, <3>1 DEF Seal, TypeOK
  <2>2. CASE SendAllOk(t)
    <3>1. wire' \in Seq(Frame) /\ sent' \in Seq(Sealed)
      BY <2>2, MineTyped DEF SendAllOk, TypeOK
    <3> QED
      BY <2>2, <3>1 DEF SendAllOk, Leave, TypeOK
  <2>3. CASE SendAllTorn(t)
    <3>1. Mine(t) \in Sealed /\ FrameOf(Mine(t)) \in Frame
      BY <2>3, MineTyped DEF SendAllTorn
    <3>2. [FrameOf(Mine(t)) EXCEPT !.whole = FALSE] \in Frame
      BY <3>1 DEF Frame
    <3>3. wire' \in Seq(Frame)
      BY <2>3, <3>2 DEF SendAllTorn, TypeOK
    <3> QED
      BY <2>3, <3>1, <3>3 DEF SendAllTorn, Breaks, Leave, TypeOK
  <2>4. CASE SendAllFails(t)
    BY <2>4 DEF SendAllFails, Leave, TypeOK
  <2> QED
    BY <1>2, <2>1, <2>2, <2>3, <2>4 DEF SendStep
<1>3. CASE ReceiveStep
  <2>1. CASE ReadHeader
    BY <2>1 DEF ReadHeader, TypeOK
  <2>2. CASE Deliver
    <3>1. Head(wire) \in Frame /\ Tail(wire) \in Seq(Frame)
      BY <2>2, TailFacts DEF Deliver, TypeOK
    <3>2. delivered' \in Seq(Msg)
      BY <2>2, <3>1 DEF Deliver, Frame, TypeOK
    <3> QED
      BY <2>2, <3>1, <3>2 DEF Deliver, NextSequence, TypeOK
  <2>3. CASE Reject \/ Eof
    BY <2>3 DEF Reject, Eof, TypeOK
  <2> QED
    BY <1>3, <2>1, <2>2, <2>3 DEF ReceiveStep
<1>4. CASE Cut
  <2>1. wire' \in Seq(Frame)
    BY <1>4, PrefixFacts DEF Cut, TypeOK
  <2> QED
    BY <1>4, <2>1 DEF Cut, TypeOK
<1>5. CASE CloseEnded
  <2>1. <<>> \in Seq(Frame)
    OBVIOUS
  <2> QED
    BY <1>5, <2>1 DEF CloseEnded, TypeOK
<1>6. CASE Disturbance
  <2>1. ASSUME NEW i \in DOMAIN wire, NEW h \in {"ok", "long", "bad"},
               NEW n \in 0 .. MaxSeals, Tamper(i, h, n)
        PROVE  TypeOK'
    <3>1. wire[i] \in Frame
      BY DEF TypeOK
    <3>2. [wire[i] EXCEPT !.header = h, !.seq = n, !.intact = FALSE] \in Frame
      <4>1. n \in Nat
        BY BoundAssumption
      <4> QED
        BY <3>1, <4>1 DEF Frame
    <3>3. wire' \in Seq(Frame)
      BY <2>1, <3>2 DEF Tamper, TypeOK
    <3> QED
      BY <2>1, <3>3 DEF Tamper, Touch, TypeOK
  <2>2. ASSUME NEW i \in DOMAIN wire, Remove(i) PROVE TypeOK'
    <3>1. /\ wire \in Seq(Frame)
          /\ i \in 1 .. Len(wire)
      BY DEF TypeOK
    <3>2. wire' = SubSeq(wire, 1, i - 1) \o SubSeq(wire, i + 1, Len(wire))
      BY <2>2 DEF Remove
    <3>3. wire' \in Seq(Frame)
      BY <3>1, <3>2, RemoveFacts
    <3>4. Touch(i)
      BY <2>2 DEF Remove
    <3> QED
      BY <3>3, <3>4 DEF Touch, TypeOK
  <2>3. ASSUME NEW i \in DOMAIN sent, Replay(i) PROVE TypeOK'
    <3>1. FrameOf(sent[i]) \in Frame
      <4>1. sent[i] \in Sealed
        BY DEF TypeOK
      <4> QED
        BY <4>1 DEF FrameOf, Frame, Sealed
    <3>2. wire' \in Seq(Frame)
      BY <2>3, <3>1 DEF Replay, TypeOK
    <3> QED
      BY <2>3, <3>2 DEF Replay, Touch, TypeOK
  <2> QED
    BY <1>6, <2>1, <2>2, <2>3 DEF Disturbance
<1>7. CASE UNCHANGED vars
  BY <1>7 DEF vars, TypeOK
<1> QED
  BY <1>1, <1>2, <1>3, <1>4, <1>5, <1>6, <1>7 DEF Next

\* Type correctness.
THEOREM TypeCorrect == Spec => []TypeOK
<1>1. Init => TypeOK
  BY DEF Init, TypeOK
<1> QED
  BY <1>1, TypeNext, PTL DEF Spec

------------------------------------------------------------------------------
(* The inductive invariant.                                                 *)

\* A thread that has sealed a frame holds the lock and has the counter's
\* value; what was written to the end carries 0, 1, 2 and so on.
Sender ==
    /\ \A t \in Thread : pc[t] = "sealed" => lock = t /\ seq[t] = sendSeq
    /\ \A t \in Thread : pc[t] # "idle" => cur[t] \in Sendable
    /\ sendSeq = Len(sent)
    /\ \A i \in 1 .. Len(sent) : sent[i].seq = i - 1

\* There is at most one half written frame; the connection ended with it and
\* it carries the number after the last whole one.
Torn ==
    /\ torn # {} => ~linkUp
    /\ \A f \in torn : f.seq = Len(sent)
    /\ \A f, g \in torn : f = g

WasSent(f) == f.seq + 1 \in 1 .. Len(sent) /\ sent[f.seq + 1].msg = f.msg

\* A frame on the wire that decrypts is one that was sent under its number.
Wire ==
    \A k \in 1 .. Len(wire) : wire[k].intact /\ wire[k].whole => WasSent(wire[k])

\* The counter counts what was delivered, and the frame whose header has been
\* checked stays the first on the wire.
Reader ==
    /\ recvSeq = Len(delivered)
    /\ DeliveredIsPrefix
    /\ receiver = "body" => /\ linkUp => wire # <<>>
                            /\ wire # <<>> => wire[1].seq = recvSeq

\* While nobody has touched a frame, the wire holds the frames between the
\* two counters, in order.
Untouched ==
    faults = 0 =>
      /\ receiver # "error"
      /\ \A k \in 1 .. Len(wire) :
            /\ wire[k].seq = recvSeq + k - 1
            /\ wire[k].header = "ok" /\ wire[k].intact /\ wire[k].msg \notin TooLarge
      /\ linkUp => recvSeq + Len(wire) = sendSeq

\* The lock keeps threads apart between reading and advancing the counter.
THEOREM SenderNext == TypeOK /\ Sender /\ [Next]_vars => Sender'
<1> SUFFICES ASSUME TypeOK, Sender, [Next]_vars PROVE Sender'
  OBVIOUS
<1> USE ThreadAssumption DEF sender, history, TypeOK
<1>1. ASSUME NEW t \in Thread, NEW m \in Msg, BeginSend(t, m) PROVE Sender'
  BY <1>1 DEF BeginSend, HoldMessage, Sender
<1>2. ASSUME NEW t \in Thread, SendStep(t) PROVE Sender'
  <2>1. CASE Seal(t)
    BY <2>1 DEF Seal, LockFree, Sender
  <2>2. CASE SendAllOk(t)
    <3>1. Mine(t) \in Sealed /\ Mine(t).seq = Len(sent)
      BY <2>2, MineTyped DEF SendAllOk, Sender, Mine
    <3>2. /\ Len(sent') = Len(sent) + 1 /\ sent'[Len(sent) + 1] = Mine(t)
          /\ \A i \in 1 .. Len(sent) : sent'[i] = sent[i]
      BY <2>2, <3>1, AppendFacts DEF SendAllOk
    <3>3. \A i \in 1 .. Len(sent') : sent'[i].seq = i - 1
      <4> SUFFICES ASSUME NEW i \in 1 .. Len(sent) + 1 PROVE sent'[i].seq = i - 1
        BY <3>2
      <4>1. CASE i \in 1 .. Len(sent)
        BY <4>1, <3>2 DEF Sender
      <4>2. CASE i = Len(sent) + 1
        BY <4>2, <3>1, <3>2
      <4> QED
        BY <4>1, <4>2
    <3>4. \A u \in Thread : pc'[u] # "sealed"
      BY <2>2 DEF SendAllOk, Leave, Sender
    <3> QED
      BY <2>2, <3>2, <3>3, <3>4 DEF SendAllOk, Leave, Sender
  <2>3. CASE SendAllTorn(t) \/ SendAllFails(t)
    BY <2>3 DEF SendAllTorn, SendAllFails, Leave, Sender
  <2> QED
    BY <1>2, <2>1, <2>2, <2>3 DEF SendStep
<1>3. CASE UNCHANGED <<sender, sent>>
  BY <1>3 DEF Sender
<1>4. CASE ReceiveStep \/ Cut \/ CloseEnded \/ Disturbance \/ UNCHANGED vars
  BY <1>4, <1>3 DEF ReceiveStep, ReadHeader, Deliver, Reject, Eof, Cut,
     CloseEnded, Disturbance, Tamper, Remove, Replay, Touch, vars
<1> QED
  BY <1>1, <1>2, <1>4 DEF Next

\* Nothing follows a half written frame.
THEOREM TornNext == TypeOK /\ Sender /\ Torn /\ [Next]_vars => Torn'
<1> SUFFICES ASSUME TypeOK, Sender, Torn, [Next]_vars PROVE Torn'
  OBVIOUS
<1> USE DEF sender, history
<1>1. CASE UNCHANGED <<torn, sent>> /\ (linkUp' => linkUp)
  BY <1>1 DEF Torn
<1>2. ASSUME NEW t \in Thread, SendStep(t) PROVE Torn'
  <2>1. CASE SendAllOk(t)
    BY <2>1 DEF SendAllOk, Torn
  <2>2. CASE SendAllTorn(t)
    <3>1. torn' = {Mine(t)} /\ ~linkUp'
      BY <2>2 DEF SendAllTorn, Breaks, Torn
    <3>2. Mine(t).seq = Len(sent) /\ sent' = sent
      BY <2>2 DEF SendAllTorn, Mine, Sender
    <3> QED
      BY <3>1, <3>2 DEF Torn
  <2>3. CASE Seal(t) \/ SendAllFails(t)
    BY <2>3, <1>1 DEF Seal, SendAllFails
  <2> QED
    BY <1>2, <2>1, <2>2, <2>3 DEF SendStep
<1>3. ASSUME NEW t \in Thread, NEW m \in Msg, BeginSend(t, m) PROVE Torn'
  BY <1>3, <1>1 DEF BeginSend
<1>4. CASE ReceiveStep \/ Cut \/ CloseEnded \/ Disturbance \/ UNCHANGED vars
  <2>1. UNCHANGED <<torn, sent>>
    BY <1>4 DEF ReceiveStep, ReadHeader, Deliver, Reject, Eof, Cut,
       CloseEnded, Disturbance, Tamper, Remove, Replay, Touch, vars
  <2>2. linkUp' => linkUp
    BY <1>4 DEF ReceiveStep, ReadHeader, Deliver, Reject, Eof, Cut,
       CloseEnded, Disturbance, Tamper, Remove, Replay, Touch, vars
  <2> QED
    BY <2>1, <2>2, <1>1
<1> QED
  BY <1>2, <1>3, <1>4 DEF Next

\* Frames that were on the wire before, or do not decrypt, or were sent, keep
\* Wire, as nothing is ever taken out of sent.
LEMMA WireKept ==
    ASSUME TypeOK, TypeOK', Wire,
           Len(sent) <= Len(sent'), \A i \in 1 .. Len(sent) : sent'[i] = sent[i],
           \A k \in 1 .. Len(wire') :
               \/ \E j \in 1 .. Len(wire) : wire'[k] = wire[j]
               \/ ~(wire'[k].intact /\ wire'[k].whole)
               \/ WasSent(wire[k])'
    PROVE  Wire'
<1> SUFFICES ASSUME NEW k \in 1 .. Len(wire'), wire'[k].intact, wire'[k].whole
             PROVE  WasSent(wire[k])'
  BY DEF Wire
<1>1. CASE WasSent(wire[k])'
  BY <1>1
<1>2. ASSUME NEW j \in 1 .. Len(wire), wire'[k] = wire[j] PROVE WasSent(wire[k])'
  <2>1. WasSent(wire[j])
    BY <1>2 DEF Wire
  <2>2. Len(sent) \in Nat /\ Len(sent') \in Nat
    BY SMTT(30) DEF TypeOK
  <2>3. wire[j].seq + 1 \in 1 .. Len(sent')
    BY <2>1, <2>2 DEF WasSent
  <2> QED
    BY <1>2, <2>1, <2>3 DEF WasSent
<1> QED
  BY <1>1, <1>2

\* Every step keeps Wire: only senders and repetitions put frames on it.
THEOREM WireNext == TypeOK /\ Sender /\ Wire /\ [Next]_vars => Wire'
<1> SUFFICES ASSUME TypeOK, Sender, Wire, [Next]_vars PROVE Wire'
  OBVIOUS
<1> USE DEF sender, history
<1>0. TypeOK' /\ wire \in Seq(Frame) /\ sent \in Seq(Sealed)
  BY TypeNext DEF TypeOK
<1>1. CASE UNCHANGED <<wire, sent>>
  BY <1>1 DEF Wire, WasSent
<1>2. ASSUME NEW t \in Thread, SendStep(t) PROVE Wire'
  <2>1. CASE SendAllOk(t)
    <3>1. /\ Mine(t) \in Sealed /\ FrameOf(Mine(t)) \in Frame
          /\ Mine(t).seq = Len(sent)
      BY <2>1, MineTyped DEF SendAllOk, Sender, Mine
    <3>2. /\ Len(sent') = Len(sent) + 1 /\ sent'[Len(sent) + 1] = Mine(t)
          /\ \A i \in 1 .. Len(sent) : sent'[i] = sent[i]
      BY <2>1, <1>0, <3>1, AppendFacts DEF SendAllOk
    <3>3. /\ Len(wire') = Len(wire) + 1
          /\ wire'[Len(wire) + 1] = FrameOf(Mine(t))
          /\ \A k \in 1 .. Len(wire) : wire'[k] = wire[k]
      BY <2>1, <1>0, <3>1, AppendFacts DEF SendAllOk
    <3>4. WasSent(wire[Len(wire)])'
      BY <1>0, <3>1, <3>2, <3>3 DEF WasSent, FrameOf
    <3>5. \A k \in 1 .. Len(wire') : k \in 1 .. Len(wire) \/ k = Len(wire')
      BY <1>0, <3>3
    <3> QED
      BY <1>0, <3>2, <3>3, <3>4, <3>5, WireKept
  <2>2. CASE SendAllTorn(t)
    <3> DEFINE f == [FrameOf(Mine(t)) EXCEPT !.whole = FALSE]
    <3>1. f \in Frame /\ ~f.whole
      BY <2>2, MineTyped DEF SendAllTorn, FrameOf, Frame
    <3>2. /\ wire' = Append(wire, f) /\ sent' = sent
      BY <2>2 DEF SendAllTorn
    <3> HIDE DEF f
    <3>3. /\ Len(wire') = Len(wire) + 1 /\ wire'[Len(wire) + 1] = f
          /\ \A k \in 1 .. Len(wire) : wire'[k] = wire[k]
      BY <1>0, <3>1, <3>2, AppendFacts
    <3>4. \A k \in 1 .. Len(wire') : k \in 1 .. Len(wire) \/ k = Len(wire) + 1
      BY <1>0, <3>3
    <3> QED
      BY <1>0, <3>1, <3>2, <3>3, <3>4, WireKept
  <2>3. CASE Seal(t) \/ SendAllFails(t)
    BY <2>3, <1>1 DEF Seal, SendAllFails
  <2> QED
    BY <1>2, <2>1, <2>2, <2>3 DEF SendStep
<1>3. CASE Deliver
  <2>1. /\ sent' = sent /\ Len(wire') = Len(wire) - 1
        /\ \A k \in 1 .. Len(wire') : wire'[k] = wire[k + 1]
    BY <1>0, <1>3, TailFacts DEF Deliver
  <2>2. \A k \in 1 .. Len(wire') : k + 1 \in 1 .. Len(wire)
    BY <1>0, <2>1
  <2> QED
    BY <1>0, <2>1, <2>2, WireKept
<1>4. CASE Cut
  <2>1. PICK n \in 0 .. Len(wire) : wire' = SubSeq(wire, 1, n)
    BY <1>4 DEF Cut
  <2>2. /\ sent' = sent /\ Len(wire') = n
        /\ \A k \in 1 .. Len(wire') : wire'[k] = wire[k] /\ k \in 1 .. Len(wire)
    BY <1>0, <1>4, <2>1, PrefixFacts DEF Cut
  <2> QED
    BY <1>0, <2>2, WireKept
<1>5. CASE CloseEnded
  BY <1>0, <1>5 DEF CloseEnded, Wire
<1>6. ASSUME NEW i \in DOMAIN wire, NEW h \in {"ok", "long", "bad"},
             NEW n \in 0 .. MaxSeals, Tamper(i, h, n)
      PROVE  Wire'
  <2>1. sent' = sent /\ Len(wire') = Len(wire) /\ wire[i] \in Frame
    BY <1>0, <1>6 DEF Tamper, Touch
  <2>2. \A k \in 1 .. Len(wire) : wire'[k] = wire[k] \/ ~wire'[k].intact
    BY <1>0, <1>6, <2>1 DEF Tamper, Frame
  <2> QED
    BY <1>0, <2>1, <2>2, WireKept
<1>7. ASSUME NEW i \in DOMAIN wire, Remove(i) PROVE Wire'
  <2>1. /\ sent' = sent /\ Len(wire') = Len(wire) - 1
        /\ \A k \in 1 .. Len(wire') : wire'[k] = wire[k] \/ wire'[k] = wire[k + 1]
    <3>1. i \in 1 .. Len(wire) /\ sent' = sent
      BY <1>0, <1>7 DEF Remove, Touch
    <3>2. wire' = SubSeq(wire, 1, i - 1) \o SubSeq(wire, i + 1, Len(wire))
      BY <1>7 DEF Remove
    <3> QED
      BY <1>0, <3>1, <3>2, RemoveFacts
  <2>2. \A k \in 1 .. Len(wire') : k \in 1 .. Len(wire) /\ k + 1 \in 1 .. Len(wire)
    BY <1>0, <2>1
  <2> QED
    BY <1>0, <2>1, <2>2, WireKept
<1>8. ASSUME NEW i \in DOMAIN sent, Replay(i) PROVE Wire'
  <2>1. sent[i] \in Sealed /\ sent[i].seq + 1 = i /\ i \in 1 .. Len(sent)
    BY <1>0 DEF Sender
  <2>2. FrameOf(sent[i]) \in Frame
    BY <2>1 DEF FrameOf, Frame, Sealed
  <2>3. /\ sent' = sent /\ Len(wire') = Len(wire) + 1
        /\ wire'[Len(wire) + 1] = FrameOf(sent[i])
        /\ \A k \in 1 .. Len(wire) : wire'[k] = wire[k]
    BY <1>0, <1>8, <2>2, AppendFacts DEF Replay, Touch
  <2>4. WasSent(wire[Len(wire)])'
    BY <1>0, <2>1, <2>3 DEF WasSent, FrameOf
  <2>5. \A k \in 1 .. Len(wire') : k \in 1 .. Len(wire) \/ k = Len(wire')
    BY <1>0, <2>3
  <2> QED
    BY <1>0, <2>3, <2>4, <2>5, WireKept
<1>9. ASSUME NEW t \in Thread, NEW m \in Msg, BeginSend(t, m) PROVE Wire'
  BY <1>9, <1>1 DEF BeginSend
<1>10. CASE ReadHeader \/ Reject \/ Eof \/ UNCHANGED vars
  BY <1>10, <1>1 DEF ReadHeader, Reject, Eof, vars
<1> QED
  BY <1>2, <1>3, <1>4, <1>5, <1>6, <1>7, <1>8, <1>9, <1>10
     DEF Next, ReceiveStep, Disturbance

\* Every step keeps Reader: what is delivered next was sent next.
THEOREM ReaderNext == TypeOK /\ Sender /\ Wire /\ Reader /\ [Next]_vars => Reader'
<1> SUFFICES ASSUME TypeOK, Sender, Wire, Reader, [Next]_vars PROVE Reader'
  OBVIOUS
<1> USE DEF sender, loop, history
<1>0. /\ wire \in Seq(Frame) /\ sent \in Seq(Sealed) /\ delivered \in Seq(Msg)
      /\ recvSeq \in Nat /\ wire' \in Seq(Frame)
  BY TypeNext DEF TypeOK
<1>1. ASSUME UNCHANGED loop,
             Len(sent) <= Len(sent'), \A i \in 1 .. Len(sent) : sent'[i] = sent[i],
             receiver = "body" => /\ linkUp' => linkUp /\ wire' # <<>>
                                  /\ wire' # <<>> => wire # <<>> /\ wire'[1] = wire[1]
      PROVE  Reader'
  <2>1. DeliveredIsPrefix'
    <3>1. Len(sent') \in Nat /\ DOMAIN delivered = 1 .. Len(delivered)
      BY <1>0, TypeNext DEF TypeOK
    <3> QED
      BY <1>0, <1>1, <3>1 DEF Reader, DeliveredIsPrefix
  <2> QED
    BY <1>1, <2>1 DEF Reader
<1>2. CASE UNCHANGED <<loop, sent, wire, linkUp>>
  BY <1>2 DEF Reader, DeliveredIsPrefix
<1>3. ASSUME NEW t \in Thread, NEW m \in Msg, BeginSend(t, m) PROVE Reader'
  BY <1>3, <1>2 DEF BeginSend
<1>4. ASSUME NEW t \in Thread, SendStep(t) PROVE Reader'
  <2>1. CASE Seal(t) \/ SendAllFails(t)
    BY <2>1, <1>2 DEF Seal, SendAllFails
  <2>2. CASE SendAllOk(t) \/ SendAllTorn(t)
    <3>1. PICK f \in Frame : wire' = Append(wire, f)
      <4>1. /\ FrameOf(Mine(t)) \in Frame
            /\ [FrameOf(Mine(t)) EXCEPT !.whole = FALSE] \in Frame
        BY <2>2, MineTyped DEF SendAllOk, SendAllTorn, Frame
      <4> QED
        BY <2>2, <4>1 DEF SendAllOk, SendAllTorn
    <3>2. /\ wire' # <<>> /\ linkUp /\ UNCHANGED loop
          /\ wire # <<>> => wire'[1] = wire[1]
      BY <1>0, <2>2, <3>1 DEF SendAllOk, SendAllTorn
    <3>3. Len(sent) <= Len(sent') /\ \A i \in 1 .. Len(sent) : sent'[i] = sent[i]
      <4>1. Mine(t) \in Sealed /\ Len(sent) \in Nat
        BY <1>0, <2>2, MineTyped DEF SendAllOk, SendAllTorn
      <4>2. sent' = Append(sent, Mine(t)) \/ sent' = sent
        BY <2>2 DEF SendAllOk, SendAllTorn
      <4>3. CASE sent' = Append(sent, Mine(t))
        BY <1>0, <4>1, <4>3, AppendFacts
      <4> QED
        BY <4>1, <4>2, <4>3
    <3> QED
      BY <1>1, <3>2, <3>3 DEF Reader
  <2> QED
    BY <1>4, <2>1, <2>2 DEF SendStep
<1>5. CASE ReadHeader
  <2>1. receiver' = "body" => wire # <<>> /\ wire[1].seq = recvSeq
    BY <1>0, <1>5, TailFacts DEF ReadHeader, HeaderHere, HeaderFine
  <2> QED
    BY <1>5, <2>1 DEF ReadHeader, Reader, DeliveredIsPrefix
<1>6. CASE Deliver
  <2>1. /\ wire # <<>> /\ Len(wire) > 0 /\ wire[1] \in Frame /\ wire[1] = Head(wire)
        /\ wire[1].intact /\ wire[1].whole /\ wire[1].seq = recvSeq
    BY <1>0, <1>6, TailFacts DEF Deliver, Decrypts, Reader
  <2>2. WasSent(wire[1])
    BY <1>0, <2>1 DEF Wire
  <2>3. /\ Len(delivered) + 1 <= Len(sent)
        /\ wire[1].msg = sent[Len(delivered) + 1].msg
    BY <1>0, <2>1, <2>2 DEF WasSent, Reader
  <2>4. wire[1].msg \in Msg
    BY <2>1 DEF Frame
  <2>5. /\ Len(delivered') = Len(delivered) + 1
        /\ delivered'[Len(delivered) + 1] = wire[1].msg
        /\ \A i \in 1 .. Len(delivered) : delivered'[i] = delivered[i]
    BY <1>0, <1>6, <2>1, <2>4, AppendFacts DEF Deliver
  <2>6. DeliveredIsPrefix'
    <3>1. sent' = sent /\ DOMAIN delivered = 1 .. Len(delivered)
      BY <1>0, <1>6 DEF Deliver
    <3>2. \A i \in 1 .. Len(delivered') :
             i \in 1 .. Len(delivered) \/ i = Len(delivered) + 1
      BY <1>0, <2>5
    <3>3. \A i \in 1 .. Len(delivered') : delivered'[i] = sent[i].msg
      BY <2>3, <2>5, <3>1, <3>2 DEF Reader, DeliveredIsPrefix
    <3>4. DOMAIN delivered' = 1 .. Len(delivered')
      BY TypeNext DEF TypeOK
    <3> QED
      BY <2>3, <2>5, <3>1, <3>3, <3>4 DEF DeliveredIsPrefix
  <2> QED
    BY <1>6, <2>5, <2>6 DEF Deliver, NextSequence, Reader
<1>7. CASE Reject \/ Eof
  BY <1>7 DEF Reject, Eof, Reader, DeliveredIsPrefix
<1>8. CASE Cut
  <2>1. PICK n \in 0 .. Len(wire) : wire' = SubSeq(wire, 1, n)
    BY <1>8 DEF Cut
  <2>2. wire' # <<>> => wire # <<>> /\ wire'[1] = wire[1]
    BY <1>0, <2>1, PrefixFacts
  <2> QED
    BY <1>0, <1>1, <1>8, <2>2 DEF Cut
<1>9. CASE CloseEnded
  BY <1>0, <1>1, <1>9 DEF CloseEnded
<1>10. ASSUME NEW i \in DOMAIN wire, NEW h \in {"ok", "long", "bad"},
              NEW n \in 0 .. MaxSeals, Tamper(i, h, n)
       PROVE  Reader'
  <2>1. /\ Len(wire') = Len(wire) /\ UNCHANGED <<loop, sent, linkUp>>
        /\ receiver = "body" => wire'[1] = wire[1]
    BY <1>0, <1>10 DEF Tamper, Touch
  <2> QED
    BY <1>0, <1>1, <2>1 DEF Reader
<1>11. ASSUME NEW i \in DOMAIN wire, Remove(i) PROVE Reader'
  <2>1. /\ i \in 1 .. Len(wire) /\ UNCHANGED <<loop, sent, linkUp>>
        /\ i = 1 => receiver = "header"
        /\ wire' = SubSeq(wire, 1, i - 1) \o SubSeq(wire, i + 1, Len(wire))
    BY <1>0, <1>11 DEF Remove, Touch
  <2>2. Len(wire') = Len(wire) - 1 /\ (i # 1 => wire'[1] = wire[1])
    BY <1>0, <2>1, RemoveFacts
  <2>3. wire # <<>> /\ (i # 1 => wire' # <<>>)
    BY <1>0, <2>1, <2>2
  <2> QED
    BY <1>0, <1>1, <2>1, <2>2, <2>3, SMTT(30)
<1>12. ASSUME NEW i \in DOMAIN sent, Replay(i) PROVE Reader'
  <2>1. FrameOf(sent[i]) \in Frame
    <3>1. sent[i] \in Sealed
      BY <1>0
    <3> QED
      BY <3>1 DEF FrameOf, Frame, Sealed
  <2>2. /\ UNCHANGED <<loop, sent, linkUp>> /\ linkUp
        /\ wire' = Append(wire, FrameOf(sent[i]))
    BY <1>12 DEF Replay, Touch
  <2>3. wire' # <<>> /\ (wire # <<>> => wire'[1] = wire[1])
    BY <1>0, <2>1, <2>2
  <2> QED
    BY <1>0, <1>1, <2>2, <2>3 DEF Reader
<1>13. CASE UNCHANGED vars
  BY <1>13, <1>2 DEF vars
<1> QED
  BY <1>3, <1>4, <1>5, <1>6, <1>7, <1>8, <1>9, <1>10, <1>11, <1>12, <1>13
     DEF Next, ReceiveStep, Disturbance

\* Every step keeps Untouched: without damage the two counters and the wire
\* between them stay in line.
THEOREM UntouchedNext ==
    TypeOK /\ Sender /\ Reader /\ Untouched /\ [Next]_vars => Untouched'
<1> SUFFICES ASSUME TypeOK, Sender, Reader, Untouched, [Next]_vars, faults' = 0
             PROVE  Untouched'
  BY DEF Untouched
<1> USE DEF sender, loop, history
<1>0. /\ wire \in Seq(Frame) /\ recvSeq \in Nat /\ sendSeq \in Nat
      /\ faults \in Nat /\ wire' \in Seq(Frame)
  BY TypeNext DEF TypeOK
<1>1. CASE UNCHANGED <<wire, recvSeq, sendSeq, faults, linkUp>> /\ receiver' # "error"
  BY <1>1 DEF Untouched
<1>2. ASSUME NEW t \in Thread, NEW m \in Msg, BeginSend(t, m) PROVE Untouched'
  BY <1>2 DEF BeginSend, Untouched
<1>3. ASSUME NEW t \in Thread, SendStep(t) PROVE Untouched'
  <2>1. CASE Seal(t) \/ SendAllFails(t)
    BY <2>1 DEF Seal, SendAllFails, Untouched
  <2>2. CASE SendAllOk(t) \/ SendAllTorn(t)
    <3>1. PICK f \in Frame :
            /\ wire' = Append(wire, f)
            /\ f.seq = seq[t] /\ f.msg = cur[t] /\ f.header = "ok" /\ f.intact
      <4>1. /\ FrameOf(Mine(t)) \in Frame
            /\ [FrameOf(Mine(t)) EXCEPT !.whole = FALSE] \in Frame
        BY <2>2, MineTyped DEF SendAllOk, SendAllTorn, Frame
      <4> QED
        BY <2>2, <4>1 DEF SendAllOk, SendAllTorn, FrameOf, Mine
    <3>2. f.seq = recvSeq + Len(wire) /\ f.msg \notin TooLarge
      BY <2>2, <3>1 DEF SendAllOk, SendAllTorn, Sender, Sendable, Untouched
    <3>3. /\ Len(wire') = Len(wire) + 1 /\ wire'[Len(wire) + 1] = f
          /\ \A k \in 1 .. Len(wire) : wire'[k] = wire[k]
      BY <1>0, <3>1, AppendFacts
    <3>4. \A k \in 1 .. Len(wire') : k \in 1 .. Len(wire) \/ k = Len(wire) + 1
      BY <1>0, <3>3
    <3>5. \A k \in 1 .. Len(wire') :
            /\ wire'[k].seq = recvSeq + k - 1
            /\ wire'[k].header = "ok" /\ wire'[k].intact
            /\ wire'[k].msg \notin TooLarge
      <4> SUFFICES ASSUME NEW k \in 1 .. Len(wire')
                   PROVE  /\ wire'[k].seq = recvSeq + k - 1
                          /\ wire'[k].header = "ok" /\ wire'[k].intact
                          /\ wire'[k].msg \notin TooLarge
        OBVIOUS
      <4>1. CASE k \in 1 .. Len(wire)
        BY <2>2, <3>3, <4>1 DEF SendAllOk, SendAllTorn, Untouched
      <4>2. CASE k = Len(wire) + 1
        BY <1>0, <3>1, <3>2, <3>3, <4>2
      <4> QED
        BY <3>4, <4>1, <4>2
    <3>6. linkUp' => recvSeq' + Len(wire') = sendSeq'
      BY <1>0, <2>2, <3>3 DEF SendAllOk, SendAllTorn, Breaks, Untouched
    <3> QED
      BY <2>2, <3>5, <3>6 DEF SendAllOk, SendAllTorn, Untouched
  <2> QED
    BY <1>3, <2>1, <2>2 DEF SendStep
<1>4. CASE ReadHeader
  <2>1. wire # <<>> /\ Head(wire) = wire[1] /\ Len(wire) > 0
    BY <1>0, <1>4, TailFacts DEF ReadHeader, HeaderHere
  <2>2. HeaderFine(Head(wire))
    BY <1>0, <1>4, <2>1 DEF ReadHeader, HeaderFine, Untouched
  <2> QED
    BY <1>4, <2>2 DEF ReadHeader, Untouched
<1>5. CASE Deliver
  <2>1. /\ Len(wire') = Len(wire) - 1 /\ Len(wire) > 0
        /\ \A k \in 1 .. Len(wire') : wire'[k] = wire[k + 1]
    BY <1>0, <1>5, TailFacts DEF Deliver
  <2>2. \A k \in 1 .. Len(wire') :
            k + 1 \in 1 .. Len(wire) /\ recvSeq + (k + 1) - 1 = (recvSeq + 1) + k - 1
    BY <1>0, <2>1
  <2>3. \A k \in 1 .. Len(wire') :
            /\ wire'[k].seq = recvSeq' + k - 1
            /\ wire'[k].header = "ok" /\ wire'[k].intact
            /\ wire'[k].msg \notin TooLarge
    BY <1>5, <2>1, <2>2 DEF Deliver, NextSequence, Untouched
  <2>4. linkUp' => recvSeq' + Len(wire') = sendSeq'
    <3>1. UNCHANGED <<linkUp, sendSeq, faults>> /\ recvSeq' = recvSeq + 1
      BY <1>5 DEF Deliver, NextSequence
    <3>2. linkUp => recvSeq + Len(wire) = sendSeq
      BY <3>1 DEF Untouched
    <3>3. (recvSeq + 1) + (Len(wire) - 1) = recvSeq + Len(wire)
      BY <1>0
    <3> QED
      BY <2>1, <3>1, <3>2, <3>3
  <2> QED
    BY <1>5, <2>3, <2>4 DEF Deliver, Untouched
<1>6. CASE Reject
  <2>1. wire # <<>> /\ ~wire[1].intact /\ Len(wire) > 0
    BY <1>0, <1>6, TailFacts DEF Reject
  <2> QED
    BY <1>0, <1>6, <2>1 DEF Reject, Untouched
<1>7. CASE Eof
  BY <1>7 DEF Eof, Untouched
<1>8. CASE Cut
  <2>1. PICK n \in 0 .. Len(wire) : wire' = SubSeq(wire, 1, n)
    BY <1>8 DEF Cut
  <2>2. /\ Len(wire') = n
        /\ \A k \in 1 .. Len(wire') : wire'[k] = wire[k] /\ k \in 1 .. Len(wire)
    BY <1>0, <2>1, PrefixFacts
  <2> QED
    BY <1>8, <2>2 DEF Cut, Untouched
<1>9. CASE CloseEnded
  BY <1>0, <1>9 DEF CloseEnded, Untouched
<1>10. CASE Disturbance
  <2>1. faults' = faults + 1
    BY <1>10 DEF Disturbance, Tamper, Remove, Replay, Touch
  <2> QED
    BY <1>0, <2>1
<1>11. CASE UNCHANGED vars
  BY <1>11 DEF vars, Untouched
<1> QED
  BY <1>2, <1>3, <1>4, <1>5, <1>6, <1>7, <1>8, <1>9, <1>10, <1>11
     DEF Next, ReceiveStep

------------------------------------------------------------------------------
(* What follows.                                                            *)

IInv == TypeOK /\ Sender /\ Torn /\ Wire /\ Reader /\ Untouched

\* The inductive invariant holds at the start ...
THEOREM IInvInit == Init => IInv
<1> SUFFICES ASSUME Init PROVE IInv
  OBVIOUS
<1>1. TypeOK
  BY DEF Init, TypeOK
<1>2. Len(sent) = 0 /\ Len(wire) = 0 /\ Len(delivered) = 0
  BY DEF Init
<1>3. Sender /\ Torn /\ Wire
  BY <1>2 DEF Init, Sender, Torn, Wire
<1>4. Reader /\ Untouched
  BY <1>2 DEF Init, Reader, DeliveredIsPrefix, Untouched
<1> QED
  BY <1>1, <1>3, <1>4 DEF IInv

\* ... and throughout.
THEOREM IInvAlways == Spec => []IInv
<1>1. IInv /\ [Next]_vars => IInv'
  BY TypeNext, SenderNext, TornNext, WireNext, ReaderNext, UntouchedNext DEF IInv
<1> QED
  BY <1>1, IInvInit, PTL DEF Spec

\* The receiver's messages are a prefix of the sender's.
THEOREM PrefixDelivered == Spec => []DeliveredIsPrefix
<1>1. IInv => DeliveredIsPrefix
  BY DEF IInv, Reader
<1> QED
  BY <1>1, IInvAlways, PTL

\* No sequence reaches the socket twice.
THEOREM SequencesDistinct == Spec => []WireSequencesDistinct
<1>1. IInv => WireSequencesDistinct
  <2> SUFFICES ASSUME IInv PROVE WireSequencesDistinct
    OBVIOUS
  <2>1. DOMAIN sent = 1 .. Len(sent) /\ Len(sent) \in Nat
    BY DEF IInv, TypeOK
  <2>2. \A i \in 1 .. Len(sent) : sent[i].seq = i - 1
    BY DEF IInv, Sender
  <2>3. \A i, j \in DOMAIN sent : sent[i].seq = sent[j].seq => i = j
    BY <2>1, <2>2
  <2>4. \A f \in torn, i \in DOMAIN sent : f.seq # sent[i].seq
    BY <2>1, <2>2 DEF IInv, Torn
  <2> QED
    BY <2>3, <2>4 DEF WireSequencesDistinct, IInv, Torn
<1> QED
  BY <1>1, IInvAlways, PTL

\* Only a damaged frame makes the receiver end the session with an error.
THEOREM OnlyDamageIsRejected == Spec => []HonestTrafficAccepted
<1>1. IInv => HonestTrafficAccepted
  BY DEF IInv, Untouched, TypeOK, HonestTrafficAccepted
<1> QED
  BY <1>1, IInvAlways, PTL

------------------------------------------------------------------------------
(* The channel implements FifoChannel.                                      *)

Payloads(s) == [i \in DOMAIN s |-> s[i].msg]

\* The payloads of a sequence of frames form a sequence of the same length.
LEMMA PayloadsFacts ==
    ASSUME NEW s \in Seq(Sealed)
    PROVE  Payloads(s) \in Seq(Msg) /\ Len(Payloads(s)) = Len(s)
<1>1. DOMAIN s = 1 .. Len(s) /\ Len(s) \in Nat
  OBVIOUS
<1>2. ASSUME NEW i \in 1 .. Len(s) PROVE s[i].msg \in Msg
  <2>1. s[i] \in Sealed
    OBVIOUS
  <2> QED
    BY <2>1 DEF Sealed
<1>3. Payloads(s) \in [1 .. Len(s) -> Msg]
  BY <1>1, <1>2 DEF Payloads
<1> QED
  BY <1>1, <1>3, SeqDef, LenProperties

\* One frame more is one payload more.
LEMMA PayloadsAppend ==
    ASSUME NEW s \in Seq(Sealed), NEW e \in Sealed
    PROVE  Payloads(Append(s, e)) = Append(Payloads(s), e.msg)
<1> DEFINE t == Append(s, e)
           p == Append(Payloads(s), e.msg)
<1>1. t \in Seq(Sealed) /\ e.msg \in Msg
  BY DEF Sealed
<1>2. /\ Payloads(s) \in Seq(Msg) /\ Len(Payloads(s)) = Len(s)
      /\ Payloads(t) \in Seq(Msg) /\ Len(Payloads(t)) = Len(t)
  BY <1>1, PayloadsFacts
<1>3. /\ Len(t) = Len(s) + 1 /\ t[Len(s) + 1] = e
      /\ \A i \in 1 .. Len(s) : t[i] = s[i]
  BY AppendFacts
<1>4. /\ p \in Seq(Msg) /\ Len(p) = Len(s) + 1 /\ p[Len(s) + 1] = e.msg
      /\ \A i \in 1 .. Len(s) : p[i] = Payloads(s)[i]
  BY <1>1, <1>2, AppendFacts
<1> HIDE DEF t, p
<1>5. ASSUME NEW i \in 1 .. Len(s) + 1 PROVE Payloads(t)[i] = p[i]
  <2>1. i \in DOMAIN t /\ Payloads(t)[i] = t[i].msg
    BY <1>1, <1>3 DEF Payloads
  <2>2. CASE i \in 1 .. Len(s)
    <3>1. Payloads(s)[i] = s[i].msg
      BY <2>2 DEF Payloads
    <3> QED
      BY <2>1, <2>2, <3>1, <1>3, <1>4
  <2>3. CASE i = Len(s) + 1
    BY <2>1, <2>3, <1>3, <1>4
  <2> QED
    BY <2>2, <2>3
<1> QED
  BY <1>2, <1>3, <1>4, <1>5, SeqEqual DEF t, p

\* Every step is one of FifoChannel's or changes nothing there.
THEOREM FifoNext == IInv /\ IInv' /\ [Next]_vars => [Fifo!Next]_(Fifo!vars)
<1> SUFFICES ASSUME IInv, IInv', [Next]_vars PROVE [Fifo!Next]_(Fifo!vars)
  OBVIOUS
<1> USE DEF sender, loop, history
<1>0. /\ sent \in Seq(Sealed) /\ delivered \in Seq(Msg) /\ wire \in Seq(Frame)
      /\ Len(Payloads(sent)) = Len(sent)
  BY PayloadsFacts DEF IInv, TypeOK
<1>1. ASSUME sent' = sent, UNCHANGED <<delivered, receiver>> PROVE UNCHANGED Fifo!vars
  BY <1>1 DEF Fifo!vars, Ended
<1>2. ASSUME NEW t \in Thread, SendAllOk(t) PROVE Fifo!Next
  <2>1. Mine(t) \in Sealed /\ Mine(t).msg \in Msg /\ sent' = Append(sent, Mine(t))
    BY <1>2, MineTyped DEF SendAllOk, IInv, Sealed
  <2>2. Payloads(sent') = Append(Payloads(sent), Mine(t).msg)
    BY <1>0, <2>1, PayloadsAppend
  <2>3. UNCHANGED <<delivered, Ended>>
    BY <1>2 DEF SendAllOk, Ended
  <2> QED
    BY <2>1, <2>2, <2>3 DEF Payloads, Fifo!Next, Fifo!Send
<1>3. CASE Deliver
  <2>1. /\ delivered' = Append(delivered, Head(wire).msg) /\ Head(wire).msg \in Msg
        /\ sent' = sent /\ ~Ended /\ ~Ended'
    <3>1. Head(wire) \in Frame
      BY <1>0, <1>3, TailFacts DEF Deliver
    <3> QED
      BY <1>3, <3>1 DEF Deliver, Ended, Frame
  <2>2. /\ Len(delivered') = Len(delivered) + 1
        /\ delivered'[Len(delivered) + 1] = Head(wire).msg
    BY <1>0, <2>1, AppendFacts
  <2>3. /\ Len(delivered) + 1 <= Len(sent) /\ Len(delivered) \in Nat
        /\ Head(wire).msg = sent[Len(delivered) + 1].msg
    <3>1. DeliveredIsPrefix'
      BY DEF IInv, Reader
    <3>2. Len(delivered) + 1 \in DOMAIN delivered'
      BY <1>0, <2>2 DEF IInv, TypeOK
    <3> QED
      BY <1>0, <2>1, <2>2, <3>1, <3>2 DEF DeliveredIsPrefix
  <2>4. Payloads(sent)[Len(delivered) + 1] = Head(wire).msg
    BY <1>0, <2>3 DEF Payloads
  <2>5. /\ Len(delivered) < Len(Payloads(sent))
        /\ delivered' = Append(delivered, Payloads(sent)[Len(delivered) + 1])
        /\ Payloads(sent') = Payloads(sent)
    BY <1>0, <2>1, <2>3, <2>4
  <2>6. UNCHANGED Ended
    BY <1>3 DEF Deliver, Ended
  <2>7. Fifo!Deliver
    BY <2>1, <2>5, <2>6 DEF Payloads, Fifo!Deliver
  <2> QED
    BY <2>7 DEF Fifo!Next
<1>4. CASE Reject \/ Eof \/ (ReadHeader /\ Ended')
  BY <1>4 DEF Reject, Eof, ReadHeader, Ended, Fifo!Next, Fifo!End
<1>5. CASE ReadHeader /\ ~Ended'
  BY <1>5 DEF ReadHeader, Ended, Fifo!vars
<1>6. ASSUME NEW t \in Thread, SendStep(t), ~SendAllOk(t) PROVE UNCHANGED Fifo!vars
  BY <1>1, <1>6 DEF SendStep, Seal, SendAllTorn, SendAllFails
<1>7. ASSUME NEW t \in Thread, NEW m \in Msg, BeginSend(t, m)
      PROVE  UNCHANGED Fifo!vars
  BY <1>1, <1>7 DEF BeginSend
<1>8. CASE Cut \/ CloseEnded \/ Disturbance \/ UNCHANGED vars
  BY <1>1, <1>8 DEF Cut, CloseEnded, Disturbance, Tamper, Remove, Replay, Touch, vars
<1> QED
  BY <1>2, <1>3, <1>4, <1>5, <1>6, <1>7, <1>8 DEF Next, ReceiveStep

\* Counters, lock and checks implement the first-in first-out promise for every
\* number of threads, frames and disturbances.
THEOREM FifoImplemented == Spec => ImplementsFifo
<1>1. Init => Fifo!Init
  <2>1. Payloads(<<>>) = <<>>
    BY DEF Payloads
  <2> QED
    BY <2>1 DEF Init, Ended, Payloads, Fifo!Init
<1> QED
  BY <1>1, FifoNext, IInvAlways, PTL DEF Spec, ImplementsFifo, Fifo!Spec

------------------------------------------------------------------------------
(***************************************************************************)
(* Proofs about Handshake for any number of sessions and any assignment of *)
(* roles, identities, secrets and pins.  The invariant says who can have   *)
(* written what is on the network: every signature and every proof is that *)
(* of a session over its own hello and the one it keeps in peer.           *)
(***************************************************************************)

USE RoleAssumption, CredentialAssumption, WiringAssumption DEF Side

\* make_hello and the transcript have their types.
LEMMA HelloTyped ==
    /\ \A s \in Session : HelloOf(s) \in Hello
    /\ \A s \in Session, h \in Hello : Transcript(s, h) \in Seq(Hello)
<1>1. \A s \in Session : HelloOf(s) \in Hello
  BY DEF HelloOf, Hello
<1>2. \A s \in Session, h \in Hello : Transcript(s, h) \in Seq(Hello)
  BY <1>1 DEF Transcript
<1> QED
  BY <1>1, <1>2

\* A signature and a proof have their types; neither is Absent.
LEMMA SignedTyped ==
    ASSUME NEW s \in Session, NEW h \in Hello
    PROVE  /\ Signature(s, h) \in Signed /\ Signature(s, h) # Absent
           /\ Proof(s, h) \in Proved
<1>1. Signature(s, h) \in Signed
  BY HelloTyped DEF Signature, Signed
<1>2. Proof(s, h) \in Proved
  BY HelloTyped DEF Proof, Proved
<1> QED
  BY <1>1, <1>2, AbsentAssumption

ChannelOf(s, h) == [send |-> SendKey(s, h), receive |-> ReceiveKey(s, h),
                    peer |-> h.id]

\* The channel a handshake opens has its type and is not Absent.
LEMMA ChannelTyped ==
    ASSUME NEW s \in Session, NEW h \in Hello
    PROVE  ChannelOf(s, h) \in Channel /\ ChannelOf(s, h) # Absent
<1>1. Material(s, h) \in [keys : SUBSET (Session \cup {Absent}), psk : Secret,
                          salt : Seq(Hello)]
  BY HelloTyped DEF Material, Hello
<1>2. SendKey(s, h) \in Key /\ ReceiveKey(s, h) \in Key
  BY <1>1 DEF SendKey, ReceiveKey, Key, Other
<1>3. h.id \in Identity
  BY DEF Hello
<1>4. ChannelOf(s, h) \in Channel
  BY <1>2, <1>3 DEF ChannelOf, Channel
<1> QED
  BY <1>4, AbsentAssumption

\* Hellos are not Absent, so a session that keeps one is told from one that
\* keeps none.
LEMMA HelloNotNone == \A h \in Hello : h # Absent
  BY AbsentAssumption

------------------------------------------------------------------------------
(* Types.                                                                   *)

\* When a session keeps a hello: a server from its answer on, a client when it
\* is done; and the hello is one of the other role.
Order ==
    \A s \in Session :
        /\ step[s] = "start" => peer[s] = Absent
        /\ Role[s] = "client" => (peer[s] # Absent <=> step[s] = "done")
        /\ Role[s] = "server" /\ step[s] \in {"waiting", "done"} => peer[s] # Absent
        /\ peer[s] # Absent => peer[s].role = Other(Role[s])

\* Every step keeps the types.
LEMMA HandshakeTypeNext == HandshakeTypeOK /\ Order /\ [HandshakeNext]_handshakeVars => HandshakeTypeOK'
<1> SUFFICES ASSUME HandshakeTypeOK, Order, [HandshakeNext]_handshakeVars PROVE HandshakeTypeOK'
  OBVIOUS
<1>1. ASSUME NEW s \in Session, SendHello(s) PROVE HandshakeTypeOK'
  <2>1. net' \subseteq Message
    BY <1>1, HelloTyped DEF SendHello, Send, HandshakeTypeOK, Message
  <2> QED
    BY <1>1, <2>1 DEF SendHello, Goto, HandshakeTypeOK
<1>2. ASSUME NEW s \in Session, NEW m \in net, AnswerHello(s, m) PROVE HandshakeTypeOK'
  <2>1. m.hello \in Hello
    BY <1>2 DEF AnswerHello, HandshakeTypeOK, Message
  <2>2. net' \subseteq Message
    BY <1>2, <2>1, HelloTyped, SignedTyped DEF AnswerHello, Send, HandshakeTypeOK, Message
  <2> QED
    BY <1>2, <2>1, <2>2 DEF AnswerHello, Goto, HandshakeTypeOK
<1>3. ASSUME NEW s \in Session, NEW m \in net, ClientAccepts(s, m) PROVE HandshakeTypeOK'
  <2>1. m.hello \in Hello
    BY <1>3 DEF ClientAccepts, HandshakeTypeOK, Message
  <2>2. net' \subseteq Message
    BY <1>3, <2>1, SignedTyped DEF ClientAccepts, SendFinish, Send, HandshakeTypeOK, Message
  <2>3. channel' = [channel EXCEPT ![s] = ChannelOf(s, m.hello)]
    BY <1>3 DEF ClientAccepts, OpenChannel, ChannelOf
  <2> QED
    BY <1>3, <2>1, <2>2, <2>3, ChannelTyped DEF ClientAccepts, Goto, HandshakeTypeOK
<1>4. ASSUME NEW s \in Session, NEW m \in net, ServerAccepts(s, m) PROVE HandshakeTypeOK'
  <2>1. peer[s] \in Hello
    BY <1>4 DEF ServerAccepts, Goto, Order, HandshakeTypeOK
  <2>2. channel' = [channel EXCEPT ![s] = ChannelOf(s, peer[s])]
    BY <1>4 DEF ServerAccepts, OpenChannel, ChannelOf
  <2> QED
    BY <1>4, <2>1, <2>2, ChannelTyped DEF ServerAccepts, Goto, HandshakeTypeOK
<1>5. ASSUME NEW s \in Session, NEW m \in net, Refuse(s, m) PROVE HandshakeTypeOK'
  BY <1>5 DEF Refuse, Unacceptable, HelloDue, HandshakeTypeOK
<1>6. ASSUME NEW s \in Session, Abort(s) PROVE HandshakeTypeOK'
  BY <1>6 DEF Abort, Goto, HandshakeTypeOK
<1>7. ASSUME NEW m \in net, NEW key \in WrongKeys, NEW id \in Identity,
             Change(m, key, id)
      PROVE  HandshakeTypeOK'
  <2>1. m \in Message /\ m.hello \in Hello
    BY <1>7 DEF Change, HandshakeTypeOK, Message
  <2>2. [m.hello EXCEPT !.key = key, !.id = id] \in Hello
    BY <2>1, ChangesAssumption DEF Hello
  <2>3. net' \subseteq Message
    BY <1>7, <2>1, <2>2 DEF Change, Send, HandshakeTypeOK, Message
  <2> QED
    BY <1>7, <2>3 DEF Change, HandshakeTypeOK
<1>8. CASE UNCHANGED handshakeVars
  BY <1>8 DEF handshakeVars, HandshakeTypeOK
<1> QED
  BY <1>1, <1>2, <1>3, <1>4, <1>5, <1>6, <1>7, <1>8 DEF HandshakeNext, Proceed

\* A hello that is kept stays; steps other than the two that keep one leave
\* peer alone.
LEMMA OrderNext ==
    HandshakeTypeOK /\ Order /\ [HandshakeNext]_handshakeVars
        => Order' /\ \A s \in Session : peer[s] # Absent => peer'[s] = peer[s]
<1> SUFFICES ASSUME HandshakeTypeOK, Order, [HandshakeNext]_handshakeVars
             PROVE  Order' /\ \A s \in Session : peer[s] # Absent => peer'[s] = peer[s]
  OBVIOUS
<1> DEFINE Kept == \A s \in Session : peer[s] # Absent => peer'[s] = peer[s]
<1>1. ASSUME NEW s \in Session, SendHello(s) PROVE Order' /\ Kept
  BY <1>1 DEF SendHello, Goto, Order, HandshakeTypeOK
<1>2. ASSUME NEW s \in Session, NEW m \in net, AnswerHello(s, m) PROVE Order' /\ Kept
  <2>1. m.hello # Absent /\ m.hello.role = Other(Role[s])
    BY <1>2 DEF AnswerHello, Other
  <2> QED
    BY <1>2, <2>1 DEF AnswerHello, Goto, Order, HandshakeTypeOK
<1>3. ASSUME NEW s \in Session, NEW m \in net, ClientAccepts(s, m) PROVE Order' /\ Kept
  <2>1. m.hello # Absent /\ m.hello.role = Other(Role[s])
    BY <1>3 DEF ClientAccepts, Other
  <2> QED
    BY <1>3, <2>1 DEF ClientAccepts, Goto, Order, HandshakeTypeOK
<1>4. ASSUME NEW s \in Session, NEW m \in net, ServerAccepts(s, m) PROVE Order' /\ Kept
  BY <1>4 DEF ServerAccepts, Goto, Order, HandshakeTypeOK
<1>5. ASSUME NEW s \in Session, NEW m \in net, Refuse(s, m) PROVE Order' /\ Kept
  BY <1>5 DEF Refuse, Unacceptable, HelloDue, Order, HandshakeTypeOK
<1>6. ASSUME NEW s \in Session, Abort(s) PROVE Order' /\ Kept
  BY <1>6 DEF Abort, Goto, Order, HandshakeTypeOK
<1>7. ASSUME NEW m \in net, NEW key \in WrongKeys, NEW id \in Identity,
             Change(m, key, id)
      PROVE  Order' /\ Kept
  BY <1>7 DEF Change, Order
<1>8. CASE UNCHANGED handshakeVars
  BY <1>8 DEF handshakeVars, Order
<1> QED
  BY <1>1, <1>2, <1>3, <1>4, <1>5, <1>6, <1>7, <1>8 DEF HandshakeNext, Proceed

\* Types and order in every reachable state.
LEMMA OrderAlways == HandshakeSpec => [](HandshakeTypeOK /\ Order)
<1>1. HandshakeInit => HandshakeTypeOK /\ Order
  BY ChangesAssumption DEF HandshakeInit, HandshakeTypeOK, Order
<1> QED
  BY <1>1, HandshakeTypeNext, OrderNext, PTL DEF HandshakeSpec

\* Type correctness: a channel exists exactly when the handshake succeeded.
THEOREM HandshakeTypeCorrect == HandshakeSpec => []HandshakeTypeOK
  BY OrderAlways, PTL

------------------------------------------------------------------------------
(* Agreement.                                                               *)

\* t speaks for what is signed and proved over its own hello and peer[t].
Wrote(t, m) ==
    /\ peer[t] # Absent
    /\ m.sig = Signature(t, peer[t])
    /\ m.proof = Proof(t, peer[t])

\* Every signed message was written by a session; a changed hello in it does
\* not change what was signed.
Written == \A m \in net : m.sig = Absent \/ \E t \in Session : Wrote(t, m)

\* t is the session s has agreed with: the two have the same transcript.
Partner(s, t) ==
    /\ peer[t] # Absent
    /\ Role[t] = Other(Role[s])
    /\ Transcript(t, peer[t]) = Transcript(s, peer[s])
    /\ peer[s].id = Id[t]
    /\ Psk[t] = Psk[s]
    /\ PinFits(s, Id[t])

\* A session that is done has a partner and the channel of their keys.
Agreed ==
    \A s \in Session : step[s] = "done" =>
        /\ channel[s] = ChannelOf(s, peer[s])
        /\ \E t \in Session : Partner(s, t)

\* Who accepts a message has found its partner.
LEMMA AcceptedFromPartner ==
    ASSUME HandshakeTypeOK, Written,
           NEW s \in Session, NEW h \in Hello, NEW m \in net, Authentic(s, h, m)
    PROVE  \E t \in Session :
               /\ peer[t] # Absent
               /\ Role[t] = Other(Role[s])
               /\ Transcript(t, peer[t]) = Transcript(s, h)
               /\ h.id = Id[t]
               /\ Psk[t] = Psk[s]
               /\ PinFits(s, Id[t])
<1>1. m.sig = [id |-> h.id, label |-> Other(Role[s]), text |-> Transcript(s, h)]
  BY DEF Authentic, SignatureFits
<1>2. m.proof = [psk |-> Psk[s], label |-> Other(Role[s]), text |-> Transcript(s, h)]
  BY DEF Authentic, ProofFits
<1>3. m.sig # Absent
  <2>1. [id |-> h.id, label |-> Other(Role[s]), text |-> Transcript(s, h)] \in Signed
    BY HelloTyped DEF Signed, Hello, Other
  <2> QED
    BY <1>1, <2>1, AbsentAssumption
<1>4. PICK t \in Session : Wrote(t, m)
  BY <1>3 DEF Written
<1>5. /\ Id[t] = h.id
      /\ Role[t] = Other(Role[s])
      /\ Transcript(t, peer[t]) = Transcript(s, h)
  BY <1>1, <1>4 DEF Wrote, Signature
<1>6. Psk[t] = Psk[s]
  BY <1>2, <1>4 DEF Wrote, Proof
<1>7. PinFits(s, h.id)
  BY DEF Authentic
<1> QED
  BY <1>4, <1>5, <1>6, <1>7 DEF Wrote

\* The invariant is kept by every step.
LEMMA AgreedNext ==
    HandshakeTypeOK /\ Order /\ Written /\ Agreed /\ [HandshakeNext]_handshakeVars => Written' /\ Agreed'
<1> SUFFICES ASSUME HandshakeTypeOK, Order, Written, Agreed, [HandshakeNext]_handshakeVars
             PROVE  Written' /\ Agreed'
  OBVIOUS
<1>1. \A s \in Session : peer[s] # Absent => peer'[s] = peer[s]
  BY OrderNext
<1>2. \A t \in Session, m \in net : Wrote(t, m) => Wrote(t, m)'
  BY <1>1 DEF Wrote, Signature, Proof, Transcript
<1>3. ASSUME NEW s \in Session, NEW t \in Session, peer[s] # Absent, Partner(s, t)
      PROVE  Partner(s, t)'
  BY <1>1, <1>3 DEF Partner, Transcript, PinFits
<1>4. ASSUME NEW s \in Session, step'[s] = "done", step[s] = "done",
             channel'[s] = channel[s]
      PROVE  /\ channel'[s] = ChannelOf(s, peer'[s])
             /\ \E t \in Session : Partner(s, t)'
  <2>1. peer[s] # Absent
    BY <1>4 DEF Order
  <2>2. PICK t \in Session : Partner(s, t)
    BY <1>4 DEF Agreed
  <2>3. channel'[s] = ChannelOf(s, peer'[s])
    BY <1>1, <1>4, <2>1 DEF Agreed
  <2> QED
    BY <1>3, <2>1, <2>2, <2>3
<1>5. ASSUME NEW s \in Session, NEW m \in net, NEW h \in Hello,
             Authentic(s, h, m), peer'[s] = h
      PROVE  \E t \in Session : Partner(s, t)'
  <2>1. PICK t \in Session :
            /\ peer[t] # Absent
            /\ Role[t] = Other(Role[s])
            /\ Transcript(t, peer[t]) = Transcript(s, h)
            /\ h.id = Id[t]
            /\ Psk[t] = Psk[s]
            /\ PinFits(s, Id[t])
    BY <1>5, AcceptedFromPartner
  <2> QED
    BY <1>1, <1>5, <2>1 DEF Partner, Transcript, PinFits
<1>6. ASSUME \A s \in Session : step'[s] = "done" => step[s] = "done",
             UNCHANGED channel
      PROVE  Agreed'
  BY <1>4, <1>6 DEF Agreed, ChannelOf, SendKey, ReceiveKey, Material, Transcript
<1>7. ASSUME NEW s \in Session, SendHello(s) PROVE Written' /\ Agreed'
  <2>1. Written'
    BY <1>2, <1>7 DEF SendHello, Send, Written
  <2>2. Agreed'
    BY <1>6, <1>7 DEF SendHello, Goto, HandshakeTypeOK
  <2> QED
    BY <2>1, <2>2
<1>8. ASSUME NEW s \in Session, NEW m \in net, AnswerHello(s, m)
      PROVE  Written' /\ Agreed'
  <2> DEFINE reply == [from |-> s, hello |-> HelloOf(s),
                       sig |-> Signature(s, m.hello), proof |-> Proof(s, m.hello)]
  <2>1. net' = net \cup {reply} /\ peer'[s] = m.hello /\ m.hello # Absent
    BY <1>8 DEF AnswerHello, Send, HandshakeTypeOK
  <2>2. Wrote(s, reply)'
    BY <2>1 DEF Wrote, Signature, Proof, Transcript
  <2>3. Written'
    BY <1>2, <2>1, <2>2 DEF Written
  <2>4. Agreed'
    BY <1>6, <1>8 DEF AnswerHello, Goto, HandshakeTypeOK
  <2> QED
    BY <2>3, <2>4
<1>9. ASSUME NEW s \in Session, NEW m \in net, ClientAccepts(s, m)
      PROVE  Written' /\ Agreed'
  <2> DEFINE finish == [from |-> s, hello |-> Absent,
                        sig |-> Signature(s, m.hello), proof |-> Proof(s, m.hello)]
  <2>1. net' = net \cup {finish} /\ peer'[s] = m.hello /\ m.hello # Absent
    BY <1>9 DEF ClientAccepts, SendFinish, Send, HandshakeTypeOK
  <2>2. Wrote(s, finish)'
    BY <2>1 DEF Wrote, Signature, Proof, Transcript
  <2>3. Written'
    BY <1>2, <2>1, <2>2 DEF Written
  <2>4. channel' = [channel EXCEPT ![s] = ChannelOf(s, m.hello)]
    BY <1>9 DEF ClientAccepts, OpenChannel, ChannelOf
  <2>5. m.hello \in Hello /\ Authentic(s, m.hello, m)
    BY <1>9, <2>1 DEF ClientAccepts, HandshakeTypeOK, Message
  <2>6. \E t \in Session : Partner(s, t)'
    BY <1>5, <2>1, <2>5
  <2>7. ASSUME NEW u \in Session, u # s, step'[u] = "done"
        PROVE  step[u] = "done" /\ channel'[u] = channel[u]
    BY <1>9, <2>4, <2>7 DEF ClientAccepts, Goto, HandshakeTypeOK
  <2>8. channel'[s] = ChannelOf(s, peer'[s])
    BY <2>1, <2>4 DEF HandshakeTypeOK
  <2>9. Agreed'
    <3>1. \A u \in Session : ChannelOf(u, peer'[u]) = ChannelOf(u, peer[u])'
      BY DEF ChannelOf, SendKey, ReceiveKey, Material, Transcript
    <3> QED
      BY <1>4, <2>6, <2>7, <2>8, <3>1 DEF Agreed
  <2> QED
    BY <2>3, <2>9
<1>10. ASSUME NEW s \in Session, NEW m \in net, ServerAccepts(s, m)
       PROVE  Written' /\ Agreed'
  <2>1. Written'
    BY <1>2, <1>10 DEF ServerAccepts, Written
  <2>2. channel' = [channel EXCEPT ![s] = ChannelOf(s, peer[s])] /\ peer' = peer
    BY <1>10 DEF ServerAccepts, OpenChannel, ChannelOf
  <2>3. peer[s] \in Hello /\ Authentic(s, peer[s], m)
    BY <1>10 DEF ServerAccepts, Goto, Order, HandshakeTypeOK
  <2>4. \E t \in Session : Partner(s, t)'
    BY <1>5, <2>2, <2>3
  <2>5. ASSUME NEW u \in Session, u # s, step'[u] = "done"
        PROVE  step[u] = "done" /\ channel'[u] = channel[u]
    BY <1>10, <2>2, <2>5 DEF ServerAccepts, Goto, HandshakeTypeOK
  <2>6. channel'[s] = ChannelOf(s, peer'[s])
    BY <2>2 DEF HandshakeTypeOK
  <2>7. Agreed'
    <3>1. \A u \in Session : ChannelOf(u, peer'[u]) = ChannelOf(u, peer[u])'
      BY DEF ChannelOf, SendKey, ReceiveKey, Material, Transcript
    <3> QED
      BY <1>4, <2>4, <2>5, <2>6, <3>1 DEF Agreed
  <2> QED
    BY <2>1, <2>7
<1>11. ASSUME NEW s \in Session, NEW m \in net, Refuse(s, m)
       PROVE  Written' /\ Agreed'
  <2>1. Written'
    BY <1>2, <1>11 DEF Refuse, Written
  <2>2. Agreed'
    BY <1>6, <1>11 DEF Refuse, HandshakeTypeOK
  <2> QED
    BY <2>1, <2>2
<1>12. ASSUME NEW s \in Session, Abort(s) PROVE Written' /\ Agreed'
  <2>1. Written'
    BY <1>2, <1>12 DEF Abort, Written
  <2>2. Agreed'
    BY <1>6, <1>12 DEF Abort, Goto, HandshakeTypeOK
  <2> QED
    BY <2>1, <2>2
<1>13. ASSUME NEW m \in net, NEW key \in WrongKeys, NEW id \in Identity,
              Change(m, key, id)
       PROVE  Written' /\ Agreed'
  <2> DEFINE changed == [m EXCEPT !.hello = [@ EXCEPT !.key = key, !.id = id]]
  <2>1. net' = net \cup {changed} /\ m \in Message
    BY <1>13 DEF Change, Send, HandshakeTypeOK
  <2>2. changed.sig = m.sig /\ changed.proof = m.proof
    BY <2>1 DEF Message
  <2>3. \A t \in Session : Wrote(t, m) => Wrote(t, changed)'
    BY <1>2, <2>2 DEF Wrote
  <2>4. Written'
    BY <1>2, <2>1, <2>2, <2>3, ZenonT(30) DEF Written
  <2>5. Agreed'
    BY <1>6, <1>13 DEF Change
  <2> QED
    BY <2>4, <2>5
<1>14. CASE UNCHANGED handshakeVars
  <2>1. Written'
    BY <1>2, <1>14 DEF handshakeVars, Written
  <2>2. Agreed'
    BY <1>6, <1>14 DEF handshakeVars
  <2> QED
    BY <2>1, <2>2
<1> QED
  BY <1>7, <1>8, <1>9, <1>10, <1>11, <1>12, <1>13, <1>14 DEF HandshakeNext, Proceed

Agreement == HandshakeTypeOK /\ Order /\ Written /\ Agreed

\* The invariant holds in every reachable state.
LEMMA AgreementAlways == HandshakeSpec => []Agreement
<1>1. HandshakeInit => Written /\ Agreed
  BY DEF HandshakeInit, Written, Agreed
<1>2. Agreement /\ [HandshakeNext]_handshakeVars => Agreement'
  BY HandshakeTypeNext, OrderNext, AgreedNext DEF Agreement
<1>3. HandshakeSpec => [](HandshakeTypeOK /\ Order)
  BY OrderAlways
<1>4. Agreement <=> HandshakeTypeOK /\ Order /\ Written /\ Agreed
  BY DEF Agreement
<1> QED
  BY <1>1, <1>2, <1>3, <1>4, PTL DEF HandshakeSpec

\* Transcripts tell who the partner is: each keeps the other's hello.
LEMMA PartnersKnowEachOther ==
    ASSUME Agreement, NEW s \in Session, NEW t \in Session, peer[s] # Absent, Partner(s, t)
    PROVE  peer[s] = HelloOf(t) /\ peer[t] = HelloOf(s)
<1>1. CASE Role[s] = "client"
  <2>1. Role[t] = "server"
    BY <1>1 DEF Partner, Other
  <2> QED
    BY <1>1, <2>1 DEF Partner, Transcript
<1>2. CASE Role[s] = "server"
  <2>1. Role[t] = "client"
    BY <1>2 DEF Partner, Other
  <2> QED
    BY <1>2, <2>1 DEF Partner, Transcript
<1> QED
  BY <1>1, <1>2

\* Partners that are both done can read each other.
LEMMA PartnersLinked ==
    ASSUME Agreement, NEW s \in Session, NEW t \in Session,
           step[s] = "done", step[t] = "done", Partner(s, t)
    PROVE  Linked(s, t) /\ Linked(t, s)
<1>1. peer[s] # Absent
  BY DEF Agreement, Order
<1>2. peer[s] = HelloOf(t) /\ peer[t] = HelloOf(s)
  BY <1>1, PartnersKnowEachOther
<1>3. Material(s, peer[s]) = Material(t, peer[t])
  <2>1. peer[s].key = t /\ peer[t].key = s
    BY <1>2 DEF HelloOf
  <2> QED
    BY <2>1 DEF Material, Partner
<1>4. Other(Role[s]) = Role[t] /\ Other(Role[t]) = Role[s]
  BY DEF Partner, Other
<1>5. SendKey(s, peer[s]) = ReceiveKey(t, peer[t])
      /\ SendKey(t, peer[t]) = ReceiveKey(s, peer[s])
  BY <1>3, <1>4 DEF SendKey, ReceiveKey
<1>6. channel[s] = ChannelOf(s, peer[s]) /\ channel[t] = ChannelOf(t, peer[t])
  BY DEF Agreement, Agreed
<1> QED
  BY <1>5, <1>6 DEF Linked, ChannelOf

\* A server with a channel shares it with a client that is done, has the same
\* secret and is the one it pins.
THEOREM ServersAgree == HandshakeSpec => []ServerAgrees
<1>1. Agreement => ServerAgrees
  <2> SUFFICES ASSUME Agreement, NEW s \in Session, Role[s] = "server", step[s] = "done"
               PROVE  \E c \in Session :
                          /\ Role[c] = "client" /\ step[c] = "done"
                          /\ Psk[c] = Psk[s] /\ Pin[s] \in {Absent, Id[c]}
                          /\ channel[s].peer = Id[c] /\ channel[c].peer = Id[s]
                          /\ Linked(s, c)
    BY DEF ServerAgrees
  <2>1. PICK c \in Session : Partner(s, c)
    BY DEF Agreement, Agreed
  <2>2. Role[c] = "client" /\ step[c] = "done"
    BY <2>1 DEF Partner, Other, Agreement, Order
  <2>3. peer[s] # Absent
    BY DEF Agreement, Order
  <2>4. peer[s] = HelloOf(c) /\ peer[c] = HelloOf(s)
    BY <2>1, <2>3, PartnersKnowEachOther
  <2>5. channel[s].peer = Id[c] /\ channel[c].peer = Id[s]
    <3>1. channel[s] = ChannelOf(s, peer[s]) /\ channel[c] = ChannelOf(c, peer[c])
      BY <2>2 DEF Agreement, Agreed
    <3>2. channel[s].peer = peer[s].id /\ channel[c].peer = peer[c].id
      BY <3>1 DEF ChannelOf
    <3> QED
      BY <2>4, <3>2 DEF HelloOf
  <2>6. Linked(s, c)
    BY <2>1, <2>2, PartnersLinked
  <2> QED
    BY <2>1, <2>2, <2>5, <2>6 DEF Partner, PinFits
<1> QED
  BY <1>1, AgreementAlways, PTL

\* A client with a channel has a server as partner that answered its hello.
THEOREM ClientsAgree == HandshakeSpec => []ClientAgrees
<1>1. Agreement => ClientAgrees
  <2> SUFFICES ASSUME Agreement, NEW c \in Session, Role[c] = "client", step[c] = "done"
               PROVE  \E s \in Session :
                          /\ Role[s] = "server" /\ Psk[s] = Psk[c]
                          /\ Pin[c] \in {Absent, Id[s]}
                          /\ peer[s] = HelloOf(c) /\ peer[c] = HelloOf(s)
                          /\ step[s] = "done" => Linked(c, s)
    BY DEF ClientAgrees
  <2>1. PICK s \in Session : Partner(c, s)
    BY DEF Agreement, Agreed
  <2>2. peer[c] # Absent
    BY DEF Agreement, Order
  <2>3. peer[s] = HelloOf(c) /\ peer[c] = HelloOf(s)
    BY <2>1, <2>2, PartnersKnowEachOther
  <2>4. step[s] = "done" => Linked(c, s)
    BY <2>1, PartnersLinked
  <2> QED
    BY <2>1, <2>3, <2>4 DEF Partner, PinFits, Other
<1> QED
  BY <1>1, AgreementAlways, PTL

\* No key is used for sending by two channels, whatever was repeated, mixed up
\* or changed on the network.
THEOREM KeysAreOwn == HandshakeSpec => []OneSenderPerKey
<1>1. Agreement => OneSenderPerKey
  <2> SUFFICES ASSUME Agreement, NEW s \in Session, NEW t \in Session,
                      step[s] = "done", step[t] = "done",
                      channel[s].send = channel[t].send
               PROVE  s = t
    BY DEF OneSenderPerKey
  <2>1. SendKey(s, peer[s]) = SendKey(t, peer[t])
    <3>1. channel[s] = ChannelOf(s, peer[s]) /\ channel[t] = ChannelOf(t, peer[t])
      BY DEF Agreement, Agreed
    <3>2. /\ channel[s].send = SendKey(s, peer[s])
          /\ channel[t].send = SendKey(t, peer[t])
      BY <3>1 DEF ChannelOf
    <3> QED
      BY <3>2
  <2>2. /\ Role[s] = Role[t]
        /\ Transcript(s, peer[s]) = Transcript(t, peer[t])
    BY <2>1 DEF SendKey, Material
  <2>3. HelloOf(s) = HelloOf(t)
    <3>1. CASE Role[s] = "client"
      BY <2>2, <3>1 DEF Transcript
    <3>2. CASE Role[s] = "server"
      BY <2>2, <3>2 DEF Transcript
    <3> QED
      BY <3>1, <3>2
  <2> QED
    BY <2>3 DEF HelloOf
<1> QED
  BY <1>1, AgreementAlways, PTL
==============================================================================
