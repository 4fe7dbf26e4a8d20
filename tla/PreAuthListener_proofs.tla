------------------------ MODULE PreAuthListener_proofs ------------------------
(***************************************************************************)
(* The safety of accept_authenticated for every set of connections and     *)
(* every limit.  Four inductive invariants build on each other: the types  *)
(* with the shape of the calling thread (Shape), the race for the winner   *)
(* (Race), the life of the sockets (Sockets) and where connections are     *)
(* (Places).  With them every step is one of AcceptOne.                    *)
(***************************************************************************)
EXTENDS PreAuthListener, FiniteSetTheorems, TLAPS

\* What the calling thread's position says about its local variables.
Shape ==
    /\ TypeOK
    /\ main # "admit" => handled = None
    /\ main \in {"poll", "stopcheck", "accept", "admit"} => returned = None
    /\ /\ main \in {"settle", "closing", "finally", "finalClosing"}
       /\ outcome = "returned"
       => returned \in Conn

\* Whoever is between the two halves of the critical section holds the lock,
\* and nobody has won before.
Race ==
    /\ queued # {} => done
    /\ \A c \in Conn : worker[c] = "winning" => winnerLock = c /\ queued = {}
    /\ OneWinner

\* The initial states have the right types and shape.
THEOREM ShapeInit == Init => Shape
<1> SUFFICES ASSUME Init PROVE Shape
  OBVIOUS
<1>1. TypeOK
  <2>1. result \in Seq(Conn)
    BY DEF Init
  <2>2. worker \in [Conn -> WorkerStates] /\ sock \in [Conn -> SockStates]
    BY DEF Init, WorkerStates, SockStates
  <2> QED
    BY <2>1, <2>2 DEF Init, TypeOK, MainStates
<1> QED
  BY <1>1 DEF Init, Shape

\* Every step keeps types and shape.
THEOREM ShapeNext == Shape /\ [Next]_vars => Shape'
<1> SUFFICES ASSUME Shape, [Next]_vars PROVE Shape'
  OBVIOUS
<1> USE ConnAssumption DEF Shape, TypeOK, MainStates, WorkerStates, SockStates,
        call, race, conns, env
<1>1. CASE TakeChannel
  <2>1. Head(result) \in Conn /\ Tail(result) \in Seq(Conn)
    BY <1>1 DEF TakeChannel
  <2> QED
    BY <1>1, <2>1 DEF TakeChannel
<1>2. CASE FindNoChannel
  BY <1>2 DEF FindNoChannel
<1>3. CASE ObserveStop
  BY <1>3 DEF ObserveStop
<1>4. CASE EnterAccept
  BY <1>4 DEF EnterAccept
<1>5. CASE AcceptTimeout
  BY <1>5 DEF AcceptTimeout, AfterTimeout
<1>6. CASE AcceptError
  BY <1>6 DEF AcceptError
<1>7. CASE Admit
  BY <1>7 DEF Admit, Close
<1>8. CASE Settle
  BY <1>8 DEF Settle
<1>9. CASE Finally
  BY <1>9 DEF Finally
<1>10. CASE CloseDone
  BY <1>10 DEF CloseDone, AfterClosing
<1>11. ASSUME NEW c \in Conn, Accept(c) PROVE Shape'
  BY <1>11 DEF Accept
<1>12. ASSUME NEW c \in Conn, CloseOne(c) PROVE Shape'
  BY <1>12 DEF CloseOne, Close
<1>13. ASSUME NEW c \in Conn, WorkerStep(c) PROVE Shape'
  <2>1. CASE HandshakeOk(c)
    BY <2>1 DEF HandshakeOk, Goto
  <2>2. CASE HandshakeFail(c)
    BY <2>2 DEF HandshakeFail, Goto, CloseFailed, Close
  <2>3. CASE LoseRace(c)
    BY <2>3 DEF LoseRace, Goto, CloseLoser, Close
  <2>4. CASE EnterRace(c)
    BY <2>4 DEF EnterRace, Goto
  <2>5. CASE WinRace(c)
    BY <2>5 DEF WinRace, Goto, PutChannel
  <2>6. CASE Discard(c)
    BY <2>6 DEF Discard, Goto
  <2> QED
    BY <1>13, <2>1, <2>2, <2>3, <2>4, <2>5, <2>6 DEF WorkerStep
<1>14. CASE Environment
  <2>0. CASE AcceptError
    BY <2>0, <1>6
  <2>1. CASE RequestStop
    BY <2>1 DEF RequestStop
  <2>2. CASE CloseListener
    BY <2>2 DEF CloseListener
  <2>3. ASSUME NEW c \in Conn, Arrive(c) PROVE Shape'
    BY <2>3 DEF Arrive
  <2> QED
    BY <1>14, <2>0, <2>1, <2>2, <2>3 DEF Environment
<1>15. CASE Release
  <2>1. Head(result) \in Conn /\ Tail(result) \in Seq(Conn)
    BY <1>15 DEF Release
  <2> QED
    BY <1>15, <2>1 DEF Release, Close
<1>16. CASE UNCHANGED vars
  BY <1>16 DEF vars
<1> QED
  BY <1>1, <1>2, <1>3, <1>4, <1>5, <1>6, <1>7, <1>8, <1>9, <1>10, <1>11,
     <1>12, <1>13, <1>14, <1>15, <1>16 DEF Next, MainStep
------------------------------------------------------------------------------
(* Types.                                                                   *)

\* Shape holds throughout.
THEOREM ShapeAlways == Spec => []Shape
  BY ShapeInit, ShapeNext, PTL DEF Spec

\* Type correctness.
THEOREM TypeCorrect == Spec => []TypeOK
<1>1. Shape => TypeOK
  BY DEF Shape
<1> QED
  BY <1>1, ShapeAlways, PTL

------------------------------------------------------------------------------
(* The race for the winner.                                                 *)

\* Only EnterRace and WinRace touch what Race speaks about; every other step
\* leaves queued and winnerLock alone, lets no worker reach "winning" and does
\* not reset done.
LEMMA RaceFrame ==
    ASSUME Race, UNCHANGED <<queued, winnerLock>>, done => done',
           \A c \in Conn : worker'[c] = "winning" => worker[c] = "winning"
    PROVE  Race'
  BY DEF Race, OneWinner

\* Every step keeps the race sound: the lock, not the flag, decides.
THEOREM RaceNext == Shape /\ Race /\ [Next]_vars => Race'
<1> SUFFICES ASSUME Shape, Race, [Next]_vars PROVE Race'
  OBVIOUS
<1> USE DEF Shape, TypeOK, race, conns
<1>1. CASE MainStep
  BY <1>1, RaceFrame DEF MainStep, TakeChannel, FindNoChannel, ObserveStop,
     EnterAccept, AcceptTimeout, Admit, Settle, Finally, CloseDone,
     Accept, CloseOne, Close
<1>2. ASSUME NEW c \in Conn, WorkerStep(c) PROVE Race'
  <2>1. CASE HandshakeOk(c) \/ HandshakeFail(c) \/ LoseRace(c) \/ Discard(c)
    BY <2>1, RaceFrame DEF HandshakeOk, HandshakeFail, LoseRace, Discard, Goto
  <2>2. CASE EnterRace(c)
    <3>1. queued = {}
      BY <2>2 DEF EnterRace, RaceOpen, Race
    <3>2. \A d \in Conn : worker[d] # "winning"
      BY <2>2, ConnAssumption DEF EnterRace, RaceOpen, Race
    <3> QED
      BY <2>2, <3>1, <3>2 DEF EnterRace, Goto, Race, OneWinner
  <2>3. CASE WinRace(c)
    <3>1. queued = {} /\ \A d \in Conn : worker[d] = "winning" => d = c
      BY <2>3 DEF WinRace, Race
    <3>2. queued' = {c} /\ done' /\ \A d \in Conn : worker'[d] # "winning"
      BY <2>3, <3>1 DEF WinRace, PutChannel, Goto
    <3> QED
      BY <3>2 DEF Race, OneWinner
  <2> QED
    BY <1>2, <2>1, <2>2, <2>3 DEF WorkerStep
<1>3. CASE Environment
  BY <1>3, RaceFrame DEF Environment, RequestStop, CloseListener, AcceptError,
     Arrive
<1>4. CASE Release
  BY <1>4, RaceFrame DEF Release
<1>5. CASE UNCHANGED vars
  BY <1>5, RaceFrame DEF vars
<1> QED
  BY <1>1, <1>2, <1>3, <1>4, <1>5 DEF Next

\* At most one channel is ever put in the queue.
THEOREM AtMostOneWinner == Spec => []OneWinner
<1>1. Init => Race
  BY DEF Init, Race, OneWinner
<1>2. Race => OneWinner
  BY DEF Race
<1> QED
  BY <1>1, <1>2, ShapeAlways, RaceNext, PTL DEF Spec

------------------------------------------------------------------------------
(* The bound on pending sockets.                                            *)

\* Admission checks the bound under the same lock that guards the set.
THEOREM PendingNext == Shape /\ PendingBounded /\ [Next]_vars => PendingBounded'
<1> SUFFICES ASSUME Shape, PendingBounded, [Next]_vars PROVE PendingBounded'
  OBVIOUS
<1> USE DEF Shape, TypeOK, PendingBounded, conns
<1>1. IsFiniteSet(active) /\ Cardinality(active) \in Nat
  BY ConnAssumption, FS_Subset, FS_CardinalityType
<1>2. ASSUME active' = active PROVE PendingBounded'
  BY <1>2
<1>3. CASE Admit
  <2>1. CASE Full
    BY <1>3, <2>1, <1>2 DEF Admit
  <2>2. CASE ~Full
    <3>1. Cardinality(active \cup {handled})
            \in {Cardinality(active), Cardinality(active) + 1}
      BY <1>1, FS_AddElement, Zenon
    <3>2. active' = active \cup {handled}
      BY <1>3, <2>2 DEF Admit
    <3>3. Cardinality(active \cup {handled}) \in Nat
      BY <1>1, FS_AddElement, FS_CardinalityType
    <3> QED
      BY <1>1, <2>2, <3>1, <3>2, <3>3, PendingAssumption DEF Full
  <2> QED
    BY <2>1, <2>2
<1>4. ASSUME NEW c \in Conn, Discard(c) PROVE PendingBounded'
  <2>1. active' = active \ {c}
    BY <1>4 DEF Discard
  <2>2. Cardinality(active \ {c}) <= Cardinality(active)
    BY <1>1, FS_Subset
  <2>3. Cardinality(active \ {c}) \in Nat
    BY <1>1, FS_Subset, FS_CardinalityType
  <2> QED
    BY <1>1, <2>1, <2>2, <2>3, PendingAssumption
<1>5. CASE MainStep /\ ~Admit
  BY <1>5, <1>2 DEF MainStep, TakeChannel, FindNoChannel, ObserveStop,
     EnterAccept, AcceptTimeout, Settle, Finally, CloseDone,
     Accept, CloseOne
<1>6. ASSUME NEW c \in Conn, WorkerStep(c), ~Discard(c) PROVE PendingBounded'
  BY <1>6, <1>2 DEF WorkerStep, HandshakeOk, HandshakeFail, LoseRace, EnterRace,
     WinRace
<1>7. CASE Environment \/ Release \/ UNCHANGED vars
  BY <1>7, <1>2 DEF Environment, RequestStop, CloseListener, AcceptError,
     Arrive, Release, vars
<1> QED
  BY <1>3, <1>4, <1>5, <1>6, <1>7 DEF Next

\* Never more than max_pending sockets wait for authentication.
THEOREM PendingNeverExceeded == Spec => []PendingBounded
<1>1. Init => PendingBounded
  BY FS_EmptySet, PendingAssumption DEF Init, PendingBounded
<1> QED
  BY <1>1, ShapeAlways, PendingNext, PTL DEF Spec

------------------------------------------------------------------------------
(* The life of the sockets.                                                 *)

\* Every open socket is somebody's to close, and the last snapshot of the
\* calling thread misses none that nobody else will close.
Sockets ==
    /\ \A c \in Conn : sock[c] = "open" => c = handled \/ c \in active \cup queued
    /\ \A c \in Conn : sock[c] \in {"absent", "backlog"} =>
                          c # handled /\ worker[c] = "none" /\ c \notin queued
    /\ \A c \in Conn : worker[c] = "leaving" => sock[c] # "open" \/ c \in queued
    /\ \A c \in queued : \/ sock[c] # "open"
                         \/ c = returned
                         \/ \E i \in DOMAIN result : result[i] = c
    /\ main = "finalClosing" => \A c \in active : c \in toClose \/ sock[c] # "open"
    /\ Finished => \A c \in active : sock[c] # "open"

\* A step that opens no socket, admits nobody and lets no worker leave keeps
\* Sockets, provided the calling thread has not moved.
LEMMA SocketsFrame ==
    ASSUME Sockets, TypeOK,
           UNCHANGED <<main, handled, active, toClose, returned, result, queued>>,
           \A c \in Conn : sock'[c] = "open" => sock[c] = "open",
           \A c \in Conn : sock'[c] \in {"absent", "backlog"} =>
                sock[c] \in {"absent", "backlog"} /\ worker'[c] = worker[c],
           \A c \in Conn : worker'[c] = "leaving" =>
                worker[c] = "leaving" \/ sock'[c] # "open" \/ c \in queued
    PROVE  Sockets'
  BY DEF Sockets, TypeOK, Finished

\* Every step keeps Sockets.
THEOREM SocketsNext == Shape /\ Sockets /\ [Next]_vars => Sockets'
<1> SUFFICES ASSUME Shape, Sockets, [Next]_vars PROVE Sockets'
  OBVIOUS
<1> USE ConnAssumption DEF Shape, race, conns, env, call
<1>0. TypeOK
  OBVIOUS
<1>1. CASE TakeChannel
  <2>1. \A c \in queued : \/ sock[c] # "open"
                        \/ c = returned'
                        \/ \E i \in DOMAIN result' : result'[i] = c
    <3> SUFFICES ASSUME NEW c \in queued, sock[c] = "open", c # Head(result)
                 PROVE  \E i \in DOMAIN Tail(result) : Tail(result)[i] = c
      BY <1>1 DEF TakeChannel
    <3>1. PICK i \in DOMAIN result : result[i] = c
      BY <1>1, <1>0 DEF TakeChannel, Sockets, TypeOK
    <3>2. i # 1 /\ i - 1 \in DOMAIN Tail(result) /\ Tail(result)[i - 1] = c
      BY <3>1, <1>0, <1>1 DEF TakeChannel, TypeOK
    <3> QED
      BY <3>2
  <2> QED
    BY <1>1, <2>1 DEF TakeChannel, Sockets, Finished
<1>2. CASE FindNoChannel \/ ObserveStop \/ EnterAccept \/ AcceptTimeout
           \/ AcceptError \/ Settle
  BY <1>2 DEF FindNoChannel, ObserveStop, EnterAccept, AcceptTimeout,
     AfterTimeout, AcceptError, Settle, Sockets, Finished
<1>3. CASE Admit
  BY <1>3, <1>0 DEF Admit, Close, Sockets, Finished, TypeOK
<1>4. CASE Finally
  BY <1>4 DEF Finally, Sockets, Finished
<1>5. CASE CloseDone
  BY <1>5, <1>0 DEF CloseDone, AfterClosing, Sockets, Finished, TypeOK
<1>6. ASSUME NEW c \in Conn, Accept(c) PROVE Sockets'
  BY <1>6, <1>0 DEF Accept, Sockets, Finished, TypeOK
<1>7. ASSUME NEW c \in Conn, CloseOne(c) PROVE Sockets'
  BY <1>7, <1>0 DEF CloseOne, Close, Sockets, Finished, TypeOK
<1>8. ASSUME NEW c \in Conn, WorkerStep(c) PROVE Sockets'
  <2>1. CASE HandshakeOk(c) \/ EnterRace(c)
    BY <2>1, <1>0, SocketsFrame DEF HandshakeOk, EnterRace, Goto, TypeOK,
       Sockets
  <2>2. CASE HandshakeFail(c) \/ LoseRace(c)
    BY <2>2, <1>0, SocketsFrame DEF HandshakeFail, LoseRace, CloseFailed,
       CloseLoser, Close, Goto, TypeOK
  <2>3. CASE WinRace(c)
    <3>1. \A d \in queued' : \/ sock[d] # "open"
                             \/ d = returned
                             \/ \E i \in DOMAIN result' : result'[i] = d
      <4>1. result' = Append(result, c) /\ result \in Seq(Conn)
        BY <2>3, <1>0 DEF WinRace, PutChannel, TypeOK
      <4>2. DOMAIN result \subseteq DOMAIN result'
            /\ \A i \in DOMAIN result : result'[i] = result[i]
        BY <4>1
      <4>3. Len(result) + 1 \in DOMAIN result' /\ result'[Len(result) + 1] = c
        BY <4>1
      <4> QED
        BY <2>3, <4>2, <4>3 DEF WinRace, PutChannel, Sockets
    <3> QED
      BY <2>3, <3>1, <1>0 DEF WinRace, PutChannel, Goto, Sockets, Finished, TypeOK
  <2>4. CASE Discard(c)
    BY <2>4, <1>0 DEF Discard, Goto, Sockets, Finished, TypeOK
  <2> QED
    BY <1>8, <2>1, <2>2, <2>3, <2>4 DEF WorkerStep
<1>9. CASE RequestStop \/ CloseListener \/ (\E c \in Conn : Arrive(c))
  BY <1>9, <1>0, SocketsFrame DEF RequestStop, CloseListener, Arrive, TypeOK
<1>10. CASE Release
  <2>1. \A c \in queued : \/ sock'[c] # "open"
                        \/ c = returned
                        \/ \E i \in DOMAIN result' : result'[i] = c
    <3> SUFFICES ASSUME NEW c \in queued, sock[c] = "open", c # Head(result),
                        c # returned
                 PROVE  \E i \in DOMAIN Tail(result) : Tail(result)[i] = c
      BY <1>10, <1>0 DEF Release, Close, TypeOK
    <3>1. PICK i \in DOMAIN result : result[i] = c
      BY <1>0 DEF Sockets, TypeOK
    <3>2. i # 1 /\ i - 1 \in DOMAIN Tail(result) /\ Tail(result)[i - 1] = c
      BY <3>1, <1>0, <1>10 DEF Release, TypeOK
    <3> QED
      BY <3>2
  <2> QED
    BY <1>10, <2>1, <1>0 DEF Release, Close, Sockets, Finished, TypeOK
<1>11. CASE UNCHANGED vars
  BY <1>11, <1>0, SocketsFrame DEF vars
<1> QED
  BY <1>1, <1>2, <1>3, <1>4, <1>5, <1>6, <1>7, <1>8, <1>9, <1>10, <1>11
     DEF Next, MainStep, Environment

\* When the call ends, only the returned channel and one still in the queue
\* are open.
THEOREM EverythingElseIsClosed == Spec => []OthersClosed
<1>1. Init => Sockets
  BY ConnAssumption DEF Init, Sockets, Finished
<1>2. Shape /\ Sockets => OthersClosed
  BY ConnAssumption DEF Shape, TypeOK, Sockets, OthersClosed, Finished
<1> QED
  BY <1>1, <1>2, ShapeAlways, SocketsNext, PTL DEF Spec

------------------------------------------------------------------------------
(* The refinement: what becomes of each connection, whoever closes it.      *)

\* Where a connection's thread is says whether it is pending or may be chosen;
\* what the calling thread holds has been admitted, or is about to be.
Places ==
    /\ \A c \in Conn :
         /\ c \in active <=> worker[c] \notin {"none", "ended"}
         /\ c \in queued => worker[c] \in {"leaving", "ended"}
         /\ c = handled => worker[c] = "none"
         /\ c \in toClose => worker[c] # "none"
         /\ c = returned => c \in queued
    /\ \A i \in DOMAIN result : result[i] \in queued

\* Every step keeps Places.
LEMMA PlacesNext == Shape /\ Sockets /\ Places /\ [Next]_vars => Places'
<1> SUFFICES ASSUME Shape, Sockets, Places, [Next]_vars PROVE Places'
  OBVIOUS
<1> USE ConnAssumption DEF Shape, TypeOK, WorkerStates, race, conns, env, call
<1>1. CASE TakeChannel
  <2>1. Head(result) = result[1] /\ 1 \in DOMAIN result
    BY <1>1 DEF TakeChannel
  <2>2. \A i \in DOMAIN Tail(result) : Tail(result)[i] \in queued
    <3> TAKE i \in DOMAIN Tail(result)
    <3>1. i + 1 \in DOMAIN result /\ Tail(result)[i] = result[i + 1]
      BY <1>1 DEF TakeChannel
    <3> QED
      BY <3>1 DEF Places
  <2> QED
    BY <1>1, <2>1, <2>2 DEF TakeChannel, Places
<1>2. CASE FindNoChannel \/ ObserveStop \/ EnterAccept \/ AcceptTimeout
           \/ AcceptError \/ CloseDone
  BY <1>2 DEF FindNoChannel, ObserveStop, EnterAccept, AcceptTimeout,
     AcceptError, CloseDone, Places
<1>3. CASE Settle \/ Finally
  BY <1>3 DEF Settle, Finally, Places
<1>4. CASE Admit
  BY <1>4 DEF Admit, Places
<1>5. ASSUME NEW c \in Conn, Accept(c) PROVE Places'
  BY <1>5 DEF Accept, Places, Sockets
<1>6. ASSUME NEW c \in Conn, CloseOne(c) PROVE Places'
  BY <1>6 DEF CloseOne, Places
<1>7. ASSUME NEW c \in Conn, WorkerStep(c) PROVE Places'
  <2>1. CASE WinRace(c)
    <3>1. result' = Append(result, c) /\ queued' = queued \cup {c}
      BY <2>1 DEF WinRace, PutChannel
    <3>2. \A i \in DOMAIN result' : result'[i] \in queued'
      BY <3>1 DEF Places
    <3> QED
      BY <2>1, <3>1, <3>2 DEF WinRace, Goto, Places
  <2>2. CASE HandshakeOk(c) \/ HandshakeFail(c) \/ LoseRace(c) \/ EnterRace(c)
             \/ Discard(c)
    BY <2>2 DEF HandshakeOk, HandshakeFail, LoseRace, EnterRace, Discard, Goto,
       Places
  <2> QED
    BY <1>7, <2>1, <2>2 DEF WorkerStep
<1>8. CASE RequestStop \/ CloseListener \/ (\E c \in Conn : Arrive(c))
  BY <1>8 DEF RequestStop, CloseListener, Arrive, Places
<1>9. CASE Release
  <2>1. \A i \in DOMAIN Tail(result) : Tail(result)[i] \in queued
    <3> TAKE i \in DOMAIN Tail(result)
    <3>1. i + 1 \in DOMAIN result /\ Tail(result)[i] = result[i + 1]
      BY <1>9 DEF Release
    <3> QED
      BY <3>1 DEF Places
  <2> QED
    BY <1>9, <2>1 DEF Release, Places
<1>10. CASE UNCHANGED vars
  BY <1>10 DEF vars, Places
<1> QED
  BY <1>1, <1>2, <1>3, <1>4, <1>5, <1>6, <1>7, <1>8, <1>9, <1>10
     DEF Next, MainStep, Environment

\* All that the refinement relies on.
Inv == Shape /\ Race /\ PendingBounded /\ Sockets /\ Places

\* All parts hold in every reachable state.
LEMMA Invariance == Spec => []Inv
<1>1. Init => Race /\ Sockets /\ Places
  BY ConnAssumption DEF Init, Race, OneWinner, Sockets, Finished, Places
<1>2. Init => PendingBounded
  BY FS_EmptySet, PendingAssumption DEF Init, PendingBounded
<1> QED
  BY <1>1, <1>2, ShapeAlways, RaceNext, PendingNext, SocketsNext, PlacesNext, PTL
     DEF Spec, Inv

Step == [Simple!Next]_(Simple!vars)
Ended == IF Finished THEN main ELSE "listening"

\* A step after which every connection is where it was, and so is the call.
LEMMA StayingIsStutter ==
    ASSUME \A c \in Conn : Phase(c)' = Phase(c), Ended' = Ended
    PROVE  Step
  BY DEF Step, Ended, Simple!vars

\* Connections that go before they are chosen are dropped.
LEMMA GoingIsDrop ==
    ASSUME NEW lost \in SUBSET Conn, Ended' = Ended,
           \A c \in lost : Phase(c) \in {"new", "pending"},
           \A c \in Conn : Phase(c)' = IF c \in lost THEN "gone" ELSE Phase(c)
    PROVE  Step
<1>1. Simple!Drop(lost)
  BY DEF Simple!Drop, Simple!In, Ended
<1> QED
  BY <1>1 DEF Step, Simple!Next

\* A registered socket is admitted.
LEMMA RegisteringIsAdmit == Inv /\ Admit /\ ~Full => Step
<1> SUFFICES ASSUME Inv, Admit, ~Full PROVE Step
  OBVIOUS
<1> USE DEF Inv, Shape, TypeOK
<1>1. PICK c \in Conn : c = handled /\ c \notin active /\ c \notin queued
  BY DEF Admit, Places
<1>2. Phase(c) = "new" /\ Phase(c)' = "pending"
  BY <1>1, ConnAssumption DEF Admit, Phase, race, env
<1>3. \A d \in Conn \ {c} : Phase(d)' = Phase(d)
  BY <1>1, ConnAssumption DEF Admit, Phase, race, env
<1>4. Simple!In("pending") \subseteq active
  BY DEF Simple!In, Phase
<1>5. Cardinality(Simple!In("pending")) < MaxPending
  <2>1. IsFiniteSet(active) /\ Cardinality(active) \in Nat
    BY ConnAssumption, FS_Subset, FS_CardinalityType
  <2>2. Cardinality(Simple!In("pending")) <= Cardinality(active)
    BY <2>1, <1>4, FS_Subset
  <2>3. Cardinality(Simple!In("pending")) \in Nat
    BY <2>1, <1>4, FS_Subset, FS_CardinalityType
  <2> QED
    BY <2>1, <2>2, <2>3, PendingAssumption DEF Full
<1>6. ~Finished /\ ~Finished'
  BY DEF Admit, Finished
<1>7. Ended = "listening" /\ Ended' = Ended
  BY <1>6 DEF Ended
<1>8. [d \in Conn |-> Phase(d)]' = [[d \in Conn |-> Phase(d)] EXCEPT ![c] = "pending"]
  BY <1>2, <1>3
<1>9. Simple!Admit(c)
  <2>1. [d \in Conn |-> Phase(d)][c] = "new"
    BY <1>2
  <2>2. Simple!Cardinality(Simple!In("pending")) = Cardinality(Simple!In("pending"))
    BY DEF Simple!Cardinality, Cardinality  \* AcceptOne has its own copy
  <2> QED
    BY <2>1, <2>2, <1>5, <1>7, <1>8, Zenon DEF Simple!Admit, Ended
<1> QED
  BY <1>9 DEF Step, Simple!Next

\* The worker that wins the race is chosen, and it is the first.
LEMMA WinningIsChoose == ASSUME NEW c \in Conn, Inv, WinRace(c) PROVE Step
<1> USE DEF Inv, Shape, TypeOK
<1>1. queued = {} /\ c \in active /\ c # handled
  BY DEF WinRace, Race, Places
<1>2. Phase(c) = "pending" /\ Phase(c)' = "chosen"
  BY <1>1 DEF WinRace, PutChannel, Phase
<1>3. \A d \in Conn \ {c} : Phase(d)' = Phase(d)
  BY <1>1 DEF WinRace, PutChannel, Phase, call
<1>4. Simple!In("chosen") = {}
  BY <1>1 DEF Simple!In, Phase
<1>5. Ended' = Ended
  BY DEF WinRace, Ended, Finished
<1>6. Simple!Choose(c)
  BY <1>2, <1>3, <1>4, <1>5 DEF Simple!Choose, Ended
<1> QED
  BY <1>6 DEF Step, Simple!Next

\* The call ends once, with a chosen channel or with an exception.
LEMMA EndingIsReturnOrRaise == Inv /\ CloseDone => Step
<1> SUFFICES ASSUME Inv, CloseDone PROVE Step
  OBVIOUS
<1> USE DEF Inv, Shape, TypeOK
<1>1. \A c \in Conn : Phase(c)' = Phase(c)
  BY DEF CloseDone, Phase, call, race, conns, env
<1>2. CASE main = "closing"
  BY <1>1, <1>2, StayingIsStutter DEF CloseDone, AfterClosing, Ended, Finished
<1>3. CASE main = "finalClosing" /\ outcome = "returned"
  <2>1. returned \in Conn /\ Phase(returned) = "chosen"
    BY <1>3 DEF Places, Phase
  <2>2. returned \in Simple!In("chosen")
    BY <2>1 DEF Simple!In
  <2>3. ~Finished /\ Ended' = "returned"
    BY <1>3 DEF CloseDone, AfterClosing, Ended, Finished
  <2>4. Simple!Return
    BY <1>1, <2>2, <2>3 DEF Simple!Return, Ended
  <2> QED
    BY <2>4 DEF Step, Simple!Next
<1>4. CASE main = "finalClosing" /\ outcome = "raised"
  <2>1. ~Finished /\ Ended' = "raised"
    BY <1>4 DEF CloseDone, AfterClosing, Ended, Finished
  <2>2. Simple!Raise
    BY <1>1, <2>1 DEF Simple!Raise, Ended
  <2> QED
    BY <2>2 DEF Step, Simple!Next
<1> QED
  BY <1>2, <1>3, <1>4 DEF CloseDone

\* Every step of every thread is one of these.
LEMMA StepIsStep == Inv /\ [Next]_vars => Step
<1> SUFFICES ASSUME Inv, [Next]_vars PROVE Step
  OBVIOUS
<1> USE ConnAssumption DEF Inv, Shape, TypeOK, race, conns, env, call
<1>1. CASE TakeChannel \/ FindNoChannel \/ ObserveStop \/ EnterAccept
           \/ AcceptTimeout \/ AcceptError \/ Settle \/ Finally
  <2>1. \A c \in Conn : Phase(c)' = Phase(c)
    BY <1>1 DEF Phase, TakeChannel, FindNoChannel, ObserveStop, EnterAccept,
       AcceptTimeout, AcceptError, Settle, Finally
  <2>2. ~Finished /\ ~Finished'
    BY <1>1 DEF Finished, TakeChannel, FindNoChannel, ObserveStop, EnterAccept,
       AcceptTimeout, AfterTimeout, AcceptError, Settle, Finally
  <2> QED
    BY <2>1, <2>2, StayingIsStutter DEF Ended
<1>2. CASE Admit
  <2>1. CASE Full
    <3>1. PICK c \in Conn : c = handled /\ c \notin active \cup queued
      BY <1>2 DEF Admit, Places
    <3>2. Phase(c) = "new" /\ Phase(c)' = "gone"
      BY <1>2, <2>1, <3>1 DEF Admit, Close, Phase
    <3>3. \A d \in Conn \ {c} : Phase(d)' = Phase(d)
      BY <1>2, <2>1, <3>1 DEF Admit, Close, Phase
    <3>4. Ended' = Ended
      BY <1>2 DEF Admit, Ended, Finished
    <3>5. {c} \subseteq Conn /\ \A d \in Conn : Phase(d)' = IF d \in {c} THEN "gone" ELSE Phase(d)
      BY <3>2, <3>3
    <3> QED
      BY <3>2, <3>4, <3>5, GoingIsDrop
  <2> QED
    BY <1>2, <2>1, RegisteringIsAdmit
<1>3. ASSUME NEW c \in Conn, Accept(c) PROVE Step
  <2>1. \A d \in Conn : Phase(d)' = Phase(d)
    BY <1>3 DEF Accept, Phase
  <2>2. Ended' = Ended
    BY <1>3 DEF Accept, Ended, Finished
  <2> QED
    BY <2>1, <2>2, StayingIsStutter
<1>4. ASSUME NEW c \in Conn, CloseOne(c) PROVE Step
  <2>1. sock[c] \notin {"absent", "backlog"}
    BY <1>4 DEF CloseOne, Places, Sockets
  <2>2. \A d \in Conn : Phase(d)' = Phase(d)
    BY <1>4, <2>1 DEF CloseOne, Close, Phase
  <2> QED
    BY <1>4, <2>2, StayingIsStutter DEF CloseOne, Ended, Finished
<1>5. ASSUME NEW c \in Conn, WorkerStep(c), ~WinRace(c) PROVE Step
  <2>1. Ended' = Ended
    BY <1>5 DEF WorkerStep, HandshakeOk, HandshakeFail, LoseRace, EnterRace,
       Discard, Ended, Finished
  <2>2. c \in active /\ c # handled /\ sock[c] \notin {"absent", "backlog"}
    BY <1>5 DEF WorkerStep, HandshakeOk, HandshakeFail, LoseRace, EnterRace,
       Discard, Places, Sockets
  <2>3. CASE ~Discard(c)
    <3>1. \A d \in Conn : Phase(d)' = Phase(d)
      BY <1>5, <2>2, <2>3 DEF WorkerStep, HandshakeOk, HandshakeFail, LoseRace,
         EnterRace, CloseFailed, CloseLoser, Close, Phase
    <3> QED
      BY <2>1, <3>1, StayingIsStutter
  <2>4. CASE Discard(c) /\ c \in queued
    <3>1. \A d \in Conn : Phase(d)' = Phase(d)
      BY <2>4 DEF Discard, Phase
    <3> QED
      BY <2>1, <3>1, StayingIsStutter
  <2>5. CASE Discard(c) /\ c \notin queued
    <3>1. Phase(c) = "pending" /\ Phase(c)' = "gone"
      BY <2>2, <2>5 DEF Discard, Phase
    <3>2. \A d \in Conn \ {c} : Phase(d)' = Phase(d)
      BY <2>5 DEF Discard, Phase
    <3> QED
      BY <2>1, <3>1, <3>2, GoingIsDrop
  <2> QED
    BY <2>3, <2>4, <2>5
<1>6. CASE RequestStop \/ (\E c \in Conn : Arrive(c))
  <2>1. \A d \in Conn : Phase(d)' = Phase(d)
    BY <1>6 DEF RequestStop, Arrive, Phase
  <2>2. Ended' = Ended
    BY <1>6 DEF RequestStop, Arrive, Ended, Finished
  <2> QED
    BY <2>1, <2>2, StayingIsStutter
<1>7. CASE CloseListener
  <2> DEFINE lost == {c \in Conn : sock[c] = "backlog"}
  <2>1. \A c \in lost : c \notin active \cup queued /\ c # handled
    BY DEF Places, Sockets
  <2>2. \A c \in lost : Phase(c) = "new" /\ Phase(c)' = "gone"
    BY <1>7, <2>1 DEF CloseListener, Phase
  <2>3. \A c \in Conn \ lost : Phase(c)' = Phase(c)
    BY <1>7 DEF CloseListener, Phase
  <2>4. Ended' = Ended
    BY <1>7 DEF CloseListener, Ended, Finished
  <2> QED
    BY <2>2, <2>3, <2>4, GoingIsDrop
<1>8. CASE Release
  <2>1. Head(result) \in queued
    BY <1>8 DEF Release, Places
  <2>2. \A d \in Conn : Phase(d)' = Phase(d)
    BY <1>8, <2>1 DEF Release, Close, Phase
  <2> QED
    BY <1>8, <2>2, StayingIsStutter DEF Release, Ended, Finished
<1>9. CASE UNCHANGED vars
  BY <1>9, StayingIsStutter DEF vars, Phase, Ended, Finished
<1> QED
  BY <1>1, <1>2, <1>3, <1>4, <1>5, <1>6, <1>7, <1>8, <1>9, WinningIsChoose,
     EndingIsReturnOrRaise DEF Next, MainStep, Environment

\* The threads, the lock and the flags implement AcceptOne.
THEOREM AcceptOneImplemented == Spec => ImplementsAcceptOne
<1>1. Init => Simple!Init
  BY ConnAssumption DEF Init, Simple!Init, Phase, Finished
<1>2. Inv /\ [Next]_vars => [Simple!Next]_(Simple!vars)
  BY StepIsStep DEF Step
<1> QED
  BY Invariance, <1>1, <1>2, PTL DEF Spec, ImplementsAcceptOne, Simple!Spec
===============================================================================
