-------------------------- MODULE FileStores_proofs --------------------------
(***************************************************************************)
(* The files that the processes of a device share: identity and contacts   *)
(* (PeerStore), and the keys for client authorisation (ClientAuth).        *)
(***************************************************************************)
EXTENDS PeerStore, ClientAuth, TLAPS

------------------------------------------------------------------------------
(***************************************************************************)
(* Proofs about ClientAuth for any clients and any number of keys.  The    *)
(* invariant says what the start of the service has done at each of its    *)
(* lines: what may be in the directory Tor reads, and which authorised     *)
(* keys are either there or still to be copied.                            *)
(***************************************************************************)

USE MaxKeysAssumption

------------------------------------------------------------------------------
(* The parts of the invariant.                                              *)

\* The two histories: what has been authorised all the time still is, and what
\* is authorised now has been so at some time; keys are numbered as they are made.
Histories ==
    /\ \A c \in Client : server[c] <= Len(owner)
    /\ kept \subseteq Keys(server)
    /\ service # "down" => Keys(server) \subseteq was

\* Nothing old survives the first loop, but for what could not be removed.
NothingOld ==
    /\ service \in {"list", "copy", "spawn"} => Keys(target) \subseteq was \cup stuck
    /\ service = "up" => loaded \subseteq was \cup stuck

\* Every key that has stayed is still to be copied, or has been.
NothingLost ==
    /\ service \in {"copy", "spawn"} =>
          \A c \in Client : server[c] \in kept => c \in todo \/ target[c] = server[c]
    /\ service = "spawn" => todo = {}
    /\ service = "up" => kept \subseteq loaded

\* A start that has found somebody has a file, or has one to copy.
SomebodyThere ==
    /\ service = "copy" => ~nobody
    /\ service \in {"copy", "spawn"} /\ ~nobody => todo # {} \/ Named(target) # {}
    /\ service = "up" /\ ~nobody => loaded # {}

AuthInv == AuthTypeOK /\ Histories /\ NothingOld /\ NothingLost /\ SomebodyThere

------------------------------------------------------------------------------
(* Every step keeps every part.                                             *)

\* Every step keeps the types.
LEMMA AuthTypeNext == AuthInv /\ [AuthNext]_authVars => AuthTypeOK'
<1> SUFFICES ASSUME AuthInv, [AuthNext]_authVars PROVE AuthTypeOK'
  OBVIOUS
<1> USE DEF AuthInv, AuthTypeOK, fileVars, startVars
<1>1. ASSUME NEW c \in Client, Generate(c) PROVE AuthTypeOK'
  <2>1. owner' = Append(owner, c) /\ owner' \in Seq(Client) /\ Len(owner') \in Nat
    BY <1>1 DEF Generate
  <2>2. server' = [server EXCEPT ![c] = Len(owner')] /\ UNCHANGED <<private, temporary, startVars>>
    BY <1>1 DEF Generate, Changes
  <2>3. server' \in [Client -> Nat]
    BY <2>1, <2>2
  <2>4. was' = was \cup Keys(server') /\ kept' = kept \cap Keys(server')
    BY <1>1 DEF Generate, Changes
  <2>5. was' \subseteq Nat /\ kept' \subseteq Nat
    BY <2>3, <2>4 DEF Keys, Named
  <2> QED
    BY <2>1, <2>2, <2>3, <2>5
<1>2. ASSUME NEW c \in Client, Revoke(c) PROVE AuthTypeOK'
  <2>1. server' = [server EXCEPT ![c] = 0] /\ UNCHANGED <<owner, private, temporary, startVars>>
    BY <1>2 DEF Revoke, Changes
  <2>2. was' = was \cup Keys(server') /\ kept' = kept \cap Keys(server')
    BY <1>2 DEF Revoke, Changes
  <2>3. server' \in [Client -> Nat]
    BY <2>1
  <2>4. was' \subseteq Nat /\ kept' \subseteq Nat
    BY <2>2, <2>3 DEF Keys, Named
  <2> QED
    BY <2>1, <2>3, <2>4
<1>3. ASSUME NEW c \in Client, Import(c) PROVE AuthTypeOK'
  BY <1>3, SMTT(30) DEF Import
<1>4. ASSUME NEW c \in Client, Remove(c) PROVE AuthTypeOK'
  BY <1>4 DEF Remove
<1>5. ASSUME NEW c \in Client, Copy(c) PROVE AuthTypeOK'
  <2>1. target' \in [Client -> Nat]
    BY <1>5 DEF Copy, Vanished, Ended, Empty
  <2>2. service' \in {service, "down"} /\ todo' \subseteq Client
    BY <1>5 DEF Copy, Vanished
  <2>3. UNCHANGED <<fileVars, temporary, nobody, was, kept>>
    BY <1>5 DEF Copy
  <2> QED
    BY <2>1, <2>2, <2>3
<1>6. CASE BeginAuth
  <2>1. was' = Keys(server) /\ kept' = Keys(server)
    BY <1>6 DEF BeginAuth
  <2>2. was' \subseteq Nat /\ kept' \subseteq Nat
    BY <2>1 DEF Keys, Named
  <2>3. target' \in [Client -> Nat]
    BY <1>6 DEF BeginAuth, Empty
  <2>4. service' = "clean" /\ nobody' = FALSE /\ UNCHANGED <<fileVars, temporary, todo>>
    BY <1>6 DEF BeginAuth
  <2> QED
    BY <2>2, <2>3, <2>4
<1>7. CASE Clean
  <2>1. PICK failed \in SUBSET Named(target) :
            target' = [c \in Client |-> IF c \in failed THEN target[c] ELSE 0]
    BY <1>7 DEF Clean, Stale
  <2>2. target' \in [Client -> Nat]
    BY <2>1
  <2>3. service' = "list" /\ UNCHANGED <<fileVars, temporary, todo, nobody, was, kept>>
    BY <1>7 DEF Clean
  <2> QED
    BY <2>2, <2>3
<1>8. CASE List
  BY <1>8 DEF List, Named
<1>9. CASE Copied
  BY <1>9 DEF Copied
<1>10. CASE Spawn
  BY <1>10 DEF Spawn
<1>11. CASE Stop
  BY <1>11 DEF Stop, Ended, Empty
<1>12. CASE KillAuth
  BY <1>12 DEF KillAuth
<1>13. CASE UNCHANGED authVars
  BY <1>13 DEF authVars
<1> QED
  BY <1>1, <1>2, <1>3, <1>4, <1>5, <1>6, <1>7, <1>8, <1>9, <1>10, <1>11, <1>12, <1>13 DEF AuthNext

\* Every step keeps the histories.
LEMMA HistoriesNext == AuthInv /\ [AuthNext]_authVars => Histories'
<1> SUFFICES ASSUME AuthInv, [AuthNext]_authVars PROVE Histories'
  OBVIOUS
<1> USE DEF AuthInv, AuthTypeOK, fileVars, startVars, Histories, Keys, Named
<1>1. ASSUME NEW c \in Client, Generate(c) PROVE Histories'
  BY <1>1 DEF Generate, Changes
<1>2. ASSUME NEW c \in Client, Revoke(c) PROVE Histories'
  BY <1>2 DEF Revoke, Changes
<1>3. ASSUME NEW c \in Client, Import(c) PROVE Histories'
  BY <1>3 DEF Import
<1>4. ASSUME NEW c \in Client, Remove(c) PROVE Histories'
  BY <1>4 DEF Remove
<1>5. ASSUME NEW c \in Client, Copy(c) PROVE Histories'
  BY <1>5 DEF Copy, Vanished, Ended, Empty
<1>6. CASE BeginAuth
  BY <1>6 DEF BeginAuth, Empty
<1>7. CASE Clean
  BY <1>7 DEF Clean, Stale
<1>8. CASE List
  BY <1>8 DEF List, Named
<1>9. CASE Copied
  BY <1>9 DEF Copied
<1>10. CASE Spawn
  BY <1>10 DEF Spawn
<1>11. CASE Stop
  BY <1>11 DEF Stop, Ended, Empty
<1>12. CASE KillAuth
  BY <1>12 DEF KillAuth
<1>13. CASE UNCHANGED authVars
  BY <1>13 DEF authVars
<1> QED
  BY <1>1, <1>2, <1>3, <1>4, <1>5, <1>6, <1>7, <1>8, <1>9, <1>10, <1>11, <1>12, <1>13 DEF AuthNext

\* Every step keeps what the directory may hold.
LEMMA NothingOldNext == AuthInv /\ [AuthNext]_authVars => NothingOld'
<1> SUFFICES ASSUME AuthInv, [AuthNext]_authVars PROVE NothingOld'
  OBVIOUS
<1> USE DEF AuthInv, AuthTypeOK, fileVars, startVars, Histories, NothingOld, Keys, Named
<1>1. ASSUME NEW c \in Client, Generate(c) PROVE NothingOld'
  BY <1>1 DEF Generate, Changes
<1>2. ASSUME NEW c \in Client, Revoke(c) PROVE NothingOld'
  BY <1>2 DEF Revoke, Changes
<1>3. ASSUME NEW c \in Client, Import(c) PROVE NothingOld'
  BY <1>3 DEF Import
<1>4. ASSUME NEW c \in Client, Remove(c) PROVE NothingOld'
  BY <1>4 DEF Remove
<1>5. ASSUME NEW c \in Client, Copy(c) PROVE NothingOld'
  <2>1. UNCHANGED <<was, stuck>> /\ service = "copy"
    BY <1>5 DEF Copy
  <2>2. service' \in {"copy", "down"}
    BY <1>5 DEF Copy, Vanished
  <2>3. CASE service' = "down"
    BY <2>3
  <2>4. CASE service' = "copy"
    <3>1. server[c] # 0 /\ target' = [target EXCEPT ![c] = server[c]]
      BY <1>5, <2>4 DEF Copy, Vanished
    <3>2. server[c] \in was
      BY <2>1, <3>1
    <3>3. Keys(target)' \subseteq Keys(target) \cup {server[c]}
      BY <3>1
    <3> QED
      BY <2>1, <2>4, <3>2, <3>3
  <2> QED
    BY <2>2, <2>3, <2>4
<1>6. CASE BeginAuth
  BY <1>6 DEF BeginAuth, Empty
<1>7. CASE Clean
  BY <1>7 DEF Clean, Stale
<1>8. CASE List
  BY <1>8 DEF List, Named
<1>9. CASE Copied
  BY <1>9 DEF Copied
<1>10. CASE Spawn
  BY <1>10 DEF Spawn
<1>11. CASE Stop
  BY <1>11 DEF Stop, Ended, Empty
<1>12. CASE KillAuth
  BY <1>12 DEF KillAuth
<1>13. CASE UNCHANGED authVars
  BY <1>13 DEF authVars
<1> QED
  BY <1>1, <1>2, <1>3, <1>4, <1>5, <1>6, <1>7, <1>8, <1>9, <1>10, <1>11, <1>12, <1>13 DEF AuthNext

\* Every step keeps track of the keys that have stayed.
LEMMA NothingLostNext == AuthInv /\ [AuthNext]_authVars => NothingLost'
<1> SUFFICES ASSUME AuthInv, [AuthNext]_authVars PROVE NothingLost'
  OBVIOUS
<1> USE DEF AuthInv, AuthTypeOK, fileVars, startVars, Histories, NothingLost, Keys, Named
<1>1. ASSUME NEW c \in Client, Generate(c) PROVE NothingLost'
  BY <1>1 DEF Generate, Changes
<1>2. ASSUME NEW c \in Client, Revoke(c) PROVE NothingLost'
  BY <1>2 DEF Revoke, Changes
<1>3. ASSUME NEW c \in Client, Import(c) PROVE NothingLost'
  BY <1>3 DEF Import
<1>4. ASSUME NEW c \in Client, Remove(c) PROVE NothingLost'
  BY <1>4 DEF Remove
<1>5. ASSUME NEW c \in Client, Copy(c) PROVE NothingLost'
  BY <1>5 DEF Copy, Vanished, Ended, Empty
<1>6. CASE BeginAuth
  BY <1>6 DEF BeginAuth, Empty
<1>7. CASE Clean
  BY <1>7 DEF Clean, Stale
<1>8. CASE List
  BY <1>8 DEF List, Named
<1>9. CASE Copied
  BY <1>9 DEF Copied
<1>10. CASE Spawn
  BY <1>10 DEF Spawn
<1>11. CASE Stop
  BY <1>11 DEF Stop, Ended, Empty
<1>12. CASE KillAuth
  BY <1>12 DEF KillAuth
<1>13. CASE UNCHANGED authVars
  BY <1>13 DEF authVars
<1> QED
  BY <1>1, <1>2, <1>3, <1>4, <1>5, <1>6, <1>7, <1>8, <1>9, <1>10, <1>11, <1>12, <1>13 DEF AuthNext

\* Every step keeps track of whether anybody is authorised.
LEMMA SomebodyThereNext == AuthInv /\ [AuthNext]_authVars => SomebodyThere'
<1> SUFFICES ASSUME AuthInv, [AuthNext]_authVars PROVE SomebodyThere'
  OBVIOUS
<1> USE DEF AuthInv, AuthTypeOK, fileVars, startVars, NothingLost, SomebodyThere, Keys, Named
<1>1. ASSUME NEW c \in Client, Generate(c) PROVE SomebodyThere'
  BY <1>1 DEF Generate, Changes
<1>2. ASSUME NEW c \in Client, Revoke(c) PROVE SomebodyThere'
  BY <1>2 DEF Revoke, Changes
<1>3. ASSUME NEW c \in Client, Import(c) PROVE SomebodyThere'
  BY <1>3 DEF Import
<1>4. ASSUME NEW c \in Client, Remove(c) PROVE SomebodyThere'
  BY <1>4 DEF Remove
<1>5. ASSUME NEW c \in Client, Copy(c) PROVE SomebodyThere'
  BY <1>5 DEF Copy, Vanished, Ended, Empty
<1>6. CASE BeginAuth
  BY <1>6 DEF BeginAuth, Empty
<1>7. CASE Clean
  BY <1>7 DEF Clean, Stale
<1>8. CASE List
  BY <1>8 DEF List, Named
<1>9. CASE Copied
  BY <1>9 DEF Copied
<1>10. CASE Spawn
  BY <1>10 DEF Spawn
<1>11. CASE Stop
  BY <1>11 DEF Stop, Ended, Empty
<1>12. CASE KillAuth
  BY <1>12 DEF KillAuth
<1>13. CASE UNCHANGED authVars
  BY <1>13 DEF authVars
<1> QED
  BY <1>1, <1>2, <1>3, <1>4, <1>5, <1>6, <1>7, <1>8, <1>9, <1>10, <1>11, <1>12, <1>13 DEF AuthNext

------------------------------------------------------------------------------
(* The theorems.                                                            *)

\* The invariant holds at the start.
LEMMA InvInit == AuthInit => AuthInv
<1> SUFFICES ASSUME AuthInit PROVE AuthInv
  OBVIOUS
<1>1. AuthTypeOK
  <2>1. owner \in Seq(Client)
    BY DEF AuthInit
  <2>2. server \in [Client -> Nat] /\ private \in [Client -> Nat] /\ target \in [Client -> Nat]
    BY DEF AuthInit
  <2>3. todo \subseteq Client /\ was \subseteq Nat /\ kept \subseteq Nat
    BY DEF AuthInit
  <2>4. temporary \in BOOLEAN /\ nobody \in BOOLEAN /\ service = "down"
    BY DEF AuthInit
  <2> QED
    BY <2>1, <2>2, <2>3, <2>4 DEF AuthTypeOK
<1>2. Histories /\ NothingOld /\ NothingLost /\ SomebodyThere
  BY DEF AuthInit, Histories, Keys, Named, NothingOld, NothingLost, SomebodyThere
<1> QED
  BY <1>1, <1>2 DEF AuthInv

\* The invariant holds for ever.
LEMMA Invariance == AuthSpec => []AuthInv
<1>1. AuthInv /\ [AuthNext]_authVars => AuthInv'
  <2> SUFFICES ASSUME AuthInv, [AuthNext]_authVars PROVE AuthInv'
    OBVIOUS
  <2> QED
    BY AuthTypeNext, HistoriesNext, NothingOldNext, NothingLostNext, SomebodyThereNext DEF AuthInv
<1> QED
  BY InvInit, <1>1, PTL DEF AuthSpec

\* The files, the keys in them and the start of the service are always well
\* typed.
THEOREM AuthTypeCorrect == AuthSpec => []AuthTypeOK
<1>1. AuthInv => AuthTypeOK
  BY DEF AuthInv
<1> QED
  BY Invariance, <1>1, PTL

\* However commands interleave with starts, stops and kills: Tor has read
\* every key that stayed authorised and none that was not.
THEOREM SnapshotTaken == AuthSpec => []StartTakesSnapshot
<1>1. AuthInv => StartTakesSnapshot
  BY DEF AuthInv, NothingOld, NothingLost, StartTakesSnapshot
<1> QED
  BY Invariance, <1>1, PTL

\* However commands interleave with starts, stops and kills: a service that
\* lets in everyone has found no authorised client when it started.
THEOREM NeverOpened == AuthSpec => []NeverOpenByAccident
<1>1. AuthInv => NeverOpenByAccident
  BY DEF AuthInv, AuthTypeOK, SomebodyThere, NeverOpenByAccident
<1> QED
  BY Invariance, <1>1, PTL

------------------------------------------------------------------------------
(***************************************************************************)
(* Proofs about PeerStore for any tasks, contacts and fingerprints.  The   *)
(* invariant has four parts: which steps belong to which kind of task, who *)
(* may rely on a key being there, what a task on an exclusive contact      *)
(* knows of the files, and who is about when there is no identity.         *)
(***************************************************************************)

USE TaskAssumption, ContactAssumption, CalmAssumption, NoneAssumption

------------------------------------------------------------------------------
(* The parts of the invariant.                                              *)

SessionSteps == {"key", "meta", "identity", "generate", "handshake", "pin", "run"}

StepsOf(kind) ==
    CASE kind = "listen" -> SessionSteps
      [] kind = "call" -> SessionSteps \cup {"address"}
      [] kind = "create" -> {"exists", "write", "fresh"}
      [] kind = "import" -> {"write", "key", "meta", "absent", "fresh"}
      [] kind = "init" -> {"identity", "generate", "key", "meta", "secret", "write"}
      [] kind = "replace" -> {"identity", "generate", "secret", "write"}

\* A task takes only the steps of its kind, and one that has not begun has no
\* identity yet.
Placed ==
    \A t \in Task :
        /\ pc[t] \in Over \cup StepsOf(Kind[t])
        /\ pc[t] = "idle" => ident[t] = None

AfterKey == {"meta", "address", "handshake", "pin", "run", "absent", "fresh"}

\* Whoever has seen or written a key finds it there; only then do metadata exist.
Keyed ==
    /\ MetaHasKey
    /\ \A t \in Task :
           \/ pc[t] \in AfterKey
           \/ Session(t) /\ pc[t] \in {"identity", "generate"}
           => key[Of[t]] # None

\* A task on an exclusive contact is the only one there, and what it has read
\* or found missing is still so.
Owned ==
    \A t \in Task : Of[t] \in Exclusive =>
        /\ \A u \in Task : Running(t) /\ Running(u) /\ Of[u] = Of[t] => u = t
        /\ Session(t) /\ pc[t] \in {"identity", "generate", "address", "handshake", "pin"} =>
               pin[t] = StoredPin(Of[t])
        /\ pc[t] = "pin" => pin[t] \in {NoPin, shown[t]}
        /\ pc[t] = "run" => meta[Of[t]] = shown[t]
        /\ pc[t] = "write" /\ Kind[t] \notin {"import", "replace"} => key[Of[t]] = None
        /\ pc[t] = "fresh" => meta[Of[t]] = None

\* After a calm start a task is alone until there is an identity, and whoever
\* has one has that on disk.
Calm ==
    CalmStart =>
        /\ \A t, u \in Task : Running(t) /\ Running(u) /\ identity = None => t = u
        /\ \A t \in Task : pc[t] = "generate" => identity = None
        /\ \A t \in Task : Running(t) /\ ident[t] # None => ident[t] = identity

Inv == TypeOK /\ Placed /\ Keyed /\ Owned /\ Calm

------------------------------------------------------------------------------
(* Every step keeps every part.                                             *)

\* Every step keeps Placed.
LEMMA PlacedNext == Inv /\ [Next]_vars => Placed'
<1> SUFFICES ASSUME Inv, [Next]_vars PROVE Placed'
  OBVIOUS
<1> USE DEF Inv, TypeOK, Placed, StepsOf, SessionSteps, Over, Goto, Session, Running, files, local
<1>1. ASSUME NEW t \in Task, Begin(t) PROVE Placed'
  BY <1>1 DEF Begin, FirstStep, Undisturbed
<1>2. ASSUME NEW t \in Task, LoadKey(t) PROVE Placed'
  BY <1>2 DEF LoadKey
<1>3. ASSUME NEW t \in Task, LoadMeta(t) PROVE Placed'
  BY <1>3 DEF LoadMeta, AfterProfile, StoredPin
<1>4. ASSUME NEW t \in Task, LoadIdentity(t) PROVE Placed'
  BY <1>4 DEF LoadIdentity, AfterIdentity, IdentityExists
<1>5. ASSUME NEW t \in Task, FindNoIdentity(t) PROVE Placed'
  BY <1>5 DEF FindNoIdentity, IdentityExists
<1>6. ASSUME NEW t \in Task, CreateIdentity(t) PROVE Placed'
  BY <1>6 DEF CreateIdentity, AfterIdentity
<1>7. ASSUME NEW t \in Task, SaveAddress(t) PROVE Placed'
  BY <1>7 DEF SaveAddress, SaveProfile
<1>8. ASSUME NEW t \in Task, SessionFails(t) PROVE Placed'
  BY <1>8 DEF SessionFails
<1>9. ASSUME NEW t \in Task, PinFingerprint(t) PROVE Placed'
  BY <1>9 DEF PinFingerprint, StorePin
<1>10. ASSUME NEW t \in Task, EndSession(t) PROVE Placed'
  BY <1>10 DEF EndSession
<1>11. ASSUME NEW t \in Task, CheckNew(t) PROVE Placed'
  BY <1>11 DEF CheckNew, AfterExists
<1>12. ASSUME NEW t \in Task, CheckSecret(t) PROVE Placed'
  BY <1>12 DEF CheckSecret
<1>13. ASSUME NEW t \in Task, WriteKey(t) PROVE Placed'
  BY <1>13 DEF WriteKey, AfterWrite
<1>14. ASSUME NEW t \in Task, CheckMeta(t) PROVE Placed'
  BY <1>14 DEF CheckMeta
<1>15. ASSUME NEW t \in Task, WriteFreshMeta(t) PROVE Placed'
  BY <1>15 DEF WriteFreshMeta
<1>16. ASSUME NEW t \in Task, Kill(t) PROVE Placed'
  BY <1>16 DEF Kill
<1>17. ASSUME NEW t \in Task, NEW f \in Finger, Authenticate(t, f) PROVE Placed'
  BY <1>17 DEF Authenticate
<1>18. CASE UNCHANGED vars
  BY <1>18 DEF vars, files, local
<1> QED
  BY <1>1, <1>2, <1>3, <1>4, <1>5, <1>6, <1>7, <1>8, <1>9, <1>10, <1>11, <1>12, <1>13, <1>14, <1>15, <1>16, <1>17, <1>18 DEF Next, Step

\* Every step keeps the types.
LEMMA TypeNext == Inv /\ [Next]_vars => TypeOK'
<1> SUFFICES ASSUME Inv, [Next]_vars PROVE TypeOK'
  OBVIOUS
<1> USE DEF Inv, TypeOK, Placed, StepsOf, SessionSteps, Over, Goto, Session, files, local, Running
<1>1. ASSUME NEW t \in Task, Begin(t) PROVE TypeOK'
  BY <1>1 DEF Begin, FirstStep, Undisturbed
<1>2. ASSUME NEW t \in Task, LoadKey(t) PROVE TypeOK'
  BY <1>2 DEF LoadKey
<1>3. ASSUME NEW t \in Task, LoadMeta(t) PROVE TypeOK'
  BY <1>3 DEF LoadMeta, AfterProfile, StoredPin
<1>4. ASSUME NEW t \in Task, LoadIdentity(t) PROVE TypeOK'
  BY <1>4 DEF LoadIdentity, AfterIdentity, IdentityExists
<1>5. ASSUME NEW t \in Task, FindNoIdentity(t) PROVE TypeOK'
  BY <1>5 DEF FindNoIdentity, IdentityExists
<1>6. ASSUME NEW t \in Task, CreateIdentity(t) PROVE TypeOK'
  BY <1>6 DEF CreateIdentity, AfterIdentity
<1>7. ASSUME NEW t \in Task, SaveAddress(t) PROVE TypeOK'
  BY <1>7 DEF SaveAddress, SaveProfile
<1>8. ASSUME NEW t \in Task, SessionFails(t) PROVE TypeOK'
  BY <1>8 DEF SessionFails
<1>9. ASSUME NEW t \in Task, PinFingerprint(t) PROVE TypeOK'
  BY <1>9 DEF PinFingerprint, StorePin
<1>10. ASSUME NEW t \in Task, EndSession(t) PROVE TypeOK'
  BY <1>10 DEF EndSession
<1>11. ASSUME NEW t \in Task, CheckNew(t) PROVE TypeOK'
  BY <1>11 DEF CheckNew, AfterExists
<1>12. ASSUME NEW t \in Task, CheckSecret(t) PROVE TypeOK'
  BY <1>12 DEF CheckSecret
<1>13. ASSUME NEW t \in Task, WriteKey(t) PROVE TypeOK'
  BY <1>13 DEF WriteKey, AfterWrite
<1>14. ASSUME NEW t \in Task, CheckMeta(t) PROVE TypeOK'
  BY <1>14 DEF CheckMeta
<1>15. ASSUME NEW t \in Task, WriteFreshMeta(t) PROVE TypeOK'
  BY <1>15 DEF WriteFreshMeta
<1>16. ASSUME NEW t \in Task, Kill(t) PROVE TypeOK'
  BY <1>16 DEF Kill
<1>17. ASSUME NEW t \in Task, NEW f \in Finger, Authenticate(t, f) PROVE TypeOK'
  BY <1>17 DEF Authenticate
<1>18. CASE UNCHANGED vars
  BY <1>18 DEF vars, files, local
<1> QED
  BY <1>1, <1>2, <1>3, <1>4, <1>5, <1>6, <1>7, <1>8, <1>9, <1>10, <1>11, <1>12, <1>13, <1>14, <1>15, <1>16, <1>17, <1>18 DEF Next, Step

\* Every step keeps Keyed.
LEMMA KeyedNext == Inv /\ [Next]_vars => Keyed'
<1> SUFFICES ASSUME Inv, [Next]_vars PROVE Keyed'
  OBVIOUS
<1> USE DEF Inv, TypeOK, Placed, StepsOf, SessionSteps, Over, Goto, Session, files, local, Running, Keyed, MetaHasKey, AfterKey
<1>1. ASSUME NEW t \in Task, Begin(t) PROVE Keyed'
  BY <1>1 DEF Begin, FirstStep, Undisturbed
<1>2. ASSUME NEW t \in Task, LoadKey(t) PROVE Keyed'
  BY <1>2 DEF LoadKey
<1>3. ASSUME NEW t \in Task, LoadMeta(t) PROVE Keyed'
  BY <1>3 DEF LoadMeta, AfterProfile, StoredPin
<1>4. ASSUME NEW t \in Task, LoadIdentity(t) PROVE Keyed'
  BY <1>4 DEF LoadIdentity, AfterIdentity, IdentityExists
<1>5. ASSUME NEW t \in Task, FindNoIdentity(t) PROVE Keyed'
  BY <1>5 DEF FindNoIdentity, IdentityExists
<1>6. ASSUME NEW t \in Task, CreateIdentity(t) PROVE Keyed'
  BY <1>6 DEF CreateIdentity, AfterIdentity
<1>7. ASSUME NEW t \in Task, SaveAddress(t) PROVE Keyed'
  BY <1>7 DEF SaveAddress, SaveProfile
<1>8. ASSUME NEW t \in Task, SessionFails(t) PROVE Keyed'
  BY <1>8 DEF SessionFails
<1>9. ASSUME NEW t \in Task, PinFingerprint(t) PROVE Keyed'
  BY <1>9 DEF PinFingerprint, StorePin
<1>10. ASSUME NEW t \in Task, EndSession(t) PROVE Keyed'
  BY <1>10 DEF EndSession
<1>11. ASSUME NEW t \in Task, CheckNew(t) PROVE Keyed'
  BY <1>11 DEF CheckNew, AfterExists
<1>12. ASSUME NEW t \in Task, CheckSecret(t) PROVE Keyed'
  BY <1>12 DEF CheckSecret
<1>13. ASSUME NEW t \in Task, WriteKey(t) PROVE Keyed'
  BY <1>13 DEF WriteKey, AfterWrite
<1>14. ASSUME NEW t \in Task, CheckMeta(t) PROVE Keyed'
  BY <1>14 DEF CheckMeta
<1>15. ASSUME NEW t \in Task, WriteFreshMeta(t) PROVE Keyed'
  BY <1>15 DEF WriteFreshMeta
<1>16. ASSUME NEW t \in Task, Kill(t) PROVE Keyed'
  BY <1>16 DEF Kill
<1>17. ASSUME NEW t \in Task, NEW f \in Finger, Authenticate(t, f) PROVE Keyed'
  BY <1>17 DEF Authenticate
<1>18. CASE UNCHANGED vars
  BY <1>18 DEF vars, files, local
<1> QED
  BY <1>1, <1>2, <1>3, <1>4, <1>5, <1>6, <1>7, <1>8, <1>9, <1>10, <1>11, <1>12, <1>13, <1>14, <1>15, <1>16, <1>17, <1>18 DEF Next, Step

\* Every step keeps Calm.
LEMMA CalmNext == Inv /\ [Next]_vars => Calm'
<1> SUFFICES ASSUME Inv, [Next]_vars PROVE Calm'
  OBVIOUS
<1> USE DEF Inv, TypeOK, Placed, StepsOf, SessionSteps, Over, Goto, Session, files, local, Running, Calm
<1>1. ASSUME NEW t \in Task, Begin(t) PROVE Calm'
  BY <1>1 DEF Begin, FirstStep, Undisturbed
<1>2. ASSUME NEW t \in Task, LoadKey(t) PROVE Calm'
  BY <1>2 DEF LoadKey
<1>3. ASSUME NEW t \in Task, LoadMeta(t) PROVE Calm'
  BY <1>3 DEF LoadMeta, AfterProfile, StoredPin
<1>4. ASSUME NEW t \in Task, LoadIdentity(t) PROVE Calm'
  BY <1>4 DEF LoadIdentity, AfterIdentity, IdentityExists
<1>5. ASSUME NEW t \in Task, FindNoIdentity(t) PROVE Calm'
  BY <1>5 DEF FindNoIdentity, IdentityExists
<1>6. ASSUME NEW t \in Task, CreateIdentity(t) PROVE Calm'
  BY <1>6 DEF CreateIdentity, AfterIdentity
<1>7. ASSUME NEW t \in Task, SaveAddress(t) PROVE Calm'
  BY <1>7 DEF SaveAddress, SaveProfile
<1>8. ASSUME NEW t \in Task, SessionFails(t) PROVE Calm'
  BY <1>8 DEF SessionFails
<1>9. ASSUME NEW t \in Task, PinFingerprint(t) PROVE Calm'
  BY <1>9 DEF PinFingerprint, StorePin
<1>10. ASSUME NEW t \in Task, EndSession(t) PROVE Calm'
  BY <1>10 DEF EndSession
<1>11. ASSUME NEW t \in Task, CheckNew(t) PROVE Calm'
  BY <1>11 DEF CheckNew, AfterExists
<1>12. ASSUME NEW t \in Task, CheckSecret(t) PROVE Calm'
  BY <1>12 DEF CheckSecret
<1>13. ASSUME NEW t \in Task, WriteKey(t) PROVE Calm'
  BY <1>13 DEF WriteKey, AfterWrite
<1>14. ASSUME NEW t \in Task, CheckMeta(t) PROVE Calm'
  BY <1>14 DEF CheckMeta
<1>15. ASSUME NEW t \in Task, WriteFreshMeta(t) PROVE Calm'
  BY <1>15 DEF WriteFreshMeta
<1>16. ASSUME NEW t \in Task, Kill(t) PROVE Calm'
  BY <1>16 DEF Kill
<1>17. ASSUME NEW t \in Task, NEW f \in Finger, Authenticate(t, f) PROVE Calm'
  BY <1>17 DEF Authenticate
<1>18. CASE UNCHANGED vars
  BY <1>18 DEF vars, files, local
<1> QED
  BY <1>1, <1>2, <1>3, <1>4, <1>5, <1>6, <1>7, <1>8, <1>9, <1>10, <1>11, <1>12, <1>13, <1>14, <1>15, <1>16, <1>17, <1>18 DEF Next, Step

\* Every step keeps Owned.
LEMMA OwnedNext == Inv /\ [Next]_vars => Owned'
<1> SUFFICES ASSUME Inv, [Next]_vars PROVE Owned'
  OBVIOUS
<1> USE DEF Inv, TypeOK, Placed, Keyed, MetaHasKey, AfterKey, Owned, StoredPin, StepsOf, SessionSteps, Over, Goto, Session, Running, files, local
<1>1. ASSUME NEW t \in Task, Begin(t) PROVE Owned'
  BY <1>1 DEF Begin, FirstStep, Undisturbed
<1>2. ASSUME NEW t \in Task, LoadKey(t) PROVE Owned'
  BY <1>2 DEF LoadKey
<1>3. ASSUME NEW t \in Task, LoadMeta(t) PROVE Owned'
  BY <1>3 DEF LoadMeta, AfterProfile
<1>4. ASSUME NEW t \in Task, LoadIdentity(t) PROVE Owned'
  BY <1>4 DEF LoadIdentity, AfterIdentity, IdentityExists
<1>5. ASSUME NEW t \in Task, FindNoIdentity(t) PROVE Owned'
  BY <1>5 DEF FindNoIdentity, IdentityExists
<1>6. ASSUME NEW t \in Task, CreateIdentity(t) PROVE Owned'
  BY <1>6 DEF CreateIdentity, AfterIdentity
<1>7. ASSUME NEW t \in Task, SaveAddress(t) PROVE Owned'
  BY <1>7 DEF SaveAddress, SaveProfile
<1>8. ASSUME NEW t \in Task, SessionFails(t) PROVE Owned'
  BY <1>8 DEF SessionFails
<1>9. ASSUME NEW t \in Task, PinFingerprint(t) PROVE Owned'
  BY <1>9 DEF PinFingerprint, StorePin
<1>10. ASSUME NEW t \in Task, EndSession(t) PROVE Owned'
  BY <1>10 DEF EndSession
<1>11. ASSUME NEW t \in Task, CheckNew(t) PROVE Owned'
  BY <1>11 DEF CheckNew, AfterExists
<1>12. ASSUME NEW t \in Task, CheckSecret(t) PROVE Owned'
  BY <1>12 DEF CheckSecret
<1>13. ASSUME NEW t \in Task, WriteKey(t) PROVE Owned'
  BY <1>13 DEF WriteKey, AfterWrite
<1>14. ASSUME NEW t \in Task, CheckMeta(t) PROVE Owned'
  BY <1>14 DEF CheckMeta
<1>15. ASSUME NEW t \in Task, WriteFreshMeta(t) PROVE Owned'
  BY <1>15 DEF WriteFreshMeta
<1>16. ASSUME NEW t \in Task, Kill(t) PROVE Owned'
  BY <1>16 DEF Kill
<1>17. ASSUME NEW t \in Task, NEW f \in Finger, Authenticate(t, f) PROVE Owned'
  BY <1>17 DEF Authenticate
<1>18. CASE UNCHANGED vars
  BY <1>18 DEF vars
<1> QED
  BY <1>1, <1>2, <1>3, <1>4, <1>5, <1>6, <1>7, <1>8, <1>9, <1>10, <1>11, <1>12, <1>13, <1>14, <1>15, <1>16, <1>17, <1>18 DEF Next, Step

------------------------------------------------------------------------------
(* The theorems.                                                            *)

\* The invariant holds in every reachable state.
THEOREM Invariant == Spec => []Inv
<1>1. Init => Inv
  BY DEF Init, Inv, TypeOK, Placed, Keyed, MetaHasKey, AfterKey, Owned, Calm, Over, Running
<1>2. Inv /\ [Next]_vars => Inv'
  BY TypeNext, PlacedNext, KeyedNext, OwnedNext, CalmNext DEF Inv
<1> QED
  BY <1>1, <1>2, PTL DEF Spec

\* Every reachable state is well typed.
THEOREM TypeCorrect == Spec => []TypeOK
<1>1. Inv => TypeOK
  BY DEF Inv
<1> QED
  BY <1>1, Invariant, PTL

\* Metadata exist only for contacts with a key, whatever overlaps and whoever
\* is killed.
THEOREM MetadataHaveKeys == Spec => []MetaHasKey
<1>1. Inv => MetaHasKey
  BY DEF Inv, Keyed
<1> QED
  BY <1>1, Invariant, PTL

\* A running session with an exclusive contact has its pin on disk.
THEOREM SessionsArePinned == Spec => []RunningSessionIsPinned
<1>1. Inv => RunningSessionIsPinned
  BY DEF Inv, Owned, RunningSessionIsPinned
<1> QED
  BY <1>1, Invariant, PTL

\* After a calm start every session uses the identity on disk.
THEOREM IdentityIsStored == Spec => []SessionsUseStoredIdentity
<1>1. Inv => SessionsUseStoredIdentity
  BY DEF Inv, Calm, SessionsUseStoredIdentity
<1> QED
  BY <1>1, Invariant, PTL

Kept(c) ==
    /\ meta[c] \in Finger => meta'[c] = meta[c]
    /\ key[c] # None /\ key'[c] # key[c] =>
           \/ Kind[key'[c]] = "import"
           \/ c = Default /\ Kind[key'[c]] = "replace"

\* No step loses the pin of an exclusive contact, or replaces its key but by
\* an import or, for the default contact, by `init --replace`: a task that writes either is the only one on the contact, so that
\* what it has read is what it replaces.
THEOREM ContactsAreKept == Spec => ContactKept
<1>1. ASSUME Inv, [Next]_vars, NEW c \in Exclusive PROVE Kept(c)
  <2> USE DEF Inv, TypeOK, Placed, Owned, Kept, StepsOf, SessionSteps, Over, Goto, Session, StoredPin
  <2> c \in Contact
    OBVIOUS
  <2>1. ASSUME NEW t \in Task, SaveAddress(t) PROVE Kept(c)
    BY <1>1, <2>1 DEF SaveAddress, SaveProfile
  <2>2. ASSUME NEW t \in Task, PinFingerprint(t) PROVE Kept(c)
    BY <1>1, <2>2 DEF PinFingerprint, StorePin
  <2>3. ASSUME NEW t \in Task, WriteKey(t) PROVE Kept(c)
    BY <1>1, <2>3 DEF WriteKey
  <2>4. ASSUME NEW t \in Task, WriteFreshMeta(t) PROVE Kept(c)
    BY <1>1, <2>4 DEF WriteFreshMeta
  <2>5. CASE UNCHANGED <<key, meta>>
    BY <2>5
  <2> QED
    BY <1>1, <2>1, <2>2, <2>3, <2>4, <2>5 DEF Next, Step, Begin, LoadKey, LoadMeta,
       LoadIdentity, FindNoIdentity, CreateIdentity, SessionFails, EndSession, CheckNew,
       CheckSecret, CheckMeta, Kill, Authenticate, files, vars
<1>2. Inv /\ [Next]_vars =>
          [\A c \in Exclusive :
              /\ meta[c] \in Finger => meta'[c] = meta[c]
              /\ key[c] # None /\ key'[c] # key[c] =>
                     \/ Kind[key'[c]] = "import"
                     \/ c = Default /\ Kind[key'[c]] = "replace"]_files
  BY <1>1 DEF Kept
<1> QED
  BY <1>2, Invariant, PTL DEF Spec, ContactKept
==============================================================================
