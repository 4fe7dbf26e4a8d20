------------------------------ MODULE PeerStore ------------------------------
(***************************************************************************)
(* The files of a home directory that onioncall.config, peers and identity *)
(* keep: the key and the metadata of each contact and the device's         *)
(* identity.  Terminal commands, GUI worker threads and status requests    *)
(* run as tasks that read, check and replace whole files; each replacement *)
(* is atomic (atomic_private_write) and nothing locks one access to the    *)
(* next.  A task may be killed anywhere.  Of the metadata only the pinned  *)
(* fingerprint is kept: the address is written together with it.           *)
(***************************************************************************)
EXTENDS Naturals, FiniteSets

CONSTANTS
    Task,        \* the tasks of a behaviour; a generated key is named by its task
    Kind,        \* Kind[t]: listen, call, create, import, init, or replace:
                 \* the command `init --replace`
    Contact,     \* the contacts
    Of,          \* Of[t]: the contact t works on
    Default,     \* the contact whose key is conversation.key
    Finger,      \* fingerprints of the peers' devices
    Exclusive,   \* contacts on which the user lets no two tasks overlap
    CalmStart,   \* until there is an identity, tasks do not overlap
    NoPin,       \* metadata without a fingerprint
    None         \* no such file

ASSUME TaskAssumption ==
    /\ Kind \in [Task -> {"listen", "call", "create", "import", "init", "replace"}]
    /\ Of \in [Task -> Contact]
    /\ \A t \in Task : Kind[t] \in {"init", "replace"} => Of[t] = Default
    /\ \A t \in Task : Kind[t] = "create" => Of[t] # Default
ASSUME ContactAssumption == Default \in Contact /\ Exclusive \subseteq Contact
ASSUME CalmAssumption == CalmStart \in BOOLEAN
ASSUME NoneAssumption ==
    /\ None \notin Task \cup Finger \cup {NoPin}
    /\ NoPin \notin Finger

VARIABLES
    key,       \* key[c]: the key file of c
    meta,      \* meta[c]: the pinned fingerprint in the metadata file of c
    identity,  \* identity.key
    pc,        \* pc[t]: what t does next
    pin,       \* pin[t]: the fingerprint in t's copy of the profile
    ident,     \* ident[t]: the identity t goes on with
    shown      \* shown[t]: the fingerprint t's peer authenticated with

files == <<key, meta, identity>>
local == <<pin, ident, shown>>
vars == <<files, pc, local>>

Over == {"idle", "done", "failed", "killed"}
Running(t) == pc[t] \notin Over
Session(t) == Kind[t] \in {"listen", "call"}

Init ==
    /\ key = [c \in Contact |-> None]
    /\ meta = [c \in Contact |-> None]
    /\ identity = None
    /\ pc = [t \in Task |-> "idle"]
    /\ pin = [t \in Task |-> NoPin]
    /\ ident = [t \in Task |-> None]
    /\ shown = [t \in Task |-> None]

Goto(t, from, to) == pc[t] = from /\ pc' = [pc EXCEPT ![t] = to]

------------------------------------------------------------------------------
(* Starting a task.                                                         *)

FirstStep(t) ==
    CASE Session(t) -> "key"
      [] Kind[t] = "create" -> "exists"
      [] Kind[t] = "import" -> "write"
      [] Kind[t] \in {"init", "replace"} -> "identity"

Undisturbed(t) ==
    \A u \in Task \ {t} : Running(u) =>
        /\ Of[t] \in Exclusive => Of[u] # Of[t]
        /\ CalmStart => identity # None

Begin(t) ==
    /\ Undisturbed(t)
    /\ Goto(t, "idle", FirstStep(t))
    /\ UNCHANGED <<files, local>>

------------------------------------------------------------------------------
(* load_peer: the key first, then the metadata.                             *)

\* An unknown contact is an error; ensure_initialized makes a key instead.
LoadKey(t) ==
    /\ Goto(t, "key", IF key[Of[t]] # None THEN "meta"
                      ELSE IF Kind[t] = "init" THEN "secret" ELSE "failed")
    /\ UNCHANGED <<files, local>>

AfterProfile(t) == IF Session(t) THEN "identity" ELSE "done"

StoredPin(c) == IF meta[c] = None THEN NoPin ELSE meta[c]

LoadMeta(t) ==
    /\ Goto(t, "meta", AfterProfile(t))
    /\ pin' = [pin EXCEPT ![t] = StoredPin(Of[t])]
    /\ UNCHANGED <<files, ident, shown>>

------------------------------------------------------------------------------
(* load_or_create_identity.                                                 *)

AfterIdentity(t) ==
    CASE Kind[t] = "listen" -> "handshake"
      [] Kind[t] = "call" -> "address"
      [] Kind[t] = "init" -> "key"
      [] Kind[t] = "replace" -> "secret"

\* Mutant: an identity is made at every start.
AlwaysNew == FALSE
IdentityExists == identity # None

LoadIdentity(t) ==
    /\ IdentityExists
    /\ Goto(t, "identity", AfterIdentity(t))
    /\ ident' = [ident EXCEPT ![t] = identity]
    /\ UNCHANGED <<files, pin, shown>>

FindNoIdentity(t) ==
    /\ ~IdentityExists
    /\ Goto(t, "identity", "generate")
    /\ UNCHANGED <<files, local>>

CreateIdentity(t) ==
    /\ Goto(t, "generate", AfterIdentity(t))
    /\ identity' = t
    /\ ident' = [ident EXCEPT ![t] = t]
    /\ UNCHANGED <<key, meta, pin, shown>>

------------------------------------------------------------------------------
(* A session.                                                               *)

\* Mutant: the metadata is written without the fingerprint of the profile.
SaveAddressOnly(t) == meta' = [meta EXCEPT ![Of[t]] = NoPin]
\* _save_meta writes the whole profile as t holds it.
SaveProfile(t) == meta' = [meta EXCEPT ![Of[t]] = pin[t]]

\* set_peer_onion.
SaveAddress(t) ==
    /\ Goto(t, "address", "handshake")
    /\ SaveProfile(t)
    /\ UNCHANGED <<key, identity, local>>

\* The handshake succeeds with a peer that holds the key and, if the profile
\* has a pin, that identity (module Handshake).
Authenticate(t, f) ==
    /\ pin[t] \in {NoPin, f}
    /\ Goto(t, "handshake", "pin")
    /\ shown' = [shown EXCEPT ![t] = f]
    /\ UNCHANGED <<files, pin, ident>>

\* Tor, the connection or the handshake fails, or the identity has changed.
SessionFails(t) == Goto(t, "handshake", "failed") /\ UNCHANGED <<files, local>>

\* Mutant: the fingerprint is kept in the profile but not saved.
ForgetPin(t) == UNCHANGED meta
StorePin(t) == meta' = [meta EXCEPT ![Of[t]] = shown[t]]

\* pin_peer_fingerprint: nothing to do when the profile has it already.
PinFingerprint(t) ==
    /\ Goto(t, "pin", "run")
    /\ IF pin[t] = shown[t] THEN UNCHANGED meta ELSE StorePin(t)
    /\ pin' = [pin EXCEPT ![t] = shown[t]]
    /\ UNCHANGED <<key, identity, ident, shown>>

EndSession(t) == Goto(t, "run", "done") /\ UNCHANGED <<files, local>>

------------------------------------------------------------------------------
(* create_peer, import_peer_secret, generate_secret.                        *)

\* Mutant: the metadata of a new contact is written before its key.
MetaFirst(t) == IF key[Of[t]] # None THEN "failed" ELSE "fresh"
AfterExists(t) == IF key[Of[t]] # None THEN "failed" ELSE "write"

CheckNew(t) ==
    /\ Goto(t, "exists", AfterExists(t))
    /\ UNCHANGED <<files, local>>

\* generate_secret looks for the file again, unless it is to replace it.
CheckSecret(t) ==
    /\ Goto(t, "secret", IF key[Default] # None /\ Kind[t] # "replace"
                            THEN "failed" ELSE "write")
    /\ UNCHANGED <<files, local>>

AfterWrite(t) ==
    CASE Kind[t] = "create" -> "fresh"
      [] Kind[t] = "import" -> IF Of[t] = Default THEN "key" ELSE "absent"
      [] Kind[t] \in {"init", "replace"} -> "done"

WriteKey(t) ==
    /\ Goto(t, "write", AfterWrite(t))
    /\ key' = [key EXCEPT ![Of[t]] = t]
    /\ UNCHANGED <<meta, identity, local>>

\* import_peer_secret leaves existing metadata alone.
CheckMeta(t) ==
    /\ Goto(t, "absent", IF meta[Of[t]] = None THEN "fresh" ELSE "key")
    /\ UNCHANGED <<files, local>>

WriteFreshMeta(t) ==
    /\ Goto(t, "fresh", IF Kind[t] = "import" THEN "key" ELSE "done")
    /\ meta' = [meta EXCEPT ![Of[t]] = NoPin]
    /\ UNCHANGED <<key, identity, local>>

\* The process ends between two accesses.  A write that it interrupts leaves
\* the old file in place.
Kill(t) ==
    /\ Running(t)
    /\ pc' = [pc EXCEPT ![t] = "killed"]
    /\ UNCHANGED <<files, local>>

------------------------------------------------------------------------------
Step(t) ==
    \/ Begin(t) \/ LoadKey(t) \/ LoadMeta(t) \/ LoadIdentity(t) \/ FindNoIdentity(t)
    \/ CreateIdentity(t) \/ SaveAddress(t) \/ SessionFails(t) \/ PinFingerprint(t)
    \/ EndSession(t) \/ CheckNew(t) \/ CheckSecret(t) \/ WriteKey(t) \/ CheckMeta(t)
    \/ WriteFreshMeta(t) \/ Kill(t)
    \/ \E f \in Finger : Authenticate(t, f)

Quiet == \A t \in Task : pc[t] \in {"done", "failed", "killed"}

Next == (\E t \in Task : Step(t)) \/ (Quiet /\ UNCHANGED vars)

Spec == Init /\ [][Next]_vars

------------------------------------------------------------------------------
(* Properties.                                                              *)

\* Every variable has its type.
TypeOK ==
    /\ key \in [Contact -> Task \cup {None}]
    /\ meta \in [Contact -> Finger \cup {NoPin, None}]
    /\ identity \in Task \cup {None}
    /\ pc \in [Task -> Over \cup {"key", "meta", "identity", "generate", "address",
                                  "handshake", "pin", "run", "exists", "secret",
                                  "write", "absent", "fresh"}]
    /\ pin \in [Task -> Finger \cup {NoPin}]
    /\ ident \in [Task -> Task \cup {None}]
    /\ shown \in [Task -> Finger \cup {None}]
    /\ \A t \in Task : pc[t] \in {"pin", "run"} => shown[t] \in Finger

\* "Der Ed25519-Fingerprint wird nach einer erfolgreich PSK-authentifizierten
\* ersten Verbindung gepinnt. Ändert er sich später, wird die Verbindung vor
\* Sitzungsbeginn abgebrochen": once a contact has a pin on disk, no session
\* with it begins with another identity.
ChangedIdentityIsRefused ==
    [][\A t \in Task :
          pc[t] = "pin" /\ pc'[t] = "run" /\ meta[Of[t]] \in Finger =>
              shown[t] = meta[Of[t]]]_vars

\* If the user lets no two tasks work on a contact at a time, its pin is kept
\* whatever else goes on and wherever a task is killed, and its key is replaced
\* only on request: by an import, and that of the default contact by
\* `init --replace` too.
ContactKept ==
    [][\A c \in Exclusive :
          /\ meta[c] \in Finger => meta'[c] = meta[c]
          /\ key[c] # None /\ key'[c] # key[c] =>
                 \/ Kind[key'[c]] = "import"
                 \/ c = Default /\ Kind[key'[c]] = "replace"]_files

\* A session that runs has its peer's fingerprint on disk, so that the next
\* session expects it.
RunningSessionIsPinned ==
    \A t \in Task : pc[t] = "run" /\ Of[t] \in Exclusive => meta[Of[t]] = shown[t]

\* Metadata exist only for contacts with a key, however tasks overlap and
\* wherever they are killed: a contact is listed by its key file, and a pin
\* that belongs to no listed contact would later be taken for a new one's.
MetaHasKey == \A c \in Contact : meta[c] # None => key[c] # None

\* After a calm first start every session goes on with the identity that is on
\* disk: its fingerprint is the one that peers pin and that the next start has.
SessionsUseStoredIdentity ==
    CalmStart => \A t \in Task : Running(t) /\ ident[t] # None => ident[t] = identity
==============================================================================
