----------------------------- MODULE ClientAuth -----------------------------
(***************************************************************************)
(* Tor v3 client authorisation: onioncall.client_auth, the commands        *)
(* tor-auth-* that call it, and the start of a service in onioncall.tor,   *)
(* which copies the authorised keys to where Tor reads them.  Commands run *)
(* one at a time, beside a service that starts, stops and is killed.       *)
(***************************************************************************)
EXTENDS Naturals, Sequences

CONSTANTS
    Client,     \* names of clients, on both sides
    MaxKeys     \* bound: keys ever generated

ASSUME MaxKeysAssumption == MaxKeys \in Nat

VARIABLES
    owner,      \* owner[k]: the client the k-th key was generated for and given to
    server,     \* server[c]: the key in tor_auth/server/c.auth; 0: no file
    private,    \* private[c]: the key in tor_auth/client on c's own machine
    temporary,  \* the service has a directory of its own at every start
    target,     \* target[c]: the key in <hidden_dir>/authorized_clients
    service,    \* where the service's start is
    todo,       \* files that are still to be copied
    loaded,     \* the keys Tor has read; no key means that it lets in anyone
    was,        \* keys that were in tor_auth/server since the start began
    kept,       \* keys that have been there ever since
    stuck,      \* keys in files that could not be removed
    nobody      \* the start has found no authorised client

fileVars == <<owner, server, private>>
startVars == <<target, service, todo, loaded, stuck, nobody>>
authVars == <<fileVars, temporary, startVars, was, kept>>

Named(dir) == {c \in Client : dir[c] # 0}
Keys(dir) == {dir[c] : c \in Named(dir)}

AuthInit ==
    /\ owner = <<>>
    /\ server = [c \in Client |-> 0] /\ private = [c \in Client |-> 0]
    /\ temporary \in BOOLEAN
    /\ target = [c \in Client |-> 0]
    /\ service = "down" /\ todo = {} /\ loaded = {}
    /\ was = {} /\ kept = {} /\ stuck = {} /\ nobody = FALSE

------------------------------------------------------------------------------
(* The commands.                                                            *)

\* What the start of the service sees of a change of tor_auth/server.
Changes(dir) ==
    /\ server' = dir
    /\ was' = was \cup Keys(dir)
    /\ kept' = kept \cap Keys(dir)
    /\ UNCHANGED <<temporary, startVars>>

\* tor-auth-create, for a new name or with --replace.
Generate(c) ==
    /\ Len(owner) < MaxKeys
    /\ owner' = Append(owner, c)
    /\ Changes([server EXCEPT ![c] = Len(owner')])
    /\ UNCHANGED private

\* tor-auth-revoke.
Revoke(c) ==
    /\ server[c] # 0
    /\ Changes([server EXCEPT ![c] = 0])
    /\ UNCHANGED <<owner, private>>

\* tor-auth-import, of any token the client was ever given; replaces.
Import(c) ==
    /\ \E k \in DOMAIN owner : owner[k] = c /\ private' = [private EXCEPT ![c] = k]
    /\ UNCHANGED <<owner, server, temporary, startVars, was, kept>>

\* tor-auth-remove-client.
Remove(c) ==
    /\ private[c] # 0
    /\ private' = [private EXCEPT ![c] = 0]
    /\ UNCHANGED <<owner, server, temporary, startVars, was, kept>>

------------------------------------------------------------------------------
(* prepare_service_authorizations and TorProcess.start.                     *)

Empty == [c \in Client |-> 0]

\* A directory of its own is new; the permanent one is as the last start, or
\* its crash, has left it.
BeginAuth ==
    /\ service = "down" /\ service' = "clean"
    /\ target' = IF temporary THEN Empty ELSE target
    /\ was' = Keys(server) /\ kept' = Keys(server)
    /\ stuck' = {} /\ nobody' = FALSE
    /\ UNCHANGED <<fileVars, temporary, todo, loaded>>

\* Mutant: old files stay.
KeepStale(failed) == Named(target)
\* Old files are removed; errors are suppressed.
Stale(failed) == failed

Clean ==
    /\ service = "clean" /\ service' = "list"
    /\ \E failed \in SUBSET Named(target) :
         /\ target' = [c \in Client |-> IF c \in Stale(failed) THEN target[c] ELSE 0]
         /\ stuck' = {target[c] : c \in failed}
    /\ UNCHANGED <<fileVars, temporary, todo, loaded, nobody, was, kept>>

\* glob: without files the directory goes, if it is empty.
List ==
    /\ service = "list"
    /\ todo' = Named(server)
    /\ nobody' = (todo' = {})
    /\ service' = IF nobody' THEN "spawn" ELSE "copy"
    /\ UNCHANGED <<fileVars, temporary, target, loaded, stuck, was, kept>>

Ended == target' = IF temporary THEN Empty ELSE target

\* Mutant: a file that has gone is passed over.
PassOver == service' = service /\ UNCHANGED target
\* read_bytes raises for a file that was revoked meanwhile; the start ends.
Vanished == service' = "down" /\ Ended

Copy(c) ==
    /\ service = "copy" /\ c \in todo
    /\ todo' = todo \ {c}
    /\ \/ server[c] # 0 /\ service' = service /\ target' = [target EXCEPT ![c] = server[c]]
       \/ server[c] = 0 /\ Vanished
    /\ UNCHANGED <<fileVars, temporary, loaded, stuck, nobody, was, kept>>

Copied ==
    /\ service = "copy" /\ todo = {}
    /\ service' = "spawn"
    /\ UNCHANGED <<fileVars, temporary, target, todo, loaded, stuck, nobody, was, kept>>

\* Popen; Tor reads the directory.
Spawn ==
    /\ service = "spawn" /\ service' = "up"
    /\ loaded' = Keys(target)
    /\ UNCHANGED <<fileVars, temporary, target, todo, stuck, nobody, was, kept>>

\* TorProcess.stop, after a failure or a session; it removes a directory of
\* its own.
Stop ==
    /\ service \in {"spawn", "up"} /\ service' = "down"
    /\ loaded' = {} /\ Ended
    /\ UNCHANGED <<fileVars, temporary, todo, stuck, nobody, was, kept>>

\* The program and its Tor are killed.
KillAuth ==
    /\ service # "down" /\ service' = "down"
    /\ loaded' = {} /\ todo' = {}
    /\ UNCHANGED <<fileVars, temporary, target, stuck, nobody, was, kept>>

AuthNext ==
    \/ \E c \in Client : Generate(c) \/ Revoke(c) \/ Import(c) \/ Remove(c) \/ Copy(c)
    \/ BeginAuth \/ Clean \/ List \/ Copied \/ Spawn \/ Stop \/ KillAuth

AuthSpec == AuthInit /\ [][AuthNext]_authVars

------------------------------------------------------------------------------
(* Properties.                                                              *)

\* Every variable has its type.
AuthTypeOK ==
    /\ owner \in Seq(Client)
    /\ server \in [Client -> Nat] /\ private \in [Client -> Nat]
    /\ target \in [Client -> Nat]
    /\ temporary \in BOOLEAN /\ nobody \in BOOLEAN
    /\ service \in {"down", "clean", "list", "copy", "spawn", "up"}
    /\ todo \subseteq Client
    /\ was \subseteq Nat /\ kept \subseteq Nat

\* Whatever is created, replaced and revoked while the service starts, and
\* whatever an earlier start or its crash has left behind: Tor has read every
\* key that was authorised all the time, and none that was not authorised at
\* any time, but for files that could not be removed.
StartTakesSnapshot ==
    service = "up" => kept \subseteq loaded /\ loaded \subseteq was \cup stuck

\* The service is open to everyone only if its start found no authorised
\* client; a revocation in the middle of a start does not open it.
NeverOpenByAccident == service = "up" /\ loaded = {} => nobody
==============================================================================
