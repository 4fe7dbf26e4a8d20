# OnionCall: specifications, model checking and proofs

OnionCall lets two people who share a secret exchange text and recorded
speech through a Tor onion service. This directory holds TLA+ models of the
program in `src/onioncall` and of its setup programme in `src/scripts`, TLC
configurations that check them on small instances, and proofs that TLAPS checks
for every value of the constants.

- [1 The system](#1-the-system)
- [2 The modules](#2-the-modules)
- [3 What the runs check](#3-what-the-runs-check)
- [4 Fairness](#4-fairness)
- [5 What is proved](#5-what-is-proved)
- [6 Where the code departs from its documentation](#6-where-the-code-departs-from-its-documentation)
- [7 Not modelled](#7-not-modelled)
- [8 What could come next](#8-what-could-come-next)

To run: `tlc -config X.cfg M` for a row of the table in section 3, and
`tlapm M_proofs.tla` for a proof module.

## 1 The system

### 1.1 Components

**Pre-authentication listener** (`listener.py`). `accept_authenticated` is
called with a listening socket and returns one authenticated channel.
*State:* the set `active` of sockets that wait for authentication (guarded by
`lock`), the queue `result`, the event `done`, `winner_lock`, one thread per
admitted socket, the caller's `stop_event`. *Operations:* one round of the
accept loop, admit or refuse, the worker's handshake and race, `close_pending`
(twice). *Hard:* several workers authenticate at once; `done` is also set by
the accept loop, outside `winner_lock`; `close_pending` works through a
snapshot while workers leave and enter. *Correct when:* at most one channel is
chosen, never more than `max_pending` sockets wait, every other socket is
closed, a prompt trusted peer ends the wait and a stop is honoured.

**Handshake** (`protocol.py:72-145`, `crypto.py`). Two functions that exchange
hellos, signatures and proofs and derive two keys. *State:* per call, the
ephemeral key, the transcript, the peer's identity. *Hard:* the client is done
before the server has decided; messages of other connections; pins. *Correct
when:* both ends of a channel agree on secret, identities and keys, each key
has one sender, and two honest endpoints get their channels.

**Secure channel** (`protocol.py:148-204`). *State:* `_send_sequence` under
`_send_lock`, `_receive_sequence`, two keys, the socket. *Operations:* `send`,
`receive`, `close`. *Hard:* chat, audio upload and CLOSE come from different
threads; `sendall` may fail in the middle of a frame; a full buffer blocks the
lock's holder. *Correct when:* what is received is a prefix of what was sent,
no sequence is written twice, untouched traffic is never refused, senders come
out of `send` again.

**GUI controller** (`webgui.py:47-296`). *State:* `worker`, `session`,
`listener`, `tor`, `state`, `stop_requested`, the event ring, `audio_busy`, and
`self.lock`, which is released between most accesses. *Operations:* one handler
thread per HTTP request (`start_listen`, `start_call`, `disconnect`,
`send_text`, `send_audio`, ...) and one worker thread per connection action.
*Hard:* nearly everything: handler threads overlap, a disconnect meets the
worker at any line. *Correct when:* one action at a time, the running session
is the one commands reach, a disconnect ends what runs, nothing is left behind.

**Tor process** (`tor.py`). *State:* `process`, `_stop_requested`, the log
handle, the temporary service directory. *Operations:* `start`, `stop`,
`create_onion_service`, `connect_via_socks`. *Hard:* `stop` from another thread
at every point of `start`; two `stop` calls at once.

**Terminal session** (`session.py`). *State:* a channel, the events `finished`
and `prompt_stop_scheduled`, a prompt. *Operations:* the main thread's prompt,
`_send_text`, `_send_audio`; the receiver thread's loop and `_stop_prompt`.
*Hard:* the receiver must end a prompt that runs in another thread and may be
just opening or closing; recorder and player fail in every way; a send to a peer
that does not read. *Correct when:* the end of a session returns to the menu and
takes the receiver with it.

**GUI session** (`gui_session.py`) with the controller's `send_text`,
`send_audio`, `test_audio` (`webgui.py:242-285`). *State:* a channel, `finished`,
the controller's `audio_busy`. *Hard:* a request holds a session that ends
meanwhile; an error of the audio player inside the receive loop; a send to a peer
that does not read, with `_send_lock` held. *Correct when:* one recording at a
time, the microphone comes free, every end of a session ends its threads.

**Audio** (`audio.py`). *State:* up to four temporary files for each call, and a
child process. *Operations:* `record_opus`, `play_opus`, and the Ogg/Opus
validator. *Hard:* any program may fail, hang or write half a file. *Correct
when:* no file with sound outlives its call.

**Configuration, secrets, contacts, identity** (`config.py`, `peers.py`,
`identity.py`). *State:* files, replaced atomically one at a time. *Hard:*
several processes and threads read, change and write back whole files; a crash
between two files of one contact. *Correct when:* a pinned fingerprint is never
lost, a contact is complete or absent, there is one identity.

**Client authorisation** (`client_auth.py`). *State:* key files of the server
and of clients, and the service's `authorized_clients`, which Tor reads at its
start only. *Operations:* create, replace, revoke, import, remove, and the
copying of the authorised keys at a start. *Hard:* a change in the middle of a
start, what an earlier start or its crash has left; no file means that everyone
may come in. *Correct when:* a start reads what was authorised and nothing else.

**Setup programme** (`scripts/setup_backend.py`, `scripts/setup_web.py`). The
backend is a process that installs Python packages, Tor, FFmpeg, configuration
and kill switch, over Tor where it can. *State:* the disk; per run an attempt,
its Tor, a staging directory. *Hard:* every step can fail or be killed; runs are
repeated and may overlap. *Correct when:* nothing is fetched directly without
the option, nothing is left behind, the exit code tells the truth. The page
starts it, polls and caches. *State:* `STATE`, its cached checks. *Hard:* slow
collections store old results; a thread resets the state before it is done.
*Correct when:* one backend at a time, no false offer to start the program.

**Command line** (`cli.py`) and **web API** (`webgui.py:300-560`): front ends of
the operations above. **HTTP proxy over Tor** (`scripts/tor_http_proxy.py`),
**updater** (`scripts/private-update.sh`), **kill switch** scripts.

### 1.2 Interactions

```
browser --HTTP--> handler threads --+--> GuiController <--> worker thread
                                    |        |                 |
                 disconnect --------+        |  start/stop     | accept_authenticated
                                             v                 v
                                        TorProcess      listener workers
                                             |                 | perform_server_handshake
   peer <====== Tor network ======> onion service ------> SecureChannel
                                                               |
                             send_text, send_audio, close  GuiSession (receive loop)
```

Controller and worker share attributes and `self.lock`; the controller reaches
into the listener through `stop_requested` and the listening socket, into Tor
through `TorProcess.stop`, and into the session through `GuiSession.close`,
which sends on the same channel as the chat and the audio upload. `setup_web`
and `setup_backend` are two processes that share the disk and an exit code.

## 2 The modules

| Module | Models | Specification it implements |
|---|---|---|
| `PreAuthListener` | `listener.py` with every thread | `AcceptOne` |
| `AcceptOne` | the promise of `accept_authenticated` | |
| `Handshake` | both handshake functions and `crypto.py` | |
| `SecureChannel` | `send`, `receive`, `close`: one direction | `FifoChannel` |
| `FifoChannel` | a stream that is delivered in order until it ends | |
| `GuiController` | controller, worker threads, `TorProcess`, how a `GuiSession` starts and ends | `SessionLife`, for each worker |
| `AudioBackend` | `record_opus`, `play_opus` and their temporary files | |
| `InteractiveSession` | the terminal session's two threads; extends `AudioBackend` | `SessionLife` |
| `GuiSession` | requests inside a session, receive loop, `audio_busy`; extends `AudioBackend` | `SessionLife` |
| `SessionLife` | what a session promises whoever started it: event, channel, return of `run` | |
| `PeerStore` | contact, metadata and identity files under concurrent commands | |
| `ClientAuth` | key files, commands and the start of an onion service | |
| `SetupBackend` | `setup_backend.py`, run repeatedly on one disk | `Installer` |
| `Installer` | what an exit code of the backend promises | |
| `SetupWeb` | `setup_web.py`: page, cache, threads; extends `Installer` | |
| `MCHandshake`, `MCPeerStore`, `MCSetupBackend` | instances for TLC | |
| `SetupRuns` | what `Installer` and `SetupBackend` have in common: the runs, the system | |
| `PreAuthListener_proofs`, `GuiController_proofs`, `AudioBackend_proofs`, `GuiSession_proofs`, `InteractiveSession_proofs` | theorems about the module of that name; the two of the sessions extend the one of `AudioBackend` | |
| `Protocol_proofs` | theorems about `SecureChannel` and `Handshake` | |
| `FileStores_proofs` | theorems about `ClientAuth` and `PeerStore` | |
| `Setup_proofs` | theorems about `SetupBackend` and `SetupWeb` | |

The modules meet at outcomes. `PreAuthListener` takes from the handshake that a
trusted, prompt peer's handshake succeeds (`GoodPairCompletes`) and others may
fail; `GuiController` takes from the listener that it returns a channel or
raises, reads the stop event once per round, and gives up on a closed listener;
`SecureChannel` takes from the handshake that its key has no other sender
(`OneSenderPerKey`), so that sequences that start at 0 are enough. The two
sessions take from `SecureChannel` that the channel is a first-in first-out
stream that may end at any time. `GuiController` shortens a session to its event,
its channel and the return of `run`, and `GuiSession` shortens everything around
it; `SessionLife` is what both keep to, so they do meet. `SetupWeb` runs the very actions of
`Installer` that `SetupBackend` implements.

### 2.1 PreAuthListener

`main` is where the calling thread is in the loop of lines 77 to 114; `worker`
and `sock` hold for each connection its thread and the listener's end of the
socket. A step is a critical section, a blocking call or one access to shared
state. `result.get_nowait()`, the look at `stop_event` and `accept()` are three
steps, as workers and the controller run between them. `Admit` is the critical
section of lines 96 to 105 with the start of the worker: nobody else looks at
`active` for that socket before. `close_pending` is a snapshot under `lock` and
one step per socket without it. `done.is_set()` and what follows are under
`winner_lock`, so `EnterRace` takes the lock and `WinRace` does `done.set()` and
`result.put`; in between, the accept loop may set `done`. Closing a socket
makes its worker's handshake fail. A channel left in the queue is closed when
the queue is freed (`Release`, the interpreter's reference counting).

### 2.2 Handshake

A session is one call of one of the two functions. Its ephemeral key pair and
its nonce are fresh, so the session's name stands for both. A signature is the
record of the signing identity, the role's label and the transcript; a proof
the same with the secret; nobody makes one without the key, which is what
Ed25519 and HMAC are used for. The keys are records of what goes into HKDF, so
two keys are equal exactly when their inputs are. `net` keeps every message
ever sent; a session may read what any session in `Reads[s]` sent, which covers
messages that are delayed, repeated or turn up on another connection, and the
empty choice covers loss. `Change` puts another key or identity into a hello. A
changed signature or proof is refused like a missing one and is not modelled
separately. The server's hello, signature and proof are sent with one `sendall`
and are one message, and so are the client's signature and proof; a connection
that ends inside one, a timeout and bytes read out of step are `Abort`.
`derive_keys` can refuse a public key that is not a curve point; keys in a
signed transcript come from `new_key_pair`, so this does not happen after the
signature was verified.

### 2.3 SecureChannel

A frame carries its sequence, its message, what a change in transit did to it
(`header`, `intact`) and whether the stream ends inside it (`whole`). `Seal` is
lines 170 to 174, `SendAllOk`, `SendAllTorn` and `SendAllFails` are the outcomes
of `sendall`; all release the lock. `_send_sequence` advances only after the
first. The receiver reads the header and the body separately, as a frame's
first bytes are handled before its last ones arrive. `sealed`, `sent` and
`torn` are histories that the properties speak of.

### 2.4 GuiController

`req[r]` is where the handler thread of an HTTP request is, `job[j]` where the
worker thread it started is. The five attributes of the controller are
variables, `stopRequested` is the shared event, and for each worker there are
its listening socket, its `TorProcess` (`torFlag` is `_stop_requested`, `torRef`
says that `process` is not `None`, `torProc` is the operating system's process),
its channel and its session's `finished`. `TorProcess.start` is split where
`stop` can come between: reset of the flag, spawning, and in each round the look
at the flag and the look at the process. `disconnect` is split at each access.
`accept_authenticated` is two steps per round, the connection of a call one.
`stalled` says that the peer does not read any more, which blocks `sendall`.

### 2.5 PeerStore

`key`, `meta` and `identity` are the files. A task is one command of the
terminal, one worker thread of the GUI or one `ensure_initialized`; `pc` says
which file it looks at next. Each look and each replacement is a step of its own:
`load_peer` reads the key and then the metadata, `create_peer` asks whether the
key exists, writes it and then the metadata, `import_peer_secret` writes the key
and adds metadata if there are none, `load_or_create_identity` asks and then
writes, and a session keeps its copy of the profile (`pin`) from the start to
`pin_peer_fingerprint`. `atomic_private_write` replaces a file as a whole, so a
kill between two steps covers a kill inside a write as well. Of the metadata only
the fingerprint is kept, as the address is written with it. Keys and identities
are named by the task that generated them. `init --replace` (`cli.py:259`) goes past the
existence check of `generate_secret` and gives the default contact a new key,
while its metadata stay as they are. `Exclusive` and `CalmStart` say how
careful the user is: on which contacts tasks do not overlap, and whether the
first start is over before a second task begins. Of the properties only
`MetaHasKey` holds without either.

### 2.6 AudioBackend

A step is one temporary file created or one child process run to its end, and
`file[t][n]` says whether the file may hold sound. `aud[t]` is where the call of
thread `t` is. Each platform has its own order of programs (`Recorded`,
`AfterCapture`). `_run` turns every failure of a program into `AudioError`; the
recorder of Termux is run without it, so `OSError` and the errors of `subprocess`
come out there. The validator reads bytes and raises or not: one step.

### 2.7 InteractiveSession

`main` and `recv` are the lines of `run` and `_receive_loop`. `prompt` says
whether `prompt_toolkit` shows a prompt and whether its loop has been told to
exit. `_stop_prompt` looks at `app.is_running` (`LookForPrompt`) and calls into
the prompt's event loop later (`StopPrompt`), and the main thread tests
`finished` and opens the prompt in two steps as well. After a CLOSE of the peer
`_stop_prompt` runs twice, in the loop and in the `finally` clause. A session
that has returned may be followed by the end of the process (`ExitProcess`),
which stops a receiver that is still playing, as it is a daemon thread. A send
(`SayBye`, `SendText`, `Deliver`) returns only while the peer reads or once the
connection is broken (`SendReturns`), as `sendall` has no time limit
(`protocol.py:175`); `stalled` says that the peer does not read any more. Nothing
else ends the send but the user's Ctrl-C (`Interrupt`), for the one thread that
closes the channel is the one that waits. `peer` tells a stream that has ended
or is damaged ("silent"), which the receiver sees, from a connection that is
broken, which frees the sender.

### 2.8 GuiSession

`req[r]` is a handler thread, `job[r]` the recording thread it has started.
`audio_busy` is tested (`Gate`) and set (`Claim`) in two steps. The session is
the one of `GuiController` in state `run`; what happens before and after is
modelled there. `SendText` and `Deliver` differ in what a failure does: text
finishes the session, audio is reported and leaves it. Both, and the CLOSE of a
hangup (`SetFinished`), wait while the peer does not read (`stalled`); what waits
for `_send_lock` behind them waits as long. Here the worker closes the channel
when the receive loop has ended, and that frees them.

### 2.9 ClientAuth

Keys are numbered as they are made; `owner`, `server` and `private` are what
was given to whom, the server's files and the clients' files. The start of a
service is `BeginAuth`, `Clean` (old files, errors suppressed), `List` (`glob`), a
`Copy` for each file, `Spawn`. `temporary` tells an ephemeral service, with a new
directory at each start, from a persistent one, whose directory is as the last
start or its crash left it. `was`, `kept` and `stuck` are histories.

### 2.10 Installer and SetupBackend

`pc[i]` is the call of `main` that run `i` is in; every call that can fail ends
the run or goes on (`Provides`), `Kill` ends it anywhere. `EnsureVenv`,
`FindTor` and `FindFfmpeg` look at what earlier runs left: `bundle` is "broken"
when Tor was not unpacked to its end, or another run unpacks it a second time
(the program then finds a `tor.exe`). `staging[i]` is the directory FFmpeg is
unpacked in: "whole", or the "rest" of files in use that
`rmtree(ignore_errors=True)` passes over (`Discard`); the same call on the target
leaves FFmpeg "partial".
`attempt`, `result`, `torProc` are one try to load something through a Tor of its
own; `EndTry` chooses between a second try, a direct download with the option,
and the end. Packages and FFmpeg are `goal`s of the same steps. In `Installer` a
disk only gains parts, and a run ends with 0 only when the parts it was asked for
are there. Of Tor that part is the file, `torFile`, and not a Tor that works, as
`find_tor` asks for no more.

### 2.11 SetupWeb

`thread[i]` is install request `i`: tested by the handler (`Ask`), then the
thread that starts the backend, waits for it, sets `STATE.state` (`Settle`),
and empties and fills the cache. `look[c]` and `got[c]` are one
`collect_checks`: it begins with what is on the disk, and stores, later, that
and any of what came meanwhile. `AnswerStatus` reads the state after the checks,
as lines 376 to 399 do. `Age` is the end of a result's six seconds.

## 3 What the runs check

| Run | Module and configuration | Properties | Result |
|---|---|---|---|
| `listener` | `PreAuthListener`, `PreAuthListener.cfg` | `PendingBounded`, `OthersClosed`, `PromptPeerEndsTheWait`, `StopHonoured`, `NothingLeaks`, `ImplementsAcceptOne` | hold, 18 415 states |
| `listener_closedWinner` | `PreAuthListener_closedWinner.cfg` | `ReturnedChannelOpen` | violated |
| `handshake` | `MCHandshake`, `Handshake.cfg` | `ServerAgrees`, `ClientAgrees`, `OneSenderPerKey`, `GoodPairCompletes` | hold, 49 009 states |
| `peers` | `MCPeerStore`, `PeerStore.cfg` | `RunningSessionIsPinned`, `MetaHasKey`, `SessionsUseStoredIdentity`, `ContactKept` | hold, 788 187 states |
| `peers_lostPin` | `PeerStore_lostPin.cfg` | `ChangedIdentityIsRefused` | violated |
| `channel` | `SecureChannel`, `SecureChannel.cfg` | `WireSequencesDistinct`, `HonestTrafficAccepted`, `SendReturns`, `SentIsDelivered`, `ImplementsFifo` | hold, 70 059 states |
| `gui` | `GuiController`, `GuiController.cfg` | `OneActionAtATime`, `RunningSessionIsReachable`, `RestIsClean`, `TorEndsWithItsWorker`, `StopAfterResetHonoured`, `DisconnectEndsListen`, `RequestsAnswered` | hold, 20 276 states |
| `session` | `InteractiveSession`, `InteractiveSession.cfg` | `ClearSoundDeleted`, `SessionReturns`, `ReceiverLeaves` | hold, 153 132 states |
| `gui_session` | `GuiSession`, `GuiSession.cfg` | `BusyMeansAudio`, `AudioComesFree`, `SessionEnds` | hold, 253 210 states |
| `setup_backend` | `MCSetupBackend`, `SetupBackend.cfg` | `NoClearnetFallback`, `NothingLeftBehind`, `ImplementsInstaller` | hold, 67 954 states |
| `setup_web` | `SetupWeb`, `SetupWeb.cfg` | `OneBackendAtATime`, `ReadyIsTrue`, `PageCatchesUp` | hold, 244 742 states |
| `client_auth` | `ClientAuth`, `ClientAuth.cfg` | `StartTakesSnapshot`, `NeverOpenByAccident` | hold, 77 564 states |

Each property is stated in words above its definition. For every property of a
run that holds, `PROJECT.json` names a mutant of a definition, the way a slip in
the code would change it, under which TLC finds the property violated. A mutant
is the operator just above the one it replaces. The type invariants, `OneWinner`
and `DeliveredIsPrefix` are in no run because they are proved (section 5).

### Bounds, and why they are enough

- `listener`: three peers, one that authenticates in time, one that may and one
  that never does, and room for two. The races are between two workers, or one
  worker and the accept loop; the third connection makes the refusal happen
  while two are pending, or comes in after one has left. No counter is bounded:
  each connection arrives once. The safety properties are proved for every
  number of connections.
- `handshake`: a pair with a connection of its own; a second client of the same
  device; and three servers that read what it sends: one on the same device, one
  with another secret, one that pins another identity. Two clients and two
  servers with equal credentials are what it takes to mix up transcripts, and
  one changed hello (`MaxChanges`, with the keys of `WrongKeys`) to tell the
  parts of a transcript apart. The agreement properties are proved without
  bounds.
- `channel`: two threads, since a third adds no new conflict over one lock; two
  frames in the buffers (`Window`), so that a frame is complete, half read or
  waiting behind another; three encrypted frames (`MaxSeals`), so that a frame
  has one before and one behind it; one disturbance (`MaxFaults`) at any place.
  `MaxSeals` counts what is sealed and what waits to be, so no thread is kept
  in `send` by a bound.
- `gui`: one listen, one call and one disconnect request in any order, of a
  browser that waits for each answer; the peer may stop reading. Two starts and a
  disconnect are the smallest set in which an old worker cleans up while a new
  one sets up. What holds for overlapping requests too is proved for them.
- `peers`: a named contact with a create, an import and a call that overlap, which
  is how metadata could come without a key; the default contact with a listen, a
  call and an `init --replace` in any order, one at a time, so that a session
  follows a session and a new key follows a pin; the sessions with the two contacts
  overlap and share the identity; two fingerprints, to tell a changed pin from the
  same. Each task runs once; a retry after a kill is another task. The first start
  of kind `init`, which makes a key only where it has found none, is in the proofs
  only, whose theorems are about any set of tasks.
- `session`: two messages of the peer and two lines of the user, so that a
  prompt, a send, a recording and a playing each meet the end of the session and
  each other; the peer may stop reading during any send; the two platforms with the longest recordings.
- `gui_session`: two requests of any kind (`Kind`), so that each meets each and
  one follows one, and a message to play; a peer that may stop reading during any
  send; the shortest recording, as the others are in `session`.
- `setup_backend`: two runs that follow each other or overlap, on Windows and on
  other systems, with no option and with both. A third run meets no disk that the
  second cannot leave.
- `setup_web`: two installations, a poll and a refresh, which is every pair of
  collectors; `Base` is empty, as the page asks of its parts what it asks of Tor.
- `client_auth`: two clients and three keys, so that a key is replaced or given
  out again; starts, kills and revocations are not bounded.
- The violated runs use the smallest instance in which the case occurs.

Deadlock is checked in every run but `setup_backend`, whose runs all end: a state
in which nothing is left to do (`Quiet`, `AtRest`, `Rest`, `Waiting`) stutters
explicitly, so TLC reports any other state without a successor.

No symmetry is used: most runs check liveness, for which it is not sound.
`PeerStore`, `ClientAuth` and `SetupBackend` have no fairness and no liveness
property: a command may stay where it is, and is then killed.

## 4 Fairness

Weak fairness is assumed of the program's own threads only: a thread that can
take its next step, and goes on being able to, takes it. The code justifies it
as follows.

- `PreAuthListener`: `accept()` has a timeout (line 38), so it returns without a
  connection; a worker's reads have the handshake timeout, so `HandshakeFail` is
  always possible and one of its two outcomes happens. An `OSError` from
  `accept()` need not happen, and `AcceptError` is under no fairness. Nothing is
  assumed of peers, except that those in `Prompt` are fast enough not to run
  into the timeout: for them only a closed socket makes the handshake fail.
- `Handshake`: a thread goes on when the message it waits for has arrived.
  Timeouts (`Abort`) may come at any time and need not.
- `SecureChannel`: threads inside `send` and the receive loop go on. A sender that
  faces a full buffer is blocked until the receiver reads or the link breaks; a
  receiver that has ended closes its channel (`GuiSession.run` does so after its
  loop), which is what frees the sender in `SendReturns`.
- `GuiController`: handler threads, worker threads, the death of a terminated
  Tor (it is killed after eight seconds, `tor.py:190-194`) and the failure of a
  read on a dead connection. Browser, peer and Tor network owe nothing.
  `WorkStep` is one weakly fair action per worker and not one per line, so the
  environment may decide which of several outcomes a step has.
- `InteractiveSession` and `GuiSession`: their threads, and the child processes of
  a recording or playing, since each is run with a timeout (`audio.py:494-510`)
  after which it counts as failed. User, browser and peer owe nothing: a line
  need not be entered, a message need not come. A send is fair only while it can
  return: `PeerStalls` may keep it for ever, and neither `PeerGoes` nor the user's
  Ctrl-C need ever happen. In a GUI session the closed channel frees it, in the
  terminal nothing does, which `SessionReturns` and `AudioComesFree` except.
- `SetupWeb`: the page asks for its status again in a `finally` clause
  (`setup_web.py:66`), and a cached result grows older than six seconds. Nothing
  is assumed of installations and refreshes; a state of "done" is one that an
  installation has reached.

## 5 What is proved

All theorems are checked by TLAPS for every value of the constants that
satisfies the assumptions of the modules: finite sets of connections and
threads, the sentinel `None` outside the sets, `MaxPending` in 1..32 as in
`listener.py:34`, role, identity, secret, pin and task functions of the right
type. Nothing is assumed about how many
clients, runs or requests there are, or whether they overlap. For `PeerStore` the
careful use is part of the specification: `Begin` has it
as a guard on `Exclusive` and `CalmStart`, and both may be empty or false.

| Theorem | Statement |
|---|---|
| `PreAuthListener_proofs!TypeCorrect` | `Spec => []TypeOK` |
| `PreAuthListener_proofs!AtMostOneWinner` | `Spec => []OneWinner` |
| `PreAuthListener_proofs!PendingNeverExceeded` | `Spec => []PendingBounded` |
| `PreAuthListener_proofs!EverythingElseIsClosed` | `Spec => []OthersClosed` |
| `PreAuthListener_proofs!AcceptOneImplemented` | `Spec => ImplementsAcceptOne` |
| `Protocol_proofs!HandshakeTypeCorrect` | `HandshakeSpec => []HandshakeTypeOK` |
| `Protocol_proofs!ServersAgree` | `HandshakeSpec => []ServerAgrees` |
| `Protocol_proofs!ClientsAgree` | `HandshakeSpec => []ClientAgrees` |
| `Protocol_proofs!KeysAreOwn` | `HandshakeSpec => []OneSenderPerKey` |
| `FileStores_proofs!TypeCorrect` | `Spec => []TypeOK` |
| `FileStores_proofs!MetadataHaveKeys` | `Spec => []MetaHasKey` |
| `FileStores_proofs!SessionsArePinned` | `Spec => []RunningSessionIsPinned` |
| `FileStores_proofs!IdentityIsStored` | `Spec => []SessionsUseStoredIdentity` |
| `FileStores_proofs!ContactsAreKept` | `Spec => ContactKept` |
| `Protocol_proofs!TypeCorrect` | `Spec => []TypeOK` |
| `Protocol_proofs!PrefixDelivered` | `Spec => []DeliveredIsPrefix` |
| `Protocol_proofs!SequencesDistinct` | `Spec => []WireSequencesDistinct` |
| `Protocol_proofs!OnlyDamageIsRejected` | `Spec => []HonestTrafficAccepted` |
| `Protocol_proofs!FifoImplemented` | `Spec => ImplementsFifo` |
| `GuiController_proofs!TypeCorrect` | `Spec => []TypeOK` |
| `GuiController_proofs!CleanAtRest` | `Spec => []RestIsClean` |
| `GuiController_proofs!NoTorIsLeft` | `Spec => []TorEndsWithItsWorker` |
| `GuiController_proofs!OneAction` | `Spec => [](Serial => OneActionAtATime)` |
| `GuiController_proofs!SessionIsReachable` | `Spec => [](Serial => RunningSessionIsReachable)` |
| `GuiController_proofs!SessionsImplementLife` | `Spec => L(j)!LifeSpec` for every worker `j` |
| `FileStores_proofs!AuthTypeCorrect` | `AuthSpec => []AuthTypeOK` |
| `FileStores_proofs!SnapshotTaken` | `AuthSpec => []StartTakesSnapshot` |
| `FileStores_proofs!NeverOpened` | `AuthSpec => []NeverOpenByAccident` |
| `Setup_proofs!BackendTypeCorrect` | `BackendSpec => []BackendTypeOK` |
| `Setup_proofs!NoFallback` | `BackendSpec => []NoClearnetFallback` |
| `Setup_proofs!NothingLeft` | `BackendSpec => []NothingLeftBehind` |
| `Setup_proofs!InstallerImplemented` | `BackendSpec => ImplementsInstaller` |
| `Setup_proofs!TypeCorrect` | `Spec => []TypeOK` |
| `Setup_proofs!ReadyIsAlwaysTrue` | `Spec => []ReadyIsTrue` |
| `Setup_proofs!OneBackend` | `Spec => []OneBackendAtATime` |
| `AudioBackend_proofs!AudioTypeCorrect` | `AudioSpec => []AudioTypeOK` |
| `AudioBackend_proofs!SoundDeleted` | `AudioSpec => []ClearSoundDeleted` |
| `GuiSession_proofs!TypeCorrect` | `Spec => []TypeOK` |
| `GuiSession_proofs!SessionImplementsAudio` | `Spec => AudioSpec` |
| `GuiSession_proofs!SessionSoundDeleted` | `Spec => []ClearSoundDeleted` |
| `GuiSession_proofs!BusyExact` | `Spec => []BusyMeansAudio` |
| `GuiSession_proofs!BusyHasHolder` | `Spec => []Held` |
| `GuiSession_proofs!SoundGone` | `Spec => []NoSoundAfter` |
| `GuiSession_proofs!EndsInOrder` | `Spec => []SessionOrder` |
| `GuiSession_proofs!SessionImplementsLife` | `Spec => L!LifeSpec` |
| `InteractiveSession_proofs!TypeCorrect` | `Spec => []TypeOK` |
| `InteractiveSession_proofs!SessionImplementsAudio` | `Spec => AudioSpec` |
| `InteractiveSession_proofs!SessionSoundDeleted` | `Spec => []ClearSoundDeleted` |
| `InteractiveSession_proofs!RunReturnsClean` | `Spec => []ReturnsClean` |
| `InteractiveSession_proofs!PromptStopped` | `Spec => []PromptOrder` |
| `InteractiveSession_proofs!SessionImplementsLife` | `Spec => L!LifeSpec` |

**Listener.** That at most one channel is queued is not inductive. The
invariant adds that once something has been queued `done` is set, and that a
worker between lines 64 and 68 holds `winner_lock` and nothing was queued when
it got there. That the accept loop may set `done` in between is harmless,
because the holder does not look at it again. The bound on `active` needs that
the set of connections is finite and that only `Admit` adds to it. For
`OthersClosed` the invariant `Sockets` follows each accepted socket: an open one
is in the hand of the accept loop, in `active` with a live worker, or queued.
When the snapshot of `close_pending` has been worked through, what is left of
`active` has been closed, and a worker that left has closed its socket or won.
The refinement needs `Places`: a connection is in `active` exactly while its
worker lives, what is queued has a worker that won, and the calling thread
handles only sockets that nobody knows yet. `Admit` and `WinRace` are then
AcceptOne's admission and choice, the end of the last `close_pending` is its
return or exception, what closes or leaves without having won is dropped, and
every other step is invisible.

**Handshake.** The invariant says that every signature and proof on the network
was computed by some session over its own hello and the one it keeps in `peer`,
that what is kept is never replaced, and that a session that is done has a
partner with the same transcript. An accepted message then names its author,
and as transcripts contain both hellos and hellos name sessions, equal
transcripts of opposite roles mean that each keeps the other's hello; keys are
a function of that. Two senders with equal keys have the same role and the same
transcript, and so are one.

**Channel.** The invariant has a part about the sender (the holder of the lock
has read the current `_send_sequence`, and the n-th whole frame carries n - 1),
one about a half written frame (there is at most one, the link is down and it
carries the number after the last whole one), one about the wire (an intact
frame was sent under its number; untouched frames come in order) and one about
the receiver (it has delivered as many messages as its sequence says, and they
are the first ones sent). The refinement maps the sent frames to their messages
and adds that what happens after the end of the receiver is invisible.

**Files.** `Placed` says which steps a task of a kind takes. `Keyed` says that
keys never go away, so whoever has seen one finds it, and that metadata are
written only by such tasks. `Owned` says that a task on an exclusive contact is
alone there, so what it has read, or found missing, is what it replaces: only an
import and `init --replace` write a key without having looked for one; `Calm`
that until there is an identity the one task that runs is alone with it.

**GUI controller.** `References` says at which lines of `work()` a shared attribute
can name a worker, so that its `finally` clause still comes. `Resources` says
where a socket, a channel or a Tor is in use, and that a process which has been
taken from its `TorProcess` is waited for by exactly one thread: the worker's
own `stop` or the one of a disconnect. `Reported` says that a state other than
idle has a worker that will set it back. None of these needs the requests to
come one after the other. `OneByOne` is about a browser that waits for its
answers: the request in progress is the only one, so the guard still holds when
the worker is assigned.

**Client authorisation.** `NothingOld` and `NothingLost` say, for each line of a
start, that what is in Tor's directory was authorised during this start or could
not be removed, and that a key that stayed authorised is in the directory or
still to be copied. A start that finds a file gone ends, which is why the second
part survives a revocation. `SomebodyThere` says that until the copying is over
something has been copied or is to be, and is what `NeverOpenByAccident` needs.

**Setup programme.** `Provided` says which parts are on the disk when a run is
past the step for them; no step of any run takes one away, so runs do not
disturb each other. `Private` adds to `NoClearnetFallback` that a run which has not
begun has fetched nothing; `Owned` says between which steps a run has a Tor or a
whole staging directory, so that one which ends by itself has no Tor and at most
the rest of a directory. `Answerable` says that a broken Tor has a run that is
unpacking it, or one that failed or was killed. A step of the backend is
then a `Provide`, an `End`, a `Start` or a stutter of `Installer`; a broken Tor
has the part `torFile`, for that is all `find_tor` asks.

**Installer's page.** `Collected` says that whatever was collected or cached, when
ever, is on the disk, since a disk only gains parts; so an old result can be too
small but never wrong. `Settled` says what a state of "done" implies on Windows,
where the kill switch is then left out of the question. `Watched` ties a running
backend to the one thread that has set the state to running.

**Audio.** Where a call is when its files may hold sound (`SoundInPhase`): only
between the first program that writes some and the `finally` clause. What raises
earlier has none to leave. Both sessions are shown to use `AudioBackend` as its
specification says (`SessionImplementsAudio`), on a message of any known type, so
the theorem holds in them.

**GUI session.** `CallsMatch` says that a thread is inside `AudioBackend` exactly
while it waits for it, so what is over has no sound on the disk (`NoSoundAfter`).
`Held` needs no careful user: an event that is set has a thread still to clear
it, which is the safety half of `AudioComesFree`; a stuck send is such a thread. For requests that do not
overlap, `FreeAtClaim` says that what `Gate` found free is free until `Claim`
takes it, and `OneHolder` that one thread holds the event. `SessionOrder` was not
inductive until it said that the receiver is not started yet while the worker is
at its first line, as nothing in `StartReceiver` itself tests that.

**Terminal session.** `PromptOrder` says that there is a prompt exactly while the
main thread is in it, and that nobody looks for one to stop before the event is
set; `EndOrder` what `run` has done at each of its last lines. Together with
`CallsMatch` this is what a caller finds (`ReturnsClean`). It excepts a receiver that is still
playing (section 6, item 9).

**Sessions.** `SessionLife` is one specification for three modules: a session
finishes once, nobody closes its channel before, and `run` returns only when it
is finished and the channel closed. For the terminal it follows from `EndOrder`; for
`GuiSession` it also needs that a hangup which is about to close the channel has
set the event (`HangupOrder`); for `GuiController`, where several sessions
follow each other and a disconnect may hold a reference to an old one, that such
a reference leads to a session that runs or is finished (`SessionKnown`), and
that a worker which is past its session has left it finished and closed
(`SessionKept`). A channel whose session was never attached (`AttachFails`) is no
session: it goes with its thread. The three mappings, and `SessionKept` and
`SessionKnown` for overlapping requests too, were checked by TLC first on the
instances of the runs.

Only model-checked: the liveness properties (`PromptPeerEndsTheWait`,
`StopHonoured`, `NothingLeaks`, `GoodPairCompletes`, `SendReturns`,
`SentIsDelivered`, `StopAfterResetHonoured`, `DisconnectEndsListen`,
`RequestsAnswered`, `SessionReturns`, `ReceiverLeaves`, `AudioComesFree`,
`SessionEnds`, `PageCatchesUp`), as leads-to under fairness is beyond the prover.

## 6 Where the code departs from its documentation

With a run that shows it:

1. **The returned channel may be closed** (`listener_closedWinner`). The
   `finally` clause closes all of `active`, and the winner's worker may not have
   left it yet (`listener.py:112-114` against 68 and 72-74).
2. **A pin is compared with an old copy** (`peers_lostPin`). Two sessions with one
   contact that overlap both start from a profile without a pin; the second is
   accepted with an identity other than the pinned one and replaces the pin.

Without a run of its own; the instance that shows it is given:

3. **A nonce can be used twice.** After a failed `sendall` the sequence is not
   advanced; another `send` encrypts under it. `NonceUsedOnce` of `SecureChannel`
   with `Window = 1`, `MaxSeals = 2`, `MaxFaults = 0`. `WireSequencesDistinct`
   shows that the second frame never reaches the wire, as the socket is broken.
4. **Two connection actions at once.** `_busy_guard` releases the lock before the
   worker is assigned. `OneActionAtATime` with two listens and `Serial = FALSE`.
5. **A disconnect that comes early does not end a call**: the worker of a call does
   not read `stop_requested`, and `TorProcess.start` resets its flag.
   `DisconnectEndsCall` with one call, one disconnect and `Stalls = FALSE`.
6. **A peer that does not read blocks disconnect**: CLOSE is sent before Tor is
   stopped. `DisconnectEndsSession` with `Stalls = TRUE`.
7. **Two recordings or two installations** can start when two requests overlap,
   as test and set are two steps (`webgui.py:256-258`, `setup_web.py:414-423`):
   `BusyMeansAudio` and `OneBackendAtATime` without their `Serial` and `Patient`.
8. **A prompt may outlive its session** until a key is pressed: opened between the
   receiver's look at `app.is_running` and the main thread's own test
   (`session.py:44-47` against 76).
9. **A killed program leaves its files**: a sound file, since the receiver is a
   daemon thread (`session.py:72`).
10. **A send to a peer that does not read never returns** (`protocol.py:175`). The
    terminal session hangs in it: `finished ~> Returned` of `InteractiveSession`.
    In the GUI `audio_busy` stays set, and a hangup waits for `_send_lock` before it
    closes the channel (`gui_session.py:59`): `busy ~> ~busy` of `GuiSession`.
11. **An exit code of 0 with a broken Tor.** When a run fails or is killed while it
    unpacks Tor, `tor.exe` may be there and incomplete. Later runs take it for a
    Tor (`setup_backend.py:99-110`) and, with the packages there, end with "DONE –
    OnionCall ist vollständig eingerichtet" (line 686): `bundle = "broken"` and a
    `code` of "ok" in `SetupBackend`.
12. **Rests of a staging directory stay.** What `rmtree(ignore_errors=True)` could
    not delete of `.ffmpeg-install-<pid>` (`setup_backend.py:558`), no later run
    deletes, as it has another pid: `staging[i] = "none"` for every run that has
    ended by itself.
13. **A pin is lost** when a listen and a call with one contact overlap: the profile
    that the call has loaded before is written back whole (`peers.py:145-147`).
    `ContactKept` without the guard on `Exclusive`.
14. **Two first starts** that overlap make two identities, and one of them goes on
    with the one that is not on disk (`identity.py:43-57`):
    `SessionsUseStoredIdentity` without the guard on `CalmStart`.

The properties that hold are weakened accordingly, and say so:
`DisconnectEndsListen` and `RequestsAnswered` except a stalled peer,
`StopAfterResetHonoured` speaks of a flag that is set after the reset,
`ContactKept` and `RunningSessionIsPinned` of contacts without overlapping tasks,
and `ContactKept` of every key but the default contact's after `init --replace`;
`SessionReturns` of every prompt but the one of item 8 and, like
`AudioComesFree`, of every send but one that never returns (item 10).
`NothingLeftBehind` allows rests of a staging directory and says which runs a broken Tor
may come from; `ImplementsInstaller` asks for Tor's file only (items 11 and 12).

## 7 Not modelled

- `config.json`, `last_address`, the event ring and the status request of the GUI:
  display and convenience, which the next call writes again.
- The torrc, the log file and file modes; DPAPI: one value or another, no order.
- The Ogg/Opus validator, address checksums, SOCKS5 replies, request parsing,
  tokens: functions of one input, without state; their outcome, accepted or
  refused, is a choice in the models that call them.
- `tor_http_proxy.py`: `setup_backend.py:365-367` uses Tor's own tunnel and nothing
  starts the proxy.
- A temporary file that cannot be deleted: an `OSError` from the first `unlink` of a
  `finally` clause (`audio.py:270-273`, 472-473) would skip the others, which
  matters where files in use cannot be deleted. `AudioBackend` deletes them all.
- The settings of the system that make `urllib` go past its proxy for some hosts
  (`setup_backend.py:193`): `NoClearnetFallback` is about which way the program asks
  for.
- Time: a peer that sends a byte before each timeout keeps a worker of the listener
  (`protocol.py:64`) and looks like an idle one. Ctrl-C elsewhere than at the
  prompt or in a send.
- Different size limits of two versions: sender and receiver share `TYPE_LIMITS`.
- Launching OnionCall from the installer's page, its progress and log lines.
- Kill switch and firewall scripts, update scripts: straight lines around system
  commands, no state of the program. Vendored binaries and their licences.
- Terminal menus, `doctor`, colours: wording. The commands' order of file
  accesses is in `PeerStore` and `ClientAuth`.
- Cryptographic strength: primitives are symbolic. Exhaustion of threads.

## 8 What could come next

`GuiController` and `GuiSession` composed, so that a session is replaced while a
recording for the old one runs.
