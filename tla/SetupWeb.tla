------------------------------ MODULE SetupWeb ------------------------------
(***************************************************************************)
(* scripts/setup_web.py: the installer's page.  POST /api/install starts a *)
(* thread that runs setup_backend.py and watches it; the page polls        *)
(* GET /api/status, whose checks of the disk are cached for six seconds;   *)
(* POST /api/refresh collects them anew.  The backend's runs are those of  *)
(* module Installer, one for every install request.                        *)
(***************************************************************************)
EXTENDS Installer, Integers

CONSTANT Patient  \* whether the user waits for the page to show a request

ASSUME PatientAssumption == Patient \in BOOLEAN
ASSUME InstallAssumption == Install \subseteq Nat  \* in the order of arrival

VARIABLES
    state,      \* STATE.state
    skipped,    \* STATE.skip_killswitch
    cached,     \* STATE.cached_checks is there and less than six seconds old
    cache,      \* the checks in it whose state is "ok"
    thread,     \* thread[i]: where install request i and its thread are
    look,       \* look[c]: where c's collect_checks is
    got,        \* got[c]: what was "ok" when c began to collect; c's result
    ready       \* what the last answer to the page said of it

stateVars == <<state, skipped>>
cacheVars == <<cached, cache>>
collectVars == <<cacheVars, look, got>>
vars == <<stateVars, collectVars, thread, ready, installVars>>

\* Who collects checks: the status poll, a refresh, an installer's thread.
Status == -1
Refresh == -2
Collector == {Status, Refresh} \cup Install
Critical == Base \cup {"torFile"}

Init ==
    /\ InstallInit
    /\ state = "idle" /\ skipped = FALSE
    /\ cached = FALSE /\ cache = {}
    /\ thread = [i \in Install |-> "new"]
    /\ look = [c \in Collector |-> "idle"]
    /\ got = [c \in Collector |-> {}]
    /\ ready = FALSE

------------------------------------------------------------------------------
(* collect_checks.  Reading the disk takes time: what changes meanwhile is  *)
(* seen or not, and the query of the kill switch can fail.                  *)

Seen == IF os = "nt" THEN have ELSE have \cup {"killswitch"}

Checks(c) == {s \in SUBSET Seen : got[c] \ {"killswitch"} \subseteq s}

BeginCollect(c) ==
    /\ look' = [look EXCEPT ![c] = "collecting"]
    /\ got' = [got EXCEPT ![c] = Seen]

Store(c, next) ==
    /\ look[c] = "collecting"
    /\ look' = [look EXCEPT ![c] = next]
    /\ cached' = TRUE
    /\ cache' \in Checks(c)
    /\ got' = [got EXCEPT ![c] = IF next = "answer" THEN cache' ELSE {}]
    /\ UNCHANGED <<stateVars, ready, installVars>>

Empty == cached' = FALSE /\ cache' = {}

\* Mutant: a result is good for ever.
GoodForever == FALSE
GrowsOld == cached

\* Six seconds after its collection began, which may be as soon as it ends.
Age ==
    /\ GrowsOld /\ Empty
    /\ UNCHANGED <<stateVars, look, got, thread, ready, installVars>>

------------------------------------------------------------------------------
(* GET /api/status and POST /api/refresh.                                   *)

LookStatus ==
    /\ look[Status] = "idle"
    /\ IF cached THEN /\ look' = [look EXCEPT ![Status] = "answer"]
                      /\ got' = [got EXCEPT ![Status] = cache]
                 ELSE BeginCollect(Status)
    /\ UNCHANGED <<stateVars, cacheVars, thread, ready, installVars>>

StoreStatus == Store(Status, "answer") /\ UNCHANGED thread

\* Mutant: a failed installation needs no kill switch either.
OnlyWhenIdle == os = "nt" /\ ~skipped /\ state = "idle"
NeedsKillswitch == os = "nt" /\ ~skipped /\ state # "done"

\* The state is read after the checks were collected.
AnswerStatus ==
    /\ look[Status] = "answer"
    /\ look' = [look EXCEPT ![Status] = "idle"]
    /\ got' = [got EXCEPT ![Status] = {}]
    /\ ready' = /\ Critical \subseteq got[Status]
                /\ NeedsKillswitch => "killswitch" \in got[Status]
                /\ state # "running"
    /\ UNCHANGED <<stateVars, cacheVars, thread, installVars>>

StatusStep == LookStatus \/ StoreStatus \/ AnswerStatus

BeginRefresh ==
    /\ look[Refresh] = "idle"
    /\ Empty
    /\ BeginCollect(Refresh)
    /\ UNCHANGED <<stateVars, thread, ready, installVars>>

EndRefresh == Store(Refresh, "idle") /\ UNCHANGED thread

------------------------------------------------------------------------------
(* POST /api/install and _run_install.                                      *)

Thread(i, from, to) == thread[i] = from /\ thread' = [thread EXCEPT ![i] = to]

\* Mutant: no test.
NoTest == FALSE
Running == state = "running"

\* The request is tested and its thread started; the thread sets the state in a
\* step of its own, later.
Ask(i) ==
    /\ Patient => \A j \in Install : thread[j] # "created"
    /\ \A j \in Install : j < i => thread[j] # "new"
    /\ Thread(i, "new", IF Running THEN "refused" ELSE "created")
    /\ UNCHANGED <<stateVars, collectVars, ready, installVars>>

\* The backend is started, unless Popen fails.
StartBackend(i) ==
    /\ state' = "running"
    /\ \E doSkip \in BOOLEAN :
         /\ skipped' = doSkip
         /\ \/ Thread(i, "created", "watch") /\ Start(i, doSkip)
            \/ /\ Thread(i, "created", "failed")
               /\ skip' = [skip EXCEPT ![i] = doSkip] /\ UNCHANGED <<os, have, run>>
    /\ UNCHANGED <<collectVars, ready>>

Verdict(i) == IF run[i] = "ok" THEN "done" ELSE "error"

Settle(i) ==
    /\ \/ Thread(i, "watch", "empty") /\ run[i] # "running" /\ state' = Verdict(i)
       \/ Thread(i, "failed", "empty") /\ state' = "error"
    /\ UNCHANGED <<skipped, collectVars, ready, installVars>>

\* finally: the cache is emptied and filled anew.
EmptyCache(i) ==
    /\ Thread(i, "empty", "collect")
    /\ Empty
    /\ BeginCollect(i)
    /\ UNCHANGED <<stateVars, ready, installVars>>

FillCache(i) == Store(i, "idle") /\ Thread(i, "collect", "ended")

ThreadStep(i) ==
    StartBackend(i) \/ Settle(i) \/ EmptyCache(i) \/ FillCache(i)

------------------------------------------------------------------------------
Process(i) == (Provide(i) \/ End(i)) /\ UNCHANGED <<stateVars, collectVars, thread, ready>>

Next ==
    \/ StatusStep \/ BeginRefresh \/ EndRefresh \/ Age
    \/ \E i \in Install : Ask(i) \/ ThreadStep(i) \/ Process(i)

Spec == Init /\ [][Next]_vars

\* The page polls for ever (its poll() sets a timer in a finally clause), and
\* six seconds pass.  Nothing is assumed of installations or of refreshes.
Fairness == WF_vars(StatusStep) /\ WF_vars(Age)

FairSpec == Spec /\ Fairness

------------------------------------------------------------------------------
(* Properties.                                                              *)

\* Every variable has its type.
TypeOK ==
    /\ os \in {"nt", "posix"} /\ have \subseteq Part
    /\ run \in [Install -> {"off", "running", "ok", "failed"}]
    /\ skip \in [Install -> BOOLEAN]
    /\ state \in {"idle", "running", "done", "error"} /\ skipped \in BOOLEAN
    /\ cached \in BOOLEAN /\ cache \subseteq Part
    /\ thread \in [Install -> {"new", "refused", "created", "watch", "failed",
                               "empty", "collect", "ended"}]
    /\ look \in [Collector -> {"idle", "collecting", "answer"}]
    /\ got \in [Collector -> SUBSET Part]
    /\ ready \in BOOLEAN

\* "Installation läuft bereits": while the user waits for the page to show a
\* request, never do two processes work on the disk, although the thread that
\* watched the first may still be collecting checks.
OneBackendAtATime ==
    Patient => \A i, j \in Install : run[i] = "running" /\ run[j] = "running" => i = j

\* The page offers to start OnionCall only if all it needs is on the disk, and
\* on Windows the kill switch too, unless it was told to do without.
ReadyIsTrue ==
    ready => /\ Critical \subseteq have
             /\ os = "nt" => "killswitch" \in have \/ \E i \in Install : skip[i]

\* After an installation that is done the page offers OnionCall in the end,
\* whatever old checks a slow poll or refresh has stored over the new ones,
\* unless Tor is missing or somebody starts another installation.
PageCatchesUp == state = "done" /\ "torFile" \in have ~> ready \/ state # "done"
==============================================================================
