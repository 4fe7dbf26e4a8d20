------------------------- MODULE GuiController_proofs -------------------------
(***************************************************************************)
(* Proofs about GuiController for any requests, however they overlap.  The *)
(* invariant says at which lines of work() a worker can be while an        *)
(* attribute, a socket, a channel or a Tor is its own, who answers for a   *)
(* process that is dying, and, for a browser that waits for its answers,   *)
(* that the worker attribute names the only thread there is.               *)
(***************************************************************************)
EXTENDS GuiController, TLAPS

USE RequestAssumption, SwitchAssumption

------------------------------------------------------------------------------
(* The parts of the invariant.                                              *)

Published == {"start", "spawn", "boot", "boot2", "wait", "accepting", "attach",
              "run", "stop", "stopping", "clear"}
TorIsOwn == {"boot", "boot2", "wait", "accepting", "attach", "run", "stop"}

\* A reference leads to a worker that has published it and not cleared it yet.
References ==
    \A j \in Job :
        /\ session = j => job[j] \in {"run", "stop", "stopping", "clear"}
        /\ tor = j => job[j] \in Published
        /\ listener = j => job[j] \in Published
        /\ req[j] = "launch" => worker \in Job

\* A worker's socket, channel and Tor are in use only where work() can still
\* release them; a process is known to its TorProcess until one thread takes it,
\* and then that thread waits.
Resources ==
    \A j \in Job :
        /\ listening[j] => job[j] \in TorIsOwn \cup {"start", "spawn"}
        /\ channel[j] = "open" =>
               job[j] \in {"attach", "run", "stop", "stopping", "clear", "idle"}
        /\ torRef[j] => job[j] \in TorIsOwn
        /\ torProc[j] = "running" => torRef[j]
        /\ torProc[j] = "dying" =>
               \/ job[j] = "stopping"
               \/ \E d \in Disconnect : req[d] = "tor2" /\ snap[d].tor = j

\* Somebody will set a state other than idle back.
Reported ==
    state # "idle" =>
        \E j \in Job : job[j] \notin {"none", "load", "publish", "start", "ended"}

\* With one request at a time, the guard keeps every other worker out until the
\* one it let in has started.
OneByOne ==
    Serial =>
        /\ \A q, r \in Request : ~Answered(q) /\ ~Answered(r) => q = r
        /\ \A j \in Job :
              /\ req[j] \in {"clear", "assign", "launch"} => \A k \in Job : ~Alive(k)
              /\ req[j] = "launch" => worker = j
              /\ Alive(j) => worker = j
              /\ job[j] \in Published => tor = j
              /\ job[j] = "run" => session = j

Inv == TypeOK /\ References /\ Resources /\ Reported /\ OneByOne

------------------------------------------------------------------------------
(* Every step keeps every part.                                             *)

\* Every step keeps the types.
LEMMA TypeNext == Inv /\ [Next]_vars => TypeOK'
<1> SUFFICES ASSUME Inv, [Next]_vars PROVE TypeOK'
  OBVIOUS
<1> USE DEF Inv, TypeOK, References, JobStates, Job, Request, reqVars, refs, gui, torVars, chanVars, objects
<1>1. ASSUME NEW r \in Request, Arrive(r) PROVE TypeOK'
  BY <1>1 DEF Arrive, Req, ReqOnly
<1>2. ASSUME NEW j \in Job, BusyGuard(j) PROVE TypeOK'
  BY <1>2 DEF BusyGuard, Req, ReqOnly
<1>3. ASSUME NEW j \in Job, ClearStop(j) PROVE TypeOK'
  BY <1>3 DEF ClearStop, Req
<1>4. ASSUME NEW j \in Job, AssignWorker(j) PROVE TypeOK'
  BY <1>4 DEF AssignWorker, Req
<1>5. ASSUME NEW j \in Job, LaunchWorker(j) PROVE TypeOK'
  <2>1. req[j] = "launch" /\ UNCHANGED <<snap, gui, objects>>
    BY <1>5 DEF LaunchWorker, Req
  <2>2. worker \in Job
    BY <2>1
  <2>3. req' \in [Request -> {"new", "guard", "clear", "assign", "launch", "signal", "snap", "session",
                           "listener", "tor", "tor2", "state", "done", "refused"}]
    BY <1>5 DEF LaunchWorker, Req
  <2>4. job' \in [Job -> JobStates]
    BY <1>5, <2>2 DEF LaunchWorker
  <2> QED
    BY <2>1, <2>3, <2>4
<1>6. ASSUME NEW j \in Job, Load(j) PROVE TypeOK'
  BY <1>6 DEF Load, Work, WorkOnly
<1>7. ASSUME NEW j \in Job, Publish(j) PROVE TypeOK'
  BY <1>7 DEF Publish, Work
<1>8. ASSUME NEW j \in Job, BindFails(j) PROVE TypeOK'
  BY <1>8 DEF BindFails, Work, WorkOnly
<1>9. ASSUME NEW j \in Job, TorStart(j) PROVE TypeOK'
  BY <1>9 DEF TorStart, Work
<1>10. ASSUME NEW j \in Job, TorSpawn(j) PROVE TypeOK'
  BY <1>10 DEF TorSpawn, Work
<1>11. ASSUME NEW j \in Job, BootCheck(j) PROVE TypeOK'
  BY <1>11 DEF BootCheck, Work, WorkOnly
<1>12. ASSUME NEW j \in Job, BootReady(j) PROVE TypeOK'
  BY <1>12 DEF BootReady, Work
<1>13. ASSUME NEW j \in Job, BootFails(j) PROVE TypeOK'
  BY <1>13 DEF BootFails, Work, WorkOnly
<1>14. ASSUME NEW j \in Job, Poll(j) PROVE TypeOK'
  BY <1>14 DEF Poll, Work, WorkOnly
<1>15. ASSUME NEW j \in Job, AcceptEnds(j) PROVE TypeOK'
  BY <1>15 DEF AcceptEnds, Work, WorkOnly
<1>16. ASSUME NEW j \in Job, PeerConnects(j) PROVE TypeOK'
  BY <1>16 DEF PeerConnects, Work
<1>17. ASSUME NEW j \in Job, CallFails(j) PROVE TypeOK'
  BY <1>17 DEF CallFails, Work, WorkOnly
<1>18. ASSUME NEW j \in Job, Attach(j) PROVE TypeOK'
  BY <1>18 DEF Attach, Work
<1>19. ASSUME NEW j \in Job, AttachFails(j) PROVE TypeOK'
  BY <1>19 DEF AttachFails, Work, WorkOnly
<1>20. ASSUME NEW j \in Job, PeerLeaves(j) PROVE TypeOK'
  BY <1>20 DEF PeerLeaves, Finish
<1>21. ASSUME NEW j \in Job, ReceiveFails(j) PROVE TypeOK'
  BY <1>21 DEF ReceiveFails, Finish
<1>22. ASSUME NEW j \in Job, RunEnds(j) PROVE TypeOK'
  BY <1>22 DEF RunEnds, Work
<1>23. ASSUME NEW j \in Job, CleanUp(j) PROVE TypeOK'
  BY <1>23 DEF CleanUp, Work, TakeTor
<1>24. ASSUME NEW j \in Job, TorExits(j) PROVE TypeOK'
  BY <1>24 DEF TorExits, TorGone
<1>25. ASSUME NEW j \in Job, TorCrashes(j) PROVE TypeOK'
  BY <1>25 DEF TorCrashes, TorGone
<1>26. ASSUME NEW j \in Job, StopWaited(j) PROVE TypeOK'
  BY <1>26 DEF StopWaited, Work, WorkOnly
<1>27. ASSUME NEW j \in Job, ClearRefs(j) PROVE TypeOK'
  BY <1>27 DEF ClearRefs, Work, NoSession
<1>28. ASSUME NEW j \in Job, SetIdle(j) PROVE TypeOK'
  BY <1>28 DEF SetIdle, Work
<1>29. ASSUME NEW j \in Job, PeerStalls(j) PROVE TypeOK'
  BY <1>29 DEF PeerStalls
<1>30. ASSUME NEW d \in Disconnect, Signal(d) PROVE TypeOK'
  BY <1>30 DEF Signal, Req
<1>31. ASSUME NEW d \in Disconnect, Snapshot(d) PROVE TypeOK'
  BY <1>31 DEF Snapshot, Req, PublishedRefs
<1>32. ASSUME NEW d \in Disconnect, CloseSession(d) PROVE TypeOK'
  BY <1>32, ZenonT(30) DEF CloseSession, Req
<1>33. ASSUME NEW d \in Disconnect, CloseListener(d) PROVE TypeOK'
  BY <1>33 DEF CloseListener, Req
<1>34. ASSUME NEW d \in Disconnect, StopTor(d) PROVE TypeOK'
  <2>1. CASE snap[d].tor = None
    BY <1>34, <2>1 DEF StopTor, Req
  <2>2. CASE snap[d].tor # None
    <3> DEFINE k == snap[d].tor
    <3>1. k \in Job
      BY <2>2
    <3>2. Req(d, "tor", IF torRef[k] THEN "tor2" ELSE "state") /\ TakeTor(k)
      BY <1>34, <2>2 DEF StopTor
    <3>3. UNCHANGED <<snap, job, gui, listening, chanVars>>
      BY <1>34 DEF StopTor
    <3> HIDE DEF k
    <3> QED
      BY <3>1, <3>2, <3>3 DEF Req, TakeTor
  <2> QED
    BY <2>1, <2>2
<1>35. ASSUME NEW d \in Disconnect, StopTorWaited(d) PROVE TypeOK'
  BY <1>35 DEF StopTorWaited, Req, ReqOnly
<1>36. ASSUME NEW d \in Disconnect, ReportIdle(d) PROVE TypeOK'
  BY <1>36 DEF ReportIdle, Req
<1>37. CASE UNCHANGED vars
  BY <1>37 DEF vars
<1> QED
  BY <1>1, <1>2, <1>3, <1>4, <1>5, <1>6, <1>7, <1>8, <1>9, <1>10, <1>11, <1>12, <1>13, <1>14, <1>15, <1>16, <1>17, <1>18, <1>19, <1>20, <1>21, <1>22, <1>23, <1>24, <1>25, <1>26, <1>27, <1>28, <1>29, <1>30, <1>31, <1>32, <1>33, <1>34, <1>35, <1>36, <1>37 DEF Next, StartStep, WorkStep, DisconnectStep

\* Every step keeps the references.
LEMMA ReferencesNext == Inv /\ [Next]_vars => References'
<1> SUFFICES ASSUME Inv, [Next]_vars PROVE References'
  OBVIOUS
<1> USE DEF Inv, TypeOK, References, Published, JobStates, Job, Request, reqVars, refs, gui, torVars, chanVars, objects
<1>1. ASSUME NEW r \in Request, Arrive(r) PROVE References'
  BY <1>1 DEF Arrive, Req, ReqOnly
<1>2. ASSUME NEW j \in Job, BusyGuard(j) PROVE References'
  BY <1>2 DEF BusyGuard, Req, ReqOnly
<1>3. ASSUME NEW j \in Job, ClearStop(j) PROVE References'
  BY <1>3 DEF ClearStop, Req
<1>4. ASSUME NEW j \in Job, AssignWorker(j) PROVE References'
  BY <1>4 DEF AssignWorker, Req
<1>5. ASSUME NEW j \in Job, LaunchWorker(j) PROVE References'
  BY <1>5 DEF LaunchWorker, Req
<1>6. ASSUME NEW j \in Job, Load(j) PROVE References'
  BY <1>6 DEF Load, Work, WorkOnly
<1>7. ASSUME NEW j \in Job, Publish(j) PROVE References'
  BY <1>7 DEF Publish, Work
<1>8. ASSUME NEW j \in Job, BindFails(j) PROVE References'
  BY <1>8 DEF BindFails, Work, WorkOnly
<1>9. ASSUME NEW j \in Job, TorStart(j) PROVE References'
  BY <1>9 DEF TorStart, Work
<1>10. ASSUME NEW j \in Job, TorSpawn(j) PROVE References'
  BY <1>10 DEF TorSpawn, Work
<1>11. ASSUME NEW j \in Job, BootCheck(j) PROVE References'
  BY <1>11 DEF BootCheck, Work, WorkOnly
<1>12. ASSUME NEW j \in Job, BootReady(j) PROVE References'
  BY <1>12 DEF BootReady, Work
<1>13. ASSUME NEW j \in Job, BootFails(j) PROVE References'
  BY <1>13 DEF BootFails, Work, WorkOnly
<1>14. ASSUME NEW j \in Job, Poll(j) PROVE References'
  BY <1>14 DEF Poll, Work, WorkOnly
<1>15. ASSUME NEW j \in Job, AcceptEnds(j) PROVE References'
  BY <1>15 DEF AcceptEnds, Work, WorkOnly
<1>16. ASSUME NEW j \in Job, PeerConnects(j) PROVE References'
  BY <1>16 DEF PeerConnects, Work
<1>17. ASSUME NEW j \in Job, CallFails(j) PROVE References'
  BY <1>17 DEF CallFails, Work, WorkOnly
<1>18. ASSUME NEW j \in Job, Attach(j) PROVE References'
  BY <1>18 DEF Attach, Work
<1>19. ASSUME NEW j \in Job, AttachFails(j) PROVE References'
  BY <1>19 DEF AttachFails, Work, WorkOnly
<1>20. ASSUME NEW j \in Job, PeerLeaves(j) PROVE References'
  BY <1>20 DEF PeerLeaves, Finish
<1>21. ASSUME NEW j \in Job, ReceiveFails(j) PROVE References'
  BY <1>21 DEF ReceiveFails, Finish
<1>22. ASSUME NEW j \in Job, RunEnds(j) PROVE References'
  BY <1>22 DEF RunEnds, Work
<1>23. ASSUME NEW j \in Job, CleanUp(j) PROVE References'
  BY <1>23 DEF CleanUp, Work, TakeTor
<1>24. ASSUME NEW j \in Job, TorExits(j) PROVE References'
  BY <1>24 DEF TorExits, TorGone
<1>25. ASSUME NEW j \in Job, TorCrashes(j) PROVE References'
  BY <1>25 DEF TorCrashes, TorGone
<1>26. ASSUME NEW j \in Job, StopWaited(j) PROVE References'
  BY <1>26 DEF StopWaited, Work, WorkOnly
<1>27. ASSUME NEW j \in Job, ClearRefs(j) PROVE References'
  BY <1>27 DEF ClearRefs, Work, NoSession
<1>28. ASSUME NEW j \in Job, SetIdle(j) PROVE References'
  BY <1>28 DEF SetIdle, Work
<1>29. ASSUME NEW j \in Job, PeerStalls(j) PROVE References'
  BY <1>29 DEF PeerStalls
<1>30. ASSUME NEW d \in Disconnect, Signal(d) PROVE References'
  BY <1>30 DEF Signal, Req
<1>31. ASSUME NEW d \in Disconnect, Snapshot(d) PROVE References'
  BY <1>31 DEF Snapshot, Req, PublishedRefs
<1>32. ASSUME NEW d \in Disconnect, CloseSession(d) PROVE References'
  BY <1>32 DEF CloseSession, Req
<1>33. ASSUME NEW d \in Disconnect, CloseListener(d) PROVE References'
  BY <1>33 DEF CloseListener, Req
<1>34. ASSUME NEW d \in Disconnect, StopTor(d) PROVE References'
  BY <1>34 DEF StopTor, Req, TakeTor
<1>35. ASSUME NEW d \in Disconnect, StopTorWaited(d) PROVE References'
  BY <1>35 DEF StopTorWaited, Req, ReqOnly
<1>36. ASSUME NEW d \in Disconnect, ReportIdle(d) PROVE References'
  BY <1>36 DEF ReportIdle, Req
<1>37. CASE UNCHANGED vars
  BY <1>37 DEF vars
<1> QED
  BY <1>1, <1>2, <1>3, <1>4, <1>5, <1>6, <1>7, <1>8, <1>9, <1>10, <1>11, <1>12, <1>13, <1>14, <1>15, <1>16, <1>17, <1>18, <1>19, <1>20, <1>21, <1>22, <1>23, <1>24, <1>25, <1>26, <1>27, <1>28, <1>29, <1>30, <1>31, <1>32, <1>33, <1>34, <1>35, <1>36, <1>37 DEF Next, StartStep, WorkStep, DisconnectStep

\* Every step keeps the resources.
LEMMA ResourcesNext == Inv /\ [Next]_vars => Resources'
<1> SUFFICES ASSUME Inv, [Next]_vars PROVE Resources'
  OBVIOUS
<1> USE DEF Inv, TypeOK, Resources, TorIsOwn, JobStates, Job, Request, reqVars, refs, gui, torVars, chanVars, objects
<1>1. ASSUME NEW r \in Request, Arrive(r) PROVE Resources'
  BY <1>1 DEF Arrive, Req, ReqOnly
<1>2. ASSUME NEW j \in Job, BusyGuard(j) PROVE Resources'
  BY <1>2 DEF BusyGuard, Req, ReqOnly
<1>3. ASSUME NEW j \in Job, ClearStop(j) PROVE Resources'
  BY <1>3 DEF ClearStop, Req
<1>4. ASSUME NEW j \in Job, AssignWorker(j) PROVE Resources'
  BY <1>4 DEF AssignWorker, Req
<1>5. ASSUME NEW j \in Job, LaunchWorker(j) PROVE Resources'
  BY <1>5 DEF LaunchWorker, Req, References
<1>6. ASSUME NEW j \in Job, Load(j) PROVE Resources'
  BY <1>6 DEF Load, Work, WorkOnly
<1>7. ASSUME NEW j \in Job, Publish(j) PROVE Resources'
  BY <1>7 DEF Publish, Work
<1>8. ASSUME NEW j \in Job, BindFails(j) PROVE Resources'
  BY <1>8 DEF BindFails, Work, WorkOnly
<1>9. ASSUME NEW j \in Job, TorStart(j) PROVE Resources'
  BY <1>9 DEF TorStart, Work
<1>10. ASSUME NEW j \in Job, TorSpawn(j) PROVE Resources'
  BY <1>10 DEF TorSpawn, Work
<1>11. ASSUME NEW j \in Job, BootCheck(j) PROVE Resources'
  BY <1>11 DEF BootCheck, Work, WorkOnly
<1>12. ASSUME NEW j \in Job, BootReady(j) PROVE Resources'
  BY <1>12 DEF BootReady, Work
<1>13. ASSUME NEW j \in Job, BootFails(j) PROVE Resources'
  BY <1>13 DEF BootFails, Work, WorkOnly
<1>14. ASSUME NEW j \in Job, Poll(j) PROVE Resources'
  BY <1>14 DEF Poll, Work, WorkOnly
<1>15. ASSUME NEW j \in Job, AcceptEnds(j) PROVE Resources'
  BY <1>15 DEF AcceptEnds, Work, WorkOnly
<1>16. ASSUME NEW j \in Job, PeerConnects(j) PROVE Resources'
  BY <1>16 DEF PeerConnects, Work
<1>17. ASSUME NEW j \in Job, CallFails(j) PROVE Resources'
  BY <1>17 DEF CallFails, Work, WorkOnly
<1>18. ASSUME NEW j \in Job, Attach(j) PROVE Resources'
  BY <1>18 DEF Attach, Work
<1>19. ASSUME NEW j \in Job, AttachFails(j) PROVE Resources'
  BY <1>19 DEF AttachFails, Work, WorkOnly
<1>20. ASSUME NEW j \in Job, PeerLeaves(j) PROVE Resources'
  BY <1>20 DEF PeerLeaves, Finish
<1>21. ASSUME NEW j \in Job, ReceiveFails(j) PROVE Resources'
  BY <1>21 DEF ReceiveFails, Finish
<1>22. ASSUME NEW j \in Job, RunEnds(j) PROVE Resources'
  BY <1>22 DEF RunEnds, Work
<1>23. ASSUME NEW j \in Job, CleanUp(j) PROVE Resources'
  BY <1>23 DEF CleanUp, Work, TakeTor
<1>24. ASSUME NEW j \in Job, TorExits(j) PROVE Resources'
  BY <1>24 DEF TorExits, TorGone
<1>25. ASSUME NEW j \in Job, TorCrashes(j) PROVE Resources'
  BY <1>25 DEF TorCrashes, TorGone
<1>26. ASSUME NEW j \in Job, StopWaited(j) PROVE Resources'
  BY <1>26 DEF StopWaited, Work, WorkOnly
<1>27. ASSUME NEW j \in Job, ClearRefs(j) PROVE Resources'
  BY <1>27 DEF ClearRefs, Work, NoSession
<1>28. ASSUME NEW j \in Job, SetIdle(j) PROVE Resources'
  BY <1>28 DEF SetIdle, Work
<1>29. ASSUME NEW j \in Job, PeerStalls(j) PROVE Resources'
  BY <1>29 DEF PeerStalls
<1>30. ASSUME NEW d \in Disconnect, Signal(d) PROVE Resources'
  BY <1>30 DEF Signal, Req
<1>31. ASSUME NEW d \in Disconnect, Snapshot(d) PROVE Resources'
  BY <1>31 DEF Snapshot, Req, PublishedRefs
<1>32. ASSUME NEW d \in Disconnect, CloseSession(d) PROVE Resources'
  BY <1>32 DEF CloseSession, Req
<1>33. ASSUME NEW d \in Disconnect, CloseListener(d) PROVE Resources'
  BY <1>33 DEF CloseListener, Req
<1>34. ASSUME NEW d \in Disconnect, StopTor(d) PROVE Resources'
  BY <1>34 DEF StopTor, Req, TakeTor
<1>35. ASSUME NEW d \in Disconnect, StopTorWaited(d) PROVE Resources'
  BY <1>35 DEF StopTorWaited, Req, ReqOnly
<1>36. ASSUME NEW d \in Disconnect, ReportIdle(d) PROVE Resources'
  BY <1>36 DEF ReportIdle, Req
<1>37. CASE UNCHANGED vars
  BY <1>37 DEF vars
<1> QED
  BY <1>1, <1>2, <1>3, <1>4, <1>5, <1>6, <1>7, <1>8, <1>9, <1>10, <1>11, <1>12, <1>13, <1>14, <1>15, <1>16, <1>17, <1>18, <1>19, <1>20, <1>21, <1>22, <1>23, <1>24, <1>25, <1>26, <1>27, <1>28, <1>29, <1>30, <1>31, <1>32, <1>33, <1>34, <1>35, <1>36, <1>37 DEF Next, StartStep, WorkStep, DisconnectStep

\* Every step keeps what is said of the state.
LEMMA ReportedNext == Inv /\ [Next]_vars => Reported'
<1> SUFFICES ASSUME Inv, [Next]_vars PROVE Reported'
  OBVIOUS
<1> USE DEF Inv, TypeOK, Reported, JobStates, Job, Request, reqVars, refs, gui, torVars, chanVars, objects
<1>1. ASSUME NEW r \in Request, Arrive(r) PROVE Reported'
  BY <1>1 DEF Arrive, Req, ReqOnly
<1>2. ASSUME NEW j \in Job, BusyGuard(j) PROVE Reported'
  BY <1>2 DEF BusyGuard, Req, ReqOnly
<1>3. ASSUME NEW j \in Job, ClearStop(j) PROVE Reported'
  BY <1>3 DEF ClearStop, Req
<1>4. ASSUME NEW j \in Job, AssignWorker(j) PROVE Reported'
  BY <1>4 DEF AssignWorker, Req
<1>5. ASSUME NEW j \in Job, LaunchWorker(j) PROVE Reported'
  BY <1>5 DEF LaunchWorker, Req, References
<1>6. ASSUME NEW j \in Job, Load(j) PROVE Reported'
  BY <1>6 DEF Load, Work, WorkOnly
<1>7. ASSUME NEW j \in Job, Publish(j) PROVE Reported'
  BY <1>7 DEF Publish, Work
<1>8. ASSUME NEW j \in Job, BindFails(j) PROVE Reported'
  BY <1>8 DEF BindFails, Work, WorkOnly
<1>9. ASSUME NEW j \in Job, TorStart(j) PROVE Reported'
  BY <1>9 DEF TorStart, Work
<1>10. ASSUME NEW j \in Job, TorSpawn(j) PROVE Reported'
  BY <1>10 DEF TorSpawn, Work
<1>11. ASSUME NEW j \in Job, BootCheck(j) PROVE Reported'
  BY <1>11 DEF BootCheck, Work, WorkOnly
<1>12. ASSUME NEW j \in Job, BootReady(j) PROVE Reported'
  BY <1>12 DEF BootReady, Work
<1>13. ASSUME NEW j \in Job, BootFails(j) PROVE Reported'
  BY <1>13 DEF BootFails, Work, WorkOnly
<1>14. ASSUME NEW j \in Job, Poll(j) PROVE Reported'
  BY <1>14 DEF Poll, Work, WorkOnly
<1>15. ASSUME NEW j \in Job, AcceptEnds(j) PROVE Reported'
  BY <1>15 DEF AcceptEnds, Work, WorkOnly
<1>16. ASSUME NEW j \in Job, PeerConnects(j) PROVE Reported'
  BY <1>16 DEF PeerConnects, Work
<1>17. ASSUME NEW j \in Job, CallFails(j) PROVE Reported'
  BY <1>17 DEF CallFails, Work, WorkOnly
<1>18. ASSUME NEW j \in Job, Attach(j) PROVE Reported'
  BY <1>18 DEF Attach, Work
<1>19. ASSUME NEW j \in Job, AttachFails(j) PROVE Reported'
  BY <1>19 DEF AttachFails, Work, WorkOnly
<1>20. ASSUME NEW j \in Job, PeerLeaves(j) PROVE Reported'
  BY <1>20 DEF PeerLeaves, Finish
<1>21. ASSUME NEW j \in Job, ReceiveFails(j) PROVE Reported'
  BY <1>21 DEF ReceiveFails, Finish
<1>22. ASSUME NEW j \in Job, RunEnds(j) PROVE Reported'
  BY <1>22 DEF RunEnds, Work
<1>23. ASSUME NEW j \in Job, CleanUp(j) PROVE Reported'
  BY <1>23 DEF CleanUp, Work, TakeTor
<1>24. ASSUME NEW j \in Job, TorExits(j) PROVE Reported'
  BY <1>24 DEF TorExits, TorGone
<1>25. ASSUME NEW j \in Job, TorCrashes(j) PROVE Reported'
  BY <1>25 DEF TorCrashes, TorGone
<1>26. ASSUME NEW j \in Job, StopWaited(j) PROVE Reported'
  BY <1>26 DEF StopWaited, Work, WorkOnly
<1>27. ASSUME NEW j \in Job, ClearRefs(j) PROVE Reported'
  BY <1>27 DEF ClearRefs, Work, NoSession
<1>28. ASSUME NEW j \in Job, SetIdle(j) PROVE Reported'
  BY <1>28 DEF SetIdle, Work
<1>29. ASSUME NEW j \in Job, PeerStalls(j) PROVE Reported'
  BY <1>29 DEF PeerStalls
<1>30. ASSUME NEW d \in Disconnect, Signal(d) PROVE Reported'
  BY <1>30 DEF Signal, Req
<1>31. ASSUME NEW d \in Disconnect, Snapshot(d) PROVE Reported'
  BY <1>31 DEF Snapshot, Req, PublishedRefs
<1>32. ASSUME NEW d \in Disconnect, CloseSession(d) PROVE Reported'
  BY <1>32 DEF CloseSession, Req
<1>33. ASSUME NEW d \in Disconnect, CloseListener(d) PROVE Reported'
  BY <1>33 DEF CloseListener, Req
<1>34. ASSUME NEW d \in Disconnect, StopTor(d) PROVE Reported'
  BY <1>34 DEF StopTor, Req, TakeTor
<1>35. ASSUME NEW d \in Disconnect, StopTorWaited(d) PROVE Reported'
  BY <1>35 DEF StopTorWaited, Req, ReqOnly
<1>36. ASSUME NEW d \in Disconnect, ReportIdle(d) PROVE Reported'
  BY <1>36 DEF ReportIdle, Req
<1>37. CASE UNCHANGED vars
  BY <1>37 DEF vars
<1> QED
  BY <1>1, <1>2, <1>3, <1>4, <1>5, <1>6, <1>7, <1>8, <1>9, <1>10, <1>11, <1>12, <1>13, <1>14, <1>15, <1>16, <1>17, <1>18, <1>19, <1>20, <1>21, <1>22, <1>23, <1>24, <1>25, <1>26, <1>27, <1>28, <1>29, <1>30, <1>31, <1>32, <1>33, <1>34, <1>35, <1>36, <1>37 DEF Next, StartStep, WorkStep, DisconnectStep

\* Every step keeps what holds with one request at a time.
LEMMA OneByOneNext == Inv /\ [Next]_vars => OneByOne'
<1> SUFFICES ASSUME Inv, [Next]_vars PROVE OneByOne'
  OBVIOUS
<1> USE DEF Inv, TypeOK, OneByOne, Published, Alive, Answered, JobStates, Job, Request, reqVars, refs, gui, torVars, chanVars, objects
<1>1. ASSUME NEW r \in Request, Arrive(r) PROVE OneByOne'
  BY <1>1 DEF Arrive, Req, ReqOnly
<1>2. ASSUME NEW j \in Job, BusyGuard(j) PROVE OneByOne'
  BY <1>2 DEF BusyGuard, Req, ReqOnly, Busy
<1>3. ASSUME NEW j \in Job, ClearStop(j) PROVE OneByOne'
  BY <1>3 DEF ClearStop, Req
<1>4. ASSUME NEW j \in Job, AssignWorker(j) PROVE OneByOne'
  BY <1>4 DEF AssignWorker, Req
<1>5. ASSUME NEW j \in Job, LaunchWorker(j) PROVE OneByOne'
  BY <1>5, SMTT(30) DEF LaunchWorker, Req, References
<1>6. ASSUME NEW j \in Job, Load(j) PROVE OneByOne'
  BY <1>6 DEF Load, Work, WorkOnly
<1>7. ASSUME NEW j \in Job, Publish(j) PROVE OneByOne'
  BY <1>7 DEF Publish, Work
<1>8. ASSUME NEW j \in Job, BindFails(j) PROVE OneByOne'
  BY <1>8 DEF BindFails, Work, WorkOnly
<1>9. ASSUME NEW j \in Job, TorStart(j) PROVE OneByOne'
  BY <1>9 DEF TorStart, Work
<1>10. ASSUME NEW j \in Job, TorSpawn(j) PROVE OneByOne'
  BY <1>10 DEF TorSpawn, Work
<1>11. ASSUME NEW j \in Job, BootCheck(j) PROVE OneByOne'
  BY <1>11 DEF BootCheck, Work, WorkOnly
<1>12. ASSUME NEW j \in Job, BootReady(j) PROVE OneByOne'
  BY <1>12 DEF BootReady, Work
<1>13. ASSUME NEW j \in Job, BootFails(j) PROVE OneByOne'
  BY <1>13 DEF BootFails, Work, WorkOnly
<1>14. ASSUME NEW j \in Job, Poll(j) PROVE OneByOne'
  BY <1>14 DEF Poll, Work, WorkOnly
<1>15. ASSUME NEW j \in Job, AcceptEnds(j) PROVE OneByOne'
  BY <1>15 DEF AcceptEnds, Work, WorkOnly
<1>16. ASSUME NEW j \in Job, PeerConnects(j) PROVE OneByOne'
  BY <1>16 DEF PeerConnects, Work
<1>17. ASSUME NEW j \in Job, CallFails(j) PROVE OneByOne'
  BY <1>17 DEF CallFails, Work, WorkOnly
<1>18. ASSUME NEW j \in Job, Attach(j) PROVE OneByOne'
  BY <1>18 DEF Attach, Work
<1>19. ASSUME NEW j \in Job, AttachFails(j) PROVE OneByOne'
  BY <1>19 DEF AttachFails, Work, WorkOnly
<1>20. ASSUME NEW j \in Job, PeerLeaves(j) PROVE OneByOne'
  BY <1>20 DEF PeerLeaves, Finish
<1>21. ASSUME NEW j \in Job, ReceiveFails(j) PROVE OneByOne'
  BY <1>21 DEF ReceiveFails, Finish
<1>22. ASSUME NEW j \in Job, RunEnds(j) PROVE OneByOne'
  BY <1>22 DEF RunEnds, Work
<1>23. ASSUME NEW j \in Job, CleanUp(j) PROVE OneByOne'
  BY <1>23 DEF CleanUp, Work, TakeTor
<1>24. ASSUME NEW j \in Job, TorExits(j) PROVE OneByOne'
  BY <1>24 DEF TorExits, TorGone
<1>25. ASSUME NEW j \in Job, TorCrashes(j) PROVE OneByOne'
  BY <1>25 DEF TorCrashes, TorGone
<1>26. ASSUME NEW j \in Job, StopWaited(j) PROVE OneByOne'
  BY <1>26 DEF StopWaited, Work, WorkOnly
<1>27. ASSUME NEW j \in Job, ClearRefs(j) PROVE OneByOne'
  BY <1>27 DEF ClearRefs, Work, NoSession
<1>28. ASSUME NEW j \in Job, SetIdle(j) PROVE OneByOne'
  BY <1>28 DEF SetIdle, Work
<1>29. ASSUME NEW j \in Job, PeerStalls(j) PROVE OneByOne'
  BY <1>29 DEF PeerStalls
<1>30. ASSUME NEW d \in Disconnect, Signal(d) PROVE OneByOne'
  BY <1>30 DEF Signal, Req
<1>31. ASSUME NEW d \in Disconnect, Snapshot(d) PROVE OneByOne'
  BY <1>31 DEF Snapshot, Req, PublishedRefs
<1>32. ASSUME NEW d \in Disconnect, CloseSession(d) PROVE OneByOne'
  BY <1>32 DEF CloseSession, Req
<1>33. ASSUME NEW d \in Disconnect, CloseListener(d) PROVE OneByOne'
  BY <1>33 DEF CloseListener, Req
<1>34. ASSUME NEW d \in Disconnect, StopTor(d) PROVE OneByOne'
  BY <1>34, SMTT(30) DEF StopTor, Req, TakeTor
<1>35. ASSUME NEW d \in Disconnect, StopTorWaited(d) PROVE OneByOne'
  BY <1>35 DEF StopTorWaited, Req, ReqOnly
<1>36. ASSUME NEW d \in Disconnect, ReportIdle(d) PROVE OneByOne'
  BY <1>36 DEF ReportIdle, Req
<1>37. CASE UNCHANGED vars
  BY <1>37 DEF vars
<1> QED
  BY <1>1, <1>2, <1>3, <1>4, <1>5, <1>6, <1>7, <1>8, <1>9, <1>10, <1>11, <1>12, <1>13, <1>14, <1>15, <1>16, <1>17, <1>18, <1>19, <1>20, <1>21, <1>22, <1>23, <1>24, <1>25, <1>26, <1>27, <1>28, <1>29, <1>30, <1>31, <1>32, <1>33, <1>34, <1>35, <1>36, <1>37 DEF Next, StartStep, WorkStep, DisconnectStep

------------------------------------------------------------------------------
(* The theorems.                                                            *)

\* The invariant holds at the start.
LEMMA InvInit == Init => Inv
<1> SUFFICES ASSUME Init PROVE Inv
  OBVIOUS
<1> USE DEF Init, Nothing
<1>1. TypeOK
  BY DEF TypeOK, JobStates, Job, Request
<1>2. References /\ Resources
  BY DEF References, Resources, Job, Request
<1>3. Reported /\ OneByOne
  BY DEF Reported, OneByOne, Published, Alive, Answered, Job, Request
<1> QED
  BY <1>1, <1>2, <1>3 DEF Inv

\* The invariant holds for ever.
LEMMA Invariance == Spec => []Inv
<1>1. Inv /\ [Next]_vars => Inv'
  <2> SUFFICES ASSUME Inv, [Next]_vars PROVE Inv'
    OBVIOUS
  <2> QED
    BY TypeNext, ReferencesNext, ResourcesNext, ReportedNext, OneByOneNext DEF Inv
<1> QED
  BY InvInit, <1>1, PTL DEF Spec

\* Every variable of the controller, its workers and its handler threads is
\* always well typed.
THEOREM TypeCorrect == Spec => []TypeOK
<1>1. Inv => TypeOK
  BY DEF Inv
<1> QED
  BY Invariance, <1>1, PTL

\* However requests overlap: once all threads have ended, the state is idle
\* and no reference, Tor, channel or listener is left.
THEOREM CleanAtRest == Spec => []RestIsClean
<1>1. Inv => RestIsClean
  <2> SUFFICES ASSUME Inv, AtRest PROVE
        /\ state = "idle"
        /\ session = None /\ tor = None /\ listener = None
        /\ \A j \in Job : torProc[j] # "running" /\ channel[j] # "open" /\ ~listening[j]
    BY DEF RestIsClean
  <2>1. \A j \in Job : job[j] \in {"none", "ended"}
    BY DEF AtRest, Alive
  <2>2. state = "idle"
    BY <2>1 DEF Inv, Reported
  <2>3. session = None /\ tor = None /\ listener = None
    BY <2>1 DEF Inv, TypeOK, References, Published, Job
  <2>4. \A j \in Job : torProc[j] # "running" /\ channel[j] # "open" /\ ~listening[j]
    BY <2>1 DEF Inv, Resources, TorIsOwn
  <2> QED
    BY <2>2, <2>3, <2>4
<1> QED
  BY Invariance, <1>1, PTL

\* However requests overlap: no Tor outlives its worker, except for one whose
\* end a disconnect waits for.
THEOREM NoTorIsLeft == Spec => []TorEndsWithItsWorker
<1>1. Inv => TorEndsWithItsWorker
  BY DEF Inv, Resources, TorIsOwn, TorEndsWithItsWorker
<1> QED
  BY Invariance, <1>1, PTL

\* A browser that waits for its answers never gets two workers to run.
THEOREM OneAction == Spec => [](Serial => OneActionAtATime)
<1>1. Inv => (Serial => OneActionAtATime)
  BY DEF Inv, OneByOne, OneActionAtATime
<1> QED
  BY Invariance, <1>1, PTL

\* A browser that waits for its answers reaches the session that runs.
THEOREM SessionIsReachable == Spec => [](Serial => RunningSessionIsReachable)
<1>1. Inv => (Serial => RunningSessionIsReachable)
  BY DEF Inv, OneByOne, Published, RunningSessionIsReachable
<1> QED
  BY Invariance, <1>1, PTL

------------------------------------------------------------------------------
(* The session of every worker as a session of SessionLife.                 *)

\* run() of j's session, between Attach and RunEnds, and after it.  A session
\* nobody attached has no life: its channel goes with its thread.
Life(j) == CASE job[j] = "run" -> "running"
             [] job[j] # "run" /\ finished[j] -> "over"
             [] OTHER -> "none"

LifeChannel(j) == IF Life(j) = "none" THEN "none" ELSE channel[j]

L(j) == INSTANCE SessionLife WITH
            life <- Life(j), finished <- finished[j], chan <- LifeChannel(j)

\* A session is finished, and its channel closed, only from Attach on.
SessionKept ==
    \A j \in Job :
        /\ finished[j] => job[j] \in {"run", "stop", "stopping", "clear", "idle", "ended"}
        /\ finished[j] /\ job[j] # "run" => channel[j] = "closed"
        /\ job[j] = "attach" \/ (job[j] = "run" /\ ~finished[j]) => channel[j] = "open"

\* A reference to a session, published or taken by a disconnect, leads to one
\* that runs or has run.
SessionKnown ==
    \A j \in Job :
        /\ session = j => job[j] = "run" \/ finished[j]
        /\ \A d \in Disconnect : snap[d].session = j => job[j] = "run" \/ finished[j]

SessionInv == TypeOK /\ SessionKept /\ SessionKnown

\* What a worker's step may do to its session, and to nobody else's.
Sessions == <<snap, session, channel, finished>>

\* A worker that moves between states without a session keeps both parts.
LEMMA MoveKeeps ==
    ASSUME SessionInv, NEW j \in Job, NEW from, NEW to, Work(j, from, to),
           UNCHANGED Sessions,
           \/ to \in {"publish", "start", "spawn", "boot", "boot2", "wait", "accepting"}
              /\ from \in {"load", "publish", "start", "spawn", "boot", "boot2", "wait", "accepting"}
           \/ to \in {"stop", "stopping", "clear", "idle", "ended"} /\ from # "run"
    PROVE  SessionKept' /\ SessionKnown'
<1> USE DEF SessionInv, TypeOK, Sessions, Work
<1>1. job[j] = from /\ job' = [job EXCEPT ![j] = to] /\ job'[j] = to
  OBVIOUS
<1>2. SessionKept'
  BY <1>1 DEF SessionKept
<1>3. SessionKnown'
  BY <1>1 DEF SessionKnown
<1> QED
  BY <1>2, <1>3

\* Every step keeps both parts.
LEMMA SessionNext == Inv /\ SessionInv /\ [Next]_vars => SessionInv'
<1> SUFFICES ASSUME Inv, SessionInv, [Next]_vars PROVE SessionKept' /\ SessionKnown'
  BY TypeNext DEF SessionInv
<1> USE DEF reqVars, refs, gui, torVars, chanVars, objects, Sessions
<1>1. ASSUME NEW j \in Job, WorkStep(j), ~(Attach(j) \/ RunEnds(j) \/ ClearRefs(j) \/ SetIdle(j))
      PROVE  SessionKept' /\ SessionKnown'
  <2>1. CASE Load(j) \/ Publish(j) \/ BindFails(j) \/ TorStart(j) \/ TorSpawn(j)
    BY <2>1, MoveKeeps DEF Load, Publish, BindFails, TorStart, TorSpawn, WorkOnly
  <2>2. CASE BootCheck(j) \/ BootReady(j) \/ BootFails(j) \/ Poll(j) \/ AcceptEnds(j)
    BY <2>2, MoveKeeps DEF BootCheck, BootReady, BootFails, Poll, AcceptEnds, WorkOnly
  <2>3. CASE CallFails(j) \/ AttachFails(j) \/ CleanUp(j) \/ StopWaited(j)
    BY <2>3, MoveKeeps DEF CallFails, AttachFails, CleanUp, StopWaited, WorkOnly
  <2> QED
    BY <1>1, <2>1, <2>2, <2>3 DEF WorkStep
<1> USE DEF SessionInv, TypeOK
<1>2. ASSUME NEW j \in Job, Attach(j) PROVE SessionKept' /\ SessionKnown'
  BY <1>2 DEF Attach, Work, SessionKept, SessionKnown
<1>3. ASSUME NEW j \in Job, RunEnds(j) PROVE SessionKept' /\ SessionKnown'
  BY <1>3 DEF RunEnds, Work, SessionKept, SessionKnown
<1>4. ASSUME NEW j \in Job, ClearRefs(j) PROVE SessionKept' /\ SessionKnown'
  BY <1>4 DEF ClearRefs, NoSession, Work, SessionKept, SessionKnown, Job
<1>5. ASSUME NEW j \in Job, SetIdle(j) PROVE SessionKept' /\ SessionKnown'
  BY <1>5 DEF SetIdle, Work, SessionKept, SessionKnown
<1>6. ASSUME NEW j \in Job, LaunchWorker(j) PROVE SessionKept' /\ SessionKnown'
  <2>1. worker \in Job /\ UNCHANGED Sessions
    BY <1>6 DEF LaunchWorker, Inv, References
  <2>2. UNCHANGED job \/ (job[worker] = "none" /\ job' = [job EXCEPT ![worker] = "load"])
    BY <1>6 DEF LaunchWorker
  <2> QED
    BY <2>1, <2>2 DEF SessionKept, SessionKnown
<1>7. ASSUME NEW j \in Job, PeerConnects(j) PROVE SessionKept' /\ SessionKnown'
  BY <1>7 DEF PeerConnects, Work, SessionKept, SessionKnown
<1>8. ASSUME NEW j \in Job, Finish(j) PROVE SessionKept' /\ SessionKnown'
  BY <1>8 DEF Finish, SessionKept, SessionKnown
<1>9. ASSUME NEW d \in Disconnect, Snapshot(d) PROVE SessionKept' /\ SessionKnown'
  BY <1>9 DEF Snapshot, PublishedRefs, SessionKept, SessionKnown
<1>10. ASSUME NEW d \in Disconnect, CloseSession(d) PROVE SessionKept' /\ SessionKnown'
  BY <1>10 DEF CloseSession, SessionKept, SessionKnown
<1>11. ASSUME UNCHANGED <<job, Sessions>> PROVE SessionKept' /\ SessionKnown'
  BY <1>11 DEF SessionKept, SessionKnown
<1>12. ASSUME NEW r \in Request, Arrive(r) PROVE UNCHANGED <<job, Sessions>>
  BY <1>12 DEF Arrive, ReqOnly
<1>13. ASSUME NEW j \in Job, BusyGuard(j) \/ ClearStop(j) \/ AssignWorker(j)
       PROVE  UNCHANGED <<job, Sessions>>
  BY <1>13 DEF BusyGuard, ClearStop, AssignWorker, ReqOnly
<1>14. ASSUME NEW j \in Job, TorExits(j) \/ TorCrashes(j) \/ PeerStalls(j)
       PROVE  UNCHANGED <<job, Sessions>>
  BY <1>14 DEF TorExits, TorCrashes, TorGone, PeerStalls
<1>15. ASSUME NEW d \in Disconnect,
              \/ Signal(d) \/ CloseListener(d) \/ StopTor(d) \/ StopTorWaited(d)
              \/ ReportIdle(d)
       PROVE  UNCHANGED <<job, Sessions>>
  BY <1>15 DEF Signal, CloseListener, StopTor, StopTorWaited, ReportIdle, ReqOnly
<1>16. CASE UNCHANGED vars
  BY <1>11, <1>16 DEF vars
<1> QED
  BY <1>1, <1>2, <1>3, <1>4, <1>5, <1>6, <1>7, <1>8, <1>9, <1>10, <1>11, <1>12, <1>13,
     <1>14, <1>15, <1>16
     DEF Next, StartStep, WorkStep, DisconnectStep, PeerLeaves, ReceiveFails

\* The sessions' invariant holds for ever.
LEMMA SessionInvariance == Spec => [](Inv /\ SessionInv)
<1>1. Init => SessionInv
  BY InvInit DEF Init, Nothing, Inv, SessionInv, SessionKept, SessionKnown, Job
<1> QED
  BY <1>1, Invariance, SessionNext, PTL DEF Spec

\* What every step does to the session of one worker.
LEMMA StepIsLife ==
    ASSUME NEW j \in Job, Inv, SessionInv, [Next]_vars
    PROVE  [L(j)!LifeNext]_(L(j)!lifeVars)
<1> USE DEF SessionInv, TypeOK, Life, LifeChannel, L!lifeVars, reqVars, refs, gui, torVars,
        chanVars, objects
<1>1. ASSUME NEW k \in Job, Attach(k) PROVE [L(j)!LifeNext]_(L(j)!lifeVars)
  BY <1>1 DEF Attach, Work, SessionKept, L!LifeNext, L!Begin
<1>2. ASSUME NEW k \in Job, RunEnds(k) PROVE [L(j)!LifeNext]_(L(j)!lifeVars)
  BY <1>2 DEF RunEnds, Work, SessionKept, L!LifeNext, L!Return
<1>3. ASSUME NEW k \in Job, Finish(k) PROVE [L(j)!LifeNext]_(L(j)!lifeVars)
  <2>1. job[k] = "run" /\ ~finished[k] /\ UNCHANGED <<job, channel>>
        /\ finished' = [finished EXCEPT ![k] = TRUE]
    BY <1>3 DEF Finish
  <2>2. CASE k = j
    BY <2>1, <2>2 DEF L!LifeNext, L!Finish
  <2>3. CASE k # j
    BY <2>1, <2>3
  <2> QED
    BY <2>2, <2>3
<1>4. ASSUME NEW d \in Disconnect, CloseSession(d) PROVE [L(j)!LifeNext]_(L(j)!lifeVars)
  BY <1>4 DEF CloseSession, SessionKnown, SessionKept, L!LifeNext, L!Finish
<1>5. ASSUME NEW k \in Job,
             \/ Load(k) \/ Publish(k) \/ BindFails(k) \/ TorStart(k) \/ TorSpawn(k)
             \/ BootCheck(k) \/ BootReady(k) \/ BootFails(k) \/ Poll(k) \/ AcceptEnds(k)
             \/ CallFails(k) \/ AttachFails(k) \/ CleanUp(k) \/ StopWaited(k)
             \/ ClearRefs(k)
      PROVE  [L(j)!LifeNext]_(L(j)!lifeVars)
  <2>1. UNCHANGED <<channel, finished>>
    BY <1>5 DEF Load, Publish, BindFails, TorStart, TorSpawn, BootCheck, BootReady,
       BootFails, Poll, AcceptEnds, CallFails, AttachFails, CleanUp, StopWaited,
       ClearRefs, WorkOnly
  <2>2. job'[j] = "run" <=> job[j] = "run"
    BY <1>5 DEF Load, Publish, BindFails, TorStart, TorSpawn, BootCheck, BootReady,
       BootFails, Poll, AcceptEnds, CallFails, AttachFails, CleanUp, StopWaited,
       ClearRefs, Work
  <2> QED
    BY <2>1, <2>2
<1>6. ASSUME NEW k \in Job, PeerConnects(k) \/ SetIdle(k)
      PROVE  [L(j)!LifeNext]_(L(j)!lifeVars)
  <2>1. CASE PeerConnects(k)
    BY <2>1 DEF PeerConnects, Work, SessionKept
  <2>2. CASE SetIdle(k)
    BY <2>2 DEF SetIdle, Work, SessionKept
  <2> QED
    BY <1>6, <2>1, <2>2
<1>7. ASSUME NEW k \in Job, LaunchWorker(k) PROVE [L(j)!LifeNext]_(L(j)!lifeVars)
  <2>1. UNCHANGED <<channel, finished>> /\ job'[j] = "run" <=> job[j] = "run"
    BY <1>7 DEF LaunchWorker
  <2> QED
    BY <1>7, <2>1 DEF LaunchWorker
<1>8. ASSUME UNCHANGED <<job, channel, finished>> PROVE [L(j)!LifeNext]_(L(j)!lifeVars)
  BY <1>8
<1>9. ASSUME NEW k \in Job,
             BusyGuard(k) \/ ClearStop(k) \/ AssignWorker(k) \/ TorExits(k) \/ TorCrashes(k)
      PROVE  UNCHANGED <<job, channel, finished>>
  BY <1>9 DEF BusyGuard, ClearStop, AssignWorker, ReqOnly, TorExits, TorCrashes, TorGone
<1>10. ASSUME NEW r \in Request, Arrive(r) PROVE UNCHANGED <<job, channel, finished>>
  BY <1>10 DEF Arrive, ReqOnly
<1>11. ASSUME NEW k \in Job, PeerStalls(k) PROVE UNCHANGED <<job, channel, finished>>
  BY <1>11 DEF PeerStalls
<1>12. ASSUME NEW d \in Disconnect,
              \/ Signal(d) \/ Snapshot(d) \/ CloseListener(d) \/ StopTor(d)
              \/ StopTorWaited(d) \/ ReportIdle(d)
       PROVE  UNCHANGED <<job, channel, finished>>
  BY <1>12 DEF Signal, Snapshot, CloseListener, StopTor, StopTorWaited, ReportIdle, ReqOnly
<1>13. CASE UNCHANGED vars
  BY <1>8, <1>13 DEF vars
<1> QED
  BY <1>1, <1>2, <1>3, <1>4, <1>5, <1>6, <1>7, <1>8, <1>9, <1>10, <1>11, <1>12, <1>13
     DEF Next, StartStep, WorkStep, DisconnectStep, PeerLeaves, ReceiveFails

\* However requests overlap and disconnects hit: every worker's session
\* finishes once, keeps its channel until then, and the worker leaves it only
\* when it is finished, with the channel closed.
THEOREM SessionsImplementLife ==
    ASSUME NEW j \in Job
    PROVE  Spec => L(j)!LifeSpec
<1>1. Init => L(j)!LifeInit
  BY DEF Init, L!LifeInit, Life, LifeChannel
<1>2. Inv /\ SessionInv /\ [Next]_vars => [L(j)!LifeNext]_(L(j)!lifeVars)
  BY StepIsLife
<1> QED
  BY <1>1, <1>2, SessionInvariance, PTL DEF Spec, L!LifeSpec
==============================================================================
