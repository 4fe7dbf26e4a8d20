\* A listen request, a call request and a disconnect, one request at a time;
\* the peer may stop reading.
SPECIFICATION FairSpec
CONSTANTS
    Listen = {l1}
    Call = {c1}
    Disconnect = {d1}
    Serial = TRUE
    Stalls = TRUE
    None = None
INVARIANTS
    OneActionAtATime
    RunningSessionIsReachable
    RestIsClean
    TorEndsWithItsWorker
PROPERTIES
    StopAfterResetHonoured
    DisconnectEndsListen
    RequestsAnswered
