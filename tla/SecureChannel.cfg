\* Two threads, a message beyond its limit, buffers for two frames, one frame
\* touched on the way.
SPECIFICATION FairSpec
CONSTANTS
    Thread = {t1, t2}
    Msg = {m1, m2, big}
    TooLarge = {big}
    Window = 2
    MaxSeals = 3
    MaxFaults = 1
    None = None
INVARIANTS
    WireSequencesDistinct
    HonestTrafficAccepted
PROPERTIES
    SendReturns
    SentIsDelivered
    ImplementsFifo
