\* A prompt peer, a trusted one and one that never authenticates, room for
\* two: every race for the winner and a refusal.  No symmetry, as liveness is
\* checked.
SPECIFICATION FairSpec
CONSTANTS
    Conn = {p1, t1, x1}
    Trusted = {p1, t1}
    Prompt = {p1}
    MaxPending = 2
    None = None
INVARIANTS
    PendingBounded
    OthersClosed
PROPERTIES
    PromptPeerEndsTheWait
    StopHonoured
    NothingLeaks
    ImplementsAcceptOne
