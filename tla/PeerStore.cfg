\* A contact whose tasks overlap, one whose tasks do not; a calm first start.
CONSTANTS
    alice = alice
    Default = Default
    createA = createA
    importA = importA
    callA = callA
    listenD = listenD
    callD = callD
    replaceD = replaceD
    Task <- MCTask
    Kind <- MCKind
    Of <- MCOf
    Contact = {alice, Default}
    Exclusive = {Default}
    CalmStart = TRUE
    Finger = {f1, f2}
    NoPin = NoPin
    None = None
SPECIFICATION Spec
INVARIANTS
    RunningSessionIsPinned
    MetaHasKey
    SessionsUseStoredIdentity
PROPERTY ContactKept
