\* The user lets sessions with one contact overlap.
CONSTANTS
    alice = alice
    Default = Default
    createA = createA
    importA = importA
    callA = callA
    listenD = listenD
    callD = callD
    replaceD = replaceD
    Task <- MCTask
    Kind <- MCKind
    Of <- MCOf
    Contact = {alice, Default}
    Exclusive = {}
    CalmStart = TRUE
    Finger = {f1, f2}
    NoPin = NoPin
    None = None
SPECIFICATION Spec
PROPERTY ChangedIdentityIsRefused
