\* Two requests of any kind, one message of the peer; the platform with the
\* fewest steps, as the others are checked with InteractiveSession.
CONSTANTS
    Request = {r1, r2}
    Thread = {"receiver", r1, r2}
    Platforms = {"Windows"}
    Serial = TRUE
    MaxMessages = 1
SPECIFICATION FairSpec
INVARIANTS BusyMeansAudio
PROPERTIES AudioComesFree SessionEnds
