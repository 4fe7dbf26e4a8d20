\* Two messages of the peer and two lines of the user, so that a prompt, a
\* recording and a playing each meet the end of the session.
CONSTANTS
    Thread = {"main", "receiver"}
    Platforms = {"Linux", "Termux"}
    MaxMessages = 2
    MaxLines = 2
SPECIFICATION FairSpec
INVARIANTS ClearSoundDeleted
PROPERTIES SessionReturns ReceiverLeaves
