\* Two install requests of a user who waits for the page.  Base is empty, as
\* the page asks of its parts what it asks of Tor.
CONSTANTS
    Install = {1, 2}
    Systems = {"nt", "posix"}
    Base = {}
    Patient = TRUE
SPECIFICATION FairSpec
INVARIANTS OneBackendAtATime ReadyIsTrue
PROPERTIES PageCatchesUp
