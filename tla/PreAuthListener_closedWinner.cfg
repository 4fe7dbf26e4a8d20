\* The smallest instance in which the returned channel is found closed.
SPECIFICATION Spec
CONSTANTS
    Conn = {p1}
    Trusted = {p1}
    Prompt = {p1}
    MaxPending = 1
    None = None
INVARIANT ReturnedChannelOpen
