CONSTANTS
    ca = ca
    cb = cb
    Clients = {ca}
    Sends <- Two
    NumFds = 2
    SndCap = 1
    Gnum = 1
    StaleTail = TRUE
    None = None
SPECIFICATION Spec
INVARIANT InputIntact
\* When every client has left, the server waits for ever.
CHECK_DEADLOCK FALSE
