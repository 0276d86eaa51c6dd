CONSTANTS
    ca = ca
    cb = cb
    cc = cc
    Clients = {ca, cb, cc}
    Leavers = {cb, cc}
    Sends <- MCSends
    NumFds = 3
    SndCap = 1
    NoClient = NoClient
    fd_size = 3
    N = 3
SPECIFICATION FairSpec
INVARIANTS NeverBlocks WatchesOpen
PROPERTY Served
\* When every client has left, the server waits for ever.
CHECK_DEADLOCK FALSE
