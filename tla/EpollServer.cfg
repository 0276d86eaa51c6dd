CONSTANTS
    ca = ca
    cb = cb
    Clients = {ca, cb}
    Sends <- Mixed
    NumFds = 3
    SndCap = 1
    Gnum = 2
    StaleTail = FALSE
    None = None
SPECIFICATION FairSpec
INVARIANTS NoUseAfterFree ConnectionsAgree NothingStranded RepliesInOrder KilledOnlyByUnread
PROPERTIES ClosedOnlyIfPeerGone Answered
\* When every client has left, the server waits for ever.
CHECK_DEADLOCK FALSE
