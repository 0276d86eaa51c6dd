CONSTANTS
    NUM = 3
    MaxTickets = 4
    UdpClients = {u1, u2}
    MaxLines = 3
    MaxDups = 1
    Writers = {w1, w2}
    BufferSize = 3
    MaxTyped = 2
    MaxQueued = 2
    ShmServers = {s1, s2}
    ShmClients = {k1, k2}
    None = None
    CHILD_NUM = 4
    MaxWritten = 2
    MaxForks = 4
    Rounds = 3
    MaxSignals = 3
    Waiters = {t1, t2, t3}
    Lines = 5
SPECIFICATION FairSpec
INVARIANTS SoldOnce InStep LostOnlyIfBehind OneServer Told
PROPERTY Finishes
\* Programs end; some wait for ever for a datagram, a client or a file.
CHECK_DEADLOCK FALSE
