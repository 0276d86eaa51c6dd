CONSTANTS
    Users = {u1, u2, u3}
    Capacity = 1
    MaxMessages = 3
SPECIFICATION ChatFairSpec
INVARIANT AllTold
PROPERTY Echoed
\* No further datagram arrives, or the process has ended.
CHECK_DEADLOCK FALSE
