CONSTANTS
    Users = {u1, u2}
    Capacity = 1
    MaxMessages = 2
SPECIFICATION ChatSpec
INVARIANT MapExclusive
\* As above.
CHECK_DEADLOCK FALSE
