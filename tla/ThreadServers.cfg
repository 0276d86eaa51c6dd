CONSTANTS
    c1 = c1
    c2 = c2
    c3 = c3
    Clients = {c1, c2, c3}
    Leavers = {c1, c3}
    NumFds = 2
    INT_MAX = 3
    Formulas <- MCFormulas
    MaxAsk <- MCMaxAsk
    Retries = 2
    Workers = {"w1"}
    Pages = {"index"}
    Asks <- MCAsks
SPECIFICATION ServersFairSpec
INVARIANTS Truthful Survives
PROPERTIES AllAnswered Reclaimed
\* When every client has closed, the server waits for ever.
CHECK_DEADLOCK FALSE
