CONSTANTS
    CHILD_NUM = 3
    EXE_NUM = 1
SPECIFICATION FairSpec
PROPERTY WaitEnds
\* As above.
CHECK_DEADLOCK FALSE
