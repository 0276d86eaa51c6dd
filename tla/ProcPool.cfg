CONSTANTS
    CHILD_NUM = 3
    EXE_NUM = 4
SPECIFICATION FairSpec
INVARIANTS OnlyParentWrites NoBrokenPipe NoTaskLost
PROPERTY AllReaped
\* The parent ends, killed or after WaitProcess, and the children exit.
CHECK_DEADLOCK FALSE
