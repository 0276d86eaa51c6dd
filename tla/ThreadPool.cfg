CONSTANTS
    Users = {u1, u2}
    Cap = 2
    Tasks = {t1, t2, t3}
    NoTask = NoTask
    NoOwner = NoOwner
    SpuriousWakeups = TRUE
    CreateMayFail = TRUE
SPECIFICATION FairSpec
INVARIANTS SingleInstance NoIdleWorker
PROPERTIES IsTaskPool EveryTaskRuns
\* When every task has been run, or no worker could be created, the system rests.
CHECK_DEADLOCK FALSE
