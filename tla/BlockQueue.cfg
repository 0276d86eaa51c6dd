CONSTANTS
    Producers = {p1, p2, p3}
    Consumers = {c1, c2}
    Capacity = 2
    Items = {a, b}
    None = None
    NoOwner = NoOwner
    SpuriousWakeups = TRUE
SPECIFICATION FairSpec
INVARIANTS ConditionHolds NoLostWakeup
PROPERTIES IsFifo Progress
