CONSTANTS
    Producers = {p1, p2}
    Consumers = {c1, c2}
    Capacity = 2
    Items = {a, b}
    None = None
    NoOwner = NoOwner
SPECIFICATION FairSpec
INVARIANTS TypeOK SlotExclusion PermitsConserved NoLapping
PROPERTIES IsFifo Progress
