SPECIFICATION FairSpec
CONSTANTS
    Tasks = {t1, t2}
    Kind <- VideoAndSuno
    NoTask = NoTask
    Pollers = {p1}
    Quotas = {1, 2}
    Costs = {0, 1}
    MaxExits = 0
    MaxReads = 0
    Faults = {}
INVARIANTS
    TypeOK
    ChargeMatchesStatus
PROPERTIES
    EveryTaskEnds
    FailureIsRefunded
