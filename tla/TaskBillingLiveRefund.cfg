SPECIFICATION Spec
CONSTANTS
    Tasks = {t1}
    Kind <- AllLive
    NoTask = NoTask
    Pollers = {p1}
    Quotas = {2}
    Costs = {0}
    MaxExits = 0
    MaxReads = 1
    Faults = {}
INVARIANTS
    NeverOverRefunded
CHECK_DEADLOCK FALSE
