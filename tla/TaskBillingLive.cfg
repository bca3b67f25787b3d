SPECIFICATION Spec
CONSTANTS
    Tasks = {t1}
    Kind <- AllLive
    NoTask = NoTask
    Pollers = {p1, p2}
    Quotas = {2}
    Costs = {0, 3}
    MaxExits = 1
    MaxReads = 2
    Faults = {"upstream"}
INVARIANTS
    BilledOncePerEnding
