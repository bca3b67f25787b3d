SPECIFICATION Spec
CONSTANTS
    Tasks = {t1}
    Kind <- AllVideo
    NoTask = NoTask
    Pollers = {p1, p2, p3}
    Quotas = {2}
    Costs = {0, 3}
    MaxExits = 2
    MaxReads = 0
    Faults = {"database", "channel", "upstream"}
SYMMETRY Symmetry
INVARIANTS
    BilledAtMostOnce
    NeverOverRefunded
PROPERTIES
    TerminalIsFinal
