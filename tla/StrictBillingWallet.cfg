SPECIFICATION FairSpec
CONSTANTS
    Requests = {r1, r2}
    NSubs = 0
    SubTotal <- NoSubscription
    InitWallet = 4
    InitToken = 5
    TokenUnlimited = FALSE
    Plans <- WalletPlans
    Usages = {0, 3}
    Fees = {1}
    MaxResets = 0
    Disruptions = {"token", "exit", "database"}
INVARIANTS
    TypeOK
    LedgerAccountsForQuota
    OverdraftIsExplained
    UsageNeverReleased
    SettledExactlyOnce
    OpenReservationIsKept
PROPERTIES
    FinalIsFinal
    ImplementsEscrow
    EveryRequestEnds
CHECK_DEADLOCK FALSE
