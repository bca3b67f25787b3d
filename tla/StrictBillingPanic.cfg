SPECIFICATION Spec
CONSTANTS
    Requests = {r1}
    NSubs = 0
    SubTotal <- NoSubscription
    InitWallet = 4
    InitToken = 5
    TokenUnlimited = FALSE
    Plans <- WalletPlans
    Usages = {3}
    Fees = {1}
    MaxResets = 0
    Disruptions = {"token"}
INVARIANT
    PanicNeverStrands
CHECK_DEADLOCK FALSE
