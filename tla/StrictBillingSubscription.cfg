SPECIFICATION Spec
CONSTANTS
    Requests = {r1, r2}
    NSubs = 2
    SubTotal <- TwoSubscriptions
    InitWallet = 2
    InitToken = 4
    TokenUnlimited = TRUE
    Plans <- MixedPlans
    Usages = {3}
    Fees = {1}
    MaxResets = 1
    Disruptions = {"ended", "deleted"}
SYMMETRY Symmetry
INVARIANTS
    LedgerAccountsForQuota
    
PROPERTIES
    ImplementsEscrow
CHECK_DEADLOCK FALSE
