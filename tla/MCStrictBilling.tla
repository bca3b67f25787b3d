--------------------------- MODULE MCStrictBilling ---------------------------
(* Instances of StrictBilling for TLC.                                      *)
EXTENDS StrictBilling, TLC

Plan(pref, quota, skip, over) ==
    [pref |-> pref, quota |-> quota, skip |-> skip, over |-> over]

\* Wallet funding: retail (no overdraft) and upstream-cost requests.
WalletPlans ==
    {Plan("wallet_only", 2, skip, over) : skip, over \in BOOLEAN}

\* Both sources, with fallback either way.
MixedPlans ==
    { Plan("wallet_first", 2, TRUE, FALSE),
      Plan("subscription_first", 2, FALSE, TRUE) }

Symmetry == Permutations(Requests)

TwoSubscriptions == <<2, 0>>
NoSubscription == << >>

=============================================================================
