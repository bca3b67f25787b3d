---------------------------- MODULE StrictBilling ----------------------------
(***************************************************************************)
(* The atomic ("strict") billing path of the relay: one BillingSession per *)
(* request (service/billing_session.go) on top of the database             *)
(* transactions of model/strict_billing.go and the subscription            *)
(* bookkeeping of model/subscription.go.  One user is modelled: every      *)
(* transaction starts by locking the user's row, so users do not interact. *)
(*                                                                         *)
(* A database transaction is one step.  It commits and the caller learns   *)
(* so, or it commits and the acknowledgement is lost (ack = FALSE), or it  *)
(* fails and changes nothing.  The process may exit between any two steps; *)
(* the database survives, the sessions do not.                             *)
(***************************************************************************)
EXTENDS Integers, FiniteSets

CONSTANTS
    Requests,     \* request ids; middleware/request-id.go never repeats one
    NSubs,        \* the user's subscriptions are 1..NSubs, in end_time, id order
    SubTotal,     \* amount_total of each subscription; 0 is unlimited
    InitWallet,   \* the user's quota at the start
    InitToken,    \* the token's remain_quota at the start
    TokenUnlimited, \* the token's unlimited_quota
    Plans,        \* the request shapes explored, see PlanType
    Usages,       \* the actual quotas an upstream answer may cost
    Fees,         \* the violation fees that may be due; {} when they are off
    MaxResets,    \* bound on the number of subscription periods that end
    Disruptions   \* which outside events are explored, see DisruptionType

Subs == 1..NSubs
Wallet == 0       \* SubscriptionID = 0 denotes wallet funding

Preferences ==
    {"subscription_only", "wallet_only", "wallet_first", "subscription_first"}

\* quota: the estimate to reserve; skip: playground, the token is not charged;
\* over: AllowOverdraft, usage is billed at upstream cost.
PlanType == [pref : Preferences, quota : Nat, skip : BOOLEAN, over : BOOLEAN]

\* A subscription ends or is deleted, the token is deleted, the process exits,
\* a database call fails.
DisruptionType == {"ended", "deleted", "token", "exit", "database"}

ASSUME ConstantsAssumption ==
    /\ NSubs \in Nat
    /\ SubTotal \in [Subs -> Nat]
    /\ InitWallet \in Nat
    /\ InitToken \in Nat
    /\ TokenUnlimited \in BOOLEAN
    /\ Plans \subseteq PlanType
    /\ Usages \subseteq Nat
    /\ Fees \subseteq Nat \ {0}
    /\ MaxResets \in Nat
    /\ Disruptions \subseteq DisruptionType

StrictSettlementMaxAttempts == 3

DatabaseFails == "database" \in Disruptions

VARIABLES
    \* the database
    wallet,       \* users.quota
    token,        \* tokens.remain_quota
    tokenLive,    \* the token's row is not (soft-)deleted
    used,         \* user_subscriptions.amount_used
    subState,     \* "active", "ended" (expired or cancelled), "deleted"
    due,          \* subscriptions whose next_reset_time has passed
    resets,       \* periods that have ended so far (bounded by MaxResets)
    wasReset,     \* history: subscriptions reset at least once
    ledger,       \* subscription_pre_consume_records, by request id
    purged,       \* requests whose row the cleanup deleted (content kept as history)
    paid,         \* history: where a request's violation fee has been charged
    \* the sessions, one per request
    pc,           \* control state
    plan,         \* what the request asked for
    sub,          \* RelayInfo.SubscriptionId
    attempt,      \* settlement attempts made
    usage,        \* the actual quota being settled, NoUsage before it is known
    started,      \* settlementStarted
    settled,      \* settled
    refunded,     \* refunded
    panicked,     \* history: the request was ended by a panic
    fee           \* the violation fee its error calls for, 0 for none

dbVars == <<wallet, token, tokenLive, used, subState, due, resets, wasReset,
            ledger, purged, paid>>
sessVars == <<pc, plan, sub, attempt, usage, started, settled, refunded, panicked, fee>>
vars == <<dbVars, sessVars>>

NoUsage == -1
NoRow == [status |-> "none", pre |-> 0, sub |-> Wallet]
Finals == {"settled", "refunded"}

Rows == [status : {"none", "consumed"} \cup Finals, pre : Nat, sub : {Wallet} \cup Subs]

\* Control states.  The last two are terminal: the handler returned, or the
\* process exited under it.
PCs == {"new", "checkSub", "tryWallet", "trySub", "reserved", "settling",
        "settledOk", "refundCheck", "refunding", "fee", "feeToken", "done", "dead"}

TypeOK ==
    /\ wallet \in Int
    /\ token \in Int
    /\ tokenLive \in BOOLEAN
    /\ used \in [Subs -> Nat]
    /\ subState \in [Subs -> {"active", "ended", "deleted"}]
    /\ due \subseteq Subs
    /\ resets \in 0..MaxResets
    /\ wasReset \subseteq Subs
    /\ ledger \in [Requests -> Rows]
    /\ purged \subseteq Requests
    /\ paid \in [Requests -> SUBSET {"funding", "token"}]
    /\ pc \in [Requests -> PCs]
    /\ plan \in [Requests -> PlanType]
    /\ sub \in [Requests -> {Wallet} \cup Subs]
    /\ attempt \in [Requests -> 0..StrictSettlementMaxAttempts]
    /\ usage \in [Requests -> {NoUsage} \cup Nat]
    /\ started \in [Requests -> BOOLEAN]
    /\ settled \in [Requests -> BOOLEAN]
    /\ refunded \in [Requests -> BOOLEAN]
    /\ panicked \in [Requests -> BOOLEAN]
    /\ fee \in [Requests -> Nat]

NoPlan == [pref |-> "wallet_only", quota |-> 0, skip |-> FALSE, over |-> FALSE]

Init ==
    /\ wallet = InitWallet
    /\ token = InitToken
    /\ tokenLive = TRUE
    /\ used = [s \in Subs |-> 0]
    /\ subState = [s \in Subs |-> "active"]
    /\ due = {}
    /\ resets = 0
    /\ wasReset = {}
    /\ ledger = [r \in Requests |-> NoRow]
    /\ purged = {}
    /\ paid = [r \in Requests |-> {}]
    /\ pc = [r \in Requests |-> "new"]
    /\ plan = [r \in Requests |-> NoPlan]
    /\ sub = [r \in Requests |-> Wallet]
    /\ attempt = [r \in Requests |-> 0]
    /\ usage = [r \in Requests |-> NoUsage]
    /\ started = [r \in Requests |-> FALSE]
    /\ settled = [r \in Requests |-> FALSE]
    /\ refunded = [r \in Requests |-> FALSE]
    /\ panicked = [r \in Requests |-> FALSE]
    /\ fee = [r \in Requests |-> 0]

-----------------------------------------------------------------------------
(* Conditional updates.  Each is the WHERE clause of one UPDATE statement.  *)

ActiveSubs == {s \in Subs : subState[s] = "active"}

\* decreaseUserQuotaIfEnoughTx
WalletCovers(q) == wallet >= q

\* decreaseTokenQuotaIfEnoughTx; a deleted token matches no row
TokenCovers(q) == tokenLive /\ (TokenUnlimited \/ token >= q)

\* postConsumeUserSubscriptionDeltaTx for a positive delta
SubCovers(s, usedNow, q) == SubTotal[s] = 0 \/ usedNow <= SubTotal[s] - q

\* Mutant: a refund of more than the period has used wraps into a credit
\* for the whole difference, as an unsigned subtraction would.
LessUsedUnclamped(u, q) == IF u < q THEN q - u ELSE u - q

\* postConsumeUserSubscriptionDeltaTx for a refund: clamped at zero
LessUsed(u, q) == IF u < q THEN 0 ELSE u - q

\* amount_used after maybeResetUserSubscriptionWithPlanTx
UsedAfterReset(s) == IF s \in due THEN 0 ELSE used[s]

\* What trySubscription reserves: at least 1
SubConsume(r) == IF plan[r].quota = 0 THEN 1 ELSE plan[r].quota

\* The token part of a reservation: playground requests skip it.
TokenReserves(r, q) == plan[r].skip \/ TokenCovers(q)
TokenMoved(r, delta) == IF plan[r].skip THEN token ELSE token + delta

-----------------------------------------------------------------------------
(* NewBillingSession: funding preference, reservation and fallback.         *)

FirstTry(pref) ==
    CASE pref \in {"wallet_only", "wallet_first"} -> "tryWallet"
      [] pref = "subscription_only" -> "trySub"
      [] pref = "subscription_first" -> "checkSub"

Start(r) ==
    /\ pc[r] = "new"
    /\ \E p \in Plans :
          /\ plan' = [plan EXCEPT ![r] = p]
          /\ pc' = [pc EXCEPT ![r] = FirstTry(p.pref)]
    /\ UNCHANGED <<dbVars, sub, attempt, usage, started, settled, refunded, panicked, fee>>

HasActiveUserSubscription(r) ==
    /\ pc[r] = "checkSub"
    /\ pc' = [pc EXCEPT ![r] = IF ActiveSubs = {} THEN "tryWallet" ELSE "trySub"]
    /\ UNCHANGED <<dbVars, plan, sub, attempt, usage, started, settled, refunded,
                   panicked, fee>>

PreConsumeWallet(r, ack) ==
    /\ pc[r] = "tryWallet"
    /\ plan[r].quota > 0
    /\ TokenReserves(r, plan[r].quota)
    /\ WalletCovers(plan[r].quota)
    /\ token' = TokenMoved(r, -plan[r].quota)
    /\ wallet' = wallet - plan[r].quota
    /\ ledger' = [ledger EXCEPT ![r] =
          [status |-> "consumed", pre |-> plan[r].quota, sub |-> Wallet]]
    /\ pc' = [pc EXCEPT ![r] = IF ack THEN "reserved" ELSE "done"]
    /\ UNCHANGED <<tokenLive, used, subState, due, resets, wasReset, purged, paid, plan,
                   sub, attempt, usage, started, settled, refunded, panicked, fee>>

\* The first active subscription, in end_time order, that covers q once the
\* resets that are due have been applied.
FirstFit(s, q) ==
    /\ s \in ActiveSubs
    /\ SubCovers(s, UsedAfterReset(s), q)
    /\ \A t \in ActiveSubs : t < s => ~SubCovers(t, UsedAfterReset(t), q)

\* Candidates are reset one by one until one covers the amount; the resets of
\* the ones passed over commit with the reservation.
PreConsumeSubscription(r, s, ack) ==
    LET q == SubConsume(r)
        visited == {t \in ActiveSubs : t <= s}
    IN
    /\ pc[r] = "trySub"
    /\ TokenReserves(r, q)
    /\ FirstFit(s, q)
    /\ token' = TokenMoved(r, -q)
    /\ used' = [t \in Subs |->
          IF t = s THEN UsedAfterReset(t) + q
          ELSE IF t \in visited THEN UsedAfterReset(t) ELSE used[t]]
    /\ wasReset' = wasReset \cup (due \cap visited)
    /\ due' = due \ visited
    /\ ledger' = [ledger EXCEPT ![r] =
          [status |-> "consumed", pre |-> q, sub |-> s]]
    /\ sub' = [sub EXCEPT ![r] = IF ack THEN s ELSE Wallet]
    /\ pc' = [pc EXCEPT ![r] = IF ack THEN "reserved" ELSE "done"]
    /\ UNCHANGED <<wallet, tokenLive, subState, resets, purged, paid, plan,
                   attempt, usage, started, settled, refunded, panicked, fee>>

\* The transaction is refused for lack of funds.  A token shortage ends the
\* request; a funding shortage falls back when the preference says so.
PreConsumeInsufficient(r) ==
    LET q == IF pc[r] = "trySub" THEN SubConsume(r) ELSE plan[r].quota
        short == \/ pc[r] = "tryWallet" /\ ~WalletCovers(q)
                 \/ pc[r] = "trySub" /\ \A s \in Subs : ~FirstFit(s, q)
        other == CASE pc[r] = "tryWallet" /\ plan[r].pref = "wallet_first" -> "trySub"
                   [] pc[r] = "trySub" /\ plan[r].pref = "subscription_first" -> "tryWallet"
                   [] OTHER -> "done"
    IN
    /\ pc[r] \in {"tryWallet", "trySub"}
    /\ q > 0
    /\ \/ /\ ~TokenReserves(r, q)
          /\ pc' = [pc EXCEPT ![r] = "done"]
       \/ /\ TokenReserves(r, q)
          /\ short
          /\ pc' = [pc EXCEPT ![r] = other]
    /\ UNCHANGED <<dbVars, plan, sub, attempt, usage, started, settled, refunded,
                   panicked, fee>>

\* Any other error (an estimate of zero on the wallet, a database failure) ends
\* the request.
PreConsumeError(r) ==
    /\ pc[r] \in {"checkSub", "tryWallet", "trySub"}
    /\ DatabaseFails \/ (pc[r] = "tryWallet" /\ plan[r].quota = 0)
    /\ pc' = [pc EXCEPT ![r] = "done"]
    /\ UNCHANGED <<dbVars, plan, sub, attempt, usage, started, settled, refunded,
                   panicked, fee>>

-----------------------------------------------------------------------------
(* The relay: the upstream answers, fails, or the handler panics.           *)

\* An error may carry the marker of a content violation: then f, not 0, is due.
RelayFails(r, panic, f) ==
    /\ pc[r] = "reserved"
    /\ panic => f = 0
    /\ panicked' = [panicked EXCEPT ![r] = panic]
    /\ fee' = [fee EXCEPT ![r] = f]
    /\ pc' = [pc EXCEPT ![r] = "refundCheck"]
    /\ UNCHANGED <<dbVars, plan, sub, attempt, usage, started, settled, refunded>>

\* BillingSession.Settle up to its first attempt.
Settle(r, n) ==
    /\ pc[r] = "reserved"
    /\ ~settled[r]
    /\ started' = [started EXCEPT ![r] = TRUE]
    /\ usage' = [usage EXCEPT ![r] = n]
    /\ attempt' = [attempt EXCEPT ![r] = 1]
    /\ pc' = [pc EXCEPT ![r] = "settling"]
    /\ UNCHANGED <<dbVars, plan, sub, settled, refunded, panicked, fee>>

\* A row the transactions of request r can find, belonging to its session.
RowFound(r) == ledger[r].status # "none" /\ r \notin purged /\ ledger[r].sub = sub[r]

\* Mutant: the extra debit is not conditional on the balance.
FundingAdjustsUnchecked(r, delta) ==
    sub[r] # Wallet => subState[sub[r]] # "deleted"

\* adjustStrictFundingTx and adjustStrictTokenTx can commit.
FundingAdjusts(r, delta) ==
    IF sub[r] = Wallet
    THEN delta <= 0 \/ plan[r].over \/ WalletCovers(delta)
    ELSE /\ subState[sub[r]] # "deleted"
         /\ delta <= 0 \/ plan[r].over \/ SubCovers(sub[r], used[sub[r]], delta)

TokenAdjusts(r, delta) ==
    \/ plan[r].skip
    \/ tokenLive /\ (delta <= 0 \/ plan[r].over \/ TokenCovers(delta))

\* amount_used of subscription s once delta has been added to it (a negative
\* delta is a refund).
UsedMoved(s, delta) ==
    [used EXCEPT ![s] = IF delta > 0 THEN @ + delta ELSE LessUsed(@, -delta)]

FundingMoved(r, delta) ==
    IF sub[r] = Wallet
    THEN wallet' = wallet - delta /\ UNCHANGED used
    ELSE used' = UsedMoved(sub[r], delta) /\ UNCHANGED wallet

\* No statement of the settlement (refund) transaction is refused.
SettleCommits(r) ==
    LET delta == usage[r] - ledger[r].pre IN
    /\ RowFound(r)
    /\ ledger[r].status = "consumed"
    /\ delta # 0 => FundingAdjusts(r, delta) /\ TokenAdjusts(r, delta)

RefundCommits(r) ==
    /\ RowFound(r)
    /\ ledger[r].status = "consumed"
    /\ FundingAdjusts(r, -ledger[r].pre)
    /\ TokenAdjusts(r, -ledger[r].pre)

\* Mutant: the loop forgets to count its attempts.
SettlementFailedForever(r) == UNCHANGED <<attempt, pc>>

\* Mutant: off by one, a fourth attempt is made.
SettlementFailedOneMore(r) ==
    IF attempt[r] <= StrictSettlementMaxAttempts
    THEN /\ attempt' = [attempt EXCEPT ![r] = @ + 1]
         /\ UNCHANGED pc
    ELSE /\ pc' = [pc EXCEPT ![r] = "refundCheck"]
         /\ UNCHANGED attempt

\* An attempt returned an error: try again, or give up and let Refund see to it.
SettlementFailed(r) ==
    IF attempt[r] < StrictSettlementMaxAttempts
    THEN /\ attempt' = [attempt EXCEPT ![r] = @ + 1]
         /\ UNCHANGED pc
    ELSE /\ pc' = [pc EXCEPT ![r] = "refundCheck"]
         /\ UNCHANGED attempt

\* Mutant: the update of the row leaves pre_consumed at the estimate.
SettleKeepsEstimate(r, ack) ==
    LET delta == usage[r] - ledger[r].pre IN
    /\ pc[r] = "settling"
    /\ SettleCommits(r)
    /\ FundingMoved(r, delta)
    /\ token' = TokenMoved(r, -delta)
    /\ ledger' = [ledger EXCEPT ![r].status = "settled"]
    /\ settled' = [settled EXCEPT ![r] = ack]
    /\ IF ack
       THEN /\ pc' = [pc EXCEPT ![r] = "settledOk"]
            /\ UNCHANGED attempt
       ELSE SettlementFailed(r)
    /\ UNCHANGED <<tokenLive, subState, due, resets, wasReset, purged, paid, plan, sub,
                   usage, started, refunded, panicked, fee>>

\* SettleStrictBilling commits.
SettleStrictBilling(r, ack) ==
    LET delta == usage[r] - ledger[r].pre IN
    /\ pc[r] = "settling"
    /\ SettleCommits(r)
    /\ FundingMoved(r, delta)
    /\ token' = TokenMoved(r, -delta)
    /\ ledger' = [ledger EXCEPT ![r] =
          [status |-> "settled", pre |-> usage[r], sub |-> ledger[r].sub]]
    /\ IF ack
       THEN /\ settled' = [settled EXCEPT ![r] = TRUE]
            /\ pc' = [pc EXCEPT ![r] = "settledOk"]
            /\ UNCHANGED attempt
       ELSE /\ SettlementFailed(r)
            /\ UNCHANGED settled
    /\ UNCHANGED <<tokenLive, subState, due, resets, wasReset, purged, paid, plan, sub,
                   usage, started, refunded, panicked, fee>>

\* Mutant: any closed row counts as success.
SettleAlreadyClosed(r) ==
    /\ pc[r] = "settling"
    /\ settled' = [settled EXCEPT ![r] = TRUE]
    /\ pc' = [pc EXCEPT ![r] = "settledOk"]
    /\ UNCHANGED <<dbVars, plan, sub, attempt, usage, started, refunded, panicked, fee>>

\* A retry finds the row settled for the same quota: success, nothing to do.
SettleAlreadySettled(r) ==
    /\ pc[r] = "settling"
    /\ RowFound(r)
    /\ ledger[r].status = "settled"
    /\ ledger[r].pre = usage[r]
    /\ settled' = [settled EXCEPT ![r] = TRUE]
    /\ pc' = [pc EXCEPT ![r] = "settledOk"]
    /\ UNCHANGED <<dbVars, plan, sub, attempt, usage, started, refunded, panicked, fee>>

\* The transaction fails: refused by a guard above, or by the database.
SettleError(r) ==
    /\ pc[r] = "settling"
    /\ \/ DatabaseFails
       \/ /\ ~SettleCommits(r)
          /\ ~(RowFound(r) /\ ledger[r].status = "settled" /\ ledger[r].pre = usage[r])
    /\ SettlementFailed(r)
    /\ UNCHANGED <<dbVars, plan, sub, usage, started, settled, refunded, panicked, fee>>

\* The handler returns, or panics after its settlement.
Finish(r, panic) ==
    /\ pc[r] = "settledOk"
    /\ panicked' = [panicked EXCEPT ![r] = panic]
    /\ pc' = [pc EXCEPT ![r] = IF panic THEN "refundCheck" ELSE "done"]
    /\ UNCHANGED <<dbVars, plan, sub, attempt, usage, started, settled, refunded, fee>>

\* Mutant: a settlement that was started but failed is not remembered.
NeedsRefundIfUnsettled(r) == ~settled[r] /\ ~refunded[r]

\* needsRefundLocked: a strict session always has tokenConsumed > 0.
NeedsRefund(r) == ~settled[r] /\ ~refunded[r] /\ ~started[r]

\* Where the failed handler goes on once Refund returns.
AfterRefund(r) == IF fee[r] = 0 THEN "done" ELSE "fee"

\* BillingSession.Refund up to the point where it gives the lock back.
Refund(r) ==
    /\ pc[r] = "refundCheck"
    /\ pc' = [pc EXCEPT ![r] = IF NeedsRefund(r) THEN "refunding" ELSE AfterRefund(r)]
    /\ UNCHANGED <<dbVars, plan, sub, attempt, usage, started, settled, refunded,
                   panicked, fee>>

\* Mutant: the refund trusts neither the session's flags nor the row's status.
RefundUnchecked(r, ack) ==
    LET q == ledger[r].pre IN
    /\ pc[r] \in {"refundCheck", "refunding"}
    /\ RowFound(r)
    /\ FundingAdjusts(r, -q)
    /\ TokenAdjusts(r, -q)
    /\ FundingMoved(r, -q)
    /\ token' = TokenMoved(r, q)
    /\ ledger' = [ledger EXCEPT ![r].status = "refunded"]
    /\ refunded' = [refunded EXCEPT ![r] = ack]
    /\ pc' = [pc EXCEPT ![r] = AfterRefund(r)]
    /\ UNCHANGED <<tokenLive, subState, due, resets, wasReset, purged, paid, plan, sub,
                   attempt, usage, started, settled, panicked, fee>>

\* Mutant: the funding is given back, the token is not.
RefundFundingOnly(r, ack) ==
    LET q == ledger[r].pre IN
    /\ pc[r] = "refunding"
    /\ RowFound(r)
    /\ ledger[r].status = "consumed"
    /\ FundingAdjusts(r, -q)
    /\ FundingMoved(r, -q)
    /\ ledger' = [ledger EXCEPT ![r].status = "refunded"]
    /\ refunded' = [refunded EXCEPT ![r] = ack]
    /\ pc' = [pc EXCEPT ![r] = AfterRefund(r)]
    /\ UNCHANGED <<token, tokenLive, subState, due, resets, wasReset, purged, paid, plan,
                   sub, attempt, usage, started, settled, panicked, fee>>

RefundStrictBilling(r, ack) ==
    LET q == ledger[r].pre IN
    /\ pc[r] = "refunding"
    /\ RefundCommits(r)
    /\ FundingMoved(r, -q)
    /\ token' = TokenMoved(r, q)
    /\ ledger' = [ledger EXCEPT ![r].status = "refunded"]
    /\ refunded' = [refunded EXCEPT ![r] = ack]
    /\ pc' = [pc EXCEPT ![r] = AfterRefund(r)]
    /\ UNCHANGED <<tokenLive, subState, due, resets, wasReset, purged, paid, plan, sub,
                   attempt, usage, started, settled, panicked, fee>>

\* A failed refund is logged and not retried.
RefundError(r) ==
    /\ pc[r] = "refunding"
    /\ DatabaseFails \/ ~RefundCommits(r)
    /\ pc' = [pc EXCEPT ![r] = AfterRefund(r)]
    /\ UNCHANGED <<dbVars, plan, sub, attempt, usage, started, settled, refunded,
                   panicked, fee>>

\* The subscription of r can take the fee; a wallet always does.
FeeAccepted(r) ==
    sub[r] # Wallet =>
        subState[sub[r]] # "deleted" /\ SubCovers(sub[r], used[sub[r]], fee[r])

\* ChargeViolationFeeIfNeeded, after the refund: PostConsumeQuota charges the
\* funding first, in a transaction of its own and without a row in the ledger,
ChargeViolationFee(r, ack) ==
    /\ pc[r] = "fee"
    /\ FeeAccepted(r)
    /\ FundingMoved(r, fee[r])
    /\ paid' = [paid EXCEPT ![r] = @ \cup {"funding"}]
    /\ pc' = [pc EXCEPT ![r] = IF ack /\ ~plan[r].skip THEN "feeToken" ELSE "done"]
    /\ UNCHANGED <<token, tokenLive, subState, due, resets, wasReset, ledger, purged,
                   plan, sub, attempt, usage, started, settled, refunded, panicked, fee>>

\* and then the token; the update of a deleted token matches no row.
ChargeViolationFeeToken(r) ==
    /\ pc[r] = "feeToken"
    /\ IF tokenLive
       THEN /\ token' = token - fee[r]
            /\ paid' = [paid EXCEPT ![r] = @ \cup {"token"}]
       ELSE UNCHANGED <<token, paid>>
    /\ pc' = [pc EXCEPT ![r] = "done"]
    /\ UNCHANGED <<wallet, tokenLive, used, subState, due, resets, wasReset, ledger,
                   purged, plan, sub, attempt, usage, started, settled, refunded,
                   panicked, fee>>

\* A fee that cannot be charged is logged.
ChargeViolationFeeError(r) ==
    /\ pc[r] \in {"fee", "feeToken"}
    /\ DatabaseFails \/ (pc[r] = "fee" /\ ~FeeAccepted(r))
    /\ pc' = [pc EXCEPT ![r] = "done"]
    /\ UNCHANGED <<dbVars, plan, sub, attempt, usage, started, settled, refunded,
                   panicked, fee>>

-----------------------------------------------------------------------------
(* Background tasks, administration and process exit.                       *)

\* Mutant: the status filter is missing, every old row goes.
CleanupOldRows(r) ==
    /\ ledger[r].status # "none"
    /\ r \notin purged
    /\ pc[r] \in {"done", "dead"}
    /\ purged' = purged \cup {r}
    /\ UNCHANGED <<wallet, token, tokenLive, used, subState, due, resets, wasReset,
                   ledger, paid, sessVars>>

\* CleanupSubscriptionPreConsumeRecords: rows that reached a final status more
\* than a week ago, long after their request ended.
Cleanup(r) ==
    /\ ledger[r].status \in Finals
    /\ r \notin purged
    /\ pc[r] \in {"done", "dead"}
    /\ purged' = purged \cup {r}
    /\ UNCHANGED <<wallet, token, tokenLive, used, subState, due, resets, wasReset,
                   ledger, paid, sessVars>>

\* Time passes the next_reset_time of a subscription.
PeriodEnds(s) ==
    /\ resets < MaxResets
    /\ s \notin due
    /\ due' = due \cup {s}
    /\ resets' = resets + 1
    /\ UNCHANGED <<wallet, token, tokenLive, used, subState, wasReset, ledger,
                   purged, paid, sessVars>>

ResetDueSubscription(s) ==
    /\ s \in due
    /\ subState[s] = "active"
    /\ used' = [used EXCEPT ![s] = 0]
    /\ due' = due \ {s}
    /\ wasReset' = wasReset \cup {s}
    /\ UNCHANGED <<wallet, token, tokenLive, subState, resets, ledger, purged, paid,
                   sessVars>>

\* ExpireDueSubscriptions, AdminInvalidateUserSubscription ("ended") and
\* AdminDeleteUserSubscription ("deleted").
EndSubscription(s, how) ==
    /\ how \in Disruptions
    /\ \/ how = "ended" /\ subState[s] = "active"
       \/ how = "deleted" /\ subState[s] # "deleted"
    /\ subState' = [subState EXCEPT ![s] = how]
    /\ UNCHANGED <<wallet, token, tokenLive, used, due, resets, wasReset, ledger,
                   purged, paid, sessVars>>

\* The user deletes the access token (a soft delete).
DeleteToken ==
    /\ "token" \in Disruptions
    /\ tokenLive
    /\ tokenLive' = FALSE
    /\ UNCHANGED <<wallet, token, used, subState, due, resets, wasReset, ledger,
                   purged, paid, sessVars>>

\* The process exits: every session in flight is gone, the database stays.
ProcessExit ==
    /\ "exit" \in Disruptions
    /\ \E r \in Requests : pc[r] \notin {"new", "done", "dead"}
    /\ pc' = [r \in Requests |->
          IF pc[r] \in {"new", "done"} THEN pc[r] ELSE "dead"]
    /\ UNCHANGED <<dbVars, plan, sub, attempt, usage, started, settled, refunded,
                   panicked, fee>>

-----------------------------------------------------------------------------

SessionStep(r) ==
    \/ HasActiveUserSubscription(r)
    \/ \E ack \in BOOLEAN : PreConsumeWallet(r, ack)
    \/ \E s \in Subs, ack \in BOOLEAN : PreConsumeSubscription(r, s, ack)
    \/ PreConsumeInsufficient(r)
    \/ PreConsumeError(r)
    \/ \E panic \in BOOLEAN, f \in Fees \cup {0} : RelayFails(r, panic, f)
    \/ \E n \in Usages : Settle(r, n)
    \/ \E ack \in BOOLEAN : SettleStrictBilling(r, ack)
    \/ SettleAlreadySettled(r)
    \/ SettleError(r)
    \/ \E panic \in BOOLEAN : Finish(r, panic)
    \/ Refund(r)
    \/ \E ack \in BOOLEAN : RefundStrictBilling(r, ack)
    \/ RefundError(r)
    \/ \E ack \in BOOLEAN : ChargeViolationFee(r, ack)
    \/ ChargeViolationFeeToken(r)
    \/ ChargeViolationFeeError(r)

Environment ==
    \/ \E r \in Requests : Cleanup(r)
    \/ \E s \in Subs : PeriodEnds(s)
    \/ \E s \in Subs : ResetDueSubscription(s)
    \/ \E s \in Subs, how \in {"ended", "deleted"} : EndSubscription(s, how)
    \/ DeleteToken
    \/ ProcessExit

Next ==
    \/ \E r \in Requests : Start(r) \/ SessionStep(r)
    \/ Environment

Spec == Init /\ [][Next]_vars

\* A handler that is running keeps running: every step of a session is a
\* statement of its goroutine, and every database call returns.
FairSpec == Spec /\ \A r \in Requests : WF_vars(SessionStep(r))

-----------------------------------------------------------------------------
(* Properties.                                                             *)

\* Request r has cost the wallet more than it had reserved: a settlement billed
\* at upstream cost (AllowOverdraft), or a violation fee.
Overdraws(r) ==
    \/ /\ plan[r].over
       /\ ledger[r].status = "settled"
       /\ ledger[r].pre > plan[r].quota
    \/ paid[r] # {}

\* The wallet goes below zero only by upstream cost or by a violation fee:
\* however many reservations, settlements, retries and refunds interleave, every
\* other debit is conditional on the balance at the moment it is made.
OverdraftIsExplained == wallet < 0 => \E r \in Requests : Overdraws(r)

\* Once the upstream has done the work, its cost is never given back: not when
\* all settlement attempts fail and the deferred Refund runs, not when the
\* handler panics after settling, not after a crash.
UsageNeverReleased ==
    \A r \in Requests : usage[r] # NoUsage => ledger[r].status # "refunded"

\* A settlement reported as done is durable and charged exactly the actual
\* quota, even if an earlier attempt had committed without being acknowledged;
\* a settled row, acknowledged or not, is never charged anything else.
SettledExactlyOnce ==
    \A r \in Requests :
        /\ settled[r] => ledger[r].status = "settled"
        /\ ledger[r].status = "settled" => started[r] /\ ledger[r].pre = usage[r]

\* "An unfinalized consumed record is the durable proof of a live reservation":
\* cleanup never takes the row of a reservation that is still open, so whoever
\* has to settle or refund it finds it.
OpenReservationIsKept ==
    \A r \in Requests :
        /\ ledger[r].status = "consumed" => r \notin purged
        /\ pc[r] \in {"reserved", "refunding"} => RowFound(r)

\* A row that reached a final status keeps status and amount for ever: no late
\* retry, refund or reset reopens it.
FinalIsFinal ==
    [][\A r \in Requests :
          ledger[r].status \in Finals => ledger'[r] = ledger[r]]_vars

\* The sum of a function into the naturals, counted unit by unit.
Total(f) == Cardinality(UNION {{x} \X (1..f[x]) : x \in DOMAIN f})

\* What a row of the ledger holds or has charged, and the violation fee charged
\* to the funding or to the token of its request.
RowCharge(r) == IF ledger[r].status \in {"consumed", "settled"} THEN ledger[r].pre ELSE 0
FeeCharge(r, to) == IF to \in paid[r] THEN fee[r] ELSE 0

\* What each request has charged to the wallet or to subscription s, and to the
\* token.
FundingCharges(s) ==
    [r \in Requests |->
        IF ledger[r].sub = s THEN RowCharge(r) + FeeCharge(r, "funding") ELSE 0]
TokenCharges ==
    [r \in Requests |->
        IF plan[r].skip THEN 0 ELSE RowCharge(r) + FeeCharge(r, "token")]

\* Conservation: whatever interleaving of requests, retries, lost
\* acknowledgements and crashes led here, the quota missing from the wallet and
\* from the token is what the rows of the ledger account for, and the violation
\* fees.
LedgerAccountsForQuota ==
    /\ wallet = InitWallet - Total(FundingCharges(Wallet))
    /\ token = InitToken - Total(TokenCharges)

\* A subscription is never charged more than its rows and fees account for;
\* until its first reset it is charged exactly that, and without overdraft its
\* total is never exceeded.
SubscriptionUseIsBooked ==
    \A s \in Subs :
        /\ used[s] <= Total(FundingCharges(s))
        /\ s \notin wasReset => used[s] = Total(FundingCharges(s))
        /\ SubTotal[s] > 0 /\ (\A r \in Requests : ledger[r].sub = s => ~plan[r].over)
              => used[s] <= SubTotal[s]

\* The accounts a row of the ledger moves.
AccountsOf(r) ==
    (IF ledger[r].sub = Wallet THEN {"wallet"} ELSE {})
        \cup (IF plan[r].skip THEN {} ELSE {"token"})

EscrowState == [none |-> "none", consumed |-> "held",
                settled |-> "charged", refunded |-> "released"]

Escrowed ==
    [r \in Requests |->
        IF ledger[r].status = "none"
        THEN [state |-> "none", amount |-> 0, accounts |-> {}]
        ELSE [state |-> EscrowState[ledger[r].status],
              amount |-> ledger[r].pre, accounts |-> AccountsOf(r)]]

Balances == [a \in {"wallet", "token"} |-> IF a = "wallet" THEN wallet ELSE token]

\* The estimates, the actual quotas, and the least a subscription reserves.
EscrowAmounts == {p.quota : p \in Plans} \cup Usages \cup {1}

E == INSTANCE Escrow WITH
        Amounts <- EscrowAmounts,
        Penalties <- Fees,
        Accounts <- {"wallet", "token"},
        balance <- Balances,
        escrow <- Escrowed

\* Wallet, token and ledger row move together: crashes, lost acknowledgements
\* and retries never leave a token-only or funding-only reservation, and every
\* reservation is charged or released at most once.
ImplementsEscrow == E!Spec

\* A request that was admitted is answered (or its process exits): the bounded
\* settlement loop and the deferred refund always come to an end.
EveryRequestEnds ==
    \A r \in Requests : pc[r] # "new" ~> pc[r] \in {"done", "dead"}

\* What controller/relay.go says of the deferred recovery: "A panic after
\* reservation must never strand strict billing in the consumed state."
PanicNeverStrands ==
    \A r \in Requests :
        panicked[r] /\ pc[r] = "done" => ledger[r].status # "consumed"

=============================================================================
