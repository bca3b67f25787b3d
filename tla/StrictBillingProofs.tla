------------------------- MODULE StrictBillingProofs -------------------------
(* Theorems about StrictBilling, for every value of its constants.          *)
EXTENDS StrictBilling, TLAPS, FiniteSetTheorems

(***************************************************************************)
(* The inductive invariant.  SessionInv ties the control state of a        *)
(* session to the row its request has in the ledger; without it none of    *)
(* the safety properties is preserved by a step on its own: a settlement   *)
(* is harmless only because its row cannot have been refunded or purged,   *)
(* an overdraft is one of the upstream only because the row still holds    *)
(* the estimate, a penalty falls on a request that is never charged.       *)
(***************************************************************************)
Reserving == {"new", "checkSub", "tryWallet", "trySub"}
Held(r) == ledger[r].status = "consumed" /\ ledger[r].sub = sub[r]

SessionInv(r) ==
    /\ pc[r] # "new" => plan[r] \in Plans
    /\ started[r] => usage[r] \in Usages
    /\ started[r] <=> usage[r] # NoUsage
    /\ r \in purged => ledger[r].status \in Finals /\ pc[r] \in {"done", "dead"}
    /\ pc[r] \in Reserving =>
          /\ ledger[r].status = "none" /\ sub[r] = Wallet
          /\ ~started[r] /\ ~settled[r] /\ ~refunded[r] /\ fee[r] = 0
    /\ pc[r] \in {"reserved", "refunding"} => Held(r) /\ ~started[r] /\ ~settled[r]
    /\ pc[r] = "settling" =>
          /\ started[r] /\ ~settled[r]
          /\ ledger[r].status \in {"consumed", "settled"}
          /\ ledger[r].sub = sub[r]
    /\ pc[r] = "settledOk" => settled[r]
    /\ pc[r] = "refundCheck" => started[r] \/ Held(r)
    /\ fee[r] # 0 => ~started[r] /\ fee[r] \in Fees
    /\ pc[r] = "reserved" => fee[r] = 0
    /\ pc[r] \in {"fee", "feeToken"} =>
          /\ fee[r] # 0
          /\ pc[r] = "feeToken" => ~plan[r].skip
          /\ ledger[r].status \in {"consumed", "refunded"}
          /\ ledger[r].sub = sub[r]
    /\ settled[r] => ledger[r].status = "settled"
    /\ ledger[r].status = "settled" => started[r] /\ ledger[r].pre = usage[r]
    /\ ledger[r].status = "refunded" => ~started[r]
    /\ ledger[r].status = "consumed" /\ ledger[r].sub = Wallet =>
          ledger[r].pre = plan[r].quota

IInv ==
    /\ TypeOK
    /\ \A r \in Requests : SessionInv(r)
    /\ OverdraftIsExplained

-----------------------------------------------------------------------------
(* Type correctness.                                                        *)

\* The first control state of a session is a control state.
LEMMA FirstTryType ==
    ASSUME NEW pref \in Preferences
    PROVE  FirstTry(pref) \in {"checkSub", "tryWallet", "trySub"}
BY DEF Preferences, FirstTry

\* A token balance moves to a token balance.
LEMMA TokenMovedType ==
    ASSUME token \in Int, NEW r, NEW d \in Int
    PROVE  TokenMoved(r, d) \in Int
BY DEF TokenMoved

\* The funding side of a settlement or refund keeps its type.
LEMMA FundingMovedType ==
    ASSUME TypeOK, NEW r \in Requests, NEW d \in Int, FundingMoved(r, d)
    PROVE  wallet' \in Int /\ used' \in [Subs -> Nat]
<1>1. CASE sub[r] = Wallet
  BY <1>1 DEF TypeOK, FundingMoved
<1>2. CASE sub[r] # Wallet
  <2>1. sub[r] \in Subs /\ used[sub[r]] \in Nat
    BY <1>2 DEF TypeOK
  <2>2. CASE d > 0
    BY <1>2, <2>1, <2>2 DEF TypeOK, FundingMoved, UsedMoved
  <2>3. CASE ~(d > 0)
    <3>1. LessUsed(used[sub[r]], -d) \in Nat
      BY <2>1, <2>3 DEF LessUsed
    <3>2. QED
      BY <1>2, <2>1, <2>3, <3>1 DEF TypeOK, FundingMoved, UsedMoved
  <2>4. QED  BY <2>2, <2>3
<1>3. QED  BY <1>1, <1>2

\* A failed settlement attempt counts within its bound and keeps a control state.
LEMMA SettlementFailedType ==
    ASSUME TypeOK, NEW r \in Requests, SettlementFailed(r)
    PROVE  /\ attempt' \in [Requests -> 0..StrictSettlementMaxAttempts]
           /\ pc' \in [Requests -> PCs]
BY DEF TypeOK, SettlementFailed, StrictSettlementMaxAttempts, PCs

\* Every step of every actor keeps every variable in its type.
LEMMA TypeStep == IInv /\ [Next]_vars => TypeOK'
<1> SUFFICES ASSUME IInv, [Next]_vars  PROVE TypeOK'
  OBVIOUS
<1> TypeOK /\ \A r \in Requests : SessionInv(r)
  BY DEF IInv
<1> USE ConstantsAssumption
<1>1. ASSUME NEW r \in Requests, Start(r)  PROVE TypeOK'
  <2>1. PICK p \in Plans : /\ plan' = [plan EXCEPT ![r] = p]
                           /\ pc' = [pc EXCEPT ![r] = FirstTry(p.pref)]
    BY <1>1 DEF Start
  <2>2. p \in PlanType /\ FirstTry(p.pref) \in PCs
    BY FirstTryType DEF PlanType, PCs
  <2>3. QED  BY <1>1, <2>1, <2>2 DEF TypeOK, Start, dbVars
<1>2. ASSUME NEW r \in Requests, SessionStep(r)  PROVE TypeOK'
  <2>1. CASE HasActiveUserSubscription(r)
    BY <2>1 DEF TypeOK, HasActiveUserSubscription, dbVars, PCs
  <2>2. ASSUME NEW ack \in BOOLEAN, PreConsumeWallet(r, ack)  PROVE TypeOK'
    <3>1. plan[r].quota \in Nat
      BY DEF TypeOK, PlanType
    <3>2. [status |-> "consumed", pre |-> plan[r].quota, sub |-> Wallet] \in Rows
      BY <3>1 DEF Rows
    <3>3. token' \in Int
      BY <2>2, <3>1, TokenMovedType DEF PreConsumeWallet, TypeOK
    <3>4. QED
      BY <2>2, <3>1, <3>2, <3>3 DEF TypeOK, PreConsumeWallet, PCs
  <2>3. ASSUME NEW s \in Subs, NEW ack \in BOOLEAN, PreConsumeSubscription(r, s, ack)
        PROVE TypeOK'
    <3>1. SubConsume(r) \in Nat
      BY DEF TypeOK, PlanType, SubConsume
    <3>2. [status |-> "consumed", pre |-> SubConsume(r), sub |-> s] \in Rows
      BY <3>1 DEF Rows
    <3>3. token' \in Int
      BY <2>3, <3>1, TokenMovedType DEF PreConsumeSubscription, TypeOK
    <3>4. used' \in [Subs -> Nat]
      BY <2>3, <3>1 DEF PreConsumeSubscription, TypeOK, UsedAfterReset
    <3>5. /\ due' \subseteq Subs
          /\ wasReset' \subseteq Subs
          /\ ledger' \in [Requests -> Rows]
          /\ sub' \in [Requests -> {Wallet} \cup Subs]
          /\ pc' \in [Requests -> PCs]
      BY <2>3, <3>2 DEF PreConsumeSubscription, TypeOK, PCs
    <3>6. QED
      BY <2>3, <3>3, <3>4, <3>5 DEF TypeOK, PreConsumeSubscription
  <2>4. CASE PreConsumeInsufficient(r)
    BY <2>4 DEF TypeOK, PreConsumeInsufficient, dbVars, PCs
  <2>5. CASE PreConsumeError(r)
    BY <2>5 DEF TypeOK, PreConsumeError, dbVars, PCs
  <2>6. ASSUME NEW panic \in BOOLEAN, NEW f \in Fees \cup {0}, RelayFails(r, panic, f)
        PROVE TypeOK'
    BY <2>6 DEF TypeOK, RelayFails, dbVars, PCs
  <2>7. ASSUME NEW n \in Usages, Settle(r, n)  PROVE TypeOK'
    BY <2>7 DEF TypeOK, Settle, dbVars, PCs, StrictSettlementMaxAttempts
  <2>8. ASSUME NEW ack \in BOOLEAN, SettleStrictBilling(r, ack)  PROVE TypeOK'
    <3>1. usage[r] \in Nat
      BY <2>8 DEF SettleStrictBilling, SessionInv, TypeOK
    <3>2. ledger[r] \in Rows /\ ledger[r].pre \in Nat
      BY DEF TypeOK, Rows
    <3>3. wallet' \in Int /\ used' \in [Subs -> Nat]
      BY <2>8, <3>1, <3>2, FundingMovedType DEF SettleStrictBilling
    <3>4. token' \in Int
      BY <2>8, <3>1, <3>2, TokenMovedType DEF SettleStrictBilling, TypeOK
    <3>5. ledger' \in [Requests -> Rows]
      <4>1. [status |-> "settled", pre |-> usage[r], sub |-> ledger[r].sub] \in Rows
        BY <3>1, <3>2 DEF Rows, Finals
      <4>2. QED  BY <2>8, <4>1 DEF SettleStrictBilling, TypeOK
    <3>6. /\ attempt' \in [Requests -> 0..StrictSettlementMaxAttempts]
          /\ pc' \in [Requests -> PCs]
          /\ settled' \in [Requests -> BOOLEAN]
      <4>1. CASE ack
        BY <2>8, <4>1 DEF SettleStrictBilling, TypeOK, PCs
      <4>2. CASE ~ack
        BY <2>8, <4>2, SettlementFailedType DEF SettleStrictBilling, TypeOK
      <4>3. QED  BY <4>1, <4>2
    <3>7. QED
      BY <2>8, <3>3, <3>4, <3>5, <3>6 DEF TypeOK, SettleStrictBilling
  <2>9. CASE SettleAlreadySettled(r)
    BY <2>9 DEF TypeOK, SettleAlreadySettled, dbVars, PCs
  <2>10. CASE SettleError(r)
    BY <2>10, SettlementFailedType DEF TypeOK, SettleError, dbVars
  <2>11. ASSUME NEW panic \in BOOLEAN, Finish(r, panic)  PROVE TypeOK'
    BY <2>11 DEF TypeOK, Finish, dbVars, PCs
  <2>12. CASE Refund(r)
    BY <2>12 DEF TypeOK, Refund, AfterRefund, dbVars, PCs
  <2>13. ASSUME NEW ack \in BOOLEAN, RefundStrictBilling(r, ack)  PROVE TypeOK'
    <3>1. ledger[r] \in Rows /\ ledger[r].pre \in Nat
      BY DEF TypeOK, Rows
    <3>2. wallet' \in Int /\ used' \in [Subs -> Nat]
      BY <2>13, <3>1, FundingMovedType DEF RefundStrictBilling
    <3>3. token' \in Int
      BY <2>13, <3>1, TokenMovedType DEF RefundStrictBilling, TypeOK
    <3>4. ledger' \in [Requests -> Rows]
      BY <2>13, <3>1 DEF RefundStrictBilling, TypeOK, Rows, Finals
    <3>5. QED
      BY <2>13, <3>2, <3>3, <3>4 DEF TypeOK, RefundStrictBilling, AfterRefund, PCs
  <2>14. CASE RefundError(r)
    BY <2>14 DEF TypeOK, RefundError, AfterRefund, dbVars, PCs
  <2>15. ASSUME NEW ack \in BOOLEAN, ChargeViolationFee(r, ack)  PROVE TypeOK'
    <3>1. fee[r] \in Int
      BY DEF TypeOK
    <3>2. wallet' \in Int /\ used' \in [Subs -> Nat]
      BY <2>15, <3>1, FundingMovedType DEF ChargeViolationFee
    <3>3. QED
      BY <2>15, <3>2 DEF TypeOK, ChargeViolationFee, PCs
  <2>16. CASE ChargeViolationFeeToken(r)
    <3>1. fee[r] \in Int /\ token \in Int
      BY DEF TypeOK
    <3>2. token' \in Int /\ paid' \in [Requests -> SUBSET {"funding", "token"}]
      BY <2>16, <3>1 DEF TypeOK, ChargeViolationFeeToken
    <3>3. QED
      BY <2>16, <3>2 DEF TypeOK, ChargeViolationFeeToken, PCs
  <2>17. CASE ChargeViolationFeeError(r)
    BY <2>17 DEF TypeOK, ChargeViolationFeeError, dbVars, PCs
  <2>18. QED
    BY <1>2, <2>1, <2>2, <2>3, <2>4, <2>5, <2>6, <2>7, <2>8, <2>9, <2>10,
       <2>11, <2>12, <2>13, <2>14, <2>15, <2>16, <2>17 DEF SessionStep
<1>3. CASE Environment
  <2>1. ASSUME NEW r \in Requests, Cleanup(r)  PROVE TypeOK'
    BY <2>1 DEF TypeOK, Cleanup, sessVars
  <2>2. ASSUME NEW s \in Subs, PeriodEnds(s)  PROVE TypeOK'
    BY <2>2 DEF TypeOK, PeriodEnds, sessVars
  <2>3. ASSUME NEW s \in Subs, ResetDueSubscription(s)  PROVE TypeOK'
    BY <2>3 DEF TypeOK, ResetDueSubscription, sessVars
  <2>4. ASSUME NEW s \in Subs, NEW how \in {"ended", "deleted"}, EndSubscription(s, how)
        PROVE TypeOK'
    BY <2>4 DEF TypeOK, EndSubscription, sessVars
  <2>5. CASE DeleteToken
    BY <2>5 DEF TypeOK, DeleteToken, sessVars
  <2>6. CASE ProcessExit
    BY <2>6 DEF TypeOK, ProcessExit, dbVars, PCs
  <2>7. QED
    BY <1>3, <2>1, <2>2, <2>3, <2>4, <2>5, <2>6 DEF Environment
<1>4. CASE UNCHANGED vars
  BY <1>4 DEF TypeOK, vars, dbVars, sessVars
<1>5. QED
  BY <1>1, <1>2, <1>3, <1>4 DEF Next

-----------------------------------------------------------------------------
(* The sessions and their rows.                                             *)

\* What SessionInv(q) reads.
SessionView(q) == <<pc[q], ledger[q], sub[q], usage[q], started[q], settled[q],
                    refunded[q], plan[q], fee[q]>>

\* A step that leaves a session and its row alone keeps its invariant.
LEMMA Frame ==
    ASSUME NEW q \in Requests, SessionInv(q),
           SessionView(q)' = SessionView(q), q \in purged' <=> q \in purged
    PROVE  SessionInv(q)'
BY DEF SessionView, SessionInv, Held

\* The session a step belongs to: its control state, its row and its flags
\* keep agreeing.  The other sessions are untouched.
LEMMA SessionStepInv ==
    ASSUME IInv, NEW r \in Requests, Start(r) \/ SessionStep(r)
    PROVE  \A q \in Requests : SessionInv(q)'
<1> USE ConstantsAssumption
<1> TypeOK /\ \A q \in Requests : SessionInv(q)
  BY DEF IInv
<1>1. CASE Start(r)
  <2>1. PICK p \in Plans : /\ plan' = [plan EXCEPT ![r] = p]
                           /\ pc' = [pc EXCEPT ![r] = FirstTry(p.pref)]
    BY <1>1 DEF Start
  <2>2. FirstTry(p.pref) \in {"checkSub", "tryWallet", "trySub"}
    BY FirstTryType DEF PlanType
  <2>3. SessionInv(r)'
    BY <1>1, <2>1, <2>2 DEF Start, dbVars, SessionInv, Held, TypeOK, Reserving
  <2>4. QED
    BY <1>1, <2>1, <2>3, Frame DEF Start, dbVars, TypeOK, SessionView
<1>2. CASE HasActiveUserSubscription(r)
  <2>1. SessionInv(r)'
    BY <1>2 DEF HasActiveUserSubscription, dbVars, SessionInv, Held, TypeOK, Reserving
  <2>2. QED
    BY <1>2, <2>1, Frame DEF HasActiveUserSubscription, dbVars, TypeOK, SessionView
<1>3. ASSUME NEW ack \in BOOLEAN, PreConsumeWallet(r, ack)
      PROVE \A q \in Requests : SessionInv(q)'
  <2>1. /\ ledger'[r] = [status |-> "consumed", pre |-> plan[r].quota, sub |-> Wallet]
        /\ pc'[r] \in {"reserved", "done"}
        /\ sub'[r] = Wallet
    BY <1>3 DEF PreConsumeWallet, SessionInv, TypeOK, Reserving
  <2>2. SessionInv(r)'
    BY <1>3, <2>1 DEF PreConsumeWallet, SessionInv, Held, TypeOK, Reserving, Finals
  <2>3. QED
    BY <1>3, <2>2, Frame DEF PreConsumeWallet, TypeOK, SessionView
<1>4. ASSUME NEW s \in Subs, NEW ack \in BOOLEAN, PreConsumeSubscription(r, s, ack)
      PROVE \A q \in Requests : SessionInv(q)'
  <2>1. /\ ledger'[r] = [status |-> "consumed", pre |-> SubConsume(r), sub |-> s]
        /\ (pc'[r] = "reserved" /\ sub'[r] = s) \/ pc'[r] = "done"
        /\ s # Wallet
    BY <1>4 DEF PreConsumeSubscription, TypeOK, Subs, Wallet
  <2>2. SessionInv(r)'
    BY <1>4, <2>1 DEF PreConsumeSubscription, SessionInv, Held, TypeOK, Reserving, Finals
  <2>3. QED
    BY <1>4, <2>2, Frame DEF PreConsumeSubscription, TypeOK, SessionView
<1>5. CASE PreConsumeInsufficient(r)
  <2>1. SessionInv(r)'
    BY <1>5 DEF PreConsumeInsufficient, dbVars, SessionInv, Held, TypeOK, Reserving
  <2>2. QED
    BY <1>5, <2>1, Frame DEF PreConsumeInsufficient, dbVars, TypeOK, SessionView
<1>6. CASE PreConsumeError(r)
  <2>1. SessionInv(r)'
    BY <1>6 DEF PreConsumeError, dbVars, SessionInv, Held, TypeOK, Reserving
  <2>2. QED
    BY <1>6, <2>1, Frame DEF PreConsumeError, dbVars, TypeOK, SessionView
<1>7. ASSUME NEW panic \in BOOLEAN, NEW f \in Fees \cup {0}, RelayFails(r, panic, f)
      PROVE \A q \in Requests : SessionInv(q)'
  <2>1. SessionInv(r)'
    BY <1>7 DEF RelayFails, dbVars, SessionInv, Held, TypeOK, Reserving
  <2>2. QED
    BY <1>7, <2>1, Frame DEF RelayFails, dbVars, TypeOK, SessionView
<1>8. ASSUME NEW n \in Usages, Settle(r, n)
      PROVE \A q \in Requests : SessionInv(q)'
  <2>1. n # NoUsage
    BY DEF NoUsage
  <2>2. SessionInv(r)'
    BY <1>8, <2>1 DEF Settle, dbVars, SessionInv, Held, TypeOK, Reserving
  <2>3. QED
    BY <1>8, <2>2, Frame DEF Settle, dbVars, TypeOK, SessionView
<1>9. ASSUME NEW ack \in BOOLEAN, SettleStrictBilling(r, ack)
      PROVE \A q \in Requests : SessionInv(q)'
  <2>1. SessionInv(r)'
    BY <1>9 DEF SettleStrictBilling, SettlementFailed, SessionInv, Held, TypeOK,
                Reserving
  <2>2. QED
    BY <1>9, <2>1, Frame DEF SettleStrictBilling, SettlementFailed, TypeOK, SessionView
<1>10. CASE SettleAlreadySettled(r)
  <2>1. SessionInv(r)'
    BY <1>10 DEF SettleAlreadySettled, dbVars, SessionInv, Held, TypeOK, Reserving
  <2>2. QED
    BY <1>10, <2>1, Frame DEF SettleAlreadySettled, dbVars, TypeOK, SessionView
<1>11. CASE SettleError(r)
  <2>1. SessionInv(r)'
    BY <1>11 DEF SettleError, SettlementFailed, dbVars, SessionInv, Held, TypeOK,
                 Reserving
  <2>2. QED
    BY <1>11, <2>1, Frame DEF SettleError, SettlementFailed, dbVars, TypeOK, SessionView
<1>12. ASSUME NEW panic \in BOOLEAN, Finish(r, panic)
       PROVE \A q \in Requests : SessionInv(q)'
  <2>1. SessionInv(r)'
    BY <1>12 DEF Finish, dbVars, SessionInv, Held, TypeOK, Reserving
  <2>2. QED
    BY <1>12, <2>1, Frame DEF Finish, dbVars, TypeOK, SessionView
<1>13. CASE Refund(r)
  <2>1. SessionInv(r)'
    BY <1>13 DEF Refund, NeedsRefund, AfterRefund, dbVars, SessionInv, Held, TypeOK, Reserving
  <2>2. QED
    BY <1>13, <2>1, Frame DEF Refund, dbVars, TypeOK, SessionView
<1>14. ASSUME NEW ack \in BOOLEAN, RefundStrictBilling(r, ack)
       PROVE \A q \in Requests : SessionInv(q)'
  <2>1. SessionInv(r)'
    BY <1>14 DEF RefundStrictBilling, AfterRefund, SessionInv, Held, TypeOK, Rows,
                 Reserving, Finals
  <2>2. QED
    BY <1>14, <2>1, Frame DEF RefundStrictBilling, TypeOK, SessionView
<1>15. CASE RefundError(r)
  <2>1. SessionInv(r)'
    BY <1>15 DEF RefundError, AfterRefund, dbVars, SessionInv, Held, TypeOK, Reserving
  <2>2. QED
    BY <1>15, <2>1, Frame DEF RefundError, dbVars, TypeOK, SessionView
<1>16. ASSUME NEW ack \in BOOLEAN, ChargeViolationFee(r, ack)
       PROVE \A q \in Requests : SessionInv(q)'
  <2>1. SessionInv(r)'
    BY <1>16 DEF ChargeViolationFee, SessionInv, Held, TypeOK, Reserving
  <2>2. QED
    BY <1>16, <2>1, Frame DEF ChargeViolationFee, TypeOK, SessionView
<1>17. CASE ChargeViolationFeeToken(r)
  <2>1. SessionInv(r)'
    BY <1>17 DEF ChargeViolationFeeToken, SessionInv, Held, TypeOK, Reserving
  <2>2. QED
    BY <1>17, <2>1, Frame DEF ChargeViolationFeeToken, TypeOK, SessionView
<1>18. CASE ChargeViolationFeeError(r)
  <2>1. SessionInv(r)'
    BY <1>18 DEF ChargeViolationFeeError, dbVars, SessionInv, Held, TypeOK, Reserving
  <2>2. QED
    BY <1>18, <2>1, Frame DEF ChargeViolationFeeError, dbVars, TypeOK, SessionView
<1>19. QED
  BY <1>1, <1>2, <1>3, <1>4, <1>5, <1>6, <1>7, <1>8, <1>9, <1>10, <1>11, <1>12,
     <1>13, <1>14, <1>15, <1>16, <1>17, <1>18 DEF SessionStep

\* Background tasks, administration and process exit do not disturb it either.
LEMMA EnvironmentInv ==
    ASSUME IInv, Environment
    PROVE  \A q \in Requests : SessionInv(q)'
<1> TypeOK /\ \A q \in Requests : SessionInv(q)
  BY DEF IInv
<1>1. ASSUME NEW r \in Requests, Cleanup(r)
      PROVE \A q \in Requests : SessionInv(q)'
  <2>1. SessionInv(r)'
    BY <1>1 DEF Cleanup, sessVars, SessionInv, Held, Reserving
  <2>2. QED
    BY <1>1, <2>1, Frame DEF Cleanup, sessVars, SessionView
<1>2. ASSUME NEW s \in Subs, PeriodEnds(s)
      PROVE \A q \in Requests : SessionInv(q)'
  BY <1>2, Frame DEF PeriodEnds, sessVars, SessionView
<1>3. ASSUME NEW s \in Subs, ResetDueSubscription(s)
      PROVE \A q \in Requests : SessionInv(q)'
  BY <1>3, Frame DEF ResetDueSubscription, sessVars, SessionView
<1>4. ASSUME NEW s \in Subs, NEW how \in {"ended", "deleted"}, EndSubscription(s, how)
      PROVE \A q \in Requests : SessionInv(q)'
  BY <1>4, Frame DEF EndSubscription, sessVars, SessionView
<1>5. CASE DeleteToken
  BY <1>5, Frame DEF DeleteToken, sessVars, SessionView
<1>6. CASE ProcessExit
  <2>1. SUFFICES ASSUME NEW q \in Requests  PROVE SessionInv(q)'
    OBVIOUS
  <2>2. pc'[q] = pc[q] \/ pc'[q] = "dead"
    BY <1>6 DEF ProcessExit, TypeOK
  <2>3. QED
    BY <1>6, <2>2 DEF ProcessExit, dbVars, SessionInv, Held, Reserving
<1>7. QED
  BY <1>1, <1>2, <1>3, <1>4, <1>5, <1>6 DEF Environment

-----------------------------------------------------------------------------
(* Final rows, and the wallet.                                              *)

\* No step touches the row, or the plan, of a request whose row is final.
LEMMA FinalStep ==
    ASSUME IInv, [Next]_vars, NEW q \in Requests, ledger[q].status \in Finals
    PROVE  ledger'[q] = ledger[q] /\ plan'[q] = plan[q]
<1> TypeOK /\ \A r \in Requests : SessionInv(r)
  BY DEF IInv
<1>1. ASSUME NEW r \in Requests, Start(r)
      PROVE ledger'[q] = ledger[q] /\ plan'[q] = plan[q]
  BY <1>1 DEF Start, dbVars, SessionInv, Reserving, Finals, TypeOK
<1>2. ASSUME NEW r \in Requests, SessionStep(r)
      PROVE ledger'[q] = ledger[q] /\ plan'[q] = plan[q]
  <2>1. ASSUME NEW ack \in BOOLEAN, PreConsumeWallet(r, ack)
        PROVE ledger'[q] = ledger[q] /\ plan'[q] = plan[q]
    BY <2>1 DEF PreConsumeWallet, SessionInv, Reserving, Finals, TypeOK
  <2>2. ASSUME NEW s \in Subs, NEW ack \in BOOLEAN, PreConsumeSubscription(r, s, ack)
        PROVE ledger'[q] = ledger[q] /\ plan'[q] = plan[q]
    BY <2>2 DEF PreConsumeSubscription, SessionInv, Reserving, Finals, TypeOK
  <2>3. ASSUME NEW ack \in BOOLEAN, SettleStrictBilling(r, ack)
        PROVE ledger'[q] = ledger[q] /\ plan'[q] = plan[q]
    BY <2>3 DEF SettleStrictBilling, SettleCommits, Finals, TypeOK
  <2>4. ASSUME NEW ack \in BOOLEAN, RefundStrictBilling(r, ack)
        PROVE ledger'[q] = ledger[q] /\ plan'[q] = plan[q]
    BY <2>4 DEF RefundStrictBilling, RefundCommits, Finals, TypeOK
  <2>5. QED
    BY <1>2, <2>1, <2>2, <2>3, <2>4
    DEF SessionStep, HasActiveUserSubscription, PreConsumeInsufficient,
        PreConsumeError, RelayFails, Settle, SettleAlreadySettled, SettleError,
        Finish, Refund, RefundError, ChargeViolationFee, ChargeViolationFeeToken,
        ChargeViolationFeeError, dbVars
<1>3. CASE Environment
  BY <1>3 DEF Environment, Cleanup, PeriodEnds, ResetDueSubscription,
              EndSubscription, DeleteToken, ProcessExit, dbVars, sessVars
<1>4. CASE UNCHANGED vars
  BY <1>4 DEF vars, dbVars, sessVars
<1>5. QED
  BY <1>1, <1>2, <1>3, <1>4 DEF Next

\* A penalty stays on record.
LEMMA PaidStep ==
    ASSUME IInv, [Next]_vars, NEW q \in Requests, paid[q] # {}
    PROVE  paid'[q] # {}
<1>1. paid \in [Requests -> SUBSET {"funding", "token"}]
  BY DEF IInv, TypeOK
<1>2. ASSUME NEW r \in Requests,
             (\E ack \in BOOLEAN : ChargeViolationFee(r, ack)) \/ ChargeViolationFeeToken(r)
      PROVE  paid'[q] # {}
  BY <1>1, <1>2 DEF ChargeViolationFee, ChargeViolationFeeToken
<1>3. CASE paid' = paid
  BY <1>3
<1>4. QED
  BY <1>2, <1>3
  DEF Next, Start, SessionStep, HasActiveUserSubscription, PreConsumeWallet,
      PreConsumeSubscription, PreConsumeInsufficient, PreConsumeError, RelayFails,
      Settle, SettleStrictBilling, SettleAlreadySettled, SettleError, Finish, Refund,
      RefundStrictBilling, RefundError, ChargeViolationFeeError, Environment, Cleanup,
      PeriodEnds, ResetDueSubscription, EndSubscription, DeleteToken, ProcessExit, vars,
      dbVars

\* A step lowers the wallet only within what it holds, or by settling a request
\* billed at upstream cost for more than its estimate, or by a penalty.
LEMMA WalletStep ==
    ASSUME IInv, [Next]_vars
    PROVE  \/ wallet' >= wallet
           \/ wallet' >= 0
           \/ \E r \in Requests : Overdraws(r)'
<1> DEFINE Goal == \/ wallet' >= wallet
                   \/ wallet' >= 0
                   \/ \E r \in Requests : Overdraws(r)'
<1> TypeOK /\ \A r \in Requests : SessionInv(r)
  BY DEF IInv
<1>1. ASSUME NEW r \in Requests, SessionStep(r)  PROVE Goal
  <2>1. ASSUME NEW ack \in BOOLEAN, PreConsumeWallet(r, ack)  PROVE Goal
    <3>1. plan[r].quota \in Nat /\ wallet \in Int
      BY DEF TypeOK, PlanType
    <3>2. QED
      BY <2>1, <3>1 DEF PreConsumeWallet, WalletCovers
  <2>2. ASSUME NEW s \in Subs, NEW ack \in BOOLEAN, PreConsumeSubscription(r, s, ack)
        PROVE Goal
    BY <2>2 DEF PreConsumeSubscription, TypeOK
  <2>3. ASSUME NEW ack \in BOOLEAN, SettleStrictBilling(r, ack)  PROVE Goal
    <3>1. /\ usage[r] \in Nat /\ ledger[r].pre \in Nat /\ plan[r].quota \in Nat
          /\ wallet \in Int
      BY <2>3 DEF SettleStrictBilling, SessionInv, TypeOK, Rows, PlanType
    <3> DEFINE delta == usage[r] - ledger[r].pre
    <3>2. CASE sub[r] # Wallet
      BY <2>3, <3>1, <3>2 DEF SettleStrictBilling, SettleCommits, FundingMoved
    <3>3. CASE sub[r] = Wallet /\ delta <= 0
      BY <2>3, <3>1, <3>3 DEF SettleStrictBilling, SettleCommits, FundingMoved
    <3>4. CASE sub[r] = Wallet /\ delta > 0 /\ ~plan[r].over
      BY <2>3, <3>1, <3>4
      DEF SettleStrictBilling, SettleCommits, FundingMoved, FundingAdjusts, WalletCovers
    <3>5. CASE sub[r] = Wallet /\ delta > 0 /\ plan[r].over
      <4>1. ledger[r].pre = plan[r].quota
        BY <2>3, <3>5 DEF SettleStrictBilling, SettleCommits, SessionInv, RowFound
      <4>2. ledger'[r].status = "settled" /\ ledger'[r].pre = usage[r] /\ plan' = plan
        BY <2>3 DEF SettleStrictBilling, SettleCommits, TypeOK
      <4>3. usage[r] > plan[r].quota
        BY <3>1, <3>5, <4>1
      <4>4. QED  BY <3>5, <4>2, <4>3 DEF Overdraws
    <3>6. QED  BY <3>1, <3>2, <3>3, <3>4, <3>5
  <2>4. ASSUME NEW ack \in BOOLEAN, RefundStrictBilling(r, ack)  PROVE Goal
    <3>1. ledger[r].pre \in Nat /\ wallet \in Int
      BY DEF TypeOK, Rows
    <3>2. QED
      BY <2>4, <3>1 DEF RefundStrictBilling, FundingMoved
  <2>5. ASSUME NEW ack \in BOOLEAN, ChargeViolationFee(r, ack)  PROVE Goal
    <3>1. paid'[r] # {}
      BY <2>5 DEF ChargeViolationFee, TypeOK
    <3>2. QED  BY <3>1 DEF Overdraws
  <2>6. CASE UNCHANGED wallet
    BY <2>6 DEF TypeOK
  <2>7. QED
    BY <1>1, <2>1, <2>2, <2>3, <2>4, <2>5, <2>6
    DEF SessionStep, HasActiveUserSubscription, PreConsumeInsufficient,
        PreConsumeError, RelayFails, Settle, SettleAlreadySettled, SettleError,
        Finish, Refund, RefundError, ChargeViolationFeeToken, ChargeViolationFeeError,
        dbVars
<1>2. CASE UNCHANGED wallet
  BY <1>2 DEF TypeOK
<1>3. QED
  BY <1>1, <1>2
  DEF Next, Start, Environment, Cleanup, PeriodEnds, ResetDueSubscription,
      EndSubscription, DeleteToken, ProcessExit, vars, dbVars

\* Hence the wallet is overdrawn only by those, before and after every step.
LEMMA OverdraftStep == IInv /\ [Next]_vars => OverdraftIsExplained'
<1> SUFFICES ASSUME IInv, [Next]_vars, wallet' < 0
             PROVE  \E r \in Requests : Overdraws(r)'
  BY DEF OverdraftIsExplained
<1>1. wallet \in Int /\ wallet' \in Int
  BY TypeStep DEF IInv, TypeOK
<1>2. CASE wallet' >= wallet
  <2>1. PICK r \in Requests : Overdraws(r)
    BY <1>1, <1>2 DEF IInv, OverdraftIsExplained
  <2>2. CASE paid[r] # {}
    BY <2>2, PaidStep DEF Overdraws
  <2>3. CASE paid[r] = {}
    <3>1. ledger[r].status \in Finals
      BY <2>1, <2>3 DEF Overdraws, Finals
    <3>2. ledger'[r] = ledger[r] /\ plan'[r] = plan[r]
      BY <3>1, FinalStep
    <3>3. QED  BY <2>1, <2>3, <3>2 DEF Overdraws
  <2>4. QED  BY <2>2, <2>3
<1>3. CASE ~(wallet' >= wallet)
  BY <1>1, <1>3, WalletStep
<1>4. QED  BY <1>2, <1>3

-----------------------------------------------------------------------------
(* The theorems.                                                            *)

\* The invariant holds initially.
LEMMA InitInv == Init => IInv
<1> SUFFICES ASSUME Init  PROVE IInv
  OBVIOUS
<1> USE ConstantsAssumption
<1>1. TypeOK
  <2>1. NoRow \in Rows /\ NoPlan \in PlanType
    BY DEF NoRow, Rows, NoPlan, PlanType, Preferences
  <2>2. QED
    BY <2>1 DEF Init, TypeOK, PCs, StrictSettlementMaxAttempts
<1>2. \A r \in Requests : SessionInv(r)
  BY DEF Init, SessionInv, NoRow, Reserving
<1>3. OverdraftIsExplained
  BY DEF Init, OverdraftIsExplained
<1>4. QED  BY <1>1, <1>2, <1>3 DEF IInv

\* Every step preserves the invariant.
LEMMA StepInv == IInv /\ [Next]_vars => IInv'
<1> SUFFICES ASSUME IInv, [Next]_vars  PROVE IInv'
  OBVIOUS
<1>1. TypeOK'
  BY TypeStep
<1>2. \A r \in Requests : SessionInv(r)'
  <2>1. CASE Next
    BY <2>1, SessionStepInv, EnvironmentInv DEF Next
  <2>2. CASE UNCHANGED vars
    BY <2>2, Frame DEF IInv, vars, dbVars, sessVars, SessionView
  <2>3. QED  BY <2>1, <2>2
<1>3. OverdraftIsExplained'
  BY OverdraftStep
<1>4. QED  BY <1>1, <1>2, <1>3 DEF IInv

\* The invariant holds in every reachable state.
THEOREM Invariance == Spec => []IInv
BY InitInv, StepInv, PTL DEF Spec

\* Every variable keeps its type.
THEOREM TypeCorrect == Spec => []TypeOK
<1>1. IInv => TypeOK
  BY DEF IInv
<1>2. QED  BY <1>1, Invariance, PTL

\* Apart from usage billed at upstream cost and violation fees, no interleaving
\* of any number of requests overdraws the wallet.
THEOREM NoOtherOverdraft == Spec => []OverdraftIsExplained
<1>1. IInv => OverdraftIsExplained
  BY DEF IInv
<1>2. QED  BY <1>1, Invariance, PTL

\* The cost of work the upstream has done is never given back.
THEOREM UsageIsKept == Spec => []UsageNeverReleased
<1>1. IInv => UsageNeverReleased
  BY DEF IInv, SessionInv, UsageNeverReleased
<1>2. QED  BY <1>1, Invariance, PTL

\* Settlement is idempotent: acknowledged or not, once or three times, a settled
\* row is charged the actual quota.
THEOREM SettlementIsExact == Spec => []SettledExactlyOnce
<1>1. IInv => SettledExactlyOnce
  BY DEF IInv, SessionInv, SettledExactlyOnce
<1>2. QED  BY <1>1, Invariance, PTL

\* Cleanup never removes a reservation that is still open.
THEOREM OpenRowsSurvive == Spec => []OpenReservationIsKept
<1>1. IInv => OpenReservationIsKept
  BY DEF IInv, SessionInv, Held, OpenReservationIsKept, RowFound, Finals
<1>2. QED  BY <1>1, Invariance, PTL

\* Final rows are final.
THEOREM RowsAreFinal == Spec => FinalIsFinal
<1>1. IInv /\ [Next]_vars =>
         [\A r \in Requests :
             ledger[r].status \in Finals => ledger'[r] = ledger[r]]_vars
  BY FinalStep
<1>2. QED  BY <1>1, Invariance, PTL DEF Spec, FinalIsFinal

-----------------------------------------------------------------------------
(* The sessions and their transactions implement the escrow.                *)

\* What the refinement mapping reads of a request is unchanged.
LEMMA EscrowFrame ==
    ASSUME wallet' = wallet, token' = token, ledger' = ledger,
           \A q \in Requests : ledger[q].status # "none" => plan'[q] = plan[q]
    PROVE  Balances' = Balances /\ Escrowed' = Escrowed
BY DEF Balances, Escrowed, AccountsOf

\* Only request r's row changes: the mapped function changes at r only.
LEMMA EscrowAt ==
    ASSUME NEW r \in Requests, NEW row,
           TypeOK, plan' = plan, ledger' = [ledger EXCEPT ![r] = row],
           row.status \in {"consumed", "settled", "refunded"}
    PROVE  Escrowed' = [Escrowed EXCEPT ![r] =
              [state |-> EscrowState[row.status], amount |-> row.pre,
               accounts |-> (IF row.sub = Wallet THEN {"wallet"} ELSE {})
                               \cup (IF plan[r].skip THEN {} ELSE {"token"})]]
<1>1. \A q \in Requests : ledger'[q] = IF q = r THEN row ELSE ledger[q]
  BY DEF TypeOK
<1>2. QED
  BY <1>1 DEF Escrowed, AccountsOf

\* A reservation holds its estimate against the wallet and the token.
LEMMA HoldStep ==
    ASSUME IInv, NEW r \in Requests,
           \/ \E ack \in BOOLEAN : PreConsumeWallet(r, ack)
           \/ \E s \in Subs, ack \in BOOLEAN : PreConsumeSubscription(r, s, ack)
    PROVE  E!Next
<1> USE ConstantsAssumption
<1>0. TypeOK /\ SessionInv(r)
  BY DEF IInv
<1>1. Escrowed[r].state = "none"
  BY <1>0 DEF PreConsumeWallet, PreConsumeSubscription, SessionInv, Reserving, Escrowed
<1>2. ASSUME NEW ack \in BOOLEAN, PreConsumeWallet(r, ack)  PROVE E!Next
  <2> DEFINE q == plan[r].quota
             A == {"wallet"} \cup (IF plan[r].skip THEN {} ELSE {"token"})
  <2>1. q \in Nat \ {0} /\ wallet \in Int /\ token \in Int
    BY <1>0, <1>2 DEF PreConsumeWallet, TypeOK, PlanType
  <2>2. Balances' = E!Moved(A, -q)
    BY <1>2, <2>1 DEF PreConsumeWallet, TokenMoved, Balances, E!Moved
  <2>3. Escrowed' = [Escrowed EXCEPT
            ![r] = [state |-> "held", amount |-> q, accounts |-> A]]
    BY <1>0, <1>2, EscrowAt DEF PreConsumeWallet, EscrowState
  <2>4. q \in EscrowAmounts
    BY <1>0, <1>2 DEF PreConsumeWallet, SessionInv, EscrowAmounts
  <2>5. A \in SUBSET {"wallet", "token"}
    OBVIOUS
  <2>6. QED
    BY <1>1, <2>1, <2>2, <2>3, <2>4, <2>5 DEF E!Next, E!Hold
<1>3. ASSUME NEW s \in Subs, NEW ack \in BOOLEAN, PreConsumeSubscription(r, s, ack)
      PROVE E!Next
  <2> DEFINE q == SubConsume(r)
             A == IF plan[r].skip THEN {} ELSE {"token"}
  <2>1. q \in Nat \ {0} /\ wallet \in Int /\ token \in Int
    BY <1>0 DEF TypeOK, PlanType, SubConsume
  <2>2. Balances' = E!Moved(A, -q)
    BY <1>3, <2>1 DEF PreConsumeSubscription, TokenMoved, Balances, E!Moved
  <2>3. Escrowed' = [Escrowed EXCEPT
            ![r] = [state |-> "held", amount |-> q, accounts |-> A]]
    <3>1. s # Wallet
      BY DEF Subs, Wallet
    <3> DEFINE row == [status |-> "consumed", pre |-> q, sub |-> s]
    <3>2. ledger' = [ledger EXCEPT ![r] = row] /\ plan' = plan
      BY <1>3 DEF PreConsumeSubscription
    <3>3. row.status = "consumed" /\ row.pre = q /\ row.sub = s
      OBVIOUS
    <3>4. Escrowed' = [Escrowed EXCEPT ![r] =
              [state |-> EscrowState[row.status], amount |-> row.pre,
               accounts |-> (IF row.sub = Wallet THEN {"wallet"} ELSE {}) \cup A]]
      BY <1>0, <3>2, EscrowAt
    <3>5. (IF row.sub = Wallet THEN {"wallet"} ELSE {}) \cup A = A
      BY <3>1
    <3>6. EscrowState[row.status] = "held"
      BY DEF EscrowState
    <3>7. QED
      BY <3>4, <3>5, <3>6
  <2>4. q \in EscrowAmounts
    BY <1>0, <1>3 DEF PreConsumeSubscription, SessionInv, EscrowAmounts, SubConsume
  <2>5. A \in SUBSET {"wallet", "token"}
    OBVIOUS
  <2>6. QED
    BY <1>1, <2>1, <2>2, <2>3, <2>4, <2>5 DEF E!Next, E!Hold
<1>4. QED  BY <1>2, <1>3

\* A settlement charges the actual quota in place of the estimate.
LEMMA ChargeStep ==
    ASSUME IInv, NEW r \in Requests, NEW ack \in BOOLEAN, SettleStrictBilling(r, ack)
    PROVE  E!Next
<1> DEFINE n == usage[r]
           p == ledger[r].pre
           A == AccountsOf(r)
           row == [status |-> "settled", pre |-> n, sub |-> ledger[r].sub]
<1>0. TypeOK /\ SessionInv(r) /\ ledger[r].sub = sub[r]
  BY DEF IInv, SettleStrictBilling, SettleCommits, RowFound
<1>1. n \in Nat /\ p \in Nat /\ wallet \in Int /\ token \in Int
  BY <1>0 DEF SettleStrictBilling, SettleCommits, SessionInv, TypeOK, Rows
<1>2. n \in EscrowAmounts
  BY <1>0 DEF SettleStrictBilling, SettleCommits, SessionInv, EscrowAmounts
<1>3. Escrowed[r] = [state |-> "held", amount |-> p, accounts |-> A]
  BY DEF SettleStrictBilling, SettleCommits, Escrowed, EscrowState
<1>4. Balances' = E!Moved(A, p - n)
  BY <1>0, <1>1 DEF SettleStrictBilling, SettleCommits, FundingMoved, TokenMoved, Balances,
                    E!Moved, AccountsOf
<1>5. Escrowed' = [Escrowed EXCEPT ![r] =
          [state |-> "charged", amount |-> n, accounts |-> A]]
  <2>1. ledger' = [ledger EXCEPT ![r] = row] /\ plan' = plan
    BY DEF SettleStrictBilling
  <2>2. Escrowed' = [Escrowed EXCEPT ![r] =
            [state |-> EscrowState[row.status], amount |-> row.pre,
             accounts |-> (IF row.sub = Wallet THEN {"wallet"} ELSE {})
                             \cup (IF plan[r].skip THEN {} ELSE {"token"})]]
    BY <1>0, <2>1, EscrowAt
  <2>3. QED
    BY <2>2 DEF EscrowState, AccountsOf
<1>6. E!Charge(r, n)
  BY <1>3, <1>4, <1>5 DEF E!Charge
<1>7. QED
  BY <1>2, <1>6 DEF E!Next

\* A refund releases what is held.
LEMMA ReleaseStep ==
    ASSUME IInv, NEW r \in Requests, NEW ack \in BOOLEAN, RefundStrictBilling(r, ack)
    PROVE  E!Next
<1> DEFINE p == ledger[r].pre
           A == AccountsOf(r)
           row == [status |-> "refunded", pre |-> p, sub |-> ledger[r].sub]
<1>0. TypeOK /\ SessionInv(r) /\ ledger[r].sub = sub[r] /\ ledger[r] \in Rows
  BY DEF IInv, RefundStrictBilling, RefundCommits, RowFound, TypeOK
<1>1. p \in Nat /\ wallet \in Int /\ token \in Int
  BY <1>0 DEF TypeOK, Rows
<1>2. Escrowed[r] = [state |-> "held", amount |-> p, accounts |-> A]
  BY DEF RefundStrictBilling, RefundCommits, Escrowed, EscrowState
<1>3. Balances' = E!Moved(A, p)
  BY <1>0, <1>1 DEF RefundStrictBilling, RefundCommits, FundingMoved, TokenMoved, Balances,
                    E!Moved, AccountsOf
<1>4. Escrowed' = [Escrowed EXCEPT ![r] =
          [state |-> "released", amount |-> p, accounts |-> A]]
  <2>1. row = [ledger[r] EXCEPT !.status = "refunded"]
    BY <1>0 DEF Rows
  <2>2. ledger' = [ledger EXCEPT ![r] = row] /\ plan' = plan
    BY <1>0, <2>1 DEF RefundStrictBilling, TypeOK
  <2>3. Escrowed' = [Escrowed EXCEPT ![r] =
            [state |-> EscrowState[row.status], amount |-> row.pre,
             accounts |-> (IF row.sub = Wallet THEN {"wallet"} ELSE {})
                             \cup (IF plan[r].skip THEN {} ELSE {"token"})]]
    BY <1>0, <2>2, EscrowAt
  <2>4. QED
    BY <2>3 DEF EscrowState, AccountsOf
<1>5. E!Release(r)
  BY <1>2, <1>3, <1>4 DEF E!Release
<1>6. QED
  BY <1>5 DEF E!Next

\* A violation fee penalizes one account of a request that is not charged.
LEMMA PenaltyStep ==
    ASSUME IInv, NEW r \in Requests,
           (\E ack \in BOOLEAN : ChargeViolationFee(r, ack)) \/ ChargeViolationFeeToken(r)
    PROVE  [E!Next]_(E!vars)
<1>0. /\ TypeOK /\ fee[r] \in Fees /\ ledger[r].sub = sub[r]
      /\ ledger[r].status \in {"consumed", "refunded"}
      /\ pc[r] = "feeToken" => ~plan[r].skip
  BY DEF IInv, SessionInv, ChargeViolationFee, ChargeViolationFeeToken
<1>1. Escrowed[r].state \in {"held", "released"} /\ Escrowed[r].accounts = AccountsOf(r)
  BY <1>0 DEF Escrowed, EscrowState
<1>2. ledger' = ledger /\ plan' = plan
  BY DEF ChargeViolationFee, ChargeViolationFeeToken
<1>3. Escrowed' = Escrowed
  BY <1>2 DEF Escrowed, AccountsOf
<1>4. fee[r] \in Nat /\ wallet \in Int /\ token \in Int
  BY <1>0 DEF TypeOK
<1>5. ASSUME NEW a \in AccountsOf(r), Balances' = E!Moved({a}, -fee[r])
      PROVE  E!Next
  <2>1. a \in {"wallet", "token"}
    BY DEF AccountsOf
  <2>2. QED
    BY <1>0, <1>1, <1>3, <1>5, <2>1 DEF E!Next, E!Penalize
<1>6. CASE \E ack \in BOOLEAN : ChargeViolationFee(r, ack)
  <2>1. token' = token /\ FundingMoved(r, fee[r])
    BY <1>6 DEF ChargeViolationFee
  <2>2. CASE sub[r] = Wallet
    <3>1. "wallet" \in AccountsOf(r)
      BY <1>0, <2>2 DEF AccountsOf
    <3>2. Balances' = E!Moved({"wallet"}, -fee[r])
      BY <1>4, <2>1, <2>2 DEF FundingMoved, Balances, E!Moved
    <3>3. QED  BY <1>5, <3>1, <3>2
  <2>3. CASE sub[r] # Wallet
    BY <1>3, <2>1, <2>3 DEF FundingMoved, Balances, E!vars
  <2>4. QED  BY <2>2, <2>3
<1>7. CASE ChargeViolationFeeToken(r)
  <2>1. wallet' = wallet
    BY <1>7 DEF ChargeViolationFeeToken
  <2>2. CASE tokenLive
    <3>1. "token" \in AccountsOf(r)
      BY <1>0, <1>7 DEF AccountsOf, ChargeViolationFeeToken
    <3>2. Balances' = E!Moved({"token"}, -fee[r])
      BY <1>4, <1>7, <2>1, <2>2 DEF ChargeViolationFeeToken, Balances, E!Moved
    <3>3. QED  BY <1>5, <3>1, <3>2
  <2>3. CASE ~tokenLive
    BY <1>3, <1>7, <2>1, <2>3 DEF ChargeViolationFeeToken, Balances, E!vars
  <2>4. QED  BY <2>2, <2>3
<1>8. QED  BY <1>6, <1>7

\* Every other step is invisible to the escrow.
LEMMA EscrowStep == IInv /\ [Next]_vars => [E!Next]_(E!vars)
<1> SUFFICES ASSUME IInv, [Next]_vars  PROVE [E!Next]_(E!vars)
  OBVIOUS
<1>1. ASSUME NEW r \in Requests, Start(r)  PROVE UNCHANGED E!vars
  <2>1. \A q \in Requests : ledger[q].status # "none" => plan'[q] = plan[q]
    BY <1>1 DEF IInv, Start, SessionInv, Reserving, TypeOK
  <2>2. QED
    BY <1>1, <2>1, EscrowFrame DEF Start, dbVars, E!vars
<1>2. ASSUME NEW r \in Requests, SessionStep(r)  PROVE [E!Next]_(E!vars)
  <2>1. CASE UNCHANGED dbVars /\ UNCHANGED plan
    BY <2>1, EscrowFrame DEF dbVars, E!vars
  <2>2. QED
    BY <1>2, <2>1, HoldStep, ChargeStep, ReleaseStep, PenaltyStep
    DEF SessionStep, HasActiveUserSubscription, PreConsumeInsufficient,
        PreConsumeError, RelayFails, Settle, SettleAlreadySettled, SettleError,
        Finish, Refund, RefundError, ChargeViolationFeeError
<1>3. CASE Environment \/ UNCHANGED vars
  <2>1. wallet' = wallet /\ token' = token /\ ledger' = ledger /\ plan' = plan
    BY <1>3 DEF Environment, Cleanup, PeriodEnds, ResetDueSubscription,
                EndSubscription, DeleteToken, ProcessExit, vars, dbVars, sessVars
  <2>2. QED
    BY <2>1, EscrowFrame DEF E!vars
<1>4. QED
  BY <1>1, <1>2, <1>3 DEF Next

\* The strict billing path implements the escrow: wallet, token and ledger row
\* of a request always move together, and each reservation is charged or
\* released at most once, for any number of requests, crashes, retries and lost
\* acknowledgements.
THEOREM StrictBillingImplementsEscrow == Spec => ImplementsEscrow
<1>1. Init => E!Init
  <2> SUFFICES ASSUME Init  PROVE E!Init
    OBVIOUS
  <2>1. Balances \in [{"wallet", "token"} -> Nat]
    BY ConstantsAssumption DEF Init, Balances
  <2>2. Escrowed = [r \in Requests |-> E!NoEscrow]
    BY DEF Init, Escrowed, NoRow, E!NoEscrow
  <2>3. QED  BY <2>1, <2>2 DEF E!Init
<1>2. QED
  BY <1>1, EscrowStep, Invariance, PTL DEF Spec, ImplementsEscrow, E!Spec

-----------------------------------------------------------------------------
(***************************************************************************)
(* Conservation of quota, for any finite number of requests: what is       *)
(* missing from the wallet, the token and the subscriptions is what the    *)
(* rows of the ledger and the violation fees account for.  A sum is the    *)
(* cardinality of a set with one element per unit of quota, so that a step *)
(* that changes the charge of one request changes the sum by as much       *)
(* (TotalChanges), and every step of the system changes the charges of at  *)
(* most one.                                                               *)
(***************************************************************************)

\* The units of x.
Cell(f, x) == {x} \X (1..f[x])

Units(f) == UNION {Cell(f, x) : x \in DOMAIN f}

\* As many units as the amount says.
LEMMA CellSize ==
    ASSUME NEW S, NEW f \in [S -> Nat], NEW x \in S
    PROVE  IsFiniteSet(Cell(f, x)) /\ Cardinality(Cell(f, x)) = f[x]
<1>1. IsFiniteSet({x}) /\ Cardinality({x}) = 1
  BY FS_Singleton
<1>2. f[x] \in Nat
  OBVIOUS
<1>3. IsFiniteSet(1..f[x]) /\ Cardinality(1..f[x]) = f[x]
  BY <1>2, FS_Interval
<1>4. IsFiniteSet({x} \X (1..f[x])) /\ Cardinality({x} \X (1..f[x])) = 1 * f[x]
  BY <1>1, <1>3, FS_Product
<1>5. QED  BY <1>2, <1>4 DEF Cell

\* The units of a function on a finite set are finitely many.
LEMMA UnitsFinite ==
    ASSUME NEW S, IsFiniteSet(S), NEW f \in [S -> Nat]
    PROVE  IsFiniteSet(Units(f)) /\ Total(f) = Cardinality(Units(f)) /\ Total(f) \in Nat
<1> DEFINE T == {Cell(f, x) : x \in S}
           g == [x \in S |-> Cell(f, x)]
<1>1. g \in Surjection(S, T)
  BY DEF Surjection
<1> HIDE DEF g
<1>2. IsFiniteSet(T)
  BY <1>1, FS_Surjection
<1>3. \A X \in T : IsFiniteSet(X)
  BY CellSize
<1>4. IsFiniteSet(UNION T)
  BY <1>2, <1>3, FS_UNION
<1>5. DOMAIN f = S
  OBVIOUS
<1>6. Units(f) = UNION T
  BY <1>5 DEF Units
<1>7. Total(f) = Cardinality(Units(f))
  BY DEF Total, Units, Cell
<1>8. QED  BY <1>4, <1>6, <1>7, FS_CardinalityType

\* Changing the amount of one request changes the total by as much.
LEMMA TotalChanges ==
    ASSUME NEW S, IsFiniteSet(S), NEW f \in [S -> Nat], NEW g \in [S -> Nat], NEW x \in S,
           \A y \in S \ {x} : g[y] = f[y]
    PROVE  Total(g) = Total(f) - f[x] + g[x] /\ f[x] <= Total(f)
<1> DEFINE Rest == Units(f) \ Cell(f, x)
<1>1. Units(f) = Rest \cup Cell(f, x) /\ Rest \cap Cell(f, x) = {}
  BY DEF Units
<1>2. Units(g) = Rest \cup Cell(g, x) /\ Rest \cap Cell(g, x) = {}
  <2>1. \A y \in S \ {x} : Cell(g, y) = Cell(f, y)
    BY DEF Cell
  <2>2. \A u : u \in Rest <=> \E y \in S \ {x} : u \in Cell(f, y)
    BY DEF Units, Cell
  <2>3. \A u : u \in Units(g) <=> u \in Cell(g, x) \/ \E y \in S \ {x} : u \in Cell(g, y)
    BY DEF Units
  <2>4. \A u : u \in Cell(g, x) => \A y \in S \ {x} : u \notin Cell(g, y)
    BY DEF Cell
  <2> HIDE DEF Rest
  <2>5. QED  BY <2>1, <2>2, <2>3, <2>4
<1>3. /\ IsFiniteSet(Units(f)) /\ Total(f) = Cardinality(Units(f)) /\ Total(f) \in Nat
      /\ Total(g) = Cardinality(Units(g))
  BY UnitsFinite
<1>4. IsFiniteSet(Rest) /\ Cardinality(Rest) \in Nat
  BY <1>3, FS_Subset, FS_CardinalityType
<1>5. /\ IsFiniteSet(Cell(f, x)) /\ Cardinality(Cell(f, x)) = f[x]
      /\ IsFiniteSet(Cell(g, x)) /\ Cardinality(Cell(g, x)) = g[x]
  BY CellSize
<1> HIDE DEF Rest
<1>6. Cardinality(Rest \cup Cell(f, x)) = Cardinality(Rest) + f[x] - 0
  BY <1>1, <1>4, <1>5, FS_Union, FS_EmptySet
<1>7. Cardinality(Rest \cup Cell(g, x)) = Cardinality(Rest) + g[x] - 0
  <2>1. Cardinality(Rest \cup Cell(g, x)) =
            Cardinality(Rest) + Cardinality(Cell(g, x)) - Cardinality(Rest \cap Cell(g, x))
    BY <1>4, <1>5, FS_Union
  <2>2. Cardinality(Rest \cap Cell(g, x)) = 0
    BY <1>2, FS_EmptySet
  <2>3. QED  BY <1>5, <2>1, <2>2
<1>8. f[x] \in Nat /\ g[x] \in Nat
  OBVIOUS
<1>9. QED  BY <1>1, <1>2, <1>3, <1>4, <1>6, <1>7, <1>8

-----------------------------------------------------------------------------
(* The invariant.                                                           *)

\* A violation fee is charged once to the funding and once to the token, at the
\* end of a request; a request without a row has no subscription.
FeeInv(r) ==
    /\ pc[r] \notin {"feeToken", "done", "dead"} => paid[r] = {}
    /\ pc[r] = "feeToken" => "token" \notin paid[r]
    /\ ledger[r].status = "none" => ledger[r].sub = Wallet

AInv ==
    /\ IInv
    /\ \A r \in Requests : FeeInv(r)
    /\ LedgerAccountsForQuota
    /\ SubscriptionUseIsBooked

Sources == {Wallet} \cup Subs

\* Charges are natural numbers.
LEMMA ChargesType ==
    ASSUME TypeOK
    PROVE  /\ \A s \in Sources : FundingCharges(s) \in [Requests -> Nat]
           /\ TokenCharges \in [Requests -> Nat]
<1>1. \A r \in Requests : RowCharge(r) \in Nat
  BY DEF TypeOK, Rows, RowCharge
<1>2. \A r \in Requests : FeeCharge(r, "funding") \in Nat /\ FeeCharge(r, "token") \in Nat
  BY DEF TypeOK, FeeCharge
<1>3. QED  BY <1>1, <1>2 DEF FundingCharges, TokenCharges

\* What a step that leaves the other requests' rows and fees alone does to the
\* totals.
LEMMA OneCharge ==
    ASSUME TypeOK, TypeOK', IsFiniteSet(Requests), NEW r \in Requests,
           \A q \in Requests \ {r} : /\ ledger'[q] = ledger[q] /\ paid'[q] = paid[q]
                                     /\ fee'[q] = fee[q] /\ plan'[q] = plan[q]
    PROVE  /\ \A s \in Sources :
                /\ Total(FundingCharges(s)') = Total(FundingCharges(s))
                                                - FundingCharges(s)[r] + FundingCharges(s)'[r]
                /\ FundingCharges(s)[r] <= Total(FundingCharges(s))
                /\ Total(FundingCharges(s)) \in Nat /\ Total(FundingCharges(s)') \in Nat
                /\ FundingCharges(s)[r] \in Nat /\ FundingCharges(s)'[r] \in Nat
           /\ Total(TokenCharges') = Total(TokenCharges) - TokenCharges[r] + TokenCharges'[r]
           /\ Total(TokenCharges) \in Nat /\ Total(TokenCharges') \in Nat
           /\ TokenCharges[r] \in Nat /\ TokenCharges'[r] \in Nat
<1>1. /\ \A s \in Sources : FundingCharges(s) \in [Requests -> Nat]
      /\ TokenCharges \in [Requests -> Nat]
  BY ChargesType
<1>2. /\ \A s \in Sources : FundingCharges(s)' \in [Requests -> Nat]
      /\ TokenCharges' \in [Requests -> Nat]
  <2>1. \A q \in Requests : RowCharge(q)' \in Nat
    BY DEF TypeOK, Rows, RowCharge
  <2>2. \A q \in Requests : FeeCharge(q, "funding")' \in Nat /\ FeeCharge(q, "token")' \in Nat
    BY DEF TypeOK, FeeCharge
  <2>3. QED  BY <2>1, <2>2 DEF FundingCharges, TokenCharges
<1>3. \A q \in Requests \ {r} : /\ \A s \in Sources : FundingCharges(s)'[q] = FundingCharges(s)[q]
                                /\ TokenCharges'[q] = TokenCharges[q]
  BY DEF FundingCharges, TokenCharges, RowCharge, FeeCharge
<1>4. ASSUME NEW s \in Sources
      PROVE  /\ Total(FundingCharges(s)') = Total(FundingCharges(s))
                                             - FundingCharges(s)[r] + FundingCharges(s)'[r]
             /\ FundingCharges(s)[r] <= Total(FundingCharges(s))
             /\ Total(FundingCharges(s)) \in Nat /\ Total(FundingCharges(s)') \in Nat
  <2> DEFINE f == FundingCharges(s)
             g == FundingCharges(s)'
  <2>1. f \in [Requests -> Nat] /\ g \in [Requests -> Nat] /\ \A q \in Requests \ {r} : g[q] = f[q]
    BY <1>1, <1>2, <1>3
  <2> HIDE DEF f, g
  <2>2. /\ Total(g) = Total(f) - f[r] + g[r] /\ f[r] <= Total(f)
        /\ Total(f) \in Nat /\ Total(g) \in Nat
    BY <2>1, TotalChanges, UnitsFinite
  <2>3. QED  BY <2>2 DEF f, g
<1>5. /\ Total(TokenCharges') = Total(TokenCharges) - TokenCharges[r] + TokenCharges'[r]
      /\ Total(TokenCharges) \in Nat /\ Total(TokenCharges') \in Nat
  <2> DEFINE f == TokenCharges
             g == TokenCharges'
  <2>1. f \in [Requests -> Nat] /\ g \in [Requests -> Nat] /\ \A q \in Requests \ {r} : g[q] = f[q]
    BY <1>1, <1>2, <1>3
  <2> HIDE DEF f, g
  <2>2. /\ Total(g) = Total(f) - f[r] + g[r]
        /\ Total(f) \in Nat /\ Total(g) \in Nat
    BY <2>1, TotalChanges, UnitsFinite
  <2>3. QED  BY <2>2 DEF f, g
<1>6. QED  BY <1>1, <1>2, <1>4, <1>5

\* What a step must not touch if it is to leave subscriptions alone.
Allotted(q) == ledger'[q].sub = ledger[q].sub /\ (ledger[q].sub # Wallet => plan'[q] = plan[q])

\* A step that charges nobody.
LEMMA NoCharge ==
    ASSUME AInv, UNCHANGED <<wallet, token, used, wasReset>>,
           \A q \in Requests :
              /\ Allotted(q)
              /\ RowCharge(q)' = RowCharge(q)
              /\ FeeCharge(q, "funding")' = FeeCharge(q, "funding")
              /\ FeeCharge(q, "token")' = FeeCharge(q, "token")
              /\ plan'[q].skip # plan[q].skip => RowCharge(q) = 0 /\ FeeCharge(q, "token") = 0
    PROVE  LedgerAccountsForQuota' /\ SubscriptionUseIsBooked'
<1>1. \A s \in Sources : FundingCharges(s)' = FundingCharges(s)
  BY DEF FundingCharges, Allotted
<1>2. TokenCharges' = TokenCharges
  BY DEF TokenCharges
<1>3. \A s \in Sources : Total(FundingCharges(s))' = Total(FundingCharges(s))
  BY <1>1 DEF Total
<1>4. Total(TokenCharges)' = Total(TokenCharges)
  BY <1>2 DEF Total
<1>5. LedgerAccountsForQuota'
  BY <1>3, <1>4 DEF AInv, LedgerAccountsForQuota, Sources
<1>6. SubscriptionUseIsBooked'
  <2> SUFFICES ASSUME NEW s \in Subs
               PROVE  /\ used'[s] <= Total(FundingCharges(s))'
                      /\ s \notin wasReset' => used'[s] = Total(FundingCharges(s))'
                      /\ SubTotal[s] > 0 /\ (\A r \in Requests : ledger'[r].sub = s => ~plan'[r].over)
                            => used'[s] <= SubTotal[s]
    BY DEF SubscriptionUseIsBooked
  <2>1. s # Wallet /\ s \in Sources
    BY DEF Subs, Wallet, Sources
  <2>2. (\A r \in Requests : ledger'[r].sub = s => ~plan'[r].over)
           => \A r \in Requests : ledger[r].sub = s => ~plan[r].over
    BY <2>1 DEF Allotted
  <2>3. QED  BY <1>3, <2>1, <2>2 DEF AInv, SubscriptionUseIsBooked
<1>7. QED  BY <1>5, <1>6

\* The other requests' rows, fees and plans stay.
Alone(r) ==
    \A q \in Requests \ {r} : /\ ledger'[q] = ledger[q] /\ paid'[q] = paid[q]
                              /\ fee'[q] = fee[q] /\ plan'[q] = plan[q]

\* The token pays what is charged to it.
LEMMA TokenPays ==
    ASSUME AInv, TypeOK', IsFiniteSet(Requests), NEW r \in Requests, Alone(r),
           token' = token - (TokenCharges'[r] - TokenCharges[r])
    PROVE  token' = InitToken - Total(TokenCharges)'
<1>1. TypeOK /\ token \in Int /\ InitToken \in Int /\ token = InitToken - Total(TokenCharges)
  BY ConstantsAssumption DEF AInv, IInv, TypeOK, LedgerAccountsForQuota
<1>2. /\ Total(TokenCharges') = Total(TokenCharges) - TokenCharges[r] + TokenCharges'[r]
      /\ Total(TokenCharges) \in Nat /\ Total(TokenCharges') \in Nat
      /\ TokenCharges[r] \in Nat /\ TokenCharges'[r] \in Nat
  BY <1>1, OneCharge DEF Alone
<1>3. Total(TokenCharges)' = Total(TokenCharges')
  BY DEF Total
<1>4. QED  BY <1>1, <1>2, <1>3

\* Wallet or subscription pay what is charged to them.  A refund larger than
\* what the period has used is clamped: the use stays below the charges, and was
\* strictly below them only after a reset.
LEMMA FundingPays ==
    ASSUME AInv, TypeOK', IsFiniteSet(Requests), NEW r \in Requests, Alone(r),
           \A q \in Requests : Allotted(q), wasReset' = wasReset,
           NEW d \in Int, FundingMoved(r, d),
           NEW src \in Sources, sub[r] = src, ledger[r].sub = src,
           FundingCharges(src)'[r] = FundingCharges(src)[r] + d,
           d > 0 /\ src # Wallet => plan[r].over \/ SubCovers(src, used[src], d)
    PROVE  /\ wallet' = InitWallet - Total(FundingCharges(Wallet))'
           /\ SubscriptionUseIsBooked'
<1>1. /\ TypeOK /\ wallet \in Int /\ InitWallet \in Int
      /\ wallet = InitWallet - Total(FundingCharges(Wallet))
  BY ConstantsAssumption DEF AInv, IInv, TypeOK, LedgerAccountsForQuota, Sources
<1>2. \A s \in Sources :
         /\ Total(FundingCharges(s)') = Total(FundingCharges(s))
                                         - FundingCharges(s)[r] + FundingCharges(s)'[r]
         /\ FundingCharges(s)[r] <= Total(FundingCharges(s))
         /\ Total(FundingCharges(s)) \in Nat /\ Total(FundingCharges(s)') \in Nat
         /\ FundingCharges(s)[r] \in Nat /\ FundingCharges(s)'[r] \in Nat
  BY <1>1, OneCharge DEF Alone
<1>3. \A s \in Sources : Total(FundingCharges(s))' = Total(FundingCharges(s)')
  BY DEF Total
<1>4. \A s \in Sources \ {src} : FundingCharges(s)[r] = 0 /\ FundingCharges(s)'[r] = 0
  BY DEF FundingCharges, Allotted
<1>5. \A s \in Sources \ {src} : Total(FundingCharges(s))' = Total(FundingCharges(s))
  BY <1>2, <1>3, <1>4
<1>6. /\ Total(FundingCharges(src)') = Total(FundingCharges(src)) + d
      /\ Total(FundingCharges(src)) + d >= 0
  BY <1>1, <1>2
<1>7. wallet' = InitWallet - Total(FundingCharges(Wallet))'
  <2>1. CASE src = Wallet
    BY <1>1, <1>2, <1>3, <1>6, <2>1 DEF FundingMoved
  <2>2. CASE src # Wallet
    BY <1>1, <1>5, <2>2 DEF FundingMoved, Sources
  <2>3. QED  BY <2>1, <2>2
<1>8. ASSUME NEW s \in Subs
      PROVE  /\ used'[s] <= Total(FundingCharges(s))'
             /\ s \notin wasReset' => used'[s] = Total(FundingCharges(s))'
             /\ SubTotal[s] > 0 /\ (\A q \in Requests : ledger'[q].sub = s => ~plan'[q].over)
                   => used'[s] <= SubTotal[s]
  <2>1. /\ s # Wallet /\ s \in Sources /\ used[s] \in Nat /\ SubTotal[s] \in Nat
        /\ Total(FundingCharges(s)) \in Nat
    <3>1. s # Wallet
      BY DEF Subs, Wallet
    <3>2. s \in Sources
      BY DEF Sources
    <3>3. used[s] \in Nat /\ SubTotal[s] \in Nat
      BY <1>1, ConstantsAssumption DEF TypeOK
    <3>4. QED  BY <1>2, <3>1, <3>2, <3>3
  <2>2. (\A q \in Requests : ledger'[q].sub = s => ~plan'[q].over)
           => \A q \in Requests : ledger[q].sub = s => ~plan[q].over
    BY <2>1 DEF Allotted
  <2>3. /\ used[s] <= Total(FundingCharges(s))
        /\ s \notin wasReset => used[s] = Total(FundingCharges(s))
        /\ SubTotal[s] > 0 /\ (\A q \in Requests : ledger[q].sub = s => ~plan[q].over)
              => used[s] <= SubTotal[s]
    BY DEF AInv, SubscriptionUseIsBooked
  <2>4. CASE s # src
    <3>1. used'[s] = used[s]
      BY <1>1, <2>4 DEF FundingMoved, UsedMoved, TypeOK
    <3>2. Total(FundingCharges(s))' = Total(FundingCharges(s))
      BY <1>5, <2>1, <2>4
    <3>3. QED  BY <2>2, <2>3, <3>1, <3>2
  <2>5. CASE s = src
    <3>1. used'[s] = IF d > 0 THEN used[s] + d ELSE LessUsed(used[s], -d)
      BY <1>1, <2>1, <2>5 DEF FundingMoved, UsedMoved, TypeOK
    <3>2. Total(FundingCharges(s))' = Total(FundingCharges(s)) + d /\ Total(FundingCharges(s)) + d >= 0
      BY <1>3, <1>6, <2>1, <2>5
    <3>3. CASE d > 0
      <4>1. SubTotal[s] > 0 /\ ~plan[r].over => used[s] <= SubTotal[s] - d
        BY <2>1, <2>5, <3>3 DEF SubCovers
      <4>2. (\A q \in Requests : ledger[q].sub = s => ~plan[q].over) => ~plan[r].over
        BY <2>5
      <4>3. used'[s] = used[s] + d
        BY <3>1, <3>3
      <4>4. QED  BY <2>1, <2>2, <2>3, <3>2, <4>1, <4>2, <4>3
    <3>4. CASE ~(d > 0)
      <4>1. used'[s] = IF used[s] < -d THEN 0 ELSE used[s] - (-d)
        BY <3>1, <3>4 DEF LessUsed
      <4>2. used'[s] <= Total(FundingCharges(s))'
        BY <2>1, <2>3, <3>2, <4>1
      <4>3. s \notin wasReset' => used'[s] = Total(FundingCharges(s))'
        BY <2>1, <2>3, <3>2, <4>1
      <4>4. used'[s] <= used[s] /\ used'[s] \in Int
        BY <2>1, <3>4, <4>1
      <4>5. QED  BY <2>1, <2>2, <2>3, <4>2, <4>3, <4>4
    <3>5. QED  BY <3>3, <3>4
  <2>6. QED  BY <2>4, <2>5
<1>9. SubscriptionUseIsBooked'
  BY <1>8 DEF SubscriptionUseIsBooked
<1>10. QED  BY <1>7, <1>9

-----------------------------------------------------------------------------
(* The steps.                                                               *)

\* A fee is charged at most once to each side.
LEMMA FeeStep ==
    ASSUME IInv, \A q \in Requests : FeeInv(q), [Next]_vars, NEW q \in Requests
    PROVE  FeeInv(q)'
<1>0. TypeOK /\ SessionInv(q) /\ FeeInv(q)
  BY DEF IInv
<1>1. ASSUME NEW r \in Requests, Start(r)  PROVE FeeInv(q)'
  BY <1>0, <1>1 DEF TypeOK, FeeInv, Start, dbVars
<1>2. ASSUME NEW r \in Requests, SessionStep(r)  PROVE FeeInv(q)'
  <2>1. CASE HasActiveUserSubscription(r) \/ PreConsumeInsufficient(r) \/ PreConsumeError(r)
    BY <1>0, <2>1 DEF TypeOK, FeeInv, HasActiveUserSubscription, PreConsumeInsufficient,
                      PreConsumeError, dbVars
  <2>2. CASE \E ack \in BOOLEAN : PreConsumeWallet(r, ack)
    BY <1>0, <2>2 DEF TypeOK, FeeInv, PreConsumeWallet
  <2>3. CASE \E s \in Subs, ack \in BOOLEAN : PreConsumeSubscription(r, s, ack)
    BY <1>0, <2>3 DEF TypeOK, FeeInv, PreConsumeSubscription
  <2>4. CASE \/ \E panic \in BOOLEAN, f \in Fees \cup {0} : RelayFails(r, panic, f)
             \/ \E n \in Usages : Settle(r, n)
             \/ \E panic \in BOOLEAN : Finish(r, panic)
    BY <1>0, <2>4 DEF TypeOK, FeeInv, RelayFails, Settle, Finish, dbVars
  <2>5. CASE \E ack \in BOOLEAN : SettleStrictBilling(r, ack)
    <3>1. /\ paid' = paid /\ ledger'[r].status = "settled"
          /\ q # r => ledger'[q] = ledger[q]
      BY <1>0, <2>5 DEF TypeOK, SettleStrictBilling
    <3>2. pc'[q] = pc[q] \/ (q = r /\ pc[q] = "settling")
      BY <1>0, <2>5 DEF TypeOK, SettleStrictBilling, SettlementFailed
    <3>3. q = r => pc'[q] \in {"settling", "settledOk", "refundCheck"} /\ pc[q] = "settling"
      BY <1>0, <2>5 DEF TypeOK, SettleStrictBilling, SettlementFailed
    <3>4. QED  BY <1>0, <3>1, <3>2, <3>3 DEF FeeInv
  <2>6. CASE SettleAlreadySettled(r) \/ SettleError(r)
    BY <1>0, <2>6 DEF TypeOK, FeeInv, SettleAlreadySettled, SettleError, SettlementFailed, dbVars
  <2>7. CASE Refund(r) \/ RefundError(r)
    BY <1>0, <2>7 DEF TypeOK, FeeInv, Refund, RefundError, AfterRefund, dbVars
  <2>8. CASE \E ack \in BOOLEAN : RefundStrictBilling(r, ack)
    <3>1. paid' = paid /\ (q # r => pc'[q] = pc[q] /\ ledger'[q] = ledger[q])
      BY <1>0, <2>8 DEF TypeOK, RefundStrictBilling
    <3>2. q = r => /\ pc[q] = "refunding" /\ pc'[q] \in {"done", "fee"}
                   /\ ledger'[q].status = "refunded"
      BY <1>0, <2>8 DEF TypeOK, RefundStrictBilling, AfterRefund, Rows
    <3>3. QED  BY <1>0, <3>1, <3>2 DEF FeeInv
  <2>9. CASE (\E ack \in BOOLEAN : ChargeViolationFee(r, ack)) \/ ChargeViolationFeeToken(r)
             \/ ChargeViolationFeeError(r)
    BY <1>0, <2>9 DEF TypeOK, FeeInv, ChargeViolationFee, ChargeViolationFeeToken,
                      ChargeViolationFeeError, dbVars
  <2>10. QED
    BY <1>2, <2>1, <2>2, <2>3, <2>4, <2>5, <2>6, <2>7, <2>8, <2>9 DEF SessionStep
<1>3. CASE Environment \/ UNCHANGED vars
  BY <1>0, <1>3 DEF TypeOK, FeeInv, Environment, Cleanup, PeriodEnds, ResetDueSubscription,
                    EndSubscription, DeleteToken, ProcessExit, vars, dbVars, sessVars
<1>4. QED  BY <1>1, <1>2, <1>3 DEF Next

\* Steps that move no money.
LEMMA IdleLedger ==
    ASSUME AInv, UNCHANGED <<wallet, token, used, wasReset, ledger, paid>>,
           \A q \in Requests : fee'[q] = fee[q] \/ paid[q] = {},
           \A q \in Requests : plan'[q] = plan[q]
                                 \/ (ledger[q].status = "none" /\ paid[q] = {})
    PROVE  LedgerAccountsForQuota' /\ SubscriptionUseIsBooked'
<1>1. ASSUME NEW q \in Requests
      PROVE  /\ Allotted(q)
             /\ RowCharge(q)' = RowCharge(q)
             /\ FeeCharge(q, "funding")' = FeeCharge(q, "funding")
             /\ FeeCharge(q, "token")' = FeeCharge(q, "token")
             /\ plan'[q].skip # plan[q].skip => RowCharge(q) = 0 /\ FeeCharge(q, "token") = 0
  <2>1. FeeInv(q)
    BY DEF AInv
  <2>2. QED  BY <2>1 DEF FeeInv, Allotted, RowCharge, FeeCharge
<1>2. QED  BY <1>1, NoCharge

\* The reservation on the wallet.
LEMMA ReserveWallet ==
    ASSUME AInv, TypeOK', IsFiniteSet(Requests), NEW r \in Requests, NEW ack \in BOOLEAN,
           PreConsumeWallet(r, ack)
    PROVE  LedgerAccountsForQuota' /\ SubscriptionUseIsBooked'
<1> DEFINE d == plan[r].quota
<1>0. TypeOK /\ SessionInv(r) /\ FeeInv(r) /\ pc[r] = "tryWallet"
  BY DEF AInv, IInv, PreConsumeWallet
<1>1. /\ ledger[r].status = "none" /\ ledger[r].sub = Wallet /\ sub[r] = Wallet
      /\ paid[r] = {} /\ d \in Nat /\ token \in Int
  BY <1>0 DEF SessionInv, FeeInv, Reserving, TypeOK, PlanType
<1>2. /\ UNCHANGED <<paid, fee, plan, used, wasReset>>
      /\ ledger'[r] = [status |-> "consumed", pre |-> d, sub |-> Wallet]
      /\ wallet' = wallet - d /\ token' = TokenMoved(r, -d)
      /\ \A q \in Requests \ {r} : ledger'[q] = ledger[q]
  BY <1>0 DEF PreConsumeWallet, TypeOK
<1> HIDE DEF d
<1>3. Alone(r) /\ \A q \in Requests : Allotted(q)
  BY <1>1, <1>2 DEF Alone, Allotted
<1>4. FundingCharges(Wallet)[r] = 0 /\ FundingCharges(Wallet)'[r] = d
  BY <1>1, <1>2 DEF FundingCharges, RowCharge, FeeCharge
<1>5. FundingMoved(r, d)
  BY <1>1, <1>2 DEF FundingMoved
<1>6. /\ wallet' = InitWallet - Total(FundingCharges(Wallet))'
      /\ SubscriptionUseIsBooked'
  <2>1. Wallet \in Sources /\ d \in Int /\ FundingCharges(Wallet)'[r] = FundingCharges(Wallet)[r] + d
    BY <1>1, <1>4 DEF Sources
  <2>2. QED  BY <1>1, <1>2, <1>3, <1>5, <2>1, FundingPays
<1>7. TokenCharges[r] = 0 /\ TokenCharges'[r] = IF plan[r].skip THEN 0 ELSE d
  BY <1>1, <1>2 DEF TokenCharges, RowCharge, FeeCharge
<1>8. token' = token - (TokenCharges'[r] - TokenCharges[r])
  BY <1>1, <1>2, <1>7 DEF TokenMoved
<1>9. QED  BY <1>3, <1>6, <1>8, TokenPays DEF LedgerAccountsForQuota

\* The settlement.
LEMMA SettleLedger ==
    ASSUME AInv, TypeOK', IsFiniteSet(Requests), NEW r \in Requests, NEW ack \in BOOLEAN,
           SettleStrictBilling(r, ack)
    PROVE  LedgerAccountsForQuota' /\ SubscriptionUseIsBooked'
<1> DEFINE d == usage[r] - ledger[r].pre
           src == ledger[r].sub
<1>0. TypeOK /\ SessionInv(r) /\ FeeInv(r) /\ pc[r] = "settling"
  BY DEF AInv, IInv, SettleStrictBilling
<1>1. /\ ledger[r].status = "consumed" /\ sub[r] = src /\ paid[r] = {}
      /\ usage[r] \in Nat /\ ledger[r].pre \in Nat /\ token \in Int
      /\ src \in Sources
  BY <1>0 DEF SettleStrictBilling, SettleCommits, SessionInv, FeeInv, TypeOK, Rows, Sources
<1>2. /\ UNCHANGED <<paid, fee, plan, wasReset>>
      /\ ledger'[r] = [status |-> "settled", pre |-> usage[r], sub |-> src]
      /\ FundingMoved(r, d) /\ token' = TokenMoved(r, -d)
      /\ \A q \in Requests \ {r} : ledger'[q] = ledger[q]
  BY <1>0 DEF SettleStrictBilling, TypeOK
<1>3. d > 0 /\ src # Wallet => plan[r].over \/ SubCovers(src, used[src], d)
  BY <1>1 DEF SettleStrictBilling, SettleCommits, FundingAdjusts
<1>4. PICK t \in Sources : t = src
  BY <1>1
<1>5. PICK e \in Int : e = d
  BY <1>1
<1>6. Alone(r) /\ \A q \in Requests : Allotted(q)
  BY <1>2 DEF Alone, Allotted
<1>7. FundingCharges(t)[r] = ledger[r].pre /\ FundingCharges(t)'[r] = usage[r]
  BY <1>1, <1>2, <1>4 DEF FundingCharges, RowCharge, FeeCharge
<1>8. FundingCharges(t)'[r] = FundingCharges(t)[r] + e
  BY <1>1, <1>5, <1>7
<1>9. /\ TokenCharges[r] = IF plan[r].skip THEN 0 ELSE ledger[r].pre
      /\ TokenCharges'[r] = IF plan[r].skip THEN 0 ELSE usage[r]
  BY <1>1, <1>2 DEF TokenCharges, RowCharge, FeeCharge
<1>10. token' = token - (TokenCharges'[r] - TokenCharges[r])
  BY <1>1, <1>2, <1>9 DEF TokenMoved
<1> HIDE DEF d, src
<1>11. /\ wallet' = InitWallet - Total(FundingCharges(Wallet))'
       /\ SubscriptionUseIsBooked'
  <2>1. FundingMoved(r, e) /\ sub[r] = t /\ ledger[r].sub = t /\ wasReset' = wasReset
    BY <1>1, <1>2, <1>4, <1>5 DEF src
  <2>2. e > 0 /\ t # Wallet => plan[r].over \/ SubCovers(t, used[t], e)
    BY <1>3, <1>4, <1>5
  <2>3. QED  BY <1>6, <1>8, <2>1, <2>2, FundingPays
<1>12. QED  BY <1>6, <1>10, <1>11, TokenPays DEF LedgerAccountsForQuota

\* The refund.
LEMMA RefundLedger ==
    ASSUME AInv, TypeOK', IsFiniteSet(Requests), NEW r \in Requests, NEW ack \in BOOLEAN,
           RefundStrictBilling(r, ack)
    PROVE  LedgerAccountsForQuota' /\ SubscriptionUseIsBooked'
<1>0. TypeOK /\ SessionInv(r) /\ FeeInv(r) /\ pc[r] = "refunding"
  BY DEF AInv, IInv, RefundStrictBilling
<1>1. PICK t \in Sources : ledger[r].sub = t
  BY <1>0 DEF TypeOK, Rows, Sources
<1>2. PICK n \in Nat : ledger[r].pre = n
  BY <1>0 DEF TypeOK, Rows
<1>3. /\ ledger[r].status = "consumed" /\ sub[r] = t /\ paid[r] = {} /\ token \in Int
  BY <1>0, <1>1 DEF RefundStrictBilling, RefundCommits, SessionInv, Held, FeeInv, TypeOK
<1>4. /\ UNCHANGED <<paid, fee, plan, wasReset>>
      /\ ledger'[r].status = "refunded" /\ ledger'[r].sub = t
      /\ FundingMoved(r, -n) /\ token' = TokenMoved(r, n)
      /\ \A q \in Requests \ {r} : ledger'[q] = ledger[q]
  BY <1>0, <1>1, <1>2 DEF RefundStrictBilling, TypeOK, Rows
<1>5. Alone(r) /\ \A q \in Requests : Allotted(q)
  BY <1>1, <1>4 DEF Alone, Allotted
<1>6. FundingCharges(t)[r] = n /\ FundingCharges(t)'[r] = 0
  BY <1>1, <1>2, <1>3, <1>4 DEF FundingCharges, RowCharge, FeeCharge
<1>7. /\ TokenCharges[r] = IF plan[r].skip THEN 0 ELSE n
      /\ TokenCharges'[r] = 0
  BY <1>2, <1>3, <1>4 DEF TokenCharges, RowCharge, FeeCharge
<1>8. token' = token - (TokenCharges'[r] - TokenCharges[r])
  BY <1>3, <1>4, <1>7 DEF TokenMoved
<1>9. /\ wallet' = InitWallet - Total(FundingCharges(Wallet))'
      /\ SubscriptionUseIsBooked'
  <2>1. PICK e \in Int : e = -n
    OBVIOUS
  <2>2. FundingMoved(r, e) /\ ~(e > 0) /\ FundingCharges(t)'[r] = FundingCharges(t)[r] + e
    BY <1>4, <1>6, <2>1
  <2>3. QED  BY <1>1, <1>3, <1>4, <1>5, <2>2, FundingPays
<1>10. QED  BY <1>5, <1>8, <1>9, TokenPays DEF LedgerAccountsForQuota

\* The violation fee on the funding,
LEMMA FeeLedger ==
    ASSUME AInv, TypeOK', IsFiniteSet(Requests), NEW r \in Requests, NEW ack \in BOOLEAN,
           ChargeViolationFee(r, ack)
    PROVE  LedgerAccountsForQuota' /\ SubscriptionUseIsBooked'
<1>0. TypeOK /\ SessionInv(r) /\ FeeInv(r) /\ pc[r] = "fee"
  BY DEF AInv, IInv, ChargeViolationFee
<1>1. PICK t \in Sources : ledger[r].sub = t
  BY <1>0 DEF TypeOK, Rows, Sources
<1>2. PICK n \in Nat : fee[r] = n
  BY <1>0 DEF TypeOK
<1>3. sub[r] = t /\ paid[r] = {} /\ token \in Int /\ ledger[r].pre \in Nat
  BY <1>0, <1>1 DEF SessionInv, FeeInv, TypeOK, Rows
<1>4. /\ UNCHANGED <<ledger, fee, plan, wasReset, token>>
      /\ paid'[r] = {"funding"}
      /\ FundingMoved(r, n)
      /\ \A q \in Requests \ {r} : paid'[q] = paid[q]
  BY <1>0, <1>2, <1>3 DEF ChargeViolationFee, TypeOK
<1>5. Alone(r) /\ \A q \in Requests : Allotted(q)
  BY <1>4 DEF Alone, Allotted
<1>6. RowCharge(r)' = RowCharge(r) /\ RowCharge(r) \in Nat
  BY <1>3, <1>4 DEF RowCharge
<1>7. FundingCharges(t)[r] = RowCharge(r) + 0 /\ FundingCharges(t)'[r] = RowCharge(r) + n
  BY <1>1, <1>2, <1>3, <1>4, <1>6 DEF FundingCharges, FeeCharge
<1>8. TokenCharges'[r] = TokenCharges[r] /\ TokenCharges[r] \in Nat
  BY <1>3, <1>4, <1>6 DEF TokenCharges, FeeCharge
<1>9. token' = token - (TokenCharges'[r] - TokenCharges[r])
  BY <1>3, <1>4, <1>8
<1>10. n > 0 /\ t # Wallet => plan[r].over \/ SubCovers(t, used[t], n)
  BY <1>2, <1>3 DEF ChargeViolationFee, FeeAccepted
<1>11. /\ wallet' = InitWallet - Total(FundingCharges(Wallet))'
       /\ SubscriptionUseIsBooked'
  <2>1. n \in Int /\ FundingCharges(t)'[r] = FundingCharges(t)[r] + n
    BY <1>6, <1>7
  <2>2. QED  BY <1>1, <1>3, <1>4, <1>5, <1>10, <2>1, FundingPays
<1>12. QED  BY <1>5, <1>9, <1>11, TokenPays DEF LedgerAccountsForQuota

\* Only the use of subscriptions and what is charged to them matters for these.
LEMMA SubscriptionsStay ==
    ASSUME AInv, UNCHANGED <<wallet, used, wasReset>>, \A q \in Requests : Allotted(q),
           \A s \in Sources : FundingCharges(s)' = FundingCharges(s)
    PROVE  /\ wallet' = InitWallet - Total(FundingCharges(Wallet))'
           /\ SubscriptionUseIsBooked'
<1>1. \A s \in Sources : Total(FundingCharges(s))' = Total(FundingCharges(s))
  BY DEF Total
<1>2. wallet' = InitWallet - Total(FundingCharges(Wallet))'
  BY <1>1 DEF AInv, LedgerAccountsForQuota, Sources
<1>3. ASSUME NEW s \in Subs
      PROVE  /\ used'[s] <= Total(FundingCharges(s))'
             /\ s \notin wasReset' => used'[s] = Total(FundingCharges(s))'
             /\ SubTotal[s] > 0 /\ (\A r \in Requests : ledger'[r].sub = s => ~plan'[r].over)
                   => used'[s] <= SubTotal[s]
  <2>1. s # Wallet /\ s \in Sources
    BY DEF Subs, Wallet, Sources
  <2>2. (\A r \in Requests : ledger'[r].sub = s => ~plan'[r].over)
           => \A r \in Requests : ledger[r].sub = s => ~plan[r].over
    BY <2>1 DEF Allotted
  <2>3. QED  BY <1>1, <2>1, <2>2 DEF AInv, SubscriptionUseIsBooked
<1>4. QED  BY <1>2, <1>3 DEF SubscriptionUseIsBooked

\* and on the token.
LEMMA FeeTokenLedger ==
    ASSUME AInv, TypeOK', IsFiniteSet(Requests), NEW r \in Requests,
           ChargeViolationFeeToken(r)
    PROVE  LedgerAccountsForQuota' /\ SubscriptionUseIsBooked'
<1>0. TypeOK /\ SessionInv(r) /\ FeeInv(r) /\ pc[r] = "feeToken"
  BY DEF AInv, IInv, ChargeViolationFeeToken
<1>1. PICK n \in Nat : fee[r] = n
  BY <1>0 DEF TypeOK
<1>2. "token" \notin paid[r] /\ ~plan[r].skip /\ token \in Int /\ ledger[r].pre \in Nat
  BY <1>0 DEF SessionInv, FeeInv, TypeOK, Rows
<1>3. /\ UNCHANGED <<ledger, fee, plan, wasReset, wallet, used>>
      /\ \A q \in Requests \ {r} : paid'[q] = paid[q]
      /\ "funding" \in paid'[r] <=> "funding" \in paid[r]
      /\ \/ token' = token - n /\ "token" \in paid'[r]
         \/ token' = token /\ "token" \notin paid'[r]
  BY <1>0, <1>1, <1>2 DEF ChargeViolationFeeToken, TypeOK
<1>4. Alone(r) /\ \A q \in Requests : Allotted(q)
  BY <1>3 DEF Alone, Allotted
<1>5. \A q \in Requests : /\ RowCharge(q)' = RowCharge(q)
                          /\ FeeCharge(q, "funding")' = FeeCharge(q, "funding")
  BY <1>3 DEF RowCharge, FeeCharge
<1>6. \A s \in Sources : FundingCharges(s)' = FundingCharges(s)
  BY <1>3, <1>5 DEF FundingCharges
<1>7. RowCharge(r) \in Nat /\ RowCharge(r)' = RowCharge(r)
  BY <1>2, <1>5 DEF RowCharge
<1>8. /\ TokenCharges[r] = RowCharge(r) + 0
      /\ TokenCharges'[r] = RowCharge(r) + IF "token" \in paid'[r] THEN n ELSE 0
  BY <1>1, <1>2, <1>3, <1>7 DEF TokenCharges, FeeCharge
<1>9. token' = token - (TokenCharges'[r] - TokenCharges[r])
  BY <1>2, <1>3, <1>7, <1>8
<1>10. QED
  BY <1>3, <1>4, <1>6, <1>9, TokenPays, SubscriptionsStay DEF LedgerAccountsForQuota

\* The reservation on a subscription, with the resets that commit with it.
LEMMA ReserveSubscription ==
    ASSUME AInv, TypeOK', IsFiniteSet(Requests), NEW r \in Requests, NEW s \in Subs,
           NEW ack \in BOOLEAN, PreConsumeSubscription(r, s, ack)
    PROVE  LedgerAccountsForQuota' /\ SubscriptionUseIsBooked'
<1>0. TypeOK /\ SessionInv(r) /\ FeeInv(r) /\ pc[r] = "trySub"
  BY DEF AInv, IInv, PreConsumeSubscription
<1>1. PICK n \in Nat : SubConsume(r) = n
  BY <1>0 DEF TypeOK, PlanType, SubConsume
<1>2. /\ ledger[r].status = "none" /\ ledger[r].sub = Wallet /\ paid[r] = {} /\ token \in Int
  BY <1>0 DEF SessionInv, FeeInv, Reserving, TypeOK
<1>s. s # Wallet /\ s \in Sources
  BY DEF Subs, Wallet, Sources
<1>3. /\ UNCHANGED <<paid, fee, plan, wallet>>
      /\ ledger'[r] = [status |-> "consumed", pre |-> n, sub |-> s]
      /\ token' = TokenMoved(r, -n)
      /\ SubCovers(s, UsedAfterReset(s), n)
      /\ \A q \in Requests \ {r} : ledger'[q] = ledger[q]
  BY <1>0, <1>1 DEF PreConsumeSubscription, FirstFit, TypeOK
<1>4. /\ used'[s] = UsedAfterReset(s) + n
      /\ s \in due => s \in wasReset'
      /\ \A t \in Subs \ {s} : used'[t] = used[t] \/ (used'[t] = 0 /\ t \in wasReset')
      /\ wasReset \subseteq wasReset'
  BY <1>1 DEF PreConsumeSubscription, UsedAfterReset, FirstFit, ActiveSubs, Subs
<1>5. Alone(r) /\ TypeOK
  BY <1>0, <1>3 DEF Alone
<1>6. /\ \A t \in Sources : FundingCharges(t)[r] = 0
      /\ \A t \in Sources : FundingCharges(t)'[r] = IF t = s THEN n ELSE 0
  BY <1>2, <1>3 DEF FundingCharges, RowCharge, FeeCharge
<1>7. \A t \in Sources :
         /\ Total(FundingCharges(t))' = Total(FundingCharges(t)) + (IF t = s THEN n ELSE 0)
         /\ Total(FundingCharges(t)) \in Nat
  <2>1. \A t \in Sources : Total(FundingCharges(t))' = Total(FundingCharges(t)')
    BY DEF Total
  <2>2. QED  BY <1>5, <1>6, <2>1, OneCharge DEF Alone
<1>8. wallet' = InitWallet - Total(FundingCharges(Wallet))'
  <2>1. Wallet \in Sources /\ InitWallet \in Nat
    BY ConstantsAssumption DEF Sources
  <2>2. wallet = InitWallet - Total(FundingCharges(Wallet))
    BY DEF AInv, LedgerAccountsForQuota
  <2>3. QED  BY <1>3, <1>7, <1>s, <2>1, <2>2
<1>9. ASSUME NEW t \in Subs
      PROVE  /\ used'[t] <= Total(FundingCharges(t))'
             /\ t \notin wasReset' => used'[t] = Total(FundingCharges(t))'
             /\ SubTotal[t] > 0 /\ (\A q \in Requests : ledger'[q].sub = t => ~plan'[q].over)
                   => used'[t] <= SubTotal[t]
  <2>0. t # Wallet /\ t \in Sources
    BY DEF Subs, Wallet, Sources
  <2>1. used[t] \in Nat /\ SubTotal[t] \in Nat
    BY <1>0, ConstantsAssumption DEF TypeOK
  <2>2. /\ used[t] <= Total(FundingCharges(t))
        /\ t \notin wasReset => used[t] = Total(FundingCharges(t))
        /\ SubTotal[t] > 0 /\ (\A q \in Requests : ledger[q].sub = t => ~plan[q].over)
              => used[t] <= SubTotal[t]
    BY DEF AInv, SubscriptionUseIsBooked
  <2>3. CASE t = s
    <3>1. UsedAfterReset(t) \in {0, used[t]} /\ (t \notin due => UsedAfterReset(t) = used[t])
      BY DEF UsedAfterReset
    <3>2. used'[t] = UsedAfterReset(t) + n /\ (t \in due => t \in wasReset')
      BY <1>4, <2>3
    <3>3. SubTotal[t] > 0 => UsedAfterReset(t) <= SubTotal[t] - n
      BY <1>3, <2>1, <2>3 DEF SubCovers
    <3>4. Total(FundingCharges(t))' = Total(FundingCharges(t)) + n /\ Total(FundingCharges(t)) \in Nat
      BY <1>7, <2>0, <2>3
    <3>5. t \notin wasReset' => t \notin due /\ t \notin wasReset
      BY <1>4, <3>2
    <3>6. QED  BY <2>1, <2>2, <3>1, <3>2, <3>3, <3>4, <3>5
  <2>4. CASE t # s
    <3>1. Total(FundingCharges(t))' = Total(FundingCharges(t)) /\ Total(FundingCharges(t)) \in Nat
      BY <1>7, <2>0, <2>4
    <3>2. (\A q \in Requests : ledger'[q].sub = t => ~plan'[q].over)
             => \A q \in Requests : ledger[q].sub = t => ~plan[q].over
      BY <1>2, <1>3, <2>0
    <3>3. used'[t] = used[t] \/ (used'[t] = 0 /\ t \in wasReset')
      BY <1>4, <2>4
    <3>4. t \notin wasReset' => t \notin wasReset
      BY <1>4
    <3>5. QED  BY <2>1, <2>2, <3>1, <3>2, <3>3, <3>4
  <2>5. QED  BY <2>3, <2>4
<1>10. TokenCharges[r] = 0 /\ TokenCharges'[r] = IF plan[r].skip THEN 0 ELSE n
  BY <1>2, <1>3 DEF TokenCharges, RowCharge, FeeCharge
<1>11. token' = token - (TokenCharges'[r] - TokenCharges[r])
  BY <1>2, <1>3, <1>10 DEF TokenMoved
<1>12. QED
  BY <1>5, <1>8, <1>9, <1>11, TokenPays DEF LedgerAccountsForQuota, SubscriptionUseIsBooked

\* The end of a period takes back the use, never the charges.
LEMMA ResetLedger ==
    ASSUME AInv, IsFiniteSet(Requests), NEW s \in Subs, ResetDueSubscription(s)
    PROVE  LedgerAccountsForQuota' /\ SubscriptionUseIsBooked'
<1>0. TypeOK
  BY DEF AInv, IInv
<1>1. /\ UNCHANGED <<wallet, token, ledger, paid, fee, plan>>
      /\ used'[s] = 0 /\ s \in wasReset' /\ wasReset \subseteq wasReset'
      /\ \A t \in Subs \ {s} : used'[t] = used[t]
  BY <1>0 DEF ResetDueSubscription, sessVars, TypeOK
<1>2. \A t \in Sources : FundingCharges(t)' = FundingCharges(t)
  BY <1>1 DEF FundingCharges, RowCharge, FeeCharge
<1>3. TokenCharges' = TokenCharges
  BY <1>1 DEF TokenCharges, RowCharge, FeeCharge
<1>4. /\ \A t \in Sources : Total(FundingCharges(t))' = Total(FundingCharges(t))
      /\ Total(TokenCharges)' = Total(TokenCharges)
  BY <1>2, <1>3 DEF Total
<1>5. LedgerAccountsForQuota'
  BY <1>1, <1>4 DEF AInv, LedgerAccountsForQuota, Sources
<1>6. ASSUME NEW t \in Subs
      PROVE  /\ used'[t] <= Total(FundingCharges(t))'
             /\ t \notin wasReset' => used'[t] = Total(FundingCharges(t))'
             /\ SubTotal[t] > 0 /\ (\A q \in Requests : ledger'[q].sub = t => ~plan'[q].over)
                   => used'[t] <= SubTotal[t]
  <2>1. t \in Sources
    BY DEF Sources
  <2>2. Total(FundingCharges(t)) \in Nat /\ Total(FundingCharges(t))' = Total(FundingCharges(t))
    <3>1. FundingCharges(t) \in [Requests -> Nat]
      BY <1>0, <2>1, ChargesType
    <3>2. QED  BY <1>4, <2>1, <3>1, UnitsFinite
  <2>3. SubTotal[t] \in Nat
    BY ConstantsAssumption
  <2>4. CASE t = s
    BY <1>1, <2>2, <2>3, <2>4
  <2>5. CASE t # s
    BY <1>1, <2>2, <2>5 DEF AInv, SubscriptionUseIsBooked
  <2>6. QED  BY <2>4, <2>5
<1>7. QED  BY <1>5, <1>6 DEF SubscriptionUseIsBooked

\* Every step keeps the books.
LEMMA LedgerStep ==
    ASSUME AInv, IsFiniteSet(Requests), [Next]_vars
    PROVE  AInv'
<1>0. IInv /\ IInv' /\ TypeOK /\ TypeOK' /\ \A q \in Requests : FeeInv(q)
  BY StepInv DEF AInv, IInv
<1>1. \A q \in Requests : FeeInv(q)'
  BY <1>0, FeeStep
<1>2. ASSUME UNCHANGED <<wallet, token, used, wasReset, ledger, paid, fee, plan>>
      PROVE  LedgerAccountsForQuota' /\ SubscriptionUseIsBooked'
  BY <1>2, IdleLedger
<1>3. ASSUME NEW r \in Requests, Start(r)
      PROVE  LedgerAccountsForQuota' /\ SubscriptionUseIsBooked'
  <2>1. SessionInv(r) /\ FeeInv(r) /\ pc[r] = "new"
    BY <1>0, <1>3 DEF IInv, Start
  <2>2. ledger[r].status = "none" /\ paid[r] = {}
    BY <2>1 DEF SessionInv, Reserving, FeeInv
  <2>3. UNCHANGED <<wallet, token, used, wasReset, ledger, paid, fee>>
    BY <1>3 DEF Start, dbVars
  <2>4. \A q \in Requests \ {r} : plan'[q] = plan[q]
    BY <1>0, <1>3 DEF Start, TypeOK
  <2>5. QED  BY <2>2, <2>3, <2>4, IdleLedger
<1>4. ASSUME NEW r \in Requests, NEW panic \in BOOLEAN, NEW f, RelayFails(r, panic, f)
      PROVE  LedgerAccountsForQuota' /\ SubscriptionUseIsBooked'
  <2>1. paid[r] = {}
    BY <1>0, <1>4 DEF FeeInv, RelayFails
  <2>2. UNCHANGED <<wallet, token, used, wasReset, ledger, paid, plan>>
    BY <1>4 DEF RelayFails, dbVars
  <2>3. \A q \in Requests \ {r} : fee'[q] = fee[q]
    BY <1>0, <1>4 DEF RelayFails, TypeOK
  <2>4. QED  BY <2>1, <2>2, <2>3, IdleLedger
<1>5. ASSUME NEW r \in Requests, SessionStep(r)
      PROVE  LedgerAccountsForQuota' /\ SubscriptionUseIsBooked'
  <2>1. CASE \/ \E ack \in BOOLEAN : \/ PreConsumeWallet(r, ack) \/ SettleStrictBilling(r, ack)
                                     \/ RefundStrictBilling(r, ack) \/ ChargeViolationFee(r, ack)
             \/ \E s \in Subs, ack \in BOOLEAN : PreConsumeSubscription(r, s, ack)
             \/ ChargeViolationFeeToken(r)
    BY <1>0, <2>1, ReserveWallet, SettleLedger, RefundLedger, FeeLedger, ReserveSubscription,
       FeeTokenLedger
  <2>2. CASE \E panic \in BOOLEAN, f \in Fees \cup {0} : RelayFails(r, panic, f)
    BY <1>4, <2>2
  <2>3. CASE \/ HasActiveUserSubscription(r) \/ PreConsumeInsufficient(r) \/ PreConsumeError(r)
             \/ (\E n \in Usages : Settle(r, n)) \/ SettleAlreadySettled(r) \/ SettleError(r)
             \/ (\E panic \in BOOLEAN : Finish(r, panic)) \/ Refund(r) \/ RefundError(r)
             \/ ChargeViolationFeeError(r)
    BY <1>2, <2>3
    DEF HasActiveUserSubscription, PreConsumeInsufficient, PreConsumeError, Settle,
        SettleAlreadySettled, SettleError, Finish, Refund, RefundError,
        ChargeViolationFeeError, dbVars
  <2>4. QED  BY <1>5, <2>1, <2>2, <2>3 DEF SessionStep
<1>6. ASSUME \/ UNCHANGED vars \/ (\E r \in Requests : Cleanup(r)) \/ (\E s \in Subs : PeriodEnds(s))
             \/ (\E s \in Subs, how \in {"ended", "deleted"} : EndSubscription(s, how))
             \/ DeleteToken \/ ProcessExit
      PROVE  LedgerAccountsForQuota' /\ SubscriptionUseIsBooked'
  BY <1>2, <1>6 DEF vars, dbVars, sessVars, Cleanup, PeriodEnds, EndSubscription, DeleteToken,
                    ProcessExit
<1>7. ASSUME NEW s \in Subs, ResetDueSubscription(s)
      PROVE  LedgerAccountsForQuota' /\ SubscriptionUseIsBooked'
  BY <1>7, ResetLedger
<1>8. LedgerAccountsForQuota' /\ SubscriptionUseIsBooked'
  <2>1. CASE Environment
    BY <1>6, <1>7, <2>1 DEF Environment
  <2>2. CASE \E r \in Requests : Start(r) \/ SessionStep(r)
    BY <1>3, <1>5, <2>2
  <2>3. CASE UNCHANGED vars
    BY <1>6, <2>3
  <2>4. QED  BY <2>1, <2>2, <2>3 DEF Next
<1>9. QED  BY <1>0, <1>1, <1>8 DEF AInv

\* The books are balanced at the start: nobody has charged anything.
LEMMA LedgerInit == ASSUME Init PROVE AInv
<1>1. \A f : f = [r \in Requests |-> 0] => Total(f) = 0
  <2>1. 1..0 = {}
    OBVIOUS
  <2>2. UNION {{x} \X (1..[r \in Requests |-> 0][x]) : x \in Requests} = {}
    BY <2>1
  <2>3. QED  BY <2>2, FS_EmptySet DEF Total
<1>2. /\ \A s \in Sources : FundingCharges(s) = [r \in Requests |-> 0]
      /\ TokenCharges = [r \in Requests |-> 0]
  BY DEF Init, FundingCharges, TokenCharges, RowCharge, FeeCharge, NoRow
<1>3. LedgerAccountsForQuota
  BY <1>1, <1>2, ConstantsAssumption DEF Init, LedgerAccountsForQuota, Sources
<1>4. SubscriptionUseIsBooked
  <2> SUFFICES ASSUME NEW s \in Subs
               PROVE  /\ used[s] = 0 /\ Total(FundingCharges(s)) = 0
                      /\ SubTotal[s] > 0 => used[s] <= SubTotal[s]
    BY DEF SubscriptionUseIsBooked
  <2>1. used[s] = 0 /\ SubTotal[s] \in Nat
    BY ConstantsAssumption DEF Init
  <2>2. QED  BY <1>1, <1>2, <2>1 DEF Sources
<1>5. \A r \in Requests : FeeInv(r)
  BY DEF Init, FeeInv, NoRow
<1>6. QED  BY <1>3, <1>4, <1>5, InitInv DEF AInv

\* The books are balanced in every reachable state.
THEOREM BooksInvariance ==
    ASSUME IsFiniteSet(Requests)
    PROVE  Spec => []AInv
<1>1. Init => AInv
  BY LedgerInit
<1>2. AInv /\ [Next]_vars => AInv'
  BY LedgerStep
<1>3. QED  BY <1>1, <1>2, PTL DEF Spec

\* Conservation: the quota missing from the wallet and from the token is what
\* the rows of the ledger and the violation fees account for, for any finite
\* set of requests, whatever is lost, retried, deleted or interrupted.
THEOREM QuotaIsConserved ==
    ASSUME IsFiniteSet(Requests)
    PROVE  Spec => []LedgerAccountsForQuota
<1>1. AInv => LedgerAccountsForQuota
  BY DEF AInv
<1>2. QED  BY <1>1, BooksInvariance, PTL

\* A subscription is charged at most what its rows and fees account for, exactly
\* that until its first reset, and within its total unless a request on it is
\* billed at upstream cost.
THEOREM SubscriptionsAreBooked ==
    ASSUME IsFiniteSet(Requests)
    PROVE  Spec => []SubscriptionUseIsBooked
<1>1. AInv => SubscriptionUseIsBooked
  BY DEF AInv
<1>2. QED  BY <1>1, BooksInvariance, PTL

=============================================================================
