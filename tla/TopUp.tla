-------------------------------- MODULE TopUp --------------------------------
(* The top-up page of the console (web/src/components/topup): the amount of  *)
(* a payment, its confirmation, redemption codes, the transfer of invitation *)
(* rewards, the billing preference and the purchase of subscription plans,   *)
(* with the handlers of the server they call.                                *)
(*                                                                           *)
(* Every call is answered in two steps, so that answers may arrive in        *)
(* another order than the server took the calls: Serve is the handler,       *)
(* Return what the page does with the answer.  Amounts are in tenths of the  *)
(* currency's unit.  With Unhurried the user waits for the page to settle.   *)
EXTENDS Integers, Sequences, SequencesExt

CONSTANTS
  Uses,              \* what the user does: a subset of AllUses
  Enabled,           \* the payment services that are configured
  Counts,            \* the amounts that can be typed or picked
  Price, StripeUnitPrice, TopupGroupRatio,
  AmountDiscount,    \* [Counts -> 1..10], in tenths
  MinTopUp, StripeMinTopUp, WaffoMinTopUp,
  Codes,             \* redemption codes, each worth CodeQuota
  Plans,             \* plans of which PlanLimit can be bought
  PlanLimit,
  Prefs,             \* billing preferences
  Faults,            \* a subset of {"refused", "lost"}
  Unhurried,
  MaxCalls,          \* bounds the calls the page makes
  None

AllUses == {"pay", "waffo", "creem", "redeem", "transfer", "pref", "plans"}

\* What a code is worth, and what one transfer moves.
CodeQuota == 5
TransferQuota == 3

VARIABLES
  page,     \* the amount, the payment dialogs and their flags
  account,  \* the balances, the preference and the plans the page shows
  buy,      \* the dialog that buys a plan
  server,   \* what the database holds
  orders,   \* the orders the server made, with what the page showed for them
  calls,    \* calls under way, in the order they were made
  made      \* how many calls were made

vars == <<page, account, buy, server, orders, calls, made>>

-----------------------------------------------------------------------------
(* The server.                                                               *)

Ways == {w \in {"alipay", "stripe"} :
           (IF w = "stripe" THEN "stripe" ELSE "online") \in Enabled}

getPayMoney(count) == count * Price * TopupGroupRatio * AmountDiscount[count]

getStripePayMoney(count) ==
  count * StripeUnitPrice * TopupGroupRatio * AmountDiscount[count]

Quote(way, count) ==
  IF way = "stripe" THEN getStripePayMoney(count) ELSE getPayMoney(count)

LeastOf(way) == CASE way = "stripe" -> StripeMinTopUp
                  [] way = "waffo"  -> WaffoMinTopUp
                  [] OTHER          -> MinTopUp

Success(data) == [ok |-> TRUE, lost |-> FALSE, data |-> data]
Refusal == [ok |-> FALSE, lost |-> FALSE, data |-> None]

\* What the server answers to a call it takes now.
Answer(call) ==
  CASE call.what = "amount" ->
         IF call.count < LeastOf(call.way) THEN Refusal
         ELSE Success(Quote(call.way, call.count))
    [] call.what = "pay" ->
         IF call.way # "creem" /\ call.count < LeastOf(call.way) THEN Refusal
         ELSE Success(None)
    [] call.what = "redeem" ->
         IF call.code \in server.codes THEN Success(CodeQuota) ELSE Refusal
    [] call.what = "transfer" ->
         IF server.aff >= TransferQuota THEN Success(None) ELSE Refusal
    [] call.what = "buy" ->
         IF server.subs[call.plan] < PlanLimit THEN Success(None) ELSE Refusal
    [] call.what = "pref" -> Success(call.pref)
    [] call.what = "self" -> Success([quota |-> server.quota, aff |-> server.aff])
    [] call.what = "subs" -> Success([pref |-> server.pref, subs |-> server.subs])
    [] OTHER -> Success(None)

\* What a call that is not refused changes in the database.  A purchase of a
\* plan counts the plans already given, not the orders that still wait.
Effect(call) ==
  /\ orders' = IF call.what = "pay"
               THEN Append(orders, [way |-> call.way, count |-> call.count,
                                    seen |-> call.seen])
               ELSE orders
  /\ server' =
       CASE call.what = "redeem" ->
              [server EXCEPT !.codes = @ \ {call.code}, !.quota = @ + CodeQuota]
         [] call.what = "transfer" ->
              [server EXCEPT !.aff = @ - TransferQuota, !.quota = @ + TransferQuota]
         [] call.what = "pref" -> [server EXCEPT !.pref = call.pref]
         [] call.what = "buy" -> [server EXCEPT !.pending = Append(@, call.plan)]
         [] OTHER -> server

Refusable == {"pay", "redeem", "transfer", "pref", "buy"}

\* A handler runs; with the fault "refused" it may refuse for its own reasons.
Serve(i) ==
  /\ calls[i].answer = None
  /\ \E answer \in {Answer(calls[i])} \cup
          (IF "refused" \in Faults /\ calls[i].what \in Refusable
           THEN {Refusal} ELSE {}) :
       /\ calls' = [calls EXCEPT ![i].answer = answer]
       /\ IF answer.ok THEN Effect(calls[i]) ELSE UNCHANGED <<server, orders>>
  /\ UNCHANGED <<page, account, buy, made>>

\* CompleteSubscriptionOrder, when the payment is notified: the plans given
\* are counted again, and the order of one too many is left as it is.
CompleteSubscriptionOrder ==
  /\ \E i \in DOMAIN server.pending :
       LET plan == server.pending[i]
       IN  server' = [server EXCEPT
             !.pending = RemoveAt(@, i),
             !.subs[plan] = IF @ < PlanLimit THEN @ + 1 ELSE @]
  /\ UNCHANGED <<page, account, buy, orders, calls, made>>

-----------------------------------------------------------------------------
(* The page.                                                                 *)

Call(what) == [what |-> what, answer |-> None]

\* What the page shows of a payment as the user asks for it.
Seen(way) == [way |-> way, count |-> page.count, amount |-> page.amount]

\* getAmount and getStripeAmount; `then` is what goes on when they return.
AmountCall(way, count, then) ==
  [what |-> "amount", answer |-> None, way |-> way, count |-> count,
   then |-> then, seen |-> Seen(way)]

PayCall(way, count, seen) ==
  [what |-> "pay", answer |-> None, way |-> way, count |-> count, seen |-> seen]

Make(call) == calls' = Append(calls, call) /\ made' = made + 1

Idle == calls = <<>>

User(use) == use \in Uses /\ (Unhurried => Idle) /\ made < MaxCalls

\* No modal covers the page.
Uncovered == ~page.open /\ ~page.creemOpen /\ ~page.transferOpen /\ buy.plan = None

Init ==
  /\ page = [ready |-> FALSE, count |-> 1, min |-> 1, amount |-> 0, preset |-> None,
             payWay |-> None, paying |-> FALSE, open |-> FALSE, confirming |-> FALSE,
             creemOpen |-> FALSE, creem |-> None, code |-> None,
             submitting |-> FALSE, transferOpen |-> FALSE]
  /\ server = [quota |-> 1, aff |-> 2 * TransferQuota, pref |-> "subscription_first",
               codes |-> Codes, subs |-> [p \in Plans |-> 0], pending |-> <<>>]
  /\ account = [quota |-> 0, aff |-> 0, pref |-> "subscription_first",
                subs |-> [p \in Plans |-> 0]]
  /\ buy = [plan |-> None, paying |-> FALSE, refreshing |-> FALSE]
  /\ orders = <<>>
  /\ calls = <<Call("self"), Call("info"), Call("subs")>>
  /\ made = 3

\* The amount field: every number asks for its price, always the gateway's.
EnterCount(count) ==
  /\ User("pay") /\ Uncovered /\ page.ready
  /\ page' = [page EXCEPT !.count = count, !.preset = None]
  /\ Make(AmountCall("alipay", count, "show"))
  /\ UNCHANGED <<account, buy, server, orders>>

\* The field is left empty.
BlurEmpty ==
  /\ User("pay") /\ Uncovered /\ page.ready
  /\ page' = [page EXCEPT !.count = 1]
  /\ Make(AmountCall("alipay", 1, "show"))
  /\ UNCHANGED <<account, buy, server, orders>>

\* The price of a preset is worked out on the page, without the group's ratio.
selectPresetAmount(count) ==
  /\ User("pay") /\ Uncovered /\ page.ready
  /\ page' = [page EXCEPT !.count = count, !.preset = count,
                          !.amount = count * Price * AmountDiscount[count]]
  /\ UNCHANGED <<account, buy, server, orders, calls, made>>

\* A payment button: asks for the way's price before the dialog opens.
preTopUp(way) ==
  /\ User("pay") /\ Uncovered /\ page.ready
  /\ way = "stripe" => page.count >= StripeMinTopUp
  /\ ~(page.paying /\ page.payWay = way)
  /\ page' = [page EXCEPT !.payWay = way, !.paying = TRUE]
  /\ Make(AmountCall(way, page.count, "open"))
  /\ UNCHANGED <<account, buy, server, orders>>

\* The dialog's button.  An amount of zero is asked for again first; the
\* order is then made without another look at it.
onlineTopUp ==
  /\ User("pay") /\ page.open /\ ~page.confirming
  /\ IF page.amount = 0
     THEN /\ Make(AmountCall(page.payWay, page.count, "pay"))
          /\ UNCHANGED page
     ELSE /\ page.count >= page.min
          /\ Make(PayCall(page.payWay, page.count, Seen(page.payWay)))
          /\ page' = [page EXCEPT !.confirming = TRUE]
  /\ UNCHANGED <<account, buy, server, orders>>

waffoTopUp ==
  /\ User("waffo") /\ Uncovered /\ page.ready
  /\ page.count >= WaffoMinTopUp
  /\ ~page.paying
  /\ page' = [page EXCEPT !.paying = TRUE]
  /\ Make(PayCall("waffo", page.count, Seen("waffo")))
  /\ UNCHANGED <<account, buy, server, orders>>

creemPreTopUp(product) ==
  /\ User("creem") /\ Uncovered /\ page.ready
  /\ page' = [page EXCEPT !.creem = product, !.creemOpen = TRUE]
  /\ UNCHANGED <<account, buy, server, orders, calls, made>>

onlineCreemTopUp ==
  /\ User("creem") /\ page.creemOpen /\ ~page.confirming
  /\ page' = [page EXCEPT !.confirming = TRUE]
  /\ Make(PayCall("creem", page.creem,
                  [way |-> "creem", count |-> page.creem, amount |-> 0]))
  /\ UNCHANGED <<account, buy, server, orders>>

\* topUp: redeems the code in the field.
topUp(code) ==
  /\ User("redeem") /\ Uncovered /\ ~page.submitting
  /\ page' = [page EXCEPT !.code = code, !.submitting = TRUE]
  /\ Make([what |-> "redeem", answer |-> None, code |-> code, was |-> account.quota])
  /\ UNCHANGED <<account, buy, server, orders>>

openTransfer ==
  /\ User("transfer") /\ Uncovered
  /\ page' = [page EXCEPT !.transferOpen = TRUE]
  /\ UNCHANGED <<account, buy, server, orders, calls, made>>

transfer ==
  /\ User("transfer") /\ page.transferOpen
  /\ Make(Call("transfer"))
  /\ UNCHANGED <<page, account, buy, server, orders>>

\* The cancel buttons of the dialogs.
Cancel ==
  /\ ~Uncovered
  /\ Unhurried => Idle
  /\ page' = [page EXCEPT !.open = FALSE, !.creemOpen = FALSE, !.transferOpen = FALSE,
                          !.creem = IF page.creemOpen THEN None ELSE @]
  /\ buy' = [buy EXCEPT !.plan = None, !.paying = FALSE]
  /\ UNCHANGED <<account, server, orders, calls, made>>

\* The preference is shown at once and taken back when the server refuses.
updateBillingPreference(pref) ==
  /\ User("pref") /\ Uncovered
  /\ account' = [account EXCEPT !.pref = pref]
  /\ Make([what |-> "pref", answer |-> None, pref |-> pref, was |-> account.pref])
  /\ UNCHANGED <<page, buy, server, orders>>

handleRefresh ==
  /\ User("plans") /\ Uncovered /\ ~buy.refreshing
  /\ buy' = [buy EXCEPT !.refreshing = TRUE]
  /\ Make(Call("subs"))
  /\ UNCHANGED <<page, account, server, orders>>

openBuy(plan) ==
  /\ User("plans") /\ Uncovered
  /\ account.subs[plan] < PlanLimit
  /\ buy' = [buy EXCEPT !.plan = plan]
  /\ UNCHANGED <<page, account, server, orders, calls, made>>

\* payStripe, payCreem and payEpay.
payPlan ==
  /\ User("plans") /\ buy.plan # None /\ ~buy.paying
  /\ account.subs[buy.plan] < PlanLimit
  /\ buy' = [buy EXCEPT !.paying = TRUE]
  /\ Make([what |-> "buy", answer |-> None, plan |-> buy.plan])
  /\ UNCHANGED <<page, account, server, orders>>

-----------------------------------------------------------------------------
(* What the page does with the answers.  A lost answer is an exception.      *)

Lost == [ok |-> FALSE, lost |-> TRUE, data |-> None]

Lose(i) ==
  /\ "lost" \in Faults
  /\ calls[i].answer # Lost
  /\ calls' = [calls EXCEPT ![i].answer = Lost]
  /\ UNCHANGED <<page, account, buy, server, orders, made>>

Settled(i) == calls[i].answer # None

Rest(i) == RemoveAt(calls, i)

\* getTopupInfo: the page's limits and its first amount, those of the first
\* service that is configured.
FirstMin == IF "online" \in Enabled THEN MinTopUp
            ELSE IF "stripe" \in Enabled THEN StripeMinTopUp
            ELSE IF "waffo" \in Enabled THEN WaffoMinTopUp ELSE 1

InfoReturns(i) ==
  /\ calls[i].what = "info"
  /\ IF calls[i].answer.ok
     THEN /\ page' = [page EXCEPT !.ready = TRUE, !.min = FirstMin, !.count = FirstMin]
          /\ calls' = Append(Rest(i), AmountCall("alipay", FirstMin, "show"))
          /\ made' = made + 1
     ELSE calls' = Rest(i) /\ UNCHANGED <<page, made>>
  /\ UNCHANGED <<account, buy>>

AmountReturns(i) ==
  /\ calls[i].what = "amount"
  /\ LET call == calls[i]
         amount == CASE call.answer.ok -> call.answer.data
                     [] call.answer.lost -> page.amount
                     [] OTHER -> 0
         pays == call.then = "pay" /\ call.count >= page.min
     IN  /\ page' = [page EXCEPT
              !.amount = amount,
              !.paying = @ /\ call.then # "open",
              !.open = @ \/ (call.then = "open" /\ call.count >= page.min),
              !.confirming = @ \/ pays]
         /\ calls' = Rest(i) \o (IF pays THEN <<PayCall(call.way, call.count, call.seen)>>
                                 ELSE <<>>)
  /\ UNCHANGED <<account, buy, made>>

\* Whatever the outcome, the dialog of the payment closes.
PayReturns(i) ==
  /\ calls[i].what = "pay"
  /\ page' = CASE calls[i].way = "waffo" -> [page EXCEPT !.paying = FALSE]
               [] calls[i].way = "creem" ->
                    [page EXCEPT !.creemOpen = FALSE, !.confirming = FALSE]
               [] OTHER -> [page EXCEPT !.open = FALSE, !.confirming = FALSE]
  /\ calls' = Rest(i)
  /\ UNCHANGED <<account, buy, made>>

\* The balance of the click and what the code was worth.
RedeemReturns(i) ==
  /\ calls[i].what = "redeem"
  /\ page' = [page EXCEPT !.submitting = FALSE,
                          !.code = IF calls[i].answer.ok THEN None ELSE @]
  /\ account' = IF calls[i].answer.ok
                THEN [account EXCEPT !.quota = calls[i].was + calls[i].answer.data]
                ELSE account
  /\ calls' = Rest(i)
  /\ UNCHANGED <<buy, made>>

\* A transfer that succeeds reads the balances again.
TransferReturns(i) ==
  /\ calls[i].what = "transfer"
  /\ IF calls[i].answer.ok
     THEN /\ page' = [page EXCEPT !.transferOpen = FALSE]
          /\ calls' = Append(Rest(i), Call("self"))
          /\ made' = made + 1
     ELSE calls' = Rest(i) /\ UNCHANGED <<page, made>>
  /\ UNCHANGED <<account, buy>>

SelfReturns(i) ==
  /\ calls[i].what = "self"
  /\ account' = IF calls[i].answer.ok
                THEN [account EXCEPT !.quota = calls[i].answer.data.quota,
                                     !.aff = calls[i].answer.data.aff]
                ELSE account
  /\ calls' = Rest(i)
  /\ UNCHANGED <<page, buy, made>>

SubsReturns(i) ==
  /\ calls[i].what = "subs"
  /\ account' = IF calls[i].answer.ok
                THEN [account EXCEPT !.pref = calls[i].answer.data.pref,
                                     !.subs = calls[i].answer.data.subs]
                ELSE account
  /\ buy' = [buy EXCEPT !.refreshing = FALSE]
  /\ calls' = Rest(i)
  /\ UNCHANGED <<page, made>>

PrefReturns(i) ==
  /\ calls[i].what = "pref"
  /\ account' = [account EXCEPT !.pref = IF calls[i].answer.ok THEN calls[i].answer.data
                                         ELSE calls[i].was]
  /\ calls' = Rest(i)
  /\ UNCHANGED <<page, buy, made>>

BuyReturns(i) ==
  /\ calls[i].what = "buy"
  /\ buy' = [buy EXCEPT !.paying = FALSE,
                        !.plan = IF calls[i].answer.ok THEN None ELSE @]
  /\ calls' = Rest(i)
  /\ UNCHANGED <<page, account, made>>

Return(i) ==
  /\ Settled(i)
  /\ \/ InfoReturns(i) \/ AmountReturns(i) \/ PayReturns(i) \/ RedeemReturns(i)
     \/ TransferReturns(i) \/ SelfReturns(i) \/ SubsReturns(i) \/ PrefReturns(i)
     \/ BuyReturns(i)
  /\ UNCHANGED <<server, orders>>

\* Every use has been made of the page.
Done == Idle /\ made >= MaxCalls /\ UNCHANGED vars

Next ==
  \/ \E count \in Counts :
       EnterCount(count) \/ selectPresetAmount(count) \/ creemPreTopUp(count)
  \/ BlurEmpty
  \/ \E way \in Ways : preTopUp(way)
  \/ onlineTopUp
  \/ waffoTopUp
  \/ onlineCreemTopUp
  \/ \E code \in Codes : topUp(code)
  \/ openTransfer \/ transfer
  \/ Cancel
  \/ \E pref \in Prefs : updateBillingPreference(pref)
  \/ handleRefresh
  \/ \E plan \in Plans : openBuy(plan)
  \/ payPlan
  \/ CompleteSubscriptionOrder
  \/ \E i \in DOMAIN calls : Serve(i) \/ Lose(i) \/ Return(i)
  \/ Done

Spec == Init /\ [][Next]_vars

-----------------------------------------------------------------------------
(* Properties.                                                               *)

\* Every variable keeps its type.
TypeOK ==
  /\ page.count \in Counts /\ page.min \in Counts
  /\ page.amount \in Nat
  /\ page.preset \in Counts \cup {None}
  /\ page.payWay \in Ways \cup {None}
  /\ page.creem \in Counts \cup {None}
  /\ page.code \in Codes \cup {None}
  /\ {page.ready, page.paying, page.open, page.confirming, page.creemOpen,
      page.submitting, page.transferOpen, buy.paying, buy.refreshing} \subseteq BOOLEAN
  /\ account.quota \in Nat /\ account.aff \in Nat
  /\ buy.plan \in Plans \cup {None}
  /\ server.quota \in Nat /\ server.aff \in Nat
  /\ server.codes \subseteq Codes
  /\ server.pending \in Seq(Plans)

\* An order is of the amount, and through the service, that the page showed
\* when it was confirmed, and it costs what the dialog said (preTopUp,
\* onlineTopUp, RequestEpay): whatever presets, numbers and buttons came
\* before.  It takes a user who waits for the answers.
ChargedAsShown ==
  \A i \in DOMAIN orders :
    LET order == orders[i]
    IN  /\ order.way = order.seen.way
        /\ order.count = order.seen.count
        /\ order.way \in Ways => Quote(order.way, order.count) = order.seen.amount

\* Once every answer is in, the page shows the balances and the preference
\* the server holds (topUp, transfer, updateBillingPreference).
AccountIsServers ==
  Idle => /\ account.quota = server.quota
          /\ account.aff = server.aff
          /\ account.pref = server.pref

\* A plan is given no more often than its limit allows, however many orders
\* for it are paid (SubscriptionRequestEpay, CompleteSubscriptionOrder).
WithinLimit == \A p \in Plans : server.subs[p] <= PlanLimit

=============================================================================
