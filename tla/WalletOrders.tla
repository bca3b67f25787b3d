----------------------------- MODULE WalletOrders -----------------------------
(* The credit wallet (web/src/pages/MujianWallet): orders from the page that *)
(* makes them through the server and the payment gateway to the credits.     *)
(*                                                                           *)
(* The server (service/mujian/wallet.go, model/topup.go) inserts an order,   *)
(* asks the gateway for it, and credits it when the gateway's notification   *)
(* arrives, which the gateway repeats until it is acknowledged and may send  *)
(* again afterwards.  The page polls an order paid by a QR code; for other   *)
(* methods the browser leaves the page and comes back to it.                 *)
EXTENDS Integers, Sequences, FiniteSets, SequencesExt

CONSTANTS
  Ids,        \* orders, in the order they are made
  Methods,    \* a subset of {"wechat", "alipay"}
  Faults,     \* a subset of {"prepay", "lost", "admin"}
  Unhurried,  \* the user waits for the page to settle
  MaxNotes,   \* how often an order's payment is notified
  MaxCalls,   \* calls of the page under way at one time
  None

VARIABLES
  order,     \* [Ids -> row], the top-ups of the database
  credited,  \* [Ids -> Nat], how often an order was credited
  gateway,   \* [Ids -> what the gateway knows of the order]
  notes,     \* [Ids -> how often its payment was notified]
  page,
  calls      \* calls of the page under way

vars == <<order, credited, gateway, notes, page, calls>>

-----------------------------------------------------------------------------
(* The server.                                                               *)

NoOrder == [status |-> "none", method |-> None, aged |-> FALSE]

\* walletOrderFromTopUp: an unpaid QR order is shown as expired after its time.
ShownStatus(i) ==
  IF order[i].status = "pending" /\ order[i].method = "wechat" /\ order[i].aged
  THEN "expired"
  ELSE order[i].status

\* GetWallet: the balance, by the orders it holds.
Wallet == [i \in Ids |-> IF credited[i] > 0 THEN "held" ELSE "none"]

\* ListWalletOrders.
OrdersShown == [i \in Ids |-> ShownStatus(i)]

Credit(i, status) ==
  /\ order' = [order EXCEPT ![i].status = status]
  /\ credited' = [credited EXCEPT ![i] = @ + 1]

\* Mutant: the notification is taken whatever the order's status.
CreditsAgain(i) == Credit(i, "success")

\* CompleteWechatPayTopUp and CompleteEpayTopUp: an order that succeeded is
\* acknowledged and left; the QR method also takes an order that failed.
CompleteTopUp(i) ==
  IF \/ order[i].status = "pending"
     \/ order[i].status = "failed" /\ order[i].method = "wechat"
  THEN Credit(i, "success")
  ELSE UNCHANGED <<order, credited>>

\* The gateway's notification of a payment.
Notify(i) ==
  /\ gateway[i] = "paid" /\ notes[i] < MaxNotes
  /\ CompleteTopUp(i)
  /\ notes' = [notes EXCEPT ![i] = @ + 1]
  /\ UNCHANGED <<gateway, page, calls>>

\* ManualCompleteTopUp, from the administrator's list of top-ups.
ManualCompleteTopUp(i) ==
  /\ "admin" \in Faults
  /\ order[i].status = "pending"
  /\ ~\E c \in DOMAIN calls : calls[c].order = i  \* the gateway has answered
  /\ Credit(i, "success")
  /\ UNCHANGED <<gateway, notes, page, calls>>

\* The gateway: an order is paid, or its time runs out.
GatewayPaid(i) ==
  /\ gateway[i] = "open"
  /\ gateway' = [gateway EXCEPT ![i] = "paid"]
  /\ UNCHANGED <<order, credited, notes, page, calls>>

\* The row's time is taken before the gateway's, so it runs out first.
OrderAges(i) ==
  /\ order[i].status # "none" /\ order[i].method = "wechat" /\ ~order[i].aged
  /\ order' = [order EXCEPT ![i].aged = TRUE]
  /\ UNCHANGED <<credited, gateway, notes, page, calls>>

GatewayCloses(i) ==
  /\ gateway[i] = "open" /\ order[i].aged
  /\ gateway' = [gateway EXCEPT ![i] = "closed"]
  /\ UNCHANGED <<order, credited, notes, page, calls>>

-----------------------------------------------------------------------------
(* The page.                                                                 *)

Call(what) == [what |-> what, order |-> None, then |-> None, answer |-> None]

\* refreshQrOrder keeps the order of the dialog it was called for.
PollCall == [Call("orders") EXCEPT !.then = page.qr]

PayCall(method) == [Call("pay") EXCEPT !.then = method]

Idle == calls = <<>> /\ ~page.timer

User == ~page.away /\ (Unhurried => Idle)

FreshPage == [wallet |-> None, orders |-> [i \in Ids |-> "none"], qr |-> None,
              paying |-> FALSE, said |-> None, timer |-> FALSE, away |-> FALSE]

Init ==
  /\ order = [i \in Ids |-> NoOrder]
  /\ credited = [i \in Ids |-> 0]
  /\ gateway = [i \in Ids |-> "none"]
  /\ notes = [i \in Ids |-> 0]
  /\ page = FreshPage
  /\ calls = <<Call("wallet"), Call("orders")>>

\* The refresh button; its own spinner only covers the orders.
Refresh ==
  /\ User /\ page.qr = None
  /\ Len(calls) + 2 <= MaxCalls
  /\ calls' = calls \o <<Call("wallet"), Call("orders")>>
  /\ UNCHANGED <<order, credited, gateway, notes, page>>

\* The timer of a page the gateway sent the browser back to.
TimerFires ==
  /\ page.timer
  /\ page' = [page EXCEPT !.timer = FALSE]
  /\ calls' = calls \o <<Call("wallet"), Call("orders")>>
  /\ UNCHANGED <<order, credited, gateway, notes>>

createPayment(method) ==
  /\ User /\ page.qr = None /\ page.wallet # None /\ ~page.paying
  /\ \E i \in Ids : order[i].status = "none"
  /\ page' = [page EXCEPT !.paying = TRUE]
  /\ calls' = Append(calls, PayCall(method))
  /\ UNCHANGED <<order, credited, gateway, notes>>

\* Every two seconds, and on the dialog's button; nothing keeps two polls of
\* one order from being under way.
refreshQrOrder ==
  /\ page.qr # None
  /\ Len(calls) < MaxCalls
  /\ calls' = Append(calls, PollCall)
  /\ UNCHANGED <<order, credited, gateway, notes, page>>

CloseQr ==
  /\ User /\ page.qr # None
  /\ page' = [page EXCEPT !.qr = None]
  /\ UNCHANGED <<order, credited, gateway, notes, calls>>

\* The browser comes back from the gateway's page: the page starts anew.
ComeBack ==
  /\ page.away
  /\ page' = [FreshPage EXCEPT !.timer = TRUE]
  /\ calls' = <<Call("wallet"), Call("orders")>>
  /\ UNCHANGED <<order, credited, gateway, notes>>

-----------------------------------------------------------------------------
(* The calls.                                                                *)

\* A failed call: the handler refused it, or its answer was lost.
Failure == [ok |-> FALSE, data |-> None]
Success(data) == [ok |-> TRUE, data |-> data]

\* CreateWalletPayment inserts the order before it asks the gateway.
InsertOrder(c) ==
  /\ calls[c].what = "pay" /\ calls[c].order = None /\ calls[c].answer = None
  /\ LET i == CHOOSE i \in Ids : /\ order[i].status = "none"
                                 /\ \A j \in Ids : order[j].status = "none" => i = j \/ i < j
     IN  /\ \E j \in Ids : order[j].status = "none"
         /\ order' = [order EXCEPT ![i] = [status |-> "pending", method |-> calls[c].then,
                                           aged |-> FALSE]]
         /\ calls' = [calls EXCEPT ![c].order = i]
  /\ UNCHANGED <<credited, gateway, notes, page>>

\* createWechatWalletPayment, createEpayWalletPayment: the gateway takes the
\* order and the checkout is answered.
Prepaid(c) ==
  /\ calls[c].what = "pay" /\ calls[c].order # None /\ calls[c].answer = None
  /\ gateway' = [gateway EXCEPT ![calls[c].order] = "open"]
  /\ calls' = [calls EXCEPT ![c].answer = Success(calls[c].order), ![c].order = None]
  /\ UNCHANGED <<order, credited, notes, page>>

\* failWalletOrder: the gateway refused the order, or took it and its answer
\* was lost; the checkout of the other methods is made without the gateway.
PrepayFails(c) ==
  /\ "prepay" \in Faults
  /\ calls[c].what = "pay" /\ calls[c].order # None /\ calls[c].answer = None
  /\ \E known \in {"none"} \cup (IF calls[c].then = "wechat" THEN {"open"} ELSE {}) :
       gateway' = [gateway EXCEPT ![calls[c].order] = known]
  /\ order' = [order EXCEPT ![calls[c].order].status = "failed"]
  /\ calls' = [calls EXCEPT ![c].answer = Failure, ![c].order = None]
  /\ UNCHANGED <<credited, notes, page>>

Read(c) ==
  /\ calls[c].what \in {"wallet", "orders"} /\ calls[c].answer = None
  /\ calls' = [calls EXCEPT ![c].answer =
                 Success(IF calls[c].what = "wallet" THEN Wallet ELSE OrdersShown)]
  /\ UNCHANGED <<order, credited, gateway, notes, page>>

Lose(c) ==
  /\ "lost" \in Faults
  /\ calls[c].what = "pay" => calls[c].order = None
  /\ calls' = [calls EXCEPT ![c].answer = Failure]
  /\ UNCHANGED <<order, credited, gateway, notes, page>>

Rest(c) == RemoveAt(calls, c)

\* loadWallet.  After a poll that found its order paid, the success is
\* announced once the balance is there, even if it could not be read.
WalletReturns(c) ==
  /\ calls[c].what = "wallet"
  /\ page' = [page EXCEPT
       !.wallet = IF calls[c].answer.ok THEN calls[c].answer.data ELSE @,
       !.said = IF calls[c].then = None THEN @ ELSE <<"paid", calls[c].then>>]
  /\ calls' = Rest(c)

\* loadOrders, and refreshQrOrder when the call came from a dialog.
OrdersReturn(c) ==
  /\ calls[c].what = "orders"
  /\ LET call == calls[c]
         found == IF call.then = None \/ ~call.answer.ok THEN "none"
                  ELSE call.answer.data[call.then]
         next == IF call.answer.ok THEN [page EXCEPT !.orders = call.answer.data] ELSE page
     IN  CASE found = "success" ->
                /\ page' = [next EXCEPT !.qr = None]
                /\ calls' = Append(Rest(c), [Call("wallet") EXCEPT !.then = call.then])
           [] found \in {"failed", "expired"} ->
                /\ page' = [next EXCEPT !.qr = None, !.said = <<"void", call.then>>]
                /\ calls' = Rest(c)
           [] OTHER -> page' = next /\ calls' = Rest(c)

\* createPayment goes on: a QR code is shown, or the browser leaves, and with
\* it every call of the page is gone.
PayReturns(c) ==
  /\ calls[c].what = "pay"
  /\ LET call == calls[c]
     IN  CASE ~call.answer.ok ->
                page' = [page EXCEPT !.paying = FALSE] /\ calls' = Rest(c)
           [] call.answer.ok /\ call.then = "wechat" ->
                /\ page' = [page EXCEPT !.paying = FALSE, !.qr = call.answer.data]
                /\ calls' = Append(Rest(c), Call("orders"))
           [] OTHER -> page' = [FreshPage EXCEPT !.away = TRUE] /\ calls' = <<>>

Return(c) ==
  /\ calls[c].answer # None
  /\ WalletReturns(c) \/ OrdersReturn(c) \/ PayReturns(c)
  /\ UNCHANGED <<order, credited, gateway, notes>>

Next ==
  \/ \E i \in Ids : \/ Notify(i) \/ ManualCompleteTopUp(i)
                    \/ GatewayPaid(i) \/ OrderAges(i) \/ GatewayCloses(i)
  \/ Refresh \/ TimerFires \/ refreshQrOrder \/ CloseQr \/ ComeBack
  \/ \E method \in Methods : createPayment(method)
  \/ \E c \in DOMAIN calls : \/ InsertOrder(c) \/ Prepaid(c) \/ PrepayFails(c)
                             \/ Read(c) \/ Lose(c) \/ Return(c)

Spec == Init /\ [][Next]_vars

-----------------------------------------------------------------------------
(* Properties.                                                               *)

Statuses == {"none", "pending", "success", "failed"}

\* Every variable keeps its type.
TypeOK ==
  /\ order \in [Ids -> [status : Statuses, method : Methods \cup {None}, aged : BOOLEAN]]
  /\ credited \in [Ids -> Nat]
  /\ gateway \in [Ids -> {"none", "open", "paid", "closed"}]
  /\ notes \in [Ids -> 0 .. MaxNotes]
  /\ page.qr \in Ids \cup {None}
  /\ page.orders \in [Ids -> Statuses \cup {"expired"}]

\* However often a payment is notified, and whether an administrator completes
\* the order too, it is credited once, and only the orders that were are shown
\* as paid (CompleteWechatPayTopUp, ManualCompleteTopUp, walletOrderFromTopUp).
CreditedOnce ==
  /\ \A i \in Ids : credited[i] = IF order[i].status = "success" THEN 1 ELSE 0
  /\ \A i \in Ids : page.orders[i] = "success" => credited[i] = 1

\* When the page announces that an order was paid, its credits are in the
\* balance the page shows, and stay there (refreshQrOrder, loadWallet).
AnnouncedIsInBalance ==
  page.said # None /\ page.said[1] = "paid" =>
     /\ credited[page.said[2]] = 1
     /\ "lost" \notin Faults => page.wallet # None /\ page.wallet[page.said[2]] = "held"

\* The page closes the QR code of an order only when that order has ended, or
\* because the user or the browser left it (refreshQrOrder).
QrClosesForItsOrder ==
  page.qr # None /\ page'.qr # page.qr =>
     CloseQr \/ ShownStatus(page.qr) \in {"success", "failed", "expired"}

=============================================================================
